--------------------------- MODULE UldSettingsProofs ---------------------------
(***************************************************************************)
(* Proofs about UldSettings, for any inputs of the setters, any targets of a *)
(* calibration, any number of calls and of exchanges that fail: the blocks    *)
(* keep their types, a setting that was set is read back, the others are      *)
(* kept, no byte that nobody set gets into the firmware unreported, the       *)
(* calibration puts back what it found, and the zones, the offset and the     *)
(* crosstalk stay of one resolution.                                          *)
(***************************************************************************)
EXTENDS UldSettings, TLAPS

-----------------------------------------------------------------------------
(* The blocks.                                                              *)

Bytes == Nat \cup {Junk}

Positions(b) ==
  IF b = "zone" THEN {0, 1, 4, 5, Rest} ELSE IF b = "dss" THEN {4, 6, 9, Rest}
  ELSE IF b = "frequency" THEN {1, Rest} ELSE IF b = "sharpener" THEN {13, Rest}
  ELSE IF b = "mode" THEN {1, 3, Rest} ELSE IF b = "target" THEN {0, 2, 4}
  ELSE IF b = "single" THEN {0} ELSE {0, Rest}

\* The two sides of the grid of zones are always those of a resolution.
Square(f) ==
  /\ f[0] = f[1] /\ f[0] \in {4, 8}
  /\ f[4] \in {4, 8} /\ f[5] \in {4, 8}

IsBlock(b, f) == f \in [Positions(b) -> Bytes] /\ (b = "zone" => Square(f))

IsDev(d) == d = [b \in Blocks |-> d[b]] /\ \A b \in Blocks : IsBlock(b, d[b])

AllJunk(b) == [p \in Positions(b) |-> Junk]
IsBuf(b, f) == IsBlock(b, f) \/ f = AllJunk(b)

LEMMA RawZone ==
  ASSUME NEW v
  PROVE  LET f == Raw("resolution", v) IN DOMAIN f = {0, 1, 4, 5} /\ Square(f)
BY DEF Raw, Square

LEMMA RawOthers ==
  ASSUME NEW v
  PROVE  /\ Raw("frequency", v) = Only(1, v)
         /\ Raw("time", v) = Only(0, v * 1000)
         /\ Raw("sharpener", v) = Only(13, (v * 255) \div 100)
         /\ Raw("order", v) = Only(0, v)
         /\ Raw("margin", v) = Only(0, v * 2048)
         /\ DOMAIN Raw("mode", v) \subseteq {1, 3}
         /\ \A p \in DOMAIN Raw("mode", v) : Raw("mode", v)[p] \in {1, 2, 3}
         /\ v \in {1, 3} => DOMAIN Raw("mode", v) = {1, 3} /\ Raw("mode", v)[1] = v
BY DEF Raw, NoBytes

LEMMA DefaultIsDev == IsDev(DefaultDev)
<1> USE DEF DefaultDev, Positions, Bytes, Rest
<1>0. DefaultDev = [b \in Blocks |-> DefaultDev[b]]
  BY DEF Blocks
<1>1. IsBlock("zone", DefaultDev["zone"])
  BY RawZone DEF IsBlock, Block, Square
<1>2. IsBlock("dss", DefaultDev["dss"])
  BY DEF IsBlock, Block, DssRaw
<1>3. /\ IsBlock("frequency", DefaultDev["frequency"]) /\ IsBlock("time", DefaultDev["time"])
      /\ IsBlock("sharpener", DefaultDev["sharpener"]) /\ IsBlock("order", DefaultDev["order"])
      /\ IsBlock("margin", DefaultDev["margin"])
  BY DEF IsBlock, Block, Only
<1>4. IsBlock("mode", DefaultDev["mode"])
  BY RawOthers DEF IsBlock, Block
<1>5. IsBlock("target", DefaultDev["target"]) /\ IsBlock("single", DefaultDev["single"])
  BY DEF IsBlock, DefaultTarget, SingleRaw, Only
<1> QED BY <1>0, <1>1, <1>2, <1>3, <1>4, <1>5 DEF IsDev, Blocks

LEMMA CalibrationIsDev == \A b \in Blocks \ {"single"} : IsBlock(b, CalibrationDev[b])
<1> USE DEF CalibrationDev, Positions, Bytes, Rest
<1>1. IsBlock("zone", CalibrationDev["zone"])
  BY RawZone DEF IsBlock, Block, Square
<1>2. IsBlock("dss", CalibrationDev["dss"])
  BY DEF IsBlock, Block, DssRaw
<1>3. /\ IsBlock("frequency", CalibrationDev["frequency"]) /\ IsBlock("time", CalibrationDev["time"])
      /\ IsBlock("sharpener", CalibrationDev["sharpener"]) /\ IsBlock("order", CalibrationDev["order"])
      /\ IsBlock("margin", CalibrationDev["margin"])
  BY DEF IsBlock, Block, Only
<1>4. IsBlock("mode", CalibrationDev["mode"]) /\ IsBlock("target", CalibrationDev["target"])
  BY DEF IsBlock, Block, DefaultTarget
<1> QED BY <1>1, <1>2, <1>3, <1>4 DEF Blocks

LEMMA DefaultPositions == \A b \in Blocks : DOMAIN DefaultDev[b] = Positions(b)
BY DefaultIsDev DEF IsDev, IsBlock

\* A write of a block that was read keeps the type of the block.
LEMMA EditedBlock ==
  ASSUME NEW b \in Blocks, NEW f, IsBuf(b, f), NEW e, \A p \in DOMAIN e : e[p] \in Bytes,
         b = "zone" => DOMAIN e = {0, 1, 4, 5} /\ Square(e)
  PROVE  IsBlock(b, Edited(f, e))
<1>1. f \in [Positions(b) -> Bytes]
  BY DEF IsBuf, IsBlock, AllJunk, Bytes
<1>2. Edited(f, e) \in [Positions(b) -> Bytes]
  BY <1>1 DEF Edited
<1>3. ASSUME b = "zone" PROVE Square(Edited(f, e))
  BY <1>1, <1>3 DEF Edited, Square, Positions
<1> QED BY <1>2, <1>3 DEF IsBlock

\* What the getters make of a block without Junk.
Plain(f) == \A p \in DOMAIN f \ {Rest} : f[p] # Junk

LEMMA GetOf ==
  ASSUME NEW f, Plain(f)
  PROVE  /\ Get("resolution", f) = f[0] * f[1]
         /\ Get("frequency", f) = f[1]
         /\ Get("time", f) = f[0] \div 1000
         /\ Get("sharpener", f) = (f[13] * 100) \div 255
         /\ Get("order", f) = f[0]
         /\ Get("margin", f) = f[0] \div 2048
         /\ Get("mode", f) = IF f[1] = 1 THEN 1 ELSE 3
BY DEF Get, Plain

LEMMA GetJunk == \A name, f : ~Plain(f) => Get(name, f) = Junk
BY DEF Get, Plain

LEMMA GetType ==
  ASSUME NEW name \in Settings, NEW f, IsBuf(BlockOf(name), f)
  PROVE  /\ Get(name, f) \in Bytes /\ (name = "resolution" => Get(name, f) \in {16, 64, Junk})
         /\ Plain(f) => Get(name, f) \in Nat
<1>1. CASE ~Plain(f)
  BY <1>1, GetJunk DEF Bytes
<1>2. CASE Plain(f)
  <2>1. f # AllJunk(BlockOf(name))
    BY <1>2 DEF Plain, AllJunk, Positions, BlockOf, Settings, Rest
  <2>2. IsBlock(BlockOf(name), f)
    BY <2>1 DEF IsBuf
  <2>3. \A p \in Positions(BlockOf(name)) \ {Rest} : f[p] \in Nat
    BY <1>2, <2>2 DEF IsBlock, Bytes, Plain
  <2> USE <1>2, <2>3, GetOf DEF Positions, BlockOf, Rest, Bytes
  <2>4. CASE name = "resolution"
    <3>1. (f[0] = 4 /\ f[1] = 4) \/ (f[0] = 8 /\ f[1] = 8)
      BY <2>2, <2>4 DEF IsBlock, Square
    <3> QED BY <2>4, <3>1
  <2>5. CASE name \in {"frequency", "order"}
    BY <2>5
  <2>6. CASE name = "time"
    BY <2>6
  <2>7. CASE name = "sharpener"
    BY <2>7
  <2>8. CASE name = "margin"
    BY <2>8
  <2>9. CASE name = "mode"
    BY <2>9
  <2> QED BY <2>4, <2>5, <2>6, <2>7, <2>8, <2>9 DEF Settings
<1> QED BY <1>1, <1>2
-----------------------------------------------------------------------------
(* Programs: what is left of a function.                                    *)

Kinds == {"read", "write", "refuse", "offset", "xtalk", "save", "restore", "output", "configure",
          "calibrate", "fetch", "take"}
Objects == Blocks \cup Settings
             \cup {"value", "grid", "list", "calibration", "default", "xtalk", "driver", "caller"}
Edits == UNION {[D -> Bytes] : D \in SUBSET (0 .. 15)}
Arguments == Edits \cup Nat \cup Settings \cup {"zones"}

Entry ==
  {e \in Kinds \X Objects \X Arguments :
     /\ e[1] = "read" => e[2] \in Blocks \ {"single"}
     /\ e[1] = "write" => /\ e[2] \in Blocks /\ e[3] \in Edits
                          /\ e[2] = "zone" => DOMAIN e[3] = {0, 1, 4, 5} /\ Square(e[3])
                          /\ e[2] = "single" => e[3] \in [{0} -> {0, 1}]
     /\ e[1] = "save" => /\ e[2] \in Settings /\ e[3] \in {e[2], "zones"}
                         /\ e[3] = "zones" => e[2] = "resolution"
     /\ e[1] = "restore" => e[2] \in Settings
     /\ e[1] = "refuse" => e[2] \in {"value", "mode"}}

\* An entry that writes no Junk.
CleanEntry == {e \in Entry : e[1] = "write" => \A p \in DOMAIN e[3] : e[3][p] # Junk}

\* The block an entry expects in temp_buffer, and what leaves it there.
Needs(e) ==
  IF e[1] = "write" /\ e[2] # "single" THEN e[2]
  ELSE IF e[1] = "save" THEN BlockOf(e[2])
  ELSE IF e[1] = "refuse" THEN (IF e[2] = "mode" THEN "mode" ELSE "none") ELSE "none"
Leaves(e, b) == e[1] \in {"read", "refuse"} /\ e[2] = b

Chained(s) == \A k \in 2 .. Len(s) : Needs(s[k]) # "none" => Leaves(s[k - 1], Needs(s[k]))
Fresh(s) == s # <<>> => Needs(s[1]) = "none"

Programs == Seq(Entry)
Proper(s) == s \in Seq(CleanEntry) /\ Chained(s) /\ Fresh(s)

LEMMA CleanPrograms == \A s \in Seq(CleanEntry) : s \in Programs
BY DEF CleanEntry, Programs

LEMMA JoinIndex ==
  ASSUME NEW S, NEW p \in Seq(S), NEW q \in Seq(S)
  PROVE  /\ p \o q \in Seq(S) /\ Len(p \o q) = Len(p) + Len(q)
         /\ Len(p) \in Nat /\ Len(q) \in Nat
         /\ \A m \in 1 .. Len(p) : (p \o q)[m] = p[m]
         /\ \A m \in 1 .. Len(q) : (p \o q)[Len(p) + m] = q[m]
         /\ \A m \in Len(p) + 1 .. Len(p) + Len(q) : (p \o q)[m] = q[m - Len(p)]
OBVIOUS

LEMMA TailIndex ==
  ASSUME NEW S, NEW s \in Seq(S), s # <<>>
  PROVE  /\ Tail(s) \in Seq(S) /\ Len(Tail(s)) = Len(s) - 1 /\ Len(s) \in Nat /\ Len(s) >= 1
         /\ Head(s) = s[1] /\ s[1] \in S
         /\ \A m \in 1 .. Len(Tail(s)) : Tail(s)[m] = s[m + 1]
OBVIOUS

LEMMA JoinChained ==
  ASSUME NEW p \in Programs, NEW q \in Programs, Chained(p), Chained(q), Fresh(q)
  PROVE  p \o q \in Programs /\ Chained(p \o q) /\ (Fresh(p) => Fresh(p \o q))
<1> DEFINE r == p \o q
<1>1. /\ r \in Programs /\ Len(r) = Len(p) + Len(q) /\ Len(p) \in Nat /\ Len(q) \in Nat
      /\ \A m \in 1 .. Len(p) : r[m] = p[m]
      /\ \A m \in Len(p) + 1 .. Len(r) : r[m] = q[m - Len(p)]
  BY JoinIndex DEF Programs
<1> HIDE DEF r
<1>2. ASSUME NEW k \in 2 .. Len(r), Needs(r[k]) # "none" PROVE Leaves(r[k - 1], Needs(r[k]))
  <2>1. CASE k <= Len(p)
    BY <1>1, <1>2, <2>1 DEF Chained
  <2>2. CASE k = Len(p) + 1
    <3>1. r[k] = q[1] /\ Len(q) >= 1
      BY <1>1, <1>2, <2>2
    <3>2. q # <<>>
      BY <3>1
    <3> QED BY <1>2, <3>1, <3>2 DEF Fresh
  <2>3. CASE k > Len(p) + 1
    <3>1. r[k] = q[k - Len(p)] /\ r[k - 1] = q[(k - Len(p)) - 1] /\ k - Len(p) \in 2 .. Len(q)
      BY <1>1, <1>2, <2>3
    <3> QED BY <1>2, <3>1 DEF Chained
  <2> QED BY <1>1, <2>1, <2>2, <2>3
<1>3. ASSUME Fresh(p) PROVE Fresh(r)
  <2>1. CASE p = <<>>
    <3>1. \A m \in 1 .. Len(q) : r[m] = q[m]
      BY <1>1, <2>1
    <3>2. r # <<>> => q # <<>> /\ Len(q) >= 1
      BY <1>1, <2>1 DEF Programs
    <3> QED BY <3>1, <3>2 DEF Fresh
  <2>2. CASE p # <<>>
    <3>1. r[1] = p[1]
      BY <1>1, <2>2 DEF Programs
    <3> QED BY <1>3, <2>2, <3>1 DEF Fresh
  <2> QED BY <2>1, <2>2
<1> QED BY <1>1, <1>2, <1>3 DEF Chained, r

LEMMA JoinProper == \A p, q : Proper(p) /\ Proper(q) => Proper(p \o q)
<1> SUFFICES ASSUME NEW p, NEW q, Proper(p), Proper(q) PROVE Proper(p \o q)
  OBVIOUS
<1>1. p \o q \in Seq(CleanEntry)
  BY JoinIndex DEF Proper
<1> QED BY <1>1, JoinChained, CleanPrograms DEF Proper

LEMMA TailChained ==
  ASSUME NEW s \in Programs, s # <<>>, Chained(s)
  PROVE  /\ Tail(s) \in Programs /\ Chained(Tail(s))
         /\ Tail(s) # <<>> /\ Needs(Tail(s)[1]) # "none" => Leaves(Head(s), Needs(Tail(s)[1]))
<1>1. /\ Tail(s) \in Programs /\ Len(Tail(s)) = Len(s) - 1 /\ Len(s) \in Nat /\ Len(s) >= 1
      /\ Head(s) = s[1] /\ \A m \in 1 .. Len(Tail(s)) : Tail(s)[m] = s[m + 1]
  BY TailIndex DEF Programs
<1>2. Chained(Tail(s))
  <2> SUFFICES ASSUME NEW k \in 2 .. Len(Tail(s)), Needs(Tail(s)[k]) # "none"
               PROVE  Leaves(Tail(s)[k - 1], Needs(Tail(s)[k]))
    BY DEF Chained
  <2>1. Tail(s)[k] = s[k + 1] /\ Tail(s)[k - 1] = s[(k + 1) - 1] /\ k + 1 \in 2 .. Len(s)
    BY <1>1
  <2> QED BY <2>1 DEF Chained
<1>3. ASSUME Tail(s) # <<>>, Needs(Tail(s)[1]) # "none" PROVE Leaves(Head(s), Needs(Tail(s)[1]))
  <2>1. Len(Tail(s)) >= 1
    BY <1>1, <1>3 DEF Programs
  <2>2. Tail(s)[1] = s[2] /\ 2 \in 2 .. Len(s)
    BY <1>1, <2>1
  <2> QED BY <1>1, <1>3, <2>2 DEF Chained
<1> QED BY <1>1, <1>2, <1>3
-----------------------------------------------------------------------------
(* The functions.                                                           *)

LEMMA EditOf ==
  ASSUME NEW D \in SUBSET (0 .. 15), NEW e \in [D -> Bytes]
  PROVE  e \in Edits
BY DEF Edits

LEMMA OnlyEdit ==
  ASSUME NEW p \in 0 .. 15, NEW v \in Bytes
  PROVE  Only(p, v) \in Edits /\ DOMAIN Only(p, v) = {p} /\ Only(p, v)[p] = v
<1>1. Only(p, v) \in [{p} -> Bytes]
  BY DEF Only
<1> QED BY <1>1, EditOf DEF Only

LEMMA NotJunk == \A v \in Nat : v # Junk /\ v \in Bytes
BY JunkAssumption DEF Bytes

\* The edit of a setter holds no Junk.
LEMMA RawEdit ==
  ASSUME NEW name \in Settings, NEW v \in Nat
  PROVE  /\ Raw(name, v) \in Edits
         /\ \A p \in DOMAIN Raw(name, v) : Raw(name, v)[p] \in Nat
<1>1. CASE name = "resolution"
  <2>1. Raw(name, v) \in [{0, 1, 4, 5} -> Nat]
    BY <1>1 DEF Raw
  <2> QED BY <2>1, EditOf DEF Bytes
<1>2. ASSUME NEW p \in 0 .. 15, NEW w \in Nat, Raw(name, v) = Only(p, w)
      PROVE  Raw(name, v) \in Edits /\ \A q \in DOMAIN Raw(name, v) : Raw(name, v)[q] \in Nat
  BY <1>2, OnlyEdit, NotJunk
<1>3. CASE name \in {"frequency", "time", "order", "margin"}
  BY <1>2, <1>3, RawOthers
<1>4. CASE name = "sharpener"
  <2>1. (v * 255) \div 100 \in Nat
    OBVIOUS
  <2> QED BY <1>2, <1>4, <2>1, RawOthers
<1>5. CASE name = "mode"
  <2>1. Raw(name, v) \in [DOMAIN Raw(name, v) -> Nat] /\ DOMAIN Raw(name, v) \subseteq 0 .. 15
    <3>1. CASE v \in {1, 3}
      BY <1>5, <3>1 DEF Raw
    <3>2. CASE v \notin {1, 3}
      BY <1>5, <3>2 DEF Raw, NoBytes
    <3> QED BY <3>1, <3>2
  <2> QED BY <2>1, EditOf DEF Bytes
<1> QED BY <1>1, <1>3, <1>4, <1>5 DEF Settings

LEMMA DssEdit ==
  ASSUME NEW v
  PROVE  DssRaw(v) \in Edits /\ \A p \in DOMAIN DssRaw(v) : DssRaw(v)[p] \in Nat
<1>1. DssRaw(v) \in [{4, 6, 9} -> Nat]
  BY DEF DssRaw
<1> QED BY <1>1, EditOf DEF Bytes

LEMMA EntryOf ==
  ASSUME NEW k \in Kinds \ {"read", "write", "save", "restore", "refuse"}, NEW o \in Objects, NEW a \in Arguments
  PROVE  <<k, o, a>> \in CleanEntry
BY DEF Entry, CleanEntry

LEMMA RefuseEntry == \A o \in {"value", "mode"} : <<"refuse", o, 0>> \in CleanEntry
BY DEF Entry, CleanEntry, Kinds, Objects, Arguments, Blocks

LEMMA ReadEntry ==
  ASSUME NEW b \in Blocks \ {"single"}, NEW e \in Edits
  PROVE  <<"read", b, e>> \in CleanEntry
BY DEF Entry, CleanEntry, Kinds, Objects, Arguments

LEMMA WriteEntry ==
  ASSUME NEW b \in Blocks \ {"single"}, NEW e \in Edits,
         b = "zone" => DOMAIN e = {0, 1, 4, 5} /\ Square(e)
  PROVE  <<"write", b, e>> \in Entry
BY DEF Entry, Kinds, Objects, Arguments

LEMMA SingleEntry == \A v : <<"write", "single", SingleRaw(v)>> \in CleanEntry
<1> SUFFICES ASSUME NEW v PROVE <<"write", "single", SingleRaw(v)>> \in CleanEntry
  OBVIOUS
<1>1. SingleRaw(v) \in [{0} -> {0, 1}]
  BY DEF SingleRaw, Only
<1>2. SingleRaw(v) \in Edits
  BY <1>1, EditOf DEF Bytes
<1> QED BY <1>1, <1>2, NotJunk DEF Entry, CleanEntry, Kinds, Objects, Arguments, Blocks

LEMMA SaveEntry ==
  ASSUME NEW name \in Settings
  PROVE  /\ <<"save", name, name>> \in CleanEntry /\ <<"restore", name, 0>> \in CleanEntry
         /\ <<"save", "resolution", "zones">> \in CleanEntry
BY DEF Entry, CleanEntry, Kinds, Objects, Arguments, Settings

LEMMA NoEdit == NoBytes \in Edits
<1>1. NoBytes \in [{} -> Bytes]
  BY DEF NoBytes
<1> QED BY <1>1, EditOf

\* A pair of a read and a write.
LEMMA ReplaceChained ==
  ASSUME NEW b \in Blocks \ {"single"}, NEW e \in Edits,
         b = "zone" => DOMAIN e = {0, 1, 4, 5} /\ Square(e)
  PROVE  /\ Replace(b, e) \in Programs /\ Chained(Replace(b, e)) /\ Fresh(Replace(b, e))
         /\ (\A p \in DOMAIN e : e[p] # Junk) => Proper(Replace(b, e))
<1>1. <<"read", b, e>> \in CleanEntry /\ <<"write", b, e>> \in Entry
  BY ReadEntry, WriteEntry
<1>2. Replace(b, e) = <<<<"read", b, e>>, <<"write", b, e>>>>
  BY DEF Replace
<1>3. Replace(b, e) \in Programs
  BY <1>1, <1>2 DEF Programs, CleanEntry
<1>4. Chained(Replace(b, e)) /\ Fresh(Replace(b, e))
  BY <1>2 DEF Chained, Fresh, Needs, Leaves, Blocks
<1>5. ASSUME \A p \in DOMAIN e : e[p] # Junk PROVE Replace(b, e) \in Seq(CleanEntry)
  <2>1. <<"write", b, e>> \in CleanEntry
    BY <1>1, <1>5 DEF CleanEntry
  <2> QED BY <1>1, <1>2, <2>1
<1> QED BY <1>3, <1>4, <1>5 DEF Proper

LEMMA RefusedProper == Proper(Refused("value"))
<1>1. <<"refuse", "value", 0>> \in CleanEntry
  BY RefuseEntry
<1> QED BY <1>1 DEF Refused, Proper, Chained, Fresh, Needs

LEMMA GridsProper == \A v \in Nat : Proper(SendGrids(v))
<1> SUFFICES ASSUME NEW v \in Nat PROVE Proper(SendGrids(v))
  OBVIOUS
<1>1. <<"offset", "grid", v>> \in CleanEntry /\ <<"xtalk", "grid", v>> \in CleanEntry
  BY EntryOf DEF Kinds, Objects, Arguments
<1> QED BY <1>1 DEF SendGrids, Proper, Chained, Fresh, Needs

LEMMA ResolutionProper == \A v \in Nat : Proper(SetResolution(v))
<1> SUFFICES ASSUME NEW v \in Nat PROVE Proper(SetResolution(v))
  OBVIOUS
<1>1. Proper(Replace("dss", DssRaw(v)))
  BY DssEdit, ReplaceChained, NotJunk DEF Blocks
<1>2. Proper(Replace("zone", Raw("resolution", v)))
  BY RawEdit, RawZone, ReplaceChained, NotJunk DEF Blocks, Settings
<1>3. Proper(Replace("dss", DssRaw(v)) \o Replace("zone", Raw("resolution", v)))
  BY <1>1, <1>2, JoinProper
<1> QED BY <1>3, RefusedProper, GridsProper, JoinProper DEF SetResolution

LEMMA Concatenated ==
  \A a, b, c, d :
    /\ LET r == <<a>> \o <<>> \o <<c, d>> IN Len(r) = 3 /\ r[1] = a /\ r[2] = c /\ r[3] = d
    /\ LET r == <<a>> \o <<b>> \o <<c, d>>
       IN  Len(r) = 4 /\ r[1] = a /\ r[2] = b /\ r[3] = c /\ r[4] = d
OBVIOUS

\* The four entries of set_ranging_mode, the second for an unknown mode only.
ModeRead == <<"read", "mode", NoBytes>>
ModeRefuse == <<"refuse", "mode", 0>>
ModeWrite(v) == <<"write", "mode", Raw("mode", v)>>
SingleWrite(v) == <<"write", "single", SingleRaw(v)>>

LEMMA ModeProgram ==
  ASSUME NEW v
  PROVE  LET s == SetRangingMode(v) IN
         /\ Valid("mode", v) =>
              Len(s) = 3 /\ s[1] = ModeRead /\ s[2] = ModeWrite(v) /\ s[3] = SingleWrite(v)
         /\ ~Valid("mode", v) =>
              /\ Len(s) = 4 /\ s[1] = ModeRead /\ s[2] = ModeRefuse
              /\ s[3] = ModeWrite(v) /\ s[4] = SingleWrite(v)
<1>1. CASE Valid("mode", v)
  <2>1. SetRangingMode(v) = <<ModeRead>> \o <<>> \o <<ModeWrite(v), SingleWrite(v)>>
    BY <1>1 DEF SetRangingMode, ModeRead, ModeWrite, SingleWrite
  <2> QED BY <1>1, <2>1, Concatenated
<1>2. CASE ~Valid("mode", v)
  <2>1. SetRangingMode(v) = <<ModeRead>> \o <<ModeRefuse>> \o <<ModeWrite(v), SingleWrite(v)>>
    BY <1>2 DEF SetRangingMode, Refused, ModeRead, ModeRefuse, ModeWrite, SingleWrite
  <2> QED BY <1>2, <2>1, Concatenated
<1> QED BY <1>1, <1>2

LEMMA ModeEntries ==
  ASSUME NEW v \in Nat
  PROVE  /\ ModeRead \in CleanEntry /\ ModeRefuse \in CleanEntry
         /\ ModeWrite(v) \in CleanEntry /\ SingleWrite(v) \in CleanEntry
<1>1. ModeRead \in CleanEntry
  BY ReadEntry, NoEdit DEF Blocks, ModeRead
<1>2. ModeRefuse \in CleanEntry
  BY RefuseEntry DEF ModeRefuse
<1>3. ModeWrite(v) \in CleanEntry
  <2>1. ModeWrite(v) \in Entry
    BY WriteEntry, RawEdit DEF Blocks, Settings, ModeWrite
  <2> QED BY <2>1, RawEdit, NotJunk DEF CleanEntry, Settings, ModeWrite
<1> QED BY <1>1, <1>2, <1>3, SingleEntry DEF SingleWrite

LEMMA ModeProper == \A v \in Nat : Proper(SetRangingMode(v))
<1> SUFFICES ASSUME NEW v \in Nat PROVE Proper(SetRangingMode(v))
  OBVIOUS
<1>1. SetRangingMode(v) \in Seq(CleanEntry)
  <2>1. /\ <<ModeRead>> \in Seq(CleanEntry) /\ <<ModeRefuse>> \in Seq(CleanEntry)
        /\ <<ModeWrite(v), SingleWrite(v)>> \in Seq(CleanEntry) /\ <<>> \in Seq(CleanEntry)
    BY ModeEntries
  <2>2. SetRangingMode(v) = <<ModeRead>> \o (IF Valid("mode", v) THEN <<>> ELSE <<ModeRefuse>>)
                              \o <<ModeWrite(v), SingleWrite(v)>>
    BY DEF SetRangingMode, Refused, ModeRead, ModeRefuse, ModeWrite, SingleWrite
  <2> QED BY <2>1, <2>2, JoinIndex
<1>2. Chained(SetRangingMode(v)) /\ Fresh(SetRangingMode(v))
  BY ModeProgram DEF Chained, Fresh, Needs, Leaves, ModeRead, ModeRefuse, ModeWrite, SingleWrite
<1> QED BY <1>1, <1>2 DEF Proper

LEMMA SetterProper == \A name \in Settings, v \in Nat : Proper(Setter(name, v))
<1> SUFFICES ASSUME NEW name \in Settings, NEW v \in Nat PROVE Proper(Setter(name, v))
  OBVIOUS
<1>1. CASE name \in {"resolution", "mode"}
  BY <1>1, ResolutionProper, ModeProper DEF Setter
<1>2. CASE name \notin {"resolution", "mode"}
  <2>1. name \in Blocks \ {"single", "zone"}
    BY <1>2 DEF Settings, Blocks
  <2>2. Proper(Replace(name, Raw(name, v)))
    BY <2>1, RawEdit, ReplaceChained, NotJunk
  <2> QED BY <1>2, <2>2, RefusedProper DEF Setter
<1> QED BY <1>1, <1>2

LEMMA GetterProper == \A name \in Settings : Proper(Getter(name))
<1> SUFFICES ASSUME NEW name \in Settings PROVE Proper(Getter(name))
  OBVIOUS
<1>1. BlockOf(name) \in Blocks \ {"single"}
  BY DEF BlockOf, Settings, Blocks
<1>2. <<"read", BlockOf(name), NoBytes>> \in CleanEntry
  BY <1>1, ReadEntry, NoEdit
<1>3. <<"save", name, name>> \in CleanEntry
  BY SaveEntry
<1>4. Getter(name) \in Seq(CleanEntry)
  BY <1>2, <1>3 DEF Getter
<1>5. Chained(Getter(name)) /\ Fresh(Getter(name))
  BY DEF Getter, Chained, Fresh, Needs, Leaves
<1> QED BY <1>4, <1>5 DEF Proper

LEMMA PutBackProper == \A name \in Settings : Proper(PutBack(name))
<1> SUFFICES ASSUME NEW name \in Settings PROVE Proper(PutBack(name))
  OBVIOUS
<1>1. <<"restore", name, 0>> \in CleanEntry
  BY SaveEntry
<1>2. PutBack(name) \in Seq(CleanEntry)
  BY <1>1 DEF PutBack
<1> QED BY <1>2 DEF PutBack, Proper, Chained, Fresh, Needs

LEMMA EachProper == Proper(Each(Getter)) /\ Proper(RestoreAll)
<1>1. Proper(Each(Getter))
  BY GetterProper, JoinProper DEF Each, Settings
<1>2. Proper(RestoreAll)
  BY PutBackProper, JoinProper DEF RestoreAll, Each, Settings
<1> QED BY <1>1, <1>2

\* An exchange that asks nothing of temp_buffer.
LEMMA AloneProper ==
  ASSUME NEW k \in {"configure", "calibrate", "fetch", "take"},
         NEW o \in {"calibration", "default", "xtalk", "driver", "caller"}
  PROVE  Proper(<<<<k, o, 0>>>>)
<1>1. <<k, o, 0>> \in CleanEntry
  BY EntryOf DEF Kinds, Objects, Arguments
<1>2. <<<<k, o, 0>>>> \in Seq(CleanEntry)
  BY <1>1
<1> QED BY <1>2 DEF Proper, Chained, Fresh, Needs

LEMMA OutputProper == Proper(ProgramOutput)
<1>1. /\ <<"read", "zone", NoBytes>> \in CleanEntry
      /\ <<"save", "resolution", "zones">> \in CleanEntry
      /\ <<"output", "list", 0>> \in CleanEntry
  BY ReadEntry, NoEdit, SaveEntry, EntryOf DEF Kinds, Objects, Arguments, Blocks, Settings
<1>2. ProgramOutput \in Seq(CleanEntry)
  BY <1>1 DEF ProgramOutput
<1> QED BY <1>2 DEF ProgramOutput, Proper, Chained, Fresh, Needs, Leaves, BlockOf

LEMMA TargetProper == \A t \in Targets : Proper(SetTarget(t))
<1> SUFFICES ASSUME NEW t \in Targets PROVE Proper(SetTarget(t))
  OBVIOUS
<1>1. t[1] * 16 \in Nat /\ t[2] \in Nat /\ t[3] * 4 \in Nat
  BY TargetsAssumption
<1>2. \A p \in 0 .. 15, v \in Nat : Proper(Replace("target", Only(p, v)))
  BY OnlyEdit, ReplaceChained, NotJunk DEF Blocks
<1> HIDE DEF Proper
<1> QED BY <1>1, <1>2, JoinProper DEF SetTarget

\* What the program may call keeps the chain of reads and writes.
LEMMA CalibrateProper == \A t \in Targets : Proper(CalibrateXtalk(t))
<1> SUFFICES ASSUME NEW t \in Targets PROVE Proper(CalibrateXtalk(t))
  OBVIOUS
<1>1. Proper(MeasureTarget(t))
  BY TargetProper, OutputProper, AloneProper, JoinProper DEF MeasureTarget
<1>2. Proper(<<<<"fetch", "driver", 0>>, <<"configure", "default", 0>>>>)
  <2>1. <<"fetch", "driver", 0>> \in CleanEntry /\ <<"configure", "default", 0>> \in CleanEntry
    BY EntryOf DEF Kinds, Objects, Arguments
  <2>2. <<<<"fetch", "driver", 0>>, <<"configure", "default", 0>>>> \in Seq(CleanEntry)
    BY <2>1
  <2> QED BY <2>2 DEF Proper, Chained, Fresh, Needs
<1>3. Proper(SetResolution(64) \o MeasureTarget(t))
  BY <1>1, ResolutionProper, JoinProper
<1> QED BY <1>2, <1>3, EachProper, RefusedProper, JoinProper DEF CalibrateXtalk

LEMMA CaldataProper == Proper(GetCaldata) /\ Proper(SetCaldata)
<1>1. Proper(Getter("resolution")) /\ Proper(PutBack("resolution")) /\ Proper(SetResolution(64))
  BY GetterProper, PutBackProper, ResolutionProper DEF Settings
<1>2. Proper(<<<<"fetch", "caller", 0>>>>) /\ Proper(<<<<"take", "caller", 0>>>>)
  BY AloneProper
<1> QED BY <1>1, <1>2, JoinProper DEF GetCaldata, SetCaldata
-----------------------------------------------------------------------------
(* Types.                                                                   *)

Crosstalk == [origin : {"default", "calibrated", "junk"}, res : {16, 64}]
Ready(s, f) == s # <<>> /\ Needs(s[1]) # "none" => IsBuf(Needs(s[1]), f)

SavedType(s) ==
  /\ s = [n \in Settings \cup {"zones"} |-> s[n]]
  /\ \A n \in Settings : s[n] \in Bytes
  /\ s["zones"] \in {16, 64, Junk} /\ s["resolution"] \in {16, 64, Junk}

TInv ==
  /\ IsDev(dev) /\ IsDev(before)
  /\ grids \in {16, 64} /\ listed \in {16, 64, Junk}
  /\ xtalk \in Crosstalk /\ xtalkData \in Crosstalk /\ caller \in Crosstalk
  /\ SavedType(saved)
  /\ prog \in Programs /\ Chained(prog) /\ Ready(prog, buf)
  /\ status \in {"ok", "refused", "error"} /\ errorSeen \in BOOLEAN
  /\ call = "none" => prog = <<>> /\ buf = NoBytes
  /\ call \in Settings => arg \in Nat

LEMMA InitTyped == Init => TInv
<1> SUFFICES ASSUME Init PROVE TInv
  OBVIOUS
<1>1. prog = <<>> /\ prog \in Programs /\ Chained(prog) /\ Ready(prog, buf)
  BY DEF Init, Programs, Chained, Ready
<1>2. xtalk \in Crosstalk /\ xtalkData \in Crosstalk /\ caller \in Crosstalk
  BY DEF Init, Full, Crosstalk
<1>3. SavedType(saved)
  BY DEF Init, NothingSaved, SavedType, Bytes, Settings
<1> QED BY <1>1, <1>2, <1>3, DefaultIsDev DEF Init, TInv, Settings

\* One entry is done: what is left is a program that finds its block in temp_buffer.
LEMMA Advance ==
  ASSUME prog \in Programs, Chained(prog), prog # <<>>, NEW f,
         \A b \in Blocks : Leaves(Head(prog), b) => IsBuf(b, f)
  PROVE  Tail(prog) \in Programs /\ Chained(Tail(prog)) /\ Ready(Tail(prog), f)
<1>1. ASSUME Tail(prog) # <<>>, Needs(Tail(prog)[1]) # "none"
      PROVE  IsBuf(Needs(Tail(prog)[1]), f)
  <2>1. Tail(prog)[1] \in Entry
    BY <1>1, TailChained, TailIndex DEF Programs
  <2>2. Needs(Tail(prog)[1]) \in Blocks
    BY <1>1, <2>1 DEF Needs, Entry, BlockOf, Settings, Blocks
  <2> QED BY <1>1, <2>2, TailChained
<1> QED BY <1>1, TailChained DEF Ready

\* The entry that is next, and what it finds.
LEMMA AtEntry ==
  ASSUME TInv, NEW k, At(k)
  PROVE  /\ prog # <<>> /\ Head(prog) \in Entry /\ Head(prog) = prog[1] /\ Head(prog)[1] = k
         /\ Needs(Head(prog)) # "none" => IsBuf(Needs(Head(prog)), buf)
         /\ call # "none"
<1>1. prog # <<>> /\ prog \in Seq(Entry)
  BY DEF TInv, Programs, At
<1>2. Head(prog) = prog[1] /\ prog[1] \in Entry
  BY <1>1
<1> QED BY <1>1, <1>2 DEF TInv, At, Ready

\* What the exchanges that are not a read or a refusal leave of the program.
LEMMA Consume ==
  ASSUME TInv, NEW k \in Kinds \ {"read", "refuse"}, At(k)
  PROVE  Tail(prog) \in Programs /\ Chained(Tail(prog)) /\ Ready(Tail(prog), buf)
<1>1. \A b : ~Leaves(Head(prog), b)
  BY AtEntry DEF Leaves
<1> QED BY <1>1, AtEntry, Advance DEF TInv

LEMMA ReadTyped ==
  ASSUME TInv, NEW failed \in BOOLEAN, Read(failed)
  PROVE  TInv'
<1> USE DEF Other, Measurement, Bookkeeping
<1>1. /\ At("read") /\ Object \in Blocks /\ Head(prog)[2] = Object
      /\ DOMAIN dev[Object] = Positions(Object)
  BY AtEntry DEF Read, Entry, Object, TInv, IsDev, IsBlock
<1>2. IsBuf(Object, buf')
  BY <1>1 DEF Read, TInv, IsDev, IsBuf, AllJunk
<1>3. \A b \in Blocks : Leaves(Head(prog), b) => IsBuf(b, buf')
  BY <1>1, <1>2 DEF Leaves
<1>4. prog' \in Programs /\ Chained(prog') /\ Ready(prog', buf')
  BY <1>1, <1>3, AtEntry, Advance DEF Read, TInv
<1>5. call' # "none" /\ status' \in {"ok", "refused", "error"}
  BY <1>1, AtEntry DEF Read, Unless, TInv
<1> QED BY <1>4, <1>5 DEF Read, TInv

LEMMA WriteTyped ==
  ASSUME TInv, NEW failed \in BOOLEAN, Write(failed)
  PROVE  TInv'
<1> USE DEF Other, Measurement, Bookkeeping
<1>1. /\ At("write") /\ Head(prog) \in Entry /\ Head(prog)[2] = Object /\ Head(prog)[3] = Value
      /\ Object \in Blocks
  BY AtEntry DEF Write, Entry, Object, Value
<1>2. ASSUME Object # "single" PROVE IsBlock(Object, Edited(buf, Value))
  <2>1. Needs(Head(prog)) = Object
    BY <1>1, <1>2, AtEntry DEF Needs
  <2>2. IsBuf(Object, buf)
    BY <1>1, <2>1, AtEntry DEF Blocks
  <2>3. /\ \A p \in DOMAIN Value : Value[p] \in Bytes
        /\ Object = "zone" => DOMAIN Value = {0, 1, 4, 5} /\ Square(Value)
    <3>1. Value \in Edits /\ (Object = "zone" => DOMAIN Value = {0, 1, 4, 5} /\ Square(Value))
      BY <1>1, AtEntry DEF Entry, Write
    <3>2. PICK D \in SUBSET (0 .. 15) : Value \in [D -> Bytes]
      BY <3>1 DEF Edits
    <3> QED BY <3>1, <3>2
  <2> QED BY <1>1, <2>2, <2>3, EditedBlock
<1>3. IsBlock(Object, IF Object = "single" THEN Value ELSE Edited(buf, Value))
  BY <1>1, <1>2, AtEntry, NotJunk DEF Entry, IsBlock, Positions, Bytes
<1>4. IsDev(dev')
  BY <1>1, <1>3 DEF Write, TInv, IsDev
<1>5. prog' \in Programs /\ Chained(prog') /\ Ready(prog', buf')
  BY <1>1, Consume DEF Write, Kinds
<1>6. call' # "none" /\ status' \in {"ok", "refused", "error"}
  BY <1>1, AtEntry DEF Write, Unless, TInv
<1> QED BY <1>4, <1>5, <1>6 DEF Write, TInv

LEMMA SendTyped ==
  ASSUME TInv, NEW failed \in BOOLEAN, Send(failed)
  PROVE  TInv'
<1> USE DEF Other, Measurement, Bookkeeping
<1>1. prog' \in Programs /\ Chained(prog') /\ Ready(prog', buf') /\ call' # "none"
  BY Consume, AtEntry DEF Send, Kinds
<1>2. grids' \in {16, 64}
  BY DEF Send, TInv
<1>3. xtalk' \in Crosstalk
  BY DEF Send, TInv, Crosstalk
<1>4. status' \in {"ok", "refused", "error"}
  BY DEF Send, Unless, TInv
<1> QED BY <1>1, <1>2, <1>3, <1>4 DEF Send, TInv

LEMMA SaveTyped ==
  ASSUME TInv, Save
  PROVE  TInv'
<1> USE DEF Other, Measurement, Bookkeeping
<1>1. prog' \in Programs /\ Chained(prog') /\ Ready(prog', buf') /\ call' # "none"
  BY Consume, AtEntry DEF Save, Kinds
<1>2. /\ Object \in Settings /\ Value \in {Object, "zones"} /\ (Value = "zones" => Object = "resolution")
      /\ IsBuf(BlockOf(Object), buf)
  <2>1. Head(prog) \in Entry /\ Head(prog)[1] = "save"
    BY AtEntry DEF Save
  <2>2. Needs(Head(prog)) = BlockOf(Object) /\ Object \in Settings
    BY <2>1 DEF Needs, Entry, Object
  <2>3. BlockOf(Object) # "none"
    BY <2>2 DEF BlockOf, Settings
  <2> QED BY <2>1, <2>2, <2>3, AtEntry DEF Entry, Object, Value, Save
<1>3. Get(Object, buf) \in Bytes /\ (Object = "resolution" => Get(Object, buf) \in {16, 64, Junk})
  BY <1>2, GetType
<1>4. SavedType(saved')
  BY <1>2, <1>3 DEF Save, TInv, SavedType, Settings
<1> QED BY <1>1, <1>4 DEF Save, TInv

LEMMA RefuseTyped ==
  ASSUME TInv, Refuse
  PROVE  TInv'
<1> USE DEF Other, Measurement, Bookkeeping
<1>1. \A b \in Blocks : Leaves(Head(prog), b) => IsBuf(b, buf)
  <2> SUFFICES ASSUME NEW b \in Blocks, Leaves(Head(prog), b) PROVE IsBuf(b, buf)
    OBVIOUS
  <2>1. Head(prog)[1] = "refuse" /\ Head(prog)[2] = b
    BY AtEntry DEF Refuse, Leaves
  <2>2. b = "mode"
    BY <2>1, AtEntry DEF Refuse, Entry, Blocks
  <2>3. Needs(Head(prog)) = "mode"
    BY <2>1, <2>2 DEF Needs
  <2> QED BY <2>2, <2>3, AtEntry DEF Refuse
<1>2. prog' \in Programs /\ Chained(prog') /\ Ready(prog', buf') /\ call' # "none"
  BY <1>1, Advance, AtEntry DEF Refuse, TInv
<1> QED BY <1>2 DEF Refuse, TInv

\* What a value that is put back leaves to be done asks nothing of temp_buffer.
LEMMA RestoreProgram ==
  ASSUME TInv, Restore
  PROVE  /\ prog' \in Programs /\ Chained(prog') /\ Fresh(prog')
         /\ Object \in Settings /\ call # "none"
<1>1. Object \in Settings /\ Head(prog)[1] = "restore" /\ prog # <<>> /\ call # "none"
  BY AtEntry DEF Restore, Entry, Object
<1>2. Tail(prog) \in Programs /\ Chained(Tail(prog)) /\ Fresh(Tail(prog))
  <2>1. \A b : ~Leaves(Head(prog), b)
    BY <1>1 DEF Leaves
  <2>2. Tail(prog) # <<>> => Needs(Tail(prog)[1]) = "none"
    BY <1>1, <2>1, TailChained DEF TInv
  <2> QED BY <1>1, <2>2, TailChained DEF TInv, Fresh
<1>3. \E s \in Programs : Chained(s) /\ Fresh(s) /\ prog' = s \o Tail(prog)
  <2>1. ASSUME NEW v \in Nat, prog' = Setter(Object, v) \o Tail(prog)
        PROVE  \E s \in Programs : Chained(s) /\ Fresh(s) /\ prog' = s \o Tail(prog)
    BY <1>1, <2>1, SetterProper, CleanPrograms DEF Proper
  <2>2. ASSUME prog' = Replace("frequency", Only(1, Junk)) \o Tail(prog)
        PROVE  \E s \in Programs : Chained(s) /\ Fresh(s) /\ prog' = s \o Tail(prog)
    <3>1. Junk \in Bytes /\ 1 \in 0 .. 15
      BY DEF Bytes
    <3>2. Only(1, Junk) \in Edits
      BY <3>1, OnlyEdit
    <3> QED BY <2>2, <3>2, ReplaceChained DEF Blocks
  <2>3. saved[Object] # Junk => saved[Object] \in Nat
    BY <1>1 DEF TInv, SavedType, Bytes
  <2>4. Inputs[Object] \subseteq Nat
    BY <1>1, InputsAssumption
  <2>5. \/ \E v \in Nat : prog' = Setter(Object, v) \o Tail(prog)
        \/ prog' = Replace("frequency", Only(1, Junk)) \o Tail(prog)
    BY <2>3, <2>4 DEF Restore
  <2> QED BY <2>1, <2>2, <2>5
<1>4. prog' \in Programs /\ Chained(prog') /\ Fresh(prog')
  BY <1>2, <1>3, JoinChained
<1> QED BY <1>1, <1>4

LEMMA RestoreTyped ==
  ASSUME TInv, Restore
  PROVE  TInv'
<1> USE DEF Other, Measurement, Bookkeeping
<1>1. prog' \in Programs /\ Chained(prog') /\ Fresh(prog') /\ call # "none"
  BY RestoreProgram
<1>2. Ready(prog', buf')
  BY <1>1 DEF Ready, Fresh
<1> QED BY <1>1, <1>2 DEF Restore, TInv

LEMMA OthersTyped ==
  ASSUME TInv, NEW failed \in BOOLEAN, Measure(failed) \/ SendList(failed) \/ Fetch(failed) \/ Configure(failed)
  PROVE  TInv'
<1> USE DEF Other, Measurement, Bookkeeping
<1>1. \E k \in Kinds \ {"read", "refuse"} : At(k)
  BY DEF Measure, SendList, Fetch, Configure, Kinds
<1>2. prog' = Tail(prog) /\ buf' = buf /\ status' = (IF failed THEN "error" ELSE status)
  BY DEF Measure, SendList, Fetch, Configure, Unless
<1>3. /\ prog' \in Programs /\ Chained(prog') /\ Ready(prog', buf') /\ call # "none"
      /\ status' \in {"ok", "refused", "error"}
  BY <1>1, <1>2, Consume, AtEntry DEF TInv
<1>4. ASSUME Measure(failed) PROVE TInv'
  <2>1. Get("resolution", dev["zone"]) \in {16, 64}
    <3>1. IsBlock("zone", dev["zone"])
      BY DEF TInv, IsDev, Blocks
    <3>2. Plain(dev["zone"])
      BY <3>1, NotJunk DEF Plain, IsBlock, Square, Positions
    <3>3. (dev["zone"][0] = 4 /\ dev["zone"][1] = 4) \/ (dev["zone"][0] = 8 /\ dev["zone"][1] = 8)
      BY <3>1 DEF IsBlock, Square
    <3> QED BY <3>2, <3>3, GetOf
  <2>2. xtalk' \in Crosstalk
    BY <1>4, <2>1 DEF Measure, TInv, Crosstalk
  <2>3. xtalkData' \in Crosstalk
    BY <1>4 DEF Measure, TInv, Crosstalk, Full
  <2> QED BY <1>3, <1>4, <2>2, <2>3 DEF Measure, TInv
<1>5. ASSUME SendList(failed) PROVE TInv'
  <2>1. listed' \in {16, 64, Junk}
    BY <1>5 DEF SendList, TInv, SavedType
  <2> QED BY <1>3, <1>5, <2>1 DEF SendList, TInv
<1>6. ASSUME Fetch(failed) PROVE TInv'
  <2>1. xtalkData' \in Crosstalk /\ caller' \in Crosstalk
    BY <1>6 DEF Fetch, TInv, Crosstalk
  <2> QED BY <1>3, <1>6, <2>1 DEF Fetch, TInv
<1>7. ASSUME Configure(failed) PROVE TInv'
  <2>1. IsDev(dev')
    BY <1>7, DefaultIsDev, CalibrationIsDev DEF Configure, TInv, IsDev
  <2> QED BY <1>3, <1>7, <2>1 DEF Configure, TInv
<1> QED BY <1>4, <1>5, <1>6, <1>7

LEMMA TakeReturnTyped ==
  ASSUME TInv, Take \/ Return
  PROVE  TInv'
<1> USE DEF Other, Measurement, Bookkeeping
<1>1. ASSUME Take PROVE TInv'
  <2>1. prog' \in Programs /\ Chained(prog') /\ Ready(prog', buf') /\ call' # "none"
    BY <1>1, Consume, AtEntry DEF Take, Kinds
  <2> QED BY <1>1, <2>1 DEF Take, TInv
<1>2. ASSUME Return PROVE TInv'
  <2>1. SavedType(saved')
    BY <1>2 DEF Return, NothingSaved, SavedType, Bytes, Settings
  <2>2. prog' = <<>> /\ Ready(prog', buf')
    BY <1>2 DEF Return, Ready
  <2>3. errorSeen' \in BOOLEAN
    BY <1>2 DEF Return, TInv
  <2> QED BY <1>2, <2>1, <2>2, <2>3 DEF Return, TInv, Settings
<1> QED BY <1>1, <1>2

\* The calls the program makes.
Bodies ==
  {<<n, v, Setter(n, v)>> : n \in Settings, v \in Nat}
    \cup {<<"calibrate", t, CalibrateXtalk(t)>> : t \in Targets}
    \cup {<<"get_caldata", 0, GetCaldata>>, <<"set_caldata", 0, SetCaldata>>}

LEMMA Calls ==
  ASSUME (\E name \in Settings : Set(name)) \/ Calibrate \/ Caldata
  PROVE  \E c, v, body : <<c, v, body>> \in Bodies /\ Begin(c, v, body)
<1>1. ASSUME NEW name \in Settings, Set(name)
      PROVE  \E c, v, body : <<c, v, body>> \in Bodies /\ Begin(c, v, body)
  BY <1>1, InputsAssumption DEF Set, Bodies
<1>2. ASSUME Calibrate
      PROVE  \E c, v, body : <<c, v, body>> \in Bodies /\ Begin(c, v, body)
  BY <1>2 DEF Calibrate, Bodies
<1>3. ASSUME Caldata
      PROVE  \E c, v, body : <<c, v, body>> \in Bodies /\ Begin(c, v, body)
  BY <1>3 DEF Caldata, Bodies
<1> QED BY <1>1, <1>2, <1>3

LEMMA BeginTyped ==
  ASSUME TInv, NEW c, NEW v, NEW body, <<c, v, body>> \in Bodies, Begin(c, v, body)
  PROVE  TInv'
<1> USE DEF Other, Measurement, Bookkeeping
<1>1. Proper(body) /\ c # "none" /\ (c \in Settings => v \in Nat)
  BY SetterProper, CalibrateProper, CaldataProper DEF Bodies, Settings
<1>2. prog' \in Programs /\ Chained(prog') /\ Ready(prog', buf')
  BY <1>1, CleanPrograms DEF Begin, Proper, Ready, Fresh
<1> QED BY <1>1, <1>2 DEF Begin, TInv

LEMMA StepTyped == TInv /\ [Next]_vars => TInv'
<1> SUFFICES ASSUME TInv, [Next]_vars PROVE TInv'
  OBVIOUS
<1>1. ASSUME NEW failed \in BOOLEAN, Exchange(failed) PROVE TInv'
  BY <1>1, ReadTyped, WriteTyped, SendTyped, OthersTyped DEF Exchange
<1>2. ASSUME Save \/ Refuse \/ Restore \/ Take \/ Return PROVE TInv'
  BY <1>2, SaveTyped, RefuseTyped, RestoreTyped, TakeReturnTyped
<1>3. ASSUME (\E name \in Settings : Set(name)) \/ Calibrate \/ Caldata PROVE TInv'
  BY <1>3, Calls, BeginTyped
<1>4. ASSUME UNCHANGED vars PROVE TInv'
  BY <1>4 DEF TInv, vars, Measurement
<1> QED BY <1>1, <1>2, <1>3, <1>4 DEF Next

LEMMA AlwaysTyped == Spec => []TInv
BY InitTyped, StepTyped, PTL DEF Spec

\* The blocks keep their bytes and the driver's data their types, whatever fails.
THEOREM TypeCorrect == Spec => []TypeOK
<1>1. TInv => TypeOK
  <2> SUFFICES ASSUME TInv PROVE TypeOK
    OBVIOUS
  <2>1. DOMAIN dev = Blocks
    BY DEF TInv, IsDev
  <2>2. ASSUME NEW b \in Blocks
        PROVE  /\ DOMAIN dev[b] = DOMAIN DefaultDev[b]
               /\ \A p \in DOMAIN dev[b] : dev[b][p] = Junk \/ dev[b][p] \in Nat
    BY <2>2, DefaultPositions DEF TInv, IsDev, IsBlock, Bytes
  <2> QED BY <2>1, <2>2 DEF TInv, TypeOK, Crosstalk
<1> QED BY <1>1, AlwaysTyped, PTL
-----------------------------------------------------------------------------
(* The setters: what is done by how much of the function is left.           *)

Simple == Settings \ {"resolution", "mode"}

Left(s) ==
  /\ Len(prog) <= Len(s)
  /\ \A i \in 1 .. Len(prog) : prog[i] = s[(Len(s) - Len(prog)) + i]

\* One exchange replaces the bytes of a block by those of the setting.
Changed(d, b, e) == [d EXCEPT ![b] = Edited(d[b], e)]

DidSimple(n, v) ==
  IF Valid(n, v)
  THEN /\ status # "refused"
       /\ status = "ok" => /\ Len(prog) > 0 => dev = before
                           /\ Len(prog) = 1 => buf = before[n]
                           /\ Len(prog) = 0 => dev = Changed(before, n, Raw(n, v))
  ELSE /\ dev = before
       /\ Len(prog) = 1 => status = "ok"
       /\ Len(prog) = 0 => status = "refused"

DidResolution(v) ==
  LET dss == Changed(before, "dss", DssRaw(v)) IN
  IF Valid("resolution", v)
  THEN /\ status # "refused"
       /\ status = "ok" => /\ Len(prog) > 4 => dev = before
                           /\ Len(prog) = 5 => buf = before["dss"]
                           /\ Len(prog) \in {3, 4} => dev = dss
                           /\ Len(prog) = 3 => buf = before["zone"]
                           /\ Len(prog) < 3 => dev = Changed(dss, "zone", Raw("resolution", v))
  ELSE dev = before /\ (Len(prog) < 3 => status # "ok")

DidMode(v) ==
  LET mode == Changed(before, "mode", Raw("mode", v)) IN
  IF Valid("mode", v)
  THEN /\ status # "refused"
       /\ status = "ok" => /\ Len(prog) > 1 => dev = before
                           /\ Len(prog) = 2 => buf = before["mode"]
                           /\ Len(prog) = 1 => dev = mode
                           /\ Len(prog) = 0 => dev = [mode EXCEPT !["single"] = SingleRaw(v)]
  ELSE /\ \A b \in Blocks \ {"mode", "single"} : dev[b] = before[b]
       /\ Len(prog) < 3 => status # "ok"

Did(n, v) ==
  IF n = "resolution" THEN DidResolution(v) ELSE IF n = "mode" THEN DidMode(v) ELSE DidSimple(n, v)

SetInv == call \in Settings => Left(Setter(call, arg)) /\ Did(call, arg)

LEMMA SimpleProgram ==
  ASSUME NEW n \in Simple, NEW v
  PROVE  LET s == Setter(n, v) IN
         /\ Valid(n, v) => Len(s) = 2 /\ s[1] = <<"read", n, Raw(n, v)>> /\ s[2] = <<"write", n, Raw(n, v)>>
         /\ ~Valid(n, v) => Len(s) = 1 /\ s[1] = <<"refuse", "value", 0>>
BY DEF Simple, Setter, Replace, Refused

LEMMA Concatenation ==
  \A a, b, c, d, e, f :
    /\ LET r == <<a, b>> \o <<c, d>> \o <<e, f>>
       IN  /\ Len(r) = 6 /\ r[1] = a /\ r[2] = b /\ r[3] = c /\ r[4] = d /\ r[5] = e /\ r[6] = f
    /\ LET r == <<a>> \o <<e, f>> IN Len(r) = 3 /\ r[1] = a /\ r[2] = e /\ r[3] = f
OBVIOUS

LEMMA ResolutionProgram ==
  ASSUME NEW v
  PROVE  LET s == Setter("resolution", v) IN
         /\ Valid("resolution", v) =>
              /\ Len(s) = 6
              /\ s[1] = <<"read", "dss", DssRaw(v)>> /\ s[2] = <<"write", "dss", DssRaw(v)>>
              /\ s[3] = <<"read", "zone", Raw("resolution", v)>>
              /\ s[4] = <<"write", "zone", Raw("resolution", v)>>
              /\ s[5] = <<"offset", "grid", v>> /\ s[6] = <<"xtalk", "grid", v>>
         /\ ~Valid("resolution", v) =>
              /\ Len(s) = 3 /\ s[1] = <<"refuse", "value", 0>>
              /\ s[2] = <<"offset", "grid", v>> /\ s[3] = <<"xtalk", "grid", v>>
BY Concatenation DEF Setter, SetResolution, Replace, Refused, SendGrids

\* The entry that is next, of a function of which some is left.
LEMMA LeftHead ==
  ASSUME NEW s, Left(s), s \in Programs, prog \in Programs, prog # <<>>
  PROVE  /\ Head(prog) = s[Len(s) - Len(prog) + 1] /\ Len(prog) \in 1 .. Len(s)
         /\ Len(Tail(prog)) = Len(prog) - 1 /\ Len(s) \in Nat
         /\ \A i \in 1 .. Len(Tail(prog)) : Tail(prog)[i] = s[(Len(s) - Len(Tail(prog))) + i]
<1>1. /\ Len(prog) \in Nat /\ Len(s) \in Nat /\ Len(prog) >= 1 /\ Head(prog) = prog[1]
      /\ Len(Tail(prog)) = Len(prog) - 1
      /\ \A m \in 1 .. Len(Tail(prog)) : Tail(prog)[m] = prog[m + 1]
  BY TailIndex DEF Programs
<1>2. Head(prog) = s[Len(s) - Len(prog) + 1]
  BY <1>1 DEF Left
<1>3. ASSUME NEW i \in 1 .. Len(Tail(prog))
      PROVE  Tail(prog)[i] = s[(Len(s) - Len(Tail(prog))) + i]
  <2>1. Tail(prog)[i] = prog[i + 1] /\ i + 1 \in 1 .. Len(prog)
    BY <1>1
  <2>2. prog[i + 1] = s[(Len(s) - Len(prog)) + (i + 1)]
    BY <2>1 DEF Left
  <2>3. (Len(s) - Len(prog)) + (i + 1) = (Len(s) - Len(Tail(prog))) + i
    BY <1>1
  <2> QED BY <2>1, <2>2, <2>3
<1> QED BY <1>1, <1>2, <1>3 DEF Left

\* What the steps of a setter do, by the entry that is next.
Kept == call' = call /\ arg' = arg /\ before' = before /\ prog' = Tail(prog)

LEMMA SetterStep ==
  ASSUME TInv, Next, call \in Settings, prog # <<>>
  PROVE  LET e == Head(prog) IN
         /\ e[1] = "read" =>
              /\ Kept /\ dev' = dev /\ status' \in {status, "error"}
              /\ status' = "ok" => status = "ok" /\ buf' = dev[e[2]]
         /\ e[1] = "write" =>
              /\ Kept /\ status' \in {status, "error"}
              /\ status' = "ok" => /\ status = "ok"
                                   /\ e[2] # "single" => dev' = [dev EXCEPT ![e[2]] = Edited(buf, e[3])]
                                   /\ e[2] = "single" => dev' = [dev EXCEPT !["single"] = e[3]]
              /\ \A b \in Blocks \ {e[2]} : dev'[b] = dev[b]
         /\ e[1] \in {"offset", "xtalk"} => Kept /\ dev' = dev /\ status' \in {status, "error"}
                                            /\ (status' = "ok" => status = "ok")
         /\ e[1] = "refuse" => Kept /\ dev' = dev /\ status' = "refused"
<1> USE DEF Other, Measurement, Bookkeeping, Kept, At
<1>0. call # "none"
  BY DEF Settings
<1>1. \/ \E failed \in BOOLEAN : Exchange(failed)
      \/ Save \/ Refuse \/ Restore \/ Take
  BY <1>0 DEF Next, Set, Calibrate, Caldata, Begin, Return
<1>2. ASSUME Head(prog)[1] = "read"
      PROVE  /\ Kept /\ dev' = dev /\ status' \in {status, "error"}
             /\ status' = "ok" => status = "ok" /\ buf' = dev[Head(prog)[2]]
  <2>1. PICK failed \in BOOLEAN : Read(failed)
    BY <1>1, <1>2 DEF Exchange, Write, Send, Configure, SendList, Measure, Fetch, Save, Refuse, Restore, Take
  <2> QED BY <2>1 DEF Read, Unless, Object
<1>3. ASSUME Head(prog)[1] = "write"
      PROVE  /\ Kept /\ status' \in {status, "error"}
             /\ status' = "ok" =>
                  /\ status = "ok"
                  /\ Head(prog)[2] # "single" =>
                       dev' = [dev EXCEPT ![Head(prog)[2]] = Edited(buf, Head(prog)[3])]
                  /\ Head(prog)[2] = "single" => dev' = [dev EXCEPT !["single"] = Head(prog)[3]]
             /\ \A b \in Blocks \ {Head(prog)[2]} : dev'[b] = dev[b]
  <2>1. PICK failed \in BOOLEAN : Write(failed)
    BY <1>1, <1>3 DEF Exchange, Read, Send, Configure, SendList, Measure, Fetch, Save, Refuse, Restore, Take
  <2>2. dev = [b \in Blocks |-> dev[b]]
    BY DEF TInv, IsDev
  <2>3. Kept /\ status' \in {status, "error"} /\ (status' = "ok" => status = "ok" /\ ~failed)
    BY <2>1 DEF Write, Unless
  <2>4. ASSUME ~failed
        PROVE  dev' = [dev EXCEPT ![Head(prog)[2]] =
                         IF Head(prog)[2] = "single" THEN Head(prog)[3] ELSE Edited(buf, Head(prog)[3])]
    BY <2>1, <2>4 DEF Write, Object, Value
  <2>5. \A b \in Blocks \ {Head(prog)[2]} : dev'[b] = dev[b]
    BY <2>1, <2>2 DEF Write, Object, Value
  <2> QED BY <2>3, <2>4, <2>5
<1>4. ASSUME Head(prog)[1] \in {"offset", "xtalk"}
      PROVE  Kept /\ dev' = dev /\ status' \in {status, "error"} /\ (status' = "ok" => status = "ok")
  <2>1. PICK failed \in BOOLEAN : Send(failed)
    BY <1>1, <1>4 DEF Exchange, Read, Write, Configure, SendList, Measure, Fetch, Save, Refuse, Restore, Take
  <2> QED BY <2>1 DEF Send, Unless
<1>5. ASSUME Head(prog)[1] = "refuse"
      PROVE  Kept /\ dev' = dev /\ status' = "refused"
  <2>1. Refuse
    BY <1>1, <1>5 DEF Exchange, Read, Write, Send, Configure, SendList, Measure, Fetch, Save, Restore, Take
  <2> QED BY <2>1 DEF Refuse
<1> QED BY <1>2, <1>3, <1>4, <1>5

LEMMA SimpleStep ==
  ASSUME TInv, SetInv, Next, call \in Simple, prog # <<>>
  PROVE  Kept /\ DidSimple(call, arg)'
<1> DEFINE s == Setter(call, arg)
<1>0. call \in Settings /\ call \notin {"resolution", "mode"}
  BY DEF Simple
<1>1. Left(s) /\ DidSimple(call, arg) /\ s \in Programs /\ prog \in Programs /\ arg \in Nat
  BY <1>0, SetterProper, CleanPrograms DEF SetInv, Did, TInv, Proper
<1>2. /\ Head(prog) = s[Len(s) - Len(prog) + 1] /\ Len(prog) \in 1 .. Len(s)
      /\ Len(Tail(prog)) = Len(prog) - 1 /\ Len(s) \in Nat
  BY <1>1, LeftHead
<1> HIDE DEF s
<1>3. CASE ~Valid(call, arg)
  <2>1. Len(s) = 1 /\ s[1] = <<"refuse", "value", 0>>
    BY <1>3, SimpleProgram DEF s
  <2>2. Len(prog) = 1
    BY <1>2, <2>1
  <2>3. Head(prog) = <<"refuse", "value", 0>>
    BY <1>2, <2>1, <2>2
  <2>4. Kept /\ dev' = dev /\ status' = "refused" /\ Len(prog') = 0
    <3>1. Kept /\ dev' = dev /\ status' = "refused"
      BY <1>0, <2>3, SetterStep
    <3> QED BY <1>2, <2>2, <3>1 DEF Kept
  <2>5. dev' = before'
    BY <1>1, <1>3, <2>4 DEF DidSimple, Kept
  <2>6. ~Valid(call', arg')
    BY <1>3, <2>4 DEF Kept
  <2> QED BY <2>4, <2>5, <2>6 DEF DidSimple
<1>4. CASE Valid(call, arg)
  <2> DEFINE e == Raw(call, arg)
  <2>1. Len(s) = 2 /\ s[1] = <<"read", call, e>> /\ s[2] = <<"write", call, e>>
    BY <1>4, SimpleProgram DEF s
  <2> HIDE DEF e
  <2>2. CASE Len(prog) = 2
    <3>1. Head(prog) = <<"read", call, e>>
      BY <1>2, <2>1, <2>2
    <3>2. /\ Kept /\ dev' = dev /\ status' \in {status, "error"}
          /\ status' = "ok" => status = "ok" /\ buf' = dev[call]
      BY <1>0, <3>1, SetterStep
    <3>3. Len(prog') = 1 /\ Valid(call', arg')
      BY <1>2, <1>4, <2>2, <3>2 DEF Kept
    <3> QED BY <1>1, <1>4, <2>2, <3>2, <3>3 DEF DidSimple, Kept
  <2>3. CASE Len(prog) = 1
    <3>1. Head(prog) = <<"write", call, e>> /\ call # "single"
      BY <1>0, <1>2, <2>1, <2>3 DEF Settings
    <3>2. /\ Kept /\ status' \in {status, "error"}
          /\ status' = "ok" => status = "ok" /\ dev' = [dev EXCEPT ![call] = Edited(buf, e)]
      BY <1>0, <3>1, SetterStep
    <3>3. Len(prog') = 0 /\ Valid(call', arg')
      BY <1>2, <1>4, <2>3, <3>2 DEF Kept
    <3>4. status' # "refused" /\ (status' = "ok" => dev' = Changed(before, call, Raw(call, arg)))
      BY <1>1, <1>4, <2>3, <3>2 DEF DidSimple, Changed, e
    <3>5. call' = call /\ arg' = arg /\ before' = before
      BY <3>2 DEF Kept
    <3>6. DidSimple(call, arg)'
      BY <3>3, <3>4, <3>5 DEF DidSimple
    <3> QED BY <3>2, <3>6
  <2> QED BY <1>2, <2>1, <2>2, <2>3
<1> QED BY <1>3, <1>4

LEMMA ResolutionStep ==
  ASSUME TInv, SetInv, Next, call = "resolution", prog # <<>>
  PROVE  Kept /\ DidResolution(arg)'
<1> DEFINE s == Setter("resolution", arg)
<1>0. call \in Settings
  BY DEF Settings
<1>1. Left(s) /\ DidResolution(arg) /\ s \in Programs /\ prog \in Programs
  BY <1>0, SetterProper, CleanPrograms DEF SetInv, Did, TInv, Proper
<1>2. /\ Head(prog) = s[Len(s) - Len(prog) + 1] /\ Len(prog) \in 1 .. Len(s)
      /\ Len(Tail(prog)) = Len(prog) - 1 /\ Len(s) \in Nat
  BY <1>1, LeftHead
<1>3. CASE ~Valid("resolution", arg)
  <2>1. /\ Len(s) = 3 /\ s[1] = <<"refuse", "value", 0>>
        /\ s[2] = <<"offset", "grid", arg>> /\ s[3] = <<"xtalk", "grid", arg>>
    BY <1>3, ResolutionProgram
  <2> HIDE DEF s
  <2>2. \/ Len(prog) = 3 /\ Head(prog)[1] = "refuse"
        \/ Len(prog) < 3 /\ Head(prog)[1] \in {"offset", "xtalk"}
    BY <1>2, <2>1
  <2>3. Kept /\ dev' = dev /\ status' # "ok"
    <3>1. CASE Len(prog) = 3 /\ Head(prog)[1] = "refuse"
      BY <1>0, <3>1, SetterStep
    <3>2. CASE Len(prog) < 3 /\ Head(prog)[1] \in {"offset", "xtalk"}
      <4>1. Kept /\ dev' = dev /\ (status' = "ok" => status = "ok")
        BY <1>0, <3>2, SetterStep
      <4> QED BY <1>1, <1>3, <3>2, <4>1 DEF DidResolution
    <3> QED BY <2>2, <3>1, <3>2
  <2> QED BY <1>1, <1>3, <2>3 DEF DidResolution, Kept
<1>4. CASE Valid("resolution", arg)
  <2> DEFINE z == Raw("resolution", arg)
             d == DssRaw(arg)
  <2>1. /\ Len(s) = 6
        /\ s[1] = <<"read", "dss", d>> /\ s[2] = <<"write", "dss", d>>
        /\ s[3] = <<"read", "zone", z>> /\ s[4] = <<"write", "zone", z>>
        /\ s[5] = <<"offset", "grid", arg>> /\ s[6] = <<"xtalk", "grid", arg>>
    BY <1>4, ResolutionProgram
  <2> HIDE DEF s, z, d
  <2>2. CASE Len(prog) = 6
    <3>1. Head(prog) = <<"read", "dss", d>>
      BY <1>2, <2>1, <2>2
    <3>2. /\ Kept /\ dev' = dev /\ status' \in {status, "error"}
          /\ status' = "ok" => status = "ok" /\ buf' = dev["dss"]
      BY <1>0, <3>1, SetterStep
    <3>3. Len(prog') = 5 /\ Valid("resolution", arg')
      BY <1>2, <1>4, <2>2, <3>2 DEF Kept
    <3>4. status' # "refused" /\ (status' = "ok" => dev' = before /\ buf' = before["dss"])
      BY <1>1, <1>4, <2>2, <3>2 DEF DidResolution
    <3>5. call' = call /\ arg' = arg /\ before' = before
      BY <3>2 DEF Kept
    <3>6. DidResolution(arg)'
      BY <3>3, <3>4, <3>5 DEF DidResolution
    <3> QED BY <3>2, <3>6
  <2>3. CASE Len(prog) = 5
    <3>1. Head(prog) = <<"write", "dss", d>>
      BY <1>2, <2>1, <2>3
    <3>2. /\ Kept /\ status' \in {status, "error"}
          /\ status' = "ok" => status = "ok" /\ dev' = [dev EXCEPT !["dss"] = Edited(buf, d)]
      BY <1>0, <3>1, SetterStep
    <3>3. Len(prog') = 4 /\ Valid("resolution", arg')
      BY <1>2, <1>4, <2>3, <3>2 DEF Kept
    <3>4. status' # "refused" /\ (status' = "ok" => dev' = Changed(before, "dss", DssRaw(arg)))
      BY <1>1, <1>4, <2>3, <3>2 DEF DidResolution, Changed, d
    <3>5. call' = call /\ arg' = arg /\ before' = before
      BY <3>2 DEF Kept
    <3>6. DidResolution(arg)'
      BY <3>3, <3>4, <3>5 DEF DidResolution
    <3> QED BY <3>2, <3>6
  <2>4. CASE Len(prog) = 4
    <3>1. Head(prog) = <<"read", "zone", z>>
      BY <1>2, <2>1, <2>4
    <3>2. /\ Kept /\ dev' = dev /\ status' \in {status, "error"}
          /\ status' = "ok" => status = "ok" /\ buf' = dev["zone"]
      BY <1>0, <3>1, SetterStep
    <3>3. Len(prog') = 3 /\ Valid("resolution", arg')
      BY <1>2, <1>4, <2>4, <3>2 DEF Kept
    <3>4. Changed(before, "dss", DssRaw(arg))["zone"] = before["zone"]
      BY DEF Changed, TInv, IsDev, Blocks
    <3>5. status' # "refused" /\ (status' = "ok" => dev' = Changed(before, "dss", DssRaw(arg)) /\ buf' = before["zone"])
      BY <1>1, <1>4, <2>4, <3>2, <3>4 DEF DidResolution
    <3>6. call' = call /\ arg' = arg /\ before' = before
      BY <3>2 DEF Kept
    <3>7. DidResolution(arg)'
      BY <3>3, <3>5, <3>6 DEF DidResolution
    <3> QED BY <3>2, <3>7
  <2>5. CASE Len(prog) = 3
    <3>1. Head(prog) = <<"write", "zone", z>>
      BY <1>2, <2>1, <2>5
    <3>2. /\ Kept /\ status' \in {status, "error"}
          /\ status' = "ok" => status = "ok" /\ dev' = [dev EXCEPT !["zone"] = Edited(buf, z)]
      BY <1>0, <3>1, SetterStep
    <3>3. Len(prog') = 2 /\ Valid("resolution", arg')
      BY <1>2, <1>4, <2>5, <3>2 DEF Kept
    <3>4. Changed(before, "dss", DssRaw(arg))["zone"] = before["zone"]
      BY DEF Changed, TInv, IsDev, Blocks
    <3>5. status' = "ok" => dev' = Changed(Changed(before, "dss", DssRaw(arg)), "zone", z)
      <4>1. status' = "ok" => dev = Changed(before, "dss", DssRaw(arg)) /\ buf = before["zone"]
        BY <1>1, <1>4, <2>5, <3>2 DEF DidResolution
      <4> HIDE DEF Changed
      <4>2. \A x : Changed(x, "zone", z) = [x EXCEPT !["zone"] = Edited(x["zone"], z)]
        BY DEF Changed
      <4> QED BY <3>2, <3>4, <4>1, <4>2
    <3>6. status' # "refused"
      BY <1>1, <1>4, <3>2 DEF DidResolution
    <3>7. call' = call /\ arg' = arg /\ before' = before
      BY <3>2 DEF Kept
    <3>8. DidResolution(arg)'
      BY <3>3, <3>5, <3>6, <3>7 DEF DidResolution, z
    <3> QED BY <3>2, <3>8
  <2>6. CASE Len(prog) < 3
    <3>1. Head(prog)[1] \in {"offset", "xtalk"}
      BY <1>2, <2>1, <2>6
    <3>2. /\ Kept /\ dev' = dev /\ status' \in {status, "error"}
          /\ status' = "ok" => status = "ok"
      BY <1>0, <3>1, SetterStep
    <3>3. Len(prog') < 3 /\ Valid("resolution", arg')
      BY <1>2, <1>4, <2>6, <3>2 DEF Kept
    <3>4. Len(prog') \in Nat
      BY <1>2, <3>2 DEF Kept
    <3> QED BY <1>1, <1>2, <1>4, <2>6, <3>2, <3>3, <3>4 DEF DidResolution, Kept
  <2> QED BY <1>2, <2>1, <2>2, <2>3, <2>4, <2>5, <2>6
<1> QED BY <1>3, <1>4

LEMMA ModeStep ==
  ASSUME TInv, SetInv, Next, call = "mode", prog # <<>>
  PROVE  Kept /\ DidMode(arg)'
<1> DEFINE s == Setter("mode", arg)
<1>0. call \in Settings /\ s = SetRangingMode(arg)
  BY DEF Settings, Setter
<1>1. Left(s) /\ DidMode(arg) /\ s \in Programs /\ prog \in Programs
  BY <1>0, SetterProper, CleanPrograms DEF SetInv, Did, TInv, Proper
<1>2. /\ Head(prog) = s[Len(s) - Len(prog) + 1] /\ Len(prog) \in 1 .. Len(s)
      /\ Len(Tail(prog)) = Len(prog) - 1 /\ Len(s) \in Nat
  BY <1>1, LeftHead
<1> DEFINE m == Raw("mode", arg)
           one == SingleRaw(arg)
<1> HIDE DEF s, m, one
<1>3. CASE ~Valid("mode", arg)
  <2>1. /\ Len(s) = 4 /\ s[1][1] = "read" /\ s[2][1] = "refuse"
        /\ s[3] = <<"write", "mode", m>> /\ s[4] = <<"write", "single", one>>
    BY <1>0, <1>3, ModeProgram DEF ModeRead, ModeRefuse, ModeWrite, SingleWrite, m, one
  <2>2. \/ Len(prog) = 4 /\ Head(prog)[1] = "read"
        \/ Len(prog) = 3 /\ Head(prog)[1] = "refuse"
        \/ Len(prog) < 3 /\ Head(prog)[1] = "write" /\ Head(prog)[2] \in {"mode", "single"}
    BY <1>2, <2>1
  <2>3. /\ Kept /\ \A b \in Blocks \ {"mode", "single"} : dev'[b] = dev[b]
    BY <1>0, <2>2, SetterStep
  <2>4. Len(prog') < 3 => status' # "ok"
    BY <1>0, <1>1, <1>2, <1>3, <2>1, <2>2, SetterStep DEF DidMode, Kept
  <2> QED BY <1>1, <1>3, <2>3, <2>4 DEF DidMode, Kept
<1>4. CASE Valid("mode", arg)
  <2>1. /\ Len(s) = 3 /\ s[1] = <<"read", "mode", NoBytes>>
        /\ s[2] = <<"write", "mode", m>> /\ s[3] = <<"write", "single", one>>
    BY <1>0, <1>4, ModeProgram DEF ModeRead, ModeWrite, SingleWrite, m, one
  <2>2. CASE Len(prog) = 3
    <3>1. Head(prog) = <<"read", "mode", NoBytes>>
      BY <1>2, <2>1, <2>2
    <3>2. /\ Kept /\ dev' = dev /\ status' \in {status, "error"}
          /\ status' = "ok" => status = "ok" /\ buf' = dev["mode"]
      BY <1>0, <3>1, SetterStep
    <3>3. Len(prog') = 2 /\ Valid("mode", arg')
      BY <1>2, <1>4, <2>2, <3>2 DEF Kept
    <3>4. status' # "refused" /\ (status' = "ok" => dev' = before /\ buf' = before["mode"])
      BY <1>1, <1>4, <2>2, <3>2 DEF DidMode
    <3>5. call' = call /\ arg' = arg /\ before' = before
      BY <3>2 DEF Kept
    <3>6. DidMode(arg)'
      BY <3>3, <3>4, <3>5 DEF DidMode
    <3> QED BY <3>2, <3>6
  <2>3. CASE Len(prog) = 2
    <3>1. Head(prog) = <<"write", "mode", m>>
      BY <1>2, <2>1, <2>3
    <3>2. /\ Kept /\ status' \in {status, "error"}
          /\ status' = "ok" => status = "ok" /\ dev' = [dev EXCEPT !["mode"] = Edited(buf, m)]
      BY <1>0, <3>1, SetterStep
    <3>3. Len(prog') = 1 /\ Valid("mode", arg')
      BY <1>2, <1>4, <2>3, <3>2 DEF Kept
    <3>4. status' # "refused" /\ (status' = "ok" => dev' = Changed(before, "mode", Raw("mode", arg)))
      BY <1>1, <1>4, <2>3, <3>2 DEF DidMode, Changed, m
    <3>5. call' = call /\ arg' = arg /\ before' = before
      BY <3>2 DEF Kept
    <3>6. DidMode(arg)'
      BY <3>3, <3>4, <3>5 DEF DidMode
    <3> QED BY <3>2, <3>6
  <2>4. CASE Len(prog) = 1
    <3>1. Head(prog) = <<"write", "single", one>>
      BY <1>2, <2>1, <2>4
    <3>2. /\ Kept /\ status' \in {status, "error"}
          /\ status' = "ok" => status = "ok" /\ dev' = [dev EXCEPT !["single"] = one]
      BY <1>0, <3>1, SetterStep
    <3>3. Len(prog') = 0 /\ Valid("mode", arg')
      BY <1>2, <1>4, <2>4, <3>2 DEF Kept
    <3>4. status' # "refused" /\ (status' = "ok" => dev' = [Changed(before, "mode", Raw("mode", arg)) EXCEPT !["single"] = SingleRaw(arg)])
      BY <1>1, <1>4, <2>4, <3>2 DEF DidMode, one
    <3>5. call' = call /\ arg' = arg /\ before' = before
      BY <3>2 DEF Kept
    <3>6. DidMode(arg)'
      BY <3>3, <3>4, <3>5 DEF DidMode
    <3> QED BY <3>2, <3>6
  <2> QED BY <1>2, <2>1, <2>2, <2>3, <2>4
<1> QED BY <1>3, <1>4

\* A step that is neither a call nor a return goes on with the call.
LEMMA CallGoesOn ==
  ASSUME Next, ~((\E name \in Settings : Set(name)) \/ Calibrate \/ Caldata), ~Return
  PROVE  call' = call /\ arg' = arg /\ before' = before /\ errorSeen' = errorSeen /\ prog # <<>>
BY DEF Next, Exchange, Read, Write, Send, Configure, SendList, Measure, Fetch, Save, Refuse, Restore,
       Take, Other, Bookkeeping, At

LEMMA LeftStep ==
  ASSUME NEW s \in Programs, Left(s), prog \in Programs, prog # <<>>, prog' = Tail(prog)
  PROVE  Len(prog') <= Len(s) /\ \A i \in 1 .. Len(prog') : prog'[i] = s[(Len(s) - Len(prog')) + i]
BY LeftHead

LEMMA BeginSet ==
  ASSUME TInv, NEW c, NEW v, NEW body, <<c, v, body>> \in Bodies, Begin(c, v, body)
  PROVE  SetInv'
<1> SUFFICES ASSUME c \in Settings
             PROVE  Left(Setter(c, v))' /\ Did(c, v)' /\ call' = c /\ arg' = v
  BY DEF Begin, SetInv
<1>1. body = Setter(c, v) /\ v \in Nat /\ body \in Programs
  <2>1. body = Setter(c, v) /\ v \in Nat
    BY DEF Bodies, Settings
  <2> QED BY <2>1, SetterProper, CleanPrograms DEF Proper
<1>2. /\ call' = c /\ arg' = v /\ prog' = body /\ status' = "ok"
      /\ before' = dev /\ dev' = dev
  BY DEF Begin
<1>3. Left(Setter(c, v))'
  BY <1>1, <1>2 DEF Left, Programs
<1>4. Did(c, v)'
  <2>1. CASE c \in Simple
    <3>1. DidSimple(c, v)'
      BY <1>1, <1>2, <2>1, SimpleProgram DEF DidSimple
    <3> QED BY <2>1, <3>1 DEF Did, Simple
  <2>2. CASE c = "resolution"
    <3>1. DidResolution(v)'
      BY <1>1, <1>2, <2>2, ResolutionProgram DEF DidResolution
    <3> QED BY <2>2, <3>1 DEF Did
  <2>3. CASE c = "mode"
    <3>1. body = SetRangingMode(v)
      BY <1>1, <2>3 DEF Setter
    <3>2. DidMode(v)'
      BY <1>1, <1>2, <3>1, ModeProgram DEF DidMode
    <3> QED BY <2>3, <3>2 DEF Did
  <2> QED BY <2>1, <2>2, <2>3 DEF Simple
<1> QED BY <1>2, <1>3, <1>4

LEMMA StepSet == TInv /\ SetInv /\ [Next]_vars => SetInv'
<1> SUFFICES ASSUME TInv, SetInv, [Next]_vars PROVE SetInv'
  OBVIOUS
<1>1. ASSUME (\E name \in Settings : Set(name)) \/ Calibrate \/ Caldata PROVE SetInv'
  BY <1>1, Calls, BeginSet
<1>2. ASSUME Return PROVE SetInv'
  BY <1>2 DEF Return, SetInv, Settings
<1>3. ASSUME UNCHANGED vars PROVE SetInv'
  <2>1. UNCHANGED <<dev, buf, call, arg, prog, status, before>>
    BY <1>3 DEF vars
  <2> QED BY <2>1 DEF SetInv, Left, Did, DidSimple, DidResolution, DidMode
<1>4. ASSUME Next, ~((\E name \in Settings : Set(name)) \/ Calibrate \/ Caldata), ~Return,
             call' \in Settings
      PROVE  SetInv'
  <2>1. call' = call /\ arg' = arg /\ prog # <<>> /\ call \in Settings
    BY <1>4, CallGoesOn
  <2>2. Left(Setter(call, arg)) /\ Setter(call, arg) \in Programs /\ prog \in Programs
    BY <2>1, SetterProper, CleanPrograms DEF SetInv, TInv, Proper
  <2>3. Kept /\ Did(call, arg)'
    <3>1. CASE call \in Simple
      BY <1>4, <2>1, <3>1, SimpleStep DEF Did, Simple
    <3>2. CASE call = "resolution"
      <4>1. Kept /\ DidResolution(arg)'
        BY <1>4, <2>1, <3>2, ResolutionStep
      <4> QED BY <3>2, <4>1 DEF Did, Kept
    <3>3. CASE call = "mode"
      <4>1. Kept /\ DidMode(arg)'
        BY <1>4, <2>1, <3>3, ModeStep
      <4> QED BY <3>3, <4>1 DEF Did, Kept
    <3> QED BY <2>1, <3>1, <3>2, <3>3 DEF Simple
  <2>4. Left(Setter(call, arg))'
    <3>1. prog' = Tail(prog)
      BY <2>3 DEF Kept
    <3>2. \A s \in Programs : Left(s) =>
            /\ Len(prog') <= Len(s)
            /\ \A i \in 1 .. Len(prog') : prog'[i] = s[(Len(s) - Len(prog')) + i]
      BY <2>1, <2>2, <3>1, LeftStep
    <3> QED BY <2>1, <2>2, <3>2 DEF Left
  <2> QED BY <2>1, <2>3, <2>4 DEF SetInv
<1> QED BY <1>1, <1>2, <1>3, <1>4 DEF SetInv

LEMMA InitSet == Init => SetInv
BY DEF Init, SetInv, Settings

LEMMA AlwaysSet == Spec => [](TInv /\ SetInv)
BY InitTyped, StepTyped, InitSet, StepSet, PTL DEF Spec

\* The bytes of a block after a write.
LEMMA EditedBytes ==
  ASSUME NEW f, NEW e
  PROVE  /\ DOMAIN Edited(f, e) = DOMAIN f
         /\ \A p \in DOMAIN f : Edited(f, e)[p] = IF p \in DOMAIN e THEN e[p] ELSE f[p]
BY DEF Edited

\* What a setter has done when it returns 0.
LEMMA SetterDone ==
  ASSUME TInv, SetInv, call \in Settings, prog = <<>>, status = "ok"
  PROVE  LET b == BlockOf(call) IN
         /\ Valid(call, arg) /\ arg \in Nat
         /\ dev[b] = Edited(before[b], Raw(call, arg))
         /\ \A c \in Blocks \ {b} :
              dev[c] = IF c = "dss" /\ call = "resolution" THEN Edited(before[c], DssRaw(arg))
                       ELSE IF c = "single" /\ call = "mode" THEN SingleRaw(arg) ELSE before[c]
<1>1. Did(call, arg) /\ arg \in Nat /\ before = [b \in Blocks |-> before[b]] /\ Len(prog) = 0
  BY DEF SetInv, TInv, IsDev
<1>2. CASE call \in Simple
  <2>1. call \in Blocks /\ BlockOf(call) = call /\ call \notin {"resolution", "mode"}
    BY <1>2 DEF Simple, Settings, Blocks, BlockOf
  <2>2. Valid(call, arg) /\ dev = Changed(before, call, Raw(call, arg))
    BY <1>1, <2>1 DEF Did, DidSimple
  <2> QED BY <1>1, <2>1, <2>2 DEF Changed
<1>3. CASE call = "resolution"
  <2>1. /\ Valid(call, arg)
        /\ dev = Changed(Changed(before, "dss", DssRaw(arg)), "zone", Raw(call, arg))
    BY <1>1, <1>3 DEF Did, DidResolution
  <2>2. BlockOf(call) = "zone" /\ "zone" \in Blocks /\ "dss" \in Blocks
    BY <1>3 DEF BlockOf, Blocks
  <2> QED BY <1>1, <1>3, <2>1, <2>2 DEF Changed
<1>4. CASE call = "mode"
  <2>1. /\ Valid(call, arg)
        /\ dev = [Changed(before, "mode", Raw(call, arg)) EXCEPT !["single"] = SingleRaw(arg)]
    BY <1>1, <1>4 DEF Did, DidMode
  <2>2. BlockOf(call) = "mode" /\ "mode" \in Blocks /\ "single" \in Blocks
    BY <1>4 DEF BlockOf, Blocks
  <2> QED BY <1>1, <1>4, <2>1, <2>2 DEF Changed
<1> QED BY <1>2, <1>3, <1>4 DEF Simple

LEMMA ReadBack ==
  ASSUME NEW n \in Settings, NEW v \in Nat, Valid(n, v), NEW f, IsBlock(BlockOf(n), f)
  PROVE  LET g == Get(n, Edited(f, Raw(n, v))) IN
         IF n = "sharpener" THEN g \in {v, v - 1} ELSE g = v
<1> DEFINE h == Edited(f, Raw(n, v))
<1>1. /\ DOMAIN h = Positions(BlockOf(n))
      /\ \A p \in DOMAIN h : h[p] = IF p \in DOMAIN Raw(n, v) THEN Raw(n, v)[p] ELSE f[p]
  BY EditedBytes DEF IsBlock
<1>2. \A p \in DOMAIN Raw(n, v) : Raw(n, v)[p] # Junk
  BY RawEdit, NotJunk
<1>3. Positions(BlockOf(n)) \ {Rest} \subseteq DOMAIN Raw(n, v)
  <2>1. CASE n = "resolution"
    BY <2>1, RawZone DEF Positions, BlockOf
  <2>2. CASE n = "mode"
    BY <2>2, RawOthers DEF Positions, BlockOf, Valid
  <2>3. CASE n \in Simple
    BY <2>3, RawOthers DEF Simple, Settings, Positions, BlockOf, Only
  <2> QED BY <2>1, <2>2, <2>3 DEF Simple
<1>4. Plain(h) /\ \A p \in Positions(BlockOf(n)) \ {Rest} : h[p] = Raw(n, v)[p]
  BY <1>1, <1>2, <1>3 DEF Plain
<1> HIDE DEF h
<1> USE DEF BlockOf, Positions, Rest
<1>5. CASE n = "resolution"
  <2>1. v \in {16, 64} /\ h[0] = (IF v = 16 THEN 4 ELSE 8) /\ h[1] = h[0]
    <3>1. v \in {16, 64}
      BY <1>5 DEF Valid
    <3>2. /\ Raw("resolution", v)[0] = (IF v = 16 THEN 4 ELSE 8)
          /\ Raw("resolution", v)[1] = Raw("resolution", v)[0]
      BY <3>1 DEF Raw
    <3> QED BY <1>4, <1>5, <3>1, <3>2
  <2> QED BY <1>4, <1>5, <2>1, GetOf DEF h
<1>6. CASE n = "mode"
  <2>1. v \in {1, 3} /\ h[1] = v
    BY <1>4, <1>6, RawOthers DEF Valid
  <2> QED BY <1>4, <1>6, <2>1, GetOf DEF h
<1>7. CASE n = "frequency"
  <2>1. h[1] = v
    BY <1>4, <1>7, RawOthers DEF Only
  <2> QED BY <1>4, <1>7, <2>1, GetOf DEF h
<1>8. CASE n = "order"
  <2>1. h[0] = v
    BY <1>4, <1>8, RawOthers DEF Only
  <2> QED BY <1>4, <1>8, <2>1, GetOf DEF h
<1>9. CASE n = "time"
  <2>1. h[0] = v * 1000
    BY <1>4, <1>9, RawOthers DEF Only
  <2>2. (v * 1000) \div 1000 = v
    OBVIOUS
  <2> QED BY <1>4, <1>9, <2>1, <2>2, GetOf DEF h
<1>10. CASE n = "margin"
  <2>1. h[0] = v * 2048
    BY <1>4, <1>10, RawOthers DEF Only
  <2>2. (v * 2048) \div 2048 = v
    OBVIOUS
  <2> QED BY <1>4, <1>10, <2>1, <2>2, GetOf DEF h
<1>11. CASE n = "sharpener"
  <2>1. h[13] = (v * 255) \div 100
    BY <1>4, <1>11, RawOthers DEF Only
  <2>2. v \in 0 .. 99
    BY <1>11 DEF Valid
  <2>3. (((v * 255) \div 100) * 100) \div 255 \in {v, v - 1}
    BY <2>2
  <2> QED BY <1>4, <1>11, <2>1, <2>3, GetOf DEF h
<1> QED BY <1>5, <1>6, <1>7, <1>8, <1>9, <1>10, <1>11 DEF Settings

\* A value that was set is the value the getter reads, for any value a setter takes.
THEOREM SetIsRead == Spec => []SetThenGet
<1>1. TInv /\ SetInv => SetThenGet
  <2> SUFFICES ASSUME TInv, SetInv, NEW name \in Settings, Ended(name), status = "ok"
               PROVE  IF name = "sharpener" THEN Now(name) \in {arg, arg - 1} ELSE Now(name) = arg
    BY DEF SetThenGet
  <2>1. call = name /\ prog = <<>>
    BY DEF Ended
  <2>2. /\ Valid(name, arg) /\ arg \in Nat
        /\ dev[BlockOf(name)] = Edited(before[BlockOf(name)], Raw(name, arg))
    BY <2>1, SetterDone
  <2>3. IsBlock(BlockOf(name), before[BlockOf(name)])
    BY DEF TInv, IsDev, BlockOf, Settings, Blocks
  <2> QED BY <2>2, <2>3, ReadBack DEF Now
<1> QED BY <1>1, AlwaysSet, PTL

\* A setter keeps the bytes that are not its own setting's.
THEOREM OthersAreKept == Spec => []OthersKept
<1>1. TInv /\ SetInv => OthersKept
  <2> SUFFICES ASSUME TInv, SetInv, NEW name \in Settings, Ended(name), status # "error",
                      NEW other \in Settings
               PROVE  LET b == BlockOf(other) IN
                      /\ other # name \/ (status = "refused" /\ name # "mode") => dev[b] = before[b]
                      /\ status = "ok" => dev[b][Rest] = before[b][Rest]
    BY DEF OthersKept
  <2>1. call = name /\ prog = <<>> /\ call \in Settings
    BY DEF Ended
  <2>2. BlockOf(other) \in Blocks \ {"dss", "single"} /\ (other # name => BlockOf(other) # BlockOf(name))
    BY DEF BlockOf, Settings, Blocks
  <2>3. CASE status = "ok"
    <3>1. /\ dev[BlockOf(name)] = Edited(before[BlockOf(name)], Raw(name, arg))
          /\ other # name => dev[BlockOf(other)] = before[BlockOf(other)]
          /\ arg \in Nat
      BY <2>1, <2>2, <2>3, SetterDone
    <3>2. IsBlock(BlockOf(name), before[BlockOf(name)])
      BY DEF TInv, IsDev, BlockOf, Settings, Blocks
    <3>3. Rest \notin DOMAIN Raw(name, arg)
      <4>1. CASE name = "resolution"
        BY <4>1, RawZone DEF Rest
      <4>2. CASE name # "resolution"
        BY <4>2, RawOthers DEF Settings, Only, Rest
      <4> QED BY <4>1, <4>2
    <3>4. Edited(before[BlockOf(name)], Raw(name, arg))[Rest] = before[BlockOf(name)][Rest]
      <4>1. Rest \in DOMAIN before[BlockOf(name)]
        BY <3>2 DEF IsBlock, Positions, BlockOf, Settings
      <4> QED BY <3>3, <4>1, EditedBytes
    <3> QED BY <2>3, <3>1, <3>4
  <2>4. CASE status = "refused"
    <3>1. Did(call, arg) /\ Len(prog) = 0
      BY <2>1 DEF SetInv
    <3>2. CASE call \in Simple
      <4>1. dev = before
        BY <2>4, <3>1, <3>2 DEF Did, DidSimple, Simple
      <4> QED BY <2>4, <4>1
    <3>3. CASE call = "resolution"
      <4>1. dev = before
        BY <2>4, <3>1, <3>3 DEF Did, DidResolution
      <4> QED BY <2>4, <4>1
    <3>4. CASE call = "mode"
      <4>1. \A b \in Blocks \ {"mode", "single"} : dev[b] = before[b]
        BY <2>4, <3>1, <3>4 DEF Did, DidMode
      <4>2. other # name => BlockOf(other) \in Blocks \ {"mode", "single"}
        BY <2>1, <2>2, <3>4 DEF BlockOf
      <4> QED BY <2>1, <2>4, <3>4, <4>1, <4>2
    <3> QED BY <2>1, <3>2, <3>3, <3>4 DEF Simple
  <2> QED BY <2>3, <2>4 DEF TInv
<1> QED BY <1>1, AlwaysSet, PTL
-----------------------------------------------------------------------------
(* Bytes that nobody set.                                                   *)

\* A value is put back only after it was saved: earlier in the program, or already.
NoRestore(s) == \A k \in 1 .. Len(s) : s[k][1] # "restore"
Straight(s) == s \in Programs /\ NoRestore(s)
Saves(s, n) == \E k \in 1 .. Len(s) : s[k] = <<"save", n, n>>
Covered(s, N) ==
  \A k \in 1 .. Len(s) : s[k][1] = "restore" =>
    s[k][2] \in N \/ \E j \in 1 .. k - 1 : s[j] = <<"save", s[k][2], s[k][2]>>

LEMMA JoinStraight == \A p, q : Straight(p) /\ Straight(q) => Straight(p \o q)
<1> SUFFICES ASSUME NEW p, NEW q, Straight(p), Straight(q) PROVE Straight(p \o q)
  OBVIOUS
<1>1. /\ p \o q \in Programs /\ Len(p \o q) = Len(p) + Len(q) /\ Len(p) \in Nat /\ Len(q) \in Nat
      /\ \A m \in 1 .. Len(p) : (p \o q)[m] = p[m]
      /\ \A m \in Len(p) + 1 .. Len(p) + Len(q) : (p \o q)[m] = q[m - Len(p)]
  BY JoinIndex DEF Straight, Programs
<1>2. ASSUME NEW k \in 1 .. Len(p \o q) PROVE (p \o q)[k][1] # "restore"
  <2>1. CASE k <= Len(p)
    BY <1>1, <2>1 DEF Straight, NoRestore
  <2>2. CASE k > Len(p)
    <3>1. (p \o q)[k] = q[k - Len(p)] /\ k - Len(p) \in 1 .. Len(q)
      BY <1>1, <2>2
    <3> QED BY <3>1 DEF Straight, NoRestore
  <2> QED BY <1>1, <2>1, <2>2
<1> QED BY <1>1, <1>2 DEF Straight, NoRestore

LEMMA JoinSaves ==
  \A p, q \in Programs : \A n : Saves(p, n) \/ Saves(q, n) => Saves(p \o q, n)
<1> SUFFICES ASSUME NEW p \in Programs, NEW q \in Programs, NEW n, Saves(p, n) \/ Saves(q, n)
             PROVE  Saves(p \o q, n)
  OBVIOUS
<1>1. /\ Len(p \o q) = Len(p) + Len(q) /\ Len(p) \in Nat /\ Len(q) \in Nat
      /\ \A m \in 1 .. Len(p) : (p \o q)[m] = p[m]
      /\ \A m \in 1 .. Len(q) : (p \o q)[Len(p) + m] = q[m]
  BY JoinIndex DEF Programs
<1>2. CASE Saves(p, n)
  BY <1>1, <1>2 DEF Saves
<1>3. CASE Saves(q, n)
  <2>1. PICK m \in 1 .. Len(q) : q[m] = <<"save", n, n>>
    BY <1>3 DEF Saves
  <2>2. Len(p) + m \in 1 .. Len(p \o q) /\ (p \o q)[Len(p) + m] = <<"save", n, n>>
    BY <1>1, <2>1
  <2> QED BY <2>2 DEF Saves
<1> QED BY <1>2, <1>3

LEMMA JoinCovered ==
  ASSUME NEW p \in Programs, NEW q \in Programs, NEW N, NEW M,
         Covered(p, N), Covered(q, M), \A n \in M : n \in N \/ Saves(p, n)
  PROVE  Covered(p \o q, N)
<1> DEFINE r == p \o q
<1>1. /\ Len(r) = Len(p) + Len(q) /\ Len(p) \in Nat /\ Len(q) \in Nat
      /\ \A m \in 1 .. Len(p) : r[m] = p[m]
      /\ \A m \in 1 .. Len(q) : r[Len(p) + m] = q[m]
      /\ \A m \in Len(p) + 1 .. Len(p) + Len(q) : r[m] = q[m - Len(p)]
  BY JoinIndex DEF Programs
<1> HIDE DEF r
<1> SUFFICES ASSUME NEW k \in 1 .. Len(r), r[k][1] = "restore"
             PROVE  r[k][2] \in N \/ \E j \in 1 .. k - 1 : r[j] = <<"save", r[k][2], r[k][2]>>
  BY DEF Covered, r
<1>2. CASE k <= Len(p)
  <2>1. r[k] = p[k] /\ k \in 1 .. Len(p)
    BY <1>1, <1>2
  <2>2. CASE p[k][2] \in N
    BY <2>1, <2>2
  <2>3. CASE p[k][2] \notin N
    <3>1. PICK j \in 1 .. k - 1 : p[j] = <<"save", p[k][2], p[k][2]>>
      BY <2>1, <2>3 DEF Covered
    <3>2. r[j] = p[j]
      BY <1>1, <2>1, <3>1
    <3> QED BY <2>1, <3>1, <3>2
  <2> QED BY <2>2, <2>3
<1>3. CASE k > Len(p)
  <2> DEFINE i == k - Len(p)
  <2>1. i \in 1 .. Len(q) /\ r[k] = q[i]
    BY <1>1, <1>3
  <2>2. CASE q[i][2] \in M
    <3>1. CASE Saves(p, q[i][2])
      <4>1. PICK j \in 1 .. Len(p) : p[j] = <<"save", q[i][2], q[i][2]>>
        BY <3>1 DEF Saves
      <4>2. j \in 1 .. k - 1 /\ r[j] = p[j]
        BY <1>1, <1>3, <4>1
      <4> QED BY <2>1, <4>1, <4>2
    <3> QED BY <2>1, <2>2, <3>1
  <2>3. CASE q[i][2] \notin M
    <3>1. PICK j \in 1 .. i - 1 : q[j] = <<"save", q[i][2], q[i][2]>>
      BY <2>1, <2>3 DEF Covered
    <3>2. Len(p) + j \in 1 .. k - 1 /\ r[Len(p) + j] = q[j]
      BY <1>1, <2>1, <3>1
    <3> QED BY <2>1, <3>1, <3>2
  <2> QED BY <2>2, <2>3
<1> QED BY <1>1, <1>2, <1>3

LEMMA TailCovered ==
  ASSUME NEW s \in Programs, s # <<>>, NEW N, Covered(s, N)
  PROVE  Covered(Tail(s), N \cup {n \in Settings : Head(s) = <<"save", n, n>>})
<1> DEFINE M == N \cup {n \in Settings : Head(s) = <<"save", n, n>>}
<1>1. /\ Len(Tail(s)) = Len(s) - 1 /\ Len(s) \in Nat /\ Len(s) >= 1 /\ Head(s) = s[1]
      /\ \A m \in 1 .. Len(Tail(s)) : Tail(s)[m] = s[m + 1]
  BY TailIndex DEF Programs
<1> SUFFICES ASSUME NEW k \in 1 .. Len(Tail(s)), Tail(s)[k][1] = "restore"
             PROVE  \/ Tail(s)[k][2] \in M
                    \/ \E j \in 1 .. k - 1 : Tail(s)[j] = <<"save", Tail(s)[k][2], Tail(s)[k][2]>>
  BY DEF Covered
<1>2. Tail(s)[k] = s[k + 1] /\ k + 1 \in 1 .. Len(s)
  BY <1>1
<1>3. CASE s[k + 1][2] \in N
  BY <1>2, <1>3
<1>4. CASE s[k + 1][2] \notin N
  <2>1. PICK j \in 1 .. (k + 1) - 1 : s[j] = <<"save", s[k + 1][2], s[k + 1][2]>>
    BY <1>2, <1>4 DEF Covered
  <2>2. CASE j = 1
    <3>1. s[k + 1] \in Entry
      BY <1>2 DEF Programs
    <3>2. s[k + 1][2] \in Settings
      BY <1>2, <3>1 DEF Entry
    <3> QED BY <1>1, <1>2, <2>1, <2>2, <3>2
  <2>3. CASE j > 1
    <3>1. j - 1 \in 1 .. k - 1 /\ j - 1 \in 1 .. Len(Tail(s)) /\ (j - 1) + 1 = j
      BY <1>1, <2>1, <2>3
    <3>2. Tail(s)[j - 1] = s[j]
      BY <1>1, <3>1
    <3> QED BY <1>2, <2>1, <3>1, <3>2
  <2> QED BY <2>1, <2>2, <2>3
<1> QED BY <1>3, <1>4

LEMMA StraightCovered == \A s, N : Straight(s) => Covered(s, N)
BY DEF Straight, NoRestore, Covered

LEMMA MoreCovered == \A s, N, M : Covered(s, N) /\ N \subseteq M => Covered(s, M)
BY DEF Covered

\* What restores nothing.
LEMMA PlainStraight ==
  /\ \A b \in Blocks \ {"single"}, e \in Edits :
       (b = "zone" => DOMAIN e = {0, 1, 4, 5} /\ Square(e)) => Straight(Replace(b, e))
  /\ Straight(Refused("value"))
  /\ \A v \in Nat : Straight(SendGrids(v))
  /\ \A n \in Settings : Straight(Getter(n)) /\ Saves(Getter(n), n)
  /\ Straight(ProgramOutput)
  /\ \A k \in {"configure", "calibrate", "fetch", "take"},
        o \in {"calibration", "default", "xtalk", "driver", "caller"} : Straight(<<<<k, o, 0>>>>)
<1>1. ASSUME NEW b \in Blocks \ {"single"}, NEW e \in Edits,
             b = "zone" => DOMAIN e = {0, 1, 4, 5} /\ Square(e)
      PROVE  Straight(Replace(b, e))
  <2>1. Replace(b, e) \in Programs
    BY <1>1, ReplaceChained
  <2>2. NoRestore(Replace(b, e))
    BY DEF NoRestore, Replace
  <2> QED BY <2>1, <2>2 DEF Straight
<1>2. Straight(Refused("value"))
  <2>1. NoRestore(Refused("value"))
    BY DEF NoRestore, Refused
  <2> QED BY <2>1, RefusedProper, CleanPrograms DEF Proper, Straight
<1>3. ASSUME NEW v \in Nat PROVE Straight(SendGrids(v))
  <2>1. NoRestore(SendGrids(v))
    BY DEF NoRestore, SendGrids
  <2> QED BY <2>1, GridsProper, CleanPrograms DEF Proper, Straight
<1>4. ASSUME NEW n \in Settings PROVE Straight(Getter(n)) /\ Saves(Getter(n), n)
  <2>1. NoRestore(Getter(n))
    BY DEF NoRestore, Getter
  <2>2. Len(Getter(n)) = 2 /\ Getter(n)[2] = <<"save", n, n>>
    BY DEF Getter
  <2> QED BY <2>1, <2>2, GetterProper, CleanPrograms DEF Proper, Straight, Saves
<1>5. Straight(ProgramOutput)
  <2>1. NoRestore(ProgramOutput)
    BY DEF NoRestore, ProgramOutput
  <2> QED BY <2>1, OutputProper, CleanPrograms DEF Proper, Straight
<1>6. ASSUME NEW k \in {"configure", "calibrate", "fetch", "take"},
             NEW o \in {"calibration", "default", "xtalk", "driver", "caller"}
      PROVE  Straight(<<<<k, o, 0>>>>)
  <2>1. NoRestore(<<<<k, o, 0>>>>)
    BY DEF NoRestore
  <2> QED BY <2>1, AloneProper, CleanPrograms DEF Proper, Straight
<1> QED BY <1>1, <1>2, <1>3, <1>4, <1>5, <1>6

LEMMA SetterStraight == \A n \in Settings, v \in Nat : Straight(Setter(n, v))
<1> SUFFICES ASSUME NEW n \in Settings, NEW v \in Nat PROVE Straight(Setter(n, v))
  OBVIOUS
<1>1. CASE n = "resolution"
  <2>1. Straight(Replace("dss", DssRaw(v))) /\ Straight(Replace("zone", Raw("resolution", v)))
    BY PlainStraight, DssEdit, RawEdit, RawZone DEF Blocks, Settings
  <2> QED BY <1>1, <2>1, PlainStraight, JoinStraight DEF Setter, SetResolution
<1>2. CASE n = "mode"
  <2>1. NoRestore(SetRangingMode(v))
    BY ModeProgram DEF NoRestore, ModeRead, ModeRefuse, ModeWrite, SingleWrite
  <2> QED BY <1>2, <2>1, ModeProper, CleanPrograms DEF Setter, Proper, Straight
<1>3. CASE n \in Simple
  <2>1. n \in Blocks \ {"single", "zone"} /\ Raw(n, v) \in Edits
    BY <1>3, RawEdit DEF Simple, Settings, Blocks
  <2> QED BY <1>3, <2>1, PlainStraight DEF Setter, Simple
<1> QED BY <1>1, <1>2, <1>3 DEF Simple

\* Every value the calibration puts back was saved when it began.
LEMMA AllSaved == Straight(Each(Getter)) /\ \A n \in Settings : Saves(Each(Getter), n)
<1>1. \A n \in Settings : Straight(Getter(n)) /\ Saves(Getter(n), n)
  BY PlainStraight
<1>2. \A p, q : Straight(p) /\ Straight(q) =>
        Straight(p \o q) /\ \A n : Saves(p, n) \/ Saves(q, n) => Saves(p \o q, n)
  BY JoinStraight, JoinSaves DEF Straight
<1> QED BY <1>1, <1>2 DEF Each, Settings

LEMMA CalibrateCovered == \A t \in Targets : Covered(CalibrateXtalk(t), {})
<1> SUFFICES ASSUME NEW t \in Targets PROVE Covered(CalibrateXtalk(t), {})
  OBVIOUS
<1> DEFINE middle == IF ValidTarget(t) THEN SetResolution(64) \o MeasureTarget(t) ELSE Refused("value")
           after == <<<<"fetch", "driver", 0>>, <<"configure", "default", 0>>>>
<1>1. Straight(SetTarget(t))
  <2>1. t[1] * 16 \in Nat /\ t[2] \in Nat /\ t[3] * 4 \in Nat
    BY TargetsAssumption
  <2>2. \A p \in 0 .. 15, v \in Nat : Straight(Replace("target", Only(p, v)))
    BY OnlyEdit, PlainStraight, NotJunk DEF Blocks
  <2> QED BY <2>1, <2>2, JoinStraight DEF SetTarget
<1>2. Straight(SetResolution(64))
  BY SetterStraight DEF Setter, Settings
<1>3. Straight(MeasureTarget(t))
  <2>1. Straight(<<<<"configure", "calibration", 0>>>>) /\ Straight(<<<<"calibrate", "xtalk", 0>>>>)
    BY PlainStraight
  <2> QED BY <1>1, <2>1, PlainStraight, JoinStraight DEF MeasureTarget
<1>4. Straight(middle)
  BY <1>2, <1>3, PlainStraight, JoinStraight
<1>5. Straight(after)
  <2>1. <<"fetch", "driver", 0>> \in Entry /\ <<"configure", "default", 0>> \in Entry
    BY EntryOf DEF Kinds, Objects, Arguments, CleanEntry
  <2>2. after \in Programs
    BY <2>1 DEF Programs
  <2> QED BY <2>2 DEF Straight, NoRestore
<1> HIDE DEF middle, after
<1>6. /\ Straight(Each(Getter) \o middle \o after)
      /\ \A n \in Settings : Saves(Each(Getter) \o middle \o after, n)
  <2>1. Straight(Each(Getter) \o middle) /\ \A n \in Settings : Saves(Each(Getter) \o middle, n)
    BY <1>4, AllSaved, JoinStraight, JoinSaves DEF Straight
  <2> QED BY <1>5, <2>1, JoinStraight, JoinSaves DEF Straight
<1>7. RestoreAll \in Programs /\ Covered(RestoreAll, Settings)
  <2>1. RestoreAll \in Programs
    BY EachProper, CleanPrograms DEF Proper
  <2>2. \A k \in 1 .. Len(RestoreAll) : RestoreAll[k] \in Entry
    BY <2>1 DEF Programs
  <2> QED BY <2>1, <2>2 DEF Covered, Entry
<1>8. Covered((Each(Getter) \o middle \o after) \o RestoreAll, {})
  BY <1>6, <1>7, StraightCovered, JoinCovered DEF Straight
<1> QED BY <1>8 DEF CalibrateXtalk, middle, after

LEMMA CaldataCovered == Covered(GetCaldata, {}) /\ Covered(SetCaldata, {})
<1>1. Straight(Getter("resolution")) /\ Saves(Getter("resolution"), "resolution")
  BY PlainStraight DEF Settings
<1>2. Straight(SetResolution(64))
  BY SetterStraight DEF Setter, Settings
<1>3. PutBack("resolution") \in Programs /\ Covered(PutBack("resolution"), {"resolution"})
  <2>1. PutBack("resolution") \in Programs
    BY PutBackProper, CleanPrograms DEF Proper, Settings
  <2> QED BY <2>1 DEF Covered, PutBack
<1>4. ASSUME NEW p, Straight(p), Saves(p, "resolution")
      PROVE  Covered(p \o PutBack("resolution"), {})
  BY <1>3, <1>4, StraightCovered, JoinCovered DEF Straight
<1>5. Straight(<<<<"fetch", "caller", 0>>>>) /\ Straight(<<<<"take", "caller", 0>>>>)
  BY PlainStraight
<1>6. ASSUME NEW p, Straight(p), Saves(p, "resolution"), NEW q, Straight(q)
      PROVE  Straight(p \o q) /\ Saves(p \o q, "resolution")
  BY <1>6, JoinStraight, JoinSaves DEF Straight
<1>7. Covered(SetCaldata, {})
  BY <1>1, <1>4, <1>5, <1>6 DEF SetCaldata
<1>8. Covered(GetCaldata, {})
  <2>1. Straight(Getter("resolution") \o SetResolution(64))
        /\ Saves(Getter("resolution") \o SetResolution(64), "resolution")
    BY <1>1, <1>2, <1>6
  <2> QED BY <1>4, <1>5, <1>6, <2>1 DEF GetCaldata
<1> QED BY <1>7, <1>8

LEMMA BodyCovered ==
  ASSUME NEW c, NEW v, NEW body, <<c, v, body>> \in Bodies
  PROVE  Covered(body, {}) /\ Proper(body)
<1>1. CASE \E n \in Settings, w \in Nat : body = Setter(n, w)
  BY <1>1, SetterStraight, StraightCovered, SetterProper
<1>2. CASE \E t \in Targets : body = CalibrateXtalk(t)
  BY <1>2, CalibrateCovered, CalibrateProper
<1>3. CASE body = GetCaldata \/ body = SetCaldata
  BY <1>3, CaldataCovered, CaldataProper
<1>4. \/ \E n \in Settings, w \in Nat : body = Setter(n, w)
      \/ \E t \in Targets : body = CalibrateXtalk(t)
      \/ body = GetCaldata \/ body = SetCaldata
  BY DEF Bodies
<1> QED BY <1>1, <1>2, <1>3, <1>4

NoJunk(f) == \A p \in DOMAIN f : f[p] # Junk

LEMMA ConfigurationsClean ==
  \A b \in Blocks : NoJunk(DefaultDev[b]) /\ (b # "single" => NoJunk(CalibrationDev[b]))
<1> DEFINE Nats(f) == \A p \in DOMAIN f : f[p] \in Nat
<1>1. ASSUME NEW f, NEW r \in Nat, Nats(f) PROVE Nats(Block(f, r))
  BY <1>1 DEF Block
<1>2. \A p, v \in Nat : Nats(Only(p, v))
  BY DEF Only
<1>3. Nats(DssRaw(16)) /\ Nats(DssRaw(64))
  BY DssEdit
<1>4. \A n \in Settings, v \in Nat : Nats(Raw(n, v))
  BY RawEdit
<1>5. Nats(DefaultTarget) /\ Nats(SingleRaw(3))
  BY <1>2 DEF DefaultTarget, SingleRaw
<1>6. Nats([p \in {1, 3} |-> IF p = 1 THEN 6 ELSE 3])
  OBVIOUS
<1> HIDE DEF Nats
<1>7. ASSUME NEW b \in Blocks PROVE Nats(DefaultDev[b])
  BY <1>1, <1>2, <1>3, <1>4, <1>5 DEF DefaultDev, Blocks, Settings
<1>8. ASSUME NEW b \in Blocks, b # "single" PROVE Nats(CalibrationDev[b])
  BY <1>1, <1>2, <1>3, <1>4, <1>5, <1>6, <1>8 DEF CalibrationDev, Blocks, Settings
<1>9. \A f : Nats(f) => NoJunk(f)
  BY NotJunk DEF Nats, NoJunk
<1> QED BY <1>7, <1>8, <1>9

Good == status = "ok" /\ ~errorSeen
Known == {n \in Settings : saved[n] # Junk}

CInv ==
  /\ Good => Clean /\ NoJunk(buf) /\ prog \in Seq(CleanEntry) /\ Covered(prog, Known)
  /\ call = "none" => Clean \/ errorSeen
  /\ status = "refused" => call \in Settings \cup {"none"}
  /\ status = "refused" /\ call \in Simple => Clean \/ errorSeen

LEMMA CleanBlocks == Clean <=> \A b \in Blocks : NoJunk(dev[b])
BY DEF Clean, NoJunk

\* What a good step leaves clean.
LEMMA GoodTail ==
  ASSUME TInv, CInv, Good, prog # <<>>, prog' = Tail(prog), saved' = saved,
         Head(prog)[1] # "save"
  PROVE  prog' \in Seq(CleanEntry) /\ Covered(prog, Known)' /\ Head(prog) \in CleanEntry
<1>1. prog \in Seq(CleanEntry) /\ Covered(prog, Known) /\ prog \in Programs
  BY DEF CInv, TInv
<1>2. Tail(prog) \in Seq(CleanEntry) /\ Head(prog) \in CleanEntry
  BY <1>1, TailIndex
<1>3. {n \in Settings : Head(prog) = <<"save", n, n>>} = {}
  OBVIOUS
<1>4. Covered(Tail(prog), Known)
  BY <1>1, <1>3, TailCovered
<1>5. Known' = Known
  BY DEF Known
<1> QED BY <1>2, <1>4, <1>5 DEF Covered

LEMMA GoodExchange ==
  ASSUME TInv, CInv, Good, NEW failed \in BOOLEAN, Exchange(failed), Good'
  PROVE  Clean' /\ NoJunk(buf') /\ prog' \in Seq(CleanEntry) /\ Covered(prog, Known)'
<1> USE DEF Other, Measurement, Bookkeeping
<1>1. /\ prog # <<>> /\ prog' = Tail(prog) /\ saved' = saved /\ ~failed
      /\ Head(prog)[1] # "save" /\ Head(prog) \in Entry
  <2>1. /\ prog # <<>> /\ prog' = Tail(prog) /\ saved' = saved
        /\ status' = (IF failed THEN "error" ELSE status) /\ Head(prog)[1] # "save"
    BY DEF Exchange, Read, Write, Send, Configure, SendList, Measure, Fetch, Unless, At
  <2>2. prog \in Seq(Entry)
    BY DEF TInv, Programs
  <2> QED BY <2>1, <2>2, TailIndex DEF Good
<1>2. prog' \in Seq(CleanEntry) /\ Covered(prog, Known)' /\ Head(prog) \in CleanEntry
  BY <1>1, GoodTail
<1>3. /\ \A b \in Blocks : NoJunk(dev[b])
      /\ NoJunk(buf) /\ dev = [b \in Blocks |-> dev[b]]
  BY CleanBlocks DEF CInv, TInv, IsDev
<1>4. (\A b \in Blocks : NoJunk(dev'[b])) /\ NoJunk(buf')
  <2>1. CASE Read(failed)
    <3>1. Object \in Blocks /\ buf' = dev[Object] /\ dev' = dev
      BY <1>1, <2>1 DEF Read, Entry, Object, At
    <3> QED BY <1>3, <3>1
  <2>2. CASE Write(failed)
    <3>1. /\ Object \in Blocks /\ NoJunk(Value) /\ buf' = buf
          /\ dev' = [dev EXCEPT ![Object] = IF Object = "single" THEN Value ELSE Edited(buf, Value)]
      BY <1>1, <1>2, <2>2 DEF Write, CleanEntry, Entry, Object, Value, At, NoJunk
    <3>2. NoJunk(Edited(buf, Value))
      BY <1>3, <3>1, EditedBytes DEF NoJunk
    <3> QED BY <1>3, <3>1, <3>2
  <2>3. CASE Configure(failed)
    <3>1. /\ buf' = buf
          /\ dev' = [b \in Blocks |->
                       IF b = "single" THEN dev[b]
                       ELSE IF Object = "calibration" THEN CalibrationDev[b] ELSE DefaultDev[b]]
      BY <1>1, <2>3 DEF Configure
    <3> QED BY <1>3, <3>1, ConfigurationsClean
  <2>4. CASE Send(failed) \/ SendList(failed) \/ Measure(failed) \/ Fetch(failed)
    <3>1. dev' = dev /\ buf' = buf
      BY <2>4 DEF Send, SendList, Measure, Fetch
    <3> QED BY <1>3, <3>1
  <2> QED BY <2>1, <2>2, <2>3, <2>4 DEF Exchange
<1>5. Clean'
  BY <1>4 DEF Clean, NoJunk
<1> QED BY <1>2, <1>4, <1>5

LEMMA GoodSave ==
  ASSUME TInv, CInv, Good, Save
  PROVE  Clean' /\ NoJunk(buf') /\ prog' \in Seq(CleanEntry) /\ Covered(prog, Known)'
<1> USE DEF Other, Measurement, Bookkeeping
<1>1. /\ prog # <<>> /\ prog \in Programs /\ prog' = Tail(prog) /\ dev' = dev /\ buf' = buf
      /\ saved' = [saved EXCEPT ![Value] = Get(Object, buf)]
      /\ Head(prog) \in Entry /\ Head(prog)[1] = "save"
      /\ saved = [n \in Settings \cup {"zones"} |-> saved[n]]
  BY AtEntry DEF Save, TInv, SavedType
<1>2. Object \in Settings /\ Get(Object, buf) # Junk
  <2>1. Object \in Settings /\ Needs(Head(prog)) = BlockOf(Object) /\ BlockOf(Object) # "none"
    BY <1>1 DEF Entry, Object, Needs, BlockOf, Settings
  <2>2. IsBuf(BlockOf(Object), buf)
    BY <2>1, AtEntry DEF Save
  <2>3. Plain(buf)
    BY DEF CInv, NoJunk, Plain
  <2> QED BY <2>1, <2>2, <2>3, GetType, NotJunk
<1>3. Known \cup {n \in Settings : Head(prog) = <<"save", n, n>>} \subseteq Known'
  <2> SUFFICES ASSUME NEW n \in Settings, saved[n] # Junk \/ Head(prog) = <<"save", n, n>>
               PROVE  saved'[n] # Junk
    BY DEF Known
  <2>1. n \in DOMAIN saved
    BY <1>1
  <2>2. saved'[n] = IF n = Value THEN Get(Object, buf) ELSE saved[n]
    BY <1>1, <2>1
  <2>3. Head(prog) = <<"save", n, n>> => Value = n
    BY DEF Value
  <2> QED BY <1>2, <2>2, <2>3
<1>4. Covered(Tail(prog), Known')
  BY <1>1, <1>3, TailCovered, MoreCovered DEF CInv
<1>5. Tail(prog) \in Seq(CleanEntry)
  BY <1>1, TailIndex DEF CInv
<1> QED BY <1>1, <1>4, <1>5 DEF CInv, Clean, Covered

LEMMA GoodRestore ==
  ASSUME TInv, CInv, Good, Restore
  PROVE  Clean' /\ NoJunk(buf') /\ prog' \in Seq(CleanEntry) /\ Covered(prog, Known)'
<1> USE DEF Other, Measurement, Bookkeeping
<1>1. /\ prog # <<>> /\ prog \in Programs /\ dev' = dev /\ buf' = buf /\ saved' = saved
      /\ Head(prog) \in Entry /\ Head(prog)[1] = "restore" /\ Object \in Settings
      /\ Head(prog) = prog[1]
  BY AtEntry DEF Restore, TInv, Entry, Object
<1>2. saved[Object] # Junk
  <2>1. Covered(prog, Known) /\ 1 \in 1 .. Len(prog)
    BY <1>1 DEF CInv, Programs
  <2>2. \A j \in 1 .. 1 - 1 : FALSE
    OBVIOUS
  <2>3. prog[1][2] \in Known
    BY <1>1, <2>1, <2>2 DEF Covered
  <2> QED BY <1>1, <2>3 DEF Known, Object
<1>3. saved[Object] \in Nat /\ prog' = Setter(Object, saved[Object]) \o Tail(prog)
  BY <1>1, <1>2 DEF Restore, TInv, SavedType, Bytes
<1> DEFINE s == Setter(Object, saved[Object])
<1>4. s \in Seq(CleanEntry) /\ s \in Programs /\ Covered(s, Known)
  BY <1>1, <1>3, SetterProper, CleanPrograms, SetterStraight, StraightCovered DEF Proper
<1> HIDE DEF s
<1>5. Tail(prog) \in Seq(CleanEntry) /\ Tail(prog) \in Programs /\ Covered(Tail(prog), Known)
  <2>1. {n \in Settings : Head(prog) = <<"save", n, n>>} = {}
    BY <1>1
  <2>2. Covered(Tail(prog), Known)
    BY <1>1, <2>1, TailCovered DEF CInv
  <2> QED BY <1>1, <2>2, TailIndex DEF CInv, Programs
<1>6. s \o Tail(prog) \in Seq(CleanEntry)
  BY <1>4, <1>5, JoinIndex
<1>7. Covered(s \o Tail(prog), Known)
  BY <1>4, <1>5, JoinCovered
<1>8. Known' = Known
  BY <1>1 DEF Known
<1> QED BY <1>1, <1>3, <1>6, <1>7, <1>8 DEF CInv, Clean, Covered, s

LEMMA GoodTake ==
  ASSUME TInv, CInv, Good, Take
  PROVE  Clean' /\ NoJunk(buf') /\ prog' \in Seq(CleanEntry) /\ Covered(prog, Known)'
<1>1. /\ prog # <<>> /\ prog' = Tail(prog) /\ saved' = saved /\ Head(prog)[1] # "save"
      /\ dev' = dev /\ buf' = buf
  BY DEF Take, At
<1>2. prog' \in Seq(CleanEntry) /\ Covered(prog, Known)'
  BY <1>1, GoodTail
<1> QED BY <1>1, <1>2 DEF CInv, Clean

\* A simple setter that refuses its value does so first of all.
LEMMA SimpleRefusal ==
  ASSUME TInv, SetInv, call \in Simple
  PROVE  /\ status = "refused" => prog = <<>>
         /\ At("refuse") => status = "ok"
<1> DEFINE s == Setter(call, arg)
<1>1. call \in Settings /\ call \notin {"resolution", "mode"}
  BY DEF Simple
<1>2. Left(s) /\ DidSimple(call, arg) /\ s \in Programs /\ prog \in Programs
  BY <1>1, SetterProper, CleanPrograms DEF SetInv, Did, TInv, Proper
<1>3. prog # <<>> => /\ Head(prog) = s[Len(s) - Len(prog) + 1] /\ Len(prog) \in 1 .. Len(s)
                     /\ Len(s) \in Nat
  BY <1>2, LeftHead
<1> HIDE DEF s
<1>4. CASE Valid(call, arg)
  <2>1. Len(s) = 2 /\ s[1][1] = "read" /\ s[2][1] = "write"
    BY <1>4, SimpleProgram DEF s
  <2>2. prog # <<>> => Head(prog)[1] \in {"read", "write"}
    <3> SUFFICES ASSUME prog # <<>> PROVE Head(prog)[1] \in {"read", "write"}
      OBVIOUS
    <3>1. CASE Len(prog) = 2
      <4>1. Head(prog) = s[1]
        BY <1>3, <2>1, <3>1
      <4> QED BY <2>1, <4>1
    <3>2. CASE Len(prog) = 1
      <4>1. Head(prog) = s[2]
        BY <1>3, <2>1, <3>2
      <4> QED BY <2>1, <4>1
    <3> QED BY <1>3, <2>1, <3>1, <3>2
  <2> QED BY <1>2, <1>4, <2>2 DEF DidSimple, At
<1>5. CASE ~Valid(call, arg)
  <2>1. Len(s) = 1
    BY <1>5, SimpleProgram DEF s
  <2>2. prog # <<>> => Len(prog) = 1
    BY <1>3, <2>1
  <2>3. Len(prog) = 1 => status = "ok"
    BY <1>2, <1>5 DEF DidSimple
  <2> QED BY <2>2, <2>3 DEF At
<1> QED BY <1>4, <1>5

LEMMA BeginClean ==
  ASSUME TInv, CInv, NEW c, NEW v, NEW body, <<c, v, body>> \in Bodies, Begin(c, v, body)
  PROVE  CInv'
<1>1. Covered(body, {}) /\ Proper(body)
  BY BodyCovered
<1>2. /\ call = "none" /\ call' = c /\ prog' = body /\ status' = "ok" /\ dev' = dev /\ buf' = buf
      /\ saved' = saved /\ errorSeen' = errorSeen
  BY DEF Begin
<1>3. c # "none"
  BY DEF Bodies, Settings
<1>4. Clean' <=> Clean
  BY <1>2 DEF Clean
<1>5. NoJunk(buf')
  BY <1>2 DEF TInv, NoJunk, NoBytes
<1>6. Covered(body, Known')
  BY <1>1, MoreCovered
<1>7. prog' \in Seq(CleanEntry) /\ Covered(prog, Known)'
  BY <1>1, <1>2, <1>6 DEF Proper, Covered
<1> QED BY <1>2, <1>3, <1>4, <1>5, <1>7 DEF CInv, Good

LEMMA StepClean == TInv /\ SetInv /\ CInv /\ [Next]_vars => CInv'
<1> SUFFICES ASSUME TInv, SetInv, CInv, [Next]_vars PROVE CInv'
  OBVIOUS
<1>1. ASSUME (\E name \in Settings : Set(name)) \/ Calibrate \/ Caldata PROVE CInv'
  BY <1>1, Calls, BeginClean
<1>2. ASSUME Return PROVE CInv'
  <2>1. /\ call # "none" /\ call' = "none" /\ dev' = dev /\ buf' = NoBytes /\ prog' = <<>>
        /\ status' = status
        /\ errorSeen' = (errorSeen \/ status = "error"
                                   \/ (status = "refused" /\ call \in {"mode", "resolution"}))
    BY <1>2 DEF Return
  <2>2. Clean' <=> Clean
    BY <2>1 DEF Clean
  <2>3. Clean \/ errorSeen'
    <3>1. CASE status = "ok"
      BY <2>1, <3>1 DEF CInv, Good, TInv
    <3>2. CASE status = "error"
      BY <2>1, <3>2
    <3>3. CASE status = "refused"
      <4>1. call \in Settings
        BY <2>1, <3>3 DEF CInv
      <4>2. CASE call \in Simple
        BY <2>1, <3>3, <4>2 DEF CInv, TInv
      <4>3. CASE call \in {"mode", "resolution"}
        BY <2>1, <3>3, <4>3
      <4> QED BY <4>1, <4>2, <4>3 DEF Simple
    <3> QED BY <3>1, <3>2, <3>3 DEF TInv
  <2>4. NoJunk(buf') /\ prog' \in Seq(CleanEntry) /\ Covered(prog, Known)'
    BY <2>1 DEF NoJunk, NoBytes, Covered
  <2> QED BY <2>1, <2>2, <2>3, <2>4 DEF CInv, Good, Simple, Settings
<1>3. ASSUME UNCHANGED vars PROVE CInv'
  <2>1. UNCHANGED <<dev, buf, call, prog, status, saved, errorSeen>>
    BY <1>3 DEF vars
  <2> QED BY <2>1 DEF CInv, Good, Clean, Covered, Known
<1>4. ASSUME Next, ~((\E name \in Settings : Set(name)) \/ Calibrate \/ Caldata), ~Return
      PROVE  CInv'
  <2>1. call' = call /\ errorSeen' = errorSeen /\ prog # <<>> /\ call # "none"
    BY <1>4, CallGoesOn DEF TInv
  <2>2. \/ \E failed \in BOOLEAN : Exchange(failed)
        \/ Save \/ Refuse \/ Restore \/ Take
    BY <1>4 DEF Next
  <2>3. CASE Refuse
    <3>1. /\ dev' = dev /\ status' = (IF call \in Settings THEN "refused" ELSE "error") /\ At("refuse")
      BY <2>3 DEF Refuse
    <3>2. Clean' <=> Clean
      BY <3>1 DEF Clean
    <3>3. call \in Simple => Clean \/ errorSeen
      BY <3>1, SimpleRefusal DEF CInv, Good, TInv
    <3> QED BY <2>1, <3>1, <3>2, <3>3 DEF CInv, Good
  <2>4. CASE ~Refuse
    <3>1. status' \in {status, "error"}
      BY <2>2, <2>4 DEF Exchange, Read, Write, Send, Configure, SendList, Measure, Fetch, Unless,
                        Save, Restore, Take
    <3>2. ASSUME Good'
          PROVE  Clean' /\ NoJunk(buf') /\ prog' \in Seq(CleanEntry) /\ Covered(prog, Known)'
      <4>1. Good
        BY <2>1, <3>1, <3>2 DEF Good
      <4> QED BY <2>2, <2>4, <3>2, <4>1, GoodExchange, GoodSave, GoodRestore, GoodTake
    <3>3. status' = "refused" => call \notin Simple /\ call \in Settings
      BY <2>1, <3>1, SimpleRefusal DEF CInv
    <3> QED BY <2>1, <3>2, <3>3 DEF CInv
  <2> QED BY <2>3, <2>4
<1> QED BY <1>1, <1>2, <1>3, <1>4

LEMMA InitClean == Init => CInv
<1> SUFFICES ASSUME Init PROVE CInv
  OBVIOUS
<1>1. Clean
  BY ConfigurationsClean DEF Init, Clean, NoJunk
<1>2. NoJunk(buf) /\ prog \in Seq(CleanEntry) /\ Covered(prog, Known)
  BY DEF Init, NoJunk, NoBytes, Covered
<1> QED BY <1>1, <1>2 DEF Init, CInv

\* Bytes that nobody set reach the firmware only in a call that fails or refuses, or
\* after one that has: no function returns 0 over them.
THEOREM CorruptionIsReported == Spec => []CorruptionReported
<1>1. TInv /\ SetInv /\ CInv => CorruptionReported
  BY DEF CInv, Good, CorruptionReported
<1>2. Spec => [](TInv /\ SetInv /\ CInv)
  BY InitTyped, StepTyped, InitSet, StepSet, InitClean, StepClean, PTL DEF Spec
<1> QED BY <1>1, <1>2, PTL
-----------------------------------------------------------------------------
(* A call that goes well. While no exchange has failed, temp_buffer holds the *)
(* block that is about to be written or to be read from, so that each entry   *)
(* has one effect.                                                           *)

Synced == Good /\ prog # <<>> /\ Needs(prog[1]) # "none" => buf = dev[Needs(prog[1])]

\* What is left to be done, wherever it stands.
Entries(s) == {s[k] : k \in 1 .. Len(s)}

LEMMA EntriesTail ==
  ASSUME NEW s \in Programs, s # <<>>
  PROVE  Entries(s) = {Head(s)} \cup Entries(Tail(s)) /\ Head(s) \in Entry
<1>1. /\ Len(Tail(s)) = Len(s) - 1 /\ Len(s) \in Nat /\ Len(s) >= 1 /\ Head(s) = s[1]
      /\ s[1] \in Entry /\ \A m \in 1 .. Len(Tail(s)) : Tail(s)[m] = s[m + 1]
  BY TailIndex DEF Programs
<1>2. ASSUME NEW k \in 1 .. Len(s) PROVE s[k] = Head(s) \/ s[k] \in Entries(Tail(s))
  <2>1. CASE k = 1
    BY <1>1, <2>1
  <2>2. CASE k > 1
    <3>1. k - 1 \in 1 .. Len(Tail(s)) /\ Tail(s)[k - 1] = s[k]
      BY <1>1, <2>2
    <3> QED BY <3>1 DEF Entries
  <2> QED BY <1>1, <2>1, <2>2
<1>3. ASSUME NEW m \in 1 .. Len(Tail(s)) PROVE Tail(s)[m] \in Entries(s)
  <2>1. Tail(s)[m] = s[m + 1] /\ m + 1 \in 1 .. Len(s)
    BY <1>1
  <2> QED BY <2>1 DEF Entries
<1>4. Head(s) \in Entries(s)
  BY <1>1 DEF Entries
<1> QED BY <1>1, <1>2, <1>3, <1>4 DEF Entries

LEMMA EntriesJoin ==
  ASSUME NEW p \in Programs, NEW q \in Programs
  PROVE  Entries(p \o q) = Entries(p) \cup Entries(q)
<1>1. /\ Len(p \o q) = Len(p) + Len(q) /\ Len(p) \in Nat /\ Len(q) \in Nat
      /\ \A m \in 1 .. Len(p) : (p \o q)[m] = p[m]
      /\ \A m \in 1 .. Len(q) : (p \o q)[Len(p) + m] = q[m]
      /\ \A m \in Len(p) + 1 .. Len(p) + Len(q) : (p \o q)[m] = q[m - Len(p)]
  BY JoinIndex DEF Programs
<1>2. ASSUME NEW k \in 1 .. Len(p \o q) PROVE (p \o q)[k] \in Entries(p) \cup Entries(q)
  <2>1. CASE k <= Len(p)
    BY <1>1, <2>1 DEF Entries
  <2>2. CASE k > Len(p)
    <3>1. (p \o q)[k] = q[k - Len(p)] /\ k - Len(p) \in 1 .. Len(q)
      BY <1>1, <2>2
    <3> QED BY <3>1 DEF Entries
  <2> QED BY <1>1, <2>1, <2>2
<1>3. ASSUME NEW m \in 1 .. Len(p) PROVE p[m] \in Entries(p \o q)
  <2>1. (p \o q)[m] = p[m] /\ m \in 1 .. Len(p \o q)
    BY <1>1
  <2> QED BY <2>1 DEF Entries
<1>4. ASSUME NEW m \in 1 .. Len(q) PROVE q[m] \in Entries(p \o q)
  <2>1. (p \o q)[Len(p) + m] = q[m] /\ Len(p) + m \in 1 .. Len(p \o q)
    BY <1>1
  <2> QED BY <2>1 DEF Entries
<1> QED BY <1>2, <1>3, <1>4 DEF Entries

LEMMA NoEntries == \A s \in Programs : s = <<>> => Entries(s) = {}
BY DEF Entries

\* The entries of a setter.
LEMMA SetterEntries ==
  ASSUME NEW n \in Settings, NEW v
  PROVE  LET E == Entries(Setter(n, v)) IN
         /\ ~Valid(n, v) => \E e \in E : e[1] = "refuse"
         /\ Valid(n, v) => <<"write", BlockOf(n), Raw(n, v)>> \in E
         /\ n = "resolution" /\ Valid(n, v) =>
              E = {<<"read", "dss", DssRaw(v)>>, <<"write", "dss", DssRaw(v)>>,
                   <<"read", "zone", Raw(n, v)>>, <<"write", "zone", Raw(n, v)>>,
                   <<"offset", "grid", v>>, <<"xtalk", "grid", v>>}
         /\ n = "mode" => E \subseteq {ModeRead, ModeRefuse, ModeWrite(v), SingleWrite(v)}
         /\ n \in Simple =>
              E \subseteq {<<"read", n, Raw(n, v)>>, <<"write", n, Raw(n, v)>>, <<"refuse", "value", 0>>}
         /\ Valid(n, v) => \A e \in E : e[1] # "refuse"
<1> DEFINE s == Setter(n, v)
<1>1. CASE n = "resolution"
  <2>1. CASE Valid(n, v)
    <3>1. /\ Len(s) = 6
          /\ s[1] = <<"read", "dss", DssRaw(v)>> /\ s[2] = <<"write", "dss", DssRaw(v)>>
          /\ s[3] = <<"read", "zone", Raw("resolution", v)>>
          /\ s[4] = <<"write", "zone", Raw("resolution", v)>>
          /\ s[5] = <<"offset", "grid", v>> /\ s[6] = <<"xtalk", "grid", v>>
      BY <1>1, <2>1, ResolutionProgram
    <3> HIDE DEF s
    <3>2. Entries(s) = {s[1], s[2], s[3], s[4], s[5], s[6]}
      BY <3>1 DEF Entries
    <3> QED BY <1>1, <2>1, <3>1, <3>2 DEF BlockOf, Simple, s
  <2>2. CASE ~Valid(n, v)
    <3>1. Len(s) = 3 /\ s[1] = <<"refuse", "value", 0>>
      BY <1>1, <2>2, ResolutionProgram
    <3> HIDE DEF s
    <3>2. s[1] \in Entries(s)
      BY <3>1 DEF Entries
    <3> QED BY <1>1, <2>2, <3>1, <3>2 DEF Simple, s
  <2> QED BY <2>1, <2>2
<1>2. CASE n = "mode"
  <2>0. s = SetRangingMode(v)
    BY <1>2 DEF Setter
  <2>1. CASE Valid(n, v)
    <3>1. Len(s) = 3 /\ s[1] = ModeRead /\ s[2] = ModeWrite(v) /\ s[3] = SingleWrite(v)
      BY <1>2, <2>0, <2>1, ModeProgram
    <3> HIDE DEF s
    <3>2. Entries(s) = {s[1], s[2], s[3]}
      BY <3>1 DEF Entries
    <3>3. ModeRead[1] # "refuse" /\ ModeWrite(v)[1] # "refuse" /\ SingleWrite(v)[1] # "refuse"
          /\ ModeWrite(v) = <<"write", BlockOf(n), Raw(n, v)>>
      BY <1>2 DEF ModeRead, ModeWrite, SingleWrite, BlockOf
    <3> QED BY <1>2, <2>1, <3>1, <3>2, <3>3 DEF Simple, s
  <2>2. CASE ~Valid(n, v)
    <3>1. /\ Len(s) = 4 /\ s[1] = ModeRead /\ s[2] = ModeRefuse
          /\ s[3] = ModeWrite(v) /\ s[4] = SingleWrite(v)
      BY <1>2, <2>0, <2>2, ModeProgram
    <3> HIDE DEF s
    <3>2. Entries(s) = {s[1], s[2], s[3], s[4]}
      BY <3>1 DEF Entries
    <3>3. ModeRefuse[1] = "refuse"
      BY DEF ModeRefuse
    <3> QED BY <1>2, <2>2, <3>1, <3>2, <3>3 DEF Simple, s
  <2> QED BY <2>1, <2>2
<1>3. CASE n \in Simple
  <2>0. n \notin {"resolution", "mode"} /\ BlockOf(n) = n
    BY <1>3 DEF Simple, BlockOf
  <2>1. CASE Valid(n, v)
    <3>1. Len(s) = 2 /\ s[1] = <<"read", n, Raw(n, v)>> /\ s[2] = <<"write", n, Raw(n, v)>>
      BY <1>3, <2>1, SimpleProgram
    <3> HIDE DEF s
    <3>2. Entries(s) = {s[1], s[2]}
      BY <3>1 DEF Entries
    <3> QED BY <2>0, <2>1, <3>1, <3>2 DEF s
  <2>2. CASE ~Valid(n, v)
    <3>1. Len(s) = 1 /\ s[1] = <<"refuse", "value", 0>>
      BY <1>3, <2>2, SimpleProgram
    <3> HIDE DEF s
    <3>2. Entries(s) = {s[1]}
      BY <3>1 DEF Entries
    <3> QED BY <2>0, <2>2, <3>1, <3>2 DEF s
  <2> QED BY <2>1, <2>2
<1> QED BY <1>1, <1>2, <1>3 DEF Simple

\* A step that goes well was taken in a state in which all had gone well.
LEMMA StillGood ==
  ASSUME TInv, Next, prog # <<>>, Good'
  PROVE  /\ Good /\ call # "none" /\ call' = call /\ arg' = arg /\ before' = before
         /\ errorSeen' = errorSeen /\ Head(prog) \in Entry /\ Head(prog) = prog[1]
         /\ Head(prog)[1] # "refuse"
<1>1. call # "none" /\ Head(prog) \in Entry /\ Head(prog) = prog[1]
  BY TailIndex DEF TInv, Programs
<1>2. ~((\E name \in Settings : Set(name)) \/ Calibrate \/ Caldata) /\ ~Return
  BY <1>1 DEF Set, Calibrate, Caldata, Begin, Return
<1>3. call' = call /\ arg' = arg /\ before' = before /\ errorSeen' = errorSeen
  BY <1>2, CallGoesOn
<1>4. ~Refuse
  BY DEF Refuse, Good
<1>5. \/ \E failed \in BOOLEAN : Exchange(failed)
      \/ Save \/ Restore \/ Take
  BY <1>2, <1>4 DEF Next
<1>6. status' \in {status, "error"} /\ Head(prog)[1] # "refuse"
  BY <1>5 DEF Exchange, Read, Write, Send, Configure, SendList, Measure, Fetch, Unless, Save, Restore,
              Take, At
<1> QED BY <1>1, <1>3, <1>6 DEF Good

\* What an entry does when it goes well.
Effect(e) ==
  /\ dev' = IF e[1] = "write"
            THEN [dev EXCEPT ![e[2]] = IF e[2] = "single" THEN e[3] ELSE Edited(dev[e[2]], e[3])]
            ELSE IF e[1] = "configure"
            THEN [b \in Blocks |-> IF b = "single" THEN dev[b]
                                   ELSE IF e[2] = "calibration" THEN CalibrationDev[b]
                                   ELSE DefaultDev[b]]
            ELSE dev
  /\ saved' = IF e[1] = "save" THEN [saved EXCEPT ![e[3]] = Get(e[2], dev[BlockOf(e[2])])] ELSE saved
  /\ grids' = IF e[1] = "offset" THEN (IF e[3] = 16 THEN 16 ELSE 64) ELSE grids
  /\ xtalk' = IF e[1] = "xtalk" THEN [xtalkData EXCEPT !.res = IF e[3] = 16 THEN 16 ELSE @]
              ELSE IF e[1] = "calibrate"
              THEN [origin |-> "calibrated", res |-> Get("resolution", dev["zone"])]
              ELSE xtalk
  /\ \/ xtalkData' = IF e[1] = "take" THEN caller
                     ELSE IF e[1] = "fetch" /\ e[2] = "driver" THEN xtalk ELSE xtalkData
     \/ e[1] = "calibrate" /\ xtalkData' = Full
  /\ caller' = IF e[1] = "fetch" /\ e[2] = "caller" THEN xtalk ELSE caller
  /\ listed' = IF e[1] = "output" THEN saved["zones"] ELSE listed
  /\ measured' = IF e[1] = "calibrate"
                 THEN Append(<<dev["target"][2], dev["target"][4], dev["target"][0]>>, listed)
                 ELSE measured
  /\ prog' = IF e[1] = "restore" THEN Setter(e[2], saved[e[2]]) \o Tail(prog) ELSE Tail(prog)
  /\ e[1] = "restore" => e[2] \in Settings /\ saved[e[2]] \in Nat

LEMMA GoodEffect ==
  ASSUME TInv, CInv, Synced, Next, prog # <<>>, Good'
  PROVE  Effect(Head(prog))
<1> USE DEF Other, Measurement, Bookkeeping
<1> DEFINE e == Head(prog)
<1>1. Good /\ e \in Entry /\ e = prog[1] /\ e[1] # "refuse" /\ call # "none" /\ status = "ok"
      /\ status' = "ok"
  BY StillGood DEF Good
<1>2. /\ dev = [b \in Blocks |-> dev[b]]
      /\ Needs(e) # "none" => buf = dev[Needs(e)]
  BY <1>1 DEF TInv, IsDev, Synced
<1>3. e[1] = Head(prog)[1] /\ e[2] = Object /\ e[3] = Value
  BY DEF Object, Value
<1> SUFFICES Effect(e)
  OBVIOUS
<1> HIDE DEF e
<1>4. CASE e[1] = "write"
  <2>1. PICK failed \in BOOLEAN : Write(failed)
    BY <1>1, <1>3, <1>4 DEF Next, Set, Calibrate, Caldata, Begin, Return, Exchange, Read, Send, Configure, SendList, Measure,
                            Fetch, Save, Refuse, Restore, Take, At
  <2>2. ~failed
    BY <1>1, <2>1 DEF Write, Unless
  <2>3. e[2] # "single" => buf = dev[e[2]]
    <3>1. e[2] \in Blocks
      BY <1>1, <1>4 DEF Entry
    <3> QED BY <1>2, <1>4, <3>1 DEF Needs, Blocks
  <2>4. dev' = [dev EXCEPT ![e[2]] = IF e[2] = "single" THEN e[3] ELSE Edited(dev[e[2]], e[3])]
    BY <1>3, <2>1, <2>2, <2>3 DEF Write
  <2> QED BY <1>4, <2>1, <2>4 DEF Write, Effect
<1>5. CASE e[1] = "save"
  <2>1. Save
    BY <1>1, <1>3, <1>5 DEF Next, Set, Calibrate, Caldata, Begin, Return, Exchange, Read, Write, Send, Configure, SendList,
                            Measure, Fetch, Refuse, Restore, Take, At
  <2>2. buf = dev[BlockOf(e[2])]
    <3>1. e[2] \in Settings
      BY <1>1, <1>5 DEF Entry
    <3> QED BY <1>2, <1>5, <3>1 DEF Needs, BlockOf, Settings
  <2>3. saved' = [saved EXCEPT ![e[3]] = Get(e[2], dev[BlockOf(e[2])])]
    BY <1>3, <2>1, <2>2 DEF Save
  <2> QED BY <1>5, <2>1, <2>3 DEF Save, Effect
<1>6. CASE e[1] = "restore"
  <2>1. Restore
    BY <1>1, <1>3, <1>6 DEF Next, Set, Calibrate, Caldata, Begin, Return, Exchange, Read, Write, Send, Configure, SendList,
                            Measure, Fetch, Refuse, Save, Take, At
  <2>2. saved[e[2]] \in Nat /\ e[2] \in Settings
    <3>1. Covered(prog, Known) /\ 1 \in 1 .. Len(prog) /\ prog[1][1] = "restore"
      BY <1>1, <1>6 DEF CInv, TInv, Programs
    <3>2. \A j \in 1 .. 1 - 1 : FALSE
      OBVIOUS
    <3>3. e[2] \in Known
      BY <1>1, <3>1, <3>2 DEF Covered
    <3> QED BY <3>3 DEF Known, TInv, SavedType, Bytes
  <2>3. saved[e[2]] # Junk
    BY <2>2, NotJunk
  <2>4. prog' = Setter(e[2], saved[e[2]]) \o Tail(prog)
    BY <1>3, <2>1, <2>3 DEF Restore
  <2> QED BY <1>6, <2>1, <2>2, <2>4 DEF Restore, Effect
<1>7. CASE e[1] = "configure"
  <2>1. PICK failed \in BOOLEAN : Configure(failed)
    BY <1>1, <1>3, <1>7 DEF Next, Set, Calibrate, Caldata, Begin, Return, Exchange, Read, Write, Send, SendList,
                            Measure, Fetch, Refuse, Save, Take, Restore, At
  <2>2. ~failed
    BY <1>1, <2>1 DEF Configure, Unless
  <2>3. dev' = [b \in Blocks |-> IF b = "single" THEN dev[b]
                                 ELSE IF e[2] = "calibration" THEN CalibrationDev[b]
                                 ELSE DefaultDev[b]]
    BY <1>3, <2>1, <2>2 DEF Configure
  <2> QED BY <1>7, <2>1, <2>3 DEF Configure, Effect
<1>8. CASE e[1] \in {"read", "take"}
  <2>1. (\E failed \in BOOLEAN : Read(failed)) \/ Take
    BY <1>1, <1>3, <1>8 DEF Next, Set, Calibrate, Caldata, Begin, Return, Exchange, Write, Send, Configure, SendList,
                            Measure, Fetch, Refuse, Save, Restore, At
  <2> QED BY <1>3, <1>8, <2>1 DEF Read, Take, Effect, At
<1>9. CASE e[1] \in {"offset", "xtalk"}
  <2>1. PICK failed \in BOOLEAN : Send(failed)
    BY <1>1, <1>3, <1>9 DEF Next, Set, Calibrate, Caldata, Begin, Return, Exchange, Read, Write, Configure, SendList,
                            Measure, Fetch, Refuse, Save, Take, Restore, At
  <2>2. ~failed
    BY <1>1, <2>1 DEF Send, Unless
  <2> QED BY <1>1, <1>3, <1>9, <2>1, <2>2 DEF Send, Effect, At
<1>10. CASE e[1] \in {"calibrate", "output", "fetch"}
  <2>1. PICK failed \in BOOLEAN : Measure(failed) \/ SendList(failed) \/ Fetch(failed)
    BY <1>1, <1>3, <1>10 DEF Next, Set, Calibrate, Caldata, Begin, Return, Exchange, Read, Write, Send, Configure,
                            Refuse, Save, Take, Restore, At
  <2>2. ~failed
    BY <1>1, <2>1 DEF Measure, SendList, Fetch, Unless
  <2>3. CASE Measure(failed)
    BY <1>3, <1>10, <2>2, <2>3 DEF Measure, Effect, At
  <2>4. CASE SendList(failed)
    BY <1>3, <1>10, <2>2, <2>4 DEF SendList, Effect, At
  <2>5. CASE Fetch(failed)
    BY <1>3, <1>10, <2>2, <2>5 DEF Fetch, Effect, At
  <2> QED BY <2>1, <2>3, <2>4, <2>5
<1>11. e[1] \in Kinds
  BY <1>1 DEF Entry
<1> QED BY <1>1, <1>4, <1>5, <1>6, <1>7, <1>8, <1>9, <1>10, <1>11 DEF Kinds

LEMMA StepSynced == TInv /\ CInv /\ Synced /\ [Next]_vars => Synced'
<1> SUFFICES ASSUME TInv, CInv, Synced, [Next]_vars, Good', prog' # <<>>, Needs(prog'[1]) # "none"
             PROVE  buf' = dev'[Needs(prog'[1])]
  BY DEF Synced
<1>1. ASSUME (\E name \in Settings : Set(name)) \/ Calibrate \/ Caldata PROVE FALSE
  <2>1. PICK c, v, body : <<c, v, body>> \in Bodies /\ Begin(c, v, body)
    BY <1>1, Calls
  <2>2. Fresh(body) /\ prog' = body
    BY <2>1, BodyCovered DEF Begin, Proper
  <2> QED BY <2>2 DEF Fresh
<1>2. ASSUME Return PROVE FALSE
  BY <1>2 DEF Return
<1>3. CASE UNCHANGED vars
  BY <1>3 DEF vars, Synced, Good
<1>4. CASE Next /\ prog # <<>>
  <2> DEFINE e == Head(prog)
  <2>1. Good /\ e \in Entry /\ e[1] # "refuse" /\ call # "none"
    BY <1>4, StillGood
  <2>2. Effect(e)
    BY <1>4, GoodEffect
  <2>3. e[1] # "restore"
    <3> SUFFICES ASSUME e[1] = "restore" PROVE FALSE
      OBVIOUS
    <3>1. Restore
      BY <1>4, <2>1, <2>1 DEF Next, Set, Calibrate, Caldata, Begin, Return, Exchange, Read, Write, Send,
                   Configure, SendList, Measure, Fetch, Refuse, Save, Take, At
    <3>2. Fresh(prog')
      BY <3>1, RestoreProgram
    <3> QED BY <3>2 DEF Fresh
  <2>4. prog' = Tail(prog)
    BY <2>2, <2>3 DEF Effect
  <2>5. Leaves(e, Needs(prog'[1]))
    BY <1>4, <2>4, TailChained DEF TInv
  <2>6. e[1] = "read" /\ e[2] = Needs(prog'[1])
    BY <2>1, <2>5 DEF Leaves
  <2>7. dev' = dev
    BY <2>2, <2>6 DEF Effect
  <2>8. PICK failed \in BOOLEAN : Read(failed)
    BY <1>4, <2>1, <2>6 DEF Next, Set, Calibrate, Caldata, Begin, Return, Exchange, Write, Send,
                   Configure, SendList, Measure, Fetch, Refuse, Save, Take, Restore, At
  <2>9. ~failed
    BY <2>8 DEF Read, Unless, Good
  <2> QED BY <2>6, <2>7, <2>8, <2>9 DEF Read, Object
<1>5. Next /\ prog = <<>> => (\E name \in Settings : Set(name)) \/ Calibrate \/ Caldata \/ Return
  BY DEF Next, Exchange, Read, Write, Send, Configure, SendList, Measure, Fetch, Refuse, Save, Take,
         Restore, At
<1> QED BY <1>1, <1>2, <1>3, <1>4, <1>5
-----------------------------------------------------------------------------
(* The calibration, entry by entry.                                         *)

Joined(p, q) == p \o q

LEMMA JoinedIndex ==
  ASSUME NEW p \in Programs, NEW q \in Programs
  PROVE  /\ Joined(p, q) \in Programs /\ Len(Joined(p, q)) = Len(p) + Len(q)
         /\ Len(p) \in Nat /\ Len(q) \in Nat
         /\ \A k \in 1 .. Len(p) : Joined(p, q)[k] = p[k]
         /\ \A k \in Len(p) + 1 .. Len(p) + Len(q) : Joined(p, q)[k] = q[k - Len(p)]
BY JoinIndex DEF Programs, Joined

LEMMA SevenPairs ==
  ASSUME NEW a, NEW b, NEW c, NEW d, NEW e, NEW f, NEW g, NEW h, NEW i, NEW j, NEW k, NEW l, NEW m, NEW n
  PROVE  LET r == <<a, b>> \o <<c, d>> \o <<e, f>> \o <<g, h>> \o <<i, j>> \o <<k, l>> \o <<m, n>> IN
         /\ Len(r) = 14 /\ r[1] = a /\ r[2] = b /\ r[3] = c /\ r[4] = d /\ r[5] = e /\ r[6] = f
         /\ r[7] = g /\ r[8] = h /\ r[9] = i /\ r[10] = j /\ r[11] = k /\ r[12] = l /\ r[13] = m
         /\ r[14] = n
OBVIOUS

LEMMA SevenOnes ==
  ASSUME NEW a, NEW b, NEW c, NEW d, NEW e, NEW f, NEW g
  PROVE  LET r == <<a>> \o <<b>> \o <<c>> \o <<d>> \o <<e>> \o <<f>> \o <<g>> IN
         /\ Len(r) = 7 /\ r[1] = a /\ r[2] = b /\ r[3] = c /\ r[4] = d /\ r[5] = e /\ r[6] = f
         /\ r[7] = g
OBVIOUS

LEMMA Eleven ==
  ASSUME NEW a, NEW b, NEW c, NEW d, NEW e, NEW f, NEW g, NEW h, NEW i, NEW j, NEW k
  PROVE  LET r == <<a>> \o (<<b, c>> \o <<d, e>> \o <<f, g>>) \o <<h, i, j>> \o <<k>> IN
         /\ Len(r) = 11 /\ r[1] = a /\ r[2] = b /\ r[3] = c /\ r[4] = d /\ r[5] = e /\ r[6] = f
         /\ r[7] = g /\ r[8] = h /\ r[9] = i /\ r[10] = j /\ r[11] = k
OBVIOUS

\* Each setting is read and saved,
LEMMA GetterTable ==
  LET s == Each(Getter) IN
  /\ Len(s) = 14
  /\ \A k \in 1 .. 14 : /\ s[k][1] \in {"read", "save"}
                        /\ s[k][1] = "save" => s[k][2] \in Settings /\ s[k][3] = s[k][2]
  /\ \A n \in Settings : \E k \in 1 .. 14 : s[k] = <<"save", n, n>>
<1> DEFINE s == Each(Getter)
           R(n) == <<"read", BlockOf(n), NoBytes>>
           S(n) == <<"save", n, n>>
<1>1. s = <<R("resolution"), S("resolution")>> \o <<R("frequency"), S("frequency")>>
            \o <<R("time"), S("time")>> \o <<R("sharpener"), S("sharpener")>>
            \o <<R("order"), S("order")>> \o <<R("margin"), S("margin")>> \o <<R("mode"), S("mode")>>
  BY DEF Each, Getter
<1>2. \A n : R(n)[1] = "read" /\ S(n)[1] = "save" /\ S(n)[2] = n /\ S(n)[3] = n
  OBVIOUS
<1> HIDE DEF s, R, S
<1>3. /\ Len(s) = 14
      /\ s[1] = R("resolution") /\ s[2] = S("resolution") /\ s[3] = R("frequency") /\ s[4] = S("frequency")
      /\ s[5] = R("time") /\ s[6] = S("time") /\ s[7] = R("sharpener") /\ s[8] = S("sharpener")
      /\ s[9] = R("order") /\ s[10] = S("order") /\ s[11] = R("margin") /\ s[12] = S("margin")
      /\ s[13] = R("mode") /\ s[14] = S("mode")
  BY <1>1, SevenPairs
<1>4. ASSUME NEW k \in 1 .. 14
      PROVE  \E n \in Settings : s[k] = R(n) \/ s[k] = S(n)
  <2>1. k \in {1, 2, 3, 4, 5, 6, 7, 8, 9, 10, 11, 12, 13, 14}
    OBVIOUS
  <2> QED BY <1>3, <2>1 DEF Settings
<1>5. \A n \in Settings : \E k \in 1 .. 14 : s[k] = S(n)
  BY <1>3 DEF Settings
<1>6. ASSUME NEW k \in 1 .. 14
      PROVE  /\ s[k][1] \in {"read", "save"}
             /\ s[k][1] = "save" => s[k][2] \in Settings /\ s[k][3] = s[k][2]
  <2>1. PICK n \in Settings : s[k] = R(n) \/ s[k] = S(n)
    BY <1>4
  <2> QED BY <1>2, <2>1
<1> QED BY <1>3, <1>5, <1>6 DEF s, S

\* ... and put back in the same order.
LEMMA RestoreTable ==
  LET s == RestoreAll IN
  /\ Len(s) = 7
  /\ s[1] = <<"restore", "resolution", 0>>
  /\ \A k \in 2 .. 7 : \E n \in Settings \ {"resolution"} : s[k] = <<"restore", n, 0>>
  /\ \A n \in Settings : \E k \in 1 .. 7 : s[k] = <<"restore", n, 0>>
<1> DEFINE s == RestoreAll
           P(n) == <<"restore", n, 0>>
<1>1. s = <<P("resolution")>> \o <<P("frequency")>> \o <<P("time")>> \o <<P("sharpener")>>
            \o <<P("order")>> \o <<P("margin")>> \o <<P("mode")>>
  BY DEF RestoreAll, Each, PutBack
<1> HIDE DEF s, P
<1>2. /\ Len(s) = 7
      /\ s[1] = P("resolution") /\ s[2] = P("frequency") /\ s[3] = P("time") /\ s[4] = P("sharpener")
      /\ s[5] = P("order") /\ s[6] = P("margin") /\ s[7] = P("mode")
  BY <1>1, SevenOnes
<1>3. ASSUME NEW k \in 2 .. 7 PROVE \E n \in Settings \ {"resolution"} : s[k] = P(n)
  <2>1. k \in {2, 3, 4, 5, 6, 7}
    OBVIOUS
  <2> QED BY <1>2, <2>1 DEF Settings
<1>4. \A n \in Settings : \E k \in 1 .. 7 : s[k] = P(n)
  BY <1>2 DEF Settings
<1> QED BY <1>2, <1>3, <1>4 DEF s, P

LEMMA MeasureTable ==
  ASSUME NEW t
  PROVE  LET s == MeasureTarget(t) IN
         /\ Len(s) = 11
         /\ s[1] = <<"configure", "calibration", 0>>
         /\ s[2][1] = "read" /\ s[3] = <<"write", "target", Only(0, t[3] * 4)>>
         /\ s[4][1] = "read" /\ s[5] = <<"write", "target", Only(2, t[1] * 16)>>
         /\ s[6][1] = "read" /\ s[7] = <<"write", "target", Only(4, t[2])>>
         /\ s[8][1] = "read" /\ s[9] = <<"save", "resolution", "zones">> /\ s[10][1] = "output"
         /\ s[11][1] = "calibrate"
<1> DEFINE s == MeasureTarget(t)
           R(e) == <<"read", "target", e>>
           W(e) == <<"write", "target", e>>
           a == Only(0, t[3] * 4)
           b == Only(2, t[1] * 16)
           c == Only(4, t[2])
           z == <<"read", "zone", NoBytes>>
           o == <<"output", "list", 0>>
           m == <<"calibrate", "xtalk", 0>>
<1>1. s = <<<<"configure", "calibration", 0>>>> \o (<<R(a), W(a)>> \o <<R(b), W(b)>> \o <<R(c), W(c)>>)
            \o <<z, <<"save", "resolution", "zones">>, o>> \o <<m>>
  BY DEF MeasureTarget, SetTarget, Replace, ProgramOutput
<1>2. (\A e : R(e)[1] = "read") /\ z[1] = "read" /\ o[1] = "output" /\ m[1] = "calibrate"
  OBVIOUS
<1> HIDE DEF s, R, W, a, b, c, z, o, m
<1>3. /\ Len(s) = 11 /\ s[1] = <<"configure", "calibration", 0>>
      /\ s[2] = R(a) /\ s[3] = W(a) /\ s[4] = R(b) /\ s[5] = W(b) /\ s[6] = R(c) /\ s[7] = W(c)
      /\ s[8] = z /\ s[9] = <<"save", "resolution", "zones">> /\ s[10] = o /\ s[11] = m
  BY <1>1, Eleven
<1> QED BY <1>2, <1>3 DEF s, W, a, b, c

\* The calibration for a target it accepts.
LEMMA CalibrateTable ==
  ASSUME NEW t \in Targets, ValidTarget(t)
  PROVE  LET s == CalibrateXtalk(t) IN
         /\ s \in Programs /\ Len(s) = 40
         /\ \A k \in 1 .. 14 : s[k] = Each(Getter)[k]
         /\ \A k \in 15 .. 20 : s[k] = Setter("resolution", 64)[k - 14]
         /\ \A k \in 21 .. 31 : s[k] = MeasureTarget(t)[k - 20]
         /\ s[32] = <<"fetch", "driver", 0>> /\ s[33] = <<"configure", "default", 0>>
         /\ \A k \in 34 .. 40 : s[k] = RestoreAll[k - 33]
<1> DEFINE A == Each(Getter)
           B == Setter("resolution", 64)
           C == MeasureTarget(t)
           D == <<<<"fetch", "driver", 0>>, <<"configure", "default", 0>>>>
           E == RestoreAll
           s == CalibrateXtalk(t)
<1>1. s = Joined(Joined(Joined(A, Joined(B, C)), D), E)
  BY DEF CalibrateXtalk, Setter, Joined
<1>2. s \in Programs
  BY CalibrateProper, CleanPrograms DEF Proper
<1>3. A \in Programs /\ B \in Programs /\ E \in Programs
  BY EachProper, SetterProper, CleanPrograms DEF Proper, Settings
<1>4. C \in Programs
  <2>1. Proper(C)
    BY TargetProper, OutputProper, AloneProper, JoinProper DEF MeasureTarget
  <2> QED BY <2>1, CleanPrograms DEF Proper
<1>5. D \in Programs /\ Len(D) = 2 /\ D[1] = <<"fetch", "driver", 0>> /\ D[2] = <<"configure", "default", 0>>
  <2>1. <<"fetch", "driver", 0>> \in Entry /\ <<"configure", "default", 0>> \in Entry
    BY EntryOf DEF Kinds, Objects, Arguments, CleanEntry
  <2> QED BY <2>1 DEF Programs
<1>6. Len(A) = 14 /\ Len(B) = 6 /\ Len(C) = 11 /\ Len(E) = 7
  <2>1. Len(B) = 6
    BY ResolutionProgram DEF Valid
  <2> QED BY <2>1, GetterTable, MeasureTable, RestoreTable
<1> HIDE DEF A, B, C, D, E, s
<1> DEFINE M == Joined(B, C)
           F == Joined(A, M)
           G == Joined(F, D)
<1>7. M = Joined(B, C) /\ F = Joined(A, M) /\ G = Joined(F, D) /\ s = Joined(G, E)
  BY <1>1
<1> HIDE DEF M, F, G
<1>8. /\ M \in Programs /\ Len(M) = 17
      /\ \A k \in 1 .. 17 : M[k] = IF k <= 6 THEN B[k] ELSE C[k - 6]
  <2>1. /\ M \in Programs /\ Len(M) = Len(B) + Len(C)
        /\ \A k \in 1 .. Len(B) : M[k] = B[k]
        /\ \A k \in Len(B) + 1 .. Len(B) + Len(C) : M[k] = C[k - Len(B)]
    BY <1>3, <1>4, <1>6, <1>7, JoinedIndex
  <2> QED BY <1>3, <1>4, <1>6, <1>7, <2>1
<1>9. /\ F \in Programs /\ Len(F) = 31
      /\ \A k \in 1 .. 31 : F[k] = IF k <= 14 THEN A[k] ELSE M[k - 14]
  <2>1. /\ F \in Programs /\ Len(F) = Len(A) + Len(M)
        /\ \A k \in 1 .. Len(A) : F[k] = A[k]
        /\ \A k \in Len(A) + 1 .. Len(A) + Len(M) : F[k] = M[k - Len(A)]
    BY <1>3, <1>6, <1>7, <1>8, JoinedIndex
  <2> QED BY <1>3, <1>6, <1>7, <1>8, <2>1
<1>10. /\ G \in Programs /\ Len(G) = 33
      /\ \A k \in 1 .. 33 : G[k] = IF k <= 31 THEN F[k] ELSE D[k - 31]
  <2>0. F \in Programs /\ D \in Programs
    BY <1>5, <1>9
  <2>1. /\ G \in Programs /\ Len(G) = Len(F) + Len(D)
        /\ \A k \in 1 .. Len(F) : G[k] = F[k]
        /\ \A k \in Len(F) + 1 .. Len(F) + Len(D) : G[k] = D[k - Len(F)]
    <3>1. G = Joined(F, D)
      BY <1>7
    <3> QED BY <2>0, <3>1, JoinedIndex
  <2> QED BY <1>5, <1>7, <1>9, <2>1
<1>11. /\ s \in Programs /\ Len(s) = 40
      /\ \A k \in 1 .. 40 : s[k] = IF k <= 33 THEN G[k] ELSE E[k - 33]
  <2>0. G \in Programs /\ E \in Programs
    BY <1>3, <1>10
  <2>1. /\ s \in Programs /\ Len(s) = Len(G) + Len(E)
        /\ \A k \in 1 .. Len(G) : s[k] = G[k]
        /\ \A k \in Len(G) + 1 .. Len(G) + Len(E) : s[k] = E[k - Len(G)]
    <3>1. s = Joined(G, E)
      BY <1>7
    <3> QED BY <2>0, <3>1, JoinedIndex
  <2> QED BY <1>3, <1>6, <1>7, <1>10, <2>1
<1>12. \A k \in 15 .. 31 : s[k] = IF k <= 20 THEN B[k - 14] ELSE C[k - 20]
  BY <1>8, <1>9, <1>10, <1>11
<1>13. s[32] = D[1] /\ s[33] = D[2]
  BY <1>10, <1>11
<1>14. /\ \A k \in 1 .. 14 : s[k] = A[k]
       /\ \A k \in 15 .. 20 : s[k] = B[k - 14]
       /\ \A k \in 21 .. 31 : s[k] = C[k - 20]
       /\ \A k \in 34 .. 40 : s[k] = E[k - 33]
  BY <1>9, <1>10, <1>11, <1>12
<1> QED BY <1>2, <1>5, <1>11, <1>13, <1>14 DEF A, B, C, E, s

\* ... and for one that it refuses.
LEMMA CalibrateRefuses ==
  ASSUME NEW t \in Targets, ~ValidTarget(t)
  PROVE  \E e \in Entries(CalibrateXtalk(t)) : e[1] = "refuse"
<1> DEFINE A == Each(Getter)
           B == Refused("value")
           D == <<<<"fetch", "driver", 0>>, <<"configure", "default", 0>>>>
           E == RestoreAll
<1>1. CalibrateXtalk(t) = A \o B \o D \o E
  BY DEF CalibrateXtalk
<1>2. A \in Programs /\ B \in Programs /\ E \in Programs
  BY EachProper, RefusedProper, CleanPrograms DEF Proper
<1>3. D \in Programs
  <2>1. <<"fetch", "driver", 0>> \in Entry /\ <<"configure", "default", 0>> \in Entry
    BY EntryOf DEF Kinds, Objects, Arguments, CleanEntry
  <2> QED BY <2>1 DEF Programs
<1>4. <<"refuse", "value", 0>> \in Entries(B)
  <2>1. Len(B) = 1 /\ B[1] = <<"refuse", "value", 0>>
    BY DEF Refused
  <2> QED BY <2>1 DEF Entries
<1> HIDE DEF A, B, D, E
<1>5. A \o B \in Programs /\ A \o B \o D \in Programs
  BY <1>2, <1>3, JoinIndex DEF Programs
<1>6. <<"refuse", "value", 0>> \in Entries(A \o B \o D \o E)
  BY <1>2, <1>3, <1>4, <1>5, EntriesJoin
<1> QED BY <1>1, <1>6
-----------------------------------------------------------------------------
(* What a calibration puts back.                                            *)

\* A value will be refused: but for a setter that is an error.
Doomed(s) == \E e \in Entries(s) : e[1] = "refuse"

\* What the calibration has done by how much of it is left, until it begins to put back.
MeasuredAs(t) == measured = <<t[1] * 16, t[2], t[3] * 4, 64>>

Calibrating ==
  /\ arg \in Targets /\ ValidTarget(arg) /\ Left(CalibrateXtalk(arg)) /\ Len(prog) >= 7
  /\ Len(prog) >= 26 => dev = before
  /\ \A n \in Settings : saved[n] = Then(n) \/ <<"save", n, n>> \in Entries(prog)
  /\ Len(prog) \in 8 .. 19 => dev["zone"] = CalibrationDev["zone"]
  /\ Len(prog) \in 10 .. 17 => dev["target"][0] = arg[3] * 4
  /\ Len(prog) \in 10 .. 15 => dev["target"][2] = arg[1] * 16
  /\ Len(prog) \in 10 .. 13 => dev["target"][4] = arg[2]
  /\ Len(prog) \in 10 .. 11 => saved["zones"] = 64
  /\ Len(prog) = 10 => listed = 64
  /\ Len(prog) <= 9 => MeasuredAs(arg)
  /\ Len(prog) = 7 => \A b \in Blocks \ {"single"} : dev[b] = DefaultDev[b]

\* The entry that is next, by how much is left.
LEMMA CalibrationEntry ==
  ASSUME TInv, Calibrating
  PROVE  LET e == Head(prog)
             L == Len(prog) IN
         /\ prog # <<>> /\ L \in 7 .. 40 /\ Len(Tail(prog)) = L - 1
         /\ \A i \in 1 .. L - 1 : Tail(prog)[i] = CalibrateXtalk(arg)[(40 - (L - 1)) + i]
         /\ L >= 27 => /\ e[1] \in {"read", "save"}
                       /\ e[1] = "save" => e[2] \in Settings /\ e[3] = e[2]
         /\ L \in {13, 15, 17, 19, 24, 26} => e[1] = "read"
         /\ L = 25 => e[1] = "write" /\ e[2] = "dss"
         /\ L = 23 => e[1] = "write" /\ e[2] = "zone"
         /\ L = 22 => e[1] = "offset"
         /\ L = 21 => e = <<"xtalk", "grid", 64>>
         /\ L = 20 => e = <<"configure", "calibration", 0>>
         /\ L = 18 => e = <<"write", "target", Only(0, arg[3] * 4)>>
         /\ L = 16 => e = <<"write", "target", Only(2, arg[1] * 16)>>
         /\ L = 14 => e = <<"write", "target", Only(4, arg[2])>>
         /\ L = 12 => e = <<"save", "resolution", "zones">>
         /\ L = 11 => e[1] = "output"
         /\ L = 10 => e[1] = "calibrate"
         /\ L = 9 => e = <<"fetch", "driver", 0>>
         /\ L = 8 => e = <<"configure", "default", 0>>
         /\ L = 7 => e = <<"restore", "resolution", 0>>
<1> DEFINE e == Head(prog)
           L == Len(prog)
           s == CalibrateXtalk(arg)
<1>1. /\ s \in Programs /\ Len(s) = 40
      /\ \A k \in 1 .. 14 : s[k] = Each(Getter)[k]
      /\ \A k \in 15 .. 20 : s[k] = Setter("resolution", 64)[k - 14]
      /\ \A k \in 21 .. 31 : s[k] = MeasureTarget(arg)[k - 20]
      /\ s[32] = <<"fetch", "driver", 0>> /\ s[33] = <<"configure", "default", 0>>
      /\ \A k \in 34 .. 40 : s[k] = RestoreAll[k - 33]
  BY CalibrateTable DEF Calibrating
<1> HIDE DEF s
<1>2. prog \in Programs /\ prog # <<>> /\ Left(s) /\ L >= 7
  BY DEF TInv, Calibrating, s
<1>0. s \in Programs
  BY <1>1
<1>3. /\ e = s[Len(s) - L + 1] /\ L \in 1 .. Len(s) /\ Len(Tail(prog)) = L - 1
      /\ \A i \in 1 .. Len(Tail(prog)) : Tail(prog)[i] = s[(Len(s) - Len(Tail(prog))) + i]
  BY <1>0, <1>2, LeftHead
<1> HIDE DEF e, L
<1>4. /\ e = s[41 - L] /\ L \in 7 .. 40 /\ Len(Tail(prog)) = L - 1
      /\ \A i \in 1 .. L - 1 : Tail(prog)[i] = s[(40 - (L - 1)) + i]
  <2>1. Len(s) = 40 /\ L >= 7 /\ L \in 1 .. 40
    BY <1>1, <1>2, <1>3
  <2>2. e = s[41 - L]
    BY <1>3, <2>1
  <2>3. ASSUME NEW i \in 1 .. L - 1 PROVE Tail(prog)[i] = s[(40 - (L - 1)) + i]
    <3>1. Len(Tail(prog)) = L - 1 /\ i \in 1 .. Len(Tail(prog))
      BY <1>3, <2>3
    <3>2. Tail(prog)[i] = s[(Len(s) - Len(Tail(prog))) + i]
      BY <1>3, <3>1
    <3> QED BY <2>1, <3>1, <3>2
  <2> QED BY <1>3, <2>1, <2>2, <2>3
<1>5. L >= 27 => /\ e[1] \in {"read", "save"}
                 /\ e[1] = "save" => e[2] \in Settings /\ e[3] = e[2]
  <2> SUFFICES ASSUME L >= 27
               PROVE  /\ e[1] \in {"read", "save"}
                      /\ e[1] = "save" => e[2] \in Settings /\ e[3] = e[2]
    OBVIOUS
  <2> DEFINE k == 41 - L
  <2>1. k \in 1 .. 14 /\ e = s[k]
    BY <1>4
  <2> HIDE DEF k
  <2>2. e = Each(Getter)[k]
    BY <1>1, <2>1
  <2> QED BY <2>1, <2>2, GetterTable
<1>6. /\ s[15][1] = "read" /\ s[16][1] = "write" /\ s[16][2] = "dss" /\ s[17][1] = "read"
      /\ s[18][1] = "write" /\ s[18][2] = "zone" /\ s[19][1] = "offset" /\ s[20] = <<"xtalk", "grid", 64>>
  <2> DEFINE r == Setter("resolution", 64)
  <2>1. /\ r[1] = <<"read", "dss", DssRaw(64)>> /\ r[2] = <<"write", "dss", DssRaw(64)>>
        /\ r[3] = <<"read", "zone", Raw("resolution", 64)>>
        /\ r[4] = <<"write", "zone", Raw("resolution", 64)>>
        /\ r[5] = <<"offset", "grid", 64>> /\ r[6] = <<"xtalk", "grid", 64>>
    BY ResolutionProgram DEF Valid
  <2> HIDE DEF r
  <2>2. \A k \in 15 .. 20 : s[k] = r[k - 14]
    BY <1>1 DEF r
  <2>3. s[15] = r[1] /\ s[16] = r[2] /\ s[17] = r[3] /\ s[18] = r[4] /\ s[19] = r[5] /\ s[20] = r[6]
    BY <2>2
  <2> QED BY <2>1, <2>3
<1>7. /\ s[21] = <<"configure", "calibration", 0>>
      /\ s[22][1] = "read" /\ s[23] = <<"write", "target", Only(0, arg[3] * 4)>>
      /\ s[24][1] = "read" /\ s[25] = <<"write", "target", Only(2, arg[1] * 16)>>
      /\ s[26][1] = "read" /\ s[27] = <<"write", "target", Only(4, arg[2])>>
      /\ s[28][1] = "read" /\ s[29] = <<"save", "resolution", "zones">> /\ s[30][1] = "output"
      /\ s[31][1] = "calibrate"
  <2> DEFINE m == MeasureTarget(arg)
  <2>1. \A k \in 21 .. 31 : s[k] = m[k - 20]
    BY <1>1
  <2>2. /\ m[1] = <<"configure", "calibration", 0>>
        /\ m[2][1] = "read" /\ m[3] = <<"write", "target", Only(0, arg[3] * 4)>>
        /\ m[4][1] = "read" /\ m[5] = <<"write", "target", Only(2, arg[1] * 16)>>
        /\ m[6][1] = "read" /\ m[7] = <<"write", "target", Only(4, arg[2])>>
        /\ m[8][1] = "read" /\ m[9] = <<"save", "resolution", "zones">> /\ m[10][1] = "output"
        /\ m[11][1] = "calibrate"
    BY MeasureTable
  <2> HIDE DEF m
  <2>3. /\ s[21] = m[1] /\ s[22] = m[2] /\ s[23] = m[3] /\ s[24] = m[4] /\ s[25] = m[5] /\ s[26] = m[6]
        /\ s[27] = m[7] /\ s[28] = m[8] /\ s[29] = m[9] /\ s[30] = m[10] /\ s[31] = m[11]
    BY <2>1
  <2> QED BY <2>2, <2>3
<1>8. s[34] = <<"restore", "resolution", 0>>
  <2>1. s[34] = RestoreAll[34 - 33]
    BY <1>1
  <2> QED BY <2>1, RestoreTable
<1>9. /\ L = 26 => e = s[15]
      /\ L = 25 => e = s[16]
      /\ L = 24 => e = s[17]
      /\ L = 23 => e = s[18]
      /\ L = 22 => e = s[19]
      /\ L = 21 => e = s[20]
      /\ L = 20 => e = s[21]
      /\ L = 19 => e = s[22]
      /\ L = 18 => e = s[23]
      /\ L = 17 => e = s[24]
      /\ L = 16 => e = s[25]
      /\ L = 15 => e = s[26]
      /\ L = 14 => e = s[27]
      /\ L = 13 => e = s[28]
      /\ L = 12 => e = s[29]
      /\ L = 11 => e = s[30]
      /\ L = 10 => e = s[31]
      /\ L = 9 => e = s[32]
      /\ L = 8 => e = s[33]
      /\ L = 7 => e = s[34]
  BY <1>4
<1>10. s[32] = <<"fetch", "driver", 0>> /\ s[33] = <<"configure", "default", 0>>
  BY <1>1
<1>11. /\ L \in {13, 15, 17, 19, 24, 26} => e[1] = "read"
       /\ L = 25 => e[1] = "write" /\ e[2] = "dss"
       /\ L = 23 => e[1] = "write" /\ e[2] = "zone"
       /\ L = 22 => e[1] = "offset"
       /\ L = 21 => e = <<"xtalk", "grid", 64>>
  BY <1>6, <1>7, <1>9
<1>12. /\ L = 20 => e = <<"configure", "calibration", 0>>
       /\ L = 18 => e = <<"write", "target", Only(0, arg[3] * 4)>>
       /\ L = 16 => e = <<"write", "target", Only(2, arg[1] * 16)>>
       /\ L = 14 => e = <<"write", "target", Only(4, arg[2])>>
       /\ L = 12 => e = <<"save", "resolution", "zones">>
       /\ L = 11 => e[1] = "output"
       /\ L = 10 => e[1] = "calibrate"
  BY <1>7, <1>9
<1>13. /\ L = 9 => e = <<"fetch", "driver", 0>>
       /\ L = 8 => e = <<"configure", "default", 0>>
       /\ L = 7 => e = <<"restore", "resolution", 0>>
  BY <1>8, <1>9, <1>10
<1> QED BY <1>2, <1>4, <1>5, <1>11, <1>12, <1>13 DEF e, L, s

LEMMA CalibrationZone ==
  /\ Get("resolution", CalibrationDev["zone"]) = 64
  /\ Get("resolution", DefaultDev["zone"]) = 16
<1>1. ASSUME NEW v \in {16, 64}, NEW r \in Nat
      PROVE  Get("resolution", Block(Raw("resolution", v), r)) = v
  <2> DEFINE f == Block(Raw("resolution", v), r)
  <2>1. /\ DOMAIN f = {0, 1, 4, 5, Rest} /\ f[0] = (IF v = 16 THEN 4 ELSE 8) /\ f[1] = f[0]
        /\ f[4] \in Nat /\ f[5] \in Nat
    BY DEF Block, Raw, Rest
  <2> HIDE DEF f
  <2>2. Plain(f)
    BY <2>1, NotJunk DEF Plain
  <2>3. Get("resolution", f) = f[0] * f[1]
    BY <2>2, GetOf
  <2>4. f[0] * f[1] = v
    BY <2>1
  <2> QED BY <2>3, <2>4 DEF f
<1>2. CalibrationDev["zone"] = Block(Raw("resolution", 64), 0) /\ DefaultDev["zone"] = Block(Raw("resolution", 16), 0)
  BY DEF CalibrationDev, DefaultDev
<1> QED BY <1>1, <1>2

\* What one entry of the calibration does to the firmware.
LEMMA CalibrationWrites ==
  ASSUME TInv, Calibrating, Effect(Head(prog)), Len(prog) > 7
  PROVE  LET L == Len(prog)
             T == dev["target"]
             U == dev'["target"] IN
         /\ L >= 27 => dev' = dev
         /\ L \in 9 .. 19 => dev'["zone"] = dev["zone"]
         /\ L = 20 => dev'["zone"] = CalibrationDev["zone"]
         /\ L \in {9, 10, 11, 12, 13, 15, 17} => U = T
         /\ L = 18 => U[0] = arg[3] * 4
         /\ L = 16 => U[2] = arg[1] * 16 /\ U[0] = T[0]
         /\ L = 14 => U[4] = arg[2] /\ U[0] = T[0] /\ U[2] = T[2]
         /\ L = 8 => \A b \in Blocks \ {"single"} : dev'[b] = DefaultDev[b]
<1> DEFINE e == Head(prog)
           L == Len(prog)
<1>1. L \in 7 .. 40
  BY CalibrationEntry
<1>2. /\ dev = [b \in Blocks |-> dev[b]] /\ DOMAIN dev["target"] = {0, 2, 4}
      /\ "target" \in Blocks /\ "zone" \in Blocks
  BY DEF TInv, IsDev, IsBlock, Blocks, Positions
<1> USE DEF Effect
<1>3. L >= 27 => dev' = dev
  <2>1. L >= 27 => e[1] \in {"read", "save"}
    BY CalibrationEntry
  <2> QED BY <2>1
<1>4. L \in {9, 10, 11, 12, 13, 15, 17, 19} => dev' = dev
  <2>1. L \in {13, 15, 17, 19} => e[1] = "read"
    BY CalibrationEntry
  <2>2. L \in {9, 10, 11, 12} => e[1] \in {"fetch", "calibrate", "output", "save"}
    BY CalibrationEntry
  <2> QED BY <2>1, <2>2
<1>5. ASSUME NEW p \in {0, 2, 4}, NEW v, e = <<"write", "target", Only(p, v)>>
      PROVE  /\ dev'["zone"] = dev["zone"] /\ dev'["target"][p] = v
             /\ \A q \in {0, 2, 4} \ {p} : dev'["target"][q] = dev["target"][q]
  <2>0. e[1] = "write" /\ e[2] = "target" /\ e[3] = Only(p, v)
    BY <1>5
  <2>1. dev' = [dev EXCEPT !["target"] = Edited(dev["target"], Only(p, v))]
    BY <2>0
  <2>2. dev'["target"] = Edited(dev["target"], Only(p, v)) /\ dev'["zone"] = dev["zone"]
    BY <1>2, <2>1
  <2>3. DOMAIN Only(p, v) = {p} /\ Only(p, v)[p] = v
    BY DEF Only
  <2> QED BY <1>2, <2>2, <2>3, EditedBytes
<1>6. /\ L = 18 => e = <<"write", "target", Only(0, arg[3] * 4)>>
      /\ L = 16 => e = <<"write", "target", Only(2, arg[1] * 16)>>
      /\ L = 14 => e = <<"write", "target", Only(4, arg[2])>>
      /\ L = 20 => e = <<"configure", "calibration", 0>>
      /\ L = 8 => e = <<"configure", "default", 0>>
  BY CalibrationEntry
<1>7. L = 20 => dev'["zone"] = CalibrationDev["zone"]
  BY <1>2, <1>6
<1>8. L = 8 => \A b \in Blocks \ {"single"} : dev'[b] = DefaultDev[b]
  BY <1>6
<1> HIDE DEF e, L, Effect
<1>9. L = 18 => dev'["zone"] = dev["zone"] /\ dev'["target"][0] = arg[3] * 4
  BY <1>5, <1>6
<1>10. L = 16 => /\ dev'["zone"] = dev["zone"] /\ dev'["target"][2] = arg[1] * 16
                 /\ dev'["target"][0] = dev["target"][0]
  BY <1>5, <1>6
<1>11. L = 14 => /\ dev'["zone"] = dev["zone"] /\ dev'["target"][4] = arg[2]
                 /\ dev'["target"][0] = dev["target"][0] /\ dev'["target"][2] = dev["target"][2]
  BY <1>5, <1>6
<1>12. L \in 9 .. 19 => dev'["zone"] = dev["zone"]
  BY <1>1, <1>4, <1>9, <1>10, <1>11
<1> QED BY <1>3, <1>4, <1>7, <1>8, <1>9, <1>10, <1>11, <1>12 DEF L

LEMMA Appended == \A a, b, c, d : Append(<<a, b, c>>, d) = <<a, b, c, d>>
<1> SUFFICES ASSUME NEW a, NEW b, NEW c, NEW d PROVE Append(<<a, b, c>>, d) = <<a, b, c, d>>
  OBVIOUS
<1> DEFINE S == {a, b, c, d}
           u == Append(<<a, b, c>>, d)
           v == <<a, b, c, d>>
<1>1. <<a, b, c>> \in Seq(S) /\ v \in Seq(S)
  OBVIOUS
<1>2. u \in Seq(S) /\ Len(u) = 4 /\ Len(v) = 4
  BY <1>1
<1>3. u[1] = v[1] /\ u[2] = v[2] /\ u[3] = v[3] /\ u[4] = v[4]
  OBVIOUS
<1> HIDE DEF u, v, S
<1>4. u = [i \in 1 .. 4 |-> u[i]] /\ v = [i \in 1 .. 4 |-> v[i]]
  BY <1>1, <1>2
<1>5. \A i \in 1 .. 4 : u[i] = v[i]
  BY <1>3
<1>6. u = v
  BY <1>4, <1>5
<1> QED BY <1>6 DEF u, v

LEMMA CalibratingStep ==
  ASSUME TInv, CInv, Synced, Next, Good', Calibrating, Len(prog) > 7
  PROVE  Calibrating' /\ prog' = Tail(prog) /\ Len(prog') = Len(prog) - 1
<1> DEFINE e == Head(prog)
           L == Len(prog)
           s == CalibrateXtalk(arg)
<1>1. /\ prog # <<>> /\ L \in 8 .. 40 /\ Len(Tail(prog)) = L - 1
      /\ \A i \in 1 .. L - 1 : Tail(prog)[i] = s[(40 - (L - 1)) + i]
  <2>1. L \in 7 .. 40 /\ L > 7
    BY CalibrationEntry
  <2> HIDE DEF L
  <2>2. L \in 8 .. 40
    BY <2>1
  <2> QED BY <2>2, CalibrationEntry DEF L
<1>0. L \in 8 .. 40
  BY <1>1
<1>2. Effect(e) /\ arg' = arg /\ before' = before /\ e \in Entry
  BY <1>1, GoodEffect, StillGood
<1>3. /\ arg \in Targets /\ ValidTarget(arg) /\ Len(s) = 40 /\ s \in Programs
      /\ prog \in Programs
  BY CalibrateTable DEF Calibrating, TInv
<1>4. e[1] # "restore"
  <2>1. L >= 27 => e[1] \in {"read", "save"}
    BY CalibrationEntry
  <2>2. /\ L \in {13, 15, 17, 19, 24, 26} => e[1] = "read"
        /\ L \in {25, 23, 18, 16, 14} => e[1] = "write"
        /\ L = 22 => e[1] = "offset"
        /\ L = 21 => e[1] = "xtalk"
        /\ L \in {20, 8} => e[1] = "configure"
        /\ L = 12 => e[1] = "save"
        /\ L = 11 => e[1] = "output"
        /\ L = 10 => e[1] = "calibrate"
        /\ L = 9 => e[1] = "fetch"
    BY CalibrationEntry
  <2> HIDE DEF e, L
  <2>3. L \in {8, 9, 10, 11, 12, 13, 14, 15, 16, 17, 18, 19, 20, 21, 22, 23, 24, 25, 26} \/ L >= 27
    BY <1>1
  <2> QED BY <2>1, <2>2, <2>3
<1>5. prog' = Tail(prog) /\ Len(prog') = L - 1
  BY <1>1, <1>2, <1>4 DEF Effect
<1>6. Left(s)'
  <2>1. s' = s
    BY <1>2
  <2> HIDE DEF s, L
  <2>2. /\ Len(prog') = L - 1 /\ L \in 8 .. 40 /\ Len(s') = 40
        /\ \A i \in 1 .. L - 1 : prog'[i] = s'[(40 - (L - 1)) + i]
    BY <1>1, <1>3, <1>5, <2>1
  <2> QED BY <2>2 DEF Left
<1>7. Len(prog') >= 26 => dev' = before'
  <2>1. L >= 27 => dev' = dev
    BY <1>2, CalibrationWrites
  <2> QED BY <1>1, <1>2, <1>5, <2>1 DEF Calibrating
<1>8. ASSUME NEW n \in Settings
      PROVE  saved'[n] = Then(n)' \/ <<"save", n, n>> \in Entries(prog')
  <2>1. Then(n)' = Then(n)
    BY <1>2 DEF Then
  <2>2. Entries(prog) = {e} \cup Entries(prog')
    BY <1>1, <1>3, <1>5, EntriesTail
  <2>3. CASE e = <<"save", n, n>>
    <3>1. L >= 27
      <4>1. /\ L \in {13, 15, 17, 19, 24, 26} => e[1] = "read"
            /\ L \in {25, 23, 18, 16, 14} => e[1] = "write"
            /\ L = 22 => e[1] = "offset"
            /\ L = 21 => e[1] = "xtalk"
            /\ L \in {20, 8} => e[1] = "configure"
            /\ L = 12 => e[3] = "zones"
            /\ L = 11 => e[1] = "output"
            /\ L = 10 => e[1] = "calibrate"
            /\ L = 9 => e[1] = "fetch"
        BY CalibrationEntry
      <4>2. e[1] = "save" /\ e[3] # "zones"
        BY <2>3 DEF Settings
      <4> HIDE DEF e, L
      <4>3. L \in {8, 9, 10, 11, 12, 13, 14, 15, 16, 17, 18, 19, 20, 21, 22, 23, 24, 25, 26} \/ L >= 27
        BY <1>1
      <4> QED BY <4>1, <4>2, <4>3
    <3>2. dev = before
      BY <3>1 DEF Calibrating
    <3>0. e[1] = "save" /\ e[2] = n /\ e[3] = n
      BY <2>3
    <3>3. saved' = [saved EXCEPT ![n] = Get(n, dev[BlockOf(n)])]
      BY <1>2, <3>0 DEF Effect
    <3>4. n \in DOMAIN saved
      BY DEF TInv, SavedType
    <3> QED BY <2>1, <3>2, <3>3, <3>4 DEF Then
  <2>4. CASE e # <<"save", n, n>>
    <3>1. saved'[n] = saved[n]
      <4>1. n \in DOMAIN saved
        BY DEF TInv, SavedType
      <4>2. CASE e[1] # "save"
        BY <1>2, <4>2 DEF Effect
      <4>3. CASE e[1] = "save"
        <5>1. e[3] # n
          <6>1. e = <<e[1], e[2], e[3]>> /\ e[3] \in {e[2], "zones"} /\ n # "zones"
            BY <1>2, <4>3 DEF Entry, Settings
          <6> QED BY <2>4, <4>3, <6>1
        <5> QED BY <1>2, <4>1, <4>3, <5>1 DEF Effect
      <4> QED BY <4>2, <4>3
    <3> QED BY <2>1, <2>2, <2>4, <3>1 DEF Calibrating
  <2> QED BY <2>3, <2>4
<1>9. Len(prog') \in 8 .. 19 => dev'["zone"] = CalibrationDev["zone"]
  <2>1. /\ L \in 9 .. 19 => dev'["zone"] = dev["zone"]
        /\ L = 20 => dev'["zone"] = CalibrationDev["zone"]
    BY <1>2, CalibrationWrites
  <2>2. L \in 8 .. 19 => dev["zone"] = CalibrationDev["zone"]
    BY DEF Calibrating
  <2>3. Len(prog') \in 8 .. 19 => L \in 9 .. 20
    BY <1>0, <1>5
  <2> QED BY <1>0, <2>1, <2>2, <2>3
<1>10. /\ Len(prog') \in 10 .. 17 => dev'["target"][0] = arg[3] * 4
       /\ Len(prog') \in 10 .. 15 => dev'["target"][2] = arg[1] * 16
       /\ Len(prog') \in 10 .. 13 => dev'["target"][4] = arg[2]
  <2> DEFINE T == dev["target"]
             U == dev'["target"]
  <2>1. /\ L \in {9, 10, 11, 12, 13, 15, 17} => U = T
        /\ L = 18 => U[0] = arg[3] * 4
        /\ L = 16 => U[2] = arg[1] * 16 /\ U[0] = T[0]
        /\ L = 14 => U[4] = arg[2] /\ U[0] = T[0] /\ U[2] = T[2]
    BY <1>2, CalibrationWrites
  <2>2. /\ L \in 10 .. 17 => T[0] = arg[3] * 4
        /\ L \in 10 .. 15 => T[2] = arg[1] * 16
        /\ L \in 10 .. 13 => T[4] = arg[2]
    BY DEF Calibrating
  <2> HIDE DEF T, U, e
  <2>3. /\ L \in 11 .. 18 => U[0] = arg[3] * 4
        /\ L \in 11 .. 16 => U[2] = arg[1] * 16
        /\ L \in 11 .. 14 => U[4] = arg[2]
    BY <1>0, <2>1, <2>2
  <2>4. /\ Len(prog') \in 10 .. 17 => L \in 11 .. 18
        /\ Len(prog') \in 10 .. 15 => L \in 11 .. 16
        /\ Len(prog') \in 10 .. 13 => L \in 11 .. 14
    BY <1>0, <1>5
  <2> QED BY <2>3, <2>4 DEF U
<1>11. Len(prog') \in 10 .. 11 => saved'["zones"] = 64
  <2> SUFFICES ASSUME L \in {11, 12} PROVE saved'["zones"] = 64
    BY <1>0, <1>5
  <2>1. CASE L = 12
    <3>1. e = <<"save", "resolution", "zones">>
      BY <2>1, CalibrationEntry
    <3>2. Get("resolution", dev[BlockOf("resolution")]) = 64
      BY <2>1, CalibrationZone DEF Calibrating, BlockOf
    <3>3. "zones" \in DOMAIN saved
      BY DEF TInv, SavedType
    <3> QED BY <1>2, <3>1, <3>2, <3>3 DEF Effect
  <2>2. CASE L = 11
    <3>1. e[1] = "output"
      BY <2>2, CalibrationEntry
    <3> QED BY <1>2, <2>2, <3>1 DEF Effect, Calibrating
  <2> QED BY <2>1, <2>2
<1>12. Len(prog') = 10 => listed' = 64
  <2> SUFFICES ASSUME L = 11 PROVE listed' = 64
    BY <1>0, <1>5
  <2>1. e[1] = "output"
    BY CalibrationEntry
  <2> QED BY <1>2, <2>1 DEF Effect, Calibrating
<1>13. Len(prog') <= 9 => MeasuredAs(arg)'
  <2> SUFFICES ASSUME L <= 10 PROVE MeasuredAs(arg)'
    BY <1>0, <1>5
  <2>1. CASE L = 10
    <3>1. e[1] = "calibrate"
      BY <2>1, CalibrationEntry
    <3>2. measured' = Append(<<dev["target"][2], dev["target"][4], dev["target"][0]>>, listed)
      BY <1>2, <3>1 DEF Effect
    <3>3. /\ dev["target"][2] = arg[1] * 16 /\ dev["target"][4] = arg[2]
          /\ dev["target"][0] = arg[3] * 4 /\ listed = 64
      BY <2>1 DEF Calibrating
    <3>4. measured' = Append(<<arg[1] * 16, arg[2], arg[3] * 4>>, 64)
      BY <3>2, <3>3
    <3>5. measured' = <<arg'[1] * 16, arg'[2], arg'[3] * 4, 64>>
      BY <1>2, <3>4, Appended
    <3> QED BY <3>5 DEF MeasuredAs
  <2>2. CASE L <= 9
    <3>0. L = 8 \/ L = 9
      <4> HIDE DEF L
      <4> QED BY <1>0, <2>2
    <3>1. e[1] \in {"fetch", "configure"}
      BY <3>0, CalibrationEntry
    <3>2. measured' = measured
      BY <1>2, <3>1 DEF Effect
    <3>3. MeasuredAs(arg)
      BY <2>2 DEF Calibrating
    <3> HIDE DEF L
    <3> QED BY <1>2, <3>2, <3>3 DEF MeasuredAs
  <2> HIDE DEF L
  <2> QED BY <1>0, <2>1, <2>2
<1>14. Len(prog') = 7 => \A b \in Blocks \ {"single"} : dev'[b] = DefaultDev[b]
  BY <1>1, <1>2, <1>5, CalibrationWrites
<1>15. arg' \in Targets /\ ValidTarget(arg') /\ Left(CalibrateXtalk(arg))' /\ Len(prog') >= 7
  BY <1>1, <1>2, <1>3, <1>5, <1>6
<1> HIDE DEF e, L, s
<1>16. Calibrating'
  BY <1>2, <1>7, <1>8, <1>9, <1>10, <1>11, <1>12, <1>13, <1>14, <1>15 DEF Calibrating
<1> QED BY <1>5, <1>16 DEF L

\* Then each setting has its value again, or will be given it.
Same(n, v, w) == IF n = "sharpener" THEN v \in {w, w - 1} ELSE v = w
Again(n) == <<"write", BlockOf(n), Raw(n, saved[n])>>
PuttingBack(e) ==
  /\ e[1] \in {"read", "write", "offset", "xtalk", "restore"}
  /\ e[1] = "write" =>
       e[2] \in {"dss", "single"} \/ \E n \in Settings : saved[n] \in Nat /\ Valid(n, saved[n]) /\ e = Again(n)

Restoring ==
  /\ \A n \in Settings : saved[n] = Then(n)
  /\ MeasuredAs(arg)
  /\ \A b \in Blocks \ {"single", "target"} : dev[b][Rest] = DefaultDev[b][Rest]
  /\ \A e \in Entries(prog) : PuttingBack(e)
  /\ \A n \in Settings :
       Same(n, Now(n), saved[n]) \/ <<"restore", n, 0>> \in Entries(prog) \/ Again(n) \in Entries(prog)

CalInv == call = "calibrate" /\ Good => Doomed(prog) \/ Calibrating \/ Restoring

LEMMA SettingBlocks ==
  /\ \A n \in Settings : BlockOf(n) \in Blocks \ {"dss", "single", "target"}
  /\ \A n, m \in Settings : BlockOf(n) = BlockOf(m) => n = m
BY DEF BlockOf, Settings, Blocks

LEMMA PuttingSetter ==
  ASSUME NEW n \in Settings, saved[n] \in Nat, Valid(n, saved[n])
  PROVE  /\ \A e \in Entries(Setter(n, saved[n])) : PuttingBack(e)
         /\ Again(n) \in Entries(Setter(n, saved[n]))
<1> DEFINE v == saved[n]
           E == Entries(Setter(n, v))
<1>1. Again(n) \in E /\ \A e \in E : e[1] # "refuse"
  BY SetterEntries DEF Again
<1>2. ASSUME NEW e \in E PROVE PuttingBack(e)
  <2>1. CASE n = "resolution"
    <3>1. e \in {<<"read", "dss", DssRaw(v)>>, <<"write", "dss", DssRaw(v)>>,
                 <<"read", "zone", Raw(n, v)>>, <<"write", "zone", Raw(n, v)>>,
                 <<"offset", "grid", v>>, <<"xtalk", "grid", v>>}
      BY <2>1, SetterEntries
    <3>2. Again(n) = <<"write", "zone", Raw(n, v)>>
      BY <2>1 DEF Again, BlockOf
    <3>3. \/ e[1] \in {"read", "offset", "xtalk"}
          \/ e[1] = "write" /\ e[2] = "dss"
          \/ e[1] = "write" /\ e = Again(n)
      BY <3>1, <3>2
    <3> QED BY <3>3 DEF PuttingBack
  <2>2. CASE n = "mode"
    <3>1. e \in {ModeRead, ModeRefuse, ModeWrite(v), SingleWrite(v)}
      BY <2>2, SetterEntries
    <3>2. ModeWrite(v) = Again(n) /\ ModeWrite(v)[1] = "write" /\ ModeRead[1] = "read"
          /\ ModeRefuse[1] = "refuse" /\ SingleWrite(v)[1] = "write" /\ SingleWrite(v)[2] = "single"
      BY <2>2 DEF Again, BlockOf, ModeRead, ModeRefuse, ModeWrite, SingleWrite
    <3>3. \/ e[1] = "read"
          \/ e[1] = "write" /\ e[2] = "single"
          \/ e[1] = "write" /\ e = Again(n)
      BY <1>1, <3>1, <3>2
    <3> QED BY <3>3 DEF PuttingBack
  <2>3. CASE n \in Simple
    <3>1. e \in {<<"read", n, Raw(n, v)>>, <<"write", n, Raw(n, v)>>, <<"refuse", "value", 0>>}
      BY <2>3, SetterEntries
    <3>2. Again(n) = <<"write", n, Raw(n, v)>>
      BY <2>3 DEF Again, BlockOf, Simple
    <3>3. e[1] = "read" \/ (e[1] = "write" /\ e = Again(n))
      BY <1>1, <3>1, <3>2
    <3> QED BY <3>3 DEF PuttingBack
  <2> QED BY <2>1, <2>2, <2>3 DEF Simple
<1> QED BY <1>1, <1>2

\* When the calibration begins to put back, that is all that is left of it.
LEMMA RestoresLeft ==
  ASSUME TInv, Calibrating, Len(prog) = 7
  PROVE  /\ prog # <<>> /\ Head(prog) = <<"restore", "resolution", 0>>
         /\ \A e \in Entries(prog) : \E n \in Settings : e = <<"restore", n, 0>>
         /\ \A n \in Settings : <<"restore", n, 0>> \in Entries(prog)
         /\ \A e \in Entries(Tail(prog)) : \E n \in Settings \ {"resolution"} : e = <<"restore", n, 0>>
<1> DEFINE s == CalibrateXtalk(arg)
<1>1. /\ s \in Programs /\ Len(s) = 40 /\ \A k \in 34 .. 40 : s[k] = RestoreAll[k - 33]
  BY CalibrateTable DEF Calibrating
<1> HIDE DEF s
<1>2. prog # <<>> /\ Head(prog) = <<"restore", "resolution", 0>> /\ Len(Tail(prog)) = 6
  BY CalibrationEntry
<1>3. \A i \in 1 .. 7 : prog[i] = s[33 + i]
  <2>1. \A i \in 1 .. Len(prog) : prog[i] = s[(Len(s) - Len(prog)) + i]
    BY DEF Calibrating, Left, s
  <2>2. Len(prog) = 7 /\ Len(s) - Len(prog) = 33
    BY <1>1
  <2> QED BY <2>1, <2>2
<1>4. \A i \in 1 .. 7 : prog[i] = RestoreAll[i]
  <2> SUFFICES ASSUME NEW i \in 1 .. 7 PROVE prog[i] = RestoreAll[i]
    OBVIOUS
  <2>1. prog[i] = s[33 + i] /\ 33 + i \in 34 .. 40 /\ (33 + i) - 33 = i
    BY <1>3
  <2>2. s[33 + i] = RestoreAll[(33 + i) - 33]
    BY <1>1, <2>1
  <2> QED BY <2>1, <2>2
<1>5. \A i \in 1 .. 6 : Tail(prog)[i] = RestoreAll[i + 1]
  <2> SUFFICES ASSUME NEW i \in 1 .. 6 PROVE Tail(prog)[i] = RestoreAll[i + 1]
    OBVIOUS
  <2>1. Tail(prog)[i] = prog[i + 1]
    <3>1. i \in 1 .. Len(Tail(prog))
      BY <1>2
    <3> QED BY <1>2, <3>1, TailIndex DEF TInv, Programs
  <2>2. i + 1 \in 1 .. 7
    OBVIOUS
  <2> QED BY <1>4, <2>1, <2>2
<1>6. \A n \in Settings : <<"restore", n, 0>> \in Entries(prog)
  BY <1>4, RestoreTable DEF Entries
<1>7. ASSUME NEW e \in Entries(Tail(prog))
      PROVE  \E n \in Settings \ {"resolution"} : e = <<"restore", n, 0>>
  <2>1. PICK i \in 1 .. 6 : e = Tail(prog)[i]
    <3>1. PICK i \in 1 .. Len(Tail(prog)) : e = Tail(prog)[i]
      BY DEF Entries
    <3>2. i \in 1 .. 6
      BY <1>2
    <3> QED BY <3>1, <3>2
  <2> DEFINE k == i + 1
  <2>2. k \in 2 .. 7
    OBVIOUS
  <2>3. e = RestoreAll[k]
    BY <1>5, <2>1
  <2> HIDE DEF k
  <2> QED BY <2>2, <2>3, RestoreTable
<1>8. Entries(prog) = {Head(prog)} \cup Entries(Tail(prog))
  BY <1>2, EntriesTail DEF TInv
<1> QED BY <1>2, <1>6, <1>7, <1>8 DEF Settings

\* A value that is put back: a program for it, or a refusal.
LEMMA PutBackEntries ==
  ASSUME TInv, prog # <<>>, NEW n \in Settings, saved[n] \in Nat,
         prog' = Setter(n, saved[n]) \o Tail(prog)
  PROVE  /\ Entries(prog') = Entries(Setter(n, saved[n])) \cup Entries(Tail(prog))
         /\ Entries(prog) = {Head(prog)} \cup Entries(Tail(prog))
<1>1. Setter(n, saved[n]) \in Programs /\ Tail(prog) \in Programs
  BY SetterProper, CleanPrograms, TailIndex DEF Proper, TInv, Programs
<1> QED BY <1>1, EntriesJoin, EntriesTail DEF TInv

LEMMA RestoringBegins ==
  ASSUME TInv, CInv, Synced, Next, Good', Calibrating, Len(prog) = 7
  PROVE  Restoring'
<1> DEFINE v == saved["resolution"]
           e == <<"restore", "resolution", 0>>
<1>1. /\ prog # <<>> /\ Head(prog) = e
      /\ \A f \in Entries(prog) : \E n \in Settings : f = <<"restore", n, 0>>
      /\ \A n \in Settings : <<"restore", n, 0>> \in Entries(prog)
  BY RestoresLeft
<1>2. Effect(e) /\ arg' = arg /\ before' = before
  BY <1>1, GoodEffect, StillGood
<1>3. /\ dev' = dev /\ saved' = saved /\ measured' = measured
      /\ prog' = Setter("resolution", v) \o Tail(prog) /\ v \in Nat
  BY <1>2 DEF Effect
<1>4. Valid("resolution", v)
  <2>1. v \in {16, 64, Junk}
    BY DEF TInv, SavedType
  <2> QED BY <1>3, <2>1, NotJunk DEF Valid
<1>5. /\ Entries(prog') = Entries(Setter("resolution", v)) \cup Entries(Tail(prog))
      /\ Entries(prog) = {e} \cup Entries(Tail(prog))
  BY <1>1, <1>3, PutBackEntries DEF Settings
<1>6. \A f \in Entries(Setter("resolution", v)) : PuttingBack(f)
  BY <1>3, <1>4, PuttingSetter DEF Settings
<1>7. \A n : Again(n)' = Again(n) /\ Then(n)' = Then(n) /\ Now(n)' = Now(n)
  BY <1>2, <1>3 DEF Again, Then, Now
<1>8. \A f : PuttingBack(f) => PuttingBack(f)'
  BY <1>3, <1>7 DEF PuttingBack
<1>9. ASSUME NEW f \in Entries(prog') PROVE PuttingBack(f)'
  <2>1. CASE f \in Entries(Setter("resolution", v))
    BY <1>6, <1>8, <2>1
  <2>2. CASE f \in Entries(Tail(prog))
    <3>1. f[1] = "restore"
      BY <1>1, <1>5, <2>2
    <3> QED BY <3>1 DEF PuttingBack
  <2> QED BY <1>5, <2>1, <2>2
<1>10. ASSUME NEW n \in Settings
       PROVE  <<"restore", n, 0>> \in Entries(prog') \/ Again(n)' \in Entries(prog')
  <2>1. CASE n = "resolution"
    BY <1>3, <1>4, <1>5, <1>7, <2>1, PuttingSetter DEF Settings
  <2>2. CASE n # "resolution"
    <3>1. <<"restore", n, 0>> # e
      BY <2>2
    <3> QED BY <1>1, <1>5, <3>1
  <2> QED BY <2>1, <2>2
<1>11. \A n \in Settings : saved'[n] = Then(n)'
  <2>1. \A n \in Settings : <<"save", n, n>> \notin Entries(prog)
    BY <1>1
  <2> QED BY <1>3, <1>7, <2>1 DEF Calibrating
<1>12. MeasuredAs(arg)'
  BY <1>2, <1>3 DEF Calibrating, MeasuredAs
<1>13. \A b \in Blocks \ {"single", "target"} : dev'[b][Rest] = DefaultDev[b][Rest]
  BY <1>3 DEF Calibrating
<1> QED BY <1>9, <1>10, <1>11, <1>12, <1>13 DEF Restoring

LEMMA RestoringStep ==
  ASSUME TInv, CInv, Synced, Next, Good', prog # <<>>, Restoring
  PROVE  Restoring' \/ Doomed(prog')
<1> DEFINE e == Head(prog)
<1>1. Effect(e) /\ arg' = arg /\ before' = before /\ e \in Entry
  BY GoodEffect, StillGood
<1>2. Entries(prog) = {e} \cup Entries(Tail(prog))
  BY EntriesTail DEF TInv
<1>3. PuttingBack(e) /\ \A f \in Entries(prog) : PuttingBack(f)
  BY <1>2 DEF Restoring
<1> HIDE DEF e
<1>4. e[1] \in {"read", "write", "offset", "xtalk", "restore"}
  BY <1>3 DEF PuttingBack
<1>5. saved' = saved /\ measured' = measured
  BY <1>1, <1>4 DEF Effect
<1>6. \A n : Again(n)' = Again(n) /\ Then(n)' = Then(n)
  BY <1>1, <1>5 DEF Again, Then
<1>7. \A f : PuttingBack(f) => PuttingBack(f)'
  BY <1>5, <1>6 DEF PuttingBack
<1>8. (\A n \in Settings : saved'[n] = Then(n)') /\ MeasuredAs(arg)'
  BY <1>1, <1>5, <1>6 DEF Restoring, MeasuredAs
<1>9. CASE e[1] = "restore"
  <2> DEFINE n == e[2]
             v == saved[n]
  <2>1. /\ dev' = dev /\ prog' = Setter(n, v) \o Tail(prog) /\ n \in Settings /\ v \in Nat
    BY <1>1, <1>9 DEF Effect
  <2>2. Entries(prog') = Entries(Setter(n, v)) \cup Entries(Tail(prog))
    BY <2>1, PutBackEntries
  <2>3. CASE ~Valid(n, v)
    <3>1. \E f \in Entries(Setter(n, v)) : f[1] = "refuse"
      BY <2>1, <2>3, SetterEntries
    <3> QED BY <2>2, <3>1 DEF Doomed
  <2>4. CASE Valid(n, v)
    <3>1. \A f \in Entries(prog') : PuttingBack(f)'
      BY <1>2, <1>3, <1>7, <2>1, <2>2, <2>4, PuttingSetter
    <3>2. ASSUME NEW m \in Settings
          PROVE  \/ Same(m, Now(m)', saved'[m])
                 \/ <<"restore", m, 0>> \in Entries(prog') \/ Again(m)' \in Entries(prog')
      <4>1. CASE m = n
        BY <1>6, <2>1, <2>2, <2>4, <4>1, PuttingSetter
      <4>2. CASE m # n
        <5>1. Now(m)' = Now(m)
          BY <2>1 DEF Now
        <5>2. <<"restore", m, 0>> # e /\ Again(m) # e
          BY <1>9, <4>2 DEF Again
        <5> QED BY <1>2, <1>5, <1>6, <2>2, <5>1, <5>2 DEF Restoring
      <4> QED BY <4>1, <4>2
    <3>3. \A b \in Blocks \ {"single", "target"} : dev'[b][Rest] = DefaultDev[b][Rest]
      BY <2>1 DEF Restoring
    <3> QED BY <1>8, <3>1, <3>2, <3>3 DEF Restoring
  <2> QED BY <2>3, <2>4
<1>10. CASE e[1] \in {"read", "offset", "xtalk"}
  <2>1. dev' = dev /\ prog' = Tail(prog)
    BY <1>1, <1>10 DEF Effect
  <2>2. \A f \in Entries(prog') : PuttingBack(f)'
    BY <1>2, <1>3, <1>7, <2>1
  <2>3. ASSUME NEW m \in Settings
        PROVE  \/ Same(m, Now(m)', saved'[m])
               \/ <<"restore", m, 0>> \in Entries(prog') \/ Again(m)' \in Entries(prog')
    <3>1. Now(m)' = Now(m)
      BY <2>1 DEF Now
    <3>2. <<"restore", m, 0>> # e /\ Again(m) # e
      BY <1>10 DEF Again
    <3> QED BY <1>2, <1>5, <1>6, <2>1, <3>1, <3>2 DEF Restoring
  <2>4. \A b \in Blocks \ {"single", "target"} : dev'[b][Rest] = DefaultDev[b][Rest]
    BY <2>1 DEF Restoring
  <2> QED BY <1>8, <2>2, <2>3, <2>4 DEF Restoring
<1>11. CASE e[1] = "write"
  <2> DEFINE o == e[2]
  <2>1. /\ prog' = Tail(prog) /\ o \in Blocks /\ e[3] \in Edits
        /\ dev' = [dev EXCEPT ![o] = IF o = "single" THEN e[3] ELSE Edited(dev[o], e[3])]
        /\ dev = [b \in Blocks |-> dev[b]]
    BY <1>1, <1>11 DEF Effect, Entry, TInv, IsDev
  <2>2. \A f \in Entries(prog') : PuttingBack(f)'
    BY <1>2, <1>3, <1>7, <2>1
  <2>3. /\ \A b \in Blocks \ {o} : dev'[b] = dev[b]
        /\ o # "single" => dev'[o] = Edited(dev[o], e[3])
    BY <2>1
  <2>4. ASSUME NEW b \in Blocks \ {"single", "target"} PROVE dev'[b][Rest] = DefaultDev[b][Rest]
    <3>1. CASE b # o
      BY <2>3, <2>4, <3>1 DEF Restoring
    <3>2. CASE b = o
      <4>1. Rest \notin DOMAIN e[3]
        <5>1. PICK D \in SUBSET (0 .. 15) : e[3] \in [D -> Bytes]
          BY <2>1 DEF Edits
        <5> QED BY <5>1 DEF Rest
      <4>2. Rest \in DOMAIN dev[o]
        BY <2>4, <3>2 DEF TInv, IsDev, IsBlock, Positions
      <4>3. dev'[o][Rest] = dev[o][Rest]
        BY <2>3, <2>4, <3>2, <4>1, <4>2, EditedBytes
      <4> QED BY <2>4, <3>2, <4>3 DEF Restoring
    <3> QED BY <3>1, <3>2
  <2>5. ASSUME NEW m \in Settings
        PROVE  \/ Same(m, Now(m)', saved'[m])
               \/ <<"restore", m, 0>> \in Entries(prog') \/ Again(m)' \in Entries(prog')
    <3>1. BlockOf(m) \in Blocks \ {"dss", "single", "target"}
      BY SettingBlocks
    <3>2. CASE BlockOf(m) # o
      <4>1. Now(m)' = Now(m)
        BY <2>3, <3>1, <3>2 DEF Now
      <4>2. <<"restore", m, 0>> # e /\ Again(m) # e
        BY <1>11, <3>2 DEF Again
      <4> QED BY <1>2, <1>5, <1>6, <2>1, <4>1, <4>2 DEF Restoring
    <3>3. CASE BlockOf(m) = o
      <4>1. PICK n \in Settings : saved[n] \in Nat /\ Valid(n, saved[n]) /\ e = Again(n)
        BY <1>3, <1>11, <3>1, <3>3 DEF PuttingBack
      <4>2. n = m
        BY <3>3, <4>1, SettingBlocks DEF Again
      <4>3. dev'[BlockOf(m)] = Edited(dev[BlockOf(m)], Raw(m, saved[m]))
        BY <2>3, <3>1, <3>3, <4>1, <4>2 DEF Again
      <4>4. saved[m] \in Nat
        BY <4>1, <4>2
      <4>5. IsBlock(BlockOf(m), dev[BlockOf(m)])
        BY <3>1 DEF TInv, IsDev
      <4>6. Same(m, Now(m)', saved[m])
        BY <4>1, <4>2, <4>3, <4>4, <4>5, ReadBack DEF Same, Now
      <4> QED BY <1>5, <4>6
    <3> QED BY <3>2, <3>3
  <2> QED BY <1>8, <2>2, <2>4, <2>5 DEF Restoring
<1> QED BY <1>4, <1>9, <1>10, <1>11

LEMMA DoomedStep ==
  ASSUME TInv, CInv, Synced, Next, Good', prog # <<>>, Doomed(prog)
  PROVE  Doomed(prog')
<1> DEFINE e == Head(prog)
<1>1. Effect(e) /\ e[1] # "refuse"
  BY GoodEffect, StillGood
<1>2. Entries(prog) = {e} \cup Entries(Tail(prog))
  BY EntriesTail DEF TInv
<1>3. Entries(Tail(prog)) \subseteq Entries(prog')
  <2>1. CASE e[1] = "restore"
    <3>1. /\ e[2] \in Settings /\ saved[e[2]] \in Nat
          /\ prog' = Setter(e[2], saved[e[2]]) \o Tail(prog)
      BY <1>1, <2>1 DEF Effect
    <3> QED BY <3>1, PutBackEntries
  <2>2. CASE e[1] # "restore"
    BY <1>1, <2>2 DEF Effect
  <2> QED BY <2>1, <2>2
<1> QED BY <1>1, <1>2, <1>3 DEF Doomed

LEMMA CalibrationBegins ==
  ASSUME TInv, NEW t \in Targets, Begin("calibrate", t, CalibrateXtalk(t))
  PROVE  Doomed(prog') \/ (Calibrating' /\ Len(prog') = 40)
<1> DEFINE s == CalibrateXtalk(t)
<1>1. arg' = t /\ prog' = s /\ dev' = dev /\ before' = dev
  BY DEF Begin
<1>2. CASE ~ValidTarget(t)
  BY <1>1, <1>2, CalibrateRefuses DEF Doomed
<1>3. CASE ValidTarget(t)
  <2>1. Len(s) = 40 /\ \A k \in 1 .. 14 : s[k] = Each(Getter)[k]
    BY <1>3, CalibrateTable
  <2>2. Left(CalibrateXtalk(arg))'
    <3>1. CalibrateXtalk(arg') = s
      BY <1>1
    <3> HIDE DEF s
    <3>2. \A i \in 1 .. Len(prog') : (Len(s) - Len(prog')) + i = i
      BY <1>1, <2>1
    <3>3. /\ Len(prog') <= Len(s)
          /\ \A i \in 1 .. Len(prog') : prog'[i] = s[(Len(s) - Len(prog')) + i]
      BY <1>1, <2>1, <3>2
    <3> QED BY <3>1, <3>3 DEF Left
  <2>3. \A n \in Settings : <<"save", n, n>> \in Entries(prog')
    <3> SUFFICES ASSUME NEW n \in Settings PROVE <<"save", n, n>> \in Entries(prog')
      OBVIOUS
    <3>1. PICK k \in 1 .. 14 : Each(Getter)[k] = <<"save", n, n>>
      BY GetterTable
    <3> HIDE DEF s
    <3>2. prog'[k] = <<"save", n, n>> /\ k \in 1 .. Len(prog')
      BY <1>1, <2>1, <3>1
    <3> QED BY <3>2 DEF Entries
  <2>4. Len(prog') = 40
    BY <1>1, <2>1
  <2> HIDE DEF s
  <2>5. ~(Len(prog') \in 8 .. 19) /\ ~(Len(prog') <= 9) /\ Len(prog') >= 7
    BY <2>4
  <2>6. ~(Len(prog') \in 10 .. 17) /\ ~(Len(prog') \in 10 .. 15) /\ ~(Len(prog') \in 10 .. 13)
        /\ ~(Len(prog') \in 10 .. 11) /\ Len(prog') # 10 /\ Len(prog') # 7
    BY <2>4
  <2> QED BY <1>1, <1>3, <2>2, <2>3, <2>4, <2>5, <2>6 DEF Calibrating
<1> QED BY <1>2, <1>3

LEMMA StepCal == TInv /\ CInv /\ Synced /\ CalInv /\ [Next]_vars => CalInv'
<1> SUFFICES ASSUME TInv, CInv, Synced, CalInv, [Next]_vars, call' = "calibrate", Good'
             PROVE  Doomed(prog') \/ Calibrating' \/ Restoring'
  BY DEF CalInv
<1>1. CASE UNCHANGED vars
  <2>1. Good' = Good /\ Calibrating' = Calibrating /\ Restoring' = Restoring
        /\ prog' = prog /\ call' = call
    BY <1>1 DEF vars, Good, Calibrating, Restoring, Left, MeasuredAs, Then, Now, PuttingBack, Again,
                Measurement
  <2> QED BY <2>1 DEF CalInv
<1>2. CASE (\E name \in Settings : Set(name)) \/ Calibrate \/ Caldata
  <2>1. PICK t \in Targets : Begin("calibrate", t, CalibrateXtalk(t))
    BY <1>2 DEF Set, Calibrate, Caldata, Begin, Settings
  <2> QED BY <2>1, CalibrationBegins
<1>3. ~Return
  BY DEF Return
<1>4. CASE Next /\ ~((\E name \in Settings : Set(name)) \/ Calibrate \/ Caldata)
  <2>1. prog # <<>>
    BY <1>3, <1>4, CallGoesOn
  <2>2. Good /\ call = "calibrate"
    BY <1>4, <2>1, StillGood
  <2>3. CASE Doomed(prog)
    BY <1>4, <2>1, <2>3, DoomedStep
  <2>4. CASE Calibrating
    <3>1. Len(prog) \in 7 .. 40
      BY <2>4, CalibrationEntry
    <3>2. CASE Len(prog) = 7
      BY <1>4, <2>4, <3>2, RestoringBegins
    <3>3. CASE Len(prog) > 7
      BY <1>4, <2>4, <3>3, CalibratingStep
    <3>4. Len(prog) = 7 \/ Len(prog) > 7
      <4> DEFINE L == Len(prog)
      <4>1. L \in 7 .. 40
        BY <3>1
      <4> HIDE DEF L
      <4>2. L = 7 \/ L > 7
        BY <4>1
      <4> QED BY <4>2 DEF L
    <3> QED BY <3>2, <3>3, <3>4
  <2>5. CASE Restoring
    BY <1>4, <2>1, <2>5, RestoringStep
  <2> QED BY <2>2, <2>3, <2>4, <2>5 DEF CalInv
<1> QED BY <1>1, <1>2, <1>4

LEMMA InitCal == Init => Synced /\ CalInv
BY DEF Init, Synced, CalInv

LEMMA AlwaysCal == Spec => [](TInv /\ SetInv /\ CInv /\ Synced /\ CalInv)
BY InitTyped, StepTyped, InitSet, StepSet, InitClean, StepClean, InitCal, StepSynced, StepCal, PTL
   DEF Spec

\* A calibration that returned 0 has measured the target it was given in all the zones and
\* has put every setting back, whatever the values were and however the program got there.
THEOREM CalibrationPutsBack == Spec => []CalibrationRestores
<1>1. TInv /\ CalInv => CalibrationRestores
  <2> SUFFICES ASSUME TInv, CalInv, call = "calibrate", prog = <<>>, Good
               PROVE  /\ measured = <<arg[1] * 16, arg[2], arg[3] * 4, 64>>
                      /\ \A b \in Blocks \ {"single", "target"} : dev[b][Rest] = DefaultDev[b][Rest]
                      /\ \A name \in Settings :
                           IF name = "sharpener" THEN Now(name) \in {Then(name), Then(name) - 1}
                                                 ELSE Now(name) = Then(name)
    BY DEF CalibrationRestores, Ended, Good
  <2>1. Entries(prog) = {}
    BY NoEntries DEF TInv
  <2>2. ~Calibrating
    BY CalibrationEntry
  <2>3. Restoring
    BY <2>1, <2>2 DEF CalInv, Doomed
  <2>4. \A n \in Settings : Same(n, Now(n), Then(n))
    BY <2>1, <2>3 DEF Restoring
  <2> QED BY <2>3, <2>4 DEF Restoring, MeasuredAs, Same
<1> QED BY <1>1, AlwaysCal, PTL
-----------------------------------------------------------------------------
(* One resolution. Zones, offset and crosstalk are of the resolution v, or will *)
(* be when the call is done.                                                  *)

Fits(e, v) ==
  /\ e[1] \notin {"configure", "calibrate", "fetch", "take"}
  /\ e[1] = "restore" => e[2] # "resolution"
  /\ e[1] = "write" => /\ e[2] = "zone" => e[3] = Raw("resolution", v)
                       /\ e[2] = "dss" => e[3] = DssRaw(v)
  /\ e[1] \in {"offset", "xtalk"} => e[3] = v

WriteZone(v) == <<"write", "zone", Raw("resolution", v)>>
WriteDss(v) == <<"write", "dss", DssRaw(v)>>
SendOffset(v) == <<"offset", "grid", v>>
SendXtalk(v) == <<"xtalk", "grid", v>>

Settled(v) ==
  /\ \A e \in Entries(prog) : Fits(e, v)
  /\ Now("resolution") = v \/ WriteZone(v) \in Entries(prog)
  /\ (\A p \in {4, 6, 9} : dev["dss"][p] = DssRaw(v)[p]) \/ WriteDss(v) \in Entries(prog)
  /\ grids = v \/ SendOffset(v) \in Entries(prog)
  /\ xtalk.res = v \/ SendXtalk(v) \in Entries(prog)

\* The functions that set the resolution aside, until they put it back: what they fetch
\* is of 64 zones.
Aside ==
  \/ call = "calibrate" /\ Calibrating /\ (Len(prog) <= 20 => xtalk.res = 64)
  \/ call = "get_caldata" /\ Left(GetCaldata) /\ Len(prog) >= 1 /\ (Len(prog) <= 2 => xtalk.res = 64)
  \/ call = "set_caldata" /\ Left(SetCaldata) /\ Len(prog) >= 1

Full64 == xtalkData.res = 64 /\ caller.res = 64
OneResolution == Full64 /\ (Aside \/ \E v \in {16, 64} : Settled(v))

\* No error of the bus so far; the refusal of a value that wrote nothing is none.
Live == ~errorSeen /\ (status = "ok" \/ call = "none" \/ (status = "refused" /\ call \in Simple))
GInv == Live => (call \notin Simple /\ Doomed(prog)) \/ OneResolution

\* A setter of something else leaves the resolution alone; that of the resolution sets it all.
LEMMA SetterFits ==
  ASSUME NEW n \in Settings, NEW w, NEW v
  PROVE  /\ n # "resolution" => \A e \in Entries(Setter(n, w)) : Fits(e, v)
         /\ n = "resolution" /\ Valid(n, w) =>
              /\ \A e \in Entries(Setter(n, w)) : Fits(e, w)
              /\ {WriteZone(w), WriteDss(w), SendOffset(w), SendXtalk(w)} \subseteq Entries(Setter(n, w))
<1> DEFINE E == Entries(Setter(n, w))
<1>1. CASE n = "mode"
  <2>1. E \subseteq {ModeRead, ModeRefuse, ModeWrite(w), SingleWrite(w)}
    BY <1>1, SetterEntries
  <2>2. /\ ModeRead[1] = "read" /\ ModeRefuse[1] = "refuse"
        /\ ModeWrite(w)[1] = "write" /\ ModeWrite(w)[2] = "mode"
        /\ SingleWrite(w)[1] = "write" /\ SingleWrite(w)[2] = "single"
    BY DEF ModeRead, ModeRefuse, ModeWrite, SingleWrite
  <2>3. \A e \in E : e[1] \in {"read", "refuse"} \/ (e[1] = "write" /\ e[2] \in {"mode", "single"})
    BY <2>1, <2>2
  <2> QED BY <1>1, <2>3 DEF Fits
<1>2. CASE n \in Simple
  <2>1. E \subseteq {<<"read", n, Raw(n, w)>>, <<"write", n, Raw(n, w)>>, <<"refuse", "value", 0>>}
    BY <1>2, SetterEntries
  <2>2. \A e \in E : e[1] \in {"read", "refuse"} \/ (e[1] = "write" /\ e[2] = n)
    BY <2>1
  <2>3. n \notin {"zone", "dss", "resolution"}
    BY <1>2 DEF Simple, Settings
  <2> QED BY <2>2, <2>3 DEF Fits
<1>3. CASE n = "resolution"
  <2> SUFFICES ASSUME Valid(n, w)
               PROVE  /\ \A e \in E : Fits(e, w)
                      /\ {WriteZone(w), WriteDss(w), SendOffset(w), SendXtalk(w)} \subseteq E
    BY <1>3
  <2>1. E = {<<"read", "dss", DssRaw(w)>>, WriteDss(w), <<"read", "zone", Raw(n, w)>>,
             WriteZone(w), SendOffset(w), SendXtalk(w)}
    BY <1>3, SetterEntries DEF WriteZone, WriteDss, SendOffset, SendXtalk
  <2>2. /\ Fits(WriteDss(w), w) /\ Fits(WriteZone(w), w) /\ Fits(SendOffset(w), w) /\ Fits(SendXtalk(w), w)
        /\ Fits(<<"read", "dss", DssRaw(w)>>, w) /\ Fits(<<"read", "zone", Raw(n, w)>>, w)
    BY DEF Fits, WriteDss, WriteZone, SendOffset, SendXtalk
  <2> QED BY <2>1, <2>2
<1> QED BY <1>1, <1>2, <1>3 DEF Simple

LEMMA SettledStep ==
  ASSUME TInv, CInv, Synced, Next, Good', prog # <<>>, Full64, NEW v \in {16, 64}, Settled(v)
  PROVE  Settled(v)' /\ Full64'
<1> DEFINE e == Head(prog)
           W == {WriteZone(v), WriteDss(v), SendOffset(v), SendXtalk(v)}
<1>1. Effect(e) /\ e \in Entry /\ e[1] # "refuse"
  BY GoodEffect, StillGood
<1>2. Entries(prog) = {e} \cup Entries(Tail(prog))
  BY EntriesTail DEF TInv
<1>3. Fits(e, v) /\ \A f \in Entries(Tail(prog)) : Fits(f, v)
  BY <1>2 DEF Settled
<1> HIDE DEF e
<1>4. e[1] \in {"read", "write", "offset", "xtalk", "save", "restore", "output"}
  <2>1. e[1] \in Kinds
    BY <1>1 DEF Entry
  <2> QED BY <1>1, <1>3, <2>1 DEF Fits, Kinds
<1>5. Full64'
  BY <1>1, <1>4 DEF Effect, Full64
<1>6. /\ \A f \in Entries(prog') : Fits(f, v)
      /\ Entries(Tail(prog)) \subseteq Entries(prog')
  <2>1. CASE e[1] = "restore"
    <3>1. /\ e[2] \in Settings /\ saved[e[2]] \in Nat
          /\ prog' = Setter(e[2], saved[e[2]]) \o Tail(prog)
      BY <1>1, <2>1 DEF Effect
    <3>2. Entries(prog') = Entries(Setter(e[2], saved[e[2]])) \cup Entries(Tail(prog))
      BY <3>1, PutBackEntries
    <3>3. e[2] # "resolution"
      BY <1>3, <2>1 DEF Fits
    <3> QED BY <1>3, <3>1, <3>2, <3>3, SetterFits
  <2>2. CASE e[1] # "restore"
    BY <1>1, <1>3, <2>2 DEF Effect
  <2> QED BY <2>1, <2>2
<1>7. \A w \in W : w \in Entries(prog) => w = e \/ w \in Entries(prog')
  BY <1>2, <1>6
<1>8. /\ WriteZone(v)[1] = "write" /\ WriteZone(v)[2] = "zone" /\ WriteDss(v)[1] = "write"
      /\ WriteDss(v)[2] = "dss" /\ SendOffset(v)[1] = "offset" /\ SendXtalk(v)[1] = "xtalk"
  BY DEF WriteZone, WriteDss, SendOffset, SendXtalk
<1>9. dev = [b \in Blocks |-> dev[b]] /\ "zone" \in Blocks /\ "dss" \in Blocks
  BY DEF TInv, IsDev, Blocks
<1>10. Now("resolution")' = v \/ WriteZone(v) \in Entries(prog')
  <2>0. Now("resolution") = Get("resolution", dev["zone"])
        /\ Now("resolution")' = Get("resolution", dev'["zone"])
    BY DEF Now, BlockOf
  <2>1. CASE e[1] = "write" /\ e[2] = "zone"
    <3>1. e[3] = Raw("resolution", v)
      BY <1>3, <2>1 DEF Fits
    <3>2. dev' = [dev EXCEPT !["zone"] = Edited(dev["zone"], Raw("resolution", v))]
      BY <1>1, <2>1, <3>1 DEF Effect
    <3>3. dev'["zone"] = Edited(dev["zone"], Raw("resolution", v))
      BY <1>9, <3>2
    <3>4. Valid("resolution", v) /\ IsBlock("zone", dev["zone"]) /\ v \in Nat
      BY DEF Valid, TInv, IsDev, Blocks
    <3> QED BY <2>0, <3>3, <3>4, ReadBack DEF BlockOf, Settings
  <2>2. CASE ~(e[1] = "write" /\ e[2] = "zone")
    <3>1. dev'["zone"] = dev["zone"]
      BY <1>1, <1>4, <1>9, <2>2 DEF Effect
    <3>2. WriteZone(v) # e
      BY <1>8, <2>2
    <3> QED BY <1>7, <2>0, <3>1, <3>2 DEF Settled
  <2> QED BY <2>1, <2>2
<1>11. (\A p \in {4, 6, 9} : dev'["dss"][p] = DssRaw(v)[p]) \/ WriteDss(v) \in Entries(prog')
  <2>1. CASE e[1] = "write" /\ e[2] = "dss"
    <3>1. e[3] = DssRaw(v)
      BY <1>3, <2>1 DEF Fits
    <3>2. dev' = [dev EXCEPT !["dss"] = Edited(dev["dss"], DssRaw(v))]
      BY <1>1, <2>1, <3>1 DEF Effect
    <3>3. dev'["dss"] = Edited(dev["dss"], DssRaw(v))
      BY <1>9, <3>2
    <3>4. {4, 6, 9} \subseteq DOMAIN dev["dss"]
      BY <1>9 DEF TInv, IsDev, IsBlock, Positions
    <3>5. DOMAIN DssRaw(v) = {4, 6, 9}
      BY DEF DssRaw
    <3> QED BY <3>3, <3>4, <3>5, EditedBytes
  <2>2. CASE ~(e[1] = "write" /\ e[2] = "dss")
    <3>1. dev'["dss"] = dev["dss"]
      BY <1>1, <1>4, <1>9, <2>2 DEF Effect
    <3>2. WriteDss(v) # e
      BY <1>8, <2>2
    <3> QED BY <1>7, <3>1, <3>2 DEF Settled
  <2> QED BY <2>1, <2>2
<1>12. grids' = v \/ SendOffset(v) \in Entries(prog')
  <2>1. CASE e[1] = "offset"
    BY <1>1, <1>3, <2>1 DEF Fits, Effect
  <2>2. CASE e[1] # "offset"
    <3>1. grids' = grids /\ SendOffset(v) # e
      BY <1>1, <1>8, <2>2 DEF Effect
    <3> QED BY <1>7, <3>1 DEF Settled
  <2> QED BY <2>1, <2>2
<1>13. xtalk'.res = v \/ SendXtalk(v) \in Entries(prog')
  <2>1. CASE e[1] = "xtalk"
    BY <1>1, <1>3, <2>1 DEF Fits, Effect, TInv, Crosstalk, Full64
  <2>2. CASE e[1] # "xtalk"
    <3>1. xtalk' = xtalk /\ SendXtalk(v) # e
      BY <1>1, <1>4, <1>8, <2>2 DEF Effect
    <3> QED BY <1>7, <3>1 DEF Settled
  <2> QED BY <2>1, <2>2
<1> QED BY <1>5, <1>6, <1>10, <1>11, <1>12, <1>13 DEF Settled

\* The resolution that is put back settles everything again.
LEMMA ResolutionBack ==
  ASSUME TInv, CInv, Synced, Next, Good', prog # <<>>, Full64,
         Head(prog) = <<"restore", "resolution", 0>>,
         \A f \in Entries(Tail(prog)) : \E n \in Settings \ {"resolution"} : f = <<"restore", n, 0>>
  PROVE  Full64' /\ \E v \in {16, 64} : Settled(v)'
<1>1. Effect(<<"restore", "resolution", 0>>)
  BY GoodEffect
<1>2. /\ dev' = dev /\ grids' = grids /\ xtalk' = xtalk /\ xtalkData' = xtalkData /\ caller' = caller
      /\ prog' = Setter("resolution", saved["resolution"]) \o Tail(prog) /\ saved["resolution"] \in Nat
  BY <1>1 DEF Effect
<1>3. PICK v \in {16, 64} : v = saved["resolution"]
  <2>1. saved["resolution"] \in {16, 64, Junk}
    BY DEF TInv, SavedType
  <2> QED BY <1>2, <2>1, NotJunk
<1>4. Entries(prog') = Entries(Setter("resolution", v)) \cup Entries(Tail(prog))
  BY <1>2, <1>3, PutBackEntries DEF Settings
<1>5. "resolution" \in Settings /\ Valid("resolution", v)
  BY <1>3 DEF Settings, Valid
<1>6. /\ \A f \in Entries(Setter("resolution", v)) : Fits(f, v)
      /\ {WriteZone(v), WriteDss(v), SendOffset(v), SendXtalk(v)} \subseteq Entries(prog')
  BY <1>4, <1>5, SetterFits
<1>7. \A f \in Entries(Tail(prog)) : Fits(f, v)
  BY DEF Fits
<1>8. \A f \in Entries(prog') : Fits(f, v)
  BY <1>4, <1>6, <1>7
<1>9. Settled(v)'
  BY <1>6, <1>8 DEF Settled, WriteZone, WriteDss, SendOffset, SendXtalk
<1> QED BY <1>2, <1>3, <1>9 DEF Full64

TenOf(a, b, c, d, e, f, g, h, i, j) ==
  <<a, b>> \o (<<c, d>> \o <<e, f>> \o <<g, h>>) \o <<i>> \o <<j>>

LEMMA Ten ==
  ASSUME NEW a, NEW b, NEW c, NEW d, NEW e, NEW f, NEW g, NEW h, NEW i, NEW j
  PROVE  LET r == TenOf(a, b, c, d, e, f, g, h, i, j) IN
         /\ Len(r) = 10 /\ r[1] = a /\ r[2] = b /\ r[3] = c /\ r[4] = d /\ r[5] = e /\ r[6] = f
         /\ r[7] = g /\ r[8] = h /\ r[9] = i /\ r[10] = j
BY DEF TenOf

LEMMA GetCaldataTable ==
  LET s == GetCaldata IN
  /\ s \in Programs /\ Len(s) = 10
  /\ \A k \in 1 .. 7 : s[k][1] \in {"read", "save", "write", "offset"}
  /\ s[8] = <<"xtalk", "grid", 64>> /\ s[9] = <<"fetch", "caller", 0>>
  /\ s[10] = <<"restore", "resolution", 0>>
<1> DEFINE s == GetCaldata
           a == <<"read", BlockOf("resolution"), NoBytes>>
           b == <<"save", "resolution", "resolution">>
           c == <<"read", "dss", DssRaw(64)>>
           d == <<"write", "dss", DssRaw(64)>>
           e == <<"read", "zone", Raw("resolution", 64)>>
           f == <<"write", "zone", Raw("resolution", 64)>>
           g == <<"offset", "grid", 64>>
           h == <<"xtalk", "grid", 64>>
           i == <<"fetch", "caller", 0>>
           j == <<"restore", "resolution", 0>>
<1>1. Valid("resolution", 64)
  BY DEF Valid
<1>2. s = TenOf(a, b, c, d, e, f, g, h, i, j)
  BY <1>1 DEF TenOf, GetCaldata, Getter, SetResolution, Replace, SendGrids, PutBack
<1>3. a[1] = "read" /\ b[1] = "save" /\ c[1] = "read" /\ d[1] = "write" /\ e[1] = "read"
      /\ f[1] = "write" /\ g[1] = "offset"
  OBVIOUS
<1>4. s \in Programs
  BY CaldataProper, CleanPrograms DEF Proper
<1> HIDE DEF s, a, b, c, d, e, f, g, h, i, j
<1>5. /\ Len(s) = 10 /\ s[1] = a /\ s[2] = b /\ s[3] = c /\ s[4] = d
      /\ s[5] = e /\ s[6] = f /\ s[7] = g /\ s[8] = h /\ s[9] = i /\ s[10] = j
  BY <1>2, Ten
<1>6. ASSUME NEW k \in 1 .. 7 PROVE s[k][1] \in {"read", "save", "write", "offset"}
  <2>1. k \in {1, 2, 3, 4, 5, 6, 7}
    OBVIOUS
  <2> QED BY <1>3, <1>5, <2>1
<1> QED BY <1>4, <1>5, <1>6 DEF s, h, i, j

LEMMA SetCaldataTable ==
  LET s == SetCaldata IN
  /\ s \in Programs /\ Len(s) = 4 /\ s[1][1] = "read" /\ s[2][1] = "save" /\ s[3][1] = "take"
  /\ s[4] = <<"restore", "resolution", 0>>
<1> DEFINE s == SetCaldata
<1>1. s \in Programs
  BY CaldataProper, CleanPrograms DEF Proper
<1>2. /\ Len(s) = 4 /\ s[1][1] = "read" /\ s[2][1] = "save" /\ s[3][1] = "take"
      /\ s[4] = <<"restore", "resolution", 0>>
  BY DEF SetCaldata, Getter, PutBack
<1> QED BY <1>1, <1>2

\* A step of a function of which some is left, but for what is put back.
LEMMA LeftOn ==
  ASSUME NEW s \in Programs, Left(s), prog \in Programs, prog # <<>>
  PROVE  /\ Head(prog) = s[Len(s) - Len(prog) + 1] /\ Len(prog) \in 1 .. Len(s)
         /\ Len(s) \in Nat /\ Len(Tail(prog)) = Len(prog) - 1
         /\ Len(prog) = 1 => Entries(Tail(prog)) = {}
         /\ prog' = Tail(prog) => Left(s)'
<1>1. /\ Head(prog) = s[Len(s) - Len(prog) + 1] /\ Len(prog) \in 1 .. Len(s)
      /\ Len(Tail(prog)) = Len(prog) - 1 /\ Len(s) \in Nat
  BY LeftHead
<1>2. ASSUME Len(prog) = 1 PROVE Entries(Tail(prog)) = {}
  <2>1. Len(Tail(prog)) = 0
    BY <1>1, <1>2
  <2> QED BY <2>1 DEF Entries
<1>3. prog' = Tail(prog) => Left(s)'
  BY LeftStep DEF Left
<1> QED BY <1>1, <1>2, <1>3

LEMMA CalibrationKinds ==
  ASSUME TInv, Calibrating, Len(prog) \in 8 .. 40
  PROVE  LET e == Head(prog)
             L == Len(prog) IN
         \/ L = 21 /\ e[1] = "xtalk" /\ e[3] = 64
         \/ L = 10 /\ e[1] = "calibrate"
         \/ L = 9 /\ e[1] = "fetch" /\ e[2] = "driver"
         \/ L # 21 /\ e[1] \in {"read", "write", "save", "offset", "configure", "output"}
<1> DEFINE e == Head(prog)
           L == Len(prog)
<1>1. /\ L >= 27 => e[1] \in {"read", "save"}
      /\ L \in {13, 15, 17, 19, 24, 26} => e[1] = "read"
      /\ L \in {25, 23, 18, 16, 14} => e[1] = "write"
      /\ L = 22 => e[1] = "offset"
      /\ L \in {20, 8} => e[1] = "configure"
      /\ L = 12 => e[1] = "save"
      /\ L = 11 => e[1] = "output"
      /\ L = 10 => e[1] = "calibrate"
  BY CalibrationEntry
<1>2. /\ L = 21 => e = <<"xtalk", "grid", 64>>
      /\ L = 9 => e = <<"fetch", "driver", 0>>
  BY CalibrationEntry
<1>3. L \in 8 .. 40
  OBVIOUS
<1> HIDE DEF e, L
<1>4. L \in {8, 9, 10, 11, 12, 13, 14, 15, 16, 17, 18, 19, 20, 21, 22, 23, 24, 25, 26} \/ L >= 27
  BY <1>3
<1>5. /\ L = 21 => e[1] = "xtalk" /\ e[3] = 64
      /\ L = 9 => e[1] = "fetch" /\ e[2] = "driver"
  BY <1>2
<1>6. \/ L = 21 /\ e[1] = "xtalk" /\ e[3] = 64
      \/ L = 10 /\ e[1] = "calibrate"
      \/ L = 9 /\ e[1] = "fetch" /\ e[2] = "driver"
      \/ L # 21 /\ e[1] \in {"read", "write", "save", "offset", "configure", "output"}
  BY <1>1, <1>4, <1>5
<1> QED BY <1>6 DEF e, L

LEMMA AsideStep ==
  ASSUME TInv, CInv, Synced, Next, Good', prog # <<>>, Full64, Aside
  PROVE  Full64' /\ (Aside' \/ \E v \in {16, 64} : Settled(v)')
<1> DEFINE e == Head(prog)
           L == Len(prog)
<1>1. Effect(e) /\ call' = call /\ e[1] # "refuse"
  BY GoodEffect, StillGood
<1>2. xtalkData \in Crosstalk
  BY DEF TInv
<1>3. CASE call = "calibrate"
  <2>1. Calibrating /\ (L <= 20 => xtalk.res = 64) /\ L \in 7 .. 40
    BY <1>3, CalibrationEntry DEF Aside
  <2>0. Calibrating
    BY <2>1
  <2>2. CASE L = 7
    <3>1. e = <<"restore", "resolution", 0>>
          /\ \A f \in Entries(Tail(prog)) : \E n \in Settings \ {"resolution"} : f = <<"restore", n, 0>>
      BY <2>1, <2>2, RestoresLeft
    <3> QED BY <3>1, ResolutionBack
  <2>3. CASE L \in 8 .. 40
    <3>0. L > 7
      <4> HIDE DEF L
      <4> QED BY <2>3
    <3>1. Calibrating' /\ Len(prog') = L - 1
      BY <2>1, <3>0, CalibratingStep
    <3>3. L = 10 => Get("resolution", dev["zone"]) = 64
      BY <2>1, CalibrationZone DEF Calibrating
    <3>5. \/ L = 21 /\ e[1] = "xtalk" /\ e[3] = 64
          \/ L = 10 /\ e[1] = "calibrate"
          \/ L = 9 /\ e[1] = "fetch" /\ e[2] = "driver"
          \/ L # 21 /\ e[1] \in {"read", "write", "save", "offset", "configure", "output"}
      BY <2>0, <2>3, CalibrationKinds
    <3> HIDE DEF e, L
    <3>6. /\ caller' = caller
          /\ L <= 21 => xtalk'.res = 64
          /\ xtalkData'.res = 64
      <4>1. CASE L = 21 /\ e[1] = "xtalk" /\ e[3] = 64
        BY <1>1, <1>2, <4>1 DEF Effect, Full64, Crosstalk
      <4>2. CASE L = 10 /\ e[1] = "calibrate"
        BY <1>1, <3>3, <4>2 DEF Effect, Full64, Full
      <4>3. CASE L = 9 /\ e[1] = "fetch" /\ e[2] = "driver"
        BY <1>1, <2>1, <4>3 DEF Effect
      <4>4. CASE L # 21 /\ e[1] \in {"read", "write", "save", "offset", "configure", "output"}
        <5>1. xtalk' = xtalk /\ xtalkData' = xtalkData /\ caller' = caller
          BY <1>1, <4>4 DEF Effect
        <5>2. L <= 21 => L <= 20
          BY <2>3, <4>4
        <5> QED BY <2>1, <5>1, <5>2 DEF Full64
      <4> QED BY <3>5, <4>1, <4>2, <4>3, <4>4
    <3>7. Len(prog') <= 20 => L <= 21
      BY <2>3, <3>1
    <3> QED BY <1>1, <1>3, <3>1, <3>6, <3>7 DEF Aside, Full64
  <2> HIDE DEF L
  <2>4. L = 7 \/ L \in 8 .. 40
    BY <2>1
  <2> QED BY <2>2, <2>3, <2>4
<1>4. CASE call = "get_caldata"
  <2> DEFINE s == GetCaldata
  <2>1. Left(s) /\ (L <= 2 => xtalk.res = 64)
    BY <1>4 DEF Aside
  <2>2. /\ s \in Programs /\ Len(s) = 10
        /\ \A k \in 1 .. 7 : s[k][1] \in {"read", "save", "write", "offset"}
        /\ s[8] = <<"xtalk", "grid", 64>> /\ s[9] = <<"fetch", "caller", 0>>
        /\ s[10] = <<"restore", "resolution", 0>>
    BY GetCaldataTable
  <2> HIDE DEF s
  <2>3. /\ e = s[Len(s) - L + 1] /\ L \in 1 .. Len(s) /\ Len(Tail(prog)) = L - 1
        /\ L = 1 => Entries(Tail(prog)) = {}
        /\ prog' = Tail(prog) => Left(s)'
    BY <2>1, <2>2, LeftOn DEF TInv
  <2> HIDE DEF e, L
  <2>4. L \in 1 .. 10 /\ e = s[11 - L]
    <3>1. Len(s) = 10
      BY <2>2
    <3>2. L \in 1 .. 10 /\ e = s[10 - L + 1]
      BY <2>3, <3>1
    <3>3. 10 - L + 1 = 11 - L
      BY <3>2
    <3> QED BY <3>2, <3>3
  <2>5. CASE L = 1
    <3>1. e = <<"restore", "resolution", 0>>
      BY <2>2, <2>4, <2>5
    <3> QED BY <2>3, <2>5, <3>1, ResolutionBack DEF e
  <2>6. CASE L \in 2 .. 10
    <3>1. \/ L = 2 /\ e[1] = "fetch" /\ e[2] = "caller"
          \/ L = 3 /\ e[1] = "xtalk" /\ e[3] = 64
          \/ L >= 4 /\ e[1] \in {"read", "save", "write", "offset"}
      <4>1. CASE L = 2
        BY <2>2, <2>4, <4>1
      <4>2. CASE L = 3
        BY <2>2, <2>4, <4>2
      <4>3. CASE L \in 4 .. 10
        <5> DEFINE k == 11 - L
        <5>1. k \in 1 .. 7 /\ e = s[k]
          BY <2>4, <4>3
        <5> HIDE DEF k
        <5> QED BY <2>2, <4>3, <5>1
      <4>4. L = 2 \/ L = 3 \/ L \in 4 .. 10
        BY <2>6
      <4> QED BY <4>1, <4>2, <4>3, <4>4
    <3>2. prog' = Tail(prog)
      BY <1>1, <3>1 DEF Effect
    <3>3. /\ xtalkData'.res = 64 /\ caller'.res = 64
          /\ L <= 3 => xtalk'.res = 64
      <4>1. CASE L = 2 /\ e[1] = "fetch" /\ e[2] = "caller"
        BY <1>1, <2>1, <4>1 DEF Effect, Full64
      <4>2. CASE L = 3 /\ e[1] = "xtalk" /\ e[3] = 64
        BY <1>1, <1>2, <4>2 DEF Effect, Full64, Crosstalk
      <4>3. CASE L >= 4 /\ e[1] \in {"read", "save", "write", "offset"}
        <5>1. ~(L <= 3)
          BY <2>6, <4>3
        <5> QED BY <1>1, <4>3, <5>1 DEF Effect, Full64
      <4> QED BY <3>1, <4>1, <4>2, <4>3
    <3>4. Len(prog') = L - 1 /\ Left(GetCaldata)'
      BY <2>3, <3>2 DEF s
    <3>5. Len(prog') >= 1 /\ (Len(prog') <= 2 => L <= 3)
      BY <2>6, <3>4
    <3> QED BY <1>1, <1>4, <3>3, <3>4, <3>5 DEF Aside, Full64
  <2>7. L = 1 \/ L \in 2 .. 10
    BY <2>4
  <2> QED BY <2>5, <2>6, <2>7
<1>5. CASE call = "set_caldata"
  <2> DEFINE s == SetCaldata
  <2>1. Left(s)
    BY <1>5 DEF Aside
  <2>2. /\ s \in Programs /\ Len(s) = 4 /\ s[1][1] = "read" /\ s[2][1] = "save" /\ s[3][1] = "take"
        /\ s[4] = <<"restore", "resolution", 0>>
    BY SetCaldataTable
  <2> HIDE DEF s
  <2>3. /\ e = s[Len(s) - L + 1] /\ L \in 1 .. Len(s) /\ Len(Tail(prog)) = L - 1
        /\ L = 1 => Entries(Tail(prog)) = {}
        /\ prog' = Tail(prog) => Left(s)'
    BY <2>1, <2>2, LeftOn DEF TInv
  <2> HIDE DEF e, L
  <2>4. L \in 1 .. 4 /\ e = s[5 - L]
    <3>1. Len(s) = 4
      BY <2>2
    <3>2. L \in 1 .. 4 /\ e = s[4 - L + 1]
      BY <2>3, <3>1
    <3>3. 4 - L + 1 = 5 - L
      BY <3>2
    <3> QED BY <3>2, <3>3
  <2>5. CASE L = 1
    <3>1. e = <<"restore", "resolution", 0>>
      BY <2>2, <2>4, <2>5
    <3> QED BY <2>3, <2>5, <3>1, ResolutionBack DEF e
  <2>6. CASE L \in {2, 3, 4}
    <3>1. e[1] \in {"read", "save", "take"}
      BY <2>2, <2>4, <2>6
    <3>2. prog' = Tail(prog) /\ caller' = caller /\ xtalkData' \in {xtalkData, caller}
      BY <1>1, <3>1 DEF Effect
    <3>3. Len(prog') = L - 1 /\ Left(SetCaldata)'
      BY <2>3, <3>2 DEF s
    <3>4. Len(prog') >= 1
      BY <2>6, <3>3
    <3> QED BY <1>1, <1>5, <3>2, <3>3, <3>4 DEF Aside, Full64
  <2>7. L = 1 \/ L \in {2, 3, 4}
    BY <2>4
  <2> QED BY <2>5, <2>6, <2>7
<1> QED BY <1>3, <1>4, <1>5 DEF Aside

LEMMA BeginGrids ==
  ASSUME TInv, GInv, NEW c, NEW v, NEW body, <<c, v, body>> \in Bodies, Begin(c, v, body)
  PROVE  GInv'
<1> SUFFICES ASSUME ~errorSeen'
             PROVE  (call' \notin Simple /\ Doomed(prog')) \/ OneResolution'
  BY DEF GInv, Live
<1>1. /\ call = "none" /\ prog = <<>> /\ call' = c /\ arg' = v /\ prog' = body /\ errorSeen' = errorSeen
      /\ UNCHANGED <<dev, grids, xtalk, xtalkData, caller>>
  BY DEF Begin, TInv
<1>2. Entries(prog) = {}
  BY <1>1, NoEntries DEF TInv
<1>3. Full64 /\ \E w \in {16, 64} : Settled(w)
  BY <1>1, <1>2 DEF GInv, Live, OneResolution, Aside, Doomed
<1>4. Full64' /\ \A w : (Now("resolution") = w)' <=> (Now("resolution") = w)
  BY <1>1, <1>3 DEF Full64, Now
<1>5. CASE c \in Settings
  <2>1. body = Setter(c, v)
    BY <1>5 DEF Bodies, Settings
  <2>2. CASE c # "resolution" /\ (c \in Simple \/ Valid(c, v))
    <3>1. PICK w \in {16, 64} : Settled(w)
      BY <1>3
    <3>2. \A e \in Entries(prog') : Fits(e, w)
      BY <1>1, <1>5, <2>1, <2>2, SetterFits
    <3>3. Settled(w)'
      BY <1>1, <1>2, <1>4, <3>1, <3>2 DEF Settled, WriteZone, WriteDss, SendOffset, SendXtalk
    <3> QED BY <1>4, <3>3 DEF OneResolution
  <2>3. CASE c = "resolution" /\ Valid(c, v)
    <3>1. v \in {16, 64}
      BY <2>3 DEF Valid
    <3>2. /\ \A e \in Entries(prog') : Fits(e, v)
          /\ {WriteZone(v), WriteDss(v), SendOffset(v), SendXtalk(v)} \subseteq Entries(prog')
      BY <1>1, <1>5, <2>1, <2>3, SetterFits
    <3>3. Settled(v)'
      BY <3>2 DEF Settled, WriteZone, WriteDss, SendOffset, SendXtalk
    <3> QED BY <1>4, <3>1, <3>3 DEF OneResolution
  <2>4. CASE c \notin Simple /\ ~Valid(c, v)
    <3>1. \E e \in Entries(body) : e[1] = "refuse"
      BY <1>5, <2>1, <2>4, SetterEntries
    <3> QED BY <1>1, <2>4, <3>1 DEF Doomed
  <2> QED BY <1>5, <2>2, <2>3, <2>4 DEF Simple
<1>6. CASE c = "calibrate"
  <2>1. v \in Targets /\ body = CalibrateXtalk(v)
    BY <1>6 DEF Bodies, Settings
  <2>2. Doomed(prog') \/ (Calibrating' /\ Len(prog') = 40)
    BY <1>6, <2>1, CalibrationBegins
  <2> DEFINE L == Len(prog')
  <2>3. L = 40 => ~(L <= 20)
    <3> HIDE DEF L
    <3> QED OBVIOUS
  <2> QED BY <1>1, <1>4, <1>6, <2>2, <2>3 DEF OneResolution, Aside, Simple, Settings
<1>7. CASE c = "get_caldata"
  <2>1. body = GetCaldata /\ Len(GetCaldata) = 10
    BY <1>7, GetCaldataTable DEF Bodies, Settings
  <2> DEFINE s == GetCaldata
  <2>2. prog' = s /\ Len(s) = 10
    BY <1>1, <2>1
  <2> HIDE DEF s
  <2>3. Left(s)' /\ Len(prog') >= 1 /\ ~(Len(prog') <= 2)
    <3>1. Len(prog') = 10 /\ s' = s
      BY <2>2 DEF s
    <3>2. \A i \in 1 .. Len(prog') : (Len(s) - Len(prog')) + i = i
      BY <2>2
    <3> QED BY <2>2, <3>1, <3>2 DEF Left
  <2> QED BY <1>1, <1>4, <1>7, <2>3 DEF OneResolution, Aside, s
<1>8. CASE c = "set_caldata"
  <2>1. body = SetCaldata /\ Len(SetCaldata) = 4
    BY <1>8, SetCaldataTable DEF Bodies, Settings
  <2> DEFINE s == SetCaldata
  <2>2. prog' = s /\ Len(s) = 4
    BY <1>1, <2>1
  <2> HIDE DEF s
  <2>3. Left(s)' /\ Len(prog') >= 1
    <3>1. Len(prog') = 4 /\ s' = s
      BY <2>2 DEF s
    <3>2. \A i \in 1 .. Len(prog') : (Len(s) - Len(prog')) + i = i
      BY <2>2
    <3> QED BY <2>2, <3>1, <3>2 DEF Left
  <2> QED BY <1>1, <1>4, <1>8, <2>3 DEF OneResolution, Aside, s
<1> QED BY <1>5, <1>6, <1>7, <1>8 DEF Bodies

LEMMA StepGrids == TInv /\ SetInv /\ CInv /\ Synced /\ GInv /\ [Next]_vars => GInv'
<1> SUFFICES ASSUME TInv, SetInv, CInv, Synced, GInv, [Next]_vars PROVE GInv'
  OBVIOUS
<1>1. CASE UNCHANGED vars
  <2>1. Live' = Live /\ Full64' = Full64 /\ Aside' = Aside /\ prog' = prog /\ call' = call
        /\ \A v : Settled(v)' = Settled(v)
    BY <1>1 DEF vars, Live, Full64, Aside, Calibrating, Left, MeasuredAs, Then, Now, Settled, Measurement
  <2> QED BY <2>1 DEF GInv, OneResolution
<1>2. CASE (\E name \in Settings : Set(name)) \/ Calibrate \/ Caldata
  BY <1>2, Calls, BeginGrids
<1>3. CASE Return
  <2> SUFFICES ASSUME ~errorSeen' PROVE OneResolution'
    BY DEF GInv, Live
  <2>1. /\ prog = <<>> /\ prog' = prog /\ UNCHANGED <<dev, grids, xtalk, xtalkData, caller>>
        /\ ~errorSeen /\ status # "error" /\ ~(status = "refused" /\ call \in {"mode", "resolution"})
    BY <1>3 DEF Return, TInv
  <2>2. Live
    BY <2>1 DEF Live, TInv, CInv, Simple
  <2>3. Entries(prog) = {}
    BY <2>1, NoEntries DEF TInv
  <2>4. ~Aside
    <3>1. ~Calibrating
      BY <2>1, CalibrationEntry
    <3>2. Len(prog) = 0
      BY <2>1
    <3> QED BY <3>1, <3>2 DEF Aside
  <2>5. Full64 /\ \E v \in {16, 64} : Settled(v)
    BY <2>2, <2>3, <2>4 DEF GInv, OneResolution, Doomed
  <2>6. Full64' /\ \A v : Settled(v) => Settled(v)'
    BY <2>1, <2>5 DEF Full64, Settled, Now
  <2> QED BY <2>5, <2>6 DEF OneResolution
<1>4. CASE Next /\ ~((\E name \in Settings : Set(name)) \/ Calibrate \/ Caldata) /\ ~Return
  <2> SUFFICES ASSUME Live' PROVE (call' \notin Simple /\ Doomed(prog')) \/ OneResolution'
    BY DEF GInv
  <2>1. call' = call /\ errorSeen' = errorSeen /\ prog # <<>> /\ call # "none"
    BY <1>4, CallGoesOn DEF TInv
  <2>2. CASE Refuse
    <3>1. /\ At("refuse") /\ prog' = Tail(prog) /\ UNCHANGED <<dev, grids, xtalk, xtalkData, caller>>
          /\ status' = IF call \in Settings THEN "refused" ELSE "error"
      BY <2>2 DEF Refuse
    <3>2. call \in Simple /\ ~errorSeen
      BY <2>1, <3>1 DEF Live
    <3>3. Live /\ ~Aside
      BY <3>1, <3>2, SimpleRefusal DEF Live, Aside, Simple, Settings
    <3>4. PICK v \in {16, 64} : Settled(v)
      BY <3>2, <3>3 DEF GInv, OneResolution
    <3>5. Entries(prog) = {Head(prog)} \cup Entries(prog')
      BY <2>1, <3>1, EntriesTail DEF TInv
    <3>6. Head(prog) \notin {WriteZone(v), WriteDss(v), SendOffset(v), SendXtalk(v)}
      BY <3>1 DEF At, WriteZone, WriteDss, SendOffset, SendXtalk
    <3>7. Settled(v)'
      <4>1. Now("resolution")' = Now("resolution")
        BY <3>1 DEF Now
      <4>2. \A w \in {WriteZone(v), WriteDss(v), SendOffset(v), SendXtalk(v)} :
              w \in Entries(prog) => w \in Entries(prog')
        BY <3>5, <3>6
      <4>3. \A e \in Entries(prog') : Fits(e, v)
        BY <3>4, <3>5 DEF Settled
      <4> QED BY <3>1, <3>4, <4>1, <4>2, <4>3 DEF Settled
    <3>8. Full64'
      BY <3>1, <3>2, <3>3 DEF GInv, OneResolution, Full64
    <3> QED BY <3>7, <3>8 DEF OneResolution
  <2>3. CASE ~Refuse
    <3>1. \/ \E failed \in BOOLEAN : Exchange(failed)
          \/ Save \/ Restore \/ Take
      BY <1>4, <2>3 DEF Next
    <3>2. status' \in {status, "error"}
      BY <3>1 DEF Exchange, Read, Write, Send, Configure, SendList, Measure, Fetch, Unless,
                  Save, Restore, Take
    <3>3. Good' /\ ~errorSeen
      BY <2>1, <3>2, SimpleRefusal DEF Live, Good
    <3>4. Live
      BY <1>4, <2>1, <3>3, StillGood DEF Live, Good
    <3>5. CASE call \notin Simple /\ Doomed(prog)
      BY <1>4, <2>1, <3>3, <3>5, DoomedStep
    <3>6. CASE OneResolution
      <4>1. CASE Aside
        BY <1>4, <2>1, <3>3, <3>6, <4>1, AsideStep DEF OneResolution
      <4>2. ASSUME NEW v \in {16, 64}, Settled(v) PROVE OneResolution'
        BY <1>4, <2>1, <3>3, <3>6, <4>2, SettledStep DEF OneResolution
      <4> QED BY <3>6, <4>1, <4>2 DEF OneResolution
    <3> QED BY <3>4, <3>5, <3>6 DEF GInv
  <2> QED BY <2>2, <2>3
<1> QED BY <1>1, <1>2, <1>3, <1>4

LEMMA InitGrids == Init => GInv
<1> SUFFICES ASSUME Init PROVE GInv
  OBVIOUS
<1>1. Entries(prog) = {}
  BY InitTyped, NoEntries DEF Init, TInv
<1>2. Now("resolution") = 16
  BY CalibrationZone DEF Init, Now, BlockOf
<1>3. \A p \in {4, 6, 9} : dev["dss"][p] = DssRaw(16)[p]
  <2>1. dev["dss"] = Block(DssRaw(16), 0)
    BY DEF Init, DefaultDev
  <2>2. DOMAIN DssRaw(16) = {4, 6, 9}
    BY DEF DssRaw
  <2> QED BY <2>1, <2>2 DEF Block, Rest
<1>4. Full64 /\ grids = 16 /\ xtalk.res = 16
  BY DEF Init, Full64, Full
<1>5. Settled(16)
  BY <1>1, <1>2, <1>3, <1>4 DEF Settled
<1> QED BY <1>4, <1>5 DEF GInv, OneResolution

\* Between calls the zones, the offset and the crosstalk are of one resolution, and the
\* driver keeps the crosstalk of all 64 zones, as long as no call has returned an error.
THEOREM GridsAgree == Spec => []GridsMatch
<1>1. TInv /\ GInv => GridsMatch
  <2> SUFFICES ASSUME TInv, GInv, call = "none", ~errorSeen
               PROVE  /\ grids = Now("resolution") /\ xtalk.res = Now("resolution")
                      /\ xtalkData.res = 64 /\ caller.res = 64
                      /\ \A p \in {4, 6, 9} : dev["dss"][p] = DssRaw(Now("resolution"))[p]
    BY DEF GridsMatch
  <2>1. Entries(prog) = {}
    BY NoEntries DEF TInv
  <2>2. Full64 /\ \E v \in {16, 64} : Settled(v)
    BY <2>1 DEF GInv, Live, OneResolution, Aside, Doomed
  <2>3. PICK v \in {16, 64} : Settled(v)
    BY <2>2
  <2> QED BY <2>1, <2>2, <2>3 DEF Settled, Full64
<1>2. Spec => [](TInv /\ SetInv /\ CInv /\ Synced /\ GInv)
  BY InitTyped, StepTyped, InitSet, StepSet, InitClean, StepClean, InitCal, StepSynced, InitGrids,
     StepGrids, PTL DEF Spec
<1> QED BY <1>1, <1>2, PTL
=============================================================================
