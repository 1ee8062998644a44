--------------------------- MODULE UldSessionProofs ---------------------------
(***************************************************************************)
(* Proofs about UldSession, for any number of failed accesses: every         *)
(* variable keeps its type, a call that returns 0 leaves page 2 behind, and   *)
(* no stop request is left where the program is told that a session is over.  *)
(* The functions are sequences of accesses, and the argument is about what   *)
(* is left of them: the last page register write to come is that of page 2,   *)
(* or there is none left and page 2 is selected; the write that takes a stop  *)
(* request back is still to come, on page 0, or it has been done and no stop  *)
(* request comes after it.                                                  *)
(***************************************************************************)
EXTENDS UldSession, TLAPS

-----------------------------------------------------------------------------
(* Types.                                                                   *)

Kinds == {"wr", "rd", "poll", "cmd", "answer", "decide"}

\* An access that leaves the registers and the mailbox in their types.
Entry ==
  {e \in Kinds \X Names \X Nat :
     /\ e[1] = "wr" /\ e[2] = "page"  => e[3] \in Pages
     /\ e[1] = "wr" /\ e[2] = "power" => e[3] \in {2, 4, 5}
     /\ e[1] = "wr" /\ e[2] = "stop"  => e[3] \in {0, 1}
     /\ e[1] = "wr" /\ e[2] = "mode"  => e[3] \in {0, 22}
     /\ e[1] = "wr" /\ e[2] = "image" => e[3] \in ImagePages
     /\ e[1] = "cmd" => e[2] \in Commands}

Programs == Seq(Entry)

LEMMA EntryOf ==
  ASSUME NEW k \in Kinds, NEW r \in Names, NEW v \in Nat,
         k = "wr" /\ r = "page" => v \in Pages, k = "wr" /\ r = "power" => v \in {2, 4, 5},
         k = "wr" /\ r = "stop" => v \in {0, 1}, k = "wr" /\ r = "mode" => v \in {0, 22},
         k = "wr" /\ r = "image" => v \in ImagePages, k = "cmd" => r \in Commands
  PROVE  <<k, r, v>> \in Entry
<1>1. <<k, r, v>> \in Kinds \X Names \X Nat
  OBVIOUS
<1> QED BY <1>1 DEF Entry

LEMMA CommandEntry ==
  ASSUME NEW c \in Commands
  PROVE  <<"cmd", c, 0>> \in Entry /\ <<"answer", c, 0>> \in Entry
BY EntryOf DEF Names, Kinds

LEMMA PageEntry == \A p \in Pages : Page(p) \in Entry
BY EntryOf DEF Names, Kinds, Page, WrByte, Pages

LEMMA Joined == \A p, q \in Programs : p \o q \in Programs
BY DEF Programs

LEMMA ExchangeType == \A c \in Commands : Exchange(c) \in Programs
<1> SUFFICES ASSUME NEW c \in Commands PROVE Exchange(c) \in Programs
  OBVIOUS
<1> QED BY CommandEntry DEF Exchange, Programs

\* The other accesses of the functions.
LEMMA ReadEntry ==
  \A r \in {"page", "id", "data", "power", "autostop"} : RdByte(r) \in Entry
BY EntryOf DEF Names, Kinds, RdByte

LEMMA PollEntry ==
  \A r \in {"boot", "open", "awake", "halted"}, v \in {0, 1} : Poll(r, v) \in Entry
BY EntryOf DEF Names, Kinds, Poll

LEMMA DecideEntry == \A r \in {"stop", "sleep", "wakeup", "unknown"} : Decide(r) \in Entry
BY EntryOf DEF Names, Kinds, Decide

LEMMA PowerEntry == \A v \in {2, 4, 5} : WrByte("power", v) \in Entry
BY EntryOf DEF Names, Kinds, WrByte

LEMMA StopEntry == WrByte("stop", 0) \in Entry /\ WrByte("stop", 1) \in Entry
                   /\ WrByte("mode", 0) \in Entry /\ WrByte("mode", 22) \in Entry
<1>1. WrByte("stop", 0) \in Entry
  BY EntryOf DEF Names, Kinds, WrByte
<1>2. WrByte("stop", 1) \in Entry
  BY EntryOf DEF Names, Kinds, WrByte
<1>3. WrByte("mode", 0) \in Entry
  BY EntryOf DEF Names, Kinds, WrByte
<1>4. WrByte("mode", 22) \in Entry
  BY EntryOf DEF Names, Kinds, WrByte
<1> QED BY <1>1, <1>2, <1>3, <1>4

LEMMA PlainEntry ==
  \A r \in {"reboot", "access", "setup", "wake", "run", "address"}, v \in {0, 1, 6, 13} :
    WrByte(r, v) \in Entry
BY EntryOf DEF Names, Kinds, WrByte

LEMMA ImageEntry == \A v \in ImagePages : WrByte("image", v) \in Entry
BY EntryOf DEF Names, Kinds, WrByte, ImagePages
-----------------------------------------------------------------------------
(* What is left of a function.                                              *)

PageWrite(e) == e[1] = "wr" /\ e[2] = "page"

\* No page is selected any more; nothing is decided any more.
Quiet(p) == \A m \in 1 .. Len(p) : ~PageWrite(p[m])
Straight(p) == \A m \in 1 .. Len(p) : p[m][1] # "decide"

\* The last page that is selected is page 2.
Restores(p) ==
  \E k \in 1 .. Len(p) : p[k] = Page(2) /\ \A m \in k + 1 .. Len(p) : ~PageWrite(p[m])

\* A condition is the last thing; and it is that of stop_ranging.
Shape(p) == \A m \in 1 .. Len(p) : p[m][1] = "decide" => m = Len(p)
Stops(p) == Len(p) >= 1 /\ p[Len(p)] = Decide("stop")

LEMMA JoinIndex ==
  ASSUME NEW p \in Programs, NEW q \in Programs
  PROVE  /\ p \o q \in Programs /\ Len(p) \in Nat /\ Len(q) \in Nat
         /\ Len(p \o q) = Len(p) + Len(q)
         /\ \A m \in 1 .. Len(p) : (p \o q)[m] = p[m]
         /\ \A m \in 1 .. Len(q) : (p \o q)[m + Len(p)] = q[m]
         /\ \A m \in 1 .. Len(p \o q) :
              m \in 1 .. Len(p) \/ (m - Len(p) \in 1 .. Len(q) /\ (p \o q)[m] = q[m - Len(p)])
BY DEF Programs

LEMMA JoinQuiet ==
  ASSUME NEW p \in Programs, NEW q \in Programs, Quiet(p), Quiet(q)
  PROVE  Quiet(p \o q)
BY JoinIndex DEF Quiet

LEMMA JoinStraight ==
  ASSUME NEW p \in Programs, NEW q \in Programs, Straight(p), Straight(q)
  PROVE  Straight(p \o q)
<1> SUFFICES ASSUME NEW m \in 1 .. Len(p \o q) PROVE (p \o q)[m][1] # "decide"
  BY DEF Straight
<1>1. CASE m \in 1 .. Len(p)
  <2>1. (p \o q)[m] = p[m]
    BY <1>1, JoinIndex
  <2> QED BY <1>1, <2>1 DEF Straight
<1>2. CASE m - Len(p) \in 1 .. Len(q) /\ (p \o q)[m] = q[m - Len(p)]
  BY <1>2 DEF Straight
<1> QED BY <1>1, <1>2, JoinIndex

LEMMA JoinShape ==
  ASSUME NEW p \in Programs, NEW e \in Entry, Straight(p)
  PROVE  Shape(p \o <<e>>)
<1>1. <<e>> \in Programs /\ Len(<<e>>) = 1
  BY DEF Programs
<1> SUFFICES ASSUME NEW m \in 1 .. Len(p \o <<e>>), (p \o <<e>>)[m][1] = "decide"
             PROVE  m = Len(p \o <<e>>)
  BY DEF Shape
<1>2. CASE m \in 1 .. Len(p)
  <2>1. (p \o <<e>>)[m] = p[m]
    BY <1>1, <1>2, JoinIndex
  <2> QED BY <1>2, <2>1 DEF Straight
<1>3. CASE m - Len(p) \in 1 .. Len(<<e>>)
  <2>1. Len(p) \in Nat /\ Len(p \o <<e>>) = Len(p) + 1
    BY <1>1, JoinIndex
  <2>2. m \in Int /\ m - Len(p) = 1
    BY <1>1, <1>3, <2>1
  <2> QED BY <2>1, <2>2
<1> QED BY <1>1, <1>2, <1>3, JoinIndex

LEMMA JoinRestores ==
  ASSUME NEW p \in Programs, NEW q \in Programs, Restores(q)
  PROVE  Restores(p \o q)
<1>1. PICK k \in 1 .. Len(q) : q[k] = Page(2) /\ \A m \in k + 1 .. Len(q) : ~PageWrite(q[m])
  BY DEF Restores
<1>0. /\ Len(p) \in Nat /\ Len(q) \in Nat /\ Len(p \o q) = Len(p) + Len(q)
      /\ \A m \in 1 .. Len(q) : (p \o q)[m + Len(p)] = q[m]
  BY JoinIndex
<1>2. k + Len(p) \in 1 .. Len(p \o q) /\ (p \o q)[k + Len(p)] = Page(2)
  BY <1>0, <1>1
<1>3. ASSUME NEW m \in (k + Len(p)) + 1 .. Len(p \o q) PROVE ~PageWrite((p \o q)[m])
  <2>1. m - Len(p) \in k + 1 .. Len(q) /\ (m - Len(p)) + Len(p) = m /\ m - Len(p) \in 1 .. Len(q)
    BY <1>0, <1>1
  <2>2. (p \o q)[(m - Len(p)) + Len(p)] = q[m - Len(p)]
    BY <1>0, <2>1
  <2> QED BY <1>1, <2>1, <2>2
<1> QED BY <1>2, <1>3 DEF Restores

LEMMA RestoresJoin ==
  ASSUME NEW p \in Programs, NEW q \in Programs, Restores(p), Quiet(q)
  PROVE  Restores(p \o q)
<1>1. PICK k \in 1 .. Len(p) : p[k] = Page(2) /\ \A m \in k + 1 .. Len(p) : ~PageWrite(p[m])
  BY DEF Restores
<1>2. k \in 1 .. Len(p \o q) /\ (p \o q)[k] = Page(2)
  BY <1>1, JoinIndex
<1>3. ASSUME NEW m \in k + 1 .. Len(p \o q) PROVE ~PageWrite((p \o q)[m])
  <2>1. m \in 1 .. Len(p \o q)
    BY <1>1, JoinIndex
  <2>2. CASE m \in 1 .. Len(p)
    BY <1>1, <2>2, JoinIndex
  <2>3. CASE m - Len(p) \in 1 .. Len(q) /\ (p \o q)[m] = q[m - Len(p)]
    BY <2>3 DEF Quiet
  <2> QED BY <2>1, <2>2, <2>3, JoinIndex
<1> QED BY <1>2, <1>3 DEF Restores

LEMMA TailIndex ==
  ASSUME NEW p \in Programs, p # <<>>
  PROVE  /\ Tail(p) \in Programs /\ Head(p) = p[1] /\ Head(p) \in Entry
         /\ Len(p) \in Nat /\ Len(p) >= 1 /\ Len(Tail(p)) = Len(p) - 1
         /\ \A m \in 1 .. Len(Tail(p)) : Tail(p)[m] = p[m + 1]
BY DEF Programs

LEMMA TailShape ==
  ASSUME NEW p \in Programs, p # <<>>
  PROVE  /\ Shape(p) => Shape(Tail(p))
         /\ Quiet(p) => Quiet(Tail(p))
         /\ Stops(p) /\ Head(p)[1] # "decide" => Stops(Tail(p))
<1>1. Shape(p) => Shape(Tail(p))
  BY TailIndex DEF Shape
<1>2. Quiet(p) => Quiet(Tail(p))
  BY TailIndex DEF Quiet
<1>3. ASSUME Stops(p), Head(p)[1] # "decide" PROVE Stops(Tail(p))
  <2>1. Len(p) # 1
    BY <1>3, TailIndex DEF Stops, Decide
  <2>2. Len(Tail(p)) = Len(p) - 1 /\ Len(p) \in Nat /\ Len(p) >= 1
    BY TailIndex
  <2>3. Len(p) - 1 \in 1 .. Len(Tail(p)) /\ (Len(p) - 1) + 1 = Len(p)
    BY <2>1, <2>2
  <2>4. Len(Tail(p)) >= 1 /\ Tail(p)[Len(Tail(p))] = p[Len(p)]
    BY <2>2, <2>3, TailIndex
  <2> QED BY <1>3, <2>4 DEF Stops
<1> QED BY <1>1, <1>2, <1>3

LEMMA TailRestores ==
  ASSUME NEW p \in Programs, p # <<>>, Restores(p)
  PROVE  Restores(Tail(p)) \/ (Head(p) = Page(2) /\ Quiet(Tail(p)))
<1>1. PICK k \in 1 .. Len(p) : p[k] = Page(2) /\ \A m \in k + 1 .. Len(p) : ~PageWrite(p[m])
  BY DEF Restores
<1>2. CASE k = 1
  BY <1>1, <1>2, TailIndex DEF Quiet
<1>3. CASE k # 1
  <2>1. k - 1 \in 1 .. Len(Tail(p)) /\ Tail(p)[k - 1] = Page(2)
    BY <1>1, <1>3, TailIndex
  <2>2. \A m \in (k - 1) + 1 .. Len(Tail(p)) : ~PageWrite(Tail(p)[m])
    BY <1>1, <1>3, TailIndex
  <2> QED BY <2>1, <2>2 DEF Restores
<1> QED BY <1>2, <1>3
-----------------------------------------------------------------------------
(* The functions, one by one.                                               *)

\* A function, or what is left of one, that selects page 2 last, without a condition.
Returns2(p) == p \in Programs /\ Straight(p) /\ Restores(p)
\* One that selects no page.
Stays(p) == p \in Programs /\ Straight(p) /\ Quiet(p)

LEMMA Returns2Join ==
  ASSUME NEW p \in Programs, Straight(p), NEW q, Returns2(q)
  PROVE  Returns2(p \o q)
BY JoinIndex, JoinStraight, JoinRestores DEF Returns2

LEMMA Returns2Stays ==
  ASSUME NEW p, Returns2(p), NEW q, Stays(q)
  PROVE  Returns2(p \o q)
BY JoinIndex, JoinStraight, RestoresJoin DEF Returns2, Stays

LEMMA StaysJoin ==
  ASSUME NEW p, Stays(p), NEW q, Stays(q)
  PROVE  Stays(p \o q)
BY JoinIndex, JoinStraight, JoinQuiet DEF Stays

LEMMA ExchangeStays == \A c \in Commands : Stays(Exchange(c))
<1> SUFFICES ASSUME NEW c \in Commands PROVE Stays(Exchange(c))
  OBVIOUS
<1> QED BY ExchangeType DEF Exchange, Stays, Straight, Quiet, PageWrite

LEMMA DataStays == Stays(<<RdByte("data")>>)
BY ReadEntry DEF Programs, RdByte, Stays, Straight, Quiet, PageWrite

LEMMA IsAliveReturns == Returns2(IsAlive)
<1>1. IsAlive \in Programs
  BY PageEntry, ReadEntry DEF IsAlive, Programs, Pages
<1>2. Straight(IsAlive)
  BY DEF IsAlive, Straight, Page, WrByte, RdByte
<1>3. Restores(IsAlive)
  <2>1. IsAlive[4] = Page(2) /\ Len(IsAlive) = 4
    BY DEF IsAlive
  <2> QED BY <2>1 DEF Restores
<1> QED BY <1>1, <1>2, <1>3 DEF Returns2

LEMMA SetAddressReturns == \A same \in BOOLEAN : Returns2(SetAddress(same))
<1> SUFFICES ASSUME NEW same \in BOOLEAN PROVE Returns2(SetAddress(same))
  OBVIOUS
<1> DEFINE v == IF same THEN 1 ELSE 0
<1>0. v \in {0, 1}
  OBVIOUS
<1> HIDE DEF v
<1>1. SetAddress(same) = <<Page(0), WrByte("address", v), Page(2)>>
  BY DEF SetAddress, v
<1>2. <<Page(0), WrByte("address", v), Page(2)>> \in Programs
  BY <1>0, PageEntry, PlainEntry DEF Programs, Pages
<1>3. Straight(<<Page(0), WrByte("address", v), Page(2)>>)
  BY DEF Straight, Page, WrByte
<1>4. Restores(<<Page(0), WrByte("address", v), Page(2)>>)
  <2> DEFINE p == <<Page(0), WrByte("address", v), Page(2)>>
  <2>1. p[3] = Page(2) /\ Len(p) = 3
    OBVIOUS
  <2> QED BY <2>1 DEF Restores
<1> QED BY <1>1, <1>2, <1>3, <1>4 DEF Returns2

LEMMA GetPowerReturns == Returns2(GetPowerMode)
<1>1. GetPowerMode \in Programs
  BY PageEntry, ReadEntry DEF GetPowerMode, Programs, Pages
<1>2. Straight(GetPowerMode)
  BY DEF GetPowerMode, Straight, Page, WrByte, RdByte
<1>3. Restores(GetPowerMode)
  <2>1. GetPowerMode[3] = Page(2) /\ Len(GetPowerMode) = 3
    BY DEF GetPowerMode
  <2> QED BY <2>1 DEF Restores
<1> QED BY <1>1, <1>2, <1>3 DEF Returns2

LEMMA ChangePowerReturns == \A name \in {"sleep", "wakeup", "unknown"} : Returns2(ChangePowerMode(name))
<1> DEFINE P(v, b) == <<Page(0), WrByte("power", v), Poll("awake", b), Page(2)>>
<1>1. ASSUME NEW v \in {2, 4}, NEW b \in {0, 1} PROVE Returns2(P(v, b))
  <2>1. P(v, b) \in Programs
    BY PageEntry, PowerEntry, PollEntry DEF Programs, Pages
  <2>2. Straight(P(v, b))
    BY DEF Straight, Page, WrByte, Poll
  <2>3. Restores(P(v, b))
    <3>1. P(v, b)[4] = Page(2) /\ Len(P(v, b)) = 4
      OBVIOUS
    <3> QED BY <3>1 DEF Restores
  <2> QED BY <2>1, <2>2, <2>3 DEF Returns2
<1>2. /\ ChangePowerMode("wakeup") = P(4, 1) /\ ChangePowerMode("sleep") = P(2, 0)
      /\ ChangePowerMode("unknown") = <<Page(2)>>
  BY DEF ChangePowerMode
<1>3. Returns2(P(4, 1)) /\ Returns2(P(2, 0))
  BY <1>1
<1>4. Returns2(<<Page(2)>>)
  <2>1. <<Page(2)>> \in Programs
    BY PageEntry DEF Programs, Pages
  <2>2. Straight(<<Page(2)>>)
    BY DEF Straight, Page, WrByte
  <2>3. Restores(<<Page(2)>>)
    BY DEF Restores
  <2> QED BY <2>1, <2>2, <2>3 DEF Returns2
<1> QED BY <1>2, <1>3, <1>4

LEMMA UndoStopReturns == Returns2(UndoStop)
<1>1. UndoStop \in Programs
  BY PageEntry, StopEntry, PowerEntry DEF UndoStop, Programs, Pages
<1>2. Straight(UndoStop)
  BY DEF UndoStop, Straight, Page, WrByte
<1>3. Restores(UndoStop)
  <2>1. UndoStop[5] = Page(2) /\ Len(UndoStop) = 5
    BY DEF UndoStop
  <2> QED BY <2>1 DEF Restores
<1> QED BY <1>1, <1>2, <1>3 DEF Returns2

LEMMA ProvokeStopReturns == Returns2(ProvokeStop \o UndoStop)
<1>1. ProvokeStop \in Programs
  BY PageEntry, StopEntry, PollEntry DEF ProvokeStop, Programs, Pages
<1>2. Straight(ProvokeStop)
  BY DEF ProvokeStop, Straight, Page, WrByte, Poll
<1> QED BY <1>1, <1>2, UndoStopReturns, Returns2Join

LEMMA StartReturns == Returns2(StartRanging)
<1> DEFINE D == Exchange("dci")
           P == <<Page(0), WrByte("power", 5), Page(2)>>
<1>1. Stays(D) /\ Stays(Exchange("start")) /\ Stays(<<RdByte("data")>>)
  BY ExchangeStays, DataStays DEF Commands
<1>2. Stays(D \o <<RdByte("data")>> \o D \o D \o D)
  <2> HIDE DEF D
  <2>1. Stays(D \o <<RdByte("data")>>)
    BY <1>1, StaysJoin
  <2>2. Stays(D \o <<RdByte("data")>> \o D)
    BY <1>1, <2>1, StaysJoin
  <2>3. Stays(D \o <<RdByte("data")>> \o D \o D)
    BY <1>1, <2>2, StaysJoin
  <2> QED BY <1>1, <2>3, StaysJoin
<1>3. Returns2(P)
  <2>1. P \in Programs
    BY PageEntry, PowerEntry DEF Programs, Pages
  <2>2. Straight(P)
    BY DEF Straight, Page, WrByte
  <2>3. Restores(P)
    <3>1. P[3] = Page(2) /\ Len(P) = 3
      OBVIOUS
    <3> QED BY <3>1 DEF Restores
  <2> QED BY <2>1, <2>2, <2>3 DEF Returns2
<1> HIDE DEF D, P
<1>4. Returns2(D \o <<RdByte("data")>> \o D \o D \o D \o P)
  BY <1>2, <1>3, Returns2Join DEF Stays
<1>5. Returns2(D \o <<RdByte("data")>> \o D \o D \o D \o P \o Exchange("start"))
  BY <1>1, <1>4, Returns2Stays
<1> QED BY <1>5 DEF StartRanging, D, P

\* The parts of init.
LEMMA InitParts ==
  /\ Reboot \in Programs /\ Straight(Reboot)
  /\ Unlock \in Programs /\ Straight(Unlock)
  /\ Download \in Programs /\ Straight(Download)
<1>1. Reboot \in Programs
  BY PageEntry, ReadEntry, PollEntry, PowerEntry, PlainEntry DEF Reboot, Programs, Pages
<1>2. Unlock \in Programs
  BY PageEntry, PollEntry, PlainEntry DEF Unlock, Programs, Pages
<1>3. Download \in Programs
  BY PageEntry, ImageEntry DEF Download, Programs, Pages, ImagePages
<1>4. Straight(Reboot)
  BY DEF Reboot, Straight, Page, WrByte, RdByte, Poll
<1>5. Straight(Unlock)
  BY DEF Unlock, Straight, Page, WrByte, Poll
<1>6. Straight(Download)
  BY DEF Download, Straight, Page, WrByte
<1> QED BY <1>1, <1>2, <1>3, <1>4, <1>5, <1>6

LEMMA BootReturns == Returns2(Boot)
<1>1. Boot \in Programs
  BY PageEntry, PollEntry, PlainEntry DEF Boot, Programs, Pages
<1>2. Straight(Boot)
  BY DEF Boot, Straight, Page, WrByte, Poll
<1>3. Restores(Boot)
  <2>1. Boot[5] = Page(2) /\ Len(Boot) = 5
    BY DEF Boot
  <2> QED BY <2>1 DEF Restores
<1> QED BY <1>1, <1>2, <1>3 DEF Returns2

LEMMA ConfigureStays == Stays(Configure)
<1>1. /\ Stays(Exchange("nvm")) /\ Stays(<<RdByte("data")>>) /\ Stays(Exchange("offset"))
      /\ Stays(Exchange("xtalk")) /\ Stays(Exchange("config")) /\ Stays(Exchange("pipe"))
      /\ Stays(Exchange("single"))
  BY ExchangeStays, DataStays DEF Commands, Settings
<1>2. Stays(Exchange("nvm") \o <<RdByte("data")>>)
  BY <1>1, StaysJoin
<1>3. Stays(Exchange("nvm") \o <<RdByte("data")>> \o Exchange("offset"))
  BY <1>1, <1>2, StaysJoin
<1>4. Stays(Exchange("nvm") \o <<RdByte("data")>> \o Exchange("offset") \o Exchange("xtalk"))
  BY <1>1, <1>3, StaysJoin
<1>5. Stays(Exchange("nvm") \o <<RdByte("data")>> \o Exchange("offset") \o Exchange("xtalk")
              \o Exchange("config"))
  BY <1>1, <1>4, StaysJoin
<1>6. Stays(Exchange("nvm") \o <<RdByte("data")>> \o Exchange("offset") \o Exchange("xtalk")
              \o Exchange("config") \o Exchange("pipe"))
  BY <1>1, <1>5, StaysJoin
<1> QED BY <1>1, <1>6, StaysJoin DEF Configure

LEMMA InitReturns == Returns2(InitSensor)
<1> DEFINE S == <<Page(0), WrByte("setup", 0), Page(1), WrByte("wake", 6)>>
<1>1. S \in Programs /\ Straight(S)
  <2>1. S \in Programs
    BY PageEntry, PlainEntry DEF Programs, Pages
  <2>2. Straight(S)
    BY DEF Straight, Page, WrByte
  <2> QED BY <2>1, <2>2
<1> HIDE DEF S
<1> DEFINE A == Reboot \o Unlock
           B == A \o S
           C == B \o Download
           D == C \o Unlock
<1>2. A \in Programs /\ Straight(A)
  BY InitParts, JoinIndex, JoinStraight
<1> HIDE DEF A
<1>3. B \in Programs /\ Straight(B)
  BY <1>1, <1>2, JoinIndex, JoinStraight
<1> HIDE DEF B
<1>4. C \in Programs /\ Straight(C)
  BY <1>3, InitParts, JoinIndex, JoinStraight
<1> HIDE DEF C
<1>5. D \in Programs /\ Straight(D)
  BY <1>4, InitParts, JoinIndex, JoinStraight
<1> HIDE DEF D
<1>6. Returns2(D \o Boot)
  BY <1>5, BootReturns, Returns2Join
<1>7. Returns2(D \o Boot \o Configure)
  BY <1>6, ConfigureStays, Returns2Stays
<1> QED BY <1>7 DEF InitSensor, A, B, C, D, S

\* A function of which one of its lines is left to decide, and the rest.
LEMMA SetPowerShape ==
  ASSUME NEW name \in {"sleep", "wakeup", "unknown"}
  PROVE  SetPowerMode(name) \in Programs /\ Shape(SetPowerMode(name)) /\ Restores(SetPowerMode(name))
<1>1. Decide(name) \in Entry /\ <<Decide(name)>> \in Programs
  BY DecideEntry DEF Programs
<1>2. Quiet(<<Decide(name)>>)
  BY DEF Quiet, PageWrite, Decide
<1> QED BY <1>1, <1>2, GetPowerReturns, JoinIndex, JoinShape, RestoresJoin DEF Returns2, SetPowerMode

LEMMA StopShape == StopRanging \in Programs /\ Shape(StopRanging) /\ Stops(StopRanging)
<1>1. StopRanging \in Programs
  BY ReadEntry, DecideEntry DEF StopRanging, Programs
<1> QED BY <1>1 DEF StopRanging, Shape, Stops, RdByte, Decide

LEMMA StraightShape == \A p : Straight(p) => Shape(p)
BY DEF Straight, Shape

\* What a call begins with.
LEMMA BodyShape ==
  ASSUME NEW c \in Calls
  PROVE  Body[c] \in Programs /\ Shape(Body[c]) /\ (Restores(Body[c]) \/ Stops(Body[c]))
<1>1. CASE c \in {"is_alive", "init", "same_address", "new_address", "get_power", "start"}
  <2>1. /\ Body["is_alive"] = IsAlive /\ Body["init"] = InitSensor
        /\ Body["same_address"] = SetAddress(TRUE) /\ Body["new_address"] = SetAddress(FALSE)
        /\ Body["get_power"] = GetPowerMode /\ Body["start"] = StartRanging
    BY DEF Body
  <2>2. Returns2(Body[c])
    BY <1>1, <2>1, IsAliveReturns, InitReturns, SetAddressReturns, GetPowerReturns, StartReturns
  <2> QED BY <2>2, StraightShape DEF Returns2
<1>2. CASE c \in {"sleep", "wakeup", "unknown_mode"}
  <2>1. /\ Body["sleep"] = SetPowerMode("sleep") /\ Body["wakeup"] = SetPowerMode("wakeup")
        /\ Body["unknown_mode"] = SetPowerMode("unknown")
    BY DEF Body
  <2> QED BY <1>2, <2>1, SetPowerShape
<1>3. CASE c = "stop"
  BY <1>3, StopShape DEF Body
<1> QED BY <1>1, <1>2, <1>3 DEF Calls
-----------------------------------------------------------------------------
(* Types are kept.                                                          *)

RegsType == [power : {2, 4, 5}, stop : {0, 1}, mode : {0, 22}]

\* The sensor and the call, without the Booleans.
TypeS ==
  /\ page \in Pages /\ regs \in RegsType
  /\ command \in Commands \cup {"none"}
  /\ mcu \in {"down", "rom", "held", "starting", "app"}
  /\ image \subseteq ImagePages /\ accepted \subseteq Settings
TypeC ==
  /\ call \in Calls \cup {"none"} /\ prog \in Programs
  /\ status \in {"ok", "error"} /\ tmp \in PowerValues
  /\ known \in {"fresh", "alive", "awake", "asleep", "started"}
TypeB ==
  /\ awake \in BOOLEAN /\ halted \in BOOLEAN /\ ranging \in BOOLEAN
  /\ autostop \in BOOLEAN /\ foreign \in BOOLEAN /\ open \in BOOLEAN /\ here \in BOOLEAN
  /\ entry \in BOOLEAN

LEMMA HeadEntry ==
  ASSUME prog \in Programs, prog # <<>>
  PROVE  /\ Head(prog) = <<Head(prog)[1], Reg, Value>> /\ Head(prog) \in Entry
         /\ Tail(prog) \in Programs
<1>1. Head(prog) \in Entry /\ Tail(prog) \in Programs
  BY TailIndex
<1>2. Head(prog) \in Kinds \X Names \X Nat
  BY <1>1 DEF Entry
<1> QED BY <1>1, <1>2 DEF Reg, Value

LEMMA WriteValues ==
  ASSUME prog \in Programs, At("wr")
  PROVE  /\ Reg = "page" => Value \in Pages
         /\ Reg = "power" => Value \in {2, 4, 5}
         /\ Reg = "stop" => Value \in {0, 1}
         /\ Reg = "mode" => Value \in {0, 22}
         /\ Reg = "image" => Value \in ImagePages
BY HeadEntry DEF At, Entry, Reg, Value

LEMMA StoreType ==
  ASSUME TypeS, NEW r, NEW v, Store(r, v),
         r = "page" => v \in Pages, r = "power" => v \in {2, 4, 5}, r = "stop" => v \in {0, 1},
         r = "mode" => v \in {0, 22}, r = "image" => v \in ImagePages
  PROVE  TypeS'
<1>1. page' \in Pages
  BY DEF Store, TypeS
<1>2. regs' \in RegsType
  <2>1. PowerOn \in RegsType
    BY DEF PowerOn, RegsType
  <2>2. DOMAIN regs = {"power", "stop", "mode"}
    BY DEF TypeS, RegsType
  <2>3. ASSUME r \in DOMAIN regs PROVE [regs EXCEPT ![r] = v] \in RegsType
    BY <2>2, <2>3 DEF TypeS, RegsType
  <2> QED BY <2>1, <2>3 DEF Store, TypeS
<1>3. command' \in Commands \cup {"none"}
  BY DEF Store, TypeS
<1>4. mcu' \in {"down", "rom", "held", "starting", "app"}
  BY DEF Store, TypeS
<1>5. image' \subseteq ImagePages /\ accepted' \subseteq Settings
  BY DEF Store, TypeS
<1> QED BY <1>1, <1>2, <1>3, <1>4, <1>5 DEF TypeS

LEMMA MissedType ==
  ASSUME TypeS, TypeC, prog # <<>>, Missed, status' \in {"ok", "error"}
  PROVE  TypeS' /\ TypeC'
<1>1. TypeS'
  <2>1. CASE UNCHANGED <<page, sensor>>
    BY <2>1 DEF TypeS, sensor, firmware
  <2>2. CASE At("wr") /\ Store(Reg, Value)
    BY <2>2, WriteValues, StoreType DEF TypeC
  <2> QED BY <2>1, <2>2 DEF Missed
<1>2. prog' \in Programs
  BY HeadEntry DEF Missed, TypeC, Advance
<1>3. tmp' \in PowerValues
  BY DEF Missed, TypeC, PowerValues
<1> QED BY <1>1, <1>2, <1>3 DEF Missed, TypeC

LEMMA TypesInductive == TypeS /\ TypeC /\ [Next]_vars => TypeS' /\ TypeC'
<1> SUFFICES ASSUME TypeS, TypeC, [Next]_vars PROVE TypeS' /\ TypeC'
  OBVIOUS
<1> USE DEF sensor, firmware
<1>1. CASE Write
  <2>1. TypeS'
    BY <1>1, WriteValues, StoreType DEF Write, TypeC
  <2>2. prog' \in Programs
    BY <1>1, HeadEntry DEF Write, At, Advance, TypeC
  <2> QED BY <1>1, <2>1, <2>2 DEF Write, TypeC
<1>2. CASE Read
  <2>1. prog' \in Programs
    BY <1>2, HeadEntry DEF Read, At, Advance, TypeC
  <2>2. tmp' \in PowerValues /\ status' \in {"ok", "error"}
    <3>1. regs.power \in PowerValues
      BY DEF TypeS, RegsType, PowerValues
    <3> QED BY <1>2, <3>1 DEF Read, TypeC, PowerValues
  <2> QED BY <1>2, <2>1, <2>2 DEF Read, TypeS, TypeC
<1>3. CASE PollDone \/ AnswerDone
  BY <1>3, HeadEntry DEF PollDone, AnswerDone, At, Advance, TypeS, TypeC
<1>4. CASE Send
  <2>1. prog' \in Programs
    BY <1>4, HeadEntry DEF Send, At, Advance, TypeC
  <2>2. Reg \in Commands
    BY <1>4, HeadEntry DEF Send, At, TypeC, Entry, Reg
  <2> QED BY <1>4, <2>1, <2>2 DEF Send, TypeS, TypeC
<1>5. CASE Branch
  <2>1. prog' \in Programs
    <3>1. UndoStop \in Programs /\ ProvokeStop \o UndoStop \in Programs /\ <<>> \in Programs
      BY UndoStopReturns, ProvokeStopReturns DEF Returns2, Programs
    <3>2. \A name : ChangePowerMode(name) \in Programs
      <4>1. \A name : \E known_ \in {"sleep", "wakeup", "unknown"} :
                        ChangePowerMode(name) = ChangePowerMode(known_)
        BY DEF ChangePowerMode
      <4> QED BY <4>1, ChangePowerReturns DEF Returns2
    <3> QED BY <1>5, <3>1, <3>2 DEF Branch
  <2> QED BY <1>5, <2>1 DEF Branch, TypeS, TypeC
<1>6. CASE Return
  BY <1>6 DEF Return, TypeS, TypeC
<1>7. CASE Deaf \/ Fault
  BY <1>7, MissedType DEF Deaf, Fault
<1>8. CASE Late
  BY <1>8 DEF Late, TypeS, TypeC
<1>9. CASE Restart
  BY <1>9 DEF Restart, TypeS, TypeC, Programs
<1>10. CASE Device \/ AutoStop
  <2>1. TypeS'
    BY <1>10 DEF Device, WakeOrSleep, HaltOrGo, Answer, BootUp, AutoStop, TypeS
  <2>2. UNCHANGED <<call, prog, status, tmp, known>>
    BY <1>10 DEF Device, WakeOrSleep, HaltOrGo, Answer, BootUp, AutoStop
  <2> QED BY <2>1, <2>2 DEF TypeC
<1>11. ASSUME NEW c \in Calls, Call(c) PROVE TypeS' /\ TypeC'
  BY <1>11, BodyShape DEF Call, TypeS, TypeC
<1>12. CASE UNCHANGED vars
  BY <1>12 DEF vars, TypeS, TypeC
<1> QED
  BY <1>1, <1>2, <1>3, <1>4, <1>5, <1>6, <1>7, <1>8, <1>9, <1>10, <1>11, <1>12 DEF Next, Access

LEMMA StoreBooleans ==
  ASSUME TypeB, NEW r, NEW v, Store(r, v)
  PROVE  /\ awake' \in BOOLEAN /\ halted' \in BOOLEAN /\ ranging' \in BOOLEAN
         /\ autostop' \in BOOLEAN /\ foreign' \in BOOLEAN /\ open' \in BOOLEAN /\ here' \in BOOLEAN
<1>1. awake' \in BOOLEAN /\ halted' \in BOOLEAN /\ ranging' \in BOOLEAN /\ autostop' \in BOOLEAN
  BY DEF Store
<1>2. open' \in BOOLEAN
  BY DEF Store
<1>3. here' \in BOOLEAN
  <2>1. here' = IF r = "address" /\ page = 0 THEN v = 1 ELSE here
    BY DEF Store
  <2>2. CASE r = "address" /\ page = 0
    <3>1. here' = (v = 1)
      BY <2>1, <2>2, Zenon
    <3> QED BY <3>1, Zenon
  <2>3. CASE ~(r = "address" /\ page = 0)
    <3>1. here' = here
      BY <2>1, <2>3, Zenon
    <3> QED BY <3>1, Zenon DEF TypeB
  <2> QED BY <2>2, <2>3
<1>4. foreign' \in BOOLEAN
  BY DEF Store, TypeB
<1> QED BY <1>1, <1>2, <1>3, <1>4

LEMMA MissedBooleans == TypeB /\ Missed => TypeB'
<1> SUFFICES ASSUME TypeB, Missed PROVE TypeB'
  OBVIOUS
<1>1. entry' = entry
  BY DEF Missed
<1>2. CASE UNCHANGED <<page, sensor>>
  BY <1>1, <1>2 DEF TypeB, sensor, firmware
<1>3. CASE Store(Reg, Value)
  BY <1>1, <1>3, StoreBooleans DEF TypeB
<1> QED BY <1>2, <1>3 DEF Missed

LEMMA BooleansInductive == TypeB /\ [Next]_vars => TypeB'
<1> SUFFICES ASSUME TypeB, [Next]_vars PROVE TypeB'
  OBVIOUS
<1>1. CASE Write
  BY <1>1, StoreBooleans DEF Write, TypeB
<1>2. CASE Read \/ PollDone \/ Send \/ AnswerDone \/ Branch \/ Return \/ Late \/ Restart
  BY <1>2 DEF Read, PollDone, Send, AnswerDone, Branch, Return, Late, Restart, sensor, firmware, TypeB
<1>3. CASE Deaf \/ Fault
  BY <1>3, MissedBooleans DEF Deaf, Fault
<1>4. CASE Device \/ AutoStop
  BY <1>4 DEF Device, WakeOrSleep, HaltOrGo, Answer, BootUp, AutoStop, firmware, TypeB
<1>5. ASSUME NEW c \in Calls, Call(c) PROVE TypeB'
  BY <1>5 DEF Call, sensor, firmware, TypeB
<1>6. CASE UNCHANGED vars
  BY <1>6 DEF vars, sensor, firmware, TypeB
<1> QED BY <1>1, <1>2, <1>3, <1>4, <1>5, <1>6 DEF Next, Access

TypeF == faults \in 0 .. MaxFaults

LEMMA FaultsInductive == TypeF /\ [Next]_vars => TypeF'
<1> SUFFICES ASSUME TypeF, [Next]_vars PROVE TypeF'
  OBVIOUS
<1>1. CASE Fault
  BY <1>1, FaultsAssumption DEF Fault, TypeF
<1>2. CASE ~Fault
  <2>1. faults' = faults
    BY <1>2 DEF Next, vars, Access, Device, Write, Read, PollDone, Send, AnswerDone, Branch, Return,
                Deaf, Late, Restart, WakeOrSleep, HaltOrGo, Answer, BootUp, AutoStop, Call
  <2> QED BY <2>1 DEF TypeF
<1> QED BY <1>1, <1>2

LEMMA InitTypes == Init => TypeS /\ TypeC /\ TypeB /\ TypeF
<1> SUFFICES ASSUME Init PROVE TypeS /\ TypeC /\ TypeB /\ TypeF
  OBVIOUS
<1>1. TypeS
  BY DEF Init, TypeS, Pages, RegsType, PowerOn
<1>2. TypeC
  BY DEF Init, TypeC, PowerValues, Programs
<1>3. TypeB
  BY Zenon DEF Init, TypeB
<1>4. TypeF
  BY FaultsAssumption DEF Init, TypeF
<1> QED BY <1>1, <1>2, <1>3, <1>4

LEMMA ProgramsType == Programs \subseteq Seq({"wr", "rd", "poll", "cmd", "answer", "decide"} \X Names \X Nat)
<1>1. Entry \subseteq {"wr", "rd", "poll", "cmd", "answer", "decide"} \X Names \X Nat
  BY DEF Entry, Kinds
<1> QED BY <1>1 DEF Programs

\* Every variable keeps its type: no call, failure or restart puts anything
\* else into a register of the sensor or the rest of a function.
THEOREM TypeCorrect == Spec => []TypeOK
<1>1. TypeS /\ TypeC /\ TypeB /\ TypeF /\ [Next]_vars => (TypeS /\ TypeC /\ TypeB /\ TypeF)'
  BY TypesInductive, BooleansInductive, FaultsInductive
<1>2. TypeS /\ TypeC /\ TypeB /\ TypeF => TypeOK
  <2> SUFFICES ASSUME TypeS, TypeC, TypeB, TypeF PROVE TypeOK
    OBVIOUS
  <2>1. prog \in Seq({"wr", "rd", "poll", "cmd", "answer", "decide"} \X Names \X Nat)
    BY ProgramsType DEF TypeC
  <2> QED BY <2>1 DEF TypeOK, TypeS, TypeC, TypeB, TypeF, RegsType
<1> QED BY <1>1, <1>2, InitTypes, PTL DEF Spec
-----------------------------------------------------------------------------
(* The page.                                                                *)

\* While nothing has failed, page 2 is still to be selected, or it is and no
\* other will be, or stop_ranging has yet to decide, and comes back either way.
PInv ==
  call # "none" /\ status = "ok" =>
    Shape(prog) /\ (Restores(prog) \/ (Quiet(prog) /\ page = 2) \/ Stops(prog))

LEMMA BranchStep ==
  ASSUME prog \in Programs, PInv, call # "none", status = "ok", Branch
  PROVE  PInv'
<1>1. Shape(prog) /\ Len(prog) = 1 /\ prog[1] = Head(prog) /\ Head(prog)[1] = "decide"
  <2>1. prog # <<>> /\ Head(prog)[1] = "decide"
    BY DEF Branch, At
  <2>2. Shape(prog)
    BY DEF PInv
  <2>3. Head(prog) = prog[1] /\ Len(prog) \in Nat /\ Len(prog) >= 1
    BY <2>1, TailIndex
  <2>4. 1 \in 1 .. Len(prog)
    BY <2>3
  <2>5. 1 = Len(prog)
    BY <2>1, <2>2, <2>3, <2>4 DEF Shape
  <2> QED BY <2>1, <2>2, <2>3, <2>5
<1>2. CASE Reg = "stop"
  <2>1. Returns2(prog')
    BY <1>2, UndoStopReturns, ProvokeStopReturns DEF Branch
  <2> QED BY <2>1, StraightShape DEF PInv, Returns2
<1>3. CASE Reg # "stop"
  <2>1. ~Stops(prog)
    BY <1>1, <1>3 DEF Stops, Decide, Reg
  <2>2. ~Restores(prog)
    BY <1>1 DEF Restores, Page, WrByte
  <2>3. page' = 2
    BY <2>1, <2>2 DEF PInv, Branch
  <2>4. CASE prog' = <<>>
    BY <2>3, <2>4 DEF PInv, Quiet, Shape
  <2>5. CASE prog' = ChangePowerMode(Reg)
    <3>1. \E known_ \in {"sleep", "wakeup", "unknown"} : ChangePowerMode(Reg) = ChangePowerMode(known_)
      BY DEF ChangePowerMode
    <3>2. Returns2(prog')
      BY <2>5, <3>1, ChangePowerReturns
    <3> QED BY <3>2, StraightShape DEF PInv, Returns2
  <2> QED BY <1>3, <2>4, <2>5 DEF Branch
<1> QED BY <1>2, <1>3

\* An access that is done, but a condition: only a page register write moves the page.
LEMMA AdvanceStep ==
  ASSUME prog \in Programs, prog # <<>>, PInv, call # "none", status = "ok",
         Head(prog)[1] # "decide", prog' = Tail(prog),
         page' = IF PageWrite(Head(prog)) THEN Head(prog)[3] ELSE page
  PROVE  PInv'
<1>1. Shape(prog')
  BY TailShape DEF PInv
<1>2. CASE Restores(prog)
  <2>1. CASE Restores(Tail(prog))
    BY <1>1, <2>1 DEF PInv
  <2>2. CASE Head(prog) = Page(2) /\ Quiet(Tail(prog))
    <3>1. page' = 2
      BY <2>2 DEF Page, WrByte, PageWrite
    <3> QED BY <1>1, <2>2, <3>1 DEF PInv
  <2> QED BY <1>2, <2>1, <2>2, TailRestores
<1>3. CASE Quiet(prog) /\ page = 2
  <2>1. ~PageWrite(Head(prog)) /\ Quiet(Tail(prog))
    BY <1>3, TailIndex, TailShape DEF Quiet
  <2> QED BY <1>1, <1>3, <2>1 DEF PInv
<1>4. CASE Stops(prog)
  BY <1>1, <1>4, TailShape DEF PInv
<1> QED BY <1>2, <1>3, <1>4 DEF PInv

LEMMA PageInductive == TypeC /\ PInv /\ [Next]_vars => PInv'
<1> SUFFICES ASSUME TypeC, PInv, [Next]_vars, call' # "none", status' = "ok"
             PROVE  PInv'
  BY DEF PInv
<1> USE DEF sensor, firmware
<1>0. prog \in Programs
  BY DEF TypeC
<1>1. CASE Write /\ call # "none"
  <2>1. status = "ok" /\ prog # <<>> /\ prog' = Tail(prog) /\ Head(prog)[1] = "wr"
    BY <1>1 DEF Write, At, Advance
  <2>2. page' = IF PageWrite(Head(prog)) THEN Head(prog)[3] ELSE page
    BY <1>1, <2>1 DEF Write, Store, PageWrite, Reg, Value
  <2> QED BY <1>0, <1>1, <2>1, <2>2, AdvanceStep
<1>2. CASE (Read \/ PollDone \/ Send \/ AnswerDone) /\ call # "none"
  <2>1. status = "ok"
    BY <1>2 DEF Read, PollDone, Send, AnswerDone
  <2>2. prog # <<>> /\ prog' = Tail(prog) /\ Head(prog)[1] \in {"rd", "poll", "cmd", "answer"}
    BY <1>2 DEF Read, PollDone, Send, AnswerDone, At, Advance
  <2>3. page' = IF PageWrite(Head(prog)) THEN Head(prog)[3] ELSE page
    BY <1>2, <2>2 DEF Read, PollDone, Send, AnswerDone, PageWrite
  <2> QED BY <1>0, <1>2, <2>1, <2>2, <2>3, AdvanceStep
<1>3. CASE Branch /\ call # "none"
  BY <1>0, <1>3, BranchStep DEF Branch
<1>4. CASE Return \/ Restart \/ Deaf \/ Fault \/ Late
  BY <1>4 DEF Return, Restart, Deaf, Fault, Late
<1>5. CASE Device \/ AutoStop \/ UNCHANGED vars
  <2>1. UNCHANGED <<call, status, prog, page>>
    BY <1>5 DEF Device, WakeOrSleep, HaltOrGo, Answer, BootUp, AutoStop, vars
  <2> QED BY <2>1 DEF PInv
<1>6. ASSUME NEW c \in Calls, Call(c) PROVE PInv'
  BY <1>6, BodyShape DEF Call, PInv
<1>7. (Write \/ Read \/ PollDone \/ Send \/ AnswerDone \/ Branch) => call # "none"
  BY DEF Write, Read, PollDone, Send, AnswerDone, Branch
<1> QED BY <1>1, <1>2, <1>3, <1>4, <1>5, <1>6, <1>7 DEF Next, Access

\* Whatever failed before and wherever an earlier program ended: a function
\* that returns 0 leaves page 2 selected, which the next one counts on.
THEOREM PageIsRestored == Spec => []PageRestored
<1>1. Init => PInv
  BY DEF Init, PInv
<1>2. TypeS /\ TypeC /\ PInv /\ [Next]_vars => (TypeS /\ TypeC /\ PInv)'
  BY PageInductive, TypesInductive
<1>3. PInv => PageRestored
  <2> SUFFICES ASSUME PInv, NEW c \in Calls, Returned(c) PROVE page = 2
    BY DEF PageRestored
  <2>1. prog = <<>> /\ call # "none" /\ status = "ok"
    BY DEF Returned, Calls
  <2>2. ~Restores(prog) /\ ~Stops(prog)
    BY <2>1 DEF Restores, Stops
  <2> QED BY <2>1, <2>2 DEF PInv
<1> QED BY <1>1, <1>2, <1>3, InitTypes, PTL DEF Spec
-----------------------------------------------------------------------------
(* The stop request.                                                        *)

StopWrite(e) == e[1] = "wr" /\ e[2] = "stop" /\ e[3] = 1
StopDecision(e) == e[1] = "decide" /\ e[2] = "stop"

\* No stop is requested, and none will be decided.
Gentle(p) == \A m \in 1 .. Len(p) : ~StopWrite(p[m]) /\ ~StopDecision(p[m])

\* The accesses that take a stop request back, on page 0.
Clearing(e) == e[1] = "wr" /\ (e[2] = "reboot" \/ (e[2] = "stop" /\ e[3] = 0))

\* One of them follows with no page selected before it, or after page 0 is selected;
\* what comes then is gentle.
ClearsHere(p) ==
  \E k \in 1 .. Len(p) :
    /\ Clearing(p[k])
    /\ \A m \in 1 .. k - 1 : ~PageWrite(p[m])
    /\ \A m \in k + 1 .. Len(p) : ~StopWrite(p[m]) /\ ~StopDecision(p[m])
Clears(p) ==
  \E j \in 1 .. Len(p), k \in 1 .. Len(p) :
    /\ j < k /\ p[j] = Page(0) /\ Clearing(p[k])
    /\ \A m \in j + 1 .. k - 1 : ~PageWrite(p[m])
    /\ \A m \in k + 1 .. Len(p) : ~StopWrite(p[m]) /\ ~StopDecision(p[m])

\* The only condition is that of stop_ranging.
OnlyStops(p) == \A m \in 1 .. Len(p) : p[m][1] = "decide" => p[m][2] = "stop"

LEMMA JoinGentle ==
  ASSUME NEW p \in Programs, NEW q \in Programs, Gentle(p), Gentle(q)
  PROVE  Gentle(p \o q)
<1> SUFFICES ASSUME NEW m \in 1 .. Len(p \o q)
             PROVE  ~StopWrite((p \o q)[m]) /\ ~StopDecision((p \o q)[m])
  BY DEF Gentle
<1>1. CASE m \in 1 .. Len(p)
  BY <1>1, JoinIndex DEF Gentle
<1>2. CASE m - Len(p) \in 1 .. Len(q) /\ (p \o q)[m] = q[m - Len(p)]
  BY <1>2 DEF Gentle
<1> QED BY <1>1, <1>2, JoinIndex

LEMMA TailGentle ==
  ASSUME NEW p \in Programs, p # <<>>
  PROVE  /\ Gentle(p) => Gentle(Tail(p)) /\ ~StopWrite(Head(p))
         /\ OnlyStops(p) => OnlyStops(Tail(p))
<1>1. Gentle(p) => Gentle(Tail(p)) /\ ~StopWrite(Head(p))
  BY TailIndex DEF Gentle
<1>2. OnlyStops(p) => OnlyStops(Tail(p))
  BY TailIndex DEF OnlyStops
<1> QED BY <1>1, <1>2

LEMMA TailClearsHere ==
  ASSUME NEW p \in Programs, p # <<>>, ClearsHere(p)
  PROVE  (Clearing(Head(p)) /\ Gentle(Tail(p))) \/ (~PageWrite(Head(p)) /\ ClearsHere(Tail(p)))
<1>1. PICK k \in 1 .. Len(p) :
        /\ Clearing(p[k])
        /\ \A m \in 1 .. k - 1 : ~PageWrite(p[m])
        /\ \A m \in k + 1 .. Len(p) : ~StopWrite(p[m]) /\ ~StopDecision(p[m])
  BY DEF ClearsHere
<1>2. CASE k = 1
  BY <1>1, <1>2, TailIndex DEF Gentle
<1>3. CASE k # 1
  <2>1. k - 1 \in 1 .. Len(Tail(p)) /\ Tail(p)[k - 1] = p[k]
    BY <1>1, <1>3, TailIndex
  <2>2. \A m \in 1 .. (k - 1) - 1 : ~PageWrite(Tail(p)[m])
    BY <1>1, <1>3, TailIndex
  <2>3. \A m \in (k - 1) + 1 .. Len(Tail(p)) : ~StopWrite(Tail(p)[m]) /\ ~StopDecision(Tail(p)[m])
    BY <1>1, <1>3, TailIndex
  <2>4. ~PageWrite(Head(p))
    BY <1>1, <1>3, TailIndex
  <2> QED BY <1>1, <2>1, <2>2, <2>3, <2>4 DEF ClearsHere
<1> QED BY <1>2, <1>3

LEMMA TailClears ==
  ASSUME NEW p \in Programs, p # <<>>, Clears(p)
  PROVE  (Head(p) = Page(0) /\ ClearsHere(Tail(p))) \/ Clears(Tail(p))
<1>1. PICK j \in 1 .. Len(p), k \in 1 .. Len(p) :
        /\ j < k /\ p[j] = Page(0) /\ Clearing(p[k])
        /\ \A m \in j + 1 .. k - 1 : ~PageWrite(p[m])
        /\ \A m \in k + 1 .. Len(p) : ~StopWrite(p[m]) /\ ~StopDecision(p[m])
  BY DEF Clears
<1>0. /\ k - 1 \in 1 .. Len(Tail(p)) /\ Tail(p)[k - 1] = p[k]
      /\ \A m \in (k - 1) + 1 .. Len(Tail(p)) : ~StopWrite(Tail(p)[m]) /\ ~StopDecision(Tail(p)[m])
  BY <1>1, TailIndex
<1>2. CASE j = 1
  <2>1. \A m \in 1 .. (k - 1) - 1 : ~PageWrite(Tail(p)[m])
    BY <1>1, <1>2, TailIndex
  <2> QED BY <1>0, <1>1, <1>2, <2>1, TailIndex DEF ClearsHere
<1>3. CASE j # 1
  <2>1. j - 1 \in 1 .. Len(Tail(p)) /\ j - 1 < k - 1 /\ Tail(p)[j - 1] = p[j]
    BY <1>1, <1>3, TailIndex
  <2>2. \A m \in (j - 1) + 1 .. (k - 1) - 1 : ~PageWrite(Tail(p)[m])
    BY <1>1, <1>3, TailIndex
  <2> QED BY <1>0, <1>1, <2>1, <2>2 DEF Clears
<1> QED BY <1>2, <1>3

LEMMA ClearsJoin ==
  ASSUME NEW p \in Programs, NEW q \in Programs, Clears(p), Gentle(q)
  PROVE  Clears(p \o q)
<1>1. PICK j \in 1 .. Len(p), k \in 1 .. Len(p) :
        /\ j < k /\ p[j] = Page(0) /\ Clearing(p[k])
        /\ \A m \in j + 1 .. k - 1 : ~PageWrite(p[m])
        /\ \A m \in k + 1 .. Len(p) : ~StopWrite(p[m]) /\ ~StopDecision(p[m])
  BY DEF Clears
<1>2. j \in 1 .. Len(p \o q) /\ k \in 1 .. Len(p \o q) /\ (p \o q)[j] = p[j] /\ (p \o q)[k] = p[k]
  <2>1. Len(p) \in Nat /\ Len(q) \in Nat /\ Len(p \o q) = Len(p) + Len(q)
    BY JoinIndex
  <2>2. (p \o q)[j] = p[j] /\ (p \o q)[k] = p[k]
    BY <1>1, JoinIndex
  <2> QED BY <1>1, <2>1, <2>2
<1>3. ASSUME NEW m \in j + 1 .. k - 1 PROVE ~PageWrite((p \o q)[m])
  <2>1. m \in 1 .. Len(p) /\ (p \o q)[m] = p[m]
    BY <1>1, JoinIndex
  <2> QED BY <1>1, <2>1
<1>4. ASSUME NEW m \in k + 1 .. Len(p \o q)
      PROVE  ~StopWrite((p \o q)[m]) /\ ~StopDecision((p \o q)[m])
  <2>1. m \in 1 .. Len(p \o q)
    BY <1>1, JoinIndex
  <2>2. CASE m \in 1 .. Len(p)
    BY <1>1, <2>2, JoinIndex
  <2>3. CASE m - Len(p) \in 1 .. Len(q) /\ (p \o q)[m] = q[m - Len(p)]
    BY <2>3 DEF Gentle
  <2> QED BY <2>1, <2>2, <2>3, JoinIndex
<1> QED BY <1>1, <1>2, <1>3, <1>4 DEF Clears

LEMMA JoinClears ==
  ASSUME NEW p \in Programs, NEW q \in Programs, Clears(q)
  PROVE  Clears(p \o q)
<1>1. PICK j \in 1 .. Len(q), k \in 1 .. Len(q) :
        /\ j < k /\ q[j] = Page(0) /\ Clearing(q[k])
        /\ \A m \in j + 1 .. k - 1 : ~PageWrite(q[m])
        /\ \A m \in k + 1 .. Len(q) : ~StopWrite(q[m]) /\ ~StopDecision(q[m])
  BY DEF Clears
<1>0. /\ Len(p) \in Nat /\ Len(q) \in Nat /\ Len(p \o q) = Len(p) + Len(q)
      /\ \A m \in 1 .. Len(q) : (p \o q)[m + Len(p)] = q[m]
  BY JoinIndex
<1>2. /\ j + Len(p) \in 1 .. Len(p \o q) /\ k + Len(p) \in 1 .. Len(p \o q)
      /\ j + Len(p) < k + Len(p)
      /\ (p \o q)[j + Len(p)] = Page(0) /\ Clearing((p \o q)[k + Len(p)])
  BY <1>0, <1>1
<1>3. ASSUME NEW m \in (j + Len(p)) + 1 .. (k + Len(p)) - 1 PROVE ~PageWrite((p \o q)[m])
  <2>1. m - Len(p) \in j + 1 .. k - 1 /\ (m - Len(p)) + Len(p) = m /\ m - Len(p) \in 1 .. Len(q)
    BY <1>0, <1>1
  <2>2. (p \o q)[(m - Len(p)) + Len(p)] = q[m - Len(p)]
    BY <1>0, <2>1
  <2> QED BY <1>1, <2>1, <2>2
<1>4. ASSUME NEW m \in (k + Len(p)) + 1 .. Len(p \o q)
      PROVE  ~StopWrite((p \o q)[m]) /\ ~StopDecision((p \o q)[m])
  <2>1. m - Len(p) \in k + 1 .. Len(q) /\ (m - Len(p)) + Len(p) = m /\ m - Len(p) \in 1 .. Len(q)
    BY <1>0, <1>1
  <2>2. (p \o q)[(m - Len(p)) + Len(p)] = q[m - Len(p)]
    BY <1>0, <2>1
  <2> QED BY <1>1, <2>1, <2>2
<1> QED BY <1>2, <1>3, <1>4 DEF Clears
-----------------------------------------------------------------------------
(* The functions again: which of them are gentle.                           *)

LEMMA ExchangeGentle == \A c \in Commands : Gentle(Exchange(c))
BY DEF Exchange, Gentle, StopWrite, StopDecision, Decide

LEMMA DataGentle == Gentle(<<RdByte("data")>>)
BY DEF RdByte, Gentle, StopWrite, StopDecision, Decide

LEMMA IsAliveGentle == Gentle(IsAlive)
BY DEF IsAlive, Gentle, StopWrite, StopDecision, Decide, Page, WrByte, RdByte

LEMMA SetAddressGentle == \A same \in BOOLEAN : Gentle(SetAddress(same))
BY DEF SetAddress, Gentle, StopWrite, StopDecision, Decide, Page, WrByte

LEMMA GetPowerGentle == Gentle(GetPowerMode)
BY DEF GetPowerMode, Gentle, StopWrite, StopDecision, Decide, Page, WrByte, RdByte

LEMMA ChangePowerGentle == \A name : Gentle(ChangePowerMode(name))
<1> SUFFICES ASSUME NEW name PROVE Gentle(ChangePowerMode(name))
  OBVIOUS
<1>1. CASE name = "wakeup"
  BY <1>1 DEF ChangePowerMode, Gentle, StopWrite, StopDecision, Decide, Page, WrByte, Poll
<1>2. CASE name # "wakeup"
  BY <1>2 DEF ChangePowerMode, Gentle, StopWrite, StopDecision, Decide, Page, WrByte, Poll
<1> QED BY <1>1, <1>2

LEMMA SetPowerGentle == \A name \in {"sleep", "wakeup", "unknown"} : Gentle(SetPowerMode(name))
<1> SUFFICES ASSUME NEW name \in {"sleep", "wakeup", "unknown"} PROVE Gentle(SetPowerMode(name))
  OBVIOUS
<1>1. <<Decide(name)>> \in Programs /\ Gentle(<<Decide(name)>>)
  BY DecideEntry DEF Programs, Gentle, StopWrite, StopDecision, Decide
<1> QED BY <1>1, GetPowerReturns, GetPowerGentle, JoinGentle DEF SetPowerMode, Returns2

\* A function, or a part of one, that is gentle, and one that is gentle and Stays.
Mild(p) == p \in Programs /\ Gentle(p)

LEMMA MildJoin ==
  ASSUME NEW p, Mild(p), NEW q, Mild(q)
  PROVE  Mild(p \o q)
BY JoinIndex, JoinGentle DEF Mild

LEMMA ExchangeMild == Mild(<<RdByte("data")>>) /\ \A c \in Commands : Mild(Exchange(c))
BY ExchangeGentle, DataGentle, ExchangeType, DataStays DEF Mild, Stays

LEMMA StartMild == Mild(StartRanging)
<1> DEFINE D == Exchange("dci")
           R == <<RdByte("data")>>
           P == <<Page(0), WrByte("power", 5), Page(2)>>
<1>1. Mild(D) /\ Mild(Exchange("start")) /\ Mild(R)
  BY ExchangeMild DEF Commands
<1>2. Mild(P)
  <2>1. P \in Programs
    BY PageEntry, PowerEntry DEF Programs, Pages
  <2>2. Gentle(P)
    BY DEF Gentle, StopWrite, StopDecision, Decide, Page, WrByte
  <2> QED BY <2>1, <2>2 DEF Mild
<1> HIDE DEF D, R, P
<1>3. Mild(D \o R)
  BY <1>1, MildJoin
<1>4. Mild(D \o R \o D)
  BY <1>1, <1>3, MildJoin
<1>5. Mild(D \o R \o D \o D)
  BY <1>1, <1>4, MildJoin
<1>6. Mild(D \o R \o D \o D \o D)
  BY <1>1, <1>5, MildJoin
<1>7. Mild(D \o R \o D \o D \o D \o P)
  BY <1>2, <1>6, MildJoin
<1>8. Mild(D \o R \o D \o D \o D \o P \o Exchange("start"))
  BY <1>1, <1>7, MildJoin
<1> QED BY <1>8 DEF StartRanging, D, R, P

LEMMA ConfigureMild == Mild(Configure)
<1>1. /\ Mild(Exchange("nvm")) /\ Mild(<<RdByte("data")>>) /\ Mild(Exchange("offset"))
      /\ Mild(Exchange("xtalk")) /\ Mild(Exchange("config")) /\ Mild(Exchange("pipe"))
      /\ Mild(Exchange("single"))
  BY ExchangeMild DEF Commands, Settings
<1>2. Mild(Exchange("nvm") \o <<RdByte("data")>>)
  BY <1>1, MildJoin
<1>3. Mild(Exchange("nvm") \o <<RdByte("data")>> \o Exchange("offset"))
  BY <1>1, <1>2, MildJoin
<1>4. Mild(Exchange("nvm") \o <<RdByte("data")>> \o Exchange("offset") \o Exchange("xtalk"))
  BY <1>1, <1>3, MildJoin
<1>5. Mild(Exchange("nvm") \o <<RdByte("data")>> \o Exchange("offset") \o Exchange("xtalk")
             \o Exchange("config"))
  BY <1>1, <1>4, MildJoin
<1>6. Mild(Exchange("nvm") \o <<RdByte("data")>> \o Exchange("offset") \o Exchange("xtalk")
             \o Exchange("config") \o Exchange("pipe"))
  BY <1>1, <1>5, MildJoin
<1> QED BY <1>1, <1>6, MildJoin DEF Configure

LEMMA RebootClears == Clears(Reboot)
<1>1. Len(Reboot) = 6 /\ Reboot[1] = Page(0) /\ Clearing(Reboot[4])
  BY DEF Reboot, Clearing, WrByte
<1>2. \A m \in 2 .. 3 : ~PageWrite(Reboot[m])
  BY DEF Reboot, PageWrite, WrByte, RdByte
<1>3. \A m \in 5 .. 6 : ~StopWrite(Reboot[m]) /\ ~StopDecision(Reboot[m])
  BY DEF Reboot, StopWrite, StopDecision, Decide, Page, Poll, WrByte
<1> QED BY <1>1, <1>2, <1>3 DEF Clears

LEMMA InitClears == Clears(InitSensor)
<1> DEFINE S == <<Page(0), WrByte("setup", 0), Page(1), WrByte("wake", 6)>>
<1>1. Mild(S)
  <2>1. S \in Programs
    BY PageEntry, PlainEntry DEF Programs, Pages
  <2>2. Gentle(S)
    BY DEF Gentle, StopWrite, StopDecision, Decide, Page, WrByte
  <2> QED BY <2>1, <2>2 DEF Mild
<1>2. Mild(Unlock) /\ Mild(Download) /\ Mild(Boot)
  <2>1. Gentle(Unlock)
    BY DEF Unlock, Gentle, StopWrite, StopDecision, Decide, Page, WrByte, Poll
  <2>2. Gentle(Download)
    BY DEF Download, Gentle, StopWrite, StopDecision, Decide, Page, WrByte
  <2>3. Gentle(Boot)
    BY DEF Boot, Gentle, StopWrite, StopDecision, Decide, Page, WrByte, Poll
  <2> QED BY <2>1, <2>2, <2>3, InitParts, BootReturns DEF Mild, Returns2
<1> HIDE DEF S
<1> DEFINE A == Reboot \o Unlock
           B == A \o S
           C == B \o Download
           D == C \o Unlock
           E == D \o Boot
<1>3. A \in Programs /\ Clears(A)
  BY <1>2, InitParts, RebootClears, ClearsJoin, JoinIndex DEF Mild
<1> HIDE DEF A
<1>4. B \in Programs /\ Clears(B)
  BY <1>1, <1>3, ClearsJoin, JoinIndex DEF Mild
<1> HIDE DEF B
<1>5. C \in Programs /\ Clears(C)
  BY <1>2, <1>4, ClearsJoin, JoinIndex DEF Mild
<1> HIDE DEF C
<1>6. D \in Programs /\ Clears(D)
  BY <1>2, <1>5, ClearsJoin, JoinIndex DEF Mild
<1> HIDE DEF D
<1>7. E \in Programs /\ Clears(E)
  BY <1>2, <1>6, ClearsJoin, JoinIndex DEF Mild
<1> HIDE DEF E
<1>8. Clears(E \o Configure)
  BY <1>7, ConfigureMild, ClearsJoin DEF Mild
<1> QED BY <1>8 DEF InitSensor, A, B, C, D, E, S

LEMMA UndoStopClears == Clears(UndoStop) /\ Clears(ProvokeStop \o UndoStop)
<1>1. Clears(UndoStop)
  <2>1. Len(UndoStop) = 5 /\ UndoStop[1] = Page(0) /\ Clearing(UndoStop[2])
    BY DEF UndoStop, Clearing, WrByte
  <2>2. \A m \in 3 .. 5 : ~StopWrite(UndoStop[m]) /\ ~StopDecision(UndoStop[m])
    BY DEF UndoStop, StopWrite, StopDecision, Decide, Page, WrByte
  <2> QED BY <2>1, <2>2 DEF Clears
<1>2. ProvokeStop \in Programs /\ UndoStop \in Programs
  BY PageEntry, StopEntry, PowerEntry, PollEntry DEF ProvokeStop, UndoStop, Programs, Pages
<1> QED BY <1>1, <1>2, JoinClears
-----------------------------------------------------------------------------
(* The invariant. A program that may rely on a session being over has no stop *)
(* request left and calls nothing that could leave one; init and stop_ranging *)
(* take one back, while nothing has failed.                                 *)

Settled == known \in {"awake", "asleep"}

SInv ==
  /\ call \in {"same_address", "new_address", "start", "get_power", "sleep", "wakeup", "unknown_mode"} => Settled
  /\ Settled => regs.stop = 0 /\ Gentle(prog) /\ call \notin {"init", "stop"}
  /\ call \in {"init", "stop"} =>
       /\ OnlyStops(prog)
       /\ status = "ok" =>
            \/ Clears(prog)
            \/ page = 0 /\ ClearsHere(prog)
            \/ regs.stop = 0 /\ Gentle(prog)
            \/ Stops(prog) /\ Shape(prog)

\* What one access does to page and stop request.
Moved(e) ==
  /\ page' = IF PageWrite(e) THEN e[3] ELSE page
  /\ Clearing(e) /\ page = 0 => regs'.stop = 0
  /\ ~StopWrite(e) /\ regs.stop = 0 => regs'.stop = 0

LEMMA StoreMoves ==
  ASSUME TypeS, TypeC, At("wr"), Store(Reg, Value)
  PROVE  Moved(Head(prog))
<1>1. Head(prog)[1] = "wr" /\ Reg = Head(prog)[2] /\ Value = Head(prog)[3]
  BY DEF At, Reg, Value
<1>2. Reg = "stop" => Value \in {0, 1}
  BY WriteValues DEF TypeC
<1>3. DOMAIN regs = {"power", "stop", "mode"} /\ regs.stop \in {0, 1}
  BY DEF TypeS, RegsType
<1>4. page' = IF PageWrite(Head(prog)) THEN Head(prog)[3] ELSE page
  BY <1>1 DEF Store, PageWrite
<1>5. regs' = IF Reg = "reboot" /\ page = 0 THEN PowerOn
              ELSE IF Reg \in DOMAIN regs /\ page = 0 THEN [regs EXCEPT ![Reg] = Value] ELSE regs
  BY DEF Store
<1>6. CASE Reg = "reboot" /\ page = 0
  <2>1. regs'.stop = 0
    BY <1>5, <1>6 DEF PowerOn
  <2> QED BY <1>4, <2>1 DEF Moved
<1>7. CASE Reg = "stop" /\ page = 0
  <2>1. regs'.stop = Value
    BY <1>3, <1>5, <1>7
  <2> QED BY <1>1, <1>2, <1>4, <1>7, <2>1 DEF Moved, Clearing, StopWrite
<1>8. CASE ~(Reg \in {"reboot", "stop"} /\ page = 0)
  <2>1. regs'.stop = regs.stop
    <3>1. CASE Reg \in DOMAIN regs /\ page = 0
      BY <1>3, <1>5, <1>8, <3>1
    <3>2. CASE ~(Reg \in DOMAIN regs /\ page = 0)
      BY <1>5, <1>8, <3>2
    <3> QED BY <3>1, <3>2
  <2>2. ~(Clearing(Head(prog)) /\ page = 0)
    BY <1>1, <1>8 DEF Clearing
  <2> QED BY <1>4, <2>1, <2>2 DEF Moved
<1> QED BY <1>6, <1>7, <1>8

\* A good access brings init and stop_ranging one step further.
LEMMA AdvanceClears ==
  ASSUME prog \in Programs, prog # <<>>, SInv, call \in {"init", "stop"}, status = "ok",
         Head(prog)[1] # "decide", prog' = Tail(prog), Moved(Head(prog))
  PROVE  \/ Clears(prog')
         \/ page' = 0 /\ ClearsHere(prog')
         \/ regs'.stop = 0 /\ Gentle(prog')
         \/ Stops(prog') /\ Shape(prog')
<1>1. CASE Clears(prog)
  <2>1. CASE Head(prog) = Page(0) /\ ClearsHere(Tail(prog))
    BY <2>1 DEF Moved, PageWrite, Page, WrByte
  <2> QED BY <1>1, <2>1, TailClears
<1>2. CASE page = 0 /\ ClearsHere(prog)
  <2>1. CASE Clearing(Head(prog)) /\ Gentle(Tail(prog))
    BY <1>2, <2>1 DEF Moved
  <2>2. CASE ~PageWrite(Head(prog)) /\ ClearsHere(Tail(prog))
    BY <1>2, <2>2 DEF Moved
  <2> QED BY <1>2, <2>1, <2>2, TailClearsHere
<1>3. CASE regs.stop = 0 /\ Gentle(prog)
  BY <1>3, TailGentle DEF Moved
<1>4. CASE Stops(prog) /\ Shape(prog)
  BY <1>4, TailShape
<1> QED BY <1>1, <1>2, <1>3, <1>4 DEF SInv

\* An access, good or not: who is settled stays so.
LEMMA AccessSettled ==
  ASSUME prog \in Programs, prog # <<>>, SInv, Moved(Head(prog)) \/ regs' = regs,
         prog' \in {prog, Tail(prog)}, UNCHANGED <<call, known>>
  PROVE  /\ Settled => regs'.stop = 0 /\ Gentle(prog')
         /\ call \in {"init", "stop"} => OnlyStops(prog')
<1>1. ASSUME Settled PROVE regs'.stop = 0 /\ Gentle(prog')
  <2>1. regs.stop = 0 /\ Gentle(prog)
    BY <1>1 DEF SInv
  <2>2. ~StopWrite(Head(prog)) /\ Gentle(Tail(prog))
    BY <2>1, TailGentle
  <2> QED BY <2>1, <2>2 DEF Moved
<1>2. call \in {"init", "stop"} => OnlyStops(prog')
  BY TailGentle DEF SInv
<1> QED BY <1>1, <1>2

LEMMA BranchClears ==
  ASSUME TypeC, SInv, Branch
  PROVE  SInv'
<1>1. prog \in Programs /\ prog # <<>> /\ Head(prog)[1] = "decide" /\ UNCHANGED <<call, known, regs, page>>
  BY DEF TypeC, Branch, At, sensor
<1>2. Head(prog) = prog[1] /\ 1 \in 1 .. Len(prog)
  BY <1>1, TailIndex
<1>3. ASSUME Settled PROVE Gentle(prog')
  <2>1. ~StopDecision(Head(prog))
    BY <1>2, <1>3 DEF SInv, Gentle
  <2>2. Reg # "stop"
    BY <1>1, <2>1 DEF StopDecision, Reg
  <2>3. prog' = <<>> \/ prog' = ChangePowerMode(Reg)
    BY <2>2 DEF Branch
  <2> QED BY <2>3, ChangePowerGentle DEF Gentle
<1>4. ASSUME call \in {"init", "stop"} PROVE OnlyStops(prog') /\ Clears(prog')
  <2>1. Reg = "stop"
    BY <1>1, <1>2, <1>4 DEF SInv, OnlyStops, Reg
  <2>2. prog' = UndoStop \/ prog' = ProvokeStop \o UndoStop
    BY <2>1 DEF Branch
  <2>3. Straight(prog')
    BY <2>2, UndoStopReturns, ProvokeStopReturns DEF Returns2
  <2> QED BY <2>2, <2>3, UndoStopClears DEF Straight, OnlyStops
<1> QED BY <1>1, <1>3, <1>4 DEF SInv, Settled

\* What the calls begin with.
LEMMA BodyClears ==
  ASSUME NEW c \in Calls
  PROVE  /\ c \in {"is_alive", "same_address", "new_address", "get_power", "sleep", "wakeup", "unknown_mode", "start"}
              => Gentle(Body[c])
         /\ c \in {"init", "stop"} => OnlyStops(Body[c])
         /\ c = "init" => Clears(Body[c])
         /\ c = "stop" => Stops(Body[c]) /\ Shape(Body[c])
<1>1. /\ Body["is_alive"] = IsAlive /\ Body["init"] = InitSensor
      /\ Body["same_address"] = SetAddress(TRUE) /\ Body["new_address"] = SetAddress(FALSE)
      /\ Body["get_power"] = GetPowerMode /\ Body["start"] = StartRanging
      /\ Body["sleep"] = SetPowerMode("sleep") /\ Body["wakeup"] = SetPowerMode("wakeup")
      /\ Body["unknown_mode"] = SetPowerMode("unknown")
      /\ Body["stop"] = StopRanging
  BY DEF Body
<1>2. Gentle(StartRanging)
  BY StartMild DEF Mild
<1>3. c \in {"is_alive", "same_address", "new_address", "get_power", "sleep", "wakeup", "unknown_mode", "start"}
        => Gentle(Body[c])
  BY <1>1, <1>2, IsAliveGentle, SetAddressGentle, GetPowerGentle, SetPowerGentle
<1>4. OnlyStops(InitSensor)
  BY InitReturns DEF Returns2, Straight, OnlyStops
<1>5. OnlyStops(StopRanging)
  BY DEF StopRanging, OnlyStops, RdByte, Decide
<1> QED BY <1>1, <1>3, <1>4, <1>5, InitClears, StopShape

\* An access that is done, but a condition.
LEMMA AdvanceS ==
  ASSUME TypeC, SInv, prog # <<>>, Head(prog)[1] # "decide", prog' = Tail(prog),
         Moved(Head(prog)), status' # "ok" \/ status = "ok", UNCHANGED <<call, known>>
  PROVE  SInv'
<1>0. prog \in Programs
  BY DEF TypeC
<1>1. /\ Settled => regs'.stop = 0 /\ Gentle(prog')
      /\ call \in {"init", "stop"} => OnlyStops(prog')
  BY <1>0, AccessSettled
<1>2. ASSUME call \in {"init", "stop"}, status' = "ok"
      PROVE  \/ Clears(prog')
             \/ page' = 0 /\ ClearsHere(prog')
             \/ regs'.stop = 0 /\ Gentle(prog')
             \/ Stops(prog') /\ Shape(prog')
  BY <1>0, <1>2, AdvanceClears
<1> QED BY <1>1, <1>2 DEF SInv, Settled

\* One that failed.
LEMMA MissedS ==
  ASSUME TypeS, TypeC, SInv, prog # <<>>, Missed, status' = "error"
  PROVE  SInv'
<1>0. prog \in Programs
  BY DEF TypeC
<1>1. prog' \in {prog, Tail(prog)} /\ UNCHANGED <<call, known>>
  BY DEF Missed, Advance
<1>2. Moved(Head(prog)) \/ regs' = regs
  <2>1. CASE UNCHANGED <<page, sensor>>
    BY <2>1 DEF sensor
  <2>2. CASE At("wr") /\ Store(Reg, Value)
    BY <2>2, StoreMoves
  <2> QED BY <2>1, <2>2 DEF Missed
<1>3. /\ Settled => regs'.stop = 0 /\ Gentle(prog')
      /\ call \in {"init", "stop"} => OnlyStops(prog')
  BY <1>0, <1>1, <1>2, AccessSettled
<1> QED BY <1>1, <1>3 DEF SInv, Settled

LEMMA StopInductive == TypeS /\ TypeC /\ SInv /\ [Next]_vars => SInv'
<1> SUFFICES ASSUME TypeS, TypeC, SInv, [Next]_vars PROVE SInv'
  OBVIOUS
<1> USE DEF sensor, firmware
<1>1. CASE Write
  <2>1. prog # <<>> /\ prog' = Tail(prog) /\ Head(prog)[1] = "wr" /\ UNCHANGED <<call, known, status>>
    BY <1>1 DEF Write, At, Advance
  <2>2. Moved(Head(prog))
    BY <1>1, StoreMoves DEF Write
  <2> QED BY <2>1, <2>2, AdvanceS
<1>2. CASE Read \/ PollDone \/ Send \/ AnswerDone
  <2>1. prog # <<>> /\ prog' = Tail(prog) /\ Head(prog)[1] \in {"rd", "poll", "cmd", "answer"}
    BY <1>2 DEF Read, PollDone, Send, AnswerDone, At, Advance
  <2>2. UNCHANGED <<call, known, page, regs>> /\ (status' # "ok" \/ status = "ok")
    BY <1>2 DEF Read, PollDone, Send, AnswerDone
  <2>3. Moved(Head(prog))
    BY <2>1, <2>2 DEF Moved, PageWrite, Clearing
  <2> QED BY <2>1, <2>2, <2>3, AdvanceS
<1>3. CASE Branch
  BY <1>3, BranchClears
<1>4. CASE Return
  <2>1. prog = <<>> /\ prog' = <<>> /\ call' = "none" /\ regs' = regs
    BY <1>4 DEF Return
  <2>2. call \in {"init", "stop"} /\ status = "ok" => regs.stop = 0
    <3>1. ~Clears(prog) /\ ~ClearsHere(prog) /\ ~Stops(prog)
      BY <2>1 DEF Clears, ClearsHere, Stops
    <3> QED BY <3>1 DEF SInv
  <2>3. Settled' => Settled \/ (call \in {"init", "stop"} /\ status = "ok")
    <3>1. CASE call \in {"init", "stop"}
      BY <1>4, <3>1 DEF Return, Settled
    <3>2. CASE call \in {"same_address", "new_address", "start", "get_power", "sleep", "wakeup", "unknown_mode"}
      BY <3>2 DEF SInv
    <3>3. CASE call = "is_alive"
      BY <1>4, <3>3 DEF Return, Settled
    <3> QED BY <1>4, <3>1, <3>2, <3>3 DEF Return, TypeC, Calls
  <2>4. Settled' => regs'.stop = 0
    BY <2>1, <2>2, <2>3 DEF SInv
  <2>5. Gentle(prog')
    BY <2>1 DEF Gentle
  <2> QED BY <2>1, <2>4, <2>5 DEF SInv
<1>5. CASE Restart
  BY <1>5 DEF Restart, SInv, Settled
<1>6. CASE Deaf \/ Fault
  BY <1>6, MissedS DEF Deaf, Fault
<1>7. CASE Late
  BY <1>7 DEF Late, SInv, Settled
<1>8. CASE Device \/ AutoStop \/ UNCHANGED vars
  <2>1. UNCHANGED <<call, known, status, prog, page, regs>>
    BY <1>8 DEF Device, WakeOrSleep, HaltOrGo, Answer, BootUp, AutoStop, vars
  <2> QED BY <2>1 DEF SInv, Settled
<1>9. ASSUME NEW c \in Calls, Call(c) PROVE SInv'
  <2>1. call' = c /\ prog' = Body[c] /\ UNCHANGED <<known, regs>> /\ MayCall(c)
    BY <1>9 DEF Call
  <2>2. c \in {"same_address", "new_address", "start", "get_power", "sleep", "wakeup", "unknown_mode"} => Settled
    BY <2>1 DEF MayCall, Settled
  <2>3. Settled => c \notin {"init", "stop"}
    BY <2>1 DEF MayCall, Settled
  <2>4. Settled' = Settled
    BY <2>1 DEF Settled
  <2>5. Settled => regs'.stop = 0 /\ Gentle(prog')
    BY <2>1, <2>3, BodyClears DEF SInv, Calls
  <2> QED BY <2>1, <2>2, <2>3, <2>4, <2>5, BodyClears DEF SInv
<1> QED
  BY <1>1, <1>2, <1>3, <1>4, <1>5, <1>6, <1>7, <1>8, <1>9 DEF Next, Access

\* Whatever failed and was repeated before: where the program is told that init
\* or stop_ranging succeeded, no stop request is left in register 0x14.
THEOREM NoStopIsLeft == Spec => []NoStopLeft
<1>1. Init => SInv
  BY DEF Init, SInv, Settled
<1>2. TypeS /\ TypeC /\ SInv /\ [Next]_vars => (TypeS /\ TypeC /\ SInv)'
  BY StopInductive, TypesInductive
<1>3. SInv => NoStopLeft
  BY DEF SInv, Settled, NoStopLeft
<1> QED BY <1>1, <1>2, <1>3, InitTypes, PTL DEF Spec
=============================================================================
