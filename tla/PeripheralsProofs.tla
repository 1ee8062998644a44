-------------------------- MODULE PeripheralsProofs --------------------------
(***************************************************************************)
(* Proofs about the small drivers and programs, each under its own          *)
(* specification: the LED strip driver, the LED program with it, the motion   *)
(* sensor, the water level monitor, the crypto test, the menu program and the  *)
(* life cycle of the ToF driver; and about what they hold, under the          *)
(* specification that is model-checked.                                     *)
(***************************************************************************)
EXTENDS MCPeripherals, TLAPS

-----------------------------------------------------------------------------
(* The LED strip driver, for any number of writers and LEDs.                *)

LEMMA BytesType == NumBytes \in Nat /\ NumBytes >= 3 /\ NumLeds \in Nat
BY LedsAssumption DEF NumBytes

LEMMA WireByteType ==
  ASSUME NEW c, c.r \in Int, c.g \in Int, c.b \in Int, NEW k \in Nat
  PROVE  WireByte(c, k) \in Byte
<1>1. k % 3 \in {0, 1, 2}
  OBVIOUS
<1>2. c.r % 256 \in 0 .. 255 /\ c.g % 256 \in 0 .. 255 /\ c.b % 256 \in 0 .. 255
  OBVIOUS
<1> QED BY <1>1, <1>2 DEF WireByte, Byte

LEMMA CommandType ==
  \A c \in Commands \cup {Off} : c.r \in Int /\ c.g \in Int /\ c.b \in Int
BY CommandsAssumption DEF Off

LEMMA RgbType == \A c \in Commands \cup {Off} : Rgb(c) \in Colour
<1> SUFFICES ASSUME NEW c \in Commands \cup {Off} PROVE Rgb(c) \in Colour
  OBVIOUS
<1>1. c.r % 256 \in 0 .. 255 /\ c.g % 256 \in 0 .. 255 /\ c.b % 256 \in 0 .. 255
  BY CommandType
<1> QED BY <1>1 DEF Rgb, Colour, Byte

LEMMA LoopType ==
  ASSUME TypeOK, NEW w \in Writers, NEW next \in {"send", "reset"}, Loop(w, next)
  PROVE  i' \in [Writers -> Position] /\ pc' \in [Writers -> {"idle", "fill", "send", "reset"}]
<1>1. i[w] \in Position /\ NumBytes \in Nat /\ NumBytes >= 3
  BY BytesType DEF TypeOK
<1>2. CASE i[w] + 1 < NumBytes
  <2>1. i[w] + 1 \in Position
    BY <1>1, <1>2 DEF Position
  <2> QED BY <1>2, <2>1 DEF TypeOK, Loop
<1>3. CASE ~(i[w] + 1 < NumBytes)
  <2>1. 0 \in Position
    BY <1>1 DEF Position
  <2> QED BY <1>3, <2>1 DEF TypeOK, Loop
<1> QED BY <1>2, <1>3

LEMMA TypeInductive == TypeOK /\ [Next]_vars => TypeOK'
<1> SUFFICES ASSUME TypeOK, [Next]_vars PROVE TypeOK'
  OBVIOUS
<1>1. ASSUME NEW w \in Writers, Store(w) PROVE TypeOK'
  BY <1>1 DEF Store, TypeOK
<1>2. ASSUME NEW w \in Writers, Fill(w) PROVE TypeOK'
  <2>1. cmd[w] \in Commands \cup {Off} /\ i[w] \in Nat
    BY BytesType DEF TypeOK, Position
  <2>2. WireByte(cmd[w], i[w]) \in Byte
    BY <2>1, CommandType, WireByteType
  <2>3. colors' \in [Position -> Byte]
    BY <1>2, <2>2 DEF Fill, TypeOK
  <2>4. i' \in [Writers -> Position] /\ pc' \in [Writers -> {"idle", "fill", "send", "reset"}]
    BY <1>2, LoopType DEF Fill
  <2> QED BY <1>2, <2>3, <2>4 DEF Fill, TypeOK
<1>6. ASSUME NEW w \in Writers, Send(w) PROVE TypeOK'
  <2>1. i' \in [Writers -> Position] /\ pc' \in [Writers -> {"idle", "fill", "send", "reset"}]
    BY <1>6, LoopType DEF Send
  <2>2. wire' \in Seq(Byte) /\ Len(wire') <= NumBytes
    <3>1. CASE Len(wire) < NumBytes
      BY <1>6, <3>1, BytesType DEF Send, TypeOK
    <3>2. CASE ~(Len(wire) < NumBytes)
      BY <1>6, <3>2 DEF Send, TypeOK
    <3> QED BY <3>1, <3>2
  <2> QED BY <1>6, <2>1, <2>2 DEF Send, TypeOK
<1>3. CASE Latch
  <2>1. \A led \in Led : 3 * led + 3 <= Len(wire) =>
           /\ wire[3 * led + 1] \in Byte /\ wire[3 * led + 2] \in Byte /\ wire[3 * led + 3] \in Byte
    BY BytesType DEF TypeOK, Led
  <2>2. shown' \in [Led -> Colour]
    BY <1>3, <2>1 DEF Latch, TypeOK, Colour
  <2>3. wire' \in Seq(Byte) /\ Len(wire') <= NumBytes
    BY <1>3, BytesType DEF Latch
  <2> QED BY <1>3, <2>2, <2>3 DEF Latch, TypeOK
<1>4. ASSUME NEW w \in Writers, Return(w) PROVE TypeOK'
  BY <1>4, RgbType DEF Return, TypeOK
<1>5. CASE UNCHANGED vars
  BY <1>5 DEF vars, TypeOK
<1> QED BY <1>1, <1>2, <1>3, <1>4, <1>5, <1>6 DEF Next

LEMMA TypeInit == Init => TypeOK
<1> SUFFICES ASSUME Init PROVE TypeOK
  OBVIOUS
<1>1. 0 \in Position /\ 0 \in Byte /\ Off \in Colour
  BY BytesType DEF Position, Byte, Off, Colour
<1>2. <<>> \in Seq(Byte) /\ Len(<<>>) <= NumBytes
  BY BytesType
<1> QED BY <1>1, <1>2 DEF Init, TypeOK, AllLeds
-----------------------------------------------------------------------------
(* One open file: what the wire carries is the command under way.           *)

OneWriter == \A v, w \in Writers : v = w

Sent(w, n) == Len(wire) = n /\ \A k \in 0 .. n - 1 : wire[k + 1] = WireByte(cmd[w], k)

Course(w) ==
  /\ pc[w] \in {"idle", "reset"} => i[w] = 0
  /\ pc[w] = "idle" => wire = <<>> /\ shown = AllLeds(Rgb(last))
  /\ pc[w] = "fill" => wire = <<>> /\ \A k \in 0 .. i[w] - 1 : colors[k] = WireByte(cmd[w], k)
  /\ pc[w] = "send" => Sent(w, i[w]) /\ \A k \in Position : colors[k] = WireByte(cmd[w], k)
  /\ pc[w] = "reset" => \/ wire = <<>> /\ shown = AllLeds(Rgb(cmd[w]))
                        \/ Sent(w, NumBytes)

WInv == TypeOK /\ \A w \in Writers : Course(w)

\* The cast to u8 is idempotent: last is stored as it is shown.
LEMMA RgbTwice == \A c \in Colour : Rgb(c) = c
<1>1. \A x \in 0 .. 255 : x % 256 = x
  OBVIOUS
<1> QED BY <1>1 DEF Colour, Byte, Rgb

\* The strip puts each LED's three bytes together as the driver took them apart.
LEMMA LatchShows ==
  ASSUME TypeOK, NEW w \in Writers, Sent(w, NumBytes), Latch
  PROVE  shown' = AllLeds(Rgb(cmd[w]))
<1>1. ASSUME NEW led \in Led
      PROVE  /\ 3 * led + 3 <= Len(wire)
             /\ wire[3 * led + 1] = cmd[w].g % 256
             /\ wire[3 * led + 2] = cmd[w].r % 256
             /\ wire[3 * led + 3] = cmd[w].b % 256
  <2>1. led \in Nat /\ led <= NumLeds - 1 /\ NumBytes = 3 * NumLeds
    BY BytesType DEF Led, NumBytes
  <2>2. 3 * led \in 0 .. NumBytes - 1 /\ 3 * led + 1 \in 0 .. NumBytes - 1 /\ 3 * led + 2 \in 0 .. NumBytes - 1
    BY <2>1, BytesType
  <2>3. (3 * led) % 3 = 0 /\ (3 * led + 1) % 3 = 1 /\ (3 * led + 2) % 3 = 2
    BY <2>1
  <2>4. WireByte(cmd[w], 3 * led) = cmd[w].g % 256
    BY <2>3 DEF WireByte
  <2>5. WireByte(cmd[w], 3 * led + 1) = cmd[w].r % 256
    BY <2>3 DEF WireByte
  <2>6. WireByte(cmd[w], 3 * led + 2) = cmd[w].b % 256
    BY <2>3 DEF WireByte
  <2>7. 3 * led + 1 + 1 = 3 * led + 2 /\ 3 * led + 2 + 1 = 3 * led + 3
    BY <2>1
  <2>8. wire[3 * led + 1] = WireByte(cmd[w], 3 * led)
    BY <2>2 DEF Sent
  <2>9. wire[3 * led + 1 + 1] = WireByte(cmd[w], 3 * led + 1)
    BY <2>2 DEF Sent
  <2>10. wire[3 * led + 2 + 1] = WireByte(cmd[w], 3 * led + 2)
    BY <2>2 DEF Sent
  <2>11. 3 * led + 3 <= Len(wire)
    BY <2>1, <2>2 DEF Sent
  <2> QED BY <2>4, <2>5, <2>6, <2>7, <2>8, <2>9, <2>10, <2>11
<1> QED BY <1>1 DEF Latch, AllLeds, Rgb

LEMMA WInvInductive == OneWriter /\ WInv /\ [Next]_vars => WInv'
<1> SUFFICES ASSUME OneWriter, WInv, [Next]_vars PROVE WInv'
  OBVIOUS
<1>0. TypeOK /\ TypeOK'
  BY TypeInductive DEF WInv
<1>a. ASSUME NEW w \in Writers, Course(w)' PROVE WInv'
  BY <1>0, <1>a DEF WInv, OneWriter
<1>t. ASSUME NEW w \in Writers
      PROVE  /\ Course(w) /\ pc \in [Writers -> {"idle", "fill", "send", "reset"}]
             /\ i \in [Writers -> Position] /\ i[w] \in 0 .. NumBytes - 1 /\ NumBytes \in Nat
             /\ cmd \in [Writers -> Commands \cup {Off}] /\ colors \in [Position -> Byte]
  BY <1>0, BytesType DEF WInv, TypeOK, Position
<1>1. ASSUME NEW w \in Writers, Store(w) PROVE WInv'
  <2>1. pc[w] = "idle" /\ pc'[w] = "fill" /\ wire' = <<>>
    BY <1>1, <1>t DEF Store, Course
  <2>2. i'[w] = 0
    BY <1>1, <1>t, <2>1 DEF Store, Course
  <2> QED BY <1>a, <2>1, <2>2 DEF Course
<1>2. ASSUME NEW w \in Writers, Fill(w) PROVE WInv'
  <2>1. pc[w] = "fill" /\ wire' = <<>> /\ cmd' = cmd
    BY <1>2, <1>t DEF Fill, Course
  <2>2. \A k \in 0 .. i[w] : colors'[k] = WireByte(cmd[w], k)
    <3>1. i[w] \in Position /\ \A k \in 0 .. i[w] : k \in Position
      BY <1>t DEF Position
    <3>2. \A k \in 0 .. i[w] : k = i[w] \/ k \in 0 .. i[w] - 1
      BY <1>t
    <3> QED BY <1>2, <1>t, <2>1, <3>1, <3>2 DEF Fill, Course
  <2>3. CASE i[w] + 1 < NumBytes
    <3>1. i'[w] = i[w] + 1 /\ pc'[w] = "fill" /\ i'[w] - 1 = i[w]
      BY <1>2, <1>t, <2>1, <2>3 DEF Fill, Loop
    <3> QED BY <1>a, <2>1, <2>2, <3>1 DEF Course
  <2>4. CASE ~(i[w] + 1 < NumBytes)
    <3>1. i'[w] = 0 /\ pc'[w] = "send" /\ i[w] = NumBytes - 1
      BY <1>2, <1>t, <2>1, <2>4 DEF Fill, Loop
    <3>2. \A k \in Position : colors'[k] = WireByte(cmd[w], k)
      BY <2>2, <3>1 DEF Position
    <3>3. Sent(w, i[w])'
      BY <2>1, <3>1 DEF Sent
    <3> QED BY <1>a, <2>1, <3>1, <3>2, <3>3 DEF Course
  <2> QED BY <2>3, <2>4
<1>3. ASSUME NEW w \in Writers, Send(w) PROVE WInv'
  <2>1. /\ pc[w] = "send" /\ Sent(w, i[w]) /\ cmd' = cmd /\ colors' = colors
        /\ \A k \in Position : colors[k] = WireByte(cmd[w], k)
    BY <1>3, <1>t DEF Send, Course
  <2>2. wire' = Append(wire, WireByte(cmd[w], i[w]))
    BY <1>3, <1>t, <2>1 DEF Send, Sent, Position
  <2>3. Len(wire') = i[w] + 1
    BY <1>0, <2>1, <2>2 DEF Sent, TypeOK
  <2>4. \A k \in 0 .. i[w] : wire'[k + 1] = WireByte(cmd[w], k)
    <3>1. \A k \in 0 .. i[w] : k = i[w] \/ k \in 0 .. i[w] - 1
      BY <1>t
    <3>2. wire'[i[w] + 1] = WireByte(cmd[w], i[w])
      BY <1>0, <1>t, <2>1, <2>2 DEF Sent, TypeOK
    <3>3. \A k \in 0 .. i[w] - 1 : wire'[k + 1] = wire[k + 1]
      BY <1>0, <1>t, <2>1, <2>2 DEF Sent, TypeOK
    <3> QED BY <2>1, <3>1, <3>2, <3>3 DEF Sent
  <2>5. CASE i[w] + 1 < NumBytes
    <3>1. i'[w] = i[w] + 1 /\ pc'[w] = "send" /\ i'[w] - 1 = i[w]
      BY <1>3, <1>t, <2>1, <2>5 DEF Send, Loop
    <3> QED BY <1>a, <2>1, <2>3, <2>4, <3>1 DEF Course, Sent
  <2>6. CASE ~(i[w] + 1 < NumBytes)
    <3>1. i'[w] = 0 /\ pc'[w] = "reset" /\ i[w] = NumBytes - 1 /\ i[w] + 1 = NumBytes
      BY <1>3, <1>t, <2>1, <2>6 DEF Send, Loop
    <3>2. Sent(w, NumBytes)'
      BY <2>1, <2>3, <2>4, <3>1 DEF Sent, NumBytes
    <3> QED BY <1>a, <3>1, <3>2 DEF Course
  <2> QED BY <2>5, <2>6
<1>4. CASE Latch
  <2>1. PICK w \in Writers : pc[w] = "reset"
    BY <1>4 DEF Latch
  <2>2. Sent(w, NumBytes)
    BY <1>4, <1>t, <2>1 DEF Latch, Course
  <2>3. shown' = AllLeds(Rgb(cmd[w]))
    BY <1>0, <1>4, <2>2, LatchShows
  <2> QED BY <1>a, <1>4, <1>t, <2>1, <2>3 DEF Latch, Course
<1>5. ASSUME NEW w \in Writers, Return(w) PROVE WInv'
  <2>1. pc[w] = "reset" /\ wire = <<>>
    BY <1>5 DEF Return, OneWriter
  <2>2. shown = AllLeds(Rgb(cmd[w]))
    BY <1>t, <2>1, BytesType DEF Course, Sent
  <2>3. last' = Rgb(cmd[w]) /\ Rgb(last') = last'
    BY <1>5, <1>t, RgbType, RgbTwice DEF Return
  <2> QED BY <1>5, <1>a, <1>t, <2>1, <2>2, <2>3 DEF Return, Course
<1>6. CASE UNCHANGED vars
  BY <1>0, <1>6 DEF vars, WInv, Course, Sent
<1> QED BY <1>1, <1>2, <1>3, <1>4, <1>5, <1>6 DEF Next

LEMMA WInvInit == Init => WInv
<1> SUFFICES ASSUME Init PROVE TypeOK /\ \A w \in Writers : Course(w)
  BY DEF WInv
<1>1. Off \in Colour /\ Rgb(Off) = Off
  BY RgbTwice DEF Off, Colour, Byte
<1> QED BY <1>1, TypeInit DEF Init, Course

\* Every value the driver keeps or sends is a byte, and the strip never takes
\* more bytes than its LEDs hold (colors_store 83-104).
THEOREM TypeCorrect == Spec => []TypeOK
BY TypeInit, TypeInductive, PTL DEF Spec

\* While one open file is written, a write that has returned is what every LED
\* shows, for strips of every length (colors_store 83-104).
THEOREM OneWriterShown == ASSUME OneWriter PROVE Spec => []WriteShown
<1>1. WInv /\ [Next]_vars => WInv'
  BY WInvInductive
<1>2. WInv => WriteShown
  BY WritersAssumption DEF WInv, Course, WriteShown
<1> QED BY <1>1, <1>2, WInvInit, PTL DEF Spec
-----------------------------------------------------------------------------
(* The LED program. Its steps are steps of the driver, so that the invariant *)
(* of the driver holds; what is added is that the command under way, or the  *)
(* last one carried out, is the text of the program.                        *)

LEMMA UserStep == UserNext => [Next]_vars
BY DEF UserNext, Start, Fopen, Flush, Finish, Others, Driver, Next

Granted(w) ==
  user \in {"store", "done"} /\ stored =>
    IF pc[w] = "idle" THEN last = Rgb(Text) ELSE user = "store" /\ cmd[w] = Text

UInv ==
  /\ asked \in Requests \cup {<<>>}
  /\ user \in {"open", "flush"} => ~stored
  /\ \A w \in Writers : Granted(w)

LEMMA UInvInductive == OneWriter /\ WInv /\ UInv /\ [UserNext]_<<vars, uvars>> => UInv'
<1> SUFFICES ASSUME OneWriter, WInv, UInv, [UserNext]_<<vars, uvars>> PROVE UInv'
  OBVIOUS
<1> USE DEF UInv, uvars, vars
<1>t. pc \in [Writers -> {"idle", "fill", "send", "reset"}]
      /\ cmd \in [Writers -> Commands \cup {Off}]
  BY DEF WInv, TypeOK
<1>1. CASE Start
  BY <1>1 DEF Start, Granted
<1>2. CASE Fopen
  BY <1>2 DEF Fopen, Granted
<1>3. ASSUME NEW w \in Writers, Flush(w) PROVE UInv'
  <2>1. asked' = asked /\ Text' = Text
    BY <1>3 DEF Flush, Text
  <2>2. CASE UNCHANGED <<vars, stored>>
    BY <1>3, <2>1, <2>2 DEF Flush, Granted, OneWriter
  <2>3. CASE Store(w) /\ cmd'[w] = Text
    <3>1. pc'[w] = "fill" /\ user' = "store"
      BY <1>3, <1>t, <2>3 DEF Store, Flush
    <3> QED BY <2>1, <2>3, <3>1 DEF Granted, OneWriter
  <2> QED BY <1>3, <2>2, <2>3 DEF Flush
<1>4. CASE Finish
  BY <1>4 DEF Finish, Granted, Text
<1>5. ASSUME NEW w \in Writers, Others(w) PROVE UInv'
  BY <1>5 DEF Others, Granted
<1>6. CASE Driver
  <2>1. UNCHANGED <<asked, user, stored, Text>>
    BY <1>6 DEF Driver, Text
  <2>2. CASE Latch
    BY <2>1, <2>2 DEF Latch, Granted
  <2>3. ASSUME NEW w \in Writers, Fill(w) \/ Send(w) PROVE UInv'
    <3>1. pc[w] # "idle" /\ pc'[w] # "idle" /\ UNCHANGED <<cmd, last>>
      BY <2>3, <1>t DEF Fill, Send, Loop
    <3> QED BY <2>1, <3>1 DEF Granted, OneWriter
  <2>4. ASSUME NEW w \in Writers, Return(w) PROVE UInv'
    <3>1. pc[w] # "idle" /\ pc'[w] = "idle" /\ last' = Rgb(cmd[w])
      BY <2>4, <1>t DEF Return
    <3> QED BY <2>1, <3>1 DEF Granted, OneWriter
  <2> QED BY <1>6, <2>2, <2>3, <2>4 DEF Driver
<1>7. CASE UNCHANGED <<vars, uvars>>
  BY <1>7 DEF Granted, Text
<1> QED BY <1>1, <1>2, <1>3, <1>4, <1>5, <1>6, <1>7 DEF UserNext

LEMMA ClampType == \A x \in Int : Clamp(x) \in Byte /\ Nearest(Clamp(x), x)
BY DEF Clamp, Byte, Nearest

LEMMA ByteCast == \A x \in Byte : x % 256 = x
BY DEF Byte

\* The text holds bytes, which the driver's cast leaves alone.
LEMMA TextShown ==
  ASSUME asked \in Requests \cup {<<>>}
  PROVE  /\ Rgb(Text) = Text
         /\ Len(asked) = 3 => /\ Nearest(Text.r, asked[1]) /\ Nearest(Text.g, asked[2])
                              /\ Nearest(Text.b, asked[3])
         /\ Len(asked) < 3 => Text = [r |-> 50, g |-> 0, b |-> 0]
<1>1. CASE asked = <<>>
  <2>1. Len(asked) = 0
    BY <1>1
  <2>2. Clamp(50) = 50 /\ Clamp(0) = 0
    BY DEF Clamp
  <2>3. Text = [r |-> 50, g |-> 0, b |-> 0]
    BY <2>1, <2>2 DEF Text
  <2> QED BY <2>1, <2>3 DEF Rgb
<1>2. CASE asked \in Int \X Int \X Int
  <2>1. Len(asked) = 3 /\ asked[1] \in Int /\ asked[2] \in Int /\ asked[3] \in Int
    BY <1>2
  <2>2. Text = [r |-> Clamp(asked[1]), g |-> Clamp(asked[2]), b |-> Clamp(asked[3])]
    BY <2>1 DEF Text
  <2> QED BY <2>1, <2>2, ClampType, ByteCast DEF Rgb
<1> QED BY <1>1, <1>2, RequestsAssumption

LEMMA UserShows == OneWriter /\ WInv /\ UInv => RequestShown
<1> SUFFICES ASSUME WInv, UInv, user = "done", stored PROVE RequestShown
  BY DEF RequestShown
<1>1. PICK w \in Writers : TRUE
  BY WritersAssumption
<1>2. pc[w] = "idle" /\ last = Rgb(Text)
  BY DEF UInv, Granted
<1>3. shown = AllLeds(Rgb(Rgb(Text)))
  BY <1>2 DEF WInv, Course
<1>4. shown = AllLeds(Text)
  BY <1>3, TextShown DEF UInv
<1> QED BY <1>4, TextShown DEF UInv, RequestShown, AllLeds

\* A run of ws2812-user whose text the driver has taken leaves every LED of a strip of
\* any length at the colour nearest to the request, while the file is written by one
\* at a time.
THEOREM RequestsAreShown == ASSUME OneWriter PROVE UserSpec => []RequestShown
<1>1. WInv /\ [UserNext]_<<vars, uvars>> => WInv'
  <2> SUFFICES ASSUME WInv, [UserNext]_<<vars, uvars>> PROVE WInv'
    OBVIOUS
  <2>1. [Next]_vars
    BY UserStep DEF vars
  <2> QED BY <2>1, WInvInductive
<1>2. UserInit => WInv /\ UInv
  BY WInvInit DEF UserInit, UInv, Granted
<1>3. WInv /\ UInv => RequestShown
  BY UserShows
<1>4. WInv /\ UInv /\ [UserNext]_<<vars, uvars>> => UInv'
  BY UInvInductive
<1> QED BY <1>1, <1>2, <1>3, <1>4, PTL DEF UserSpec
-----------------------------------------------------------------------------
(* The motion sensor.                                                       *)

\* With both edges latched, what is not pending has been read since the line moved.
SInv ==
  /\ level \in {"high", "low"}
  /\ ~probed => logged = "none" /\ val = "none"
  /\ probed /\ ~pending => /\ val \in {"none", level}
                           /\ val = "none" => logged \in {"none", level}

\* Both edges are requested (IRQF_TRIGGER_RISING | IRQF_TRIGGER_FALLING).
BothEdges == {"high", "low"} \subseteq Edges

\* However fast the line moves, the last line of the log is its level once no
\* interrupt is waiting or running.
THEOREM LogStaysCurrent == ASSUME BothEdges PROVE S!Spec => []LogCurrent
<1>1. S!Init => SInv
  BY DEF S!Init, SInv, S!Levels
<1>2. SInv /\ [S!Next]_svars => SInv'
  <2> SUFFICES ASSUME SInv, [S!Next]_svars PROVE SInv'
    OBVIOUS
  <2> USE DEF SInv
  <2>1. CASE S!Probe
    BY <2>1 DEF S!Probe
  <2>2. CASE S!Move
    BY <2>2, BothEdges DEF S!Move, BothEdges, S!Levels
  <2>3. CASE S!Handler
    BY <2>3 DEF S!Handler
  <2>4. CASE S!Log
    BY <2>4 DEF S!Log
  <2>5. CASE S!Remove
    BY <2>5 DEF S!Remove
  <2>6. CASE UNCHANGED svars
    BY <2>6 DEF svars
  <2> QED BY <2>1, <2>2, <2>3, <2>4, <2>5, <2>6 DEF S!Next
<1>3. SInv => LogCurrent
  BY DEF SInv, LogCurrent, S!LogCurrent
<1>4. S!Spec => S!Init /\ [][S!Next]_svars
  BY DEF S!Spec, S!vars, svars
<1> QED BY <1>1, <1>2, <1>3, <1>4, PTL
-----------------------------------------------------------------------------
(* The water level monitor.                                                 *)

\* A fall that was seen leaves the sensor quiet; only a timeout or a poll that failed
\* leaves it busy.
EchoInv ==
  /\ pulse \in {"quiet", "armed", "high"}
  /\ wait \in {"chip", "config", "trig", "echo"} => duration = "none"
  /\ wait = "fall" /\ "this" \notin misread => pulse # "armed"
  /\ wait \in {"trigger", "print"} /\ duration = "valid" /\ "this" \notin misread => pulse = "quiet"
  /\ wait \in {"rise", "fall"} /\ duration = "valid" /\ "last" \notin misread => own

\* What the program holds at each step of its opening.
HeldInv ==
  /\ wait = "chip" => lines = {}
  /\ wait = "config" => lines = {"chip"}
  /\ wait = "trig" => lines = {"chip", "req_cfg"}
  /\ wait = "echo" => lines = {"chip", "req_cfg", "trig"}
  /\ wait = "exit" => lines = {}

LEMMA EchoInvInductive == EchoInv /\ [R!Next]_rvars => EchoInv'
<1> SUFFICES ASSUME EchoInv, [R!Next]_rvars PROVE EchoInv'
  OBVIOUS
<1> USE DEF EchoInv
<1>1. CASE R!Open
  <2>1. /\ wait \in {"chip", "config", "trig", "echo"}
        /\ wait' \in {"config", "trig", "echo", "trigger", "exit"}
        /\ UNCHANGED <<pulse, own, misread, duration>>
    BY <1>1 DEF R!Open, R!OpenChip, R!NewConfig, R!RequestTrig, R!RequestEcho, R!Got, R!Measuring
  <2> QED BY <2>1
<1>2. CASE R!Trigger
  BY <1>2 DEF R!Trigger
<1>3. CASE R!Tick
  BY <1>3 DEF R!Tick
<1>4. CASE R!Rise
  <2>1. wait = "rise" /\ wait' = "fall" /\ UNCHANGED <<pulse, own, duration>>
    BY <1>4 DEF R!Rise
  <2>2. CASE pulse = "high" /\ UNCHANGED misread
    BY <2>1, <2>2
  <2>3. CASE misread' = misread \cup {"this"}
    BY <2>1, <2>3
  <2> QED BY <1>4, <2>2, <2>3 DEF R!Rise, R!Leaves, R!echoLine
<1>5. CASE R!Fall
  <2>1. wait = "fall" /\ wait' \in {"print", "trigger"} /\ UNCHANGED <<pulse, own>>
    BY <1>5 DEF R!Fall, R!Sample
  <2>2. CASE pulse # "high" /\ UNCHANGED misread
    <3>1. "this" \notin misread => pulse' = "quiet"
      BY <2>1, <2>2
    <3> QED BY <2>1, <2>2, <3>1
  <2>3. CASE misread' = misread \cup {"this"}
    BY <2>1, <2>3
  <2> QED BY <1>5, <2>2, <2>3 DEF R!Fall, R!Leaves, R!echoLine
<1>6. CASE R!Expire
  <2>1. wait' \in {"print", "trigger"} /\ duration' = "timeout" /\ UNCHANGED <<pulse, misread>>
    BY <1>6 DEF R!Expire, R!Sample
  <2> QED BY <2>1
<1>7. CASE R!Report
  BY <1>7 DEF R!Report
<1>8. CASE R!Raise \/ R!Drop
  BY <1>8 DEF R!Raise, R!Drop
<1>9. CASE UNCHANGED rvars
  BY <1>9 DEF rvars
<1> QED BY <1>1, <1>2, <1>3, <1>4, <1>5, <1>6, <1>7, <1>8, <1>9 DEF R!Next, R!Program

\* For every timeout and number of samples: what is timed is a pulse and the answer to
\* its own trigger, if the measurement before ended with the fall of its echo and no
\* poll of the line has failed in either (measure_once 30-51).
THEOREM EchoIsOwn == R!Spec => []OwnEcho
<1>1. R!Init => EchoInv
  BY DEF R!Init, EchoInv
<1>2. EchoInv => OwnEcho
  BY DEF EchoInv, OwnEcho, R!OwnEcho
<1>3. R!Spec => R!Init /\ [][R!Next]_rvars
  BY DEF R!Spec, R!vars, rvars
<1> QED BY <1>1, <1>2, <1>3, EchoInvInductive, PTL

LEMMA HeldInvInductive == HeldInv /\ [R!Next]_rvars => HeldInv'
<1> SUFFICES ASSUME HeldInv, [R!Next]_rvars PROVE HeldInv'
  OBVIOUS
<1> USE DEF HeldInv
<1>1. CASE R!Open
  BY <1>1 DEF R!Open, R!OpenChip, R!NewConfig, R!RequestTrig, R!RequestEcho, R!Got, R!Measuring
<1>2. CASE R!Trigger \/ R!Tick \/ R!Rise \/ R!Fall \/ R!Expire \/ R!Report \/ R!Raise \/ R!Drop
  <2>1. lines' = lines /\ wait' \in {wait, "trigger", "rise", "fall", "print"}
    BY <1>2 DEF R!Trigger, R!Tick, R!Rise, R!Fall, R!Expire, R!Report, R!Raise, R!Drop, R!Sample
  <2> QED BY <2>1
<1>3. CASE UNCHANGED rvars
  BY <1>3 DEF rvars
<1> QED BY <1>1, <1>2, <1>3 DEF R!Next, R!Program

\* Whichever gpio request fails, the monitor exits with nothing in its hands.
THEOREM MonitorReleases == R!Spec => []R!NothingHeld
<1>1. R!Init => HeldInv
  BY DEF R!Init, HeldInv
<1>2. HeldInv => R!NothingHeld
  BY DEF HeldInv, R!NothingHeld
<1>3. R!Spec => R!Init /\ [][R!Next]_rvars
  BY DEF R!Spec, R!vars, rvars
<1> QED BY <1>1, <1>2, <1>3, HeldInvInductive, PTL
-----------------------------------------------------------------------------
(* The crypto test. The library is open only where a call follows that needs *)
(* it, and an answer is printed in the step that has read it.                *)

CryptoInv ==
  /\ call \in {"init", "init again", "exit"} => ~open
  /\ said = [z \in C!Zones |-> said[z]]
  /\ \A z \in C!Zones : said[z] \in {"none", locked[z]}

LEMMA CryptoInvInductive == CryptoInv /\ [C!Next]_cvars => CryptoInv'
<1> SUFFICES ASSUME CryptoInv, [C!Next]_cvars PROVE CryptoInv'
  OBVIOUS
<1> USE DEF CryptoInv
<1>1. CASE C!FirstInit \/ C!SecondInit
  BY <1>1 DEF C!FirstInit, C!SecondInit, C!TryInit
<1>2. CASE C!Wakeup \/ C!ReadSerial \/ C!Release
  BY <1>2 DEF C!Wakeup, C!ReadSerial, C!Release
<1>3. ASSUME NEW zone \in C!Zones, NEW next \in {"data", "release"}, C!IsLocked(zone, next)
      PROVE CryptoInv'
  <2>1. call \in C!Zones /\ call' \in {"data", "release"} /\ UNCHANGED <<open, locked>>
    BY <1>3 DEF C!IsLocked
  <2>2. CASE said' = [said EXCEPT ![zone] = locked[zone]]
    BY <2>1, <2>2
  <2>3. CASE said' = said
    BY <2>1, <2>3
  <2> QED BY <1>3, <2>2, <2>3 DEF C!IsLocked
<1>4. CASE UNCHANGED cvars
  BY <1>4 DEF cvars
<1> QED BY <1>1, <1>2, <1>3, <1>4 DEF C!Next, C!Zones

\* However the crypto test ends, the library is released, and what it has said of
\* a zone is the lock of that zone.
THEOREM CryptoReleases == C!Spec => []C!NothingHeld
<1>1. C!Init => CryptoInv
  BY DEF C!Init, CryptoInv
<1>2. CryptoInv => C!NothingHeld
  BY DEF CryptoInv, C!NothingHeld
<1>3. C!Spec => C!Init /\ [][C!Next]_cvars
  BY DEF C!Spec, C!vars, cvars
<1> QED BY <1>1, <1>2, <1>3, CryptoInvInductive, PTL
-----------------------------------------------------------------------------
(* The menu program. The examples are known calls in a known order: what      *)
(* comes before a call that changes settings or power has left the sensor     *)
(* idle, whatever it returned, or has ended the example; only Example 3        *)
(* changes a setting again after a session, whose end it has noted.           *)

Changes == {"set", "get", "sleep", "calibrate"}
Again(e, k) == e = 3 /\ k = 8

\* What comes before a call that changes settings or power, and how an example ends.
Orderly(e) ==
  /\ Len(E!Menu[e]) \in Nat /\ Len(E!Menu[e]) >= 2 /\ E!Menu[e][1] = E!Must("is_alive")
  /\ \A k \in 1 .. Len(E!Menu[e]) :
       /\ E!Menu[e][k].call \in Changes /\ ~Again(e, k) =>
            /\ k - 1 \in 1 .. Len(E!Menu[e])
            /\ \/ E!Menu[e][k - 1].call \in {"init", "calibrate"} /\ E!Menu[e][k - 1].status = "tested"
               \/ E!Menu[e][k - 1].call \in {"set", "get"} /\ ~Again(e, k - 1)
       /\ E!Menu[e][k].call \in E!Loops => k + 1 \in 1 .. Len(E!Menu[e]) /\ E!Menu[e][k + 1].call = "stop"
       /\ k > 1 => E!Menu[e][k].call # "is_alive"
  /\ e # 1 => E!Menu[e][Len(E!Menu[e])] = E!Notes("stop")

LEMMA MenuOrderly == Len(E!Menu) = 11 /\ (\A e \in 1 .. 11 : Orderly(e)) /\ E!Menu[3][7] = E!Notes("stop")
<1> USE DEF Orderly, E!Menu, E!Begin, E!Poll, E!Must, E!Notes, E!Drops, Changes, Again, E!Loops
<1>0. Len(E!Menu) = 11
  OBVIOUS
<1>1. Orderly(1)
  BY DEF E!Example1
<1>2. Orderly(2)
  BY DEF E!Example2
<1>3. Orderly(3) /\ E!Menu[3][7] = E!Notes("stop")
  BY DEF E!Example3
<1>4. Orderly(4)
  BY DEF E!Example4
<1>5. Orderly(5)
  BY DEF E!Example5
<1>6. Orderly(6)
  BY DEF E!Example6
<1>7. Orderly(7)
  BY DEF E!Example7, E!Crosstalk
<1>8. Orderly(8)
  BY DEF E!Example8, E!Crosstalk
<1>9. Orderly(9)
  BY DEF E!Example9, E!Thresholds, E!Await
<1>10. Orderly(10)
  BY DEF E!Example10
<1>11. Orderly(11)
  BY DEF E!Example11, E!Thresholds, E!Await
<1> HIDE DEF Orderly, E!Menu
<1> QED BY <1>0, <1>1, <1>2, <1>3, <1>4, <1>5, <1>6, <1>7, <1>8, <1>9, <1>10, <1>11


ExInv ==
  /\ ex \in 0 .. 12 /\ step \in Nat
  /\ step # 0 => ex \in 1 .. 11 /\ step \in 1 .. Len(E!Menu[ex])
  /\ step # 0 /\ E!Now.call \in Changes => sensor = "idle" \/ (Again(ex, step) /\ ~ok)
  /\ step = 0 /\ ex \notin {0, 1, 12} /\ ok /\ present => sensor = "idle"

\* A call that has returned, good or not, leads the invariant on to the next.
LEMMA CallReturned ==
  ASSUME ExInv, step # 0, E!Now.call \notin E!Loops \cup {"is_alive"}, NEW good \in BOOLEAN, E!GoOn(good),
         good => sensor' = E!After(E!Now.call), ~good /\ E!Now.call \in {"set", "get"} => sensor' = sensor
  PROVE  ExInv'
<1> DEFINE M == E!Menu[ex]
<1>1. /\ ex \in 1 .. 11 /\ step \in 1 .. Len(M) /\ E!Now = M[step] /\ ex' = ex /\ E!Menu[ex'] = M
      /\ present' = present
  BY DEF ExInv, E!Now, E!GoOn
<1>2. Orderly(ex) /\ Len(M) \in Nat
  BY <1>1, MenuOrderly DEF Orderly
<1>3. CASE step' = 0
  <2>1. CASE M[step].status = "tested" /\ ~good
    <3>1. ok' = FALSE
      BY <1>1, <2>1 DEF E!GoOn
    <3> QED BY <1>1, <1>3, <3>1 DEF ExInv
  <2>2. CASE step = Len(M)
    <3>1. ex # 1 => E!Now = E!Notes("stop")
      BY <1>1, <1>2, <2>2 DEF Orderly
    <3>2. ex # 1 => E!Now.status = "noted" /\ E!Now.call = "stop"
      BY <3>1 DEF E!Notes
    <3>3. ex # 1 => ok' = good
      BY <3>2 DEF E!GoOn
    <3>4. ex # 1 /\ good => sensor' = "idle"
      BY <3>2 DEF E!After
    <3> QED BY <1>1, <1>3, <3>3, <3>4 DEF ExInv
  <2> QED BY <1>1, <1>2, <1>3, <2>1, <2>2 DEF E!GoOn
<1>4. CASE step' # 0
  <2>1. step' = step + 1 /\ step' \in 1 .. Len(M) /\ (M[step].status = "tested" => good)
    BY <1>1, <1>2, <1>4 DEF E!GoOn
  <2>2. E!Now' = M[step']
    BY <1>1 DEF E!Now
  <2>3. ASSUME M[step'].call \in Changes, ~Again(ex, step') PROVE sensor' = "idle"
    <3>1. \/ M[step].call \in {"init", "calibrate"} /\ M[step].status = "tested"
          \/ M[step].call \in {"set", "get"} /\ ~Again(ex, step)
      BY <1>1, <1>2, <2>1, <2>3 DEF Orderly
    <3>2. CASE M[step].call \in {"init", "calibrate"} /\ M[step].status = "tested"
      BY <1>1, <2>1, <3>2 DEF E!After
    <3>3. CASE M[step].call \in {"set", "get"} /\ ~Again(ex, step)
      <4>1. sensor = "idle"
        BY <1>1, <3>3 DEF ExInv, Changes
      <4>2. sensor' = sensor
        BY <1>1, <3>3 DEF E!After
      <4> QED BY <4>1, <4>2
    <3> QED BY <3>1, <3>2, <3>3
  <2>4. ASSUME Again(ex, step'), ok' = TRUE PROVE sensor' = "idle"
    <3>1. ex = 3 /\ step = 7
      BY <1>1, <2>1, <2>4 DEF Again
    <3>2. E!Now = E!Notes("stop")
      BY <1>1, <3>1, MenuOrderly
    <3>3. good = TRUE
      BY <2>4, <3>2 DEF E!GoOn, E!Notes
    <3> QED BY <3>2, <3>3 DEF E!After, E!Notes
  <2>6. ok' # TRUE => ~ok'
    OBVIOUS
  <2>7. E!Now'.call \in Changes => sensor' = "idle" \/ (Again(ex', step') /\ ~ok')
    BY <1>1, <2>2, <2>3, <2>4, <2>6
  <2>8. ex' \in 0 .. 12 /\ step' \in Nat /\ ex' \in 1 .. 11 /\ step' \in 1 .. Len(E!Menu[ex'])
    BY <1>1, <1>2, <2>1
  <2> QED BY <1>4, <2>7, <2>8 DEF ExInv
<1> QED BY <1>3, <1>4

LEMMA ExInvInductive == ExInv /\ [E!Next]_evars => ExInv'
<1> SUFFICES ASSUME ExInv, [E!Next]_evars PROVE ExInv'
  OBVIOUS
<1>1. CASE E!IsAlive
  <2>1. step # 0 /\ E!Now.call = "is_alive" /\ ex \in 1 .. 11 /\ step \in 1 .. Len(E!Menu[ex])
        /\ ex' = ex /\ present' = present
    BY <1>1 DEF E!IsAlive, E!Running, ExInv
  <2>2. Orderly(ex)
    BY <2>1, MenuOrderly
  <2>3. step = 1
    BY <2>1, <2>2 DEF Orderly, E!Now
  <2>4. CASE present
    <3>1. step' = 2 /\ 2 \in 1 .. Len(E!Menu[ex]) /\ E!Now' = E!Menu[ex][2]
      BY <1>1, <2>1, <2>2, <2>4 DEF E!IsAlive, Orderly, E!Now
    <3>2. E!Menu[ex][2].call \notin Changes
      BY <2>1, <2>2, <2>3, <3>1 DEF Orderly, Again, E!Must
    <3> QED BY <2>1, <3>1, <3>2 DEF ExInv
  <2>5. CASE ~present
    BY <1>1, <2>1, <2>5 DEF E!IsAlive, ExInv
  <2> QED BY <2>4, <2>5
<1>2. CASE E!Works
  BY <1>2, CallReturned DEF E!Works
<1>3. CASE E!Fails
  <2>1. CASE E!Now.call = "is_alive"
    <3>1. Orderly(ex) /\ step \in 1 .. Len(E!Menu[ex]) /\ E!Now = E!Menu[ex][step]
      BY <1>3, MenuOrderly DEF E!Fails, ExInv, E!Now
    <3>2. E!Now = E!Must("is_alive")
      BY <2>1, <3>1 DEF Orderly
    <3>3. ok' = FALSE /\ step' = 0 /\ ex' = ex
      BY <1>3, <3>2 DEF E!Fails, E!GoOn, E!Must
    <3> QED BY <3>3 DEF ExInv
  <2>2. CASE E!Now.call # "is_alive"
    <3>1. E!Now.call \in {"set", "get"} => sensor' = sensor
      BY <1>3 DEF E!Fails, E!After
    <3> QED BY <1>3, <2>2, <3>1, CallReturned DEF E!Fails
  <2> QED BY <2>1, <2>2
<1>4. CASE E!Frame \/ E!NoFrame \/ E!CheckFails
  <2>1. /\ step # 0 /\ E!Now.call \in E!Loops /\ UNCHANGED <<present, ex, step, sensor>>
    BY <1>4 DEF E!Frame, E!NoFrame, E!CheckFails, E!Round, E!Running, E!Loops
  <2>2. E!Now' = E!Now /\ E!Now.call \notin Changes
    BY <2>1 DEF E!Now, E!Loops, Changes
  <2> QED BY <2>1, <2>2 DEF ExInv
<1>5. CASE E!LoopEnds
  <2>1. /\ step # 0 /\ E!Now.call \in E!Loops /\ step' = step + 1 /\ UNCHANGED <<present, ex, ok, sensor>>
        /\ ex \in 1 .. 11 /\ step \in 1 .. Len(E!Menu[ex])
    BY <1>5 DEF E!LoopEnds, ExInv
  <2>2. step' \in 1 .. Len(E!Menu[ex]) /\ E!Menu[ex][step'].call = "stop" /\ E!Now' = E!Menu[ex][step']
    BY <2>1, MenuOrderly DEF Orderly, E!Now
  <2> QED BY <2>1, <2>2 DEF ExInv, Changes
<1>6. CASE E!NewFrame
  BY <1>6 DEF E!NewFrame, ExInv, E!Now
<1>7. CASE E!Leave
  <2>1. ex' = 12 /\ step = 0 /\ UNCHANGED <<present, step, ok, sensor>>
    BY <1>7, MenuOrderly DEF E!Leave, E!Exit
  <2> QED BY <2>1 DEF ExInv
<1>8. ASSUME NEW e \in 1 .. Len(E!Menu), E!Choose(e) PROVE ExInv'
  <2>1. ex' = e /\ step' = 1 /\ e \in 1 .. 11 /\ Orderly(e)
    BY <1>8, MenuOrderly DEF E!Choose
  <2>2. 1 \in 1 .. Len(E!Menu[e]) /\ E!Now' = E!Menu[e][1] /\ E!Menu[e][1].call \notin Changes
    BY <2>1 DEF Orderly, E!Now, Changes, E!Must
  <2> QED BY <2>1, <2>2 DEF ExInv
<1>9. CASE UNCHANGED evars
  BY <1>9 DEF evars, ExInv, E!Now
<1> QED BY <1>1, <1>2, <1>3, <1>4, <1>5, <1>6, <1>8, <1>9, <1>7 DEF E!Next, E!Program

\* Whatever calls fail, with or without their effect, and whichever examples are chosen:
\* when the last status seen is 0, settings are changed, and the menu is reached, with
\* the sensor idle, but for Example 1 and for another device.
THEOREM IdleWhenTold == E!Spec => []IdleWhenOk
<1>1. E!Init => ExInv
  BY DEF E!Init, ExInv
<1>2. ExInv => IdleWhenOk
  BY MenuOrderly DEF ExInv, IdleWhenOk, E!IdleWhenOk, E!Exit, Changes
<1>3. E!Spec => E!Init /\ [][E!Next]_evars
  BY PTL DEF E!Spec, E!vars, evars
<1> QED BY <1>1, <1>2, <1>3, ExInvInductive, PTL
-----------------------------------------------------------------------------
(* The life cycle of the ToF driver, for any number of files open at a time: *)
(* at every step of a load the flags say what is held, so that the exit,      *)
(* which goes by the flags, undoes whatever the probe has done.              *)

(* What is held and owned at each step of the probe, when no device is bound. *)
Probing ==
  /\ at \in L!ProbeSteps => bound = FALSE
  /\ at = "allocate" => held = {"driver"} /\ owned = {"driver"}
  /\ at \in {"ids", "misc"} => held = {"driver", "buffer"} /\ owned = {"driver"}
  /\ at = "gpio" => held = {"driver", "buffer", "misc"} /\ owned = {"driver", "misc"}
  /\ at \in {"direction", "own"} =>
       held = {"driver", "buffer", "misc", "gpio"} /\ owned = {"driver", "misc"}
  /\ at = "queue" =>
       held = {"driver", "buffer", "misc", "gpio"} /\ owned = {"driver", "misc", "gpio"}
  /\ at = "irq" =>
       held = {"driver", "buffer", "misc", "gpio", "wq"} /\ owned = {"driver", "misc", "gpio"}
  /\ at = "undo" =>
       held = {"driver", "misc", "gpio", "wq"} /\ owned = {"driver", "misc", "gpio"}

(* After the probe, and through the exit, each flag that is still to be read  *)
(* says what is held.                                                       *)
After == {"in"} \cup L!ExitSteps
Registered ==
  /\ at \in {"in", "deregister", "delete"} => "driver" \in held
  /\ at \in {"in", "deregister"} => ("misc" \in owned <=> "misc" \in held)
  /\ at \in {"in", "deregister", "delete", "free_irq"} => ("irq" \in owned <=> "irq" \in held)
  /\ at \in After => ("gpio" \in owned <=> "gpio" \in held)

(* And what was passed by is gone.                                          *)
Gone ==
  /\ at \in {"delete", "free_irq", "put_gpio", "out"} => "misc" \notin held
  /\ at \in {"free_irq", "put_gpio", "out"} => "driver" \notin held /\ bound = FALSE
  /\ at \in {"put_gpio", "out"} => "irq" \notin held
  /\ at = "out" => "gpio" \notin held

(* What the buffer and the queue have gone through is told by the step that   *)
(* failed and by the unbinding.                                             *)
Lost == {"ids", "misc", "gpio", "direction"}
Kept ==
  /\ failed \in {"none"} \cup L!ProbeSteps
  /\ at \in L!ProbeSteps \ {"undo"} => failed = "none"
  /\ at \in L!ProbeSteps => unbound = FALSE
  /\ at = "undo" => failed = "irq"
  /\ at \in {"in", "deregister", "delete"} => ("buffer" \in held <=> bound \/ failed \in Lost)
  /\ at \in {"free_irq", "put_gpio", "out"} => ("buffer" \in held <=> failed \in Lost)
  /\ unbound => bound = FALSE /\ failed = "none"
  /\ bound => failed = "none"
  /\ at \in {"in", "deregister", "delete"} /\ failed = "none" /\ ~bound => unbound
  /\ "irq" \in held => {"wq", "gpio"} \subseteq held

(* A file is open on a misc device that a probe has registered, and stays      *)
(* open when a probe that fails takes it back.                              *)
Files ==
  /\ files \in Nat
  /\ at \in L!ExitSteps \cup {"out", "allocate", "ids", "misc"} => files = 0
  /\ at = "in" /\ files > 0 =>
       /\ failed \in {"none", "gpio", "direction", "irq"}
       /\ "wq" \in held <=> wanted /\ failed \in {"none", "irq"}
  /\ at = "in" /\ "misc" \in held =>
       /\ failed \in {"none", "gpio", "direction", "irq"}
       /\ "wq" \in held <=> wanted /\ failed \in {"none", "irq"}
  /\ at \in {"direction", "own", "queue", "irq", "undo"} => wanted = TRUE

LInv ==
  /\ at \in {"out", "in"} \cup L!ProbeSteps \cup L!ExitSteps
  /\ misused \subseteq {"driver"} /\ wanted \in BOOLEAN /\ unbound \in BOOLEAN
  /\ Probing /\ Registered /\ Gone /\ Kept /\ Files

LEMMA ReturnFailure == L!Returns(-1) => bound' = FALSE /\ failed' = at
<1>1. -1 # 0
  OBVIOUS
<1> QED BY <1>1, Zenon DEF L!Returns

LEMMA ReturnSuccess == L!Returns(0) => bound' = TRUE /\ failed' = "none"
BY DEF L!Returns

LEMMA LInvInit == L!Init => LInv
<1> SUFFICES ASSUME L!Init PROVE LInv
  OBVIOUS
<1>1. /\ at = "out" /\ held = {} /\ owned = {} /\ wanted = TRUE /\ bound = FALSE
      /\ files = 0 /\ misused = {} /\ failed = "none" /\ unbound = FALSE
  BY DEF L!Init
<1> QED BY <1>1 DEF LInv, Probing, Registered, Gone, Kept, Files, After, Lost, L!ProbeSteps, L!ExitSteps

LEMMA LInvInductive == LInv /\ [L!Next]_lvars => LInv'
<1> SUFFICES ASSUME LInv, [L!Next]_lvars PROVE LInv'
  OBVIOUS
<1> USE DEF LInv, Probing, Registered, Gone, Kept, Files, After, Lost, L!ProbeSteps, L!ExitSteps
<1>1. CASE L!Load
  BY <1>1 DEF L!Load, L!Go
<1>2. CASE L!LoadFails
  BY <1>2 DEF L!LoadFails
<1>3. CASE L!Allocate
  <2>1. /\ at = "allocate" /\ held = {"driver"} /\ owned = {"driver"} /\ bound = FALSE /\ failed = "none"
        /\ UNCHANGED <<owned, wanted, files, unbound>>
    BY <1>3 DEF L!Allocate, L!Go
  <2>2. CASE at' = "ids" /\ L!Take("buffer") /\ UNCHANGED <<bound, failed>>
    BY <2>1, <2>2 DEF L!Take
  <2>3. CASE at' = "in" /\ bound' = FALSE /\ failed' = "allocate" /\ UNCHANGED <<held, misused>>
    BY <2>1, <2>3
  <2> QED BY <1>3, <2>2, <2>3, ReturnFailure, ReturnSuccess DEF L!Allocate, L!Go
<1>4. CASE L!CheckIds
  <2>1. /\ at = "ids" /\ held = {"driver", "buffer"} /\ owned = {"driver"} /\ bound = FALSE /\ failed = "none"
        /\ UNCHANGED <<held, owned, wanted, files, misused, unbound>>
    BY <1>4 DEF L!CheckIds, L!Go
  <2>2. CASE at' = "misc" /\ UNCHANGED <<bound, failed>>
    BY <2>1, <2>2
  <2>3. CASE at' = "in" /\ bound' = TRUE /\ failed' = "none"
    BY <2>1, <2>3
  <2>4. CASE at' = "in" /\ bound' = FALSE /\ failed' = "ids"
    BY <2>1, <2>4
  <2> QED BY <1>4, <2>2, <2>3, <2>4, ReturnFailure, ReturnSuccess DEF L!CheckIds, L!Go
<1>5. CASE L!RegisterMisc
  <2>1. /\ at = "misc" /\ held = {"driver", "buffer"} /\ owned = {"driver"} /\ bound = FALSE /\ failed = "none"
        /\ UNCHANGED <<wanted, files, unbound>>
    BY <1>5 DEF L!RegisterMisc, L!Go
  <2>2. CASE at' = "gpio" /\ L!Take("misc") /\ owned' = owned \cup {"misc"} /\ UNCHANGED <<bound, failed>>
    BY <2>1, <2>2 DEF L!Take
  <2>3. CASE at' = "in" /\ bound' = FALSE /\ failed' = "misc" /\ UNCHANGED <<held, owned, misused>>
    BY <2>1, <2>3
  <2> QED BY <1>5, <2>2, <2>3, ReturnFailure, ReturnSuccess DEF L!RegisterMisc, L!Go
<1>6. CASE L!RequestGpio
  <2>1. /\ at = "gpio" /\ held = {"driver", "buffer", "misc"} /\ owned = {"driver", "misc"}
        /\ bound = FALSE /\ failed = "none" /\ UNCHANGED <<owned, wanted, files, unbound>>
    BY <1>6 DEF L!RequestGpio, L!Go
  <2>2. CASE wanted /\ at' = "direction" /\ L!Take("gpio") /\ UNCHANGED <<bound, failed>>
    <3>1. held' = {"driver", "buffer", "misc", "gpio"} /\ misused' = misused
      BY <2>1, <2>2 DEF L!Take
    <3>2. wanted = TRUE
      BY <2>2
    <3> QED BY <2>1, <2>2, <3>1, <3>2
  <2>3. CASE at' = "in" /\ bound' = FALSE /\ failed' = "gpio" /\ UNCHANGED <<held, misused>>
    BY <2>1, <2>3
  <2>4. CASE ~wanted /\ at' = "in" /\ bound' = TRUE /\ failed' = "none" /\ UNCHANGED <<held, misused>>
    BY <2>1, <2>4
  <2> QED BY <1>6, <2>2, <2>3, <2>4, ReturnFailure, ReturnSuccess DEF L!RequestGpio, L!Go
<1>7. CASE L!SetDirection
  <2>1. /\ at = "direction" /\ held = {"driver", "buffer", "misc", "gpio"}
        /\ owned = {"driver", "misc"} /\ bound = FALSE /\ failed = "none" /\ UNCHANGED <<owned, wanted, files, unbound>>
    BY <1>7 DEF L!SetDirection, L!Go
  <2>2. CASE at' = "own" /\ UNCHANGED <<held, misused, bound, failed>>
    BY <2>1, <2>2
  <2>3. CASE at' = "in" /\ L!Release("gpio") /\ bound' = FALSE /\ failed' = "direction"
    <3>1. held' = {"driver", "buffer", "misc"} /\ misused' = misused
      BY <2>1, <2>3 DEF L!Release
    <3> QED BY <2>1, <2>3, <3>1
  <2> QED BY <1>7, <2>2, <2>3, ReturnFailure, ReturnSuccess DEF L!SetDirection, L!Go
<1>8. CASE L!OwnGpio
  BY <1>8 DEF L!OwnGpio, L!Go
<1>9. CASE L!InitQueue
  BY <1>9 DEF L!InitQueue, L!Go, L!Take
<1>10. CASE L!RequestIrq
  <2>1. /\ at = "irq" /\ held = {"driver", "buffer", "misc", "gpio", "wq"}
        /\ owned = {"driver", "misc", "gpio"} /\ bound = FALSE /\ failed = "none"
        /\ wanted = TRUE /\ unbound = FALSE /\ UNCHANGED <<wanted, files, unbound>>
    BY <1>10 DEF L!RequestIrq, L!Go
  <2>2. CASE at' = "in" /\ L!Take("irq") /\ owned' = owned \cup {"irq"} /\ bound' = TRUE /\ failed' = "none"
    BY <2>1, <2>2 DEF L!Take
  <2>3. CASE at' = "undo" /\ L!Release("buffer") /\ failed' = "irq" /\ UNCHANGED <<owned, bound>>
    <3>1. held' = {"driver", "misc", "gpio", "wq"} /\ misused' = misused
      BY <2>1, <2>3 DEF L!Release
    <3> QED BY <2>1, <2>3, <3>1
  <2> QED BY <1>10, <2>2, <2>3, ReturnFailure, ReturnSuccess DEF L!RequestIrq, L!Go
<1>11. CASE L!Undo
  <2>1. /\ at = "undo" /\ held = {"driver", "misc", "gpio", "wq"} /\ at' = "in"
        /\ bound = FALSE /\ failed = "irq" /\ wanted = TRUE /\ unbound = FALSE
        /\ UNCHANGED <<wanted, bound, files, failed, unbound>>
    BY <1>11 DEF L!Undo, L!Go
  <2>2. held' = {"driver", "gpio", "wq"} /\ misused' = misused /\ owned' = {"driver", "gpio"}
    BY <1>11, <2>1 DEF L!Undo, L!Release
  <2> QED BY <2>1, <2>2
<1>12. CASE L!Open
  BY <1>12 DEF L!Open
<1>13. CASE L!Close
  BY <1>13 DEF L!Close
<1>14. CASE L!Unbind
  BY <1>14 DEF L!Unbind, L!Remove, L!Release
<1>15. CASE L!Unload
  BY <1>15 DEF L!Unload, L!Go
<1>16. CASE L!Deregister
  <2>1. /\ at = "deregister" /\ at' = "delete" /\ files = 0 /\ "driver" \in held
        /\ UNCHANGED <<wanted, bound, files, failed, unbound>>
    BY <1>16 DEF L!Deregister, L!Go
  <2>2. held' = held \ {"misc"} /\ misused' = misused /\ owned' = owned \ {"misc"}
    BY <1>16, <2>1 DEF L!Deregister, L!Drop, L!Release
  <2> QED BY <2>1, <2>2
<1>17. CASE L!DeleteDriver
  BY <1>17 DEF L!DeleteDriver, L!Go
<1>18. CASE L!FreeIrq
  BY <1>18 DEF L!FreeIrq, L!Go, L!Drop, L!Release
<1>19. CASE L!PutGpio
  BY <1>19 DEF L!PutGpio, L!Go, L!Drop, L!Release
<1>20. CASE UNCHANGED lvars
  BY <1>20 DEF lvars
<1> QED BY <1>1, <1>2, <1>3, <1>4, <1>5, <1>6, <1>7, <1>8, <1>9, <1>10, <1>11, <1>12,
           <1>13, <1>14, <1>15, <1>16, <1>17, <1>18, <1>19, <1>20 DEF L!Next

\* However the probe ended, and whatever was opened or unbound since, unloading
\* leaves nothing registered or requested and releases nothing twice; the buffer is
\* lost exactly if the probe returned an error at 339, 351 or 395, where it frees
\* nothing (probe 321-396, exit 437-459).
THEOREM ExitReleases == L!Spec => []L!ReleasedAtExit
<1>1. LInv => L!ReleasedAtExit
  BY DEF LInv, Gone, Kept, Lost, L!ReleasedAtExit, After
<1>2. L!Spec => L!Init /\ [][L!Next]_lvars
  BY DEF L!Spec, L!vars, lvars
<1> QED BY <1>1, <1>2, LInvInit, LInvInductive, PTL

\* What the users of an open file find, and when.
LEMMA Found == LInv => FoundByUsers
<1> SUFFICES ASSUME LInv PROVE FoundByUsers
  OBVIOUS
<1> USE DEF LInv, Probing, Kept, Files, Lost, L!ProbeSteps, L!ExitSteps
<1>1. "irq" \in held => {"wq", "gpio"} \subseteq held
  OBVIOUS
<1>2. ASSUME files > 0 PROVE "buffer" \notin held <=> unbound \/ failed = "irq"
  <2>1. CASE at = "in"
    BY <1>2, <2>1
  <2>2. CASE at # "in"
    BY <1>2, <2>2
  <2> QED BY <2>1, <2>2
<1>3. ASSUME files > 0
      PROVE  "wq" \notin held <=> \/ ~wanted
                                 \/ at \in {"gpio", "direction", "own", "queue"}
                                 \/ failed \in {"gpio", "direction"}
  <2>1. CASE at = "in"
    BY <1>3, <2>1
  <2>2. CASE at \in {"gpio", "direction", "own", "queue"}
    BY <2>2
  <2>3. CASE at \in {"irq", "undo"}
    BY <2>3
  <2> QED BY <1>3, <2>1, <2>2, <2>3
<1> QED BY <1>1, <1>2, <1>3 DEF FoundByUsers, L!FoundByUsers

\* From its registration to its release the handler has queue and gpio. An open
\* file, while the probe runs, after it failed and after it was undone: its buffer is
\* gone exactly after an unbinding (398-403) or a failed registration of the
\* handler (380-381), and its queue is not initialised exactly without an interrupt,
\* before line 367 and after a failed get_gpio (359-361).
THEOREM UsersFindTheirs == L!Spec => []FoundByUsers
<1>1. L!Spec => L!Init /\ [][L!Next]_lvars
  BY DEF L!Spec, L!vars, lvars
<1> QED BY <1>1, Found, LInvInit, LInvInductive, PTL
-----------------------------------------------------------------------------
(* The parts together.                                                      *)

\* What is in the hands of the ToF driver, the water level monitor and the crypto
\* test is released, but the buffer of a probe that returned an error at 339, 351 or 395;
\* in the specification that is model-checked: the part that moves keeps its
\* invariant, and the others do not move.
THEOREM PartsRelease == PeripheralsSpec => []ReleasedAtExit
<1> DEFINE PartsInv == LInv /\ HeldInv /\ CryptoInv
<1>1. PeripheralsInit => PartsInv
  <2> SUFFICES ASSUME PeripheralsInit PROVE PartsInv
    OBVIOUS
  <2>1. LInv
    BY LInvInit DEF PeripheralsInit
  <2>2. HeldInv
    BY DEF PeripheralsInit, WaterIdle, R!Init, HeldInv
  <2>3. CryptoInv
    BY DEF PeripheralsInit, CryptoIdle, C!Init, CryptoInv
  <2> QED BY <2>1, <2>2, <2>3
<1>2. PartsInv /\ [PeripheralsNext]_PeripheralsVars => PartsInv'
  <2> SUFFICES ASSUME PartsInv, [PeripheralsNext]_PeripheralsVars PROVE PartsInv'
    OBVIOUS
  <2>1. [L!Next]_lvars /\ [R!Next]_rvars /\ [C!Next]_cvars
    BY DEF PeripheralsNext, PeripheralsVars, Leds, Lifecycle, Motion, Water, Examples, Crypto, Usb
  <2>2. LInv'
    BY <2>1, LInvInductive
  <2> QED BY <2>1, <2>2, HeldInvInductive, CryptoInvInductive
<1>3. PartsInv => ReleasedAtExit
  <2>1. LInv => L!ReleasedAtExit
    BY DEF LInv, Gone, Kept, Lost, L!ReleasedAtExit, After
  <2>2. HeldInv => R!NothingHeld
    BY DEF HeldInv, R!NothingHeld
  <2>3. CryptoInv => C!NothingHeld
    BY DEF CryptoInv, C!NothingHeld
  <2> QED BY <2>1, <2>2, <2>3 DEF ReleasedAtExit
<1> QED BY <1>1, <1>2, <1>3, PTL DEF PeripheralsSpec
=============================================================================
