--------------------------- MODULE UldRangingProofs ---------------------------
(***************************************************************************)
(* Proofs about UldRanging, for every first count, period of the count,      *)
(* number of frames and sessions, and whichever reads may fail: the one byte *)
(* of the stream count is enough to tell frames apart.                       *)
(***************************************************************************)
EXTENDS UldRanging, TLAPS

(* Counts are bytes below 255, and within a lag of less than a round no two  *)
(* frames have the same one.                                                *)
LEMMA CountType ==
  ASSUME NEW f \in Nat, f > 0 PROVE Count(f) \in Byte /\ Count(f) # 255
<1>1. Wrap \in Nat /\ Wrap > 0 /\ Wrap <= 255 /\ First + f - 1 \in Nat
  BY RangingAssumption DEF Byte
<1>2. (First + f - 1) % Wrap \in 0 .. Wrap - 1
  BY <1>1
<1> QED BY <1>1, <1>2 DEF Count, Byte

LEMMA Division ==
  ASSUME NEW a \in Int, NEW m \in Nat, m > 0
  PROVE  a \div m \in Int /\ a = m * (a \div m) + (a % m)
OBVIOUS

LEMMA CountTells ==
  ASSUME NEW f \in Nat, NEW g \in Nat, g <= f, f <= g + MaxLag, Count(f) = Count(g)
  PROVE  f = g
<1> DEFINE x == First + f - 1
           y == First + g - 1
           p == x \div Wrap
           q == y \div Wrap
<1>1. First \in Int /\ Wrap \in Nat /\ Wrap > 0 /\ MaxLag < Wrap /\ MaxLag \in Nat
  BY RangingAssumption DEF Byte
<1>0. x \in Int /\ y \in Int
  BY <1>1
<1>2. p \in Int /\ q \in Int /\ x = Wrap * p + (x % Wrap) /\ y = Wrap * q + (y % Wrap)
  BY <1>0, <1>1, Division
<1>3. x % Wrap = y % Wrap
  BY DEF Count
<1>4. x - y = f - g
  BY <1>1
<1> HIDE DEF x, y, p, q
<1>5. Wrap * (p - q) = f - g
  <2>1. Wrap * (p - q) = Wrap * p - Wrap * q
    BY <1>1, <1>2
  <2>2. x % Wrap \in Int /\ Wrap * p \in Int /\ Wrap * q \in Int
    BY <1>0, <1>1, <1>2
  <2> QED BY <2>1, <2>2, <1>2, <1>3, <1>4
<1>6. p - q < 1
  <2> SUFFICES ASSUME p - q >= 1 PROVE FALSE
    BY <1>2
  <2>1. Wrap * (p - q) >= Wrap
    BY <1>1, <1>2
  <2> QED BY <2>1, <1>1, <1>5
<1>7. p - q > -1
  <2> SUFFICES ASSUME p - q <= -1 PROVE FALSE
    BY <1>2
  <2>1. Wrap * (q - p) >= Wrap
    BY <1>1, <1>2
  <2>2. Wrap * (q - p) = g - f
    BY <1>1, <1>2, <1>5
  <2> QED BY <2>1, <2>2, <1>1
<1>8. p - q = 0
  BY <1>2, <1>6, <1>7
<1> QED BY <1>1, <1>5, <1>8

LEMMA HeaderType ==
  ASSUME TypeOK
  PROVE  /\ Header \in Word
         /\ frame = 0 => Header[1] = 255
         /\ frame > 0 => Header[1] = Count(frame)
<1>1. flags \in [1 .. 3 -> Byte] /\ frame \in Nat
  BY RangingAssumption DEF TypeOK
<1>2. CASE frame = 0
  BY <1>2 DEF Header, Word, Byte
<1>3. CASE frame > 0
  <2>1. Count(frame) \in Byte
    BY <1>1, <1>3, CountType
  <2>2. Header = <<Count(frame), flags[1], flags[2], flags[3]>>
    BY <1>3 DEF Header
  <2>3. <<Count(frame), flags[1], flags[2], flags[3]>> \in Word
    BY <1>1, <2>1 DEF Word
  <2> QED BY <1>3, <2>2, <2>3
<1> QED BY <1>1, <1>2, <1>3

LEMMA WordsType == <<0, 0, 0, 0>> \in Word /\ <<0, 3, 0, 0>> \in Word
BY DEF Word, Byte

LEMMA SwapType == ASSUME NEW w \in Word PROVE Swap(w) \in Word
BY DEF Swap, Word
-----------------------------------------------------------------------------
(* The driver's count is that of the newest frame it has reported or read.   *)
LastCount == IF taken = 0 THEN 255 ELSE Count(taken)

IInv ==
  /\ TypeOK
  /\ results <= taken /\ taken <= frame /\ frame <= taken + MaxLag
  /\ ready => ranging
  /\ ranging /\ ~misread => streamcount = LastCount
  /\ ready /\ ~misread => asked = taken /\ results < taken /\ temp[1] = Count(taken)

LEMMA Bounds ==
  ASSUME TypeOK
  PROVE  /\ MaxFrame \in Nat /\ MaxLag \in Nat /\ MaxLag > 0
         /\ frame \in Nat /\ taken \in Nat /\ asked \in Nat /\ results \in Nat
         /\ 255 \in Byte
BY RangingAssumption DEF TypeOK, Byte

LEMMA IInvInit == Init => IInv
<1> SUFFICES ASSUME Init PROVE IInv
  OBVIOUS
<1>1. TypeOK
  <2>1. temp \in Word
    BY WordsType DEF Init
  <2>2. flags \in Flags /\ session \in 0 .. MaxSession
    BY RangingAssumption DEF Init
  <2>3. {frame, asked, taken, results} \subseteq 0 .. MaxFrame /\ streamcount \in Byte
    BY RangingAssumption DEF Init, Byte
  <2>4. {ready, ok, misread, ranging} \subseteq BOOLEAN
    BY DEF Init
  <2> QED BY <2>1, <2>2, <2>3, <2>4, Zenon DEF TypeOK
<1> QED BY <1>1, Bounds DEF Init, IInv

LEMMA CheckKeeps == ASSUME IInv, Check PROVE IInv'
<1>1. TypeOK /\ ranging /\ ~ready
  BY DEF IInv, Check
<1>2. Header \in Word /\ Header[1] \in Byte
  BY <1>1, HeaderType DEF Word
<1>3. CASE IsNew(Header)
  <2>1. frame > 0 /\ Header[1] = Count(frame) /\ Header[1] # streamcount
    BY <1>1, <1>3, HeaderType, Bounds DEF IsNew
  <2>2. taken' = frame
    BY <1>1, <1>3, Bounds DEF IInv, Check, Newer
  <2>3. /\ streamcount' = Header[1] /\ temp' = Header /\ ready' /\ ok' /\ asked' = frame
        /\ UNCHANGED <<misread, session, ranging, frame, flags, results>>
    BY <1>3 DEF Check, Judge
  <2>4. TypeOK'
    BY <1>1, <1>2, <2>2, <2>3 DEF TypeOK
  <2>5. ~misread => results < frame
    <3> SUFFICES ASSUME ~misread PROVE results < frame
      OBVIOUS
    <3>1. taken # frame
      BY <1>1, <2>1, Bounds DEF IInv, LastCount
    <3> QED BY <1>1, <3>1, Bounds DEF IInv
  <2>6. temp'[1] = Count(taken') /\ streamcount' = LastCount'
    BY <2>1, <2>2, <2>3, Bounds, <1>1 DEF LastCount
  <2> QED BY <1>1, <2>2, <2>3, <2>4, <2>5, <2>6, Bounds DEF IInv
<1>4. CASE ~IsNew(Header)
  <2>1. /\ temp' = Header /\ ready' = FALSE /\ ok' /\ asked' = frame
        /\ UNCHANGED <<misread, session, ranging, frame, flags, results, taken, streamcount>>
    BY <1>4 DEF Check, Judge
  <2>2. TypeOK'
    BY <1>1, <1>2, <2>1 DEF TypeOK
  <2> QED BY <1>1, <2>1, <2>2 DEF IInv, LastCount
<1> QED BY <1>3, <1>4

\* A read, complete or not, of the frame of the sensor takes over its count.
LEMMA ReadKeeps ==
  ASSUME IInv, ranging, ready, ReadFrame(Header),
         ok' \in BOOLEAN, taken' = Newer(taken, frame), results' \in {results, frame}
  PROVE  IInv'
<1>1. TypeOK /\ Header \in Word /\ Header[1] \in Byte
  BY HeaderType DEF IInv, Word
<1>2. taken' = frame
  BY <1>1, Bounds DEF IInv, Newer
<1>3. /\ streamcount' = Header[1] /\ temp' = Swap(Header) /\ ready' = FALSE
      /\ UNCHANGED <<session, ranging, frame, flags, asked, misread>>
  BY DEF ReadFrame
<1>4. TypeOK'
  BY <1>1, <1>2, <1>3, SwapType DEF TypeOK
<1>5. results' <= taken'
  BY <1>1, <1>2, Bounds DEF IInv
<1>6. ~misread => streamcount' = LastCount'
  <2> SUFFICES ASSUME ~misread PROVE streamcount' = LastCount'
    OBVIOUS
  <2>1. frame > 0
    BY <1>1, Bounds DEF IInv
  <2>2. Header[1] = Count(frame)
    BY <1>1, <2>1, HeaderType
  <2> QED BY <1>2, <1>3, <2>1, <2>2, Bounds, <1>1 DEF LastCount
<1> QED BY <1>1, <1>2, <1>3, <1>4, <1>5, <1>6, Bounds DEF IInv

LEMMA IInvInductive == IInv /\ [Next]_vars => IInv'
<1> SUFFICES ASSUME IInv, [Next]_vars PROVE IInv'
  OBVIOUS
<1> USE Bounds
<1>0. TypeOK
  BY DEF IInv
<1>1. CASE Start
  <2>1. TypeOK'
    <3>1. temp' \in Word
      BY <1>1, WordsType DEF Start
    <3>2. session' \in 0 .. MaxSession
      BY <1>0, <1>1, RangingAssumption DEF Start, TypeOK
    <3>3. {frame', asked', taken', results'} \subseteq 0 .. MaxFrame /\ streamcount' \in Byte
      <4>1. frame' = 0 /\ asked' = 0 /\ taken' = 0 /\ results' = 0 /\ streamcount' = 255
        BY <1>1 DEF Start
      <4> QED BY <1>0, <4>1, Bounds
    <3>4. {ready', ok', misread', ranging'} \subseteq BOOLEAN
      BY <1>1 DEF Start
    <3>5. flags' \in Flags
      BY <1>0, <1>1 DEF Start, TypeOK
    <3> QED BY <3>1, <3>2, <3>3, <3>4, <3>5, Zenon DEF TypeOK
  <2>2. streamcount' = LastCount'
    BY <1>1 DEF Start, LastCount
  <2> QED BY <1>0, <1>1, <2>1, <2>2 DEF Start, IInv
<1>2. CASE Stop
  <2>1. TypeOK'
    BY <1>0, <1>2 DEF Stop, TypeOK
  <2> QED BY <1>0, <1>2, <2>1 DEF Stop, IInv
<1>3. CASE NewFrame
  <2>1. TypeOK'
    BY <1>0, <1>3 DEF NewFrame, TypeOK
  <2>2. frame' = frame + 1 /\ frame < taken + MaxLag
    BY <1>3 DEF NewFrame
  <2> QED BY <1>0, <1>3, <2>1, <2>2 DEF NewFrame, IInv, LastCount
<1>4. CASE Check
  BY <1>4, CheckKeeps
<1>5. CASE CheckFails
  <2>1. temp[1] \in Byte
    BY <1>0 DEF TypeOK, Word
  <2>2. TypeOK'
    BY <1>0, <1>5, <2>1 DEF CheckFails, Judge, TypeOK
  <2> QED BY <1>0, <1>5, <2>2 DEF CheckFails, Judge, IInv
<1>6. CASE Get
  <2>1. taken' = Newer(taken, frame) /\ results' = frame /\ ok' \in BOOLEAN
    BY <1>6 DEF Get
  <2> QED BY <1>6, <2>1, ReadKeeps DEF Get
<1>7. CASE GetFails
  <2>1. CASE ReadFrame(Header) /\ taken' = Newer(taken, frame)
    <3>1. results' = results /\ ok' \in BOOLEAN /\ ranging /\ ready
      BY <1>7 DEF GetFails
    <3> QED BY <2>1, <3>1, ReadKeeps
  <2>2. CASE ReadFrame(temp) /\ UNCHANGED taken
    <3>1. temp \in Word /\ temp[1] \in Byte
      BY <1>0 DEF TypeOK, Word
    <3>2. /\ streamcount' = temp[1] /\ temp' = Swap(temp) /\ ready' = FALSE /\ ok' = FALSE
          /\ UNCHANGED <<session, ranging, frame, flags, asked, misread, taken, results>>
      BY <1>7, <2>2 DEF GetFails, ReadFrame
    <3>3. TypeOK'
      BY <1>0, <3>1, <3>2, SwapType DEF TypeOK
    <3>4. ~misread => streamcount' = LastCount'
      BY <1>0, <1>7, <3>2 DEF GetFails, IInv, LastCount
    <3> QED BY <1>0, <3>2, <3>3, <3>4 DEF IInv
  <2> QED BY <1>7, <2>1, <2>2 DEF GetFails
<1>8. CASE UNCHANGED vars
  BY <1>0, <1>8 DEF vars, IInv, TypeOK, LastCount
<1> QED BY <1>1, <1>2, <1>3, <1>4, <1>5, <1>6, <1>7, <1>8 DEF Next

\* Whatever fails and however counts wrap, all variables keep their types
\* (check_data_ready, get_ranging_data).
THEOREM TypeCorrect == Spec => []TypeOK
<1>1. IInv => TypeOK
  BY DEF IInv
<1> QED BY <1>1, IInvInit, IInvInductive, PTL DEF Spec

\* A check says "ready" only of a frame that was not delivered before, until a
\* check has misread (check_data_ready 660-673, get_ranging_data 687).
THEOREM FramesFresh == Spec => []ReadyMeansFresh
<1>1. IInv => ReadyMeansFresh
  <2> SUFFICES ASSUME IInv, ready, ~misread PROVE asked > results
    BY DEF ReadyMeansFresh
  <2>1. TypeOK
    BY DEF IInv
  <2> QED BY <2>1, Bounds DEF IInv
<1> QED BY <1>1, IInvInit, IInvInductive, PTL DEF Spec
-----------------------------------------------------------------------------
(* Nothing is passed over. This needs frames whose header bytes pass the test *)
(* of check_data_ready, and that the count of a frame tells it from the last. *)
FlagsComplete == \A f \in Flags : f[1] = 5 /\ HasBits(f[2], 1, 4) /\ HasBits(f[3], 16, 16)

SeenInv == IInv /\ (~misread => asked <= taken)

LEMMA SeenInit == Init => SeenInv
<1> SUFFICES ASSUME Init PROVE SeenInv
  OBVIOUS
<1> QED BY IInvInit DEF SeenInv, Init

LEMMA SeenInductive == FlagsComplete /\ SeenInv /\ [Next]_vars => SeenInv'
<1> SUFFICES ASSUME FlagsComplete, SeenInv, [Next]_vars, ~misread'
             PROVE  asked' <= taken'
  BY IInvInductive DEF SeenInv
<1>0. IInv /\ TypeOK /\ IInv'
  BY IInvInductive DEF SeenInv, IInv
<1> USE Bounds
<1>1. CASE Check
  <2>1. asked' = frame /\ ranging /\ ~misread
    BY <1>1 DEF Check
  <2>2. CASE IsNew(Header)
    BY <1>0, <1>1, <2>1, <2>2 DEF Check, Newer
  <2>3. CASE ~IsNew(Header)
    <3>1. taken' = taken /\ taken <= frame /\ frame <= taken + MaxLag
      BY <1>0, <1>1, <2>3 DEF Check, IInv
    <3>2. CASE frame = 0
      BY <1>0, <2>1, <3>1, <3>2
    <3>3. CASE frame > 0
      <4>1. Header = <<Count(frame), flags[1], flags[2], flags[3]>> /\ flags \in Flags
        BY <1>0, <3>3 DEF Header, TypeOK
      <4>2. Count(frame) # 255
        BY <1>0, <3>3, CountType
      <4>3. Count(frame) = streamcount
        BY <2>3, <4>1, <4>2 DEF IsNew, FlagsComplete
      <4>4. taken > 0 /\ Count(frame) = Count(taken)
        BY <1>0, <2>1, <4>2, <4>3 DEF IInv, LastCount
      <4>5. frame = taken
        BY <1>0, <3>1, <4>4, CountTells
      <4> QED BY <1>0, <2>1, <3>1, <4>5
    <3> QED BY <1>0, <3>2, <3>3
  <2> QED BY <2>2, <2>3
<1>2. CASE Start
  BY <1>2 DEF Start
<1>3. CASE Stop \/ NewFrame \/ UNCHANGED vars
  BY <1>3 DEF Stop, NewFrame, vars, SeenInv
<1>4. CASE CheckFails
  BY <1>4 DEF CheckFails
<1>5. CASE Get \/ GetFails
  <2>1. asked' = asked /\ ~misread /\ taken' \in {taken, Newer(taken, frame)}
    BY <1>5 DEF Get, GetFails, ReadFrame
  <2> QED BY <1>0, <2>1 DEF SeenInv, Newer
<1> QED BY <1>1, <1>2, <1>3, <1>4, <1>5 DEF Next

\* "not ready" is never said of a frame that was not yet reported or read, in
\* however many sessions and rounds of the count (start_ranging 495,
\* check_data_ready 660-673), if every frame passes the test for completeness.
THEOREM NoFramePassedOver == ASSUME FlagsComplete PROVE Spec => []NotReadyMeansSeen
<1>1. SeenInv => NotReadyMeansSeen
  BY DEF SeenInv, NotReadyMeansSeen
<1>2. SeenInv /\ [Next]_vars => SeenInv'
  BY SeenInductive
<1> QED BY <1>1, <1>2, SeenInit, PTL DEF Spec
=============================================================================
