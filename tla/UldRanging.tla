------------------------------ MODULE UldRanging ------------------------------
(***************************************************************************)
(* Frames of the ULD driver: check_data_ready and get_ranging_data against  *)
(* a sensor that ranges at its own pace, over a bus that may fail. The      *)
(* driver knows a new frame by its stream count, one byte that the sensor   *)
(* raises with every frame. Both functions and the poll of start_ranging    *)
(* read into the same temp_buffer, and get_ranging_data leaves it swapped,   *)
(* so a failed read leaves old bytes behind in one order or the other.       *)
(***************************************************************************)
EXTENDS Integers, Sequences, FiniteSets

CONSTANTS First,       \* the stream count of the first frame of a session
          Flags,       \* header bytes 1..3 of a complete frame
          Wrap,        \* the stream count runs through 0 .. Wrap - 1
          MaxLag,      \* frames the sensor may be ahead of the program
          MaxFrame,    \* bound: frames in a session
          MaxSession,  \* bound: ranging sessions
          MayFail      \* the calls whose bus read may fail

Byte == 0 .. 255
Word == [1 .. 4 -> Byte]

ASSUME RangingAssumption ==
  /\ First \in Byte /\ Wrap \in 1 .. 255 /\ First < Wrap
  /\ Flags \subseteq [1 .. 3 -> Byte]
  /\ MaxLag \in 1 .. Wrap - 1
  /\ MaxFrame \in Nat
  /\ MaxSession \in Nat
  /\ MayFail \subseteq {"check", "get"}

VARIABLES session,      \* number of the ranging session, 0 before the first
          ranging,      \* the sensor ranges
          frame,        \* number of the sensor's current frame, 0: none yet
          flags,        \* its header bytes 1..3
          temp,         \* p_dev->temp_buffer[0..3]
          streamcount,  \* p_dev->streamcount
          ready,        \* the last check answered 1 and the program goes by it
          ok,           \* the last call returned 0
          asked,        \* the frame the last successful check read
          taken,        \* the newest frame reported or read in the session
          results,      \* the newest frame a successful get delivered
          misread       \* the read of a check has failed in the session
vars == <<session, ranging, frame, flags, temp, streamcount, ready, ok, asked, taken, results, misread>>

Count(f) == (First + f - 1) % Wrap
Newer(f, g) == IF f > g THEN f ELSE g

\* The first bytes of the results area.
Header == IF frame = 0 THEN <<255, 0, 0, 0>>
          ELSE <<Count(frame), flags[1], flags[2], flags[3]>>

Swap(w) == <<w[4], w[3], w[2], w[1]>>

HasBits(b, low, high) == (b \div low) % 2 = 1 /\ (b \div high) % 2 = 1

\* Mutant: the flags are compared for equality.
IsNewExact(w) ==
  /\ w[1] # streamcount /\ w[1] # 255
  /\ w[2] = 5 /\ w[3] = 5 /\ HasBits(w[4], 16, 16)

\* The test of check_data_ready: a new count, 0x05, 0x05 and 0x10 set.
IsNew(w) ==
  /\ w[1] # streamcount /\ w[1] # 255
  /\ w[2] = 5 /\ HasBits(w[3], 1, 4) /\ HasBits(w[4], 16, 16)

TypeOK ==
  /\ session \in 0 .. MaxSession /\ ranging \in BOOLEAN
  /\ frame \in 0 .. MaxFrame
  /\ flags \in Flags
  /\ temp \in Word /\ streamcount \in Byte
  /\ ready \in BOOLEAN /\ ok \in BOOLEAN
  /\ asked \in 0 .. MaxFrame /\ taken \in 0 .. MaxFrame /\ results \in 0 .. MaxFrame
  /\ misread \in BOOLEAN

Init ==
  /\ session = 0 /\ ranging = FALSE
  /\ frame = 0 /\ flags \in Flags
  /\ temp = <<0, 0, 0, 0>> /\ streamcount = 0
  /\ ready = FALSE /\ ok = TRUE
  /\ asked = 0 /\ taken = 0 /\ results = 0
  /\ misread = FALSE
-----------------------------------------------------------------------------
\* Mutant: the count of the last session is kept.
StartKeepsCount ==
  /\ ~ranging /\ session < MaxSession
  /\ session' = session + 1 /\ ranging' = TRUE
  /\ temp' = <<0, 3, 0, 0>>
  /\ ready' = FALSE /\ ok' = TRUE
  /\ frame' = 0 /\ asked' = 0 /\ taken' = 0 /\ results' = 0 /\ misread' = FALSE
  /\ UNCHANGED <<flags, streamcount>>

\* Mutant: the count is reset to a value no byte holds.
StartOutside ==
  /\ ~ranging /\ session < MaxSession
  /\ session' = session + 1 /\ ranging' = TRUE
  /\ streamcount' = 256
  /\ temp' = <<0, 3, 0, 0>>
  /\ ready' = FALSE /\ ok' = TRUE
  /\ frame' = 0 /\ asked' = 0 /\ taken' = 0 /\ results' = 0 /\ misread' = FALSE
  /\ UNCHANGED flags

\* vl53l5cx_start_ranging: 255 is no frame's count; the poll for the answer
\* leaves the status word of the command in temp_buffer.
Start ==
  /\ ~ranging /\ session < MaxSession
  /\ session' = session + 1 /\ ranging' = TRUE
  /\ streamcount' = 255
  /\ temp' = <<0, 3, 0, 0>>
  /\ ready' = FALSE /\ ok' = TRUE
  /\ frame' = 0 /\ asked' = 0 /\ taken' = 0 /\ results' = 0 /\ misread' = FALSE
  /\ UNCHANGED flags

Stop ==
  /\ ranging
  /\ ranging' = FALSE /\ ready' = FALSE
  /\ UNCHANGED <<session, frame, flags, temp, streamcount, ok, asked, taken, results, misread>>

\* The sensor puts the next frame into the results area. A program that lets a
\* whole round of the count pass without a look may well miss a frame.
NewFrame ==
  /\ ranging /\ frame < MaxFrame /\ frame < taken + MaxLag
  /\ frame' = frame + 1
  /\ flags' \in Flags
  /\ UNCHANGED <<session, ranging, temp, streamcount, ready, ok, asked, taken, results, misread>>

\* vl53l5cx_check_data_ready with w in temp_buffer; the count is taken over
\* whatever the status of the read was.
Judge(w) ==
  /\ streamcount' = IF IsNew(w) THEN w[1] ELSE streamcount
  /\ UNCHANGED <<session, ranging, frame, flags, results>>

Check ==
  /\ ranging /\ ~ready
  /\ temp' = Header
  /\ Judge(Header)
  /\ ready' = IsNew(Header) /\ ok' = TRUE
  /\ asked' = frame /\ UNCHANGED misread
  /\ taken' = IF IsNew(Header) THEN Newer(taken, frame) ELSE taken

\* The program looks at the status and does not use the answer.
CheckFails ==
  /\ "check" \in MayFail /\ ranging /\ ~ready
  /\ Judge(temp)
  /\ ready' = FALSE /\ ok' = FALSE /\ misread' = TRUE
  /\ UNCHANGED <<temp, asked, taken>>

\* Mutant: the count stays that of the check.
ReadFrameKeepsCount(w) ==
  /\ temp' = Swap(w)
  /\ ready' = FALSE
  /\ UNCHANGED <<session, ranging, frame, flags, asked, streamcount, misread>>

\* vl53l5cx_get_ranging_data up to the swap, with w in temp_buffer.
ReadFrame(w) ==
  /\ streamcount' = w[1]
  /\ temp' = Swap(w)
  /\ ready' = FALSE
  /\ UNCHANGED <<session, ranging, frame, flags, asked, misread>>

Get ==
  /\ ranging /\ ready
  /\ ReadFrame(Header)
  /\ ok' = TRUE
  /\ taken' = Newer(taken, frame)
  /\ results' = frame

\* The read fails before or after its first chunk has arrived.
GetFails ==
  /\ "get" \in MayFail /\ ranging /\ ready
  /\ \/ ReadFrame(temp) /\ UNCHANGED taken
     \/ ReadFrame(Header) /\ taken' = Newer(taken, frame)
  /\ ok' = FALSE
  /\ UNCHANGED results

Next == Start \/ Stop \/ NewFrame \/ Check \/ CheckFails \/ Get \/ GetFails

\* The program keeps checking and fetches what is ready (Example_1: the loop of
\* check_data_ready, get_ranging_data and WaitMs).
Spec == Init /\ [][Next]_vars /\ WF_vars(Check) /\ WF_vars(Get)
-----------------------------------------------------------------------------
(* Properties                                                               *)

\* "not ready" is never said of a frame that was not yet reported or read:
\* not for the first frame after a restart, not at the wrap of the count
\* (check_data_ready 660-673, start_ranging 495). A check that misread the
\* header may have taken the count of any frame.
NotReadyMeansSeen == ok /\ ~ready /\ ~misread => asked <= taken

\* Until a check has misread, one that says "ready" has read a frame that was not
\* delivered before, though the sensor goes on between a check and a read and though
\* reads fail (get_ranging_data 687 takes over the count of the frame it read).
ReadyMeansFresh == ok /\ ready /\ ~misread => asked > results

\* "1 if a new data is ready" (vl53l5cx_api.h, check_data_ready): the same for
\* every check that succeeds.
ReadyMeansNew == ok /\ ready => asked > results

\* A frame that was not yet reported is delivered, or a newer one is, unless the
\* session ends or a read fails on the way.
FrameDelivered ==
  \A f \in 1 .. MaxFrame :
    (ranging /\ frame = f /\ taken < f) ~> (results >= f \/ ~ranging \/ ~ok \/ misread)
=============================================================================
