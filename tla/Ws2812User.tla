------------------------------ MODULE Ws2812User ------------------------------
(***************************************************************************)
(* The LED program ws2812-user and the driver it writes to. The program cuts *)
(* its three arguments to the range of a byte and writes them to the sysfs   *)
(* file; others, a shell say, write to the same file what they like, while    *)
(* the program does not run.                                                *)
(***************************************************************************)
EXTENDS Ws2812

CONSTANTS Requests   \* the arguments of a run: none, or three numbers

ASSUME RequestsAssumption == Requests \subseteq {<<>>} \cup (Int \X Int \X Int)

VARIABLES asked,     \* the arguments
          user,      \* "none", "open", "flush", "store", "done" or "failed"
          stored     \* the driver has taken the text
uvars == <<asked, user, stored>>

UserTypeOK ==
  /\ asked \in Requests \cup {<<>>}
  /\ user \in {"none", "open", "flush", "store", "done", "failed"}
  /\ stored \in BOOLEAN

UserInit == Init /\ asked = <<>> /\ user = "none" /\ stored = FALSE

\* Mutant: only negative numbers are cut.
ClampBelow(x) == IF x < 0 THEN 0 ELSE x
Clamp(x) == IF x < 0 THEN 0 ELSE IF x > 255 THEN 255 ELSE x

\* What main writes; red without three arguments.
Text ==
  IF Len(asked) < 3 THEN [r |-> Clamp(50), g |-> Clamp(0), b |-> Clamp(0)]
  ELSE [r |-> Clamp(asked[1]), g |-> Clamp(asked[2]), b |-> Clamp(asked[3])]
-----------------------------------------------------------------------------
Running == user \in {"open", "flush", "store"}

Start ==
  /\ ~Running
  /\ asked' \in Requests /\ user' = "open" /\ stored' = FALSE
  /\ UNCHANGED vars

Fopen ==
  /\ user = "open" /\ user' \in {"flush", "failed"}
  /\ UNCHANGED <<vars, asked, stored>>

\* fclose writes what fprintf has buffered; nobody looks whether that fails.
Flush(w) ==
  /\ user = "flush" /\ user' = "store"
  /\ \/ Store(w) /\ cmd'[w] = Text /\ stored' = TRUE
     \/ UNCHANGED <<vars, stored>>
  /\ UNCHANGED asked

\* The write has returned: "Set RGB" is printed, true or not.
Finish ==
  /\ user = "store" /\ \A w \in Writers : pc[w] = "idle"
  /\ user' = "done" /\ UNCHANGED <<vars, asked, stored>>

\* Somebody else writes to the file.
Others(w) == ~Running /\ Store(w) /\ user' = "none" /\ UNCHANGED <<asked, stored>>

Driver ==
  /\ Latch \/ \E w \in Writers : Fill(w) \/ Send(w) \/ Return(w)
  /\ UNCHANGED uvars

UserNext == Start \/ Fopen \/ Finish \/ Driver \/ \E w \in Writers : Flush(w) \/ Others(w)

UserSpec == UserInit /\ [][UserNext]_<<vars, uvars>>
-----------------------------------------------------------------------------
(* Properties                                                               *)

\* x is the channel the strip can show that is nearest to the request.
Nearest(x, request) ==
  IF request \in Byte THEN x = request ELSE x = IF request < 0 THEN 0 ELSE 255

\* When the program ends well and the driver has taken its text, every LED shows the
\* colour nearest to the one asked for, though the driver itself takes an int modulo
\* 256 (main 20-33, colors_store 83-104).
RequestShown ==
  user = "done" /\ stored =>
    \A led \in Led :
      /\ Len(asked) = 3 => /\ Nearest(shown[led].r, asked[1])
                           /\ Nearest(shown[led].g, asked[2])
                           /\ Nearest(shown[led].b, asked[3])
      /\ Len(asked) < 3 => shown[led] = [r |-> 50, g |-> 0, b |-> 0]
=============================================================================
