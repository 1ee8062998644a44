------------------------------- MODULE Rcwl1670 -------------------------------
(***************************************************************************)
(* The water level monitor rcwl1670-user: the gpio lines are requested, then *)
(* rounds of SAMPLE_COUNT measurements follow, each a trigger, a wait for    *)
(* the echo line to rise and a wait for it to fall, both with a timeout;     *)
(* the mean of the valid ones is printed. The line is polled, and a poll that *)
(* fails returns -1, which is neither of the levels waited for. The sensor    *)
(* answers a trigger with one pulse, after any time and for any time, or      *)
(* not at all, and takes no notice of a trigger before its pulse is over.    *)
(***************************************************************************)
EXTENDS Integers

CONSTANTS Timeout,      \* TIMEOUT_US, in units of time
          SampleCount   \* SAMPLE_COUNT

VARIABLES held,     \* the gpio objects the program holds
          pulse,    \* "quiet", "armed" or "high": what the sensor is about
          own,      \* the pulse answers the measurement under way
          misread,  \* history: the measurements with a failed poll, of "this" and "last"
          at,       \* where the program is
          clock,    \* time since the wait began
          duration, \* what the last measurement returned: "none", "valid" or "timeout"
          sample,   \* the loop counter of main
          valid, sum,
          printed   \* whether the last round printed a distance
vars == <<held, pulse, own, misread, at, clock, duration, sample, valid, sum, printed>>

Objects == {"chip", "req_cfg", "settings", "line_cfg", "trig", "echo"}
Opening == {"chip", "config", "trig", "echo"}

TypeOK ==
  /\ held \subseteq Objects
  /\ pulse \in {"quiet", "armed", "high"} /\ own \in BOOLEAN
  /\ misread \subseteq {"this", "last"}
  /\ at \in Opening \cup {"trigger", "rise", "fall", "print", "exit"}
  /\ clock \in 0 .. Timeout + 1
  /\ duration \in {"none", "valid", "timeout"}
  /\ sample \in 0 .. SampleCount /\ valid \in 0 .. sample
  /\ sum \in valid .. valid * (Timeout + 1)
  /\ printed \in BOOLEAN

Init ==
  /\ held = {} /\ at = "chip"
  /\ pulse \in {"quiet", "armed", "high"} /\ own = FALSE /\ misread = {}
  /\ clock = 0 /\ duration = "none"
  /\ sample = 0 /\ valid = 0 /\ sum = 0 /\ printed = FALSE

echoLine == IF pulse = "high" THEN 1 ELSE 0
-----------------------------------------------------------------------------
(* The lines. A step that fails gives back what was taken and returns 1.     *)

Got(objects, next) == held' = objects /\ at' = next
Measuring == <<pulse, own, misread, clock, duration, sample, valid, sum, printed>>

OpenChip ==
  /\ at = "chip"
  /\ Got({"chip"}, "config") \/ Got(held, "exit")
  /\ UNCHANGED Measuring

NewConfig ==
  /\ at = "config"
  /\ Got(held \cup {"req_cfg"}, "trig") \/ Got(held \ {"chip"}, "exit")
  /\ UNCHANGED Measuring

\* settings and line_cfg are freed whether the request succeeds or not.
RequestTrig ==
  /\ at = "trig"
  /\ \/ Got(held \cup {"trig"}, "echo")
     \/ Got(held \ {"req_cfg", "chip"}, "exit")
  /\ UNCHANGED Measuring

RequestEcho ==
  /\ at = "echo"
  /\ \/ Got((held \cup {"echo"}) \ {"req_cfg"}, "trigger")
     \/ Got(held \ {"req_cfg", "trig", "chip"}, "exit")
  /\ UNCHANGED Measuring

Open == OpenChip \/ NewConfig \/ RequestTrig \/ RequestEcho
-----------------------------------------------------------------------------
(* The sensor moves at any time, also between two polls.                     *)

Raise ==
  /\ pulse = "armed" /\ pulse' = "high"
  /\ UNCHANGED <<held, own, misread, at, clock, duration, sample, valid, sum, printed>>

Drop ==
  /\ pulse = "high" /\ pulse' = "quiet"
  /\ UNCHANGED <<held, own, misread, at, clock, duration, sample, valid, sum, printed>>
-----------------------------------------------------------------------------
(* measure_once and the loop of main.                                       *)

\* Only a quiet sensor takes the trigger, and it may find nothing to answer.
Trigger ==
  /\ at = "trigger" /\ at' = "rise" /\ clock' = 0
  /\ own' = (pulse = "quiet")
  /\ misread' = IF "this" \in misread THEN {"last"} ELSE {}
  /\ pulse' \in IF pulse = "quiet" THEN {"quiet", "armed"} ELSE {pulse}
  /\ UNCHANGED <<held, duration, sample, valid, sum, printed>>

\* The clock stands still once it is beyond the timeout.
Tick ==
  /\ at \in {"rise", "fall"} /\ clock <= Timeout
  /\ clock' = clock + 1
  /\ UNCHANGED <<held, pulse, own, misread, at, duration, sample, valid, sum, printed>>

\* measure_once returns; a duration of 0 and -1 are not counted.
Sample(d) ==
  /\ sample' = sample + 1
  /\ duration' = IF d >= 0 THEN "valid" ELSE "timeout"
  /\ valid' = IF d > 0 THEN valid + 1 ELSE valid
  /\ sum' = IF d > 0 THEN sum + d ELSE sum
  /\ at' = IF sample' = SampleCount THEN "print" ELSE "trigger"

\* A loop ends with the first poll that does not return the level it looks for: the
\* other level, or the -1 of a poll that failed.
Leaves(level) ==
  \/ echoLine # level /\ UNCHANGED misread
  \/ misread' = misread \cup {"this"}

Rise ==
  /\ at = "rise" /\ Leaves(0)
  /\ at' = "fall" /\ clock' = 0
  /\ UNCHANGED <<held, pulse, own, duration, sample, valid, sum, printed>>

Fall ==
  /\ at = "fall" /\ Leaves(1)
  /\ Sample(clock) /\ UNCHANGED <<held, pulse, own, clock, printed>>

Late == \/ at = "rise" /\ echoLine = 0
        \/ at = "fall" /\ echoLine = 1

\* Mutant: a measurement that timed out is made again.
ExpireRetries ==
  /\ Late /\ clock > Timeout
  /\ at' = "trigger" /\ duration' = "timeout"
  /\ UNCHANGED <<held, pulse, own, misread, clock, sample, valid, sum, printed>>

\* Mutant: the time measured so far is returned.
ExpireCounts ==
  /\ Late /\ clock > Timeout
  /\ Sample(clock) /\ UNCHANGED <<held, pulse, own, misread, clock, printed>>

\* The line is polled once more after the time is over.
Expire ==
  /\ Late /\ clock > Timeout
  /\ Sample(-1) /\ UNCHANGED <<held, pulse, own, misread, clock, printed>>

\* The mean is printed if there is one, and the next round begins.
Report ==
  /\ at = "print" /\ at' = "trigger"
  /\ printed' = (valid # 0)
  /\ sample' = 0 /\ valid' = 0 /\ sum' = 0
  /\ UNCHANGED <<held, pulse, own, misread, clock, duration>>

Program == Open \/ Trigger \/ Tick \/ Rise \/ Fall \/ Expire \/ Report
Next == Program \/ Raise \/ Drop

Spec == Init /\ [][Next]_vars

\* The clock goes on and the program is scheduled.
FairSpec == Spec /\ WF_vars(Program)
-----------------------------------------------------------------------------
(* Properties                                                               *)

\* No echo line, stuck, moving at the worst moment or failing to be read, keeps the
\* program from its next report (24-51, 124-131).
ReportsGoOn == []<>(at \in {"print", "exit"})

\* What is timed is a pulse, and it answers the trigger of its own measurement, if
\* the measurement before ended with the fall of its echo and no poll of the line has
\* failed in either: a late echo, or a poll that fails, spoils one measurement
\* after its own and no second one (measure_once 30-51).
OwnEcho ==
  at = "fall" /\ duration = "valid" /\ misread = {} => own /\ pulse # "armed"

\* The program never exits with a line or a chip in its hands (main 69-121).
NothingHeld == at = "exit" => held = {}
=============================================================================
