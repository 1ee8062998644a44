----------------------------- MODULE UldExamples -----------------------------
(***************************************************************************)
(* The menu program: menu.c and the eleven examples it starts, as sequences *)
(* of calls into the driver library. What distinguishes the examples is the *)
(* order of their calls and what they do with the status of each. A call is *)
(* one step here, which may fail with or without its effect; UldSession and  *)
(* UldSettings take the calls apart.                                        *)
(***************************************************************************)
EXTENDS Integers, Sequences

CONSTANTS Frames,     \* frames an example asks for, 10
          MaxFaults   \* calls that may fail

VARIABLES present,   \* the device at the address is a VL53L5CX
          ex,        \* the example chosen last, 0 before the first, Exit after the last
          step,      \* its next call, 0 in the menu
          ok,        \* the variable status is 0
          loop,      \* the variable loop
          sensor,    \* "unknown", "idle", "ranging" or "asleep"
          fresh,     \* a frame has not been read yet
          faults
vars == <<present, ex, step, ok, loop, sensor, fresh, faults>>

\* What becomes of the status of a call: an error ends the example, it is only
\* noted, or it is dropped.
Must(call)  == [call |-> call, status |-> "tested"]
Notes(call) == [call |-> call, status |-> "noted"]
Drops(call) == [call |-> call, status |-> "dropped"]

Begin == <<Must("is_alive"), Must("init")>>
\* Mutant: as in Example_1, the status of stop_ranging is dropped.
PollDropsStop == <<Notes("start"), Notes("check"), Drops("stop")>>

Poll  == <<Notes("start"), Notes("check"), Notes("stop")>>
\* WaitForL5Interrupt is a stub that always answers 0.
Await == <<Notes("start"), Drops("await"), Notes("stop")>>
Thresholds == <<Drops("set"), Drops("set")>>
Crosstalk  == <<Must("calibrate"), Notes("get"), Notes("set")>>

Example1  == Begin \o <<Notes("start"), Notes("check"), Drops("stop")>>
Example2  == Begin \o <<Must("set"), Must("set"), Must("set"), Must("get")>> \o Poll
Example3  == Begin \o <<Must("set"), Notes("set")>> \o Poll \o <<Must("set")>> \o Poll
Example4  == Begin \o <<Must("sleep"), Must("wakeup")>> \o Poll
Example5  == Begin \o Poll
Example6  == Begin \o Poll
Example7  == Begin \o Crosstalk \o Poll
Example8  == Begin \o Crosstalk \o Poll
Example9  == Begin \o Thresholds \o <<Notes("set")>> \o Await
Example10 == Begin \o <<Must("set"), Must("set"), Notes("set")>> \o Poll
Example11 == Begin \o <<Must("set"), Must("set"), Notes("set"), Notes("set"), Notes("set"),
                        Notes("set")>> \o Thresholds \o Await

Menu == <<Example1, Example2, Example3, Example4, Example5, Example6, Example7, Example8,
          Example9, Example10, Example11>>

Exit == Len(Menu) + 1

Now == Menu[ex][step]
Running(call) == step # 0 /\ Now.call = call

TypeOK ==
  /\ present \in BOOLEAN /\ ex \in 0 .. Exit
  /\ step \in 0 .. (IF ex \in {0, Exit} THEN 0 ELSE Len(Menu[ex]))
  /\ ok \in BOOLEAN /\ loop \in 0 .. Frames /\ fresh \in BOOLEAN
  /\ sensor \in {"unknown", "idle", "ranging", "asleep"}
  /\ faults \in 0 .. MaxFaults

Init ==
  /\ present \in BOOLEAN /\ ex = 0 /\ step = 0 /\ ok = TRUE /\ loop = 0
  /\ sensor = "unknown" /\ fresh = FALSE /\ faults = 0
-----------------------------------------------------------------------------
\* The user types the number of an example.
Choose(e) ==
  /\ step = 0 /\ ex # Exit
  /\ ex' = e /\ step' = 1 /\ loop' = 0
  /\ UNCHANGED <<present, ok, sensor, fresh, faults>>

\* The user types 12, or the device could not be opened. The sensor stays as it is.
Leave ==
  /\ step = 0 /\ ex # Exit
  /\ ex' = Exit
  /\ UNCHANGED <<present, step, ok, loop, sensor, fresh, faults>>

\* A call has returned 0 (good) or an error; a tested error goes back to the menu.
GoOn(good) ==
  /\ ok' = IF Now.status = "dropped" THEN ok ELSE good
  /\ step' = IF step = Len(Menu[ex]) \/ (Now.status = "tested" /\ ~good) THEN 0 ELSE step + 1
  /\ UNCHANGED <<present, ex, loop>>

\* is_alive of another device returns 0, and so does the example.
IsAlive ==
  /\ Running("is_alive")
  /\ ok' = TRUE /\ step' = IF present THEN 2 ELSE 0
  /\ UNCHANGED <<present, ex, loop, sensor, fresh, faults>>

\* What a call does to the sensor: init reboots it, a calibration ranges and stops.
After(call) ==
  IF call \in {"init", "stop", "wakeup", "calibrate"} THEN "idle"
  ELSE IF call = "start" THEN "ranging"
  ELSE IF call = "sleep" THEN "asleep"
  ELSE sensor

Loops == {"check", "await"}

Works ==
  /\ step # 0 /\ Now.call \notin Loops \cup {"is_alive"}
  /\ sensor' = After(Now.call)
  /\ fresh' = (fresh /\ sensor' = "ranging")
  /\ GoOn(TRUE) /\ UNCHANGED faults

\* What an error leaves: the effect or none, and after init or in the middle of
\* a calibration something else.
Fails ==
  /\ step # 0 /\ Now.call \notin Loops /\ faults < MaxFaults
  /\ sensor' \in {sensor, After(Now.call)}
                   \cup (IF Now.call = "init" THEN {"unknown"} ELSE {})
                   \cup (IF Now.call = "calibrate" THEN {"ranging"} ELSE {})
  /\ fresh' = (fresh /\ sensor' = "ranging")
  /\ GoOn(FALSE) /\ faults' = faults + 1

NewFrame ==
  /\ sensor = "ranging" /\ ~fresh
  /\ fresh' = TRUE
  /\ UNCHANGED <<present, ex, step, ok, loop, sensor, faults>>

\* Mutant: a frame is not counted.
RoundUncounted(good, read) ==
  /\ loop < Frames
  /\ ok' = IF Now.status = "dropped" THEN ok ELSE good
  /\ fresh' = (fresh /\ ~read)
  /\ UNCHANGED <<present, ex, step, sensor, loop>>

\* One round of while(loop < 10): the check, and if it says so the read of the frame,
\* whose status nobody looks at.
Round(good, read) ==
  /\ loop < Frames
  /\ ok' = IF Now.status = "dropped" THEN ok ELSE good
  /\ fresh' = (fresh /\ ~read)
  /\ loop' = IF read THEN loop + 1 ELSE loop
  /\ UNCHANGED <<present, ex, step, sensor>>

Frame == Running("check") /\ fresh /\ Round(TRUE, TRUE) /\ UNCHANGED faults

NoFrame ==
  /\ \/ Running("check") /\ ~fresh
     \/ Running("await")
  /\ Round(TRUE, FALSE) /\ UNCHANGED faults

\* The answer of a check that failed is whatever temp_buffer makes of it.
CheckFails ==
  /\ Running("check") /\ faults < MaxFaults
  /\ \E read \in BOOLEAN : Round(FALSE, read)
  /\ faults' = faults + 1

LoopEnds ==
  /\ step # 0 /\ Now.call \in Loops /\ loop = Frames
  /\ step' = step + 1 /\ loop' = 0
  /\ UNCHANGED <<present, ex, ok, sensor, fresh, faults>>

Program == IsAlive \/ Works \/ Frame \/ NoFrame \/ LoopEnds

Next == Program \/ Fails \/ CheckFails \/ NewFrame \/ Leave \/ \E e \in 1 .. Len(Menu) : Choose(e)

\* The program runs on once an example is chosen, and a sensor that ranges
\* measures; nobody need choose.
Spec == Init /\ [][Next]_vars /\ WF_vars(Program) /\ WF_vars(NewFrame)
-----------------------------------------------------------------------------
(* Properties                                                               *)

\* Whenever the last status an example has seen is 0, the sensor is idle when the
\* example is about to change settings or power, and when it has returned: whatever
\* the examples before it left, and whatever failed. Example 1 alone drops the
\* status of stop_ranging, and no example gets far with another device.
IdleWhenOk ==
  /\ step # 0 /\ Now.call \in {"set", "get", "sleep", "calibrate"} /\ ok => sensor = "idle"
  /\ step = 0 /\ ex \notin {0, 1, Exit} /\ ok /\ present => sensor = "idle"

\* A loop that polls a sensor that ranges comes to its end, whatever checks fail.
SessionEnds == Running("check") /\ sensor = "ranging" ~> ~Running("check")
=============================================================================
