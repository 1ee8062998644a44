-------------------------- MODULE DetectionThresholds --------------------------
(***************************************************************************)
(* The detection thresholds plugin. A program fills an array of checkers,   *)
(* each with the measurement it watches and a low and a high threshold in    *)
(* the unit of the measurement; the driver turns the thresholds into the     *)
(* format of the firmware, in the program's own array, and back.            *)
(***************************************************************************)
EXTENDS Integers, Sequences

CONSTANTS Arrays,      \* the arrays programs fill in
          MaxScaled,   \* bound: no threshold beyond it is scaled again
          MaxFaults    \* bound: exchanges that fail

Measurements == {"distance", "signal", "sigma", "ambient", "targets", "status", "spads", "motion"}
Checker == [m : Measurements, low : Int, high : Int]
Unknown == 255

VARIABLES array,      \* the program's array
          given,      \* the array as the last call was given it
          checkers,   \* the checkers in the firmware
          global,     \* byte 1 of the global configuration: thresholds enabled
          interrupt,  \* byte 0x11 of the interrupt configuration
          asked,      \* what the last change of the enable flag that returned 0 asked
          enabled,    \* the program's *p_enabled
          call, pc, flag, status, faults
vars == <<array, given, checkers, global, interrupt, asked, enabled, call, pc, flag, status, faults>>
Bytes == <<global, interrupt, asked, enabled>>

TypeOK ==
  /\ \A a \in {array, given, checkers} : \A k \in DOMAIN a : a[k] \in Checker
  /\ DOMAIN checkers = DOMAIN array
  /\ global \in {0, 1} /\ interrupt \in {4, 12}
  /\ asked \in {0, 1, Unknown} /\ enabled \in {0, 1, Unknown}
  /\ call \in {"none", "set", "get", "enable", "enabled"} /\ pc \in 0 .. 2
  /\ flag \in 0 .. 2 /\ status \in {"ok", "error"} /\ faults \in 0 .. MaxFaults

Nothing(a) == [k \in DOMAIN a |-> [m |-> "distance", low |-> 0, high |-> 0]]

Init ==
  /\ array \in Arrays /\ given = array
  /\ checkers = Nothing(array)
  /\ global = 0 /\ interrupt = 12 /\ asked = 0 /\ enabled = Unknown
  /\ call = "none" /\ pc = 0 /\ flag = 0 /\ status = "ok" /\ faults = 0
-----------------------------------------------------------------------------
Factor == [distance |-> 4, signal |-> 2048, sigma |-> 128, ambient |-> 2048,
           targets |-> 1, status |-> 1, spads |-> 256, motion |-> 65535]

\* Division of C: towards zero.
Quotient(x, y) == IF x < 0 THEN -((-x) \div y) ELSE x \div y

Convert(a, Op(_, _), factor) ==
  [k \in DOMAIN a |-> [m |-> a[k].m, low |-> Op(a[k].low, factor), high |-> Op(a[k].high, factor)]]

\* Both loops look at the measurement of the first checker.
ToFirmware(a) == Convert(a, LAMBDA x, y : x * y, Factor[a[1].m])

\* Mutant: the thresholds are rounded down, after one more division.
FromFirmwareDown(a) == Convert(a, LAMBDA x, y : x \div (2 * y), Factor[a[1].m])

FromFirmware(a) == Convert(a, Quotient, Factor[a[1].m])

\* The program fills its array.
Fill ==
  /\ call = "none"
  /\ array' \in {a \in Arrays : DOMAIN a = DOMAIN array}
  /\ UNCHANGED <<given, checkers, Bytes, call, pc, flag, status, faults>>

\* A call begins. set_detection_thresholds scales the array in place, so that an
\* array set twice is scaled twice.
Begin(name) ==
  /\ call = "none" /\ call' = name /\ pc' = 1 /\ status' = "ok"
  /\ given' = array
  /\ \/ /\ name = "set"
        /\ \A k \in DOMAIN array : -MaxScaled <= array[k].low /\ array[k].high <= MaxScaled
        /\ array' = ToFirmware(array)
        /\ UNCHANGED flag
     \/ name = "enable" /\ flag' \in 0 .. 2 /\ UNCHANGED array
     \/ name \in {"get", "enabled"} /\ UNCHANGED <<array, flag>>
  /\ UNCHANGED <<checkers, Bytes, faults>>

\* An exchange that fails may have been carried out or not; the function goes on.
Outcome(failed) ==
  /\ status' = IF failed THEN "error" ELSE status
  /\ IF failed THEN faults < MaxFaults /\ faults' = faults + 1 ELSE UNCHANGED faults

Step(name, at, last) ==
  /\ call = name /\ pc = at
  /\ IF last THEN call' = "none" /\ pc' = 0 ELSE pc' = at + 1 /\ UNCHANGED call

\* The statuses of valid targets are always the same.
SendTargets(failed) ==
  /\ Step("set", 1, FALSE) /\ Outcome(failed)
  /\ UNCHANGED <<array, given, checkers, Bytes, flag>>

SendCheckers(failed) ==
  /\ Step("set", 2, TRUE) /\ Outcome(failed)
  /\ checkers' = array \/ (failed /\ UNCHANGED checkers)
  /\ UNCHANGED <<array, given, Bytes, flag>>

\* When the read fails the array is what temp_buffer held, divided all the same.
ReadCheckers(failed) ==
  /\ Step("get", 1, TRUE) /\ Outcome(failed)
  /\ array' = FromFirmware(checkers) \/ (failed /\ array' = Nothing(array))
  /\ UNCHANGED <<given, checkers, Bytes, flag>>

\* dci_replace_data of the global configuration.
SendGlobal(failed) ==
  /\ Step("enable", 1, FALSE) /\ Outcome(failed)
  /\ global' = (IF flag = 1 THEN 1 ELSE 0) \/ (failed /\ UNCHANGED global)
  /\ UNCHANGED <<array, given, checkers, interrupt, asked, enabled, flag>>

Asked == asked' = IF status' # "ok" THEN Unknown ELSE IF flag = 1 THEN 1 ELSE 0

\* Mutant: the interrupt configuration is changed only to enable.
SendInterruptOnce(failed) ==
  /\ Step("enable", 2, TRUE) /\ Outcome(failed) /\ Asked
  /\ interrupt' = (IF flag = 1 THEN 4 ELSE interrupt) \/ (failed /\ UNCHANGED interrupt)
  /\ UNCHANGED <<array, given, checkers, global, enabled, flag>>

\* dci_replace_data of the interrupt configuration.
SendInterrupt(failed) ==
  /\ Step("enable", 2, TRUE) /\ Outcome(failed) /\ Asked
  /\ interrupt' = (IF flag = 1 THEN 4 ELSE 12) \/ (failed /\ UNCHANGED interrupt)
  /\ UNCHANGED <<array, given, checkers, global, enabled, flag>>

\* get_detection_thresholds_enable.
ReadEnabled(failed) ==
  /\ Step("enabled", 1, TRUE) /\ Outcome(failed)
  /\ enabled' = global \/ (failed /\ enabled' = Unknown)
  /\ UNCHANGED <<array, given, checkers, global, interrupt, asked, flag>>

Next ==
  \/ Fill
  \/ \E name \in {"set", "get", "enable", "enabled"} : Begin(name)
  \/ \E failed \in BOOLEAN :
       \/ SendTargets(failed) \/ SendCheckers(failed) \/ ReadCheckers(failed)
       \/ SendGlobal(failed) \/ SendInterrupt(failed) \/ ReadEnabled(failed)

Spec == Init /\ [][Next]_vars
-----------------------------------------------------------------------------
(* Properties                                                               *)

\* Reading the checkers back undoes the conversion in place, for thresholds of either
\* sign, for every mix of measurements and for an array set twice: both
\* conversions go by the same checker (get 118-152, set 165-195).
ReadBack ==
  [][ReadCheckers(FALSE) =>
       \A a \in Arrays : checkers = ToFirmware(a) => array' = a]_vars

\* While the last change of the enable flag is one that returned 0, the global
\* flag, the interrupt configuration and what the program reads agree with it,
\* whatever failed in earlier calls (66-107).
EnableConsistent ==
  call = "none" /\ asked # Unknown =>
    /\ global = asked
    /\ interrupt = IF asked = 1 THEN 4 ELSE 12

\* "the format is automatically updated inside driver"
\* (Example_9_detection_thresholds.c): every checker gets the format of its own
\* measurement.
FormatUpdated ==
  [][SendCheckers(FALSE) =>
       \A k \in DOMAIN given :
         /\ checkers'[k].low = given[k].low * Factor[given[k].m]
         /\ checkers'[k].high = given[k].high * Factor[given[k].m]]_vars
=============================================================================
