----------------------------- MODULE MCUldPlugins -----------------------------
(***************************************************************************)
(* The three parts of the driver library that share no state with one       *)
(* another, checked side by side: the layout of a frame, the detection       *)
(* thresholds and the motion indicator. Which one moves is chosen in the     *)
(* initial state; the variables of the others keep one value.               *)
(***************************************************************************)
EXTENDS RangingFrame

CONSTANTS Arrays, MaxScaled,
          MotionResolutions,  \* known and unknown ones
          Windows,
          MaxFaults

VARIABLES part,
          array, given, checkers, global, interrupt, asked, enabled, flag, dcall, step,
          config, sensor, grid, arg, mcall,
          status, faults
dvars == <<array, given, checkers, global, interrupt, asked, enabled, flag, dcall, step>>
mvars == <<config, sensor, grid, arg, mcall>>

\* Arrays of two checkers for the same measurement, and those of Example_9.
Check(m, l, h) == [m |-> m, low |-> l, high |-> h]
SameMeasurement ==
  {<<Check(m, -3, 400), Check(m, 200, 401)>> :
     m \in {"distance", "signal", "sigma", "ambient", "targets", "status", "spads", "motion"}}
AnyMeasurement ==
  SameMeasurement \cup {<<Check("signal", 150, 150), Check("distance", 200, 400)>>}

\* Windows on both sides of every limit, and two whose maximum is the smaller.
EdgeWindows == {<<400, 400>>, <<400, 1900>>, <<2500, 4000>>, <<399, 1000>>,
                <<400, 1901>>, <<2600, 4001>>, <<1000, 900>>, <<4000, 100>>}

AllChoices == SUBSET Optional

\* A zone with a target, one with none and a distance below 0.
Sample(targets, distance, quality, rate) ==
  [ambient |-> rate, spads |-> 256, targets |-> targets, signal |-> rate, sigma |-> 640,
   distance |-> distance, reflectance |-> 50, status |-> quality, motion |-> 65536]
TwoFrames == {Sample(1, 1603, 5, 9000000), Sample(0, -5, 10, 2047)}

D == INSTANCE DetectionThresholds WITH call <- dcall, pc <- step
M == INSTANCE MotionIndicator WITH Resolutions <- MotionResolutions, call <- mcall
-----------------------------------------------------------------------------
\* A part that does not move rests in one of its initial states.
LayoutIdle ==
  /\ nb = 1 /\ res = 16 /\ off = {} /\ i = 1 /\ pc = "size" /\ sizes = <<>> /\ total = 0
  /\ found = [name \in {} |-> 0] /\ frames = 0
  /\ sent = CHOOSE f \in Frames : TRUE
  /\ results = [name \in Optional |-> Left]
ThresholdsIdle == D!Init /\ array = CHOOSE a \in Arrays : TRUE

PluginsInit ==
  \/ part = "layout" /\ Init /\ ThresholdsIdle /\ M!Init
  \/ part = "thresholds" /\ LayoutIdle /\ D!Init /\ M!Init
  \/ part = "motion" /\ LayoutIdle /\ ThresholdsIdle /\ M!Init

PluginsNext ==
  /\ UNCHANGED part
  /\ \/ part = "layout" /\ Next /\ UNCHANGED <<dvars, mvars, status, faults>>
     \/ part = "thresholds" /\ D!Next /\ UNCHANGED <<vars, mvars>>
     \/ part = "motion" /\ M!Next /\ UNCHANGED <<vars, dvars>>

PluginsSpec == PluginsInit /\ [][PluginsNext]_<<part, vars, dvars, mvars, status, faults>>
-----------------------------------------------------------------------------
(* Properties: those of RangingFrame as they are, and of the two plugins.   *)

\* Reading the checkers back undoes the conversion to the firmware's format.
ReadBack ==
  [][D!ReadCheckers(FALSE) =>
       \A a \in Arrays : checkers = D!ToFirmware(a) => array' = a]_<<dvars, status, faults>>

\* The enable flag means the same to the firmware, to the interrupt and to the program.
EnableConsistent == D!EnableConsistent

\* set_distance_motion sends the window and the map asked for last.
DistanceSendsAll == M!DistanceSendsAll
=============================================================================
