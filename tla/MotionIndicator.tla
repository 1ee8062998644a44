--------------------------- MODULE MotionIndicator ---------------------------
(***************************************************************************)
(* The motion indicator plugin. The program owns a configuration structure; *)
(* every function edits a part of it and should send the whole structure to  *)
(* the firmware: the window of distances as its first bin and its number of  *)
(* bins, and the map from the zones to the aggregates whose motion is        *)
(* measured.                                                                *)
(***************************************************************************)
EXTENDS Integers, FiniteSets

CONSTANTS Resolutions,  \* resolutions the program asks for, known and unknown
          Windows,      \* windows it asks for: pairs of distances in mm
          MaxFaults     \* bound: writes that fail

Zones == 0 .. 63

VARIABLES config,   \* the program's structure
          sensor,   \* the configuration in the firmware
          grid,     \* the last known resolution the program asked, or 0
          call, arg, status, faults
vars == <<config, sensor, grid, call, arg, status, faults>>

\* The defaults of ref_bin_offset and feature_length, and a map of zeroes.
Zeroed == [from |-> 13633, length |-> 9, map |-> [z \in Zones |-> 0]]
\* What the firmware starts with: nobody has sent anything.
Unset == [from |-> 0, length |-> 0, map |-> [z \in Zones |-> -1]]
Config == [from : Nat, length : 0 .. 255, map : [Zones -> -1 .. 15]]

TypeOK ==
  /\ config \in Config
  /\ sensor \in Config
  /\ grid \in {0, 16, 64}
  /\ call \in {"none", "init", "distance", "resolution"}
  /\ status \in {"ok", "refused", "error"} /\ faults \in 0 .. MaxFaults

Init ==
  /\ config = Zeroed /\ sensor = Unset /\ grid = 0
  /\ call = "none" /\ arg = 0 /\ status = "ok" /\ faults = 0
-----------------------------------------------------------------------------
Map(r) ==
  IF r = 16 THEN [z \in Zones |-> IF z < 16 THEN z ELSE -1]
            ELSE [z \in Zones |-> ((z % 8) \div 2) + 4 * (z \div 16)]

\* The first bin: (min / 37.5348 - 4) * 2048.5, towards zero, for min >= 400; whole
\* and remainder apart, so that no intermediate value passes 2^31.
RefBin(min) ==
  LET bins == 625 * min - 93837 IN
    8194 * (bins \div 93837) + (8194 * (bins % 93837)) \div 93837

\* The number of bins: ((max - min) / 10 + 30.02784) / 15.01392 + 0.5, cut to a byte; beyond the byte
\* the conversion of a float is undefined.
Numerator(d) == 20000 * d + 7506960
Denominator == 3002784

Length(d) ==
  IF Numerator(d) >= 0 THEN {Numerator(d) \div Denominator}
  ELSE IF Numerator(d) > -Denominator THEN {0}
  ELSE {0, 255}

\* The condition is written on the difference as an int: a maximum below the
\* minimum passes it.
Refused(w) == w[2] - w[1] > 1500 \/ w[1] < 400 \/ w[2] > 4000

\* dci_write_data: when it fails the firmware may have taken the structure or not.
Send(c) ==
  \/ sensor' = c /\ status' = "ok" /\ UNCHANGED faults
  \/ /\ faults < MaxFaults /\ faults' = faults + 1
     /\ status' = "error" /\ sensor' \in {c, sensor}

Known(r) == r \in {16, 64}

\* set_resolution on the structure c, whose map is that of grid g. The structure
\* is sent when the status is NOT 0: for an unknown resolution only.
SetMap(c, g, r) ==
  IF Known(r)
  THEN /\ config' = [c EXCEPT !.map = Map(r)]
       /\ grid' = r /\ status' = "ok" /\ UNCHANGED <<sensor, faults>>
  ELSE /\ config' = c
       /\ grid' = g /\ status' = "error"
       /\ \/ sensor' = c /\ UNCHANGED faults
          \/ faults < MaxFaults /\ faults' = faults + 1 /\ sensor' \in {c, sensor}

MotionInit(r) == call' = "init" /\ arg' = r /\ SetMap(Zeroed, 0, r)

SetResolution(r) == call' = "resolution" /\ arg' = r /\ SetMap(config, grid, r)

Windowed(w, n) == [from |-> RefBin(w[1]), length |-> n, map |-> config.map]

\* Mutant: the structure is sent before the window is put into it.
SetDistanceLate(w) ==
  /\ call' = "distance" /\ arg' = w /\ UNCHANGED grid
  /\ IF Refused(w) THEN status' = "refused" /\ UNCHANGED <<config, sensor, faults>>
     ELSE \E n \in Length(w[2] - w[1]) :
            config' = Windowed(w, n) /\ Send(config)

SetDistance(w) ==
  /\ call' = "distance" /\ arg' = w /\ UNCHANGED grid
  /\ IF Refused(w) THEN status' = "refused" /\ UNCHANGED <<config, sensor, faults>>
     ELSE \E n \in Length(w[2] - w[1]) :
            config' = Windowed(w, n) /\ Send(config')

Next ==
  \/ \E r \in Resolutions : MotionInit(r) \/ SetResolution(r)
  \/ \E w \in Windows : SetDistance(w)

Spec == Init /\ [][Next]_vars
-----------------------------------------------------------------------------
(* Properties                                                               *)

Aggregate(m, g) == {z \in Zones : m[z] = g}

\* When set_distance_motion has returned 0 the firmware has the window and the map
\* the program asked for last, in whatever order it asked and whatever failed before:
\* 16 aggregates, each one zone of a 4x4 grid or the four zones of a square of
\* an 8x8 grid, and the zones a 4x4 grid lacks in none (98-172).
DistanceSendsAll ==
  call = "distance" /\ status = "ok" /\ grid # 0 =>
    /\ sensor = config /\ sensor.from = RefBin(arg[1])
    /\ \A g \in 0 .. 15 :
         IF grid = 16 THEN Aggregate(sensor.map, g) = {g}
         ELSE LET corner == 16 * (g \div 4) + 2 * (g % 4) IN
              Aggregate(sensor.map, g) = {corner, corner + 1, corner + 8, corner + 9}

\* "This function is used to update the internal motion indicator map."
\* (vl53l5cx_plugin_motion_indicator.h): once it has returned 0 the firmware has
\* the map.
MapUpdated ==
  call = "resolution" /\ status = "ok" => sensor.map = config.map
=============================================================================
