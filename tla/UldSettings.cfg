SPECIFICATION Spec
CONSTANTS
  Junk = Junk
  Inputs <- Boundary
  Targets <- EdgeTargets
  MaxCalls = 3
  MaxFaults = 1
INVARIANTS TypeOK SetThenGet OthersKept CorruptionReported GridsMatch CalibrationRestores
\* The number of calls is bounded.
CHECK_DEADLOCK FALSE
