SPECIFICATION Spec
CONSTANTS MaxFaults = 2
INVARIANTS TypeOK PageRestored OkMeansDone NoStopLeft
PROPERTIES CallReturns
