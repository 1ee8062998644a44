SPECIFICATION PluginsSpec
CONSTANTS
  Targets = {1, 2, 3, 4}
  Resolutions = {16, 64}
  Disabled <- AllChoices
  Frames <- TwoFrames
  MaxFrames = 2
  Arrays <- AnyMeasurement
  Windows <- EdgeWindows
  MotionResolutions = {16, 64, 5}
  MaxScaled = 1000
  MaxFaults = 2
INVARIANTS FitsBuffer EveryTargetDelivered EnableConsistent DistanceSendsAll
PROPERTIES ReadBack
CHECK_DEADLOCK FALSE
