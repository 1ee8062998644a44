SPECIFICATION PeripheralsSpec
CONSTANTS
  Writers = {w1}
  NumLeds = 7
  Commands <- SomeCommands
  Requests <- SomeRequests
  MaxFiles = 2
  Edges = {"high", "low"}
  Timeout = 3
  SampleCount = 3
  Frames = 10
  MaxFaults = 3
  Addresses = {"0xC0", "0x60"}
  Values = {0, 4, 33}
INVARIANTS WriteShown RequestShown ReleasedAtExit FoundByUsers LogCurrent OwnEcho IdleWhenOk
PROPERTIES ReportsGoOn SessionEnds ShownCatchesUp
CHECK_DEADLOCK FALSE
