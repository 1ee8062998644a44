SPECIFICATION Spec
CONSTANTS
  Resolutions = {16, 64}
  Windows <- EdgeWindows
  MaxFaults = 0
INVARIANTS MapUpdated
