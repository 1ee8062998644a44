SPECIFICATION Spec
CONSTANTS
  Arrays <- Example9
  MaxScaled = 1000
  MaxFaults = 0
PROPERTIES FormatUpdated
