SPECIFICATION Spec
CONSTANTS
  First = 15
  Flags <- OneFlags
  Wrap = 255
  MaxLag = 3
  MaxFrame = 3
  MaxSession = 1
  MayFail = {"check"}
INVARIANTS ReadyMeansNew
CHECK_DEADLOCK FALSE
