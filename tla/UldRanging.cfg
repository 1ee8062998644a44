SPECIFICATION Spec
CONSTANTS
  First = 253
  Flags <- SomeFlags
  Wrap = 255
  MaxLag = 3
  MaxFrame = 6
  MaxSession = 2
  MayFail = {"check", "get"}
INVARIANTS TypeOK NotReadyMeansSeen ReadyMeansFresh
PROPERTIES FrameDelivered
\* The sensor and the program may stop for good.
CHECK_DEADLOCK FALSE
