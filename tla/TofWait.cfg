SPECIFICATION FairSpec
CONSTANTS
  Threads = {t1, t2}
  MaxFrames = 3
  Signals = TRUE
INVARIANTS
  NoLostWakeup
  NoMissedFrame
  OneReturnPerInterrupt
PROPERTIES
  FrameNoticed
  SignalReturns
\* The sensor may stop measuring: every thread then sleeps for good.
CHECK_DEADLOCK FALSE
