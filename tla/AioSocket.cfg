SPECIFICATION SocketSpec
CONSTANTS
  Threads = {t}
  MaxFrames = 3
  MaxData = 2
  MayReset = TRUE
INVARIANTS
  RefcountIsRight
  FramesInOrder
PROPERTIES
  EveryFrameIsSent
  ReleasedAfterClose
CHECK_DEADLOCK FALSE
