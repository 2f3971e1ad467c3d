SPECIFICATION FairSpec
CONSTANTS
  File <- ShortFile
  Valid = {"audio", "video", "subtitle"}
  BufferSize = 3
  NodeSize = 1
  MaxSize = 1
  WakeSleep = 5
  NonLocal = FALSE
  Burst = 2
  Retries = 3
  IgnoreFirst = FALSE
  Async = TRUE
  Landings = {1, 5}
  MaxSeeks = 1
INVARIANTS TypeOK BufferBound QueueIsRecent AudioFresh
CHECK_DEADLOCK FALSE
PROPERTIES FileIsRead
