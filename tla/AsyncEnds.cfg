CONSTANTS
  NumFrames = 2
  Buffers = 2
  CodecMax = 2
  TsMax = 32
  SinkMax = 5
  PlayN = 2
  ReorderPts = FALSE
  MayFail = TRUE
  MaxIn = 1
  MaxSeeks = 1
SPECIFICATION FairSpec
PROPERTIES FlushEnds SinkReturns
CHECK_DEADLOCK FALSE
