CONSTANTS
  NumFrames = 2
  Buffers = 2
  CodecMax = 2
  TsMax = 32
  SinkMax = 5
  PlayN = 1
  ReorderPts = FALSE
  MayFail = FALSE
  MaxIn = 2
  MaxSeeks = 2
SPECIFICATION Spec
INVARIANTS TypeOK OnePlace BuffersAccounted TimeNotAhead
PROPERTIES ShownInOrder CycleSpec
CHECK_DEADLOCK FALSE
