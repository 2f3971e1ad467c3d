CONSTANTS
  f1 = f1
  f2 = f2
  Frames = {f1}
  NoFrame = NoFrame
  Operations <- SeekAndChange
  MayDrop = TRUE
  PlayN = 1
SPECIFICATION FairSpec
INVARIANTS OperationRestores SeekParserExclusive
PROPERTIES OperationEnds GateSpec
CHECK_DEADLOCK FALSE
