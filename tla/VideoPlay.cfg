CONSTANTS
  f1 = f1
  f2 = f2
  Frames = {f1, f2}
  NoFrame = NoFrame
  Operations <- PauseAndStop
  MayDrop = TRUE
  PlayN = 1
SPECIFICATION FairSpec
INVARIANTS TypeOK FramePartition DecodeTargetExclusive DecodeHasData
PROPERTIES DecodeAnswered StopJoinsPlayers
CHECK_DEADLOCK FALSE
