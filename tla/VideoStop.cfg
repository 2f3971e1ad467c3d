CONSTANTS
  f1 = f1
  f2 = f2
  Frames = {f1, f2}
  NoFrame = NoFrame
  Operations <- PauseAndStop
  MayDrop = FALSE
  PlayN = 1
SPECIFICATION FairSpec
PROPERTY StopEnds
CHECK_DEADLOCK FALSE
