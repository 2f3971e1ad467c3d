CONSTANTS
  f1 = f1
  f2 = f2
  Frames = {f1, f2}
  NoFrame = NoFrame
  Operations <- SeekOnly
  MayDrop = FALSE
  PlayN = 1
SPECIFICATION Spec
INVARIANT DecodeTargetExclusive
CHECK_DEADLOCK FALSE
