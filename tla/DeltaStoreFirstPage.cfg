SPECIFICATION Spec
CONSTANTS
  k1 = k1
  k2 = k2
  Threads = {t1, t2}
  Null = Null
  Free = Free
  KeyOrder <- MCKeys
  Size <- MCSize
  PageSize = 2
  Frames <- MCFrames
  MaxDeltas = 2
  LedeltaSize = 16
  LehdrSize = 88
  MaxVer = 1
  LogCap = 2
  NoFrame = NoFrame
INVARIANT DeltasRebuild
