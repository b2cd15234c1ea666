SPECIFICATION Spec
CONSTANTS
  k1 = k1
  k2 = k2
  Threads = {t1, t2}
  Null = Null
  Free = Free
  KeyOrder <- MCKeys
  Size <- MCSize
  PageSize = 2
  Frames <- MCFrames
  MaxDeltas = 1
  LedeltaSize = 16
  LehdrSize = 72
  MaxVer = 1
  LogCap = 3
  NoFrame = NoFrame
INVARIANTS
  TypeOK
  OneStore
  ReturnsBuilt
  FaultsAreOurs
  ChunksExact
  DeltasRebuildTail
PROPERTIES
  ImplementsOneInstance
  GetInstanceReturns
