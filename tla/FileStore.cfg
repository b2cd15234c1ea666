SPECIFICATION Spec
CONSTANTS
  a = a
  a_ = a_
  KeyOrder <- MCKeys
  Size <- MCSize
  Vals = {x, y}
  MaxVer = 2
  PutVers = {1}
  MaxOpens = 2
  MaxTime = 2
  MaxIters = 2
  PutFile <- MCPutFile
  SnapFile <- MCSnapFile
  None = None
SYMMETRY Perms
INVARIANTS
  TypeOK
  OnlyKillsTear
  ReadsWhole
  SnapshotPrefix
  TimesAddUp
