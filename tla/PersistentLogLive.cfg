SPECIFICATION FairSpec
CONSTANTS
  Procs = {w, r}
  Writers = {w}
  Entries <- MCEntries
  Cut <- MCCut
  MappedLen = 8
  LhdrSize = 1
  LehdrSize = 1
  WordLength = 1
  PageSize = 4
  MagicNumber = 555555
  NoEntry = NoEntry
  CommitFlag = CommitFlag
PROPERTIES
  WalkTerminates
  AppendReturns
