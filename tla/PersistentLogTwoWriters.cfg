SPECIFICATION Spec
CONSTANTS
  Procs = {w, r}
  Writers = {w, r}
  Entries <- MCEntries
  Cut <- MCCut
  MappedLen = 9
  LhdrSize = 1
  LehdrSize = 1
  WordLength = 1
  PageSize = 4
  MagicNumber = 555555
  NoEntry = NoEntry
  CommitFlag = CommitFlag
INVARIANT AckedReadable
