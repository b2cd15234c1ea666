SPECIFICATION Spec
CONSTANTS
  p1 = p1
  p2 = p2
  p3 = p3
  Procs = {p1, p2, p3}
  Rank <- RankShared
  IdRange = 2
  MaxLogs = 2
  Formatted = FALSE
  Free = Free
INVARIANT TypeOK
INVARIANT ListedIsReady
INVARIANT UniqueIds
INVARIANT ArrayInBounds
