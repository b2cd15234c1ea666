SPECIFICATION FairSpec
CONSTANTS
  p1 = p1
  p2 = p2
  p3 = p3
  Procs = {p1, p2, p3}
  Rank <- RankShared
  IdRange = 2
  MaxLogs = 2
  Formatted = TRUE
  Free = Free
PROPERTY StartupReturns
CHECK_DEADLOCK FALSE
