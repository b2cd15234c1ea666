SPECIFICATION Spec
CONSTANTS
  p1 = p1
  p2 = p2
  p3 = p3
  Procs = {p1, p2, p3}
  Rank <- RankDistinct
  IdRange = 3
  MaxLogs = 3
  Formatted = TRUE
  Free = Free
INVARIANT CreatedStaysListed
