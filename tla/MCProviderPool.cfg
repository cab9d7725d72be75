SPECIFICATION FairSpec
CONSTANTS
  Requests = {r1, r2}
  MaxProcs = 3
  MaxDefs = 2
  MaxCopies = 1
  MaxFails = 1
  MaxExits = 1
  MaxRuns = 1
INVARIANTS ProvidersAreKept CopiesAreKept BudgetHolds
PROPERTY IsReclaimed
CHECK_DEADLOCK FALSE
