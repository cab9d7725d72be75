SPECIFICATION Spec
CONSTANTS
  Ids = {1, 2}
  Paths = {p, q}
  Cwd = cwd
  Contents = {c, d}
  None = None
  MaxPending = 2
  MaxServed = 2
  MaxTerminals = 1
  MaxGrants = 1
  Scenarios <- Scenes
  MaxSwaps = 1
  MaxEnds = 1
INVARIANTS AppliedAsApproved LimitsHold GroupsAreEnded
CHECK_DEADLOCK FALSE
