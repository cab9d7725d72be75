SPECIFICATION FairSpec
CONSTANTS
  Permissions = {}
  Operations = {o}
  Questions = {}
  Turns <- TwoTurns
  Kinds = {"task"}
  MaxRestoreFailures = 2
  MaxConns = 2
  MaxCommands = 2
  None = None
INVARIANTS NeverStranded TaskFollowsItsTurn CancelIsHeard WaitsAreAnswerable
PROPERTIES ReservationEnds OrphanIsCancelled
CHECK_DEADLOCK FALSE
