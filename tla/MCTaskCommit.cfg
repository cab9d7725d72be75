SPECIFICATION FairSpec
CONSTANTS
  Modes = {"wal", "snapshot"}
  Faults = {"append", "fsync", "snapshot", "dirsync"}
  Crashes = {"kill", "power"}
  Expiry = TRUE
  MaxFaults = 2
  MaxStops = 3
INVARIANTS NotStartedMeansUnsent PromisesStand
PROPERTIES EndedIsNeverSent StartsOrEnds
CHECK_DEADLOCK FALSE
