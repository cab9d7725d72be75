SPECIFICATION Spec
CONSTANTS
  WalModes = {TRUE}
  Faults = {"write", "cut", "fsync", "snapshot", "rename", "remove", "open", "dirsync"}
  Crashes = {"kill", "power"}
  MaxOps = 2
  MaxFaults = 2
  MaxStops = 2
  MaxRotations = 1
INVARIANT RecoversWhatWasPromised
CHECK_DEADLOCK FALSE
