SPECIFICATION FairSpec
CONSTANTS
  WalModes = {TRUE, FALSE}
  Faults = {"write", "openMarker", "cut", "fsync", "snapshot", "rename", "remove", "open", "dirsync"}
  Crashes = {"kill"}
  MaxOps = 2
  MaxFaults = 2
  MaxStops = 2
  MaxRotations = 1
INVARIANT RecoversWhatWasWritten
PROPERTY LogTakesRecordsAgain
CHECK_DEADLOCK FALSE
