SPECIFICATION LockFairSpec
CONSTANTS
  Procs = {p1, p2, p3}
  Files = {1, 2, 3, 4, 5, 6, 7, 8, 9}
  Attempts = 2
  MaxStarts = 3
  MaxFails = 1
  LinkModes = {TRUE, FALSE}
  None = none
PROPERTIES IsADirectoryLock ConflictIsFound
CHECK_DEADLOCK FALSE
