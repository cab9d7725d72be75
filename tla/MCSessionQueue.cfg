SPECIFICATION QueueFairSpec
CONSTANTS
  MainCommands = {m1, m2}
  WorkerCommands = {w1, w2, w3}
  Drainers = {d1}
  Limit = 2
  Reserve = 1
  NoCommand = none
INVARIANTS NothingStranded LanesInOrder
PROPERTIES ReserveHolds Settles
