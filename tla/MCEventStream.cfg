SPECIFICATION FairSpec
CONSTANTS
  None = None
  Types = {"control", "telemetry", "tool", "chunk"}
  LowBudget = 2
  NormalBudget = 2
  HighBudget = 1
  MaxQueue = 5
  HighWater = 1
  MaxTelemetry = 1
  ControlSlots = 1
  ReplayBudget = 1
  Lossy = FALSE
  MaxLog = 3
  MaxDrops = 2
  MaxRestarts = 1
  MaxRequests = 2
INVARIANTS NothingLostForGood ControlIsDelivered
PROPERTY SubscriptionIsRestored
CHECK_DEADLOCK FALSE
