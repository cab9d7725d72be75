SPECIFICATION FairSpec
CONSTANTS
  Tasks = {t1, t2}
  Roots = {r1}
  Waiters = {w1, w2}
  Results = {a1}
  Ttls <- AskedTtls
  MaxTaskTtl = 1
  StopSets = {{}, {"input_required"}}
  MaxTime = 1
  MaxTasksPerRoot = 2
  MaxConcurrentTasksPerRoot = 1
  MaxWaitersPerTask = 1
  MaxWaitersPerRoot = 1
  None = none
INVARIANTS AnswersStand NoLostWakeup BudgetsHold
PROPERTIES TerminalIsFinal WaitsEnd
