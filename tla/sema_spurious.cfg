SPECIFICATION Spec
CONSTANTS
  TASK_MAX = 4
  TIME_SLICE = 2
  TickMod = 16
  PRI_MIN = 2
  PRI_INV = 3
  NoTask = NoTask
  TaskPriorities <- MCTwoPriorities
  InitialCount = 1
  MaxCount = 1
  Timeouts = {1}
  Both = TRUE
  Horizon = 3
INVARIANT PermitsNeverInvented
CHECK_DEADLOCK FALSE
