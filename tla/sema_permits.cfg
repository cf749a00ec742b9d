SPECIFICATION Spec
CONSTANTS
  TASK_MAX = 4
  TIME_SLICE = 2
  TickMod = 16
  PRI_MIN = 2
  PRI_INV = 3
  NoTask = NoTask
  TaskPriorities <- MCPriorities
  InitialCount = 1
  MaxCount = 1
  Timeouts = {1}
  Both = FALSE
  Horizon = 3
INVARIANTS
  PermitsNeverInvented
  CountIsExact
  NoIdlePermit
PROPERTIES
  MostUrgentFirst
CHECK_DEADLOCK FALSE
