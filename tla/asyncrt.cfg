SPECIFICATION Spec
CONSTANTS
  TASK_MAX = 3
  TIME_SLICE = 1
  TickMod = 7
  PRI_MIN = 3
  PRI_INV = 4
  NoTask = NoTask
  ASYNC_POOL_MAX = 4
  TaskPriorities <- MCPriorities
  Spawners = {0}
  ExecPriority = 1
  AsyncDelays = {1, 2}
  LateMax = 1
INVARIANTS
  NothingIsLost
  TimersAreAwaited
  EarliestOnTop
