SPECIFICATION FairSpec
CONSTANTS
  TASK_MAX = 5
  TIME_SLICE = 1
  TickMod = 3
  PRI_MIN = 2
  PRI_INV = 3
  NoTask = NoTask
  TaskPriorities <- MCPriorities
  Roles <- MCRoles
  N = 1
  Messages = {m1}
  Uninit = Uninit
  Timeouts = {1}
PROPERTY EveryCallReturns
