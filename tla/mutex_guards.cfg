SPECIFICATION Spec
CONSTANTS
  TASK_MAX = 4
  TIME_SLICE = 2
  TickMod = 16
  PRI_MIN = 3
  PRI_INV = 4
  NoTask = NoTask
  TaskPriorities <- MCPriorities
  m1 = m1
  m2 = m2
  Mutexes = {m1, m2}
  MaxGuards = 2
  Horizon = 6
INVARIANTS
  MutualExclusion
  OwnerHasTheGuards
  InheritedWithoutNesting
  BaseRestored
PROPERTIES
  HandedToMostUrgent
CHECK_DEADLOCK FALSE
