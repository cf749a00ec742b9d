SPECIFICATION FairSpec
CONSTANTS
  TASK_MAX = 4
  TIME_SLICE = 2
  TickMod = 2
  PRI_MIN = 2
  PRI_INV = 3
  NoTask = NoTask
  TaskPriorities <- MCPriorities
  Totals = {1, 2, 3}
  Generations = 4
INVARIANTS
  NobodySleepsOn
PROPERTIES
  IsRendezvous
  EverybodyPasses
