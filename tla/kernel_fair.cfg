SPECIFICATION FairSpec
CONSTANTS
  TASK_MAX = 3
  TIME_SLICE = 2
  TickMod = 4
  PRI_MIN = 1
  PRI_INV = 2
  NoTask = NoTask
  AppPriorities = {0, 1}
  Delays = {1, 2}
  MissedMax = 0
  Horizon = 4
PROPERTIES
  EveryContenderRuns
  SleepersWake
CHECK_DEADLOCK FALSE
