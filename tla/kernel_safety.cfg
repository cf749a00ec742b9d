SPECIFICATION Spec
CONSTANTS
  TASK_MAX = 3
  TIME_SLICE = 2
  TickMod = 16
  PRI_MIN = 1
  PRI_INV = 2
  NoTask = NoTask
  AppPriorities = {0, 1}
  Delays = {1, 2}
  MissedMax = 1
  Horizon = 4
INVARIANTS
  TypeOK
  ListsMatchStatus
  OneRunning
  ReadySorted
  NoOverdueSleeper
  HaltNeedsIdleGone
PROPERTIES
  OnlyRawOutranks
  PeersKeepTheirOrder
  DelayKeepsItsTicks
CHECK_DEADLOCK FALSE
