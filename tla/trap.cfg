SPECIFICATION FairSpec
CONSTANTS
  t1 = t1
  t2 = t2
  Tasks = {t1, t2}
  Deep = {t1}
  TickMod = 3
  Width = 7
  PERIOD = 1
  MissedLimit = 0
  LateMax = 2
  Resets = FALSE
INVARIANTS
  SavedContexts
  AlarmInReach
PROPERTIES
  ResumesOwnContext
  TicksKeepTime
  IsClock
CHECK_DEADLOCK FALSE
