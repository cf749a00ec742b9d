SPECIFICATION HandlesSpec
CONSTANTS
  TASK_MAX = 3
  Names = {"blob", "app"}
  MaxLives = 4
  NoHandle = NoHandle
INVARIANTS
  EntriesAreAllocated
  HeldHandlesName
CHECK_DEADLOCK FALSE
