SPECIFICATION Spec
CONSTANTS
  Window = 4
  MaxRuns = 3
  MaxForeign = 1
  None = None
INVARIANTS SettledIsFaithful SettledIsItsOwn UpsertFindsRegistry
CHECK_DEADLOCK FALSE
