SPECIFICATION Spec
CONSTANTS
  Tasks = {t1, t2}
  NoTask = NoTask
  MaxCalls = 2
  MayFinishAtOnce = TRUE
INVARIANTS
  DestroyedOnce
CHECK_DEADLOCK FALSE
