SPECIFICATION FairSpec
CONSTANTS
  Tasks = {t1, t2, t3}
  NoTask = NoTask
  MaxCalls = 2
  MayFinishAtOnce = FALSE
INVARIANTS
  FramesSafe
  NobodyForgotten
PROPERTIES
  TasksEnd
CHECK_DEADLOCK FALSE
