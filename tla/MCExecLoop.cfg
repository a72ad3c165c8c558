SPECIFICATION FairSpec
CONSTANTS
  Priorities = {10, 50, 100}
  MaxPosts = 4
  MaxSignals = 1
INVARIANTS
  LoopInv
  RunInOrder
  DrainedBeforeShutdown
PROPERTIES
  QuitEndsExec
  HandlersRun
CHECK_DEADLOCK FALSE
