SPECIFICATION FairSpec
CONSTANTS
  Plugins = {p1, p2, p3}
INVARIANTS
  LifecycleInv
  RequiredComeFirst
  RequiredOutlive
  CleanExit
PROPERTIES
  ShutdownOnlyStarted
  QuitEnds
