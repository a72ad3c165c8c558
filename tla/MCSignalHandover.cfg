SPECIFICATION FairSpec
CONSTANTS
  MaxPlugins = 2
  MaxSignals = 3
INVARIANTS
  HandoverInv
PROPERTIES
  LateSignalsEnd
  StartupReturns
CHECK_DEADLOCK FALSE
