SPECIFICATION FairSpec
CONSTANTS
  MaxPlugins = 1
  MaxSignals = 1
PROPERTIES
  SignalsEnd
CHECK_DEADLOCK FALSE
