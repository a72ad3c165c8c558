SPECIFICATION Spec
CONSTANTS
  Providers = {a, b}
  Priorities = {0}
  MaxCalls = 1
INVARIANTS
  VoidThrowsOnlyIfNoneSucceeds
CHECK_DEADLOCK FALSE
