SPECIFICATION Spec
CONSTANTS
  Providers = {a, b, c}
  Priorities = {0, 1}
  MaxCalls = 2
INVARIANTS
  DispatchInv
  PoliciesKept
  SubscribersGetAll
CHECK_DEADLOCK FALSE
