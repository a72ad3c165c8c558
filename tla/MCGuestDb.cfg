SPECIFICATION FairSpec
CONSTANTS
  Tasks = {t1, t2}
  NoTask = NoTask
  MaxCalls = 3
  Keys = {1, 2}
  Values = {v}
  NoValue = NoValue
  MaxReaders = 2
INVARIANTS
  DbInv
PROPERTIES
  Refines
  WritersEnd
CHECK_DEADLOCK FALSE
