SPECIFICATION FairSpec
CONSTANTS
  Sessions = {c1, r1}
  Remotes = {r1}
  Requests <- MCRequests
  MaxRequests = 3
  MaxMessages = 1
INVARIANTS
  ServerInv
  AnsweredInOrder
  UpgradeComesLast
PROPERTIES
  ConnectionsEnd
  HandshakesEnd
CHECK_DEADLOCK FALSE
