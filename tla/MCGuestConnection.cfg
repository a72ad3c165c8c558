SPECIFICATION FairSpec
CONSTANTS
  Connections = {c1, c2}
  MaxMessages = 2
INVARIANTS
  ConnectionInv
  MessagesInOrder
  EventsFindTheirConnection
PROPERTIES
  TasksAreAnswered
CHECK_DEADLOCK FALSE
