SPECIFICATION FairSpec
CONSTANTS
  Sessions = {s1, s2, s3}
  MaxMessages = 2
INVARIANTS
  TypeOK
  Segment
  WritesFollowTheQueue
  RegistryIsExact
PROPERTIES
  OnlyBrokenLeave
  Refines
  EventuallyDelivered
  BrokenSessionsLeave
CHECK_DEADLOCK FALSE
