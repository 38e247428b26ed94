SPECIFICATION FairSpec
CONSTANTS
  r1 = r1
  r2 = r2
  r3 = r3
  Request <- Three
  Concurrency = 2
  MaxConcurrent = 1
  PipeCap = 1
  BridgeCap = 1
  EventCap = 1
  MaxEvents = 2
INVARIANTS
  TypeOK
  SlotsHeld
  NoEventLost
  NothingLeft
PROPERTY
  EndsOrStuck
CHECK_DEADLOCK FALSE
