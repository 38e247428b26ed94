SPECIFICATION FairSpec
CONSTANTS
  r1 = r1
  r2 = r2
  r3 = r3
  Request <- One
  Concurrency = 1
  MaxConcurrent = 1
  PipeCap = 1
  BridgeCap = 1
  EventCap = 1
  MaxEvents = 3
PROPERTY
  LeaseReturned
CHECK_DEADLOCK FALSE
