SPECIFICATION FairSpec
CONSTANTS
  e1 = e1
  e2 = e2
  e3 = e3
  e4 = e4
  Entry = {e1, e2, e3, e4}
  None = None
  Failed = Failed
  Routing <- Routings
  MaxSizes <- Sizes
INVARIANTS
  TypeOK
  WindowClock
PROPERTIES
  OneReply
  AllAnswered
