SPECIFICATION FairSpec
CONSTANTS
  j1 = j1
  j2 = j2
  Job = {j1, j2}
  NoJob = NoJob
  None = None
  Empty = Empty
  Mixed = Mixed
  Provider <- OpenAIFireworks
  WithCallback = {j1}
  MaxRestarts = 1
INVARIANTS
  HonestStatus
  Watched
  DiskBehind
PROPERTIES
  JobEnds
  Notified
CHECK_DEADLOCK FALSE
