SPECIFICATION Spec
CONSTANTS
  j1 = j1
  j2 = j2
  Job = {j1, j2}
  NoJob = NoJob
  None = None
  Empty = Empty
  Mixed = Mixed
  Provider <- OpenAIGemini
  WithCallback = {j1}
  MaxRestarts = 1
INVARIANT
  JobsOnDisk
CHECK_DEADLOCK FALSE
