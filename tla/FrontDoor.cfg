SPECIFICATION Spec
CONSTANTS
  Request = {r1, r2}
  Caller <- MCCaller
  Bypass <- MCBypass
  Burst <- MCBurst
  MaxTurns = 3
  Prompt = {"p", "q"}
  Alike <- MCAlike
  CacheSize = 1
  DailyLimit = {1, 2}
  MaxToday = 2
SYMMETRY Interchangeable
INVARIANTS
  TypeOK
  WithinLimits
  Transcript
  DeletedStays
PROPERTIES
  BudgetHonest
CHECK_DEADLOCK FALSE
