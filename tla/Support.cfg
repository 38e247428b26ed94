SPECIFICATION Spec
CONSTANTS
  Request = {r1, r2}
  Value = {1, 2}
  MaxEdits = 2
  Entry <- MCEntry
  ShortCooldown = 1
  LongCooldown = 2
  Horizon = 3
  Conversation <- MCConversation
  ChunkLen = 2
  MaxAge = 1
  MaxNodes = 1
  LastTime = 3
  MaxRecords = 3
  Opinions = 2
  Providers <- MCProviders
  File = {f1, f2}
  Worker = {w1, w2}
  Text <- MCText
  Target = 6
  Overlap = 1
  BatchSize = 2
  Script <- MCScript
  StdoutCap = 1
  FlowCap = 1
INVARIANTS
  TypeOK
  CheckoutFair
  PrefixKept
  AnswerChecked
  ToldInFull
PROPERTIES
  ConfigSettles
  IndexSettles
  CompletionEnds
CHECK_DEADLOCK FALSE
