SPECIFICATION Spec
CONSTANTS
  Account <- MCAccount
  NoAccount = "none"
  WindowMaxUSD <- MCWindow
  Workspace = {w1, w2}
  NoWorkspace = NoWorkspace
  WarmPoolSize = 1
  Request = {r1, r2}
  MaxConcurrent = 2
INVARIANTS
  TypeOK
  OneOwner
  OwnCredential
PROPERTIES
  PickFinds
  LeftoversSwept
CHECK_DEADLOCK FALSE
