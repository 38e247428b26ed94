SPECIFICATION Spec
CONSTANTS
  n1 = n1
  n2 = n2
  b1 = b1
  b2 = b2
  h1 = h1
  h2 = h2
  NoBackend = NoBackend
  FailureCap = 5
  MaxChecks = 0
  Name = {n1, n2}
  Backend = {b1, b2}
  Handler = {h1, h2}
  Config <- Configs
  ConfigFile <- TwoFiles
  RuleLists <- OneList
  Downgrade = {n2}
INVARIANTS
  TypeOK
  ActiveIsInFlight
VIEW View
SYMMETRY Symmetry
