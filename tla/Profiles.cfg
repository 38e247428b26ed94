SPECIFICATION Spec
CONSTANTS
  Request = {r1, r2}
  Applier = {a1}
  Limiter = {l1, l2, l3}
  Version <- MCVersion
  Limit <- MCLimit
  OutCap = 1
  MaxEdits = 2
  None = None
INVARIANTS
  PlacesExact
  ReloadSettles
PROPERTIES
  ReloadEnds
CHECK_DEADLOCK FALSE
