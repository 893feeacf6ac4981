SPECIFICATION Spec
CONSTANTS
  Caller = {c1, c2}
  Key = {k1, k2}
  MaxChecks = 3
  MaxEnds = 1
  None = None
INVARIANTS
  RepeatsOnlyTheLost
PROPERTIES
  ImplementsLedger
CHECK_DEADLOCK FALSE
