SPECIFICATION Spec
CONSTANTS
  e1 = e1
  e2 = e2
  r1 = r1
  r2 = r2
  None = None
  Exec = {e1, e2}
  Recoverer = {r1, r2}
  MaxSteps = 1
SYMMETRY Symmetry
INVARIANTS
  ClosedIsLast
  OkMeansStored
  RecoveryCloses
PROPERTIES
  ImplementsHistory
CHECK_DEADLOCK FALSE
