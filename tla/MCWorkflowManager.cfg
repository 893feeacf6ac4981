SPECIFICATION FairSpec
CONSTANTS
  Caller = {c1, c2}
  Exec = {1, 2, 3}
  Run = {11, 12, 13, 14}
  None = None
  MaxQueued = 1
  MaxConcurrent = 1
  MaxCrashes = 1
INVARIANTS
  AdmissionOvershoot
  PermitsConserved
  StatusIsTrue
  OpenIsOfThisProcess
PROPERTIES
  QueuedStarts
CHECK_DEADLOCK FALSE
