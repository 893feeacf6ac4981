SPECIFICATION FairSpec
CONSTANTS
  short = short
  long = long
  shortEscalating = shortEscalating
  longEscalating = longEscalating
  Node <- MCNode
  MaxAttempts <- MCMaxAttempts
  BaseBackoff <- MCBaseBackoff
  Escalating <- MCEscalating
  Threshold = 5
  MaxWait = 63
INVARIANTS
  FailsSpentOrOpen
PROPERTIES
  BackoffGrows
  TaskEnds
CHECK_DEADLOCK FALSE
