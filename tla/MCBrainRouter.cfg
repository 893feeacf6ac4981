SPECIFICATION FairSpec
CONSTANTS
  code = code
  test = test
  Node <- MCNode
  Edge <- MCEdge
  Context = {"blocking", "worker", "none"}
  Cwd = {"none", "file", "directory"}
  MaxRetries = 2
  MaxEvals = 3
  MaxCalls = 4
  MaxNoise = 1
  PipeCap = 1
  None = None
INVARIANTS
  AnswersOwnRequest
  BadLineCostsOne
  EscalationIsEarned
PROPERTIES
  CallReturns
CHECK_DEADLOCK FALSE
