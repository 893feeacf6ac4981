SPECIFICATION Spec
CONSTANTS
  any = any
  spine = spine
  Sse = {s1}
  Watcher = {w1}
  Bridge = bridge
  Publisher = {p1}
  Subject <- Subjects
  Filter <- Subjects
  Matches <- Wildcards
  Transition <- Transitions
  Capacity = 1
  MaxSent = 3
  MaxMillis = 1
  None = None
INVARIANTS
  EveryEventAccounted
  StoredInOrder
  EndsSurviveDedup
CHECK_DEADLOCK FALSE
