SPECIFICATION FairSpec
CONSTANTS
  s = s
  a = a
  b = b
  g = g
  j = j
  d = d
  c = c
  e = e
  draft = draft
  review = review
  Node = {s, a, b, g, c, e, j, d}
  Edge <- ForkJoinEdges
  Conditional <- ForkJoinConditions
  Start = s
  Joins = {j}
  PassThrough = {s, j}
  Gates = {g}
  Key = {draft, review}
  Writes <- DraftsAndReviews
  Submitted = {}
  Permits = 2
  MaxLevels = 5
INVARIANTS
  NodeRunsOnce
  JoinWaits
PROPERTIES
  RunEnds
CHECK_DEADLOCK FALSE
