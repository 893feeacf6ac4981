SPECIFICATION FairSpec
CONSTANTS
  s = s
  a = a
  b = b
  g = g
  j = j
  d = d
  c = c
  e = e
  draft = draft
  review = review
  Node = {s, a, b, j, d}
  Edge <- LoopEdges
  Conditional <- LoopConditions
  Start = s
  Joins = {j}
  PassThrough = {s, j}
  Gates = {b}
  Key = {draft, review}
  Writes <- DraftsAndReviews
  Submitted = {draft}
  Permits = 2
  MaxLevels = 7
INVARIANTS
  RecordedNodesPassed
  StartsAreRecorded
  OkMeansFinished
PROPERTIES
  FreshOutputIsKept
  ImplementsHistory
  CancelStops
CHECK_DEADLOCK FALSE
