SPECIFICATION Spec
CONSTANTS
  agent = agent
  gate = gate
  other = other
  review = review
  build = build
  r1 = r1
  r2 = r2
  None = None
  Closed = Closed
  Task <- Tasks
  Name <- Names
  NameOf <- Naming
  Timed <- WithTimeout
  Resumer = {r1, r2}
  MaxCalls = 2
SYMMETRY Symmetry
INVARIANTS
  SenderSomewhere
  AloneIsServed
  EntryOutlivesNoCall
CHECK_DEADLOCK FALSE
