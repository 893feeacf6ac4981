SPECIFICATION ServingSpec
CONSTANTS
  plan = plan
  build = build
  gate = gate
  sign1 = sign1
  sign2 = sign2
  fetch = fetch
  agent = agent
  client = client
  None = None
  Closed = Closed
  Task <- Tasks
  Name <- Names
  NameOf <- Naming
  Timed <- WithTimeout
  Prev <- Line
  FrontEndOf <- StartedBy
  SaysGate <- NamesOfGates
  Resumer = {agent, client}
  LocalAgent = {agent}
  MaxCalls = 2
PROPERTY
  ServedGateEnds
CHECK_DEADLOCK FALSE
