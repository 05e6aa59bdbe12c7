SPECIFICATION Spec
CONSTANTS
  Deadlines = {"gateway"}
  Capacity = 1
  AgentBytes = 1
  GatewayBytes = 2
  MaxChunk = 2
  MaxOdd = 1
INVARIANTS
  TypeOK
PROPERTIES
  Implements
  CloseReleases
CHECK_DEADLOCK FALSE
