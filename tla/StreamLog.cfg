SPECIFICATION Spec
CONSTANTS
  Capacity = 1
  Loggers = {g1}
  MaxRequests = 3
  MaxRecords = 2
  MaxTimeouts = 1
INVARIANTS
  TypeOK
  SessionsAgree
PROPERTIES
  StopsReturn
  PumpsEnd
CHECK_DEADLOCK FALSE
