SPECIFICATION Spec
CONSTANTS
  Conns = {x1, x2, x3, x4}
  Acceptors = {p1, p2}
  BufferSize = 2
INVARIANTS
  TypeOK
PROPERTIES
  Implements
  AllReturn
CHECK_DEADLOCK FALSE
