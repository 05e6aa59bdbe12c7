SPECIFICATION Spec
CONSTANTS
  Keys = {k1, k2}
  NoKey = NoKey
  Window = 1
  MaxEvents = 4
INVARIANTS
  TypeOK
  AccountedOnce
  CountsExact
  WindowsSound
PROPERTIES
  Implements
CHECK_DEADLOCK FALSE
