SPECIFICATION Spec
CONSTANTS
  Types = {"only", "exec", "respawn", "unknown"}
  MaxRequests = 3
  MaxCrashes = 1
  MaxFailures = 1
INVARIANTS
  TypeOK
PROPERTIES
  DiskIsSafe
  Implements
  UpgradeTakesEffect
CHECK_DEADLOCK FALSE
