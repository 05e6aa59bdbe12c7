CONSTANTS
    MaxFailures = 2
    MaxRequests = 2
SPECIFICATION FairSpec
INVARIANTS TypeOK PulledFirst
PROPERTIES ShutdownEnds KeepsServing
CHECK_DEADLOCK FALSE
