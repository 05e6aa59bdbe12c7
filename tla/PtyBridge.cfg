CONSTANTS
    MaxRequests = 3
    MaxPieces = 2
    MaxDown = 2
SPECIFICATION FairSpec
INVARIANTS TypeOK NothingLeft OutputComplete
PROPERTIES CleanupEnds EndIsNoticed
CHECK_DEADLOCK FALSE
