SPECIFICATION AgentSpec
CONSTANTS
    MaxFailures = 2
    MaxRequests = 0
    Addresses <- MCAddresses
    Intervals <- MCIntervals
INVARIANTS CountsReachMaster ClosingSparesTheStop RunsAsTold DialsAsAddressed
CHECK_DEADLOCK FALSE
