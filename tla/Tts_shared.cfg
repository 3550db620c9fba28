SPECIFICATION SharingSpec
CONSTANTS
    r1 = r1
    r2 = r2
    None = None
    Requests <- MCThreads
    Candidates <- MCThreads
    GpuConcurrency = 2
    MaxParts = 1
    MaxCrashes = 0
INVARIANTS
    AdapterFollowsCall
CHECK_DEADLOCK FALSE
