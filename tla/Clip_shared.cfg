SPECIFICATION SharingSpec
CONSTANTS
    r1 = r1
    r2 = r2
    None = None
    Requests <- MCThreads
    Candidates = {}
    GpuConcurrency = 2
    MaxParts = 0
    MaxCrashes = 0
INVARIANTS
    ClipIsWhole
CHECK_DEADLOCK FALSE
