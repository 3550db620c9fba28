SPECIFICATION MCSpec
CONSTANTS
    r1 = r1
    r2 = r2
    r3 = r3
    warm = warm
    asrModel = asrModel
    vadModel = vadModel
    None = None
    Nil = Nil
    Callers <- MCCallers
    Loaders <- MCCallers
    Warm <- warm
    Hanging <- WarmHangs
    Keys <- MCKeys
    MaxModels = 1
    Deployments <- AllHosts
    SynthRequests <- MCSynthRequests
    MaxAttempts = 2
    Requests <- MCThreads
    Candidates <- MCCandidates
    GpuConcurrency = 1
    MaxParts = 2
    MaxCrashes = 1
    LoraRequests <- MCLoraRequests
    Hosts <- MCHosts
    Measurements <- MCMeasurements
    PlanTable <- SplitPlans
INVARIANTS
    LoadsAreSound
    SoleUserGetsModel
    RegistryInBounds
    BudgetIsSane
    ClipIsWhole
    AdapterFollowsCall
    ShipsTheBest
    PlansFillTheSlot
PROPERTIES
    Served
    LoadingResolves
CHECK_DEADLOCK FALSE
