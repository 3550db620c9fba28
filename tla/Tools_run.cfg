SPECIFICATION MCSpec
CONSTANTS
    e1 = e1
    e2 = e2
    w1 = w1
    w2 = w2
    Shadows <- MCShadows
    Slots <- MCSlots
    FinalMs <- MCFinalMs
    Shapes <- MCShapes
    Takes <- MCTakes
    Silent <- MCSilent
    Ready <- MCReady
    Focus <- MCFocus
    MaxLow = 1
    MaxReworks = 1
    MaxStarts = 2
    MaxFaults = 1
    Workers <- MCRescuers
    MaxRuns = 4
    MaxMishaps = 2
    NumLectures = 3
    InitialWorlds <- MCWorlds
    MaxLaps = 2
    MaxMoves = 1
INVARIANTS
    ReportIsTheEpisode
    WindowsDisjoint
    MonitorMirrorsPolicy
    OneWorkerInStage
    HandoffTellsTheTruth
    GateMeansStart
    ReportsAgree
PROPERTIES
    RisksAreReviewed
    AutoFinalizes
    StrandedIsRescued
CHECK_DEADLOCK FALSE
