SPECIFICATION MCSpec
CONSTANTS
    f1 = f1
    f2 = f2
    Finalizers <- MCOneFinalizer
    NumLectures = 2
    MaxEpisodes = 3
    InitialSources <- MCSources
    MaxReviews = 1
    MaxFaults = 1
INVARIANTS
    StartsInOrder
    AcceptedIsComplete
    PreviewMatchesDecision
PROPERTIES
    AcceptanceStartsNext
    FinalizerDelivers
CHECK_DEADLOCK FALSE
