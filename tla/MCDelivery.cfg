SPECIFICATION Spec
CONSTANTS
    t1 = t1
    t2 = t2
    Thread = {t1, t2}
    MaxEpoch = 1
    MaxAttempts = 2
    Slots = 2
    MaxReleases = 1
    MaxFaults = 1
SYMMETRY Symmetry
INVARIANTS
    HandoffIsCurrent
    SenderIsCovered
    DeliveredMeansArrived
    ReviewIsQuiet
PROPERTIES
    FinalIsFinal
    KeepsPromise
CHECK_DEADLOCK FALSE
