SPECIFICATION FairSpec
CONSTANTS
    t1 = t1
    t2 = t2
    m1 = m1
    r1 = r1
    s1 = s1
    s2 = s2
    Thread = {t1, t2}
    Email = {m1, r1}
    Opening = {m1}
    Reply = {r1}
    Event = {s1, s2}
    Carries <- OneOfEach
    MaxEpoch = 1
    MaxMoves = 2
    Aging = {s1}
    MaxAttempts = 2
    MaxFaults = 2
INVARIANTS
    OneRunPerEmail
    AcceptedIsOwned
PROPERTIES
    AcceptedIsDecided
CHECK_DEADLOCK FALSE
