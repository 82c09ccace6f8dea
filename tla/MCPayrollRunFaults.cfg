SPECIFICATION FairSpec
CONSTANTS
    t1 = t1
    t2 = t2
    r1 = r1
    r2 = r2
    g1 = g1
    g2 = g2
    Thread = {t1, t2}
    Reply = {r1}
    Resolution = {g1}
    Purpose = {"clarification"}
    MaxEpoch = 0
    MaxRounds = 2
    MaxAttempts = 2
    MaxFaults = 1
    MaxOverruns = 0
    PromptReplies = TRUE
INVARIANTS
    NoRunIsLost
    
PROPERTIES
    KeepsPromise
    RunComesToRest
CHECK_DEADLOCK FALSE
