SPECIFICATION Spec
CONSTANTS
    t1 = t1
    t2 = t2
    r1 = r1
    r2 = r2
    g1 = g1
    g2 = g2
    Thread = {t1, t2}
    Reply = {r1}
    Resolution = {}
    Purpose = {"clarification"}
    MaxEpoch = 1
    MaxRounds = 1
    MaxAttempts = 2
    MaxFaults = 0
    MaxOverruns = 0
    PromptReplies = TRUE
SYMMETRY Symmetry
INVARIANT NoRunIsLost
CHECK_DEADLOCK FALSE
