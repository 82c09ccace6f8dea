SPECIFICATION Spec
CONSTANTS
    t1 = t1
    t2 = t2
    r1 = r1
    r2 = r2
    g1 = g1
    g2 = g2
    Thread = {t1, t2}
    Reply = {r1, r2}
    Resolution = {g1}
    Purpose = {"clarification", "field_regression"}
    MaxEpoch = 0
    MaxRounds = 3
    MaxAttempts = 2
    MaxFaults = 0
    MaxOverruns = 0
    PromptReplies = FALSE
SYMMETRY Symmetry
INVARIANTS
    SingleSpine
    RepliesPassOnce
    WaitsForAnOpenQuestion
PROPERTIES
    ApprovalStands
CHECK_DEADLOCK FALSE
