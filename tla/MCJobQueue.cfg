SPECIFICATION FairSpec
CONSTANTS
    j1 = j1
    j2 = j2
    p1 = p1
    p2 = p2
    t1 = t1
    t2 = t2
    Job = {j1, j2}
    PipelineJob = {j2}
    Proc = {p1, p2}
    Thread = {t1, t2}
    Home <- OneThreadEach
    MaxAttempts = 2
    MaxRestarts = 1
INVARIANTS
    SoleClaimant
    
    StopHandsBack
PROPERTIES
    KeepsPromise
    JobsSettle
CHECK_DEADLOCK FALSE
