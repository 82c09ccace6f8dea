SPECIFICATION FairSpec
CONSTANTS
    c1 = c1
    c2 = c2
    Slot = {1, 2}
    MaxGeneration = 2
    Caller = {c1, c2}
    MaxJobs = 2
    MaxFaults = 1
INVARIANTS
    WithinBudget
    
PROPERTY JobsAreClaimed
CHECK_DEADLOCK FALSE
