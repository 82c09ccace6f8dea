SPECIFICATION Spec
CONSTANTS
    dre = dre
    Nobody = Nobody
    Employee = {david, daniel}
    Token = {dave, dre}
    Run = {r1, r2}
    Rosters <- SeedRosters
    MaxRounds = 1
    MaxDelivering = 1
    MaxFaults = 1
SYMMETRY Alike
INVARIANTS
    
    RightPerson
    LearnedIsUnique
    LearnedFromItsPayroll
    
CHECK_DEADLOCK FALSE
