SPECIFICATION Spec
CONSTANTS
    dre = dre
    Nobody = Nobody
    Employee = {david, daniel}
    Token = {dave, dre}
    Run = {r1, r2}
    Rosters <- SeedRosters
    MaxRounds = 1
    MaxDelivering = 1
    MaxFaults = 0
SYMMETRY Alike
INVARIANT LearnedWasMeant
CHECK_DEADLOCK FALSE
