SPECIFICATION Spec
CONSTANTS
    r1 = r1
    r2 = r2
    r3 = r3
    r4 = r4
    c1 = c1
    c2 = c2
    Regions = {r1, r2, r3, r4}
    Clients = {c1, c2}
    Ix = Ix
    MaxBreaks = 4
SYMMETRY RegionSymmetry
INVARIANTS TypeOK SerialLoopFree RecordMatchesRoutes
PROPERTY BreakGivesTwoHops
CHECK_DEADLOCK FALSE
CONSTRAINT Undisturbed
