SPECIFICATION MCSpec
CONSTANTS
    Tasks = {t1, t2}
    Names <- MCNames
    Regions = {"g"}
    Ifaces = {"eth0"}
    Starts <- MCStarts
    MaxOps = 3
INVARIANTS SubnetsDisjoint AddressesUnique UnwrapsHold NamesResolve PublicRouted
SYMMETRY Callers
CHECK_DEADLOCK FALSE
