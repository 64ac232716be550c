SPECIFICATION Spec
CONSTANTS
    e0 = e0
    e1 = e1
    r1 = r1
    r2 = r2
    c1 = c1
    c2 = c2
    lossy = lossy
    Ifaces = {e0, e1}
    Routers = {r1, r2}
    Clients = {c1, c2}
    Conds = {lossy}
    NoRouter = NoRouter
    NoCond = NoCond
    NoIface = NoIface
    Free = Free
    FirstIface = e0
    FirstRouter = r1
    MaxAddrs = 3
    Directions = {"both"}
SYMMETRY ClientSymmetry
INVARIANTS TypeOK UplinksExist KernelMatches RouteFollowsDefault
PROPERTY NoPairOverPair
CHECK_DEADLOCK FALSE
CONSTRAINT Undisturbed
