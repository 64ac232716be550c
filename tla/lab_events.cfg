SPECIFICATION Spec
CONSTANTS
    d1 = d1
    e0 = e0
    e1 = e1
    r1 = r1
    r2 = r2
    Devices = {d1}
    Ifaces = {e0, e1}
    Routers = {r1, r2}
    Ports <- MCPorts
    Guard = Guard
    NoRouter = NoRouter
    Capacity = 2
    MaxEvents = 5
    MaxFaults = 1
INVARIANTS PublishedMatches LogCoversState StatusKept
PROPERTY EventuallyWritten
CHECK_DEADLOCK FALSE
