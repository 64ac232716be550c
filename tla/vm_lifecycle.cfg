\* Four commands with three faults; two of the three shares.
SPECIFICATION Spec
CONSTANTS
    Paths = {A, B}
    Shares <- MCShares
    MaxCalls = 4
    MaxFaults = 3
INVARIANTS
    VmKnown
PROPERTIES
    UpMounts
    DownStops
CHECK_DEADLOCK FALSE
