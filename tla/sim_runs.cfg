CONSTANTS
    Topologies <- MCTopologies
    Files <- MCFiles
    Runners = {r1, r2}
    FileLists <- MCFileLists
SYMMETRY Symmetry
SPECIFICATION RunsSpec
INVARIANTS
    OwnDirs
    VerdictRight
    CombinedFirst
    StepsResolve
CHECK_DEADLOCK FALSE
