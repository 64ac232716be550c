CONSTANTS
    Topologies <- MCTopologies
    Files <- MCFiles
    Runners = {r1}
    FileLists <- OneFile
SPECIFICATION RunsSpec
INVARIANT
    GuardsKept
CHECK_DEADLOCK FALSE
