CONSTANTS
    Projects <- MCProjects
    Archives <- MCArchives
    MaxPushes = 2
    MaxSeconds = 1
    MaxBytes = 3
SPECIFICATION StoreSpec
INVARIANTS
    PushAllOrNothing
    FailuresShown
CHECK_DEADLOCK FALSE
