SPECIFICATION Spec
CONSTANTS
    srv = srv
    cli = cli
    Ids = {srv, cli}
    Scripts <- Simulations
    Deadline = 3
    CaptureTimeout = 1
    MaxNow = 5
INVARIANTS ResultsFinal ResultsOnce NothingLeftRunning
PROPERTIES StartsAfterRequired SimEnds
CHECK_DEADLOCK FALSE
