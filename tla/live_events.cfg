\* One page follows a run of four events with one fault.
SPECIFICATION Spec
CONSTANTS
    MaxEvents = 4
    MaxFaults = 1
INVARIANT GapsExplained
PROPERTY StreamFaithful
PROPERTY CaughtUp
CHECK_DEADLOCK FALSE
