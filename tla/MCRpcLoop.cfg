CONSTANTS
    MaxStarted = 2
    MaxTimers = 4
    Versions = 4
    MaxID = 3
    MaxCalls = 2
SPECIFICATION Spec
INVARIANT TimeoutAlwaysComes
CHECK_DEADLOCK FALSE
