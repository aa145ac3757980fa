CONSTANTS
    MaxStarted = 2
    MaxTimers = 4
    Versions = 4
    MaxID = 3
    MaxCalls = 2
SPECIFICATION FairSpec
INVARIANTS
    Inv
    TimeoutComes
    SleepUndisturbed
PROPERTIES
    EveryWaitEnds
    TimersReleased
CHECK_DEADLOCK FALSE
