\* Two requests run, one waits and one finds the queue full; one start fails.
CONSTANTS
    Requests = {r1, r2, r3, r4}
    Silent = {r4}
    EasyCurls = {e1, e2, e3}
    MaxPerform = 2
    MaxQueue = 1
    MaxFailures = 1
    Multi = Multi
    None = None
SPECIFICATION FairCurlSpec
INVARIANTS
    Inv
    LimitsAreOwn
    AnsweredOnce
PROPERTY EveryRequestAnswered
CHECK_DEADLOCK FALSE
