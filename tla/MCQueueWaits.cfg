CONSTANTS
    Lengths = {2}
    Capacity = 2
    MaxOpened = 1
    MaxSends = 1
    MaxReceived = 0
    MaxSignals = 0
SPECIFICATION Spec
INVARIANT QueueWaitsForOut
\* Every connection may be closed, and no more be opened.
CHECK_DEADLOCK FALSE
