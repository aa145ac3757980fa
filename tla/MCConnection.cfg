\* A packet of two is cut after one unit, and nothing is taken behind an answer or a
\* pong of one that the peer has not read.
CONSTANTS
    Lengths = {2}
    Capacity = 1
    MaxOpened = 2
    MaxSends = 2
    MaxReceived = 2
    MaxSignals = 1
SPECIFICATION FairSpec
INVARIANTS
    Inv
    PacketsInOrder
PROPERTIES
    QueueDrains
    SilentAcceptsEnd
\* Every connection may be closed, and no more be opened.
CHECK_DEADLOCK FALSE
