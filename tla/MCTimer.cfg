\* Three objects: one leaves the head, the middle or the tail of a list.  A
\* period of 0 makes a timer due in the instant it is armed.
CONSTANTS
    Objects = {a, b, c}
    Periods = {0, 1}
    Horizon = 1
    MaxInt64 = 100
    Nil = Nil
    NoList = NoList
SPECIFICATION FairTimerSpec
INVARIANTS
    ListsInv
    NoOversleep
PROPERTIES
    TakesDueInOrder
    EveryTimerServed
