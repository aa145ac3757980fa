\* Requests and answers of three units, in one piece or several.  Three connections
\* of one object, each of which may meet an event of the one before.
CONSTANTS
    Length = 3
    MaxOpened = 3
SPECIFICATION FairSpec
INVARIANTS
    Inv
    ClientServed
    AnswersIntact
PROPERTY ConnectionsEnd
\* After the last connection nothing is left to do.
CHECK_DEADLOCK FALSE
