CONSTANTS
    Length = 2
    MaxOpened = 1
SPECIFICATION Spec
INVARIANT SplitRequestServed
\* After the last connection nothing is left to do.
CHECK_DEADLOCK FALSE
