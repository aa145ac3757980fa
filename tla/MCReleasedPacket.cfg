CONSTANTS
    HeadLength = 2
    Lengths = {2, 3}
    MaxUnknown = 3
    MaxIdentified = 3
    MaxPackets = 2
    MaxConnections = 1
SPECIFICATION Spec
INVARIANT TempPacketCleared
\* The peer may have nothing more to send.
CHECK_DEADLOCK FALSE
