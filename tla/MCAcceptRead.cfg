\* Packets of a head only, with a body, and too long before the identification.
\* Every way to read the bytes of three packets, and a second connection on the
\* object of the first.
CONSTANTS
    HeadLength = 2
    Lengths = {2, 3, 4}
    MaxUnknown = 3
    MaxIdentified = 4
    MaxPackets = 3
    MaxConnections = 2
SPECIFICATION Spec
INVARIANTS
    Inv
    FramesInOrder
\* The peer may have nothing more to send.
CHECK_DEADLOCK FALSE
