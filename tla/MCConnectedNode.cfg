CONSTANTS
    Nodes = {n1}
    Discovery = n1
    Addresses = {a1, a2}
    Workers = {w1, w2}
    NoAddress = NoAddress
    MaxHandle = 3
    MaxGossip = 1
    MaxLost = 0
SPECIFICATION Spec
PROPERTY ConnectedNodeSkipped
\* Connected nodes may have nothing more to tell each other.
CHECK_DEADLOCK FALSE
