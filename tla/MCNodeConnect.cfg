CONSTANTS
    Nodes = {n1, n2}
    Discovery = n1
    Addresses = {a1, a2}
    Workers = {w1, w2}
    NoAddress = NoAddress
    MaxHandle = 4
    MaxGossip = 1
    MaxLost = 1
SPECIFICATION FairSpec
INVARIANTS
    Inv
    RouteLeadsToNode
    NodeNeverForgotten
PROPERTY NodesGetConnected
\* Connected nodes may have nothing more to tell each other.
CHECK_DEADLOCK FALSE
