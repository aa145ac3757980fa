\* A module asks for as many indexes as there are, and another one for one more.
CONSTANTS
    MaxIndex = 3
    MaxHashNumber = 3
    Objects = {o1, o2, o3, o4}
    NoObject = NoObject
    Types = {1, 2, 3}
    Numbers = {1, 2, 3}
    MaxLoads = 5
    NoModule = NoModule
SYMMETRY Symmetry
SPECIFICATION Spec
INVARIANT SearchEnds
\* The configuration has an end, and a search may have none.
CHECK_DEADLOCK FALSE
