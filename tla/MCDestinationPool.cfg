\* As many slots as may be used, as in the code: the pool may be full.  Objects for
\* all the slots and one more.  Modules that are loaded again, and loads that ask
\* for more indexes than there are.
CONSTANTS
    MaxIndex = 4
    MaxHashNumber = 4
    Objects = {o1, o2, o3, o4, o5}
    NoObject = NoObject
    Types = {1, 2, 3}
    Numbers = {0, 1, 2, 4}
    MaxLoads = 3
    NoModule = NoModule
SYMMETRY Symmetry
SPECIFICATION Spec
INVARIANTS
    PoolInv
    ModulesKeepSlots
PROPERTY HandlesComeInTurn
\* The configuration has an end, and a search may have none.
CHECK_DEADLOCK FALSE
