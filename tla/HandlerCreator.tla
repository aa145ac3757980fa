--------------------------- MODULE HandlerCreator ---------------------------
(***************************************************************************)
(* The handlers of the configured modules (gamma/handlercreator.cpp): at   *)
(* start-up each module asks the pool of handlers for an interval of       *)
(* indexes and has a handler of its library made at each of them; a module *)
(* that is configured again gives its interval back first.                 *)
(*                                                                         *)
(* The pool is DestinationPool, driven by its own operations.  Its search  *)
(* runs under GlobalHandler's lock and has no end when no slot is free.    *)
(* The pools of sockets and curls, which no module owns, are the other     *)
(* kind: their users call the operations in any order.                     *)
(***************************************************************************)
EXTENDS PoolProps

CONSTANTS Types,     \* of modules; m_moduleInfoMap is in their order
          Numbers,   \* of handlers that a module may have
          MaxLoads,  \* bound: calls of loadModule
          NoModule

ASSUME CreatorAssumption ==
    /\ Types \subseteq Nat \ {0} /\ NoModule \notin Types
    /\ Numbers \subseteq Nat /\ MaxLoads \in Nat
    /\ MaxHashNumber > 1

VARIABLES
    modules,    \* m_moduleInfoMap: the interval of a module
    libraries,  \* m_soInfoMap: the modules whose library is loaded
    load,       \* where loadModule is, and its local variables
    owner,      \* m_moduleType of a handler
    loads,      \* calls of loadModule so far
    asked       \* history: the indexes that these have asked for

creatorVars == <<modules, libraries, load, owner, loads, asked>>

vars == <<poolVars, creatorVars>>

MainIndex == 1   \* MAIN_HANDLER_INDEX
MainType == 0    \* the module type of the main handler

At(phase, type, number, left, i) ==
    [phase |-> phase, type |-> type, number |-> number, left |-> left, index |-> i]

\* A pool of handlers, or one that HandlerCreator does not know
Init ==
    /\ PoolInit
    /\ modules = [t \in Types |-> NoModule]
    /\ libraries = {}
    /\ \E phase \in {"main", "none"} : load = At(phase, MainType, 0, 0, 0)
    /\ owner = [o \in Objects |-> MainType]
    /\ loads = 0
    /\ asked = 0

Interval(t) == IF modules[t] = NoModule THEN {} ELSE modules[t].begin .. modules[t].end

\* findMatchInfo: the first module with this index that has its library
Matches(i) == {t \in libraries : i \in Interval(t)}

\* Whose function makes and destroys the handler of an index
\* (HandlerCreatorCreateObject, HandlerCreatorReleaseObject); NoModule if nobody's
Creator(i) ==
    IF i = MainIndex THEN MainType
    ELSE IF Matches(i) = {} THEN NoModule
    ELSE CHOOSE t \in Matches(i) : \A u \in Matches(i) : t <= u

\* createDestination of the main handler
CreateMain ==
    /\ load.phase = "main"
    /\ \E o \in Objects : CreateAt(o, MainIndex)
    /\ load' = [load EXCEPT !.phase = "idle"]
    /\ UNCHANGED <<modules, libraries, owner, loads, asked>>

\* loadModule; unloadModule comes first
LoadModule(t, n) ==
    /\ load.phase = "idle" /\ loads < MaxLoads
    /\ loads' = loads + 1
    /\ asked' = asked + n
    /\ load' = At("unload", t, n, n, IF modules[t] = NoModule THEN 0 ELSE modules[t].begin)
    /\ UNCHANGED <<poolVars, modules, libraries, owner>>

\* unloadModuleInformation: removeByIndex, for each index of the interval
UnloadNext ==
    /\ load.phase = "unload" /\ load.index \in Interval(load.type)
    /\ IF load.index \in Used THEN Remove(load.index) ELSE UNCHANGED poolVars
    /\ load' = [load EXCEPT !.index = @ + 1]
    /\ UNCHANGED <<modules, libraries, owner, loads, asked>>

\* The module leaves the map.  Then loadSO, which may fail.
Unloaded ==
    /\ load.phase = "unload" /\ load.index \notin Interval(load.type)
    /\ modules' = [modules EXCEPT ![load.type] = NoModule]
    /\ libraries' \in {libraries, libraries \union {load.type}}
    /\ load' = [load EXCEPT !.phase = "reserve", !.index = 0]
    /\ UNCHANGED <<poolVars, owner, loads, asked>>

\* getNextDestinationIndex: one more slot, the last one is the result; or the
\* search that does not end, with the lock of GlobalHandler held
ReserveNext ==
    /\ load.phase = "reserve" /\ load.left > 0
    /\ \/ \E s \in Slots : Reserve(s) /\ load' = [load EXCEPT !.left = @ - 1, !.index = s]
       \/ /\ Used = Slots
          /\ load' = [load EXCEPT !.phase = "endless"]
          /\ UNCHANGED poolVars
    /\ UNCHANGED <<modules, libraries, owner, loads, asked>>

WrongBeginIndex(end, number) == end - number

\* The slots given are taken for an interval that ends with the last one.  Below 0
\* the result comes round, and is greater than end.
BeginIndex(end, number) == end + 1 - number

Reserved ==
    /\ load.phase = "reserve" /\ load.left = 0
    /\ LET end == load.index
           begin == BeginIndex(end, load.number)
       IN IF begin < 0 \/ begin > end
          THEN /\ load' = [load EXCEPT !.phase = "idle"]
               /\ UNCHANGED modules
          ELSE /\ modules' = [modules EXCEPT ![load.type] = [begin |-> begin, end |-> end]]
               /\ load' = [load EXCEPT !.phase = "create", !.index = begin]
    /\ UNCHANGED <<poolVars, libraries, owner, loads, asked>>

\* createDestination, for each index of the interval.  The pool refuses it, or no
\* library makes a handler, and the next index has its turn; create(0) looks for a
\* slot of its own.
CreateNext ==
    /\ load.phase = "create" /\ load.index \in Interval(load.type)
    /\ IF MayCreate(load.index) /\ Creator(load.index) # NoModule
       THEN \E o \in Objects :
               /\ IF load.index = 0 THEN \E s \in Slots : Create(o, s)
                  ELSE CreateAt(o, load.index)
               /\ owner' = [owner EXCEPT ![o] = load.type]
       ELSE UNCHANGED <<poolVars, owner>>
    /\ load' = [load EXCEPT !.index = @ + 1]
    /\ UNCHANGED <<modules, libraries, loads, asked>>

Loaded ==
    /\ load.phase = "create" /\ load.index \notin Interval(load.type)
    /\ load' = [load EXCEPT !.phase = "idle"]
    /\ UNCHANGED <<poolVars, modules, libraries, owner, loads, asked>>

\* Sockets and curls
UsePool ==
    /\ load.phase = "none"
    /\ PoolNext
    /\ UNCHANGED creatorVars

Next ==
    \/ UsePool
    \/ CreateMain
    \/ \E t \in Types, n \in Numbers : LoadModule(t, n)
    \/ UnloadNext \/ Unloaded
    \/ ReserveNext \/ Reserved
    \/ CreateNext \/ Loaded

Spec == Init /\ [][Next]_vars

-----------------------------------------------------------------------------
(***************************************************************************)
(* Properties                                                              *)
(***************************************************************************)

\* A loaded module that loadModule is not working on has its handlers.
Complete(t) == t \in libraries /\ ~ (load.phase \in {"unload", "create"} /\ load.type = t)

\* The intervals rest on a search that gives single slots, takes none of them and
\* goes over those in use.  As long as all loads together have asked for less
\* indexes than there are slots: the search ends, nobody replaces the main handler
\* or another module's, each handler is destroyed by the library that made it, and
\* a module has a handler at each index that create(index) does not refuse.
ModulesKeepSlots ==
    load.phase # "none" /\ asked < MaxIndex =>
        /\ load.phase # "endless"
        /\ load.phase # "main" => MainIndex \in Used
        /\ \A s \in Used : Creator(s) = owner[objects[s]]
        /\ \A t \in Types : Complete(t) =>
              \A s \in Interval(t) : s < MaxHashNumber => s \in Used

\* Without that bound a load may find the pool full and never return.
SearchEnds == load.phase # "endless"
=============================================================================
