--------------------------- MODULE DestinationPool ---------------------------
(***************************************************************************)
(* The pool that gives a socket object, a handler or a curl its slot and   *)
(* thereby its handle (libcore/destinationpool.h, destinationgroup.h).     *)
(*                                                                         *)
(* A pool is used by one thread or under its owner's lock, so an operation *)
(* is one action.  A handle is the slot, with no version: node, service    *)
(* and type are the pool's own.                                            *)
(***************************************************************************)
EXTENDS Integers, Sequences, FiniteSets

CONSTANTS MaxIndex,       \* the last slot, 65535
          MaxHashNumber,  \* m_maxHashNumber
          Objects,        \* the memory that objects are made of
          NoObject

ASSUME PoolAssumption ==
    /\ MaxIndex \in Nat \ {0}
    /\ MaxHashNumber \in 1 .. MaxIndex
    /\ NoObject \notin Objects

Slots == 1 .. MaxIndex

VARIABLES
    objects,      \* m_objects
    idleObjects,  \* m_idleObjects, the last one on top
    index,        \* the slot in an object's own handle
    useCount,     \* m_useCount
    slotIndex,    \* m_slotIndex, one past the last slot before it comes round
    passed        \* history: for each slot, the others that the search has gone
                  \* over since it gave this one; all if it never did

poolVars == <<objects, idleObjects, index, useCount, slotIndex, passed>>

PoolInit ==
    /\ objects = [s \in Slots |-> NoObject]
    /\ idleObjects = <<>>
    /\ index = [o \in Objects |-> 0]
    /\ useCount = 0
    /\ slotIndex = 1
    /\ passed = [s \in Slots |-> Slots]

Used == {s \in Slots : objects[s] # NoObject}

\* Memory that holds no object: those are in a slot or idle.
Unallocated ==
    {o \in Objects : /\ \A s \in Slots : objects[s] # o
                     /\ \A i \in DOMAIN idleObjects : idleObjects[i] # o}

-----------------------------------------------------------------------------
\* The slots from p up to s, s left out, in the order of moveSlot.
Before(p, s) ==
    IF p <= s THEN p .. s - 1 ELSE (p .. MaxIndex) \union (1 .. s - 1)

\* getNextSlot gives the first free slot, s, from slotIndex on.  When there is none
\* it has no end, and the pool no other operation: HandlerCreator has that state.
IsNextSlot(s) ==
    /\ objects[s] = NoObject
    /\ \A t \in Before(slotIndex, s) : objects[t] # NoObject

\* The search starts from the first slot each time.
WrongMoveTo(s) ==
    /\ slotIndex' = 1
    /\ passed' = [t \in Slots |->
                    IF t = s THEN {}
                    ELSE passed[t] \union Before(slotIndex, s) \union {s}]

\* moveSlot, as often as getNextSlot calls it
MoveTo(s) ==
    /\ slotIndex' = s + 1
    /\ passed' = [t \in Slots |->
                    IF t = s THEN {}
                    ELSE passed[t] \union Before(slotIndex, s) \union {s}]

\* getIdleObject: an object that was used before, the last one first, or a new one
GetIdleObject(o) ==
    IF idleObjects # <<>>
    THEN /\ o = idleObjects[Len(idleObjects)]
         /\ idleObjects' = SubSeq(idleObjects, 1, Len(idleObjects) - 1)
    ELSE /\ o \in Unallocated
         /\ UNCHANGED idleObjects

\* The guard of create against a full pool
MayCreate(i) == useCount < MaxHashNumber /\ i < MaxHashNumber

\* create(0) puts object o into slot s.
Create(o, s) ==
    /\ MayCreate(0)
    /\ GetIdleObject(o)
    /\ IsNextSlot(s)
    /\ MoveTo(s)
    /\ index' = [index EXCEPT ![o] = s]
    /\ objects' = [objects EXCEPT ![s] = o]
    /\ useCount' = useCount + 1

\* The object that was there is not accounted for.
WrongCreateAt(o, s) ==
    /\ MayCreate(s)
    /\ o \in Unallocated
    /\ index' = [index EXCEPT ![o] = s]
    /\ objects' = [objects EXCEPT ![s] = o]
    /\ useCount' = useCount + 1
    /\ UNCHANGED <<idleObjects, slotIndex, passed>>

\* create(s) makes a new object o; the one that was there is destroyed.
CreateAt(o, s) ==
    /\ MayCreate(s)
    /\ o \in Unallocated
    /\ index' = [index EXCEPT ![o] = s]
    /\ objects' = [objects EXCEPT ![s] = o]
    /\ useCount' = IF objects[s] = NoObject THEN useCount + 1 ELSE useCount
    /\ UNCHANGED <<idleObjects, slotIndex, passed>>

\* get: the object whose handle this is
Get(s) == IF objects[s] # NoObject /\ index[objects[s]] = s THEN objects[s]
          ELSE NoObject

Free(s) ==
    /\ objects' = [objects EXCEPT ![s] = NoObject]
    /\ useCount' = useCount - 1
    /\ UNCHANGED <<index, slotIndex, passed>>

\* idle(o): by the handle that o has, which names another object, or none, if o
\* was given back before
Idle(o) ==
    /\ o \notin Unallocated
    /\ Get(index[o]) # NoObject
    /\ Free(index[o])
    /\ idleObjects' = Append(idleObjects, Get(index[o]))

\* remove(s), removeByIndex(s)
Remove(s) ==
    /\ Get(s) # NoObject
    /\ Free(s)
    /\ UNCHANGED idleObjects

\* One slot of DestinationGroup::getNextDestinationIndex: it is looked up and not
\* taken.
Reserve(s) ==
    /\ IsNextSlot(s)
    /\ MoveTo(s)
    /\ UNCHANGED <<objects, idleObjects, index, useCount>>

PoolNext ==
    \/ \E o \in Objects, s \in Slots : Create(o, s)
    \/ \E o \in Objects, s \in Slots : CreateAt(o, s)
    \/ \E o \in Objects : Idle(o)
    \/ \E s \in Slots : Remove(s)
    \/ \E s \in Slots : Reserve(s)

PoolSpec == PoolInit /\ [][PoolNext]_poolVars
=============================================================================
