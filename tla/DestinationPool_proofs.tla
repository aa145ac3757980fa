----------------------- MODULE DestinationPool_proofs -----------------------
(***************************************************************************)
(* Proofs about the pool, for any number of slots and objects.             *)
(***************************************************************************)
EXTENDS PoolProps, TLAPS, FiniteSetTheorems, SequenceTheorems

-----------------------------------------------------------------------------
(***************************************************************************)
(* The count of the slots in use.                                          *)
(***************************************************************************)

LEMMA SlotsFinite ==
  /\ IsFiniteSet(Slots)
  /\ Cardinality(Slots) = MaxIndex
  /\ \A T \in SUBSET Slots : IsFiniteSet(T) /\ Cardinality(T) \in Nat
<1>1. 1 \in Int /\ MaxIndex \in Int /\ MaxIndex >= 1  BY PoolAssumption
<1>2. IsFiniteSet(Slots) /\ Cardinality(Slots) = MaxIndex
  BY <1>1, FS_Interval DEF Slots
<1>3. \A T \in SUBSET Slots : IsFiniteSet(T) /\ Cardinality(T) \in Nat
  BY <1>2, FS_Subset, FS_CardinalityType
<1> QED  BY <1>2, <1>3

\* An object put into slot s: the set of used slots and its size afterwards.
LEMMA UsedAfterPut ==
  ASSUME PoolTypeOK, NEW s \in Slots, NEW o \in Objects,
         objects' = [objects EXCEPT ![s] = o]
  PROVE  /\ Used' = Used \union {s}
         /\ Cardinality(Used') = IF objects[s] = NoObject THEN Cardinality(Used) + 1
                                                          ELSE Cardinality(Used)
<1>1. Used' = Used \union {s}  BY PoolAssumption DEF Used, PoolTypeOK
<1>2. IsFiniteSet(Used)  BY SlotsFinite DEF Used
<1>3. s \in Used <=> objects[s] # NoObject  BY DEF Used
<1> QED  BY <1>1, <1>2, <1>3, FS_AddElement

\* Slot s emptied.
LEMMA UsedAfterFree ==
  ASSUME PoolTypeOK, NEW s \in Slots, objects[s] # NoObject, Free(s)
  PROVE  /\ Used' = Used \ {s}
         /\ Cardinality(Used') = Cardinality(Used) - 1
<1>1. Used' = Used \ {s}  BY DEF Used, PoolTypeOK, Free
<1>2. IsFiniteSet(Used)  BY SlotsFinite DEF Used
<1>3. s \in Used  BY DEF Used
<1> QED  BY <1>1, <1>2, <1>3, FS_RemoveElement

-----------------------------------------------------------------------------
(***************************************************************************)
(* The stack of idle objects.                                              *)
(***************************************************************************)

\* push_back
LEMMA PushIdle ==
  ASSUME NEW q \in Seq(Objects), NEW o \in Objects
  PROVE  /\ Append(q, o) \in Seq(Objects)
         /\ DOMAIN Append(q, o) = 1 .. Len(q) + 1
         /\ \A i \in 1 .. Len(q) : Append(q, o)[i] = q[i]
         /\ Append(q, o)[Len(q) + 1] = o
         /\ DOMAIN q = 1 .. Len(q)
         /\ Len(q) \in Nat
  OBVIOUS

\* back and pop_back
LEMMA PopIdle ==
  ASSUME NEW q \in Seq(Objects), q # <<>>
  PROVE  /\ Len(q) \in Nat \ {0}
         /\ DOMAIN q = 1 .. Len(q)
         /\ q[Len(q)] \in Objects
         /\ SubSeq(q, 1, Len(q) - 1) \in Seq(Objects)
         /\ DOMAIN SubSeq(q, 1, Len(q) - 1) = 1 .. Len(q) - 1
         /\ \A i \in 1 .. Len(q) - 1 : SubSeq(q, 1, Len(q) - 1)[i] = q[i]
<1>1. Len(q) \in Nat \ {0} /\ DOMAIN q = 1 .. Len(q)  BY EmptySeq, LenProperties
<1>2. q[Len(q)] \in Objects  BY <1>1, ElementOfSeq
<1>3. \A i \in 1 .. Len(q) - 1 : i \in 1 .. Len(q)  BY <1>1
<1> DEFINE r == SubSeq(q, 1, Len(q) - 1)
<1>4. r = [i \in 1 .. Len(q) - 1 |-> q[i]]
  BY <1>1
<1>5. r \in Seq(Objects) /\ Len(r) = Len(q) - 1
  BY <1>1, <1>3, <1>4, ElementOfSeq, SeqDef
<1> QED  BY <1>1, <1>2, <1>4, <1>5

-----------------------------------------------------------------------------
(***************************************************************************)
(* Each operation preserves the invariant.                                 *)
(***************************************************************************)

\* The search: what has been gone over is known for every slot, the one that is
\* given included.
LEMMA SearchStep ==
  ASSUME PoolInv, NEW s \in Slots, MoveTo(s)
  PROVE  /\ slotIndex' \in 1 .. MaxIndex + 1
         /\ passed' \in [Slots -> SUBSET Slots]
         /\ PassedOK'
         /\ Slots \ {s} \subseteq passed[s] \union Before(slotIndex, s)
<1>1. /\ MaxIndex \in Nat \ {0}
      /\ slotIndex \in 1 .. MaxIndex + 1
      /\ passed \in [Slots -> SUBSET Slots]
      /\ Slots = 1 .. MaxIndex
  BY PoolAssumption DEF PoolInv, PoolTypeOK, Slots
<1>2. /\ slotIndex' = s + 1
      /\ \A t \in Slots : passed'[t] = IF t = s THEN {}
                          ELSE passed[t] \union Before(slotIndex, s) \union {s}
      /\ passed' = [t \in Slots |-> IF t = s THEN {}
                          ELSE passed[t] \union Before(slotIndex, s) \union {s}]
  BY DEF MoveTo
<1>3. Before(slotIndex, s) \subseteq Slots  BY <1>1 DEF Before
<1>4. slotIndex' \in 1 .. MaxIndex + 1  BY <1>1, <1>2
<1>5. passed' \in [Slots -> SUBSET Slots]  BY <1>1, <1>2, <1>3
<1>6. ASSUME NEW t \in Slots
      PROVE  IF t < slotIndex' THEN t + 1 .. slotIndex' - 1 \subseteq passed'[t]
             ELSE (t + 1 .. MaxIndex) \union (1 .. slotIndex' - 1) \subseteq passed'[t]
  <2>1. CASE t = s  BY <2>1, <1>1, <1>2
  <2>2. CASE t # s
    <3>1. passed'[t] = passed[t] \union Before(slotIndex, s) \union {s}  BY <2>2, <1>2
    <3>2. IF t < slotIndex THEN t + 1 .. slotIndex - 1 \subseteq passed[t]
          ELSE (t + 1 .. MaxIndex) \union (1 .. slotIndex - 1) \subseteq passed[t]
      BY DEF PoolInv, PassedOK
    <3>3. CASE slotIndex <= s
      <4>1. Before(slotIndex, s) = slotIndex .. s - 1  BY <3>3 DEF Before
      <4> QED  BY <4>1, <3>1, <3>2, <3>3, <2>2, <1>1, <1>2
    <3>4. CASE slotIndex > s
      <4>1. Before(slotIndex, s) = (slotIndex .. MaxIndex) \union (1 .. s - 1)
        BY <3>4, <1>1 DEF Before
      <4> QED  BY <4>1, <3>1, <3>2, <3>4, <2>2, <1>1, <1>2
    <3> QED  BY <3>3, <3>4, <1>1
  <2> QED  BY <2>1, <2>2
<1>7. Slots \ {s} \subseteq passed[s] \union Before(slotIndex, s)
  <2>1. IF s < slotIndex THEN s + 1 .. slotIndex - 1 \subseteq passed[s]
        ELSE (s + 1 .. MaxIndex) \union (1 .. slotIndex - 1) \subseteq passed[s]
    BY DEF PoolInv, PassedOK
  <2> QED  BY <2>1, <1>1 DEF Before
<1> QED  BY <1>4, <1>5, <1>6, <1>7 DEF PassedOK

\* create(0) takes an object that is in no slot.
LEMMA CreateStep ==
  ASSUME PoolInv, NEW o \in Objects, NEW s \in Slots, Create(o, s)
  PROVE  PoolInv'
<1> USE DEF PoolInv
<1>1. /\ GetIdleObject(o) /\ MoveTo(s) /\ objects[s] = NoObject
      /\ index' = [index EXCEPT ![o] = s]
      /\ objects' = [objects EXCEPT ![s] = o]
      /\ useCount' = useCount + 1
  BY DEF Create, IsNextSlot
<1>2. /\ slotIndex' \in 1 .. MaxIndex + 1 /\ passed' \in [Slots -> SUBSET Slots]
      /\ PassedOK'
  BY <1>1, SearchStep
<1>3. /\ Used' = Used \union {s}
      /\ Cardinality(Used') = Cardinality(Used) + 1
  BY <1>1, UsedAfterPut
<1>4. \A t \in Slots : objects[t] # o
  BY <1>1 DEF GetIdleObject, Unallocated, IdleOK, PoolTypeOK
<1>5. /\ idleObjects' \in Seq(Objects)
      /\ \A i \in DOMAIN idleObjects' : /\ i \in DOMAIN idleObjects
                                        /\ idleObjects'[i] = idleObjects[i]
                                        /\ idleObjects'[i] # o
  <2>1. CASE idleObjects # <<>>
    <3> DEFINE n == Len(idleObjects)
    <3>1. /\ idleObjects \in Seq(Objects)
          /\ o = idleObjects[n] /\ idleObjects' = SubSeq(idleObjects, 1, n - 1)
      BY <1>1, <2>1 DEF GetIdleObject, PoolTypeOK
    <3>2. /\ n \in Nat \ {0} /\ DOMAIN idleObjects = 1 .. n
          /\ idleObjects' \in Seq(Objects)
          /\ DOMAIN idleObjects' = 1 .. n - 1
          /\ \A i \in 1 .. n - 1 : idleObjects'[i] = idleObjects[i]
      BY <3>1, <2>1, PopIdle
    <3> HIDE DEF n
    <3>3. n \in Nat \ {0}  BY <3>2
    <3>4. \A i \in 1 .. n - 1 : i \in 1 .. n /\ i # n /\ n \in 1 .. n  BY <3>3
    <3> QED  BY <3>1, <3>2, <3>4 DEF IdleOK
  <2>2. CASE idleObjects = <<>>
    BY <1>1, <2>2 DEF GetIdleObject, Unallocated, PoolTypeOK
  <2> QED  BY <2>1, <2>2
<1>6. PoolTypeOK'
  BY <1>1, <1>2, <1>5 DEF PoolTypeOK, Slots
<1>7. HandlesOK'
  <2>1. ASSUME NEW t \in Used' PROVE index'[objects'[t]] = t
    <3>1. CASE t = s  BY <3>1, <1>1 DEF PoolTypeOK
    <3>2. CASE t # s
      <4>1. t \in Used /\ objects'[t] = objects[t] /\ objects[t] # o
        BY <3>2, <2>1, <1>1, <1>3, <1>4 DEF Used, PoolTypeOK
      <4> QED  BY <4>1, <1>1 DEF HandlesOK, PoolTypeOK, Used
    <3> QED  BY <3>1, <3>2
  <2>2. \A i \in DOMAIN idleObjects' : index'[idleObjects'[i]] \in Slots
    <3> TAKE i \in DOMAIN idleObjects'
    <3>1. idleObjects'[i] \in Objects  BY <1>5, ElementOfSeq, LenProperties
    <3> QED  BY <3>1, <1>1, <1>5 DEF HandlesOK, PoolTypeOK
  <2> QED  BY <2>1, <2>2 DEF HandlesOK
<1>8. IdleOK'
  BY <1>1, <1>5 DEF IdleOK, PoolTypeOK
<1>9. Counted'
  BY <1>1, <1>3 DEF Counted
<1> QED  BY <1>2, <1>6, <1>7, <1>8, <1>9

\* create(s), whether or not it replaces an object
LEMMA CreateAtStep ==
  ASSUME PoolInv, NEW o \in Objects, NEW s \in Slots, CreateAt(o, s)
  PROVE  PoolInv'
<1> USE DEF PoolInv
<1>1. /\ o \in Unallocated
      /\ index' = [index EXCEPT ![o] = s]
      /\ objects' = [objects EXCEPT ![s] = o]
      /\ useCount' = IF objects[s] = NoObject THEN useCount + 1 ELSE useCount
      /\ UNCHANGED <<idleObjects, slotIndex, passed>>
  BY DEF CreateAt
<1>2. /\ Used' = Used \union {s}
      /\ Cardinality(Used') = IF objects[s] = NoObject THEN Cardinality(Used) + 1
                                                     ELSE Cardinality(Used)
  BY <1>1, UsedAfterPut
<1>3. /\ \A t \in Slots : objects[t] # o
      /\ \A i \in DOMAIN idleObjects : idleObjects[i] # o
  BY <1>1 DEF Unallocated
<1>4. PoolTypeOK'
  BY <1>1 DEF PoolTypeOK, Slots
<1>5. HandlesOK'
  <2>1. ASSUME NEW t \in Used' PROVE index'[objects'[t]] = t
    <3>1. CASE t = s  BY <3>1, <1>1 DEF PoolTypeOK
    <3>2. CASE t # s
      <4>1. t \in Used /\ objects'[t] = objects[t] /\ objects[t] # o
        BY <3>2, <2>1, <1>1, <1>2, <1>3 DEF Used, PoolTypeOK
      <4> QED  BY <4>1, <1>1 DEF HandlesOK, PoolTypeOK, Used
    <3> QED  BY <3>1, <3>2
  <2>2. \A i \in DOMAIN idleObjects' : index'[idleObjects'[i]] \in Slots
    <3> TAKE i \in DOMAIN idleObjects'
    <3>1. idleObjects[i] \in Objects /\ idleObjects' = idleObjects
      BY <1>1, ElementOfSeq, LenProperties DEF PoolTypeOK
    <3> QED  BY <3>1, <1>1 DEF HandlesOK, PoolTypeOK
  <2> QED  BY <2>1, <2>2 DEF HandlesOK
<1>6. IdleOK'
  BY <1>1, <1>3 DEF IdleOK, PoolTypeOK
<1>7. Counted'
  BY <1>1, <1>2 DEF Counted
<1>8. PassedOK'
  BY <1>1 DEF PassedOK
<1> QED  BY <1>4, <1>5, <1>6, <1>7, <1>8

\* Slot s emptied: what is left of the invariant
LEMMA FreeStep ==
  ASSUME PoolInv, NEW s \in Slots, objects[s] # NoObject, Free(s)
  PROVE  /\ objects' \in [Slots -> Objects \union {NoObject}]
         /\ UNCHANGED <<index, slotIndex, passed>>
         /\ useCount' \in Nat
         /\ Counted'
         /\ \A t \in Slots : t = s \/ objects'[t] = objects[t]
         /\ objects'[s] = NoObject
         /\ \A t \in Used' : t \in Used /\ t # s /\ objects'[t] = objects[t]
<1> USE DEF PoolInv
<1>1. /\ objects' = [objects EXCEPT ![s] = NoObject]
      /\ useCount' = useCount - 1
      /\ UNCHANGED <<index, slotIndex, passed>>
  BY DEF Free
<1>2. Used' = Used \ {s} /\ Cardinality(Used') = Cardinality(Used) - 1
  BY UsedAfterFree
<1>3. Counted' /\ useCount' \in Nat
  <2>1. Used' \in SUBSET Slots  BY DEF Used
  <2>2. Cardinality(Used') \in Nat  BY <2>1, SlotsFinite
  <2> QED  BY <1>1, <1>2, <2>2 DEF Counted
<1> QED  BY <1>1, <1>2, <1>3 DEF PoolTypeOK, Used

\* idle: the object that goes onto the stack has just left its slot, also when the
\* handle it was given back by belongs to another one by now.
LEMMA IdleStep ==
  ASSUME PoolInv, NEW o \in Objects, Idle(o)
  PROVE  PoolInv'
<1> USE DEF PoolInv
<1> DEFINE s == index[o]
           x == objects[s]
<1>1. s \in Slots
  <2>1. \/ \E t \in Slots : objects[t] = o
        \/ \E i \in DOMAIN idleObjects : idleObjects[i] = o
    BY DEF Idle, Unallocated
  <2>2. ASSUME NEW t \in Slots, objects[t] = o PROVE index[o] = t
    BY <2>2, PoolAssumption DEF HandlesOK, Used
  <2>3. ASSUME NEW i \in DOMAIN idleObjects, idleObjects[i] = o PROVE index[o] \in Slots
    BY <2>3 DEF HandlesOK
  <2> QED  BY <2>1, <2>2, <2>3
<1>2. /\ x # NoObject /\ index[x] = s /\ Free(s)
      /\ idleObjects' = Append(idleObjects, x)
  BY DEF Idle, Get
<1>3. x \in Objects  BY <1>1, <1>2 DEF PoolTypeOK
<1> HIDE DEF s, x
<1>4. x = objects[s]  BY DEF x, s
<1>5. /\ objects' \in [Slots -> Objects \union {NoObject}]
      /\ UNCHANGED <<index, slotIndex, passed>>
      /\ useCount' \in Nat
      /\ Counted'
      /\ \A t \in Slots : t = s \/ objects'[t] = objects[t]
      /\ objects'[s] = NoObject
      /\ \A t \in Used' : t \in Used /\ t # s /\ objects'[t] = objects[t]
  BY <1>1, <1>2, <1>4, FreeStep
<1> DEFINE n == Len(idleObjects)
<1>6. /\ idleObjects' \in Seq(Objects)
      /\ DOMAIN idleObjects' = 1 .. n + 1
      /\ \A i \in 1 .. n : idleObjects'[i] = idleObjects[i]
      /\ idleObjects'[n + 1] = x
      /\ DOMAIN idleObjects = 1 .. n
      /\ n \in Nat
  BY <1>2, <1>3, PushIdle DEF PoolTypeOK
<1> HIDE DEF n
<1>7. \A i \in 1 .. n + 1 : i \in 1 .. n \/ i = n + 1  BY <1>6
<1>8. \A i \in 1 .. n : idleObjects[i] # x
  BY <1>1, <1>4, <1>6 DEF IdleOK
<1>9. PoolTypeOK'
  BY <1>5, <1>6 DEF PoolTypeOK
<1>10. HandlesOK'
  <2>1. \A t \in Used' : index'[objects'[t]] = t  BY <1>5 DEF HandlesOK
  <2>2. \A i \in 1 .. n + 1 : index'[idleObjects'[i]] \in Slots
    BY <1>1, <1>2, <1>5, <1>6, <1>7 DEF HandlesOK
  <2> QED  BY <2>1, <2>2, <1>6 DEF HandlesOK
<1>11. IdleOK'
  <2>1. \A i, j \in 1 .. n + 1 : idleObjects'[i] = idleObjects'[j] => i = j
    BY <1>6, <1>7, <1>8 DEF IdleOK
  <2>2. ASSUME NEW i \in 1 .. n + 1, NEW t \in Slots
        PROVE  objects'[t] # idleObjects'[i]
    <3>1. CASE t = s
      <4>1. idleObjects'[i] \in Objects  BY <1>6, ElementOfSeq, LenProperties
      <4> QED  BY <3>1, <4>1, <1>5, PoolAssumption
    <3>2. CASE t # s /\ i \in 1 .. n
      BY <3>2, <1>5, <1>6 DEF IdleOK
    <3>3. CASE t # s /\ i = n + 1
      <4>1. objects'[t] = objects[t] /\ idleObjects'[i] = x  BY <3>3, <1>5, <1>6
      <4>2. objects[t] # x
        BY <3>3, <1>1, <1>2, <1>3, PoolAssumption DEF HandlesOK, Used
      <4> QED  BY <4>1, <4>2
    <3> QED  BY <3>1, <3>2, <3>3, <1>7
  <2> QED  BY <2>1, <2>2, <1>6 DEF IdleOK
<1>12. PassedOK'
  BY <1>5 DEF PassedOK
<1> QED  BY <1>5, <1>9, <1>10, <1>11, <1>12

\* remove and removeByIndex
LEMMA RemoveStep ==
  ASSUME PoolInv, NEW s \in Slots, Remove(s)
  PROVE  PoolInv'
<1> USE DEF PoolInv
<1>1. objects[s] # NoObject /\ Free(s) /\ idleObjects' = idleObjects
  BY DEF Remove, Get
<1>2. /\ objects' \in [Slots -> Objects \union {NoObject}]
      /\ UNCHANGED <<index, slotIndex, passed>>
      /\ useCount' \in Nat
      /\ Counted'
      /\ \A t \in Slots : t = s \/ objects'[t] = objects[t]
      /\ objects'[s] = NoObject
      /\ \A t \in Used' : t \in Used /\ t # s /\ objects'[t] = objects[t]
  BY <1>1, FreeStep
<1>3. PoolTypeOK'  BY <1>1, <1>2 DEF PoolTypeOK
<1>4. HandlesOK'  BY <1>1, <1>2 DEF HandlesOK
<1>5. IdleOK'
  <2>1. \A i \in DOMAIN idleObjects : idleObjects[i] \in Objects
    BY ElementOfSeq, LenProperties DEF PoolTypeOK
  <2> QED  BY <1>1, <1>2, <2>1, PoolAssumption DEF IdleOK
<1>6. PassedOK'  BY <1>2 DEF PassedOK
<1> QED  BY <1>2, <1>3, <1>4, <1>5, <1>6

\* getNextDestinationIndex
LEMMA ReserveStep ==
  ASSUME PoolInv, NEW s \in Slots, Reserve(s)
  PROVE  PoolInv'
<1> USE DEF PoolInv
<1>1. MoveTo(s) /\ UNCHANGED <<objects, idleObjects, index, useCount>>
  BY DEF Reserve
<1>2. /\ slotIndex' \in 1 .. MaxIndex + 1 /\ passed' \in [Slots -> SUBSET Slots]
      /\ PassedOK'
  BY <1>1, SearchStep
<1>3. PoolTypeOK' /\ HandlesOK' /\ IdleOK' /\ Counted'
  BY <1>1, <1>2 DEF PoolTypeOK, HandlesOK, IdleOK, Counted, Used
<1> QED  BY <1>2, <1>3

-----------------------------------------------------------------------------
(***************************************************************************)
(* The theorems.                                                           *)
(***************************************************************************)

\* The pool stays consistent under every sequence of its operations: counter,
\* slots, idle objects and handles agree.
THEOREM PoolConsistent == PoolSpec => []PoolInv
<1>1. PoolInit => PoolInv
  <2> SUFFICES ASSUME PoolInit PROVE PoolInv  OBVIOUS
  <2> USE DEF PoolInit
  <2>1. MaxIndex \in Nat \ {0} /\ 1 \in 1 .. MaxIndex + 1
    BY PoolAssumption
  <2>2. PoolTypeOK  BY <2>1 DEF PoolTypeOK, Slots
  <2>3. Used = {}  BY DEF Used
  <2>4. HandlesOK /\ IdleOK  BY <2>3 DEF HandlesOK, IdleOK
  <2>5. Counted  BY <2>3, FS_EmptySet DEF Counted
  <2>6. PassedOK  BY <2>1 DEF PassedOK, Slots
  <2> QED  BY <2>2, <2>4, <2>5, <2>6 DEF PoolInv
<1>2. PoolInv /\ [PoolNext]_poolVars => PoolInv'
  <2> SUFFICES ASSUME PoolInv, [PoolNext]_poolVars PROVE PoolInv'  OBVIOUS
  <2>1. CASE UNCHANGED poolVars
    BY <2>1 DEF poolVars, PoolInv, PoolTypeOK, HandlesOK, IdleOK, Counted, PassedOK, Used
  <2>2. ASSUME NEW o \in Objects, NEW s \in Slots, Create(o, s) PROVE PoolInv'
    BY <2>2, CreateStep
  <2>3. ASSUME NEW o \in Objects, NEW s \in Slots, CreateAt(o, s) PROVE PoolInv'
    BY <2>3, CreateAtStep
  <2>4. ASSUME NEW o \in Objects, Idle(o) PROVE PoolInv'  BY <2>4, IdleStep
  <2>5. ASSUME NEW s \in Slots, Remove(s) PROVE PoolInv'  BY <2>5, RemoveStep
  <2>6. ASSUME NEW s \in Slots, Reserve(s) PROVE PoolInv'  BY <2>6, ReserveStep
  <2> QED  BY <2>1, <2>2, <2>3, <2>4, <2>5, <2>6 DEF PoolNext
<1> QED  BY <1>1, <1>2, PTL DEF PoolSpec

\* A create that passes the guard on m_useCount finds a free slot: getNextSlot,
\* which has no other way to end, does not go round for ever, also where as many
\* slots may be used as there are.
THEOREM FreeSlotExists ==
  PoolSpec => [](MayCreate(0) => \E s \in Slots : objects[s] = NoObject)
<1>1. PoolInv => (MayCreate(0) => \E s \in Slots : objects[s] = NoObject)
  <2> SUFFICES ASSUME PoolInv, MayCreate(0), \A s \in Slots : objects[s] # NoObject
               PROVE  FALSE
    OBVIOUS
  <2>1. Used = Slots  BY DEF Used
  <2>2. useCount = MaxIndex  BY <2>1, SlotsFinite DEF PoolInv, Counted
  <2>3. useCount < MaxHashNumber  BY DEF MayCreate
  <2> QED  BY <2>2, <2>3, PoolAssumption
<1> QED  BY <1>1, PoolConsistent, PTL

\* A slot is given again only after all the others.
THEOREM HandlesInTurn == PoolSpec => HandlesComeInTurn
<1> DEFINE InTurn == \A s \in Slots :
        Gives(s) => Slots \ {s} \subseteq passed[s] \union Before(slotIndex, s)
<1>1. PoolInv => InTurn
  <2> SUFFICES ASSUME PoolInv, NEW s \in Slots, Gives(s)
               PROVE  Slots \ {s} \subseteq passed[s] \union Before(slotIndex, s)
    OBVIOUS
  <2>1. MoveTo(s)  BY DEF Gives, Reserve, Create
  <2> QED  BY <2>1, SearchStep
<1>2. PoolInv /\ [PoolNext]_poolVars => [InTurn]_poolVars  BY <1>1
<1> HIDE DEF InTurn
<1>3. []PoolInv /\ [][PoolNext]_poolVars => [][InTurn]_poolVars  BY <1>2, PTL
<1> QED  BY <1>3, PoolConsistent, PTL DEF PoolSpec, HandlesComeInTurn, InTurn
=============================================================================
