------------------------------ MODULE PoolProps ------------------------------
(***************************************************************************)
(* What the users of a DestinationPool can rely on.                        *)
(***************************************************************************)
EXTENDS DestinationPool

PoolTypeOK ==
    /\ objects \in [Slots -> Objects \union {NoObject}]
    /\ idleObjects \in Seq(Objects)
    /\ index \in [Objects -> 0 .. MaxIndex]
    /\ useCount \in Nat
    /\ slotIndex \in 1 .. MaxIndex + 1
    /\ passed \in [Slots -> SUBSET Slots]

\* An object is in the slot that its own handle names, hence in no other; an idle
\* one still has the handle of its last slot.
HandlesOK ==
    /\ \A s \in Used : index[objects[s]] = s
    /\ \A i \in DOMAIN idleObjects : index[idleObjects[i]] \in Slots

\* No object waits to be used again twice, or while it is in use; so two
\* connections never share an object, whoever gives one back once too often.
IdleOK ==
    /\ \A i, j \in DOMAIN idleObjects : idleObjects[i] = idleObjects[j] => i = j
    /\ \A i \in DOMAIN idleObjects, s \in Slots : objects[s] # idleObjects[i]

\* The counter that guards create agrees with the slots, also where an object
\* replaces another.
Counted == useCount = Cardinality(Used)

\* What the search has gone over since it gave slot s: everything from s on, round
\* to where it is now.
PassedOK ==
    \A s \in Slots :
        IF s < slotIndex THEN s + 1 .. slotIndex - 1 \subseteq passed[s]
        ELSE (s + 1 .. MaxIndex) \union (1 .. slotIndex - 1) \subseteq passed[s]

PoolInv == PoolTypeOK /\ HandlesOK /\ IdleOK /\ Counted /\ PassedOK

\* A handle has no version.  What protects the holder of an old one is that the
\* search gives a slot again only when it has given all the others since, or has
\* found them in use.
Gives(s) == Reserve(s) \/ \E o \in Objects : Create(o, s)

HandlesComeInTurn ==
    [][\A s \in Slots :
          Gives(s) => Slots \ {s} \subseteq passed[s] \union Before(slotIndex, s)]_poolVars
=============================================================================
