------------------------------ MODULE TimerProps ------------------------------
(***************************************************************************)
(* What the timers of a thread guarantee.                                 *)
(***************************************************************************)
EXTENDS Timer

Pointers ==
    [head : [Periods -> Objects \union {Nil}],
     tail : [Periods -> Objects \union {Nil}],
     pre  : [Objects -> Objects \union {Nil}],
     nxt  : [Objects -> Objects \union {Nil}],
     list : [Objects -> Periods \union {NoList}]]

TimerTypeOK ==
    /\ now \in 0 .. Horizon
    /\ links \in Pointers
    /\ condition \in [Objects -> Nat]
    /\ order \in Seq(Objects)
    /\ waitTimeout \in Nat
    /\ batch \in Seq([object : Objects, list : Periods])

InList(o) == links.list[o] # NoList
Due(o) == InList(o) /\ condition[o] <= now

\* From its head, m_pNext leads through exactly the objects of the list of duration
\* c, which are q, to its tail, and m_pPre leads back.
IsList(L, c, q) ==
    /\ IsInjective(q)
    /\ ToSet(q) = {o \in Objects : L.list[o] = c}
    /\ L.head[c] = At(q, 1) /\ L.tail[c] = At(q, Len(q))
    /\ \A i \in DOMAIN q : L.nxt[q[i]] = At(q, i + 1) /\ L.pre[q[i]] = At(q, i - 1)

\* Whatever order timers are armed, cleared and taken in, also from inside a
\* callback: the lists are lists, and an object in none has no neighbours.
ListsOK ==
    /\ \A c \in Periods : IsList(links, c, Chain(links, c))
    /\ \A o \in Objects : ~ InList(o) => links.pre[o] = Nil /\ links.nxt[o] = Nil

\* The scan of a list may stop at the first object that is not due.
Sorted(q) == \A i, j \in DOMAIN q : i < j => condition[q[i]] <= condition[q[j]]

ListsSorted ==
    /\ \A c \in Periods : Sorted(Chain(links, c))
    /\ \A o \in Objects : InList(o) => condition[o] <= now + links.list[o]

\* The objects that are armed have their place in the order.
OrderOK == IsInjective(order) /\ ToSet(order) = {o \in Objects : InList(o)}

ListsInv == TimerTypeOK /\ ListsOK /\ ListsSorted /\ OrderOK

\* The thread never sleeps past an armed timer: getWaitTimeout may be computed
\* from m_waitTimeout alone, and an update may be skipped before it.
NoOversleep == \A o \in Objects : InList(o) => waitTimeout <= condition[o]

\* An update takes every timer that is due, over all lists, and calls them in
\* the order they were armed in.
TakesDueInOrder ==
    [][batch = <<>> /\ batch' # <<>> =>
         [i \in DOMAIN batch' |-> batch'[i].object] = Only(order, {o \in Objects : Due(o)})]_timerVars

\* A due timer is taken by an update, or armed for later, or cleared.
EveryTimerServed == \A o \in Objects : Due(o) ~> ~ Due(o)
=============================================================================
