-------------------------------- MODULE Timer --------------------------------
(***************************************************************************)
(* The timers of one epoll thread: Timer, TimerList and TimerObject        *)
(* (libcore/timer.cpp, timer.h).                                           *)
(*                                                                         *)
(* A Timer keeps one doubly linked TimerList per duration.  An object that *)
(* is armed goes to the end of the list of its duration, so that a list is *)
(* sorted by the time its objects are due.  m_waitTimeout bounds the time  *)
(* the thread sleeps in epoll_wait.  An update first takes the due prefix  *)
(* of every list into a batch, sorts the batch by the order of arming, and *)
(* then calls the objects one by one.  A callback may arm and clear timers *)
(* of its own and, as MultiCurl::timerCallback does with its EasyCurls, of *)
(* other objects; an object that is not armed when its callback returns a  *)
(* duration is armed again.                                                *)
(*                                                                         *)
(* Time is counted in ticks up to Horizon and does not go backwards.  The  *)
(* TimerList objects and their pool are not modelled: there is a list for  *)
(* every duration, empty unless objects are in it.                         *)
(***************************************************************************)
EXTENDS Integers, FiniteSets, Selection

CONSTANTS Objects,    \* the TimerObjects
          Periods,    \* the durations in use
          Horizon,    \* the last instant the model looks at
          MaxInt64,   \* MAX_INT64: no timer is armed
          Nil,        \* NULL, for a TimerObject
          NoList      \* NULL, for a TimerList

ASSUME TimerAssumption ==
    /\ IsFiniteSet(Objects)
    /\ Periods \subseteq Nat
    /\ Horizon \in Nat
    /\ MaxInt64 \in Nat
    /\ \A c \in Periods : Horizon + c < MaxInt64
    /\ Nil \notin Objects
    /\ NoList \notin Periods

VARIABLES
    now,          \* get_time_ms()
    links,        \* m_pHead, m_pTail, m_pPre, m_pNext and m_pTimerList
    condition,    \* TimerObject::m_condition
    order,        \* the armed objects by TimerObject::m_index
    waitTimeout,  \* Timer::m_waitTimeout
    batch         \* objects, local variable of Timer::update, from the one whose
                  \* callback is running

timerVars == <<now, links, condition, order, waitTimeout, batch>>

TimerInit ==
    /\ now = 0
    /\ links = [head |-> [c \in Periods |-> Nil],
                tail |-> [c \in Periods |-> Nil],
                pre  |-> [o \in Objects |-> Nil],
                nxt  |-> [o \in Objects |-> Nil],
                list |-> [o \in Objects |-> NoList]]
    /\ condition = [o \in Objects |-> 0]
    /\ order = <<>>
    /\ waitTimeout = MaxInt64
    /\ batch = <<>>

-----------------------------------------------------------------------------
(***************************************************************************)
(* The linked lists, as operators on the pointers L.                       *)
(***************************************************************************)

\* Object i of a list, NULL beyond its ends
At(q, i) == IF i \in DOMAIN q THEN q[i] ELSE Nil

\* The objects of the list of duration c, met by following m_pNext from its head
Chain(L, c) ==
    LET nth[i \in 1 .. Cardinality(Objects)] ==
            IF i = 1 THEN L.head[c]
            ELSE IF nth[i - 1] = Nil THEN Nil ELSE L.nxt[nth[i - 1]]
    IN SubSeq(nth, 1, Cardinality({i \in DOMAIN nth : nth[i] # Nil}))

\* The pointers of an object that has left its list
Cleared(L, S) ==
    [L EXCEPT !.list = [o \in Objects |-> IF o \in S THEN NoList ELSE @[o]],
              !.pre = [o \in Objects |-> IF o \in S THEN Nil ELSE @[o]],
              !.nxt = [o \in Objects |-> IF o \in S THEN Nil ELSE @[o]]]

\* m_pTail is not moved when the last object leaves.
WrongListRemove(L, o) ==
    LET c == L.list[o]  p == L.pre[o]  n == L.nxt[o] IN
    IF c = NoList THEN L
    ELSE Cleared(IF o = L.head[c]
                 THEN [L EXCEPT !.head[c] = n]
                 ELSE [L EXCEPT !.nxt[p] = n], {o})

\* TimerList::remove
ListRemove(L, o) ==
    LET c == L.list[o]
        p == L.pre[o]
        n == L.nxt[o]
        unlinked ==
            IF o = L.head[c] /\ o = L.tail[c]
            THEN [L EXCEPT !.head[c] = Nil, !.tail[c] = Nil]
            ELSE IF o = L.head[c] THEN [L EXCEPT !.head[c] = n, !.pre[n] = Nil]
            ELSE IF o = L.tail[c] THEN [L EXCEPT !.tail[c] = p, !.nxt[p] = Nil]
            ELSE [L EXCEPT !.nxt[p] = n, !.pre[n] = p]
    IN IF c = NoList THEN L ELSE Cleared(unlinked, {o})

\* The linking in TimerList::add of an object that is in no list
LinkLast(L, o, c) ==
    LET last == L.tail[c] IN
    IF L.head[c] = Nil
    THEN [L EXCEPT !.list[o] = c, !.head[c] = o, !.tail[c] = o]
    ELSE [L EXCEPT !.list[o] = c, !.tail[c] = o, !.pre[o] = last, !.nxt[last] = o]

\* Timer::timerAdd and TimerList::add: out of the old list, to the end of the new
Relink(L, o, c) == LinkLast(ListRemove(L, o), o, c)

\* The scan of the list of c stops at the first object that is not due.
DueCount(c) ==
    LET q == Chain(links, c)
    IN Cardinality({i \in DOMAIN q : \A j \in 1 .. i : now >= condition[q[j]]})

\* The objects at the head of the list of c that TimerList::update takes
DuePrefix(c) == SubSeq(Chain(links, c), 1, DueCount(c))

DueObjects ==
    UNION {ToSet(DuePrefix(c)) : c \in Periods}

\* TimerList::update of every list: the due prefixes are cut off.
CutDue ==
    LET due == DueObjects
        first == [c \in Periods |-> At(Chain(links, c), DueCount(c) + 1)]
        heads == {first[c] : c \in Periods}
    IN [Cleared(links, due) EXCEPT
          !.head = first,
          !.tail = [c \in Periods |-> IF first[c] = Nil THEN Nil ELSE @[c]],
          !.pre = [o \in Objects |-> IF o \in heads THEN Nil ELSE @[o]]]

-----------------------------------------------------------------------------
(***************************************************************************)
(* Arming and clearing                                                     *)
(***************************************************************************)

LesserOf(a, b) == IF a < b THEN a ELSE b

\* Timer::timerAdd, with the new index, the new condition and recordWaitTimeout
Arm(o, c) ==
    /\ links' = Relink(links, o, c)
    /\ condition' = [condition EXCEPT ![o] = now + c]
    /\ order' = Append(Without(order, {o}), o)
    /\ waitTimeout' = LesserOf(waitTimeout, now + c)

\* TimerObject::setTimer, by an event of the thread or by the running callback
SetTimer(o, c) ==
    /\ Arm(o, c)
    /\ UNCHANGED <<now, batch>>

\* TimerObject::clearTimer
ClearTimer(o) ==
    /\ links.list[o] # NoList
    /\ links' = ListRemove(links, o)
    /\ order' = Without(order, {o})
    /\ UNCHANGED <<now, condition, waitTimeout, batch>>

-----------------------------------------------------------------------------
(***************************************************************************)
(* Timer::update                                                           *)
(***************************************************************************)

\* The list heads are not recorded.
WrongHeadsTimeout == MaxInt64

\* MAX_INT64, then recordWaitTimeout of every head that stays
HeadsTimeout ==
    LET head == CutDue.head
        heads == {head[c] : c \in Periods} \ {Nil} IN
    IF heads = {} THEN MaxInt64
    ELSE CHOOSE t \in {condition[o] : o \in heads} : \A o \in heads : t <= condition[o]

\* The batch is not sorted: it keeps the order of the map of lists.
WrongTaken ==
    LET before(c) == {d \in Periods : d < c}
        all[n \in 0 .. Cardinality(Periods)] ==
            IF n = 0 THEN <<>>
            ELSE LET c == CHOOSE d \in Periods : Cardinality(before(d)) = n - 1 IN
                 all[n - 1] \o [i \in DOMAIN DuePrefix(c) |->
                                  [object |-> DuePrefix(c)[i], list |-> c]]
    IN all[Cardinality(Periods)]

\* The due objects with the lists they leave, by m_index
Taken ==
    LET taken == DueObjects
        due == Only(order, taken)
    IN [i \in DOMAIN due |-> [object |-> due[i], list |-> links.list[due[i]]]]

\* epoll_wait has returned on its timeout.  An update before m_waitTimeout,
\* after an event, returns at once.
Update ==
    /\ batch = <<>>
    /\ waitTimeout <= now
    /\ batch' = Taken
    /\ links' = CutDue
    /\ waitTimeout' = HeadsTimeout
    /\ order' = LET taken == DueObjects IN Without(order, taken)
    /\ UNCHANGED <<now, condition>>

\* The object is linked again, and recordWaitTimeout is forgotten.
WrongReturnPeriod(r) ==
    LET o == Head(batch).object IN
    /\ batch # <<>>
    /\ batch' = Tail(batch)
    /\ IF links.list[o] = NoList
       THEN /\ links' = Relink(links, o, r)
            /\ condition' = [condition EXCEPT ![o] = now + r]
            /\ order' = Append(Without(order, {o}), o)
       ELSE UNCHANGED <<links, condition, order>>
    /\ UNCHANGED <<now, waitTimeout>>

\* timerCallback of the current object has returned a duration: the object is
\* armed again, in the list it left or in another, unless it is already.
ReturnPeriod(r) ==
    LET o == Head(batch).object IN
    /\ batch # <<>>
    /\ batch' = Tail(batch)
    /\ IF links.list[o] = NoList
       THEN Arm(o, r)
       ELSE UNCHANGED <<links, condition, order, waitTimeout>>
    /\ UNCHANGED now

\* timerCallback of the current object has returned -1.
ReturnNone ==
    /\ batch # <<>>
    /\ batch' = Tail(batch)
    /\ UNCHANGED <<now, links, condition, order, waitTimeout>>

CallbackReturns == ReturnNone \/ \E r \in Periods : ReturnPeriod(r)

Tick ==
    /\ now < Horizon
    /\ now' = now + 1
    /\ UNCHANGED <<links, condition, order, waitTimeout, batch>>

TimerNext ==
    \/ \E o \in Objects : ClearTimer(o) \/ \E c \in Periods : SetTimer(o, c)
    \/ Update
    \/ CallbackReturns
    \/ Tick

TimerSpec == TimerInit /\ [][TimerNext]_timerVars

\* The thread wakes up when its timeout has passed, and callbacks return.
FairTimerSpec == TimerSpec /\ WF_timerVars(Update) /\ WF_timerVars(CallbackReturns)
=============================================================================
