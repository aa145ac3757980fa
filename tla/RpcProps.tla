------------------------------- MODULE RpcProps -------------------------------
(***************************************************************************)
(* What the coroutines of rpc.lua can rely on, although their timers fire  *)
(* in another thread and answers come when they like.                      *)
(***************************************************************************)
EXTENDS Rpc

Handle == {Nil, NoTimer} \union (1 .. MaxTimers) \X (0 .. Versions - 1)
Task == [op : {"start"}, handle : Handle, id : IDs]
          \union [op : {"change", "remove"}, handle : Handle]

TimersTypeOK ==
    /\ timers \in Seq([version : 0 .. Versions - 1, id : 0 .. MaxID, armed : BOOLEAN])
    /\ Len(timers) <= MaxTimers
    /\ idle \in Seq(1 .. MaxTimers)
    /\ \A i \in DOMAIN idle : idle[i] \in DOMAIN timers
    /\ tasks \in Seq(Task)

TypeOK ==
    /\ TimersTypeOK
    /\ co \in [Coroutines -> [status : {"new", "waiting", "asleep", "dead"},
                              loop : BOOLEAN, id : 0 .. MaxID, timer : Handle,
                              stray : BOOLEAN]]
    /\ cbMap \in [IDs -> Coroutines \union {Nobody}]
    /\ nextID \in 1 .. MaxID + 1
    /\ made \in 0 .. MaxCalls
    /\ calls \in [IDs -> Nat]
    /\ inbox \in Seq([type : {"timeout", "answer"}, id : 0 .. MaxID])
    /\ handler \in {"running", "destroyed", "gone"}

Suspended == {c \in Coroutines : co[c].status \in {"waiting", "asleep"}}

\* The map has the suspended coroutines and nothing else, each under the ID it
\* has now.  A loop changes its ID at each turn, with tasks for the old one still
\* under way.
EntriesOK ==
    \A i \in IDs, c \in Coroutines :
        cbMap[i] = c <=> c \in Suspended /\ co[c].id = i

\* The timeout of coroutine c is on its way: a timer with its ID is armed or
\* will be, or it has fired and the handler has not seen it yet.
HasTimeout(c) ==
    \/ Contains(inbox, [type |-> "timeout", id |-> co[c].id])
    \/ /\ Current(co[c].timer)
       /\ \/ LET t == timers[co[c].timer[1]] IN t.armed /\ t.id = co[c].id
          \/ Contains(tasks, StartTask(co[c].timer, co[c].id))

\* "the yielded value is the timeout: set the timer that removes the wait"
\* (resumeCoroutine): whatever happens to the answers, a waiting coroutine is
\* resumed by a timeout at last; also when its timer fires in the main thread
\* while the handler still takes it for running and asks for a change.  The
\* loops of the run rpc_loop are the exception.
TimeoutComes == \A c \in Suspended : HasTimeout(c) \/ co[c].stray

\* The same without the exception, which is what the comment says.
TimeoutAlwaysComes == \A c \in Suspended : HasTimeout(c)

\* No timer is lost: each one in use belongs to exactly one waiting coroutine or
\* is about to be removed, so that a dead coroutine is never called back by an
\* object nobody can reach, and destroyRpc finds every timer of the handler.
TimersOwned ==
    /\ \A s \in Live : \/ Contains(tasks, RemoveTask(HandleOf(s)))
                       \/ \E c \in Suspended : co[c].timer = HandleOf(s)
    /\ \A c, d \in Suspended :
          c # d /\ co[c].timer = co[d].timer => ~ Current(co[c].timer)

\* A task of the main worker or a coroutine holds this handle.
Kept(handle) ==
    \/ \E p \in DOMAIN tasks : tasks[p].handle = handle
    \/ \E c \in Coroutines : co[c].timer = handle

\* A handle is known by its version to be old: while its slot is in the pool no task
\* and no coroutine holds the handle that the slot gives next.  getTimerHandle relies
\* on it, and 256 versions are enough as long as nobody keeps an old handle that long.
NoHandleReused == \A s \in DOMAIN timers \ Live : ~ Kept(HandleOf(s))

Inv == TypeOK /\ EntriesOK /\ TimersOwned /\ NoHandleReused

\* A late answer, to a call that has timed out, finds its callback ID gone: it
\* never ends the sleep of a scheduled loop before its time.
SleepUndisturbed ==
    \A c \in Coroutines :
        co[c].status = "asleep" =>
            /\ calls[co[c].id] = 0
            /\ ~ Contains(inbox, [type |-> "answer", id |-> co[c].id])

\* Every wait ends, by its answer or by its timeout: as the waits are bounded,
\* at last nobody waits.
EveryWaitEnds == <>[](\A c \in Suspended : co[c].stray)

\* When the handler is gone all its timers go back to the pool, and none is
\* armed again and again for a handler that is not found any more.
TimersReleased == handler = "gone" ~> Live = {}
=============================================================================
