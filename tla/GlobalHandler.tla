---------------------------- MODULE GlobalHandler ----------------------------
(***************************************************************************)
(* The life of a Handler object around its scheduling: GlobalHandler       *)
(* (libcore/globalhandler.cpp) creates handlers, finds them for the        *)
(* threads that dispatch tasks, and removes them, while HandlerQueue       *)
(* schedules them.  Objects are reference counted (RefObject): the pool,   *)
(* the run queue, a worker and every thread between its lookup and its     *)
(* release hold one reference each, and the last release deletes the       *)
(* object, which drops its tasks (Handler::~Handler).                      *)
(*                                                                         *)
(* The scheduler's actions are those of HandlerQueue, conjoined here with  *)
(* the retain or release each of them makes.  Lookups are modelled up to   *)
(* the object found; the slots and handles of the pool are not.            *)
(***************************************************************************)
EXTENDS HandlerQueueProps, Integers

CONSTANT Main    \* the thread that loads and unloads modules

ASSUME GlobalHandlerAssumption == Main \in Posters

VARIABLES
    registered,  \* the objects in DestinationPool::m_objects
    unborn,      \* the objects not created yet
    refs,        \* RefObject::m_referenceCount
    dispatch,    \* pHandler of dispatchTask or activeTimer, and how far it is
    loader       \* what Main is doing to which handler

lifeVars == <<registered, unborn, refs, dispatch, loader>>
allVars == <<vars, lifeVars>>

NoDispatch == [step |-> "none", handler |-> NoHandler, task |-> NoTask]
NotLoading == [step |-> "idle", handler |-> NoHandler]

LifeInit ==
    /\ Init
    /\ registered = {}
    /\ unborn = Handlers
    /\ refs = [h \in Handlers |-> 0]
    /\ dispatch = [th \in Threads |-> NoDispatch]
    /\ loader = NotLoading

Retain(h) == refs' = [refs EXCEPT ![h] = @ + 1]

\* RefObject::release; the count that reaches zero runs ~Handler, releaseTask.
Release(h) ==
    /\ refs' = [refs EXCEPT ![h] = @ - 1]
    /\ IF refs[h] = 1
       THEN /\ taskQueue' = [taskQueue EXCEPT ![h] = <<>>]
            /\ inQueue' = [inQueue EXCEPT ![h] = FALSE]
       ELSE UNCHANGED <<taskQueue, inQueue>>

-----------------------------------------------------------------------------
(***************************************************************************)
(* dispatchTask, dispatchToHandler, activeTimer: find and retain the       *)
(* handler under the registry's lock, post, release.                       *)
(***************************************************************************)

\* The lookup that finds nothing returns without an effect; what it finds gets the
\* task by acceptTask, at the back of its queue.
GetDestination(th, h, t) ==
    /\ MayPost(th)
    /\ dispatch[th] = NoDispatch
    /\ h \in registered
    /\ t \in (Free \ Urgent) \ {dispatch[s].task : s \in Threads}
    /\ dispatch' = [dispatch EXCEPT ![th] = [step |-> "found", handler |-> h, task |-> t]]
    /\ Retain(h)
    /\ UNCHANGED <<vars, registered, unborn, loader>>

DispatchTask(th) ==
    /\ dispatch[th].step = "found"
    /\ AcceptTask(th, dispatch[th].handler, dispatch[th].task)
    /\ dispatch' = [dispatch EXCEPT ![th].step = "posted", ![th].task = NoTask]
    /\ UNCHANGED <<registered, unborn, refs, loader>>

\* The reference goes before acceptHandler has taken its own.
WrongEndDispatch(th) ==
    /\ dispatch[th].step = "posted"
    /\ dispatch' = [dispatch EXCEPT ![th] = NoDispatch]
    /\ Release(dispatch[th].handler)
    /\ UNCHANGED <<runQueue, enqueuing, pc, held, current, registered, unborn, loader>>

EndDispatch(th) ==
    /\ dispatch[th].step = "posted"
    /\ enqueuing[th] = NoHandler
    /\ dispatch' = [dispatch EXCEPT ![th] = NoDispatch]
    /\ Release(dispatch[th].handler)
    /\ UNCHANGED <<runQueue, enqueuing, pc, held, current, registered, unborn, loader>>

-----------------------------------------------------------------------------
(***************************************************************************)
(* The scheduler, with its references.                                     *)
(***************************************************************************)

\* The run queue does not retain.
WrongEnqueueRetained(th) ==
    /\ AcceptHandler(th)
    /\ UNCHANGED lifeVars

\* The run queue's reference, which the worker takes over with the handler.
EnqueueRetained(th) ==
    /\ AcceptHandler(th)
    /\ Retain(enqueuing[th])
    /\ UNCHANGED <<registered, unborn, dispatch, loader>>

\* The worker gives up the reference; the queue of a deleted handler is emptied.
ReleaseRetained(w) ==
    /\ pc[w] = "release"
    /\ enqueuing[w] = NoHandler
    /\ pc' = [pc EXCEPT ![w] = "next"]
    /\ held' = [held EXCEPT ![w] = NoHandler]
    /\ Release(held[w])
    /\ UNCHANGED <<runQueue, enqueuing, current, registered, unborn, dispatch, loader>>

\* A task ends when the dispatches it makes have ended.
RunWorker(w) ==
    /\ dispatch[w] = NoDispatch
    /\ NextHandler(w) \/ DoTask(w) \/ EndTask(w) \/ FinishHandler(w)
    /\ UNCHANGED lifeVars

-----------------------------------------------------------------------------
(***************************************************************************)
(* Creation and removal.  onInitialize and onDestroy run in Main, outside  *)
(* the registry's lock and outside the handler's turn in a worker.         *)
(***************************************************************************)

MainFree == dispatch[Main] = NoDispatch /\ enqueuing[Main] = NoHandler

\* createDestination: the create function retains the object for the pool, and
\* the object can be found before onInitialize is called.
CreateDestination(h) ==
    /\ loader = NotLoading
    /\ MainFree
    /\ h \in unborn
    /\ unborn' = unborn \ {h}
    /\ registered' = registered \union {h}
    /\ refs' = [refs EXCEPT ![h] = 2]
    /\ loader' = [step |-> "onInitialize", handler |-> h]
    /\ UNCHANGED <<vars, dispatch>>

\* The object is found and not retained.
WrongCheckOnDestroy(h) ==
    /\ loader = NotLoading
    /\ MainFree
    /\ h \in registered
    /\ loader' = [step |-> "onDestroy", handler |-> h]
    /\ UNCHANGED <<vars, registered, unborn, refs, dispatch>>

\* checkOnDestroy: found and retained
CheckOnDestroy(h) ==
    /\ loader = NotLoading
    /\ MainFree
    /\ h \in registered
    /\ Retain(h)
    /\ loader' = [step |-> "onDestroy", handler |-> h]
    /\ UNCHANGED <<vars, registered, unborn, dispatch>>

\* onInitialize or onDestroy has returned.
EndCallback ==
    /\ loader.step \in {"onInitialize", "onDestroy"}
    /\ MainFree
    /\ loader' = IF loader.step = "onDestroy"
                 THEN [loader EXCEPT !.step = "remove"]
                 ELSE NotLoading
    /\ Release(loader.handler)
    /\ UNCHANGED <<runQueue, enqueuing, pc, held, current, registered, unborn, dispatch>>

\* removeDestination, removeDestinationByIndex: the pool's reference goes.
RemoveDestination ==
    /\ loader.step = "remove"
    /\ registered' = registered \ {loader.handler}
    /\ loader' = NotLoading
    /\ Release(loader.handler)
    /\ UNCHANGED <<runQueue, enqueuing, pc, held, current, unborn, dispatch>>

LifeNext ==
    \/ \E th \in Threads :
          \/ \E h \in Handlers, t \in Tasks : GetDestination(th, h, t)
          \/ DispatchTask(th)
          \/ EndDispatch(th)
          \/ EnqueueRetained(th)
    \/ \E w \in Workers :
          \/ RunWorker(w)
          \/ ReleaseRetained(w)
          \/ SpuriousWakeup(w) /\ UNCHANGED lifeVars
    \/ \E h \in Handlers : CreateDestination(h) \/ CheckOnDestroy(h)
    \/ EndCallback
    \/ RemoveDestination

LifeSpec == LifeInit /\ [][LifeNext]_allVars

-----------------------------------------------------------------------------
(***************************************************************************)
(* Properties                                                              *)
(***************************************************************************)

LifeTypeOK ==
    /\ TypeOK
    /\ registered \subseteq Handlers
    /\ unborn \subseteq Handlers
    /\ refs \in [Handlers -> Nat]
    /\ dispatch \in [Threads -> [step : {"none", "found", "posted"},
                                 handler : Handlers \union {NoHandler},
                                 task : Tasks \union {NoTask}]]
    /\ loader \in [step : {"idle", "onInitialize", "onDestroy", "remove"},
                   handler : Handlers \union {NoHandler}]

\* The threads and queues that may still touch h
InUse(h) ==
    \/ h \in registered
    \/ Queued(h)
    \/ \E w \in Workers : held[w] = h
    \/ \E th \in Threads : enqueuing[th] = h \/ dispatch[th].handler = h
    \/ loader.handler = h /\ loader.step \in {"onInitialize", "onDestroy"}

\* A handler somebody can still reach is not deleted, although it is enqueued
\* outside every lock and may be removed from the registry at any time.
NoUseAfterFree == \A h \in Handlers : InUse(h) => refs[h] > 0

\* A handler nobody can reach any more has been deleted: no reference leaks.
NoLeak == \A h \in Handlers : ~ InUse(h) => refs[h] = 0

\* The references counted are exact: the handler is deleted when the last thread,
\* queue or registry gives it up, not before and not never.
RefsExact == LifeTypeOK /\ NoUseAfterFree /\ NoLeak

\* A task that was accepted is executed even if its handler is removed in
\* between: when the last reference goes, the handler has no task left.
NoTaskDropped ==
    [][\A h \in Handlers : refs[h] > 0 /\ refs'[h] = 0 => taskQueue[h] = <<>>]_allVars

\* Creating and removing handlers leaves the scheduler's specification intact:
\* what is proved of HandlerQueue holds of handlers that come and go.
ImplementsScheduler == Spec

\* "the task queue ensures that a task has the object's resources to itself"
\* (handler.h): a task of a handler never runs while Main is inside the
\* handler's onInitialize or onDestroy.
TaskOwnsHandler ==
    \A w \in Workers :
        pc[w] = "exec" => ~ /\ loader.step \in {"onInitialize", "onDestroy"}
                            /\ loader.handler = held[w]

-----------------------------------------------------------------------------
(***************************************************************************)
(* The inductive invariant: who holds the references that are counted.     *)
(***************************************************************************)

InCallback(h) == loader.handler = h /\ loader.step \in {"onInitialize", "onDestroy"}

Holder == ({"pool", "queue", "loader"} \X {NoHandler})
          \union ({"worker"} \X Workers) \union ({"thread"} \X Threads)

\* x holds a reference on h.
Holds(x, h) ==
    \/ x = <<"pool", NoHandler>> /\ h \in registered
    \/ x = <<"queue", NoHandler>> /\ Queued(h)
    \/ x = <<"loader", NoHandler>> /\ InCallback(h)
    \/ \E w \in Workers : x = <<"worker", w>> /\ held[w] = h
    \/ \E th \in Threads : x = <<"thread", th>> /\ dispatch[th].handler = h

Holders(h) == {x \in Holder : Holds(x, h)}

\* The count is the number of holders.
Counted(h) == IsFiniteSet(Holders(h)) /\ refs[h] = Cardinality(Holders(h))

\* How far a dispatch is, and that nobody else posts the task it was made for
DispatchesOK ==
    /\ \A th \in Threads :
          IF dispatch[th].step = "none"
          THEN dispatch[th] = NoDispatch
          ELSE dispatch[th].handler \in Handlers /\ (th \in Workers => pc[th] = "exec")
    /\ \A th \in Threads : dispatch[th].step = "found" =>
          dispatch[th].task \in Free \ Urgent /\ enqueuing[th] = NoHandler
    /\ \A s, th \in Threads :
          /\ dispatch[s].step = "found" /\ dispatch[th].step = "found"
          /\ dispatch[s].task = dispatch[th].task
          => s = th

\* A thread that owes the run queue a handler holds a reference on it: the one of
\* its dispatch, or the one a worker got with the handler.
EnqueuesHeld ==
    \A th \in Threads : enqueuing[th] # NoHandler =>
        \/ dispatch[th].step = "posted" /\ dispatch[th].handler = enqueuing[th]
        \/ th \in Workers /\ pc[th] = "release" /\ held[th] = enqueuing[th]

\* An idle worker holds nothing.
IdleHoldsNothing == \A w \in Workers : pc[w] \in {"next", "wait"} => held[w] = NoHandler

\* Main knows a handler of the registry, and only Main removes one.
LoaderOK ==
    IF loader.step = "idle"
    THEN loader = NotLoading
    ELSE loader.handler \in registered

\* Nobody knows a handler before it is created.
UnbornUnknown == \A h \in unborn : ~ InUse(h)

LifeIInv ==
    /\ LifeTypeOK
    /\ IInv
    /\ \A h \in Handlers : Counted(h)
    /\ DispatchesOK
    /\ EnqueuesHeld
    /\ IdleHoldsNothing
    /\ LoaderOK
    /\ UnbornUnknown
=============================================================================
