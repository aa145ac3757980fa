----------------------------- MODULE HandlerQueue -----------------------------
(***************************************************************************)
(* The scheduler of gamma: Handler (libcore/handler.cpp), HandlerQueue     *)
(* (libcore/handlerqueue.cpp) and Worker (libcore/worker.cpp).             *)
(*                                                                         *)
(* A Handler owns a deque of tasks and a flag, m_isInHandlerQueue, both    *)
(* under the handler's own mutex.  The thread that posts a task to a       *)
(* handler whose flag is clear sets the flag, leaves the handler's         *)
(* critical section and then, in a second critical section, appends the    *)
(* handler to the global HandlerQueue.  A Worker takes the first handler   *)
(* of that queue, runs ONE of its tasks and puts the handler back when     *)
(* tasks are left.  The flag is thus a token that passes from the poster   *)
(* to the queue to a worker and back to the queue; between two critical    *)
(* sections it is in the hands of one thread (variable enqueuing).         *)
(*                                                                         *)
(* Every action is one critical section of the code, or one piece of code  *)
(* that touches only what its thread owns.  Operators named Wrong... are    *)
(* plausible bugs in the definition that follows them: no specification    *)
(* uses them, they are there to show that the properties can fail.         *)
(***************************************************************************)
EXTENDS Naturals, Sequences, FiniteSets

CONSTANTS Handlers,   \* the Handler objects
          Workers,    \* the threads of HandlerQueue::createWorker
          Posters,    \* the other threads that post: epoll workers, main thread
          Tasks,      \* the Task objects; one is free again once executed
          Urgent,     \* the tasks posted with acceptTaskFront
          NoHandler,
          NoTask

Threads == Workers \union Posters

ASSUME HandlerQueueAssumption ==
    /\ Workers # {}
    /\ IsFiniteSet(Workers)
    /\ Workers \intersect Posters = {}
    /\ Urgent \subseteq Tasks
    /\ NoHandler \notin Handlers
    /\ NoTask \notin Tasks

VARIABLES
    taskQueue,    \* Handler::m_taskQueue
    inQueue,      \* Handler::m_isInHandlerQueue
    runQueue,     \* HandlerQueue::m_queue
    enqueuing,    \* the acceptHandler call a thread still has to make
    pc,           \* where each worker is in threadFunction
    held,         \* pHandler, local variable of threadFunction
    current       \* pTask, local variable of doTask

vars == <<taskQueue, inQueue, runQueue, enqueuing, pc, held, current>>

Init ==
    /\ taskQueue = [h \in Handlers |-> <<>>]
    /\ inQueue = [h \in Handlers |-> FALSE]
    /\ runQueue = <<>>
    /\ enqueuing = [th \in Threads |-> NoHandler]
    /\ pc = [w \in Workers |-> "next"]
    /\ held = [w \in Workers |-> NoHandler]
    /\ current = [w \in Workers |-> NoTask]

-----------------------------------------------------------------------------
(***************************************************************************)
(* Posting.  A worker posts from inside the task it executes.              *)
(***************************************************************************)

\* The task objects that are in no queue and not being executed.
Free ==
    Tasks \ ( (UNION {{taskQueue[h][i] : i \in DOMAIN taskQueue[h]} : h \in Handlers})
              \union {current[w] : w \in Workers} )

MayPost(th) ==
    /\ enqueuing[th] = NoHandler
    /\ th \in Workers => pc[th] = "exec"

\* The thread that finds the flag clear sets it and owes an acceptHandler.
ClaimFlag(th, h) ==
    IF inQueue[h]
    THEN UNCHANGED <<inQueue, enqueuing>>
    ELSE /\ inQueue' = [inQueue EXCEPT ![h] = TRUE]
         /\ enqueuing' = [enqueuing EXCEPT ![th] = h]

\* Handler::acceptTask, up to the unlock of the handler
AcceptTask(th, h, t) ==
    /\ MayPost(th)
    /\ taskQueue' = [taskQueue EXCEPT ![h] = Append(@, t)]
    /\ ClaimFlag(th, h)
    /\ UNCHANGED <<runQueue, pc, held, current>>

\* Handler::acceptTaskFront, up to the unlock of the handler
AcceptTaskFront(th, h, t) ==
    /\ MayPost(th)
    /\ taskQueue' = [taskQueue EXCEPT ![h] = <<t>> \o @]
    /\ ClaimFlag(th, h)
    /\ UNCHANGED <<runQueue, pc, held, current>>

-----------------------------------------------------------------------------
(***************************************************************************)
(* The global queue and its condition variable.                            *)
(***************************************************************************)

Waiting == {w \in Workers : pc[w] = "wait"}

\* The signal is forgotten.
WrongSignal == UNCHANGED pc

\* pthread_cond_signal: one sleeping worker, if any, will look at the queue.
Signal ==
    IF Waiting = {}
    THEN UNCHANGED pc
    ELSE \E w \in Waiting : pc' = [pc EXCEPT ![w] = "next"]

\* The run queue is a stack.
WrongAcceptHandlerFront(th) ==
    /\ enqueuing[th] # NoHandler
    /\ runQueue' = <<enqueuing[th]>> \o runQueue
    /\ enqueuing' = [enqueuing EXCEPT ![th] = NoHandler]
    /\ Signal
    /\ UNCHANGED <<taskQueue, inQueue, held, current>>

\* HandlerQueue::acceptHandler
AcceptHandler(th) ==
    /\ enqueuing[th] # NoHandler
    /\ runQueue' = Append(runQueue, enqueuing[th])
    /\ enqueuing' = [enqueuing EXCEPT ![th] = NoHandler]
    /\ Signal
    /\ UNCHANGED <<taskQueue, inQueue, held, current>>

\* HandlerQueue::nextHandler under the queue's lock; NULL sends the worker to
\* pthread_cond_wait, which gives the lock up.
NextHandler(w) ==
    /\ pc[w] = "next"
    /\ IF runQueue = <<>>
       THEN /\ pc' = [pc EXCEPT ![w] = "wait"]
            /\ UNCHANGED <<runQueue, held>>
       ELSE /\ pc' = [pc EXCEPT ![w] = "task"]
            /\ held' = [held EXCEPT ![w] = Head(runQueue)]
            /\ runQueue' = Tail(runQueue)
    /\ UNCHANGED <<taskQueue, inQueue, enqueuing, current>>

\* pthread_cond_wait may return without a signal; the loop looks again.
SpuriousWakeup(w) ==
    /\ pc[w] = "wait"
    /\ pc' = [pc EXCEPT ![w] = "next"]
    /\ UNCHANGED <<taskQueue, inQueue, runQueue, enqueuing, held, current>>

-----------------------------------------------------------------------------
(***************************************************************************)
(* Worker: doHandler, with doTask inside it.                               *)
(***************************************************************************)

\* The task is taken from the wrong end of the deque.
WrongDoTask(w) ==
    /\ pc[w] = "task"
    /\ LET q == taskQueue[held[w]] IN
       /\ q # <<>>
       /\ current' = [current EXCEPT ![w] = q[Len(q)]]
       /\ taskQueue' = [taskQueue EXCEPT ![held[w]] = SubSeq(q, 1, Len(q) - 1)]
    /\ pc' = [pc EXCEPT ![w] = "exec"]
    /\ UNCHANGED <<inQueue, runQueue, enqueuing, held>>

\* Handler::doTask, its critical section: at most one task leaves the queue.
DoTask(w) ==
    /\ pc[w] = "task"
    /\ LET h == held[w] IN
       IF taskQueue[h] = <<>>
       THEN /\ pc' = [pc EXCEPT ![w] = "finish"]
            /\ UNCHANGED <<taskQueue, current>>
       ELSE /\ pc' = [pc EXCEPT ![w] = "exec"]
            /\ current' = [current EXCEPT ![w] = Head(taskQueue[h])]
            /\ taskQueue' = [taskQueue EXCEPT ![h] = Tail(@)]
    /\ UNCHANGED <<inQueue, runQueue, enqueuing, held>>

\* doHandlerTask has returned, and the task is released.
EndTask(w) ==
    /\ pc[w] = "exec"
    /\ enqueuing[w] = NoHandler
    /\ pc' = [pc EXCEPT ![w] = "finish"]
    /\ current' = [current EXCEPT ![w] = NoTask]
    /\ UNCHANGED <<taskQueue, inQueue, runQueue, enqueuing, held>>

\* The flag stays set.
WrongFinishKeepsFlag(w) ==
    /\ pc[w] = "finish"
    /\ LET left == taskQueue[held[w]] # <<>>
       IN enqueuing' = [enqueuing EXCEPT ![w] = IF left THEN held[w] ELSE NoHandler]
    /\ pc' = [pc EXCEPT ![w] = "release"]
    /\ UNCHANGED <<taskQueue, inQueue, runQueue, held, current>>

\* The critical section at the end of Handler::doHandler
FinishHandler(w) ==
    /\ pc[w] = "finish"
    /\ LET h == held[w]
           left == taskQueue[h] # <<>>
       IN /\ inQueue' = [inQueue EXCEPT ![h] = left]
          /\ enqueuing' = [enqueuing EXCEPT ![w] = IF left THEN h ELSE NoHandler]
    /\ pc' = [pc EXCEPT ![w] = "release"]
    /\ UNCHANGED <<taskQueue, runQueue, held, current>>

\* pHandler->release() in threadFunction, and back to the top of the loop
ReleaseHandler(w) ==
    /\ pc[w] = "release"
    /\ enqueuing[w] = NoHandler
    /\ pc' = [pc EXCEPT ![w] = "next"]
    /\ held' = [held EXCEPT ![w] = NoHandler]
    /\ UNCHANGED <<taskQueue, inQueue, runQueue, enqueuing, current>>

WorkerStep(w) ==
    \/ NextHandler(w)
    \/ DoTask(w)
    \/ EndTask(w)
    \/ FinishHandler(w)
    \/ ReleaseHandler(w)

Next ==
    \/ \E th \in Threads, h \in Handlers :
          \/ \E t \in Free \ Urgent : AcceptTask(th, h, t)
          \/ \E t \in Free \intersect Urgent : AcceptTaskFront(th, h, t)
    \/ \E th \in Threads : AcceptHandler(th)
    \/ \E w \in Workers : WorkerStep(w) \/ SpuriousWakeup(w)

Spec == Init /\ [][Next]_vars

\* Threads that are runnable run.  doHandlerTask returns: a task posts finitely
\* often, and each of its posts interrupts EndTask, hence strong fairness.  No
\* thread has to post, no sleeping worker has to wake by itself.
FairSpec ==
    /\ Spec
    /\ \A w \in Workers : WF_vars(WorkerStep(w)) /\ SF_vars(EndTask(w))
    /\ \A th \in Threads : WF_vars(AcceptHandler(th))
=============================================================================
