----------------------------- MODULE ActiveWorker -----------------------------
(***************************************************************************)
(* The mailbox of an epoll thread: ActiveWorker and Active                 *)
(* (libcore/activeworker.cpp, active.cpp, epoll.h), the base of the main   *)
(* thread and of every EpollWorker.                                        *)
(*                                                                         *)
(* A thread that posts appends its task to m_taskQueue under the worker's  *)
(* lock, leaves the lock and then writes to the worker's eventfd.  The     *)
(* eventfd is registered edge-triggered.  The worker that epoll_wait wakes *)
(* reads the eventfd, takes the whole queue by swapping it with the empty  *)
(* m_tempQueue, runs the batch, and arms the eventfd again.                *)
(*                                                                         *)
(* Each worker has a mailbox of its own, so the module models one of them. *)
(* The other sockets and the timer of the same loop appear only as the     *)
(* posts the worker makes to itself between two steps of its mailbox.      *)
(***************************************************************************)
EXTENDS Naturals, Sequences

CONSTANTS Self,       \* the worker's own thread
          Posters,    \* the other threads
          Tasks,
          NoTask

Threads == {Self} \union Posters

ASSUME ActiveWorkerAssumption == NoTask \notin Tasks /\ Self \notin Posters

VARIABLES
    taskQueue,   \* m_taskQueue, which the lock protects
    tempQueue,   \* m_tempQueue, the worker's own
    next,        \* the position in m_tempQueue of the loop in onActive
    counter,     \* the eventfd
    ready,       \* the eventfd is in the ready list of the epoll instance
    writing,     \* the threads between unlock and active() in acceptTask
    pc           \* where the worker is in its loop

vars == <<taskQueue, tempQueue, next, counter, ready, writing, pc>>

Init ==
    /\ taskQueue = <<>>
    /\ tempQueue = <<>>
    /\ next = 1
    /\ counter = 0
    /\ ready = FALSE
    /\ writing = {}
    /\ pc = "wait"

-----------------------------------------------------------------------------
(***************************************************************************)
(* acceptTask                                                              *)
(***************************************************************************)

\* The tasks of m_tempQueue the loop has not finished with
Remaining == {tempQueue[i] : i \in next .. Len(tempQueue)}

Free == Tasks \ (Remaining \union {taskQueue[i] : i \in DOMAIN taskQueue})

\* The worker posts to itself from a task, or from another event of its loop.
MayPost(th) ==
    /\ th \notin writing
    /\ th = Self => pc \in {"wait", "exec"}

\* ActiveWorker::acceptTask, up to the unlock
AcceptTask(th, t) ==
    /\ MayPost(th)
    /\ taskQueue' = Append(taskQueue, t)
    /\ writing' = writing \union {th}
    /\ UNCHANGED <<tempQueue, next, counter, ready, pc>>

\* Active::active: the write makes the eventfd ready.
Activate(th) ==
    /\ th \in writing
    /\ counter' = counter + 1
    /\ ready' = TRUE
    /\ writing' = writing \ {th}
    /\ UNCHANGED <<taskQueue, tempQueue, next, pc>>

-----------------------------------------------------------------------------
(***************************************************************************)
(* The worker's loop.                                                      *)
(***************************************************************************)

\* epoll_wait: the edge is consumed.  An event of a counter that was read in
\* the meantime is not reported.
EpollWait ==
    /\ pc = "wait"
    /\ ready
    /\ ready' = FALSE
    /\ pc' = IF counter > 0 THEN "read" ELSE "wait"
    /\ UNCHANGED <<taskQueue, tempQueue, next, counter, writing>>

\* Active::readEvent
ReadEvent ==
    /\ pc = "read"
    /\ counter' = 0
    /\ pc' = "swap"
    /\ UNCHANGED <<taskQueue, tempQueue, next, ready, writing>>

\* Active::readEvent fails with EINTR; onActive is not called.
ReadInterrupted ==
    /\ pc = "read"
    /\ pc' = "rearm"
    /\ UNCHANGED <<taskQueue, tempQueue, next, counter, ready, writing>>

\* The critical section of onActive.
SwapQueues ==
    /\ pc = "swap"
    /\ IF taskQueue # <<>>
       THEN tempQueue' = taskQueue /\ taskQueue' = tempQueue
       ELSE UNCHANGED <<taskQueue, tempQueue>>
    /\ next' = 1
    /\ pc' = "run"
    /\ UNCHANGED <<counter, ready, writing>>

\* The loop of onActive calls doActiveTask of its next task.
StartTask ==
    /\ pc = "run"
    /\ next <= Len(tempQueue)
    /\ pc' = "exec"
    /\ UNCHANGED <<taskQueue, tempQueue, next, counter, ready, writing>>

\* doActiveTask has returned, and the task is released.
EndTask ==
    /\ pc = "exec"
    /\ next' = next + 1
    /\ pc' = "run"
    /\ UNCHANGED <<taskQueue, tempQueue, counter, ready, writing>>

\* m_tempQueue is not cleared.
WrongClearQueue ==
    /\ pc = "run"
    /\ next > Len(tempQueue)
    /\ pc' = "rearm"
    /\ UNCHANGED <<taskQueue, tempQueue, next, counter, ready, writing>>

\* The loop is over; m_tempQueue is cleared.
ClearQueue ==
    /\ pc = "run"
    /\ next > Len(tempQueue)
    /\ tempQueue' = <<>>
    /\ next' = 1
    /\ pc' = "rearm"
    /\ UNCHANGED <<taskQueue, counter, ready, writing>>

\* The eventfd is not armed again.
WrongRearm ==
    /\ pc = "rearm"
    /\ pc' = "wait"
    /\ UNCHANGED <<taskQueue, tempQueue, next, counter, ready, writing>>

\* Epoll::objectChange in epollActive: EPOLL_CTL_MOD looks at the counter.
Rearm ==
    /\ pc = "rearm"
    /\ ready' = (ready \/ counter > 0)
    /\ pc' = "wait"
    /\ UNCHANGED <<taskQueue, tempQueue, next, counter, writing>>

WorkerStep ==
    /\ Self \notin writing
    /\ \/ EpollWait
       \/ ReadEvent
       \/ SwapQueues
       \/ StartTask
       \/ EndTask
       \/ ClearQueue
       \/ Rearm

Next ==
    \/ \E th \in Threads : Activate(th) \/ \E t \in Free : AcceptTask(th, t)
    \/ WorkerStep
    \/ Self \notin writing /\ ReadInterrupted

Spec == Init /\ [][Next]_vars

\* The threads run.  A step of the worker may be put off by its own posts, of
\* which there are finitely many, and a read by finitely many signals.
FairSpec ==
    /\ Spec
    /\ WF_vars(WorkerStep)
    /\ SF_vars(Self \notin writing /\ ReadEvent)
    /\ SF_vars(Self \notin writing /\ EndTask)
    /\ \A th \in Threads : WF_vars(Activate(th))

-----------------------------------------------------------------------------
(***************************************************************************)
(* Properties                                                              *)
(***************************************************************************)

TypeOK ==
    /\ taskQueue \in Seq(Tasks)
    /\ tempQueue \in Seq(Tasks)
    /\ next \in Nat \ {0}
    /\ counter \in Nat
    /\ ready \in BOOLEAN
    /\ writing \subseteq Threads
    /\ pc \in {"wait", "read", "swap", "run", "exec", "rearm"}

\* What the swap gives to the posters is an empty queue.
BatchOK ==
    /\ pc \notin {"run", "exec"} => tempQueue = <<>> /\ next = 1
    /\ pc = "run" => next <= Len(tempQueue) + 1
    /\ pc = "exec" => next <= Len(tempQueue)

\* A task of the queue has a write to the eventfd to come, or one the worker
\* has not read, or a worker that is about to take the queue.
Signalled == taskQueue # <<>> => counter > 0 \/ writing # {} \/ pc = "swap"

\* A counter the sleeping worker has not read is in the ready list.
Armed == pc = "wait" /\ counter > 0 => ready

IInv == TypeOK /\ BatchOK /\ Signalled /\ Armed

\* The worker does not sleep on a task: if it waits while a task is queued,
\* epoll_wait returns, or a poster is about to make it return.
NoLostWakeup == pc = "wait" /\ taskQueue # <<>> /\ writing = {} => ready /\ counter > 0

\* The tasks its posters see queued, and the task it executes
Pending ==
    SubSeq(tempQueue, IF pc = "exec" THEN next + 1 ELSE next, Len(tempQueue)) \o taskQueue
Running == IF pc = "exec" THEN tempQueue[next] ELSE NoTask

Mailbox ==
    INSTANCE SerialMailbox WITH Handlers <- {Self},
                                pending <- [w \in {Self} |-> Pending],
                                running <- [w \in {Self} |-> Running]

\* The two queues and the eventfd are one FIFO mailbox that executes each task
\* once: the swap neither reorders, duplicates nor forgets a task.
ImplementsMailbox == Mailbox!Spec

\* Every task posted is executed, although the eventfd is edge-triggered, the
\* write comes after the unlock and a read may be interrupted.
EveryTaskExecuted == Mailbox!FairSpec
=============================================================================
