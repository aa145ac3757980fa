-------------------------- MODULE HandlerQueueProps --------------------------
(***************************************************************************)
(* What the scheduler of HandlerQueue guarantees.                          *)
(***************************************************************************)
EXTENDS HandlerQueue

TypeOK ==
    /\ taskQueue \in [Handlers -> Seq(Tasks)]
    /\ inQueue \in [Handlers -> BOOLEAN]
    /\ runQueue \in Seq(Handlers)
    /\ enqueuing \in [Threads -> Handlers \union {NoHandler}]
    /\ pc \in [Workers -> {"next", "wait", "task", "exec", "finish", "release"}]
    /\ held \in [Workers -> Handlers \union {NoHandler}]
    /\ current \in [Workers -> Tasks \union {NoTask}]

\* Worker w has handler h to itself, from nextHandler to the end of doHandler.
Owns(w, h) == held[w] = h /\ pc[w] \in {"task", "exec", "finish"}

NoDup(q) == \A i, j \in DOMAIN q : q[i] = q[j] => i = j
Elem(q, x) == \E i \in DOMAIN q : q[i] = x

Queued(h) == Elem(runQueue, h)

\* "the handler is owned by one worker alone, so the task runs outside the
\* critical section" (handler.cpp, doHandler and doTask)
MutualExclusion ==
    \A h \in Handlers : \A v, w \in Workers : Owns(v, h) /\ Owns(w, h) => v = w

\* No handler is twice in the run queue, or in it while a worker owns it or a
\* thread is about to enqueue it: the flag admits one enqueue at a time, even
\* though it is set in one critical section and the queue changed in another.
SingleToken ==
    /\ NoDup(runQueue)
    /\ \A s, th \in Threads :
          enqueuing[s] = enqueuing[th] /\ enqueuing[s] # NoHandler => s = th
    /\ \A th \in Threads : ~ Queued(enqueuing[th])
    /\ \A h \in Handlers : \A w \in Workers :
          Owns(w, h) => ~ Queued(h) /\ \A th \in Threads : enqueuing[th] # h

\* The flag tells the truth: it is set exactly while the handler is queued, is
\* about to be, or is owned.
FlagIsToken ==
    \A h \in Handlers :
        inQueue[h] <=> \/ Queued(h)
                       \/ \E th \in Threads : enqueuing[th] = h
                       \/ \E w \in Workers : Owns(w, h)

\* A handler with tasks is never left out of the scheduler: the poster that
\* sees the flag set may rely on somebody else to look at the queue again.
NoStrandedTask ==
    \A h \in Handlers : taskQueue[h] # <<>> => inQueue[h]

\* A worker that is given a handler finds a task in it.
NoEmptyTurn ==
    /\ \A h \in Handlers : Queued(h) => taskQueue[h] # <<>>
    /\ \A w \in Workers : pc[w] = "task" => taskQueue[held[w]] # <<>>

\* While a worker sleeps, every handler of the run queue has an awake worker on
\* its way to it: no wakeup is lost, whoever steals the handler of a signal.
Awake == {w \in Workers : pc[w] = "next"}

NoLostWakeup == Waiting # {} => Len(runQueue) <= Cardinality(Awake)

-----------------------------------------------------------------------------
(***************************************************************************)
(* The inductive invariant.                                                *)
(***************************************************************************)

\* What the local variables of a thread are worth at each of its steps
LocalsOK ==
    \A w \in Workers :
        /\ pc[w] \in {"task", "exec", "finish", "release"} => held[w] \in Handlers
        /\ pc[w] \in {"next", "wait", "task", "finish"} => enqueuing[w] = NoHandler
        /\ pc[w] = "exec" => current[w] \in Tasks

\* A thread only enqueues a handler that has tasks.
EnqueuesWork ==
    \A h \in Handlers :
        (\E th \in Threads : enqueuing[th] = h) => taskQueue[h] # <<>>

IInv ==
    /\ TypeOK
    /\ LocalsOK
    /\ MutualExclusion
    /\ SingleToken
    /\ FlagIsToken
    /\ NoStrandedTask
    /\ NoEmptyTurn
    /\ EnqueuesWork

-----------------------------------------------------------------------------
\* The detailed scheduler implements the promise of SerialMailbox.
Running(h) ==
    IF \E w \in Workers : Owns(w, h) /\ pc[w] = "exec"
    THEN current[CHOOSE w \in Workers : Owns(w, h) /\ pc[w] = "exec"]
    ELSE NoTask

Mailbox == INSTANCE SerialMailbox
             WITH pending <- taskQueue, running <- [h \in Handlers |-> Running(h)]

\* Handlers execute serially and in queue order, whatever the threads do.
ImplementsMailbox == Mailbox!Spec

\* And every accepted task is executed, even next to a handler that never
\* empties its queue: one task per turn and a FIFO of handlers.
EveryMailboxServed == Mailbox!FairSpec
=============================================================================
