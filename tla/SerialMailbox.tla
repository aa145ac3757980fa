---------------------------- MODULE SerialMailbox ----------------------------
(***************************************************************************)
(* What a Handler promises to the code that posts tasks to it: each        *)
(* handler executes its tasks one at a time, in the order of its queue,    *)
(* and every accepted task is executed.  Nothing is said here of worker    *)
(* threads, of the run queue or of the flag m_isInHandlerQueue.            *)
(***************************************************************************)
EXTENDS Sequences

CONSTANTS Handlers,   \* the objects that own a mailbox
          Tasks,      \* the tasks that may be posted
          NoTask      \* no task is being executed

VARIABLES pending,    \* the accepted tasks of each handler, in order
          running     \* the task each handler is executing

vars == <<pending, running>>

Init ==
    /\ pending = [h \in Handlers |-> <<>>]
    /\ running = [h \in Handlers |-> NoTask]

\* A task joins the end of a mailbox.
Post(h, t) ==
    /\ pending' = [pending EXCEPT ![h] = Append(@, t)]
    /\ UNCHANGED running

\* An urgent task joins the front of a mailbox.
PostFront(h, t) ==
    /\ pending' = [pending EXCEPT ![h] = <<t>> \o @]
    /\ UNCHANGED running

\* An idle handler starts its first task.
Start(h) ==
    /\ running[h] = NoTask
    /\ pending[h] # <<>>
    /\ running' = [running EXCEPT ![h] = Head(pending[h])]
    /\ pending' = [pending EXCEPT ![h] = Tail(@)]

\* A handler completes the task it is executing.
Complete(h) ==
    /\ running[h] # NoTask
    /\ running' = [running EXCEPT ![h] = NoTask]
    /\ UNCHANGED pending

Next ==
    \E h \in Handlers :
        \/ \E t \in Tasks : Post(h, t) \/ PostFront(h, t)
        \/ Start(h)
        \/ Complete(h)

Spec == Init /\ [][Next]_vars

\* Every mailbox is served: the promise an asynchronous caller relies on.
FairSpec ==
    /\ Spec
    /\ \A h \in Handlers : WF_vars(Start(h)) /\ WF_vars(Complete(h))
=============================================================================
