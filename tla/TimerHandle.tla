----------------------------- MODULE TimerHandle -----------------------------
(***************************************************************************)
(* The timers of handlers (libcore/timerhandle.h, timerhandle.cpp) and the *)
(* object pool that they come from (libcore/objectpool.h, object.h).       *)
(*                                                                         *)
(* A handler's thread takes a TimerHandle out of the pool at once and      *)
(* posts what is to be done with it to the main worker, whose thread alone *)
(* arms, changes, fires and gives back.  A handle is the slot of the       *)
(* object and its version, which changes each time the object is given     *)
(* back.  Rpc composes this module with the coroutines of rpc.lua.         *)
(*                                                                         *)
(* Time is left out: an armed timer may fire at any moment.                *)
(***************************************************************************)
EXTENDS Integers, Sequences, SequencesExt

CONSTANTS MaxTimers,  \* m_maxHashNumber of the pool
          Versions    \* the versions that a handle tells apart

ASSUME TimerHandleAssumption == {MaxTimers, Versions} \subseteq Nat \ {0}

VARIABLES
    timers,  \* m_objects: version, callback ID and whether armed
    idle,    \* m_idleHandle: the slots given back, the last one on top
    tasks    \* the tasks in the main worker's queue

timerVars == <<timers, idle, tasks>>

Nil == <<0, 0>>          \* a coInfo without timerHandle
NoTimer == <<0, 1>>      \* what startTimer returns when the pool is exhausted

HandleOf(s) == <<s, timers[s].version>>

TimerInit == timers = <<>> /\ idle = <<>> /\ tasks = <<>>

\* getTimerHandle finds the object of a handle, if it still has this version.
Current(handle) == handle[1] \in DOMAIN timers /\ handle = HandleOf(handle[1])

\* A slot in use: taken and not given back yet.
Live == {s \in DOMAIN timers : ~ Contains(idle, s)}

Post(newTasks) == tasks' = tasks \o newTasks

\* createTimerHandle, under the lock: an object given back, the last one first,
\* or a new one.  Its handle is returned before the timer runs.
Created ==
    IF idle # <<>> THEN HandleOf(Last(idle))
    ELSE IF Len(timers) < MaxTimers THEN <<Len(timers) + 1, 0>>
    ELSE NoTimer

CreateTimerHandle ==
    IF idle # <<>>
    THEN idle' = Front(idle) /\ UNCHANGED timers
    ELSE /\ timers' = IF Len(timers) < MaxTimers
                      THEN Append(timers, [version |-> 0, id |-> 0, armed |-> FALSE])
                      ELSE timers
         /\ UNCHANGED idle

StartTask(handle, id) == [op |-> "start", handle |-> handle, id |-> id]
ChangeTask(handle) == [op |-> "change", handle |-> handle]
RemoveTask(handle) == [op |-> "remove", handle |-> handle]

-----------------------------------------------------------------------------
(***************************************************************************)
(* The main thread.                                                        *)
(***************************************************************************)

\* The version is not raised when the object is given back.
WrongRemoveTimerHandle(s) ==
    /\ timers' = [timers EXCEPT ![s].armed = FALSE]
    /\ idle' = Append(idle, s)

\* removeTimerHandle: disarmed and given back with its next version
RemoveTimerHandle(s) ==
    /\ timers' = [timers EXCEPT ![s].armed = FALSE,
                                ![s].version = (@ + 1) % Versions]
    /\ idle' = Append(idle, s)

\* doActiveTask of Start-, Change- and RemoveTimerTask; a task whose handle is
\* not current any more does nothing.
DoTimerTask ==
    /\ tasks # <<>>
    /\ tasks' = Tail(tasks)
    /\ LET task == Head(tasks)
           s == task.handle[1]
       IN \/ /\ ~ Current(task.handle)
             /\ UNCHANGED <<timers, idle>>
          \/ /\ Current(task.handle)
             /\ task.op = "start"
             /\ timers' = [timers EXCEPT ![s].id = task.id, ![s].armed = TRUE]
             /\ UNCHANGED idle
          \/ /\ Current(task.handle)
             /\ task.op = "change"
             /\ timers' = [timers EXCEPT ![s].armed = TRUE]
             /\ UNCHANGED idle
          \/ /\ Current(task.handle)
             /\ task.op = "remove"
             /\ RemoveTimerHandle(s)

\* timerCallback when the handler was found: the timer is given back.  With the
\* handler gone activeTimer returns 0 and the timer is armed again: no change.
Expire(s) ==
    /\ s \in DOMAIN timers
    /\ timers[s].armed
    /\ RemoveTimerHandle(s)
    /\ UNCHANGED tasks
=============================================================================
