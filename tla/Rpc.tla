--------------------------------- MODULE Rpc ---------------------------------
(***************************************************************************)
(* The coroutines of a handler's script (bin/base/rpc.lua): they make      *)
(* calls whose answers come back as tasks of the handler, every wait is    *)
(* limited by a timer of TimerHandle, and schedule runs a callback after a *)
(* time, once or in a loop.                                                *)
(*                                                                         *)
(* An action of the handler's thread is one task of its mailbox, run to    *)
(* the end.  What the script does between two waits is its choice; an      *)
(* answer may come late or never.  A call that the C++ side refuses at     *)
(* once does not wait and leaves no trace.                                 *)
(***************************************************************************)
EXTENDS TimerHandle

CONSTANTS MaxStarted, \* bound: coroutines started
          MaxID,      \* bound: callback IDs given out
          MaxCalls    \* bound: calls made

ASSUME RpcAssumption == {MaxStarted, MaxID, MaxCalls} \subseteq Nat

VARIABLES
    co,       \* the coroutines and their coInfo
    cbMap,    \* m_cbMap: the coroutine of each callback ID
    nextID,   \* m_id; it does not come round within the bound
    made,     \* calls made so far
    calls,    \* the number of calls under way for each callback ID
    inbox,    \* the handler's mailbox: timeouts and answers
    handler   \* "running", "destroyed" (onDestroy was called) or "gone"

rpcVars == <<co, cbMap, nextID, made, calls, inbox, handler>>
vars == <<rpcVars, timerVars>>

Coroutines == 1 .. MaxStarted    \* in the order in which they are started
Nobody == 0
IDs == 1 .. MaxID

\* A coroutine waits for the end of a scheduled sleep or for the answer of a
\* call.  stray is history: see Iterate.
NotStarted == [status |-> "new", loop |-> FALSE, id |-> 0, timer |-> Nil, stray |-> FALSE]
Dead == [NotStarted EXCEPT !.status = "dead"]

Init ==
    /\ TimerInit
    /\ co = [c \in Coroutines |-> NotStarted]
    /\ cbMap = [i \in IDs |-> Nobody]
    /\ nextID = 1
    /\ made = 0
    /\ calls = [i \in IDs |-> 0]
    /\ inbox = <<>>
    /\ handler = "running"

-----------------------------------------------------------------------------
(***************************************************************************)
(* What a coroutine does when it is resumed.  handle is its timerHandle at *)
(* that time, id its callbackID when it is suspended again.                *)
(***************************************************************************)

\* scheduleTimeout changes the timer there is, or starts one.
ScheduleTimeout(id, handle, more) ==
    IF handle # Nil
    THEN Post(<<ChangeTask(handle)>> \o more) /\ UNCHANGED <<timers, idle>>
    ELSE CreateTimerHandle /\ Post(<<StartTask(Created, id)>> \o more)

\* The handle that coInfo.timerHandle has then.
TimerFor(handle) == IF handle # Nil THEN handle ELSE Created

\* coroutine.yield and the end of resumeCoroutine
Suspend(c, wait, id, handle, info) ==
    /\ ScheduleTimeout(id, handle, <<>>)
    /\ co' = [co EXCEPT ![c] = [info EXCEPT !.status = wait, !.id = id,
                                            !.timer = TimerFor(handle)]]

\* processWithCO and requestHttp: a call with the coroutine's callback ID
Call(c, info, handle) ==
    /\ made < MaxCalls
    /\ made' = made + 1
    /\ calls' = [calls EXCEPT ![info.id] = @ + 1]
    /\ Suspend(c, "waiting", info.id, handle, info)

\* The loop of schedule starts its next sleep without a new callback ID.
WrongIterate(c, info, handle) ==
    /\ info.loop
    /\ Suspend(c, "asleep", info.id, handle, info)
    /\ UNCHANGED <<cbMap, nextID, made, calls>>

\* The old entry stays in m_cbMap.
IterateWithOldEntry(c, info, handle) ==
    /\ info.loop
    /\ nextID <= MaxID
    /\ cbMap' = [cbMap EXCEPT ![nextID] = c]
    /\ nextID' = nextID + 1
    /\ Suspend(c, "asleep", nextID, handle, [info EXCEPT !.stray = @ \/ handle # Nil])
    /\ UNCHANGED <<made, calls>>

\* The callback of a loop has returned: changeCoroutineCallbackID, then the next
\* sleep.  If an answer ended the callback's last wait the timer of that wait is
\* still there, with the old callback ID, and it is this one that is changed.
Iterate(c, info, handle) ==
    /\ info.loop
    /\ nextID <= MaxID
    /\ cbMap' = [cbMap EXCEPT ![info.id] = Nobody, ![nextID] = c]
    /\ nextID' = nextID + 1
    /\ Suspend(c, "asleep", nextID, handle, [info EXCEPT !.stray = @ \/ handle # Nil])
    /\ UNCHANGED <<made, calls>>

\* The function returned or failed: removeByID.
Finish(c, info, handle) ==
    /\ cbMap' = [cbMap EXCEPT ![info.id] = Nobody]
    /\ co' = [co EXCEPT ![c] = Dead]
    /\ Post(IF handle # Nil THEN <<RemoveTask(handle)>> ELSE <<>>)
    /\ UNCHANGED <<timers, idle, nextID, made, calls>>

\* resumeCoroutine
Resume(c, handle) ==
    \/ Call(c, co[c], handle) /\ UNCHANGED <<cbMap, nextID>>
    \/ Iterate(c, co[c], handle)
    \/ Finish(c, co[c], handle)

-----------------------------------------------------------------------------
(***************************************************************************)
(* The tasks of the handler.                                               *)
(***************************************************************************)

\* registerCoroutine
Register(c) ==
    /\ handler = "running"
    /\ co[c].status = "new"
    /\ c > 1 => co[c - 1].status # "new"
    /\ nextID <= MaxID
    /\ cbMap' = [cbMap EXCEPT ![nextID] = c]
    /\ nextID' = nextID + 1

\* execute with a function that makes a call
Execute(c) ==
    /\ Register(c)
    /\ Call(c, [NotStarted EXCEPT !.id = nextID], Nil)
    /\ UNCHANGED <<inbox, handler>>

\* schedule: the timer is started by the coroutine and changed, to the same
\* time, when it has yielded.
Schedule(c, loop) ==
    /\ Register(c)
    /\ ScheduleTimeout(nextID, Nil, <<ChangeTask(Created)>>)
    /\ co' = [co EXCEPT ![c] = [NotStarted EXCEPT !.status = "asleep", !.loop = loop,
                                                  !.id = nextID, !.timer = Created]]
    /\ UNCHANGED <<made, calls, inbox, handler>>

\* getInfoByID: m_cbMap has nothing for the ID of a timer that never started.
GetInfoByID(id) == IF id \in IDs THEN cbMap[id] ELSE Nobody

Ignored == UNCHANGED <<co, cbMap, nextID, made, calls, timerVars>>

\* The timer that has fired is still taken for the coroutine's.
WrongDoingTimeout(id) ==
    LET c == GetInfoByID(id) IN
    IF c = Nobody THEN Ignored ELSE Resume(c, co[c].timer)

\* doingTimeout
DoingTimeout(id) ==
    LET c == GetInfoByID(id) IN
    IF c = Nobody THEN Ignored ELSE Resume(c, Nil)

\* doingWithCO and doingHttp
DoingAnswer(id) ==
    LET c == GetInfoByID(id) IN
    IF c = Nobody THEN Ignored ELSE Resume(c, co[c].timer)

DoHandlerTask ==
    /\ inbox # <<>>
    /\ inbox' = Tail(inbox)
    /\ \/ Head(inbox).type = "timeout" /\ DoingTimeout(Head(inbox).id)
       \/ Head(inbox).type = "answer" /\ DoingAnswer(Head(inbox).id)
    /\ UNCHANGED handler

\* destroyRpc forgets the coroutines and leaves their timers.
WrongDestroy ==
    /\ handler = "running"
    /\ handler' = "destroyed"
    /\ cbMap' = [i \in IDs |-> Nobody]
    /\ co' = [c \in Coroutines |-> Dead]
    /\ UNCHANGED <<timerVars, nextID, made, calls, inbox>>

\* onDestroy: destroyRpc removes the timers of the coroutines in m_cbMap.  It
\* runs in the thread of the main handler; here it is one step.
Destroy ==
    /\ handler = "running"
    /\ handler' = "destroyed"
    /\ Post(SetToSeq({RemoveTask(co[c].timer) :
                c \in {d \in Coroutines : (\E i \in IDs : cbMap[i] = d) /\ co[d].timer # Nil}}))
    /\ cbMap' = [i \in IDs |-> Nobody]
    /\ co' = [c \in Coroutines |-> Dead]
    /\ UNCHANGED <<timers, idle, nextID, made, calls, inbox>>

\* The handler leaves its pool: the main thread does not find it any more.
Unload ==
    /\ handler = "destroyed"
    /\ handler' = "gone"
    /\ UNCHANGED <<co, cbMap, nextID, made, calls, inbox, timerVars>>

-----------------------------------------------------------------------------
\* Another thread answers a call, or nobody ever does.
Answer ==
    \E id \in IDs :
        /\ calls[id] > 0
        /\ calls' = [calls EXCEPT ![id] = @ - 1]
        /\ inbox' = IF handler = "gone" THEN inbox
                    ELSE Append(inbox, [type |-> "answer", id |-> id])
        /\ UNCHANGED <<co, cbMap, nextID, made, handler, timerVars>>

\* The main thread: activeTimer finds the handler and posts a TimerUpdateTask.
Fire(s) ==
    /\ handler # "gone"
    /\ Expire(s)
    /\ inbox' = Append(inbox, [type |-> "timeout", id |-> timers[s].id])
    /\ UNCHANGED <<co, cbMap, nextID, made, calls, handler>>

MainTask == DoTimerTask /\ UNCHANGED rpcVars

Next ==
    \/ \E c \in Coroutines : Execute(c)
    \/ \E c \in Coroutines, loop \in BOOLEAN : Schedule(c, loop)
    \/ DoHandlerTask
    \/ Destroy
    \/ Unload
    \/ Answer
    \/ \E s \in 1 .. MaxTimers : Fire(s)
    \/ MainTask

Spec == Init /\ [][Next]_vars

\* The threads work off their queues, and the main thread's timers expire.
FairSpec ==
    /\ Spec
    /\ WF_vars(DoHandlerTask)
    /\ WF_vars(MainTask)
    /\ \A s \in 1 .. MaxTimers : WF_vars(Fire(s))
=============================================================================
