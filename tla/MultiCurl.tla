------------------------------ MODULE MultiCurl ------------------------------
(***************************************************************************)
(* The http client of an epoll thread: requests of scripts run on EasyCurl *)
(* objects of a pool, at most MaxPerform at a time, the others wait in a   *)
(* queue (libcore/multicurl.cpp, multicurl.h).                             *)
(*                                                                         *)
(* Requests come as tasks, transfers advance on socket events and on the   *)
(* timer of the MultiCurl, and every request has a limit of ten seconds,   *)
(* the timer of its EasyCurl.  All of it runs on the thread of the worker. *)
(*                                                                         *)
(* libcurl is external: it finishes transfers when it is called, wants its *)
(* timer set or cleared as it likes, except that it always sets it when a  *)
(* handle is added, and may fail to add one, MaxFailures times here.  Time *)
(* is left out; that EasyCurls are due in the order they were armed stays. *)
(***************************************************************************)
EXTENDS Integers, FiniteSets, Selection

CONSTANTS Requests,
          Silent,       \* requests whose m_callbackID is 0: nobody wants an answer
          EasyCurls,    \* the objects of m_pEasyCurlPool
          MaxPerform,   \* MAX_REQUEST_PERFORM, 1024
          MaxQueue,     \* MAX_REQUEST_QUEUE, 100000
          MaxFailures,  \* bound: starts that fail
          Multi,        \* the MultiCurl, as an object of the Timer
          None          \* NULL

ASSUME CurlAssumption ==
    /\ IsFiniteSet(EasyCurls)
    /\ Silent \subseteq Requests
    /\ MaxPerform \in Nat \ {0} /\ MaxQueue \in Nat /\ MaxFailures \in Nat
    /\ Cardinality(EasyCurls) >= MaxPerform + MaxFailures
    /\ Multi \notin EasyCurls /\ None \notin Requests

VARIABLES
    easy,          \* m_pRequest of each EasyCurl, and how its transfer stands
    used,          \* the EasyCurls that are in a slot of the pool
    idleObjects,   \* the others, the next one last; new ones are used last
    requestQueue,  \* m_requestQueue
    requestCount,  \* m_requestCount
    stillRunning,  \* m_stillRunning
    armed,         \* the timers that are armed, by m_index
    dueBatch,      \* the timers that Timer::update has taken, by m_index, with the
                   \* request that an EasyCurl had then
    reading,       \* in MultiCurl::timerCallback: "messages" in multiInfoRead,
                   \* "end" after it or without it, "no" elsewhere
    crashed,       \* a NULL m_pRequest was used
    sent,          \* history: the requests that were accepted or refused
    answers,       \* history: for each request the answers to it, in q
    dropped,       \* history: queued requests that failed to start
    failures       \* starts that failed

pool == <<used, idleObjects>>
timers == <<armed, dueBatch>>
history == <<sent, answers, dropped, failures>>
curlVars == <<easy, pool, requestQueue, requestCount, stillRunning, timers, reading,
          crashed, history>>

Blank == [req |-> None, transfer |-> "none"]

CurlInit ==
    /\ easy = [e \in EasyCurls |-> Blank]
    /\ used = {}
    /\ idleObjects = SetToSeq(EasyCurls)
    /\ requestQueue = <<>>
    /\ requestCount = 0
    /\ stillRunning = 0
    /\ armed = <<>>
    /\ dueBatch = <<>>
    /\ reading = "no"
    /\ crashed = FALSE
    /\ sent = {}
    /\ answers = [r \in Requests |-> <<>>]
    /\ dropped = {}
    /\ failures = 0

\* The transfers that libcurl has, the ones that end being read until removed
InTransfer(t) == {e \in EasyCurls : easy[e].transfer = t}

\* The thread is between two events.
Waits == ~ crashed /\ reading = "no" /\ dueBatch = <<>>

-----------------------------------------------------------------------------
\* setTimer and clearTimer
Disarm(q, o) == Without(q, {o})
ArmLast(q, o) == Append(Disarm(q, o), o)

\* timeoutCallback, if libcurl calls it: its timer is set, cleared or kept.
TimeoutCallbacks(q) == {q, ArmLast(q, Multi), Disarm(q, Multi)}

\* responseRequest, and the answer of CurlRequestTask
Answered(r, kind) ==
    IF r \in Silent THEN answers ELSE [answers EXCEPT ![r] = Append(@, kind)]

\* No limit is armed.
WrongLimit(q, e) == ArmLast(q, Multi)

\* The limit is armed when the transfer has been added.
WrongStarted(q, e) == ArmLast(ArmLast(q, Multi), e)

\* initializeEasy and multiAdd, when both succeed: m_pRequest, the limit, and then
\* libcurl's timer
TransferOf(r) == [req |-> r, transfer |-> "running"]
Started(q, e) == ArmLast(ArmLast(q, e), Multi)

-----------------------------------------------------------------------------
(***************************************************************************)
(* CurlRequestTask::doActiveTask, acceptRequest                            *)
(***************************************************************************)

Arrives(r) ==
    /\ Waits
    /\ r \notin sent
    /\ sent' = sent \union {r}
    /\ UNCHANGED <<stillRunning, dueBatch, reading, crashed, dropped>>

NextEasyCurl == idleObjects[Len(idleObjects)]

\* createEasyCurl gives an object, and the request starts on it.
AcceptRequest(r) ==
    LET e == NextEasyCurl IN
    /\ Arrives(r)
    /\ requestCount < MaxPerform
    /\ easy' = [easy EXCEPT ![e] = TransferOf(r)]
    /\ used' = used \union {e}
    /\ idleObjects' = Front(idleObjects)
    /\ requestCount' = requestCount + 1
    /\ armed' = Started(armed, e)
    /\ UNCHANGED <<requestQueue, answers, failures>>

\* initializeEasy or multiAdd fails: clearEasy, removeEasyCurl, and an answer.
StartFails(r) ==
    LET e == NextEasyCurl IN
    /\ Arrives(r)
    /\ requestCount < MaxPerform
    /\ failures < MaxFailures
    /\ failures' = failures + 1
    /\ easy' = [easy EXCEPT ![e] = Blank]
    /\ armed' = Disarm(armed, e)
    /\ answers' = Answered(r, "full")
    /\ UNCHANGED <<pool, requestQueue, requestCount>>

QueueRequest(r) ==
    /\ Arrives(r)
    /\ requestCount >= MaxPerform
    /\ IF Len(requestQueue) < MaxQueue
       THEN /\ requestQueue' = Append(requestQueue, r)
            /\ UNCHANGED answers
       ELSE /\ answers' = Answered(r, "full")
            /\ UNCHANGED requestQueue
    /\ UNCHANGED <<easy, pool, requestCount, armed, failures>>

-----------------------------------------------------------------------------
(***************************************************************************)
(* removeAndClearEasy                                                      *)
(***************************************************************************)

\* removeEasyCurl: the object goes back to the pool, unless it was there.
RemoveEasyCurl(e) ==
    IF e \in used
    THEN used' = used \ {e} /\ idleObjects' = Append(idleObjects, e)
    ELSE UNCHANGED pool

\* The first k requests of the queue fail to start and are given up.
GiveUp(k) ==
    /\ k <= Len(requestQueue)
    /\ failures + k <= MaxFailures
    /\ failures' = failures + k
    /\ dropped' = dropped \union {requestQueue[i] : i \in 1 .. k}

\* The transfer is taken from libcurl, and the next of the queue that starts runs on
\* the same object.
StartNext(e) ==
    \E k \in 0 .. Len(requestQueue) - 1 :
        /\ GiveUp(k)
        /\ easy' = [easy EXCEPT ![e] = TransferOf(requestQueue[k + 1])]
        /\ requestQueue' = SubSeq(requestQueue, k + 2, Len(requestQueue))
        /\ armed' = Started(armed, e)
        /\ UNCHANGED <<requestCount, pool>>

\* None does, and the object is given back.  When multiAdd was what failed, it keeps
\* the request and the limit that initializeEasy gave it.
LeaveIdle(e) ==
    /\ GiveUp(Len(requestQueue))
    /\ requestQueue' = <<>>
    /\ requestCount' = requestCount - 1
    /\ RemoveEasyCurl(e)
    /\ \E q \in TimeoutCallbacks(Disarm(armed, e)) :
          \/ /\ easy' = [easy EXCEPT ![e] = Blank]
             /\ armed' = q
          \/ \E r \in ToSet(requestQueue) :
                /\ easy' = [easy EXCEPT ![e] = [Blank EXCEPT !.req = r]]
                /\ armed' = ArmLast(q, e)

\* The queue is looked at only when a request comes.
WrongRemoveAndClearEasy(e) ==
    /\ easy' = [easy EXCEPT ![e] = Blank]
    /\ requestCount' = requestCount - 1
    /\ RemoveEasyCurl(e)
    /\ armed' \in TimeoutCallbacks(Disarm(armed, e))
    /\ UNCHANGED <<requestQueue, dropped, failures>>

RemoveAndClearEasy(e) == StartNext(e) \/ LeaveIdle(e)

-----------------------------------------------------------------------------
(***************************************************************************)
(* Transfers and timers                                                    *)
(***************************************************************************)

\* curl_multi_socket_action, curl_multi_perform: some transfers end, m_stillRunning
\* is written, and libcurl may want its timer.
SocketAction(q) ==
    \E ended \in SUBSET InTransfer("running") :
        /\ easy' = [e \in EasyCurls |->
                      IF e \in ended THEN [easy[e] EXCEPT !.transfer = "done"] ELSE easy[e]]
        /\ stillRunning' = Cardinality(InTransfer("running") \ ended)
        /\ armed' \in TimeoutCallbacks(q)

\* onCurlEpollIn, onCurlEpollOut: messages are not read here.
EpollEvent ==
    /\ Waits
    /\ used # {}
    /\ SocketAction(armed)
    /\ UNCHANGED <<pool, requestQueue, requestCount, dueBatch, reading, crashed, history>>

\* Timer::update takes what is due: an EasyCurl never without the ones armed before.
TakeDue(due) ==
    /\ Waits
    /\ due # {} /\ due \subseteq ToSet(armed)
    /\ \A i, j \in DOMAIN armed :
          i < j /\ armed[i] # Multi /\ armed[j] \in due \ {Multi} => armed[i] \in due
    /\ dueBatch' = LET objects == Only(armed, due) IN
                [i \in DOMAIN objects |->
                    [object |-> objects[i],
                     req |-> IF objects[i] = Multi THEN None ELSE easy[objects[i]].req]]
    /\ armed' = Without(armed, due)
    /\ UNCHANGED <<easy, pool, requestQueue, requestCount, stillRunning, reading,
                   crashed, history>>

\* The transfer stays with libcurl.
WrongEasyTimerCallback(e) ==
    /\ ~ crashed /\ reading = "no"
    /\ dueBatch # <<>> /\ Head(dueBatch).object = e
    /\ answers' = Answered(easy[e].req, "timeout")
    /\ dueBatch' = Tail(dueBatch)
    /\ UNCHANGED <<easy, pool, requestQueue, requestCount, stillRunning, armed, reading,
                   crashed, sent, dropped, failures>>

\* EasyCurl::timerCallback: the limit of a request
EasyTimerCallback(e) ==
    /\ ~ crashed /\ reading = "no"
    /\ dueBatch # <<>> /\ Head(dueBatch).object = e
    /\ IF easy[e].req = None
       THEN /\ crashed' = TRUE
            /\ UNCHANGED <<easy, pool, requestQueue, requestCount, armed, dueBatch, answers,
                           dropped, failures>>
       ELSE /\ answers' = Answered(easy[e].req, "timeout")
            /\ RemoveAndClearEasy(e)
            /\ dueBatch' = Tail(dueBatch)
            /\ UNCHANGED crashed
    /\ UNCHANGED <<stillRunning, reading, sent>>

\* MultiCurl::timerCallback up to multiInfoRead, which it calls when fewer transfers
\* run than were started
MultiTimerCallback ==
    /\ ~ crashed /\ reading = "no"
    /\ dueBatch # <<>> /\ Head(dueBatch).object = Multi
    /\ SocketAction(armed)
    /\ reading' = IF stillRunning' < requestCount THEN "messages" ELSE "end"
    /\ UNCHANGED <<pool, requestQueue, requestCount, dueBatch, crashed, history>>

\* A message of multiInfoRead: the answer, and the next request
ReadMessage(e) ==
    /\ ~ crashed /\ reading = "messages"
    /\ easy[e].transfer = "done"
    /\ IF easy[e].req = None
       THEN /\ crashed' = TRUE
            /\ UNCHANGED <<easy, pool, requestQueue, requestCount, armed, answers, dropped,
                           failures>>
       ELSE /\ answers' = Answered(easy[e].req, "result")
            /\ RemoveAndClearEasy(e)
            /\ UNCHANGED crashed
    /\ UNCHANGED <<stillRunning, dueBatch, reading, sent>>

\* The end of MultiCurl::timerCallback: while transfers run the timer is armed.
MultiTimerReturns ==
    /\ ~ crashed
    /\ reading # "no"
    /\ reading = "messages" => InTransfer("done") = {}
    /\ reading' = "no"
    /\ dueBatch' = Tail(dueBatch)
    /\ armed' = IF stillRunning > 0 /\ Multi \notin ToSet(armed) THEN Append(armed, Multi)
                ELSE armed
    /\ UNCHANGED <<easy, pool, requestQueue, requestCount, stillRunning, crashed, history>>

TimerSteps ==
    \/ \E e \in EasyCurls : EasyTimerCallback(e)
    \/ MultiTimerCallback
    \/ \E e \in EasyCurls : ReadMessage(e)
    \/ MultiTimerReturns

CurlNext ==
    \/ \E r \in Requests : AcceptRequest(r) \/ StartFails(r) \/ QueueRequest(r)
    \/ EpollEvent
    \/ \E due \in SUBSET (EasyCurls \union {Multi}) : TakeDue(due)
    \/ TimerSteps

CurlSpec == CurlInit /\ [][CurlNext]_curlVars

\* Ten seconds pass whatever else happens, and callbacks return.
FairCurlSpec ==
    /\ CurlSpec
    /\ WF_curlVars(TimerSteps)
    /\ \A e \in EasyCurls :
          SF_curlVars(\E due \in SUBSET (EasyCurls \union {Multi}) : e \in due /\ TakeDue(due))
=============================================================================
