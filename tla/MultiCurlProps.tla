---------------------------- MODULE MultiCurlProps ----------------------------
(***************************************************************************)
(* What scripts can rely on when they make http requests.                  *)
(***************************************************************************)
EXTENDS MultiCurl

TimerObjects == EasyCurls \union {Multi}
InLibcurl == InTransfer("running") \union InTransfer("done")
WithRequest == {e \in EasyCurls : easy[e].req # None}

CurlTypeOK ==
    /\ easy \in [EasyCurls -> [req : Requests \union {None},
                               transfer : {"none", "running", "done"}]]
    /\ used \subseteq EasyCurls
    /\ idleObjects \in Seq(EasyCurls)
    /\ requestQueue \in Seq(Requests)
    /\ requestCount \in Int
    /\ stillRunning \in 0 .. Cardinality(EasyCurls)
    /\ armed \in Seq(TimerObjects)
    /\ dueBatch \in Seq([object : TimerObjects, req : Requests \union {None}])
    /\ reading \in {"no", "messages", "end"}
    /\ crashed \in BOOLEAN
    /\ sent \subseteq Requests /\ dropped \subseteq Requests
    /\ answers \in [Requests -> Seq({"result", "timeout", "full"})]
    /\ failures \in 0 .. MaxFailures

\* The objects whose request failed to start in multiAdd: LeaveIdle
Stale == {e \in WithRequest : easy[e].transfer = "none"}

\* The objects taken from the pool are the ones that libcurl has, so that a request
\* can start on any other.  m_requestCount is their number, less one for each stale
\* object whose limit has struck, and every stale object is due to a start that
\* failed.  A request is on one object or in the queue, once.
Accounted ==
    /\ InLibcurl = used /\ used \subseteq WithRequest
    /\ IsInjective(idleObjects) /\ ToSet(idleObjects) = EasyCurls \ used
    /\ requestCount <= Cardinality(used)
    /\ Cardinality(used) + Cardinality(Stale) <= requestCount + failures
    /\ \A d, e \in WithRequest : easy[d].req = easy[e].req => d = e
    /\ \A e \in WithRequest : easy[e].req \notin ToSet(requestQueue)
    /\ IsInjective(requestQueue)

\* Timer::update collects what is due before it calls anything, and the callback of
\* the MultiCurl may end a transfer and start another on the same object, whose
\* limit would then strike the wrong request, or none.  It never does: the objects
\* of a batch still have the request they were taken with, because libcurl's timer
\* is armed after the limit of every transfer, and batches are in that order.
LimitsAreOwn ==
    /\ ~ crashed
    /\ \A i \in DOMAIN dueBatch :
          dueBatch[i].object # Multi => /\ dueBatch[i].req # None
                                        /\ easy[dueBatch[i].object].req = dueBatch[i].req

\* A request waits in the queue only while MaxPerform run, also after starts that
\* failed.
NoneWaitsInVain == requestQueue # <<>> => requestCount >= MaxPerform

Inv == CurlTypeOK /\ Accounted /\ NoneWaitsInVain

\* A request gets at most one answer, and none if its callback ID is 0.
AnsweredOnce ==
    \A r \in Requests : Len(answers[r]) <= IF r \in Silent THEN 0 ELSE 1

\* Every request that wants an answer gets one, also if its transfer never ends or
\* its end is never read, except a queued request that fails to start.
EveryRequestAnswered ==
    \A r \in Requests \ Silent :
        r \in sent ~> answers[r] # <<>> \/ r \in dropped
=============================================================================
