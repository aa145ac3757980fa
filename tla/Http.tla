--------------------------------- MODULE Http ---------------------------------
(***************************************************************************)
(* The http connections of an epoll thread (libcore/http.h, http.cpp,      *)
(* openHttp and closeHttp of epollworker.cpp, onReceiveHttp and            *)
(* onHttpReceivePacket of gamma/epollhandler.cpp): one object of the pool, *)
(* taken for one connection after the other.                               *)
(*                                                                         *)
(* A request is the units 1 .. Length of its socket, and so is an answer.  *)
(* The answer to a connection that is gone finds no object: the pool gives *)
(* all the other slots before it gives a handle again (HandlesComeInTurn   *)
(* of PoolProps).  The thread takes the events of the object from          *)
(* epoll_wait, may run tasks of its mailbox before it comes to them, and   *)
(* runs its timers after them.                                             *)
(***************************************************************************)
EXTENDS Integers, Sequences

CONSTANTS Length,     \* of a request, and of an answer
          MaxOpened   \* bound: connections

ASSUME HttpAssumption == Length \in Nat \ {0} /\ MaxOpened \in Nat

VARIABLES
    conn,    \* the object: whether it has a connection and the state
             \* HTTP_STATE_DESTROY (no other is asked for), its buffer, m_offset
    sock,    \* the socket: what the peer did, and what epoll knows of it
    parser,  \* m_paeser: the unit it wants next, 0 after a last request, and
             \* whether it was given something else
    opened,  \* connections so far
    pc,      \* the thread: "wait", "batch" (between epoll_wait and the object's
             \* event), "read" (the loop of epollIn) or "crashed"
    after,   \* where epollIn returns to: "wait", "batch" or the "check" for EPOLLERR
    event,   \* the events taken, and whether the object is as it was then
    owed,    \* answers that a handler may still send
    log      \* history of the last connection: the requests given to their
             \* receiver, as they came or not; all that was written, 0 for what is
             \* no answer; how it ended; whether it was read in pieces, the peer
             \* has left, it has met an event of an earlier state

world == <<conn, sock, log>>
vars == <<world, parser, opened, pc, after, event, owed>>

\* resetData
Idle == [open |-> FALSE, destroy |-> FALSE, buf |-> "none", size |-> 0, offset |-> 0]
NoSocket == [sent |-> 0, got |-> 0, fin |-> FALSE, rst |-> FALSE,
             mask |-> "none", edge |-> FALSE]
Begin == [next |-> 1, broken |-> FALSE]
NoEvent == [set |-> {}, fresh |-> TRUE]
NoLog == [asked |-> <<>>, out |-> <<>>, ended |-> "no",
          split |-> FALSE, gone |-> FALSE, stale |-> FALSE]

Init ==
    /\ conn = Idle
    /\ sock = NoSocket
    /\ log = NoLog
    /\ parser = Begin
    /\ opened = 0
    /\ pc = "wait"
    /\ after = "wait"
    /\ event = NoEvent
    /\ owed = 0

-----------------------------------------------------------------------------
(***************************************************************************)
(* The functions of Http, on a world w: object, socket and history.        *)
(***************************************************************************)

Now == [conn |-> conn, sock |-> sock, log |-> log]

Becomes(w) == conn' = w.conn /\ sock' = w.sock /\ log' = w.log

Readable(s) == s.got < s.sent \/ s.fin \/ s.rst

\* The buffer is not released.
WrongRemove(w, why) ==
    IF ~ w.conn.open THEN w
    ELSE [w EXCEPT !.conn.open = FALSE, !.conn.destroy = FALSE, !.sock = NoSocket,
                   !.log.ended = why]

\* epollRemove and closeHttp; an object with no descriptor is left as it is.
Remove(w, why) ==
    IF ~ w.conn.open THEN w
    ELSE [w EXCEPT !.conn = Idle, !.sock = NoSocket, !.log.ended = why]

\* The end of epollIn and epollOut
CheckRemove(w) == IF w.conn.destroy THEN Remove(w, "closed") ELSE w

\* checkEpollState: objectAdd or objectChange; either looks at the socket again.
CheckEpollState(w, mask) ==
    [w EXCEPT !.sock.mask = mask,
              !.sock.edge = (mask = "in" /\ Readable(w.sock)) \/ w.sock.rst]

\* n units of the buffer are written from m_offset on; m_offset stays behind.
WrongWritten(w, n) ==
    LET unit(i) == IF w.conn.buf = "answer" /\ i <= Length THEN i ELSE 0
    IN [w EXCEPT !.log.out = @ \o [i \in 1 .. n |-> unit(w.conn.offset + i)]]

\* n units of the buffer are written from m_offset on.
Written(w, n) ==
    LET unit(i) == IF w.conn.buf = "answer" /\ i <= Length THEN i ELSE 0
    IN [w EXCEPT !.conn.offset = @ + n,
                 !.log.out = @ \o [i \in 1 .. n |-> unit(w.conn.offset + i)]]

\* What was written is taken for all.
WrongEpollOut(w) ==
    IF w.sock.rst THEN {Remove(w, "closed")}
    ELSE {Remove(Written(w, n), "closed") : n \in 0 .. w.conn.size - w.conn.offset}

\* epollOut and writeSocket: all, a part or nothing is written.  The result is a
\* set of worlds.
EpollOut(w) ==
    LET left == w.conn.size - w.conn.offset
    IN IF w.sock.rst THEN {Remove(w, "closed")}
       ELSE {Remove(Written(w, left), "closed")} \union
            {CheckRemove(CheckEpollState(Written(w, n), "out")) : n \in 0 .. left - 1}

\* responseRequest, and responseBegin to responseEnd: the buffer is cleared.
Respond(w) ==
    EpollOut([w EXCEPT !.conn.buf = "answer", !.conn.size = Length, !.conn.offset = 0])

\* epollIn after its loop, and what epollActive does when it returns.  A new
\* connection whose object has the state HTTP_STATE_DESTROY is removed here.
Return(w, result) ==
    LET last == CASE result < 0 -> Remove(w, "closed")
                  [] result > 0 -> CheckRemove(CheckEpollState(w, "in"))
                  [] result = 0 -> CheckRemove(w)
    IN /\ Becomes(IF after = "check" THEN Remove(last, "closed") ELSE last)
       /\ pc' = IF after = "batch" THEN "batch" ELSE "wait"
       /\ UNCHANGED after

-----------------------------------------------------------------------------
(***************************************************************************)
(* epollIn                                                                 *)
(***************************************************************************)

\* http_parser_execute on the buffer from m_offset on: what it says and the parser
\* afterwards.  What it makes of units that it has had before is up to them.
Parse(c) ==
    IF parser.next = 0 THEN {[says |-> "error", parser |-> parser]}
    ELSE IF c.buf = "request" /\ c.offset + 1 = parser.next /\ ~ parser.broken
    THEN IF c.size = Length
         THEN {[says |-> "end", parser |-> [Begin EXCEPT !.next = n]] : n \in {0, 1}}
         ELSE {[says |-> "more", parser |-> [Begin EXCEPT !.next = c.size + 1]]}
    ELSE {[says |-> s, parser |-> [parser EXCEPT !.broken = TRUE]] :
            s \in {"error", "more", "end"}}

\* readSocket has n units behind what the buffer has.
Received(w, n) ==
    [w EXCEPT !.sock.got = @ + n,
              !.conn.buf = IF @ = "none" THEN "request" ELSE @,
              !.conn.offset = w.conn.size,
              !.conn.size = @ + n,
              !.log.split = @ \/ n < Length]

\* The request is complete: m_offset is 0 again.
Taken(w, how) == [w EXCEPT !.conn.offset = 0, !.log.asked = Append(@, how)]

\* The request is given to its receiver, which answers at once or sends it to a
\* handler.
Receive(w, how) ==
    LET got == Taken(w, how)
    IN \/ /\ \E answered \in Respond(got) : Return(answered, 0)
          /\ UNCHANGED owed
       \/ /\ owed' = owed + 1
          /\ Return(got, 0)

\* One turn of the loop: result 0, n units were read; 2, there are none for now;
\* -1, the peer has closed or reset the connection.  A buffer from before is
\* parsed again then.
ReadSocket ==
    /\ pc = "read"
    /\ \E n \in 0 .. sock.sent - sock.got :
         /\ n = 0 <=> (sock.rst \/ sock.sent = sock.got)
         /\ LET result == IF n > 0 THEN 0 ELSE IF sock.rst \/ sock.fin THEN -1 ELSE 2
                w == IF n = 0 THEN Now ELSE Received(Now, n)
            IN /\ IF w.conn.buf = "none"
                  THEN Return(w, result) /\ UNCHANGED <<parser, owed>>
                  ELSE \E p \in Parse(w.conn) :
                         /\ parser' = p.parser
                         /\ \/ /\ p.says = "error"
                               /\ Return(w, -1)
                               /\ UNCHANGED owed
                            \/ /\ p.says = "more"
                               /\ IF n > 0 THEN Becomes(w) /\ UNCHANGED <<pc, after>>
                                  ELSE Return(w, result)
                               /\ UNCHANGED owed
                            \/ /\ p.says = "end"
                               /\ Receive(w, ~ p.parser.broken)
    /\ UNCHANGED <<opened, event>>

-----------------------------------------------------------------------------
(***************************************************************************)
(* The thread: events, tasks and timers.                                   *)
(***************************************************************************)

\* epoll_wait
Wait ==
    /\ pc = "wait"
    /\ sock.edge
    /\ sock' = [sock EXCEPT !.edge = FALSE]
    /\ event' = [set |-> {e \in {"in", "out", "err"} :
                            \/ e = "in" /\ sock.mask = "in" /\ Readable(sock)
                            \/ e = "out" /\ sock.mask = "out"
                            \/ e = "err" /\ sock.rst},
                 fresh |-> TRUE]
    /\ pc' = IF event'.set = {} THEN "wait" ELSE "batch"
    /\ UNCHANGED <<conn, log, parser, opened, after, owed>>

\* The history knows of an event for an earlier state of the connection.
AtEvent == [Now EXCEPT !.log.stale = @ \/ (conn.open /\ ~ event.fresh)]

\* epollActive.  An event of a closed object reads descriptor 0, which has nothing,
\* and leaves the object in the pool with HTTP_STATE_DESTROY; a write without a
\* buffer is undefined.
EpollActive ==
    /\ pc = "batch"
    /\ event' = NoEvent
    /\ LET w == AtEvent
       IN \/ /\ conn.destroy
             /\ pc' = "wait"
             /\ UNCHANGED <<world, after>>
          \/ /\ ~ conn.destroy
             /\ "in" \in event.set
             /\ ~ conn.open
             /\ Becomes([w EXCEPT !.conn.destroy = TRUE])
             /\ pc' = "wait"
             /\ UNCHANGED after
          \/ /\ ~ conn.destroy
             /\ "in" \in event.set
             /\ conn.open
             /\ Becomes(w)
             /\ pc' = "read"
             /\ after' = IF "err" \in event.set THEN "check" ELSE "wait"
          \/ /\ ~ conn.destroy
             /\ "out" \in event.set
             /\ IF conn.buf = "none"
                THEN pc' = "crashed" /\ UNCHANGED world
                ELSE pc' = "wait" /\ \E v \in EpollOut(w) : Becomes(v)
             /\ UNCHANGED after
          \/ /\ ~ conn.destroy
             /\ event.set = {"err"}
             /\ Becomes(Remove(w, "closed"))
             /\ pc' = "wait"
             /\ UNCHANGED after
    /\ UNCHANGED <<parser, opened, owed>>

\* A task may change the object between epoll_wait and its event.
RunsTask ==
    /\ pc \in {"wait", "batch"}
    /\ event' = [event EXCEPT !.fresh = pc = "wait"]

\* openHttp; the peer may have sent something already.  A state that is
\* HTTP_STATE_DESTROY stays so, and the loop of epollIn comes at once.
OpenHttp ==
    /\ RunsTask
    /\ ~ conn.open
    /\ opened < MaxOpened
    /\ opened' = opened + 1
    /\ conn' = [conn EXCEPT !.open = TRUE]
    /\ \E sent \in 0 .. Length : sock' = [NoSocket EXCEPT !.sent = sent]
    /\ log' = [NoLog EXCEPT !.stale = conn.destroy]
    /\ parser' = Begin
    /\ pc' = "read"
    /\ after' = pc
    /\ owed' = 0

\* onHttpReceivePacket
Answer ==
    /\ RunsTask
    /\ conn.open
    /\ owed > 0
    /\ owed' = owed - 1
    /\ \E w \in Respond(Now) : Becomes(w)
    /\ UNCHANGED <<parser, opened, pc, after>>

\* A handler's closeConnect
CloseConnect ==
    /\ RunsTask
    /\ conn.open
    /\ log.asked # <<>>
    /\ Becomes(Remove(Now, "asked"))
    /\ UNCHANGED <<parser, opened, pc, after, owed>>

\* A timeout counts only as long as nothing was received.
WrongTimerCallback ==
    /\ pc = "wait"
    /\ conn.open
    /\ conn.buf = "none"
    /\ Becomes(Remove(Now, "timeout"))
    /\ UNCHANGED <<parser, opened, pc, after, event, owed>>

\* timerCallback: the connection is HTTP_HANDLE_TIMEOUT old.
TimerCallback ==
    /\ pc = "wait"
    /\ conn.open
    /\ Becomes(Remove(Now, "timeout"))
    /\ UNCHANGED <<parser, opened, pc, after, event, owed>>

-----------------------------------------------------------------------------
(***************************************************************************)
(* The peer.                                                               *)
(***************************************************************************)

PeerSends ==
    /\ conn.open
    /\ ~ sock.fin /\ ~ sock.rst
    /\ \E sent \in sock.sent + 1 .. Length :
         sock' = [sock EXCEPT !.sent = sent, !.edge = @ \/ sock.mask = "in"]
    /\ UNCHANGED <<conn, log, parser, opened, pc, after, event, owed>>

PeerLeaves ==
    /\ conn.open
    /\ ~ sock.rst
    /\ \/ ~ sock.fin /\ sock' = [sock EXCEPT !.fin = TRUE, !.edge = @ \/ sock.mask = "in"]
       \/ sock' = [sock EXCEPT !.rst = TRUE, !.edge = @ \/ sock.mask # "none"]
    /\ log' = [log EXCEPT !.gone = TRUE]
    /\ UNCHANGED <<conn, parser, opened, pc, after, event, owed>>

\* There is space again.
PeerReads ==
    /\ sock.mask = "out"
    /\ ~ sock.edge
    /\ sock' = [sock EXCEPT !.edge = TRUE]
    /\ UNCHANGED <<conn, log, parser, opened, pc, after, event, owed>>

Next ==
    \/ ReadSocket
    \/ Wait
    \/ EpollActive
    \/ OpenHttp
    \/ Answer
    \/ CloseConnect
    \/ TimerCallback
    \/ PeerSends
    \/ PeerLeaves
    \/ PeerReads

Spec == Init /\ [][Next]_vars

\* The thread goes on, and each turn of its loop comes to the timers.
FairSpec ==
    /\ Spec
    /\ WF_vars(ReadSocket)
    /\ WF_vars(Wait)
    /\ WF_vars(EpollActive)
    /\ SF_vars(TimerCallback)
=============================================================================
