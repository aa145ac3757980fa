----------------------------- MODULE Connection -----------------------------
(***************************************************************************)
(* A connection of an epoll thread: Accept and Client (libcore/accept.cpp, *)
(* client.cpp), opened, timed and closed by EpollWorker                    *)
(* (libcore/epollworker.cpp), with its write queue, its heartbeat and the  *)
(* edge-triggered events of its socket (libcore/epoll.h).                  *)
(*                                                                         *)
(* One object is followed through several connections: closed, it waits in *)
(* the pool and is opened again for another socket.  The packets it reads  *)
(* are what AcceptRead cuts out of the stream; what closing tells the      *)
(* handler is in NodeConnect.                                              *)
(*                                                                         *)
(* The thread alternates between one epoll_wait and the timers that are    *)
(* due.  Tasks run in the event of its eventfd, which may come before the  *)
(* object's own event in the same batch.  Peer and kernel are environment. *)
(***************************************************************************)
EXTENDS Integers, Sequences, SequencesExt

CONSTANTS Lengths,     \* the lengths of packets
          Capacity,    \* of the socket's send buffer
          MaxOpened,   \* bound: connections of the object
          MaxSends,    \* bound: packets given to one connection
          MaxReceived, \* bound: packets the peer sends on one connection
          MaxSignals   \* bound: system calls interrupted on one connection

ASSUME ConnectionAssumption ==
    /\ Lengths \subseteq Nat \ {0}
    /\ Capacity \in Nat \ {0}
    /\ {MaxOpened, MaxSends, MaxReceived, MaxSignals} \subseteq Nat

HeadLength == 1      \* a ping, a pong or an answer is a head alone

VARIABLES
    kind,    \* "accept" or "client", the class of the object
    conn,    \* its fields
    sock,    \* its socket in the kernel
    opened,  \* connections so far; the last one has this number as its handle
    pc,      \* where the thread is in Epoll::update, as to this object
    event    \* the events of the object that this batch reports

vars == <<kind, conn, sock, opened, pc, event>>

\* handle is 0 while the object is in the pool.  queue is m_packetQueue: the
\* packets by their number, with their cursor.  accepted has the lengths of the
\* packets that sendPacket took.  skipped is history: epollActive has used up an
\* event that also announced something else.
Idle == [handle |-> 0, state |-> "disconnect", online |-> FALSE, callback |-> "none",
         timer |-> FALSE, queue |-> <<>>, accepted |-> <<>>, skipped |-> FALSE]

\* up: the connect is complete; interest, ready: epoll's registration and its
\* ready list; unread: what the peer has not read; stream: all that was written
NoSocket == [up |-> FALSE, broken |-> FALSE, eof |-> FALSE, noSpace |-> FALSE,
             interest |-> {}, ready |-> FALSE, incoming |-> <<>>, received |-> 0,
             unread |-> 0, stream |-> <<>>, signals |-> 0]

Init ==
    /\ kind \in {"accept", "client"}
    /\ conn = Idle
    /\ sock = NoSocket
    /\ opened = 0
    /\ pc = "wait"
    /\ event = {}

-----------------------------------------------------------------------------
(***************************************************************************)
(* The socket.  A wakeup puts it in the ready list if it is of interest;   *)
(* EPOLLOUT wakes up only after a write or a poll has found no space.      *)
(***************************************************************************)

Space(s) == Capacity - s.unread

Poll(s) ==
    {e \in {"in", "out", "err"} :
        \/ s.broken
        \/ e = "in" /\ (s.incoming # <<>> \/ s.eof)
        \/ e = "out" /\ s.up /\ Space(s) > 0}

Reported(s) == Poll(s) \intersect (s.interest \union {"err"})

Polled(s) == [s EXCEPT !.noSpace = @ \/ (s.up /\ Space(s) = 0)]

Wake(s, events) ==
    [s EXCEPT !.ready = @ \/ events \intersect (s.interest \union {"err"}) # {}]

\* The registration is changed, but the kernel does not look at the socket.
WrongObjectChange(s, events) == [s EXCEPT !.interest = events]

\* Epoll::objectChange: the kernel looks at the socket once.
ObjectChange(s, events) ==
    LET t == [Polled(s) EXCEPT !.interest = events] IN
    [t EXCEPT !.ready = @ \/ Reported(t) # {}]

Connects ==
    /\ conn.handle # 0 /\ ~ sock.up /\ ~ sock.broken
    /\ sock' = Wake([sock EXCEPT !.up = TRUE], {"out"})
    /\ UNCHANGED <<kind, conn, opened, pc, event>>

\* The packets a connection acts on, whichever class the object has: a registration
\* with the right password or without, a ping, a pong, and the answer to a
\* registration that gives our handle there.
Messages == {"register", "refused", "ping", "pong", "response"}

PeerSends(m) ==
    /\ sock.up /\ ~ sock.eof /\ ~ sock.broken
    /\ sock.received < MaxReceived
    /\ sock' = Wake([sock EXCEPT !.incoming = Append(@, m), !.received = @ + 1], {"in"})
    /\ UNCHANGED <<kind, conn, opened, pc, event>>

PeerReads ==
    /\ sock.unread > 0 /\ ~ sock.broken
    /\ LET s == [sock EXCEPT !.unread = @ - 1, !.noSpace = FALSE] IN
       sock' = IF sock.noSpace THEN Wake(s, {"out"}) ELSE s
    /\ UNCHANGED <<kind, conn, opened, pc, event>>

PeerCloses ==
    /\ sock.up /\ ~ sock.eof
    /\ sock' = Wake([sock EXCEPT !.eof = TRUE], {"in"})
    /\ UNCHANGED <<kind, conn, opened, pc, event>>

\* A reset, or a connect that fails
PeerResets ==
    /\ conn.handle # 0 /\ ~ sock.broken
    /\ sock' = Wake([sock EXCEPT !.broken = TRUE], {"err"})
    /\ UNCHANGED <<kind, conn, opened, pc, event>>

-----------------------------------------------------------------------------
(***************************************************************************)
(* The functions of the object.  They return what may become of object and *)
(* socket, as a set of records [conn, sock].                               *)
(***************************************************************************)

World(c, s) == [conn |-> c, sock |-> s]

\* resetData and the return to the pool.  m_isOnline and m_timerCallback stay.
Closed(c) ==
    World([Idle EXCEPT !.online = c.online, !.callback = c.callback], NoSocket)

EpollRemove(c, s) == IF c.handle = 0 THEN World(c, s) ELSE Closed(c)

\* The units of packet p between two positions
Units(p, from, to) == [i \in 1 .. to - from |-> <<p, from + i>>]

Result(failed, cursor, s) == [failed |-> failed, cursor |-> cursor, sock |-> s]

\* writeSocket: an error; as much as there is space for, also nothing; or nothing
\* after a signal.  A socket that still connects takes nothing.
WriteSocket(c, s, p) ==
    LET left == c.accepted[p.id] - p.cursor
        n == IF ~ s.up THEN 0 ELSE IF left < Space(s) THEN left ELSE Space(s)
        written == [s EXCEPT !.unread = @ + n,
                             !.stream = @ \o Units(p.id, p.cursor, p.cursor + n),
                             !.noSpace = @ \/ (s.up /\ n < left)]
    IN IF s.broken
       THEN {Result(TRUE, p.cursor, s)}
       ELSE {Result(FALSE, p.cursor + n, written)}
            \union (IF s.signals < MaxSignals
                    THEN {Result(FALSE, p.cursor, [s EXCEPT !.signals = @ + 1])}
                    ELSE {})

\* A packet is written although others wait.
WrongSendPacket(c, s, length) ==
    IF c.handle = 0
    THEN {World(c, s)}
    ELSE LET d == [c EXCEPT !.accepted = Append(@, length)]
             p == [id |-> Len(d.accepted), cursor |-> 0]
         IN { IF r.failed THEN EpollRemove(c, s)
              ELSE IF r.cursor = length THEN World(d, r.sock)
              ELSE World([d EXCEPT !.queue = Append(@, [p EXCEPT !.cursor = r.cursor])],
                         ObjectChange(r.sock, {"in", "out"})) : r \in WriteSocket(d, s, p) }

\* sendPacket: a packet waits behind others, or is written as far as possible.
\* In the pool m_fd is 0: the bytes go to the standard input, and nothing of the
\* object changes.
SendPacket(c, s, length) ==
    LET d == [c EXCEPT !.accepted = Append(@, length)]
        p == [id |-> Len(d.accepted), cursor |-> 0]
    IN IF c.handle = 0
       THEN {World(c, s)}
       ELSE IF c.queue # <<>>
       THEN {World([d EXCEPT !.queue = Append(@, p)], s)}
       ELSE { IF r.failed THEN EpollRemove(c, s)
              ELSE IF r.cursor = length THEN World(d, r.sock)
              ELSE World([d EXCEPT !.queue = <<[p EXCEPT !.cursor = r.cursor]>>],
                         ObjectChange(r.sock, {"in", "out"})) : r \in WriteSocket(d, s, p) }

Identified(c) == c.state = "identified"

\* dispatchPacket, and by way of it onCommandRegister, onCommandPing, onCommandPong
\* and onCommandResponse.  An Accept that is not identified accepts a registration
\* only; after that nobody asks which side of the connection the object is.
Dispatch(c, s, m) ==
    IF kind = "accept" /\ ~ Identified(c) /\ m \notin {"register", "refused"}
    THEN {EpollRemove(c, s)}
    ELSE CASE m = "register" ->
                { World([w.conn EXCEPT !.state = "identified"], w.sock) :
                    w \in SendPacket(c, s, HeadLength) }
           [] m = "refused" ->
                { EpollRemove(w.conn, w.sock) : w \in SendPacket(c, s, HeadLength) }
           [] m = "ping" -> SendPacket([c EXCEPT !.online = TRUE], s, HeadLength)
           [] m = "pong" -> {World([c EXCEPT !.online = TRUE], s)}
           [] m = "response" ->
                {World([c EXCEPT !.state = "identified",
                                 !.callback = "keepOnline", !.timer = TRUE], s)}

Becomes(worlds) == \E w \in worlds : conn' = w.conn /\ sock' = w.sock

-----------------------------------------------------------------------------
(***************************************************************************)
(* Epoll::update, as to the event of this object                           *)
(***************************************************************************)

EpollWait ==
    /\ pc = "wait" /\ sock.ready
    /\ sock' = [Polled(sock) EXCEPT !.ready = FALSE]
    /\ event' = Reported(sock)
    /\ pc' = IF event' = {} THEN "wait" ELSE "event"
    /\ UNCHANGED <<kind, conn, opened>>

AfterIn == IF "out" \in event THEN "out" ELSE IF "err" \in event THEN "remove" ELSE "check"

\* Client::epollActive before CS_CONNECT_OK.  It looks at the error of the socket
\* the object has now and ends the event.  In the pool that is no socket: the
\* local variable error is used without a value.
ClientActive ==
    /\ pc = "event"
    /\ kind = "client" /\ conn.state \in {"disconnect", "start"}
    /\ IF conn.handle = 0
       THEN conn' \in {conn, [conn EXCEPT !.state = "ok"]} /\ UNCHANGED sock
       ELSE Becomes({IF sock.broken THEN EpollRemove(conn, sock)
                     ELSE World([conn EXCEPT !.state = "ok",
                                             !.skipped = conn.queue # <<>> \/ "in" \in event],
                                sock)})
    /\ pc' = "wait"
    /\ event' = {}
    /\ UNCHANGED <<kind, opened>>

Active ==
    /\ pc = "event"
    /\ kind = "accept" \/ conn.state \in {"ok", "identified"}
    /\ pc' = IF "in" \in event THEN "in" ELSE AfterIn
    /\ UNCHANGED <<kind, conn, sock, opened, event>>

\* One readSocket of epollIn brings a packet; the loop goes on.
ReadPacket ==
    /\ pc = "in" /\ conn.handle # 0 /\ sock.incoming # <<>>
    /\ Becomes(Dispatch(conn, [sock EXCEPT !.incoming = Tail(@)], Head(sock.incoming)))
    /\ UNCHANGED <<kind, opened, pc, event>>

\* readSocket ends the loop: nothing to read, a signal, or the end.
ReadEnds ==
    /\ pc = "in"
    /\ \/ /\ conn.handle = 0 \/ (sock.incoming = <<>> /\ ~ sock.eof /\ ~ sock.broken)
          /\ UNCHANGED <<conn, sock>>
       \/ /\ sock.signals < MaxSignals /\ conn.handle # 0
          /\ sock' = [sock EXCEPT !.signals = @ + 1]
          /\ UNCHANGED conn
       \/ /\ sock.incoming = <<>> /\ (sock.eof \/ sock.broken)
          /\ Becomes({EpollRemove(conn, sock)})
    /\ pc' = AfterIn
    /\ UNCHANGED <<kind, opened, event>>

\* One packet of epollOut: it leaves the queue, or stays at its head.
EpollOut(c, s) ==
    { IF r.failed THEN EpollRemove(c, s)
      ELSE IF r.cursor = c.accepted[Head(c.queue).id]
      THEN World([c EXCEPT !.queue = Tail(@)], r.sock)
      ELSE World([c EXCEPT !.queue[1].cursor = r.cursor], r.sock) :
        r \in WriteSocket(c, s, Head(c.queue)) }

\* The loop of epollOut ends with the queue, or with a packet that stays.
WriteQueue ==
    /\ pc = "out"
    /\ IF conn.queue = <<>>
       THEN pc' = "check" /\ UNCHANGED <<conn, sock>>
       ELSE /\ Becomes(EpollOut(conn, sock))
            /\ pc' = IF Len(conn'.queue) < Len(conn.queue) /\ conn'.handle # 0
                     THEN "out" ELSE "check"
    /\ UNCHANGED <<kind, opened, event>>

\* EPOLLERR without EPOLLOUT
ErrorEvent ==
    /\ pc = "remove"
    /\ Becomes({EpollRemove(conn, sock)})
    /\ pc' = "wait"
    /\ event' = {}
    /\ UNCHANGED <<kind, opened>>

\* EPOLLOUT is given up with packets in the queue.
WrongEpollCheck ==
    /\ pc = "check"
    /\ sock' = IF conn.handle = 0 THEN sock ELSE ObjectChange(sock, {"in"})
    /\ conn' = [conn EXCEPT !.skipped = FALSE]
    /\ pc' = "wait"
    /\ event' = {}
    /\ UNCHANGED <<kind, opened>>

EpollCheck ==
    /\ pc = "check"
    /\ sock' = IF conn.handle = 0 THEN sock
               ELSE ObjectChange(sock, IF conn.queue = <<>> THEN {"in"} ELSE {"in", "out"})
    /\ conn' = [conn EXCEPT !.skipped = FALSE]
    /\ pc' = "wait"
    /\ event' = {}
    /\ UNCHANGED <<kind, opened>>

HandleEvent ==
    \/ ClientActive \/ Active
    \/ ReadPacket \/ ReadEnds
    \/ WriteQueue
    \/ ErrorEvent
    \/ EpollCheck

-----------------------------------------------------------------------------
(***************************************************************************)
(* Tasks of the thread, and its timers                                     *)
(***************************************************************************)

TasksRun == pc \in {"wait", "event"}

OpenAccept ==
    /\ TasksRun /\ kind = "accept" /\ conn.handle = 0 /\ opened < MaxOpened
    /\ opened' = opened + 1
    /\ conn' = [conn EXCEPT !.handle = opened', !.state = "ok",
                            !.callback = "identify", !.timer = TRUE]
    /\ sock' = [NoSocket EXCEPT !.up = TRUE, !.interest = {"in"}]
    /\ UNCHANGED <<kind, pc, event>>

\* The timer is not set: it runs only if it ran in the pool.
OpenClient ==
    /\ TasksRun /\ kind = "client" /\ conn.handle = 0 /\ opened < MaxOpened
    /\ opened' = opened + 1
    /\ conn' = [conn EXCEPT !.handle = opened', !.state = "start"]
    /\ sock' = [NoSocket EXCEPT !.interest = {"in", "out"}]
    /\ UNCHANGED <<kind, pc, event>>

\* A connect that fails at once, or a descriptor that cannot be registered
OpenFails ==
    /\ TasksRun /\ conn.handle = 0
    /\ Becomes({Closed(conn)})
    /\ UNCHANGED <<kind, opened, pc, event>>

\* closeConnect, by the task of a handler
CloseConnect ==
    /\ TasksRun /\ conn.handle # 0
    /\ Becomes({Closed(conn)})
    /\ UNCHANGED <<kind, opened, pc, event>>

\* A packet of a handler.  It has the handle as soon as openClient has returned.
DispatchToConnect(length) ==
    /\ TasksRun /\ conn.handle # 0
    /\ Len(conn.accepted) < MaxSends
    /\ Becomes(SendPacket(conn, sock, length))
    /\ UNCHANGED <<kind, opened, pc, event>>

CheckConnectIdentify(c, s) ==
    IF Identified(c)
    THEN {World([c EXCEPT !.online = TRUE, !.callback = "checkOnline"], s)}
    ELSE {EpollRemove(c, s)}

\* The object is never marked as silent.
WrongCheckConnectOnline(c, s) == IF c.online THEN {World(c, s)} ELSE {EpollRemove(c, s)}

CheckConnectOnline(c, s) ==
    IF c.online
    THEN {World([c EXCEPT !.online = FALSE], s)}
    ELSE {EpollRemove(c, s)}

\* It returns a duration whatever became of the connection: Timer::update arms the
\* timer again, also if sendPacket has closed the connection.
KeepConnectOnline(c, s) ==
    { World([w.conn EXCEPT !.timer = TRUE], w.sock) : w \in SendPacket(c, s, HeadLength) }

TimerFires ==
    /\ pc = "wait" /\ conn.timer
    /\ \/ conn.callback = "identify" /\ Becomes(CheckConnectIdentify(conn, sock))
       \/ conn.callback = "checkOnline" /\ Becomes(CheckConnectOnline(conn, sock))
       \/ /\ conn.callback = "keepOnline" /\ Len(conn.accepted) < MaxSends
          /\ Becomes(KeepConnectOnline(conn, sock))
    /\ UNCHANGED <<kind, opened, pc, event>>

Kernel == Connects \/ PeerReads \/ PeerCloses \/ PeerResets \/ \E m \in Messages : PeerSends(m)

Tasks ==
    \/ OpenAccept \/ OpenClient \/ OpenFails \/ CloseConnect
    \/ \E length \in Lengths : DispatchToConnect(length)

Next == Kernel \/ EpollWait \/ HandleEvent \/ Tasks \/ TimerFires

Spec == Init /\ [][Next]_vars

\* The thread runs, its timers fire, the peer's kernel decides a connect, and the
\* peer reads what it is sent.  Nothing has to be sent or closed.
FairSpec ==
    /\ Spec
    /\ WF_vars(EpollWait \/ HandleEvent)
    /\ WF_vars(TimerFires)
    /\ WF_vars(Connects)
    /\ WF_vars(PeerReads)

-----------------------------------------------------------------------------
(***************************************************************************)
(* Properties                                                              *)
(***************************************************************************)

TypeOK ==
    /\ kind \in {"accept", "client"}
    /\ conn.handle \in {0, opened} /\ opened \in 0 .. MaxOpened
    /\ conn.state \in {"disconnect", "start", "ok", "identified"}
    /\ conn.callback \in {"none", "identify", "checkOnline", "keepOnline"}
    /\ conn.handle = 0 => conn.queue = <<>> /\ sock = NoSocket
    /\ \A i \in DOMAIN conn.queue : conn.queue[i].id \in DOMAIN conn.accepted
    /\ sock.unread \in 0 .. Capacity
    /\ sock.signals \in 0 .. MaxSignals
    /\ pc \in {"wait", "event", "in", "out", "remove", "check"}
    /\ event \subseteq {"in", "out", "err"}
    /\ (pc = "wait") = (event = {})

AllUnits(lengths) == FlattenSeq([i \in DOMAIN lengths |-> Units(i, 0, lengths[i])])

Queued(c) ==
    FlattenSeq([i \in DOMAIN c.queue |->
                  LET p == c.queue[i] IN Units(p.id, p.cursor, c.accepted[p.id])])

\* However writes are cut short, refused or interrupted, and whoever sends in
\* between: the bytes in the socket and those in the queue are the packets that
\* sendPacket took, whole, once and in their order.
PacketsInOrder ==
    conn.handle # 0 => sock.stream \o Queued(conn) = AllUnits(conn.accepted)

\* What will bring an event for the queue
WaitsForOut(s) ==
    /\ "out" \in s.interest
    /\ s.ready \/ ~ s.up \/ (Space(s) = 0 /\ s.noSpace)

\* "already waiting in epoll for the out event" (accept.cpp:112): when the thread
\* is done with a connection, a packet in its queue waits for EPOLLOUT, which the
\* kernel will report.
QueueWaitsForOut ==
    pc = "wait" /\ conn.queue # <<>> => WaitsForOut(sock)

\* No edge is lost: what the peer sent or did, and space for a queued packet, is
\* in the ready list when the thread is done with the connection, after short
\* reads and signals too; unless epollActive took the event of a connecting
\* client for the connect alone.
NoEventLost ==
    pc = "wait" /\ conn.handle # 0 /\ ~ conn.skipped =>
        /\ conn.queue # <<>> => WaitsForOut(sock)
        /\ "in" \in Poll(sock) => sock.ready

Inv == TypeOK /\ NoEventLost

\* A queue is written to its end, or the connection is closed, if the peer reads:
\* of a client, from the moment it is connected.
QueueDrains ==
    conn.queue # <<>> /\ conn.state # "start" /\ ~ conn.skipped ~> conn.queue = <<>>

\* An accepted connection does not outlive its peer's last word: it is closed when
\* it does not identify itself, or is silent for a period of the timer; unless the
\* peer has sent it the answer to a registration.  Then keepConnectOnline has taken
\* the place of checkConnectOnline, and nobody looks at m_isOnline again.
SilentAcceptsEnd ==
    []<>(kind = "accept" => conn.handle = 0 \/ conn.callback = "keepOnline")

-----------------------------------------------------------------------------
(***************************************************************************)
(* The inductive invariant, on an object and its socket.                   *)
(***************************************************************************)

Waiting == [id : Nat, cursor : Nat]

Objects ==
    [handle : Nat, state : {"disconnect", "start", "ok", "identified"}, online : BOOLEAN,
     callback : {"none", "identify", "checkOnline", "keepOnline"}, timer : BOOLEAN,
     queue : Seq(Waiting), accepted : Seq(Nat), skipped : BOOLEAN]

Sockets ==
    [up : BOOLEAN, broken : BOOLEAN, eof : BOOLEAN, noSpace : BOOLEAN,
     interest : SUBSET {"in", "out"}, ready : BOOLEAN,
     incoming : Seq({"register", "refused", "ping", "response", "pong"}), received : Nat,
     unread : 0 .. Capacity, stream : Seq(Nat \X Nat), signals : 0 .. MaxSignals]

\* In the pool the object has no packets and no socket.  Connected, it always
\* listens, and a packet in its queue is one that sendPacket took.
Consistent(c, s) ==
    /\ c \in Objects /\ s \in Sockets
    /\ c.handle = 0 => c.queue = <<>> /\ c.accepted = <<>> /\ s = NoSocket
    /\ c.handle # 0 => "in" \in s.interest
    /\ \A i \in DOMAIN c.queue :
          LET p == c.queue[i]
          IN p.id \in DOMAIN c.accepted /\ p.cursor <= c.accepted[p.id]

InOrder(c, s) == c.handle # 0 => s.stream \o Queued(c) = AllUnits(c.accepted)

\* What the peer sent or did is in the ready list.
InputIsReady(s) == "in" \in Poll(s) => s.ready

\* An event without EPOLLIN that has been taken but not handled has used up
\* nothing of what has come since.
IInv ==
    /\ TypeOK
    /\ Consistent(conn, sock)
    /\ InOrder(conn, sock)
    /\ NoEventLost
    /\ pc = "event" /\ conn.handle # 0 /\ "in" \notin event => InputIsReady(sock)
=============================================================================
