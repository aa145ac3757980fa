------------------------------ MODULE HttpProps ------------------------------
(***************************************************************************)
(* What the client of an http connection can rely on.                      *)
(***************************************************************************)
EXTENDS Http

Whole == [i \in 1 .. Length |-> i]

TypeOK ==
    /\ conn \in [open : BOOLEAN, destroy : BOOLEAN,
                 buf : {"none", "request", "answer"}, size : Nat, offset : Nat]
    /\ sock \in [sent : 0 .. Length, got : 0 .. Length, fin : BOOLEAN, rst : BOOLEAN,
                 mask : {"none", "in", "out"}, edge : BOOLEAN]
    /\ parser \in [next : 0 .. Length, broken : BOOLEAN]
    /\ opened \in 0 .. MaxOpened
    /\ pc \in {"wait", "batch", "read", "crashed"}
    /\ after \in {"wait", "batch", "check"}
    /\ event.set \subseteq {"in", "out", "err"}
    /\ owed \in Nat
    /\ log.asked \in Seq(BOOLEAN)
    /\ log.out \in Seq(0 .. Length)
    /\ log.ended \in {"no", "closed", "timeout", "asked"}

\* The server closes a connection by itself only when it has sent the whole
\* answer, provided that the request came in one piece and the peer is still
\* there.  The exception is a connection that meets an event taken for an earlier
\* state of its object: the event may close it, or mark the object so that its
\* next connection is closed at once.
ClientServed ==
    log.ended = "closed" /\ ~ (log.split \/ log.gone \/ log.stale) => log.out = Whole

\* The same for a request that comes in pieces.  "may be called again next time"
\* (readSocket, on EAGAIN)
SplitRequestServed ==
    log.ended = "closed" /\ ~ (log.gone \/ log.stale) => log.out = Whole

\* The request is given to its receiver once and as it came, with the same
\* exceptions: what is left in the buffer is parsed again after an empty read.
AskedOnce ==
    ~ (log.split \/ log.gone \/ log.stale) => log.asked \in {<<>>, <<TRUE>>}

Inv == TypeOK /\ AskedOnce

\* Answers are written in order and without a gap, over any number of EPOLLOUT
\* events, and nothing else is; except to a client whose request was taken twice.
AnswersIntact ==
    Len(log.asked) <= 1 /\ ~ log.stale =>
        Len(log.out) <= Length /\ log.out = SubSeq(Whole, 1, Len(log.out))

\* No connection outlives its timer, whatever state its request is in.
ConnectionsEnd ==
    \A r \in 1 .. MaxOpened :
        opened = r ~> opened > r \/ ~ conn.open \/ pc = "crashed"

-----------------------------------------------------------------------------
(***************************************************************************)
(* The inductive invariant, on a world: a function of the code passes      *)
(* through worlds that are no states.                                      *)
(***************************************************************************)

Worlds ==
    [conn : [open : BOOLEAN, destroy : BOOLEAN,
             buf : {"none", "request", "answer"}, size : Nat, offset : Nat],
     sock : [sent : 0 .. Length, got : 0 .. Length, fin : BOOLEAN, rst : BOOLEAN,
             mask : {"none", "in", "out"}, edge : BOOLEAN],
     log : [asked : Seq(BOOLEAN), out : Seq(0 .. Length),
            ended : {"no", "closed", "timeout", "asked"},
            split : BOOLEAN, gone : BOOLEAN, stale : BOOLEAN]]

\* An object in the pool is clear, its state apart; only a connection that has met
\* an event of an earlier state may have the state HTTP_STATE_DESTROY.
ObjectOK(w) ==
    /\ w \in Worlds
    /\ w.conn.offset <= w.conn.size
    /\ w.conn.buf = "none" => w.conn.size = 0 /\ w.sock.got = 0
    /\ w.conn.buf = "request" => w.conn.size = w.sock.got
    /\ w.sock.got <= w.sock.sent
    /\ ~ w.conn.open => w.conn.buf = "none" /\ w.sock = NoSocket
    /\ w.conn.open => /\ w.log.ended = "no"
                      /\ w.sock.fin \/ w.sock.rst => w.log.gone
                      /\ w.conn.destroy => w.log.stale

\* The peer is there, its request came in one piece, and no event was an old one.
Clean(l) == ~ (l.split \/ l.gone \/ l.stale)

\* The three properties
PromisesOK(l) ==
    /\ l.ended = "closed" /\ Clean(l) => l.out = Whole
    /\ Clean(l) => l.asked \in {<<>>, <<TRUE>>}
    /\ Len(l.asked) <= 1 /\ ~ l.stale =>
         Len(l.out) <= Length /\ l.out = SubSeq(Whole, 1, Len(l.out))

\* Before the first request nothing is written or owed.  After it an answer is owed,
\* or the buffer has the rest of it and the thread waits for space.
AnswerOK(w, n) ==
    w.conn.open /\ ~ w.log.stale =>
        /\ w.log.asked = <<>> => n = 0 /\ w.log.out = <<>> /\ w.sock.mask # "out"
        /\ Len(w.log.asked) = 1 =>
             \/ n = 1 /\ w.log.out = <<>> /\ w.sock.mask # "out"
             \/ /\ n = 0 /\ w.sock.mask = "out"
                /\ w.conn.buf = "answer" /\ w.conn.size = Length
                /\ w.log.out = SubSeq(Whole, 1, w.conn.offset)

\* A request that comes in one piece is not read, or read and taken.
RequestOK(w, p) ==
    w.conn.open /\ Clean(w.log) =>
        \/ w.sock.got = 0 /\ w.log.asked = <<>> /\ w.conn.buf = "none" /\ p = Begin
        \/ w.sock.got = Length /\ w.log.asked = <<TRUE>>

\* What holds of a world between two steps of the thread
WorldOK(w, n, p) ==
    ObjectOK(w) /\ PromisesOK(w.log) /\ AnswerOK(w, n) /\ RequestOK(w, p)

\* epollIn runs for an event that was true of the socket, unless it is for an
\* earlier state of it: the socket is not being written to, and has something.
\* The events of an object as it was are still true of it.
ThreadOK(w, q, a, e) ==
    /\ q = "read" => /\ w.conn.open
                     /\ a = "batch" => ~ e.fresh
                     /\ a = "check" => w.log.gone \/ w.log.stale
                     /\ ~ w.log.stale => w.sock.mask # "out"
                     /\ Clean(w.log) => w.sock.got = 0
    /\ q = "batch" /\ e.fresh => /\ w.conn.open
                                 /\ "in" \in e.set => w.sock.mask = "in" /\ Readable(w.sock)
                                 /\ "out" \in e.set => w.sock.mask = "out"
                                 /\ "err" \in e.set => w.sock.rst

IInv ==
    /\ WorldOK(Now, owed, parser)
    /\ ThreadOK(Now, pc, after, event)
    /\ parser \in [next : 0 .. Length, broken : BOOLEAN]
    /\ opened \in 0 .. MaxOpened
    /\ pc \in {"wait", "batch", "read", "crashed"}
    /\ after \in {"wait", "batch", "check"}
    /\ event \in [set : SUBSET {"in", "out", "err"}, fresh : BOOLEAN]
    /\ owed \in Nat
=============================================================================
