------------------------------ MODULE Http_proofs ------------------------------
(***************************************************************************)
(* Proofs about the http connections, for all lengths of requests and      *)
(* answers and any number of connections: a client that sends its request  *)
(* in one piece and stays gets the whole answer, the request is taken      *)
(* once, and what is written is the answer from its beginning.             *)
(***************************************************************************)
EXTENDS HttpProps, TLAPS, SequenceTheorems

\* The parts of a world
Conns == [open : BOOLEAN, destroy : BOOLEAN,
          buf : {"none", "request", "answer"}, size : Nat, offset : Nat]
Socks == [sent : 0 .. Length, got : 0 .. Length, fin : BOOLEAN, rst : BOOLEAN,
          mask : {"none", "in", "out"}, edge : BOOLEAN]
Logs == [asked : Seq(BOOLEAN), out : Seq(0 .. Length),
         ended : {"no", "closed", "timeout", "asked"},
         split : BOOLEAN, gone : BOOLEAN, stale : BOOLEAN]
Parsers == [next : 0 .. Length, broken : BOOLEAN]

LEMMA WorldParts ==
  /\ Worlds = [conn : Conns, sock : Socks, log : Logs]
  /\ Idle \in Conns /\ NoSocket \in Socks /\ NoLog \in Logs /\ Begin \in Parsers
  /\ ~ Idle.open /\ ~ Idle.destroy
  /\ Idle.buf = "none" /\ Idle.size = 0 /\ Idle.offset = 0
  /\ NoSocket.sent = 0 /\ NoSocket.got = 0 /\ NoSocket.mask = "none"
  /\ ~ NoSocket.fin /\ ~ NoSocket.rst
  /\ Len(<<TRUE>>) = 1 /\ <<TRUE>> # <<>>
<1>1. Worlds = [conn : Conns, sock : Socks, log : Logs]
  BY DEF Worlds, Conns, Socks, Logs
<1>2. Length \in Nat \ {0}  BY HttpAssumption
<1>3. Idle \in Conns  BY DEF Idle, Conns
<1>4. NoSocket \in Socks  BY <1>2 DEF NoSocket, Socks
<1>5. NoLog \in Logs
  <2>1. <<>> \in Seq(BOOLEAN) /\ <<>> \in Seq(0 .. Length)  OBVIOUS
  <2> QED  BY <2>1 DEF NoLog, Logs
<1>6. Begin \in Parsers  BY <1>2 DEF Begin, Parsers
<1>7. /\ ~ Idle.open /\ ~ Idle.destroy
      /\ Idle.buf = "none" /\ Idle.size = 0 /\ Idle.offset = 0
  BY DEF Idle
<1>8. /\ NoSocket.sent = 0 /\ NoSocket.got = 0 /\ NoSocket.mask = "none"
      /\ ~ NoSocket.fin /\ ~ NoSocket.rst
  BY DEF NoSocket
<1>9. Len(<<TRUE>>) = 1 /\ <<TRUE>> # <<>>  OBVIOUS
<1> QED  BY <1>1, <1>3, <1>4, <1>5, <1>6, <1>7, <1>8, <1>9

-----------------------------------------------------------------------------
(***************************************************************************)
(* The units written.                                                      *)
(***************************************************************************)

\* The first k units of an answer
LEMMA Prefix ==
  ASSUME NEW k \in 0 .. Length
  PROVE  /\ SubSeq(Whole, 1, k) = [i \in 1 .. k |-> i]
         /\ SubSeq(Whole, 1, k) \in Seq(0 .. Length)
         /\ Len(SubSeq(Whole, 1, k)) = k
<1>1. Length \in Nat /\ k \in Nat  BY HttpAssumption
<1>2. Whole \in Seq(0 .. Length) /\ Len(Whole) = Length
  BY <1>1 DEF Whole
<1>3. SubSeq(Whole, 1, k) = [i \in 1 .. k |-> i]
  <2> DEFINE s == SubSeq(Whole, 1, k)
  <2>1. \A i \in 1 .. k : Whole[i] = i /\ Whole[i] \in 0 .. Length
    BY <1>1 DEF Whole
  <2>2. s \in Seq(0 .. Length) /\ Len(s) = k /\ \A i \in 1 .. k : s[i] = i
    BY <1>1, <2>1, SubSeqProperties
  <2> HIDE DEF s
  <2>3. s = [i \in 1 .. Len(s) |-> s[i]]  BY <2>2
  <2> QED  BY <2>2, <2>3 DEF s
<1>4. [i \in 1 .. k |-> i] \in Seq(0 .. Length) /\ Len([i \in 1 .. k |-> i]) = k
  BY <1>1
<1> QED  BY <1>3, <1>4

LEMMA WholeIsPrefix ==
  /\ Whole = SubSeq(Whole, 1, Length)
  /\ <<>> = SubSeq(Whole, 1, 0)
<1>1. Length \in Nat  BY HttpAssumption
<1>2. Whole = SubSeq(Whole, 1, Length)
  <2>1. Length \in 0 .. Length  BY <1>1
  <2>2. SubSeq(Whole, 1, Length) = [i \in 1 .. Length |-> i]  BY <2>1, Prefix
  <2> QED  BY <2>2 DEF Whole
<1>3. SubSeq(Whole, 1, 0) = <<>>  BY SubSeqEmpty
<1> QED  BY <1>2, <1>3

\* n more units behind the first k
LEMMA Extended ==
  ASSUME NEW k \in Nat, NEW n \in Nat, k + n <= Length
  PROVE  SubSeq(Whole, 1, k) \o [i \in 1 .. n |-> k + i] = SubSeq(Whole, 1, k + n)
<1>1. Length \in Nat /\ k \in 0 .. Length /\ k + n \in 0 .. Length  BY HttpAssumption
<1> DEFINE a == [i \in 1 .. k |-> i]
           b == [i \in 1 .. n |-> k + i]
           c == [i \in 1 .. k + n |-> i]
<1>2. a \in Seq(Nat) /\ b \in Seq(Nat) /\ c \in Seq(Nat)
      /\ Len(a) = k /\ Len(b) = n /\ Len(c) = k + n
  BY <1>1
<1>3. a \o b = c  BY <1>1, <1>2
<1> QED  BY <1>1, <1>3, Prefix

\* writeSocket
LEMMA WrittenWorld ==
  ASSUME NEW w \in Worlds, NEW n \in Nat, w.conn.offset + n <= w.conn.size,
         NEW v, v = Written(w, n)
  PROVE  /\ v \in Worlds /\ v.sock = w.sock
         /\ v.conn = [w.conn EXCEPT !.offset = w.conn.offset + n]
         /\ v.log = [w.log EXCEPT !.out = v.log.out]
         /\ w.conn.buf = "answer" /\ w.conn.size = Length
            /\ w.log.out = SubSeq(Whole, 1, w.conn.offset)
              => v.log.out = SubSeq(Whole, 1, v.conn.offset)
<1>1. /\ w.conn \in Conns /\ w.sock \in Socks /\ w.log \in Logs
      /\ w.conn.offset \in Nat /\ w.log.out \in Seq(0 .. Length) /\ Length \in Nat
  BY WorldParts, HttpAssumption DEF Conns, Logs
<1> DEFINE unit(i) == IF w.conn.buf = "answer" /\ i <= Length THEN i ELSE 0
           units == [i \in 1 .. n |-> unit(w.conn.offset + i)]
<1>2. units \in Seq(0 .. Length)  BY <1>1
<1>3. v = [w EXCEPT !.conn.offset = w.conn.offset + n, !.log.out = w.log.out \o units]
  BY DEF Written
<1> HIDE DEF units
<1>4. w.log.out \o units \in Seq(0 .. Length)  BY <1>1, <1>2
<1>5. /\ v.conn = [w.conn EXCEPT !.offset = w.conn.offset + n]
      /\ v.sock = w.sock
      /\ v.log = [w.log EXCEPT !.out = w.log.out \o units]
      /\ v = [conn |-> v.conn, sock |-> v.sock, log |-> v.log]
  BY <1>1, <1>3 DEF Worlds
<1>6. v.log.out = w.log.out \o units  BY <1>1, <1>5 DEF Logs
<1>7. v.conn \in Conns /\ v.log \in Logs
  <2>1. v.conn \in Conns  BY <1>1, <1>5 DEF Conns
  <2>2. v.log \in Logs  BY <1>1, <1>4, <1>5 DEF Logs
  <2> QED  BY <2>1, <2>2
<1>8. v \in Worlds  BY <1>1, <1>5, <1>7, WorldParts
<1>9. ASSUME w.conn.buf = "answer", w.conn.size = Length,
             w.log.out = SubSeq(Whole, 1, w.conn.offset)
      PROVE  v.log.out = SubSeq(Whole, 1, v.conn.offset)
  <2>1. v.conn.offset = w.conn.offset + n  BY <1>1, <1>5 DEF Conns
  <2>2. units = [i \in 1 .. n |-> w.conn.offset + i]
    BY <1>1, <1>9 DEF units
  <2>3. w.log.out \o units = SubSeq(Whole, 1, w.conn.offset + n)
    BY <1>1, <1>9, <2>2, Extended
  <2> QED  BY <1>6, <2>1, <2>3
<1> QED  BY <1>5, <1>6, <1>8, <1>9

-----------------------------------------------------------------------------
(***************************************************************************)
(* The functions of Http keep a world in order.                            *)
(***************************************************************************)

\* The same requests, and the same excuses
SameStory(l, m) ==
    /\ m.asked = l.asked
    /\ m.split = l.split /\ m.gone = l.gone /\ m.stale = l.stale

LEMMA WorldFields ==
  ASSUME NEW w \in Worlds
  PROVE  /\ w.conn \in Conns /\ w.sock \in Socks /\ w.log \in Logs
         /\ w.conn.open \in BOOLEAN /\ w.conn.destroy \in BOOLEAN
         /\ w.conn.size \in Nat /\ w.conn.offset \in Nat
         /\ w.sock.sent \in 0 .. Length /\ w.sock.got \in 0 .. Length
         /\ w.log.asked \in Seq(BOOLEAN) /\ w.log.out \in Seq(0 .. Length)
         /\ Len(w.log.asked) \in Nat /\ (Len(w.log.asked) = 0 <=> w.log.asked = <<>>)
         /\ Length \in Nat \ {0}
<1>1. w.conn \in Conns /\ w.sock \in Socks /\ w.log \in Logs  BY WorldParts
<1>2. w.log.asked \in Seq(BOOLEAN) /\ w.log.out \in Seq(0 .. Length)  BY <1>1 DEF Logs
<1>3. Len(w.log.asked) \in Nat /\ (Len(w.log.asked) = 0 <=> w.log.asked = <<>>)
  BY <1>2, EmptySeq, LenProperties
<1> QED  BY <1>1, <1>2, <1>3, HttpAssumption DEF Conns, Socks

LEMMA OneRequest ==
  ASSUME NEW s \in Seq(BOOLEAN), s # <<>>, Len(s) <= 1
  PROVE  Len(s) = 1
<1>1. Len(s) \in Nat /\ Len(s) # 0  BY EmptySeq, LenProperties
<1>2. \A n \in Nat : n <= 1 /\ n # 0 => n = 1  OBVIOUS
<1> QED  BY <1>1, <1>2

\* epollRemove and closeHttp
LEMMA RemovedWorld ==
  ASSUME NEW w \in Worlds, NEW why \in {"closed", "timeout", "asked"},
         NEW v, v = Remove(w, why)
  PROVE  /\ ~ w.conn.open => v = w
         /\ w.conn.open => /\ v \in Worlds /\ v.conn = Idle /\ v.sock = NoSocket
                           /\ SameStory(w.log, v.log)
                           /\ v.log.out = w.log.out /\ v.log.ended = why
<1>1. /\ w.conn \in Conns /\ w.sock \in Socks /\ w.log \in Logs
      /\ Idle \in Conns /\ NoSocket \in Socks
  BY WorldParts
<1>2. ASSUME w.conn.open
      PROVE  /\ v \in Worlds /\ v.conn = Idle /\ v.sock = NoSocket
             /\ SameStory(w.log, v.log)
             /\ v.log.out = w.log.out /\ v.log.ended = why
  <2>1. v = [w EXCEPT !.conn = Idle, !.sock = NoSocket, !.log.ended = why]
    BY <1>2 DEF Remove
  <2>2. /\ v.conn = Idle /\ v.sock = NoSocket /\ v.log = [w.log EXCEPT !.ended = why]
        /\ v = [conn |-> v.conn, sock |-> v.sock, log |-> v.log]
    BY <1>1, <2>1 DEF Worlds
  <2>3. /\ v.log \in Logs /\ SameStory(w.log, v.log)
        /\ v.log.out = w.log.out /\ v.log.ended = why
    BY <1>1, <2>2 DEF Logs, SameStory
  <2>4. v \in Worlds  BY <1>1, <2>2, <2>3, WorldParts
  <2> QED  BY <2>2, <2>3, <2>4
<1> QED  BY <1>2 DEF Remove

\* A connection may be closed for good when its client was served.
LEMMA RemoveKeeps ==
  ASSUME NEW w, ObjectOK(w), PromisesOK(w.log),
         NEW why \in {"closed", "timeout", "asked"},
         w.conn.open /\ why = "closed" /\ Clean(w.log) => w.log.out = Whole,
         NEW v, v = Remove(w, why), NEW n, NEW p
  PROVE  WorldOK(v, n, p) /\ ~ v.conn.open /\ SameStory(w.log, v.log)
<1>1. w \in Worlds  BY DEF ObjectOK
<1>2. CASE ~ w.conn.open
  <2>1. v = w  BY <1>1, <1>2, RemovedWorld
  <2> QED  BY <1>2, <2>1 DEF WorldOK, AnswerOK, RequestOK, SameStory
<1>3. CASE w.conn.open
  <2>1. /\ v \in Worlds /\ v.conn = Idle /\ v.sock = NoSocket
    BY <1>1, <1>3, RemovedWorld
  <2>2. SameStory(w.log, v.log) /\ v.log.out = w.log.out /\ v.log.ended = why
    BY <1>1, <1>3, RemovedWorld
  <2>3. ObjectOK(v) /\ ~ v.conn.open
    <3>1. /\ ~ v.conn.open /\ v.conn.buf = "none" /\ v.conn.size = 0 /\ v.conn.offset = 0
          /\ v.sock.sent = 0 /\ v.sock.got = 0
      BY <2>1, WorldParts
    <3> QED  BY <2>1, <3>1 DEF ObjectOK
  <2>4. PromisesOK(v.log)
    BY <1>3, <2>2 DEF PromisesOK, Clean, SameStory
  <2> QED  BY <2>2, <2>3, <2>4 DEF WorldOK, AnswerOK, RequestOK
<1> QED  BY <1>2, <1>3

\* The end of epollIn and epollOut
LEMMA CheckRemoveKeeps ==
  ASSUME NEW w, NEW n, NEW p, WorldOK(w, n, p), NEW v, v = CheckRemove(w)
  PROVE  WorldOK(v, n, p) /\ SameStory(w.log, v.log)
<1>1. ObjectOK(w) /\ PromisesOK(w.log)  BY DEF WorldOK
<1>2. CASE w.conn.destroy
  <2>1. v = Remove(w, "closed")  BY <1>2 DEF CheckRemove
  <2>2. w.conn.open => ~ Clean(w.log)  BY <1>1, <1>2 DEF ObjectOK, Clean
  <2> QED  BY <1>1, <2>1, <2>2, RemoveKeeps
<1>3. CASE ~ w.conn.destroy
  <2>1. v = w  BY <1>3 DEF CheckRemove
  <2> QED  BY <2>1 DEF SameStory
<1> QED  BY <1>2, <1>3

\* objectAdd and objectChange
LEMMA CheckEpollWorld ==
  ASSUME NEW w \in Worlds, NEW mask \in {"in", "out"}, NEW v, v = CheckEpollState(w, mask)
  PROVE  /\ v \in Worlds /\ v.conn = w.conn /\ v.log = w.log
         /\ v.sock.mask = mask
         /\ v.sock.sent = w.sock.sent /\ v.sock.got = w.sock.got
         /\ v.sock.fin = w.sock.fin /\ v.sock.rst = w.sock.rst
<1>1. w.conn \in Conns /\ w.sock \in Socks /\ w.log \in Logs  BY WorldFields
<1> DEFINE e == (mask = "in" /\ Readable(w.sock)) \/ w.sock.rst
<1>2. e \in BOOLEAN  BY <1>1 DEF Readable, Socks
<1>3. v = [w EXCEPT !.sock.mask = mask, !.sock.edge = e]  BY DEF CheckEpollState
<1> HIDE DEF e
<1>4. /\ v.conn = w.conn /\ v.log = w.log
      /\ v.sock = [w.sock EXCEPT !.mask = mask, !.edge = e]
      /\ v = [conn |-> v.conn, sock |-> v.sock, log |-> v.log]
  BY <1>1, <1>3 DEF Worlds
<1>5. /\ v.sock \in Socks /\ v.sock.mask = mask
      /\ v.sock.sent = w.sock.sent /\ v.sock.got = w.sock.got
      /\ v.sock.fin = w.sock.fin /\ v.sock.rst = w.sock.rst
  BY <1>1, <1>2, <1>4 DEF Socks
<1> QED  BY <1>1, <1>4, <1>5, WorldParts

\* What an open connection has written is the beginning of the answer.
LEMMA PrefixKeepsPromises ==
  ASSUME NEW l \in Logs, l.ended = "no", Clean(l) => l.asked \in {<<>>, <<TRUE>>},
         Len(l.asked) <= 1 /\ ~ l.stale =>
           \E k \in 0 .. Length : l.out = SubSeq(Whole, 1, k)
  PROVE  PromisesOK(l)
<1>1. ASSUME Len(l.asked) <= 1 /\ ~ l.stale
      PROVE  Len(l.out) <= Length /\ l.out = SubSeq(Whole, 1, Len(l.out))
  <2>1. PICK k \in 0 .. Length : l.out = SubSeq(Whole, 1, k)  BY <1>1
  <2>2. Len(l.out) = k  BY <2>1, Prefix
  <2> QED  BY <2>1, <2>2, HttpAssumption
<1> QED  BY <1>1 DEF PromisesOK

\* What may be written: the rest of the answer to the only request so far.  After
\* old events or a second request nothing is promised.
Answering(w, n) ==
    /\ ObjectOK(w) /\ PromisesOK(w.log) /\ w.conn.open /\ w.conn.buf # "none"
    /\ ~ w.log.stale =>
         /\ w.log.asked # <<>>
         /\ Len(w.log.asked) = 1 =>
              /\ n = 0 /\ w.conn.buf = "answer" /\ w.conn.size = Length
              /\ w.log.out = SubSeq(Whole, 1, w.conn.offset)
    /\ Clean(w.log) => w.sock.got = Length /\ w.log.asked = <<TRUE>>

LEMMA WrittenAnswer ==
  ASSUME NEW w, NEW n, Answering(w, n), NEW k \in 0 .. w.conn.size - w.conn.offset,
         NEW v, v = Written(w, k)
  PROVE  /\ Answering(v, n) /\ SameStory(w.log, v.log)
         /\ v.conn.size = w.conn.size /\ v.conn.offset = w.conn.offset + k
<1>1. w \in Worlds /\ ObjectOK(w) /\ w.conn.open /\ w.log.ended = "no"
  BY DEF Answering, ObjectOK
<1>2. k \in Nat /\ w.conn.offset + k <= w.conn.size /\ w.conn.offset + k \in Nat
  BY <1>1, WorldFields
<1>3. /\ v \in Worlds /\ v.sock = w.sock
      /\ v.conn = [w.conn EXCEPT !.offset = w.conn.offset + k]
      /\ v.log = [w.log EXCEPT !.out = v.log.out]
      /\ w.conn.buf = "answer" /\ w.conn.size = Length
         /\ w.log.out = SubSeq(Whole, 1, w.conn.offset)
           => v.log.out = SubSeq(Whole, 1, v.conn.offset)
  BY <1>1, <1>2, WrittenWorld
<1>4. /\ v.conn.open = w.conn.open /\ v.conn.destroy = w.conn.destroy
      /\ v.conn.buf = w.conn.buf /\ v.conn.size = w.conn.size
      /\ v.conn.offset = w.conn.offset + k
  BY <1>1, <1>2, <1>3, WorldFields DEF Conns
<1>5. SameStory(w.log, v.log) /\ v.log.ended = w.log.ended
  BY <1>1, <1>3, WorldFields DEF SameStory, Logs
<1>6. ObjectOK(v)
  BY <1>1, <1>2, <1>3, <1>4, <1>5 DEF Answering, ObjectOK, SameStory
<1>7. ~ v.log.stale /\ Len(v.log.asked) = 1 =>
        /\ n = 0 /\ v.conn.buf = "answer" /\ v.conn.size = Length
        /\ v.log.out = SubSeq(Whole, 1, v.conn.offset)
  BY <1>3, <1>4, <1>5 DEF Answering, SameStory
<1>8. PromisesOK(v.log)
  <2>1. v.log \in Logs /\ v.log.ended = "no"  BY <1>1, <1>3, <1>5, WorldFields
  <2>2. Clean(v.log) => v.log.asked \in {<<>>, <<TRUE>>}
    BY <1>5 DEF Answering, Clean, SameStory
  <2>3. ASSUME Len(v.log.asked) <= 1, ~ v.log.stale
        PROVE  \E i \in 0 .. Length : v.log.out = SubSeq(Whole, 1, i)
    <3>1. Len(v.log.asked) = 1
      <4>1. v.log.asked # <<>>  BY <1>5, <2>3 DEF Answering, SameStory
      <4>2. v.log.asked \in Seq(BOOLEAN)  BY <1>3, WorldFields
      <4> QED  BY <2>3, <4>1, <4>2, OneRequest
    <3>2. v.conn.offset \in 0 .. Length /\ v.log.out = SubSeq(Whole, 1, v.conn.offset)
      BY <1>1, <1>2, <1>4, <1>7, <2>3, <3>1
    <3> QED  BY <3>2
  <2> QED  BY <2>1, <2>2, <2>3, PrefixKeepsPromises
<1> QED
  BY <1>3, <1>4, <1>5, <1>6, <1>7, <1>8 DEF Answering, SameStory, Clean

\* epollOut: all, a part or nothing is written.
LEMMA EpollOutKeeps ==
  ASSUME NEW w, NEW n, Answering(w, n), NEW v \in EpollOut(w), NEW p
  PROVE  WorldOK(v, n, p) /\ SameStory(w.log, v.log)
<1>1. w \in Worlds /\ ObjectOK(w) /\ PromisesOK(w.log) /\ w.conn.open
  BY DEF Answering, ObjectOK
<1> DEFINE left == w.conn.size - w.conn.offset
<1>2. left \in Nat /\ left \in 0 .. left /\ w.conn.offset + left = w.conn.size
  BY <1>1, WorldFields DEF ObjectOK
<1>3. CASE w.sock.rst
  <2>1. v = Remove(w, "closed")  BY <1>3 DEF EpollOut
  <2>2. ~ Clean(w.log)  BY <1>1, <1>3 DEF ObjectOK, Clean
  <2> QED  BY <1>1, <2>1, <2>2, RemoveKeeps
<1>4. CASE v = Remove(Written(w, left), "closed")
  <2> DEFINE x == Written(w, left)
  <2>1. /\ Answering(x, n) /\ SameStory(w.log, x.log)
        /\ x.conn.size = w.conn.size /\ x.conn.offset = w.conn.offset + left
    BY <1>2, WrittenAnswer
  <2> HIDE DEF x
  <2>2. Clean(x.log) => x.log.out = Whole
    <3>1. Clean(x.log) => ~ x.log.stale /\ Len(x.log.asked) = 1
      BY <2>1, WorldParts DEF Answering, Clean
    <3>2. Clean(x.log) => x.log.out = SubSeq(Whole, 1, Length)
      BY <1>2, <2>1, <3>1 DEF Answering
    <3> QED  BY <3>2, WholeIsPrefix
  <2>3. ObjectOK(x) /\ PromisesOK(x.log)  BY <2>1 DEF Answering
  <2>4. v = Remove(x, "closed")  BY <1>4 DEF x
  <2>5. WorldOK(v, n, p) /\ SameStory(x.log, v.log)  BY <2>2, <2>3, <2>4, RemoveKeeps
  <2> QED  BY <2>1, <2>5 DEF SameStory
<1>5. CASE \E k \in 0 .. left - 1 : v = CheckRemove(CheckEpollState(Written(w, k), "out"))
  <2>1. PICK k \in 0 .. left - 1 : v = CheckRemove(CheckEpollState(Written(w, k), "out"))
    BY <1>5
  <2>2. PICK x : x = Written(w, k)  OBVIOUS
  <2>3. PICK y : y = CheckEpollState(x, "out")  OBVIOUS
  <2>4. k \in 0 .. left  BY <1>2
  <2>5. Answering(x, n) /\ SameStory(w.log, x.log)  BY <2>2, <2>4, WrittenAnswer
  <2>6. x \in Worlds  BY <2>5 DEF Answering, ObjectOK
  <2>7. /\ y \in Worlds /\ y.conn = x.conn /\ y.log = x.log
        /\ y.sock.mask = "out"
        /\ y.sock.sent = x.sock.sent /\ y.sock.got = x.sock.got
        /\ y.sock.fin = x.sock.fin /\ y.sock.rst = x.sock.rst
    BY <2>3, <2>6, CheckEpollWorld
  <2>8. WorldOK(y, n, p)
    <3>1. ObjectOK(y)  BY <2>5, <2>7 DEF Answering, ObjectOK
    <3>2. PromisesOK(y.log)  BY <2>5, <2>7 DEF Answering
    <3>3. AnswerOK(y, n)  BY <2>5, <2>7 DEF Answering, AnswerOK
    <3>4. RequestOK(y, p)  BY <2>5, <2>7 DEF Answering, RequestOK
    <3> QED  BY <3>1, <3>2, <3>3, <3>4 DEF WorldOK
  <2>9. WorldOK(v, n, p) /\ SameStory(y.log, v.log)
    BY <2>1, <2>2, <2>3, <2>8, CheckRemoveKeeps
  <2> QED  BY <2>5, <2>7, <2>9 DEF SameStory
<1> QED  BY <1>3, <1>4, <1>5 DEF EpollOut

\* responseRequest, for a request that has no answer yet
LEMMA RespondKeeps ==
  ASSUME NEW w, ObjectOK(w), PromisesOK(w.log), w.conn.open, NEW n,
         ~ w.log.stale => /\ w.log.asked # <<>>
                          /\ Len(w.log.asked) = 1 => n = 0 /\ w.log.out = <<>>,
         Clean(w.log) => w.sock.got = Length /\ w.log.asked = <<TRUE>>,
         NEW v \in Respond(w), NEW p
  PROVE  WorldOK(v, n, p) /\ SameStory(w.log, v.log)
<1>1. w \in Worlds  BY DEF ObjectOK
<1>2. w.conn \in Conns /\ w.sock \in Socks /\ w.log \in Logs /\ Length \in Nat
  BY <1>1, WorldFields
<1>3. PICK x : x = [w EXCEPT !.conn.buf = "answer", !.conn.size = Length, !.conn.offset = 0]
  OBVIOUS
<1>4. /\ x.sock = w.sock /\ x.log = w.log
      /\ x.conn = [w.conn EXCEPT !.buf = "answer", !.size = Length, !.offset = 0]
      /\ x = [conn |-> x.conn, sock |-> x.sock, log |-> x.log]
  BY <1>1, <1>2, <1>3 DEF Worlds
<1>5. /\ x.conn \in Conns /\ x.conn.open /\ x.conn.destroy = w.conn.destroy
      /\ x.conn.buf = "answer" /\ x.conn.size = Length /\ x.conn.offset = 0
  <2>1. PICK c \in Conns : c = w.conn  BY <1>2
  <2>2. PICK d : d = [c EXCEPT !.buf = "answer", !.size = Length, !.offset = 0]  OBVIOUS
  <2>3. /\ d \in Conns /\ d.open = c.open /\ d.destroy = c.destroy
        /\ d.buf = "answer" /\ d.size = Length /\ d.offset = 0
    BY <1>2, <2>2 DEF Conns
  <2>4. x.conn = d  BY <1>4, <2>1, <2>2
  <2> QED  BY <2>1, <2>3, <2>4
<1>6. x \in Worlds  BY <1>2, <1>4, <1>5, WorldParts
<1>7. ObjectOK(x)  BY <1>2, <1>4, <1>5, <1>6 DEF ObjectOK
<1>8. Answering(x, n)
  BY <1>4, <1>5, <1>7, WholeIsPrefix DEF Answering
<1>9. v \in EpollOut(x)  BY <1>3 DEF Respond
<1>10. WorldOK(v, n, p) /\ SameStory(x.log, v.log)  BY <1>8, <1>9, EpollOutKeeps
<1> QED  BY <1>4, <1>10

\* epoll is asked for what comes, when nothing waits to be written.
LEMMA ListenKeeps ==
  ASSUME NEW w, NEW n, NEW p, WorldOK(w, n, p), w.conn.open,
         ~ w.log.stale => w.sock.mask # "out",
         NEW v, v = CheckEpollState(w, "in")
  PROVE  WorldOK(v, n, p) /\ v.log = w.log
<1>1. w \in Worlds /\ ObjectOK(w)  BY DEF WorldOK, ObjectOK
<1>2. /\ v \in Worlds /\ v.conn = w.conn /\ v.log = w.log
      /\ v.sock.mask = "in"
      /\ v.sock.sent = w.sock.sent /\ v.sock.got = w.sock.got
      /\ v.sock.fin = w.sock.fin /\ v.sock.rst = w.sock.rst
  BY <1>1, CheckEpollWorld
<1>3. ObjectOK(v)  BY <1>1, <1>2 DEF ObjectOK
<1>4. PromisesOK(v.log)  BY <1>2 DEF WorldOK
<1>5. AnswerOK(v, n)  BY <1>2 DEF WorldOK, AnswerOK
<1>6. RequestOK(v, p)  BY <1>2 DEF WorldOK, RequestOK
<1> QED  BY <1>2, <1>3, <1>4, <1>5, <1>6 DEF WorldOK

-----------------------------------------------------------------------------
(***************************************************************************)
(* The invariant, for a world that the step comes to.                      *)
(***************************************************************************)

Events == [set : SUBSET {"in", "out", "err"}, fresh : BOOLEAN]

Holds(w, n, p, o, q, a, e) ==
    /\ WorldOK(w, n, p)
    /\ ThreadOK(w, q, a, e)
    /\ p \in Parsers
    /\ o \in 0 .. MaxOpened
    /\ q \in {"wait", "batch", "read", "crashed"}
    /\ a \in {"wait", "batch", "check"}
    /\ e \in Events
    /\ n \in Nat

LEMMA NowHolds ==
  ASSUME IInv
  PROVE  /\ Holds(Now, owed, parser, opened, pc, after, event)
         /\ Now.conn = conn /\ Now.sock = sock /\ Now.log = log
BY DEF IInv, Holds, Now, Parsers, Events

LEMMA ThenHolds ==
  ASSUME NEW w, Becomes(w), Holds(w, owed', parser', opened', pc', after', event')
  PROVE  IInv'
<1>1. w \in Worlds  BY DEF Holds, WorldOK, ObjectOK
<1>2. [conn |-> conn', sock |-> sock', log |-> log'] = w
  BY <1>1 DEF Becomes, Worlds
<1>3. Now' = w  BY <1>2 DEF Now
<1>4. WorldOK(w, owed', parser') /\ ThreadOK(w, pc', after', event')  BY DEF Holds
<1>5. WorldOK(Now, owed, parser)' /\ ThreadOK(Now, pc, after, event)'
  BY <1>3, <1>4
<1> QED  BY <1>5 DEF IInv, Holds, Parsers, Events

\* epollIn returns.
LEMMA ReturnKeeps ==
  ASSUME NEW w, NEW n, NEW p, WorldOK(w, n, p), NEW result \in {-1, 0, 2},
         result < 0 /\ w.conn.open => ~ Clean(w.log),
         result > 0 => w.conn.open /\ (~ w.log.stale => w.sock.mask # "out"),
         after = "check" => ~ Clean(w.log),
         Return(w, result)
  PROVE  /\ \E v : Becomes(v) /\ WorldOK(v, n, p)
         /\ UNCHANGED after
         /\ pc' \in {"wait", "batch"} /\ (pc' = "batch" => after = "batch")
<1> DEFINE last == CASE result < 0 -> Remove(w, "closed")
                     [] result > 0 -> CheckRemove(CheckEpollState(w, "in"))
                     [] result = 0 -> CheckRemove(w)
<1>1. ObjectOK(w) /\ PromisesOK(w.log)  BY DEF WorldOK
<1>2. WorldOK(last, n, p) /\ SameStory(w.log, last.log)
  <2>1. CASE result = -1
    <3>1. last = Remove(w, "closed")  BY <2>1
    <3> HIDE DEF last
    <3>2. w.conn.open => ~ Clean(w.log)  BY <2>1
    <3> QED  BY <1>1, <3>1, <3>2, RemoveKeeps
  <2>2. CASE result = 0
    <3>1. last = CheckRemove(w)  BY <2>2
    <3> HIDE DEF last
    <3> QED  BY <3>1, CheckRemoveKeeps
  <2>3. CASE result = 2
    <3>1. last = CheckRemove(CheckEpollState(w, "in"))  BY <2>3
    <3> HIDE DEF last
    <3>2. PICK x : x = CheckEpollState(w, "in")  OBVIOUS
    <3>3. w.conn.open /\ (~ w.log.stale => w.sock.mask # "out")  BY <2>3
    <3>4. WorldOK(x, n, p) /\ x.log = w.log  BY <3>2, <3>3, ListenKeeps
    <3>5. last = CheckRemove(x)  BY <3>1, <3>2
    <3>6. WorldOK(last, n, p) /\ SameStory(x.log, last.log)
      BY <3>4, <3>5, CheckRemoveKeeps
    <3> QED  BY <3>4, <3>6
  <2> QED  BY <2>1, <2>2, <2>3
<1>3. /\ Becomes(IF after = "check" THEN Remove(last, "closed") ELSE last)
      /\ pc' = IF after = "batch" THEN "batch" ELSE "wait"
      /\ UNCHANGED after
  BY DEF Return
<1> HIDE DEF last
<1>4. \E v : Becomes(v) /\ WorldOK(v, n, p)
  <2>1. CASE after = "check"
    <3>1. PICK v : v = Remove(last, "closed")  OBVIOUS
    <3>2. ~ Clean(last.log)  BY <1>2, <2>1 DEF SameStory, Clean
    <3>3. ObjectOK(last) /\ PromisesOK(last.log)  BY <1>2 DEF WorldOK
    <3>4. WorldOK(v, n, p)  BY <3>1, <3>2, <3>3, RemoveKeeps
    <3> QED  BY <1>3, <2>1, <3>1, <3>4
  <2>2. CASE after # "check"  BY <1>2, <1>3, <2>2
  <2> QED  BY <2>1, <2>2
<1> QED  BY <1>3, <1>4

-----------------------------------------------------------------------------
(***************************************************************************)
(* epollIn                                                                 *)
(***************************************************************************)

\* What the loop of epollIn has in its hands.  A request in one piece comes whole to
\* the parser, and for the first time.
Reading(w, n, p) ==
    /\ ObjectOK(w) /\ PromisesOK(w.log) /\ AnswerOK(w, n)
    /\ w.conn.open
    /\ ~ w.log.stale => w.sock.mask # "out"
    /\ Clean(w.log) /\ w.conn.buf # "none" =>
         /\ w.sock.got = Length /\ w.log.asked = <<>> /\ p = Begin
         /\ w.conn.buf = "request" /\ w.conn.size = Length /\ w.conn.offset = 0

\* readSocket gives n units.
LEMMA ReadWorld ==
  ASSUME NEW u, NEW m, NEW p, WorldOK(u, m, p), u.conn.open,
         ~ u.log.stale => u.sock.mask # "out",
         Clean(u.log) => u.sock.got = 0,
         NEW n \in 0 .. u.sock.sent - u.sock.got, n # 0,
         NEW w, w = Received(u, n)
  PROVE  /\ Reading(w, m, p) /\ w.conn.buf # "none"
         /\ w.log.gone = u.log.gone /\ w.log.stale = u.log.stale
<1>1. u \in Worlds /\ ObjectOK(u)  BY DEF WorldOK, ObjectOK
<1>2. /\ u.conn \in Conns /\ u.sock \in Socks /\ u.log \in Logs
      /\ u.sock.sent \in Nat /\ u.sock.got \in Nat /\ u.sock.sent <= Length
      /\ u.conn.size \in Nat /\ Length \in Nat \ {0} /\ u.log.split \in BOOLEAN
      /\ n \in Nat \ {0} /\ u.sock.got + n <= u.sock.sent
  BY <1>1, WorldFields DEF Logs
<1> DEFINE buf == IF u.conn.buf = "none" THEN "request" ELSE u.conn.buf
           split == u.log.split \/ n < Length
<1>3. /\ w.conn = [u.conn EXCEPT !.buf = buf, !.offset = u.conn.size, !.size = u.conn.size + n]
      /\ w.sock = [u.sock EXCEPT !.got = u.sock.got + n]
      /\ w.log = [u.log EXCEPT !.split = split]
      /\ w = [conn |-> w.conn, sock |-> w.sock, log |-> w.log]
  BY <1>1, <1>2 DEF Received, Worlds, Conns, Socks, Logs
<1>4. buf \in {"request", "answer"} /\ split \in BOOLEAN
  BY <1>2 DEF Conns
<1> HIDE DEF buf, split
<1>5. /\ w.conn \in Conns /\ w.conn.open /\ w.conn.destroy = u.conn.destroy
      /\ w.conn.buf = buf /\ w.conn.offset = u.conn.size /\ w.conn.size = u.conn.size + n
  <2>1. PICK c \in Conns : c = u.conn  BY <1>2
  <2>2. PICK i \in Nat, k \in Nat, b \in {"request", "answer"} :
          i = u.conn.size /\ k = u.conn.size + n /\ b = buf
    BY <1>2, <1>4
  <2>3. PICK d : d = [c EXCEPT !.buf = b, !.offset = i, !.size = k]  OBVIOUS
  <2>4. /\ d \in Conns /\ d.open = c.open /\ d.destroy = c.destroy
        /\ d.buf = b /\ d.offset = i /\ d.size = k
    BY <2>3 DEF Conns
  <2>5. w.conn = d  BY <1>3, <2>1, <2>2, <2>3
  <2> QED  BY <2>1, <2>2, <2>4, <2>5
<1>6. /\ w.sock \in Socks /\ w.sock.got = u.sock.got + n /\ w.sock.sent = u.sock.sent
      /\ w.sock.mask = u.sock.mask /\ w.sock.fin = u.sock.fin /\ w.sock.rst = u.sock.rst
  <2>1. PICK s \in Socks : s = u.sock  BY <1>2
  <2>2. u.sock.got + n \in 0 .. Length  BY <1>2
  <2>3. PICK t : t = [s EXCEPT !.got = u.sock.got + n]  OBVIOUS
  <2>4. /\ t \in Socks /\ t.got = u.sock.got + n /\ t.sent = s.sent
        /\ t.mask = s.mask /\ t.fin = s.fin /\ t.rst = s.rst
    BY <2>2, <2>3 DEF Socks
  <2>5. w.sock = t  BY <1>3, <2>1, <2>3
  <2> QED  BY <2>1, <2>4, <2>5
<1>7. /\ w.log \in Logs /\ w.log.split = split
      /\ w.log.asked = u.log.asked /\ w.log.out = u.log.out /\ w.log.ended = u.log.ended
      /\ w.log.gone = u.log.gone /\ w.log.stale = u.log.stale
  BY <1>2, <1>3, <1>4 DEF Logs
<1>8. ObjectOK(w)
  <2>1. w \in Worlds  BY <1>3, <1>5, <1>6, <1>7, WorldParts
  <2> QED
    BY <1>1, <1>2, <1>4, <1>5, <1>6, <1>7, <2>1 DEF ObjectOK, buf
<1>9. Clean(w.log) => Clean(u.log) /\ n >= Length
  <2>1. ~ split => ~ u.log.split /\ ~ n < Length  BY DEF split
  <2>2. ~ n < Length => n >= Length  BY <1>2
  <2> QED  BY <1>7, <2>1, <2>2 DEF Clean
<1>10. PromisesOK(w.log)
  BY <1>7, <1>9 DEF WorldOK, PromisesOK
<1>11. AnswerOK(w, m)
  BY <1>7, <1>6 DEF WorldOK, AnswerOK
<1>12. ASSUME Clean(w.log)
       PROVE  /\ w.sock.got = Length /\ w.log.asked = <<>> /\ p = Begin
              /\ w.conn.buf = "request" /\ w.conn.size = Length /\ w.conn.offset = 0
  <2>1. u.sock.got = 0 /\ n = Length  BY <1>2, <1>9, <1>12
  <2>2. u.log.asked = <<>> /\ u.conn.buf = "none" /\ p = Begin
    BY <1>2, <1>9, <1>12, <2>1 DEF WorldOK, RequestOK
  <2>3. u.conn.size = 0  BY <1>1, <2>2 DEF ObjectOK
  <2> QED  BY <1>2, <1>5, <1>6, <1>7, <2>1, <2>2, <2>3 DEF buf
<1>13. w.conn.buf # "none"  BY <1>4, <1>5
<1> QED
  BY <1>5, <1>6, <1>7, <1>8, <1>10, <1>11, <1>12, <1>13 DEF Reading

LEMMA EmptyRead ==
  ASSUME NEW w, NEW m, NEW p, WorldOK(w, m, p), w.conn.open,
         ~ w.log.stale => w.sock.mask # "out",
         Clean(w.log) => w.sock.got = 0
  PROVE  Reading(w, m, p) /\ (Clean(w.log) => w.conn.buf = "none")
<1>1. Length # 0  BY HttpAssumption
<1>2. Clean(w.log) => w.conn.buf = "none"  BY <1>1 DEF WorldOK, RequestOK
<1> QED  BY <1>2 DEF Reading, WorldOK

\* A parser that wants unit n
LEMMA Beginning ==
  ASSUME NEW n \in 0 .. Length
  PROVE  [Begin EXCEPT !.next = n] \in Parsers /\ ~ [Begin EXCEPT !.next = n].broken
BY DEF Begin, Parsers

\* http_parser_execute
LEMMA ParseResult ==
  ASSUME NEW w, NEW m, Reading(w, m, parser), parser \in Parsers, w.conn.buf # "none",
         NEW r \in Parse(w.conn)
  PROVE  /\ r.parser \in Parsers
         /\ Clean(w.log) => r.says = "end" /\ ~ r.parser.broken
<1>1. /\ w \in Worlds /\ ObjectOK(w)
      /\ w.conn.size \in Nat /\ w.sock.got \in 0 .. Length /\ Length \in Nat \ {0}
  BY WorldFields DEF Reading, ObjectOK
<1>2. Begin.next = 1 /\ ~ Begin.broken /\ Begin \in Parsers  BY WorldParts DEF Begin
<1>3. CASE parser.next = 0
  <2>1. r = [says |-> "error", parser |-> parser]  BY <1>3 DEF Parse
  <2>2. ~ Clean(w.log)  BY <1>2, <1>3 DEF Reading
  <2> QED  BY <2>1, <2>2
<1>4. CASE parser.next # 0 /\ w.conn.buf = "request"
             /\ w.conn.offset + 1 = parser.next /\ ~ parser.broken
  <2>1. CASE w.conn.size = Length
    <3>1. PICK n \in {0, 1} : r = [says |-> "end", parser |-> [Begin EXCEPT !.next = n]]
      BY <1>4, <2>1 DEF Parse
    <3>2. [Begin EXCEPT !.next = n] \in Parsers /\ ~ [Begin EXCEPT !.next = n].broken
      <4>1. n \in 0 .. Length  BY <1>1
      <4> QED  BY <4>1, Beginning
    <3> QED  BY <3>1, <3>2
  <2>2. CASE w.conn.size # Length
    <3>1. r = [says |-> "more", parser |-> [Begin EXCEPT !.next = w.conn.size + 1]]
      BY <1>4, <2>2 DEF Parse
    <3>2. w.conn.size + 1 \in 0 .. Length  BY <1>1, <1>4, <2>2 DEF ObjectOK
    <3>3. [Begin EXCEPT !.next = w.conn.size + 1] \in Parsers  BY <3>2, Beginning
    <3>4. ~ Clean(w.log)  BY <2>2, <1>4 DEF Reading
    <3> QED  BY <3>1, <3>3, <3>4
  <2> QED  BY <2>1, <2>2
<1>5. CASE parser.next # 0 /\ ~ (w.conn.buf = "request"
             /\ w.conn.offset + 1 = parser.next /\ ~ parser.broken)
  <2>1. PICK s \in {"error", "more", "end"} :
          r = [says |-> s, parser |-> [parser EXCEPT !.broken = TRUE]]
    BY <1>5 DEF Parse
  <2>2. [parser EXCEPT !.broken = TRUE] \in Parsers  BY DEF Parsers
  <2>3. ~ Clean(w.log)  BY <1>2, <1>5 DEF Reading
  <2> QED  BY <2>1, <2>2, <2>3
<1> QED  BY <1>3, <1>4, <1>5

\* A request that is about to be given to its receiver, with m answers owed for
\* those before it
Asked(x, m) ==
    /\ ObjectOK(x) /\ PromisesOK(x.log) /\ x.conn.open
    /\ ~ x.log.stale => /\ x.log.asked # <<>> /\ x.sock.mask # "out"
                        /\ Len(x.log.asked) = 1 => m = 0 /\ x.log.out = <<>>
    /\ Clean(x.log) => x.sock.got = Length /\ x.log.asked = <<TRUE>>

LEMMA TakenWorld ==
  ASSUME NEW w, NEW m, NEW p, Reading(w, m, p), w.conn.buf # "none",
         NEW how \in BOOLEAN, Clean(w.log) => how = TRUE,
         NEW x, x = Taken(w, how)
  PROVE  /\ Asked(x, m)
         /\ x.log.gone = w.log.gone /\ x.log.stale = w.log.stale
<1>1. w \in Worlds /\ ObjectOK(w) /\ w.conn.open  BY DEF Reading, ObjectOK
<1>2. /\ w.conn \in Conns /\ w.sock \in Socks /\ w.log \in Logs
      /\ w.log.asked \in Seq(BOOLEAN) /\ w.conn.size \in Nat
  BY <1>1, WorldFields
<1> DEFINE s == Append(w.log.asked, how)
<1>3. s \in Seq(BOOLEAN) /\ s # <<>> /\ Len(s) = Len(w.log.asked) + 1
  BY <1>2, AppendProperties
<1>4. /\ x.sock = w.sock
      /\ x.conn = [w.conn EXCEPT !.offset = 0]
      /\ x.log = [w.log EXCEPT !.asked = s]
      /\ x = [conn |-> x.conn, sock |-> x.sock, log |-> x.log]
  BY <1>1, <1>2 DEF Taken, Worlds, Logs
<1> HIDE DEF s
<1>5. /\ x.conn \in Conns /\ x.conn.open /\ x.conn.destroy = w.conn.destroy
      /\ x.conn.buf = w.conn.buf /\ x.conn.size = w.conn.size /\ x.conn.offset = 0
  <2>1. PICK c \in Conns : c = w.conn  BY <1>2
  <2>2. PICK d : d = [c EXCEPT !.offset = 0]  OBVIOUS
  <2>3. /\ d \in Conns /\ d.open = c.open /\ d.destroy = c.destroy
        /\ d.buf = c.buf /\ d.size = c.size /\ d.offset = 0
    BY <2>2 DEF Conns
  <2>4. x.conn = d  BY <1>4, <2>1, <2>2
  <2> QED  BY <1>1, <2>1, <2>3, <2>4
<1>6. /\ x.log \in Logs /\ x.log.asked = s /\ x.log.out = w.log.out
      /\ x.log.ended = w.log.ended /\ x.log.split = w.log.split
      /\ x.log.gone = w.log.gone /\ x.log.stale = w.log.stale
  BY <1>2, <1>3, <1>4 DEF Logs
<1>7. x \in Worlds  BY <1>2, <1>4, <1>5, <1>6, WorldParts
<1>8. ObjectOK(x)  BY <1>1, <1>2, <1>4, <1>5, <1>6, <1>7 DEF ObjectOK
<1>9. ~ x.log.stale /\ Len(s) = 1 => m = 0 /\ x.log.out = <<>> /\ w.log.asked = <<>>
  <2>1. Len(w.log.asked) \in Nat /\ (Len(w.log.asked) = 0 <=> w.log.asked = <<>>)
    BY <1>1, WorldFields
  <2>2. \A k \in Nat : k + 1 = 1 => k = 0  OBVIOUS
  <2>3. Len(s) = 1 => w.log.asked = <<>>  BY <1>3, <2>1, <2>2
  <2> QED  BY <1>1, <1>6, <2>3 DEF Reading, AnswerOK
<1>10. Clean(x.log) => x.sock.got = Length /\ x.log.asked = <<TRUE>>
  <2>1. Clean(x.log) => Clean(w.log)  BY <1>6 DEF Clean
  <2>2. Append(<<>>, TRUE) = <<TRUE>>  OBVIOUS
  <2>3. Clean(w.log) => how = TRUE /\ w.log.asked = <<>> /\ w.sock.got = Length
    BY DEF Reading
  <2> QED  BY <1>4, <1>6, <2>1, <2>2, <2>3 DEF s
<1>11. PromisesOK(x.log)
  <2>1. x.log.ended = "no"  BY <1>1, <1>6 DEF ObjectOK
  <2>2. ASSUME Len(x.log.asked) <= 1, ~ x.log.stale
        PROVE  \E k \in 0 .. Length : x.log.out = SubSeq(Whole, 1, k)
    <3>1. Len(s) = 1  BY <1>3, <1>6, <2>2, OneRequest
    <3>2. x.log.out = SubSeq(Whole, 1, 0)  BY <1>9, <2>2, <3>1, WholeIsPrefix
    <3>3. 0 \in 0 .. Length  BY HttpAssumption
    <3> QED  BY <3>2, <3>3
  <2> QED  BY <1>6, <1>10, <2>1, <2>2, PrefixKeepsPromises
<1> QED
  BY <1>3, <1>4, <1>5, <1>6, <1>8, <1>9, <1>10, <1>11 DEF Reading, Asked

\* What a turn of the loop starts from
LEMMA AtRead ==
  ASSUME IInv, pc = "read"
  PROVE  /\ WorldOK(Now, owed, parser) /\ Now \in Worlds /\ Now.conn.open
         /\ after = "batch" => ~ event.fresh
         /\ after = "check" => log.gone \/ log.stale
         /\ ~ log.stale => sock.mask # "out"
         /\ Clean(log) => sock.got = 0
BY NowHolds DEF Holds, ThreadOK, WorldOK, ObjectOK

\* epollIn returns: the thread has no event of the object left, or an old one.
LEMMA ReturnStep ==
  ASSUME IInv, pc = "read", NEW w, WorldOK(w, owed', parser'), NEW result \in {-1, 0, 2},
         w.log.gone = log.gone, w.log.stale = log.stale,
         result < 0 /\ w.conn.open => ~ Clean(w.log),
         result > 0 => w.conn.open /\ (~ w.log.stale => w.sock.mask # "out"),
         Return(w, result), parser' \in Parsers, owed' \in Nat, UNCHANGED <<opened, event>>
  PROVE  IInv'
<1>1. after = "check" => ~ Clean(w.log)  BY AtRead DEF Clean
<1>2. PICK n, p : n = owed' /\ p = parser'  OBVIOUS
<1>3. /\ \E v : Becomes(v) /\ WorldOK(v, n, p)
      /\ UNCHANGED after
      /\ pc' \in {"wait", "batch"} /\ (pc' = "batch" => after = "batch")
  <2>1. WorldOK(w, n, p)  BY <1>2
  <2> QED  BY <1>1, <2>1, ReturnKeeps
<1>4. PICK v : Becomes(v) /\ WorldOK(v, n, p)  BY <1>3
<1>5. Holds(Now, owed, parser, opened, pc, after, event)  BY NowHolds
<1>6. ThreadOK(v, pc', after', event')
  BY <1>3, AtRead DEF ThreadOK
<1>7. Holds(v, owed', parser', opened', pc', after', event')
  BY <1>2, <1>3, <1>4, <1>5, <1>6 DEF Holds
<1> QED  BY <1>4, <1>7, ThenHolds

LEMMA ReceiveStep ==
  ASSUME IInv, pc = "read", NEW w, Reading(w, owed, parser), w.conn.buf # "none",
         w.log.gone = log.gone, w.log.stale = log.stale,
         NEW how \in BOOLEAN, Clean(w.log) => how = TRUE,
         Receive(w, how), parser' \in Parsers, UNCHANGED <<opened, event>>
  PROVE  IInv'
<1>0. owed \in Nat  BY NowHolds DEF Holds
<1>1. PICK x : x = Taken(w, how)  OBVIOUS
<1>2. Asked(x, owed) /\ x.log.gone = w.log.gone /\ x.log.stale = w.log.stale
  BY <1>1, TakenWorld, Zenon
<1>3. \/ \E answered \in Respond(x) : Return(answered, 0) /\ UNCHANGED owed
      \/ owed' = owed + 1 /\ Return(x, 0)
  BY <1>1 DEF Receive
<1>4. ASSUME NEW answered \in Respond(x), Return(answered, 0), UNCHANGED owed
      PROVE  IInv'
  <2>1. PICK n, p : n = owed' /\ p = parser'  OBVIOUS
  <2>2. WorldOK(answered, n, p) /\ SameStory(x.log, answered.log)
    <3>1. ~ x.log.stale => /\ x.log.asked # <<>>
                           /\ Len(x.log.asked) = 1 => n = 0 /\ x.log.out = <<>>
      BY <1>2, <1>4, <2>1 DEF Asked
    <3> QED  BY <1>2, <3>1, RespondKeeps DEF Asked
  <2>3. WorldOK(answered, owed', parser')  BY <2>1, <2>2
  <2>4. answered.log.gone = log.gone /\ answered.log.stale = log.stale
    BY <1>2, <2>2 DEF SameStory
  <2>5. owed' \in Nat  BY <1>0, <1>4
  <2> QED  BY <1>4, <2>3, <2>4, <2>5, ReturnStep
<1>5. ASSUME owed' = owed + 1, Return(x, 0)
      PROVE  IInv'
  <2>1. PICK n, p : n = owed' /\ p = parser'  OBVIOUS
  <2>2. AnswerOK(x, n)
    <3>1. ~ x.log.stale /\ Len(x.log.asked) = 1 => n = 1
      BY <1>0, <1>2, <1>5, <2>1 DEF Asked
    <3> QED  BY <1>2, <3>1 DEF AnswerOK, Asked
  <2>3. RequestOK(x, p)  BY <1>2 DEF RequestOK, Asked
  <2>4. WorldOK(x, owed', parser')  BY <1>2, <2>1, <2>2, <2>3 DEF WorldOK, Asked
  <2>5. owed' \in Nat  BY <1>0, <1>5
  <2>6. x.log.gone = log.gone /\ x.log.stale = log.stale  BY <1>2
  <2> QED  BY <1>5, <2>4, <2>5, <2>6, ReturnStep
<1> QED  BY <1>3, <1>4, <1>5

\* The loop of epollIn, turn by turn
LEMMA ReadSocketStep == ASSUME IInv, ReadSocket PROVE IInv'
<1> DEFINE result(n) == IF n > 0 THEN 0 ELSE IF sock.rst \/ sock.fin THEN -1 ELSE 2
           seen(n) == IF n = 0 THEN Now ELSE Received(Now, n)
<1>1. pc = "read" /\ UNCHANGED <<opened, event>>  BY DEF ReadSocket
<1>2. PICK n \in 0 .. sock.sent - sock.got :
        IF seen(n).conn.buf = "none"
        THEN Return(seen(n), result(n)) /\ UNCHANGED <<parser, owed>>
        ELSE \E r \in Parse(seen(n).conn) :
               /\ parser' = r.parser
               /\ \/ /\ r.says = "error"
                     /\ Return(seen(n), -1)
                     /\ UNCHANGED owed
                  \/ /\ r.says = "more"
                     /\ IF n > 0 THEN Becomes(seen(n)) /\ UNCHANGED <<pc, after>>
                        ELSE Return(seen(n), result(n))
                     /\ UNCHANGED owed
                  \/ /\ r.says = "end"
                     /\ Receive(seen(n), ~ r.parser.broken)
  BY DEF ReadSocket
<1>3. PICK w : w = seen(n)  OBVIOUS
<1>4. PICK y : y = result(n)  OBVIOUS
<1>5. /\ WorldOK(Now, owed, parser) /\ Now.conn.open
      /\ Now.sock = sock /\ Now.log = log
      /\ sock.sent \in Nat /\ sock.got \in Nat /\ n \in Nat
      /\ Holds(Now, owed, parser, opened, pc, after, event)
      /\ owed \in Nat /\ parser \in Parsers
  <2>1. Now \in Worlds /\ Now.sock = sock  BY <1>1, AtRead, NowHolds
  <2>2. sock.sent \in Nat /\ sock.got \in Nat  BY <2>1, WorldFields
  <2> QED  BY <1>1, <2>1, <2>2, AtRead, NowHolds DEF Holds
<1>6. /\ Reading(w, owed, parser) /\ w.log.gone = log.gone /\ w.log.stale = log.stale
      /\ n = 0 => w = Now /\ (Clean(w.log) => w.conn.buf = "none")
      /\ n # 0 => w.conn.buf # "none"
  <2>1. CASE n = 0
    <3>1. w = Now  BY <1>3, <2>1
    <3>2. Reading(Now, owed, parser) /\ (Clean(log) => Now.conn.buf = "none")
      BY <1>1, <1>5, AtRead, EmptyRead
    <3> QED  BY <1>5, <2>1, <3>1, <3>2
  <2>2. CASE n # 0
    <3>1. w = Received(Now, n)  BY <1>3, <2>2
    <3>2. n \in 0 .. Now.sock.sent - Now.sock.got  BY <1>5
    <3>3. /\ Reading(w, owed, parser) /\ w.conn.buf # "none"
          /\ w.log.gone = log.gone /\ w.log.stale = log.stale
      BY <1>1, <1>5, <2>2, <3>1, <3>2, AtRead, ReadWorld
    <3> QED  BY <2>2, <3>3
  <2> QED  BY <2>1, <2>2
<1>7. /\ y \in {-1, 0, 2} /\ (n = 0 => y \in {-1, 2})
      /\ y < 0 => n = 0 /\ ~ Clean(w.log)
      /\ w.conn.open /\ (~ w.log.stale => w.sock.mask # "out")
  <2>1. w.conn.open /\ (~ w.log.stale => w.sock.mask # "out")
    BY <1>6 DEF Reading
  <2>2. y \in {-1, 0, 2} /\ (n = 0 => y \in {-1, 2}) /\ (y < 0 => n = 0 /\ (sock.rst \/ sock.fin))
    BY <1>4, <1>5
  <2>3. sock.rst \/ sock.fin => log.gone
    BY <1>5 DEF WorldOK, ObjectOK
  <2> QED  BY <1>6, <2>1, <2>2, <2>3 DEF Clean
<1> HIDE DEF seen, result
<1>8. CASE w.conn.buf = "none"
  <2>1. n = 0 /\ w = Now /\ Return(w, y) /\ UNCHANGED <<parser, owed>>
    BY <1>2, <1>3, <1>4, <1>6, <1>8
  <2>2. WorldOK(w, owed', parser') /\ parser' \in Parsers /\ owed' \in Nat
    BY <1>5, <2>1
  <2> QED  BY <1>1, <1>6, <1>7, <2>1, <2>2, ReturnStep
<1>9. CASE w.conn.buf # "none"
  <2>1. PICK r \in Parse(w.conn) :
          /\ parser' = r.parser
          /\ \/ r.says = "error" /\ Return(w, -1) /\ UNCHANGED owed
             \/ r.says = "more" /\ n > 0 /\ Becomes(w) /\ UNCHANGED <<pc, after, owed>>
             \/ r.says = "more" /\ ~ n > 0 /\ Return(w, y) /\ UNCHANGED owed
             \/ r.says = "end" /\ Receive(w, ~ r.parser.broken)
    BY <1>2, <1>3, <1>4, <1>9
  <2>2. r.parser \in Parsers /\ (Clean(w.log) => r.says = "end" /\ ~ r.parser.broken)
    BY <1>5, <1>6, <1>9, ParseResult
  <2>3. ASSUME r.says # "end", UNCHANGED owed
        PROVE  ~ Clean(w.log) /\ WorldOK(w, owed', parser') /\ owed' \in Nat
    <3>1. ~ Clean(w.log)  BY <2>2, <2>3
    <3>2. RequestOK(w, r.parser)  BY <3>1 DEF RequestOK
    <3>3. WorldOK(w, owed, r.parser)  BY <1>6, <3>2 DEF WorldOK, Reading
    <3> QED  BY <1>5, <2>1, <2>3, <3>1, <3>3
  <2>4. CASE r.says = "error" /\ Return(w, -1) /\ UNCHANGED owed
    BY <1>1, <1>6, <2>1, <2>2, <2>3, <2>4, ReturnStep
  <2>5. CASE r.says = "more" /\ ~ n > 0 /\ Return(w, y) /\ UNCHANGED owed
    BY <1>1, <1>6, <1>7, <2>1, <2>2, <2>3, <2>5, ReturnStep
  <2>6. CASE r.says = "more" /\ n > 0 /\ Becomes(w) /\ UNCHANGED <<pc, after, owed>>
    <3>1. ~ Clean(w.log) /\ WorldOK(w, owed', parser')  BY <2>3, <2>6
    <3>2. ThreadOK(w, pc, after, event)
      BY <1>1, <1>6, <1>7, <3>1, AtRead DEF ThreadOK
    <3>3. Holds(w, owed', parser', opened', pc', after', event')
      BY <1>1, <1>5, <2>1, <2>2, <2>6, <3>1, <3>2 DEF Holds
    <3> QED  BY <2>6, <3>3, ThenHolds
  <2>7. CASE r.says = "end" /\ Receive(w, ~ r.parser.broken)
    <3>1. PICK how \in BOOLEAN : how = ~ r.parser.broken  BY <2>2 DEF Parsers
    <3>2. Clean(w.log) => how = TRUE  BY <2>2, <3>1
    <3>3. Receive(w, how)  BY <2>7, <3>1
    <3>4. parser' \in Parsers  BY <2>1, <2>2
    <3> QED  BY <1>1, <1>6, <1>9, <3>2, <3>3, <3>4, ReceiveStep
  <2> QED  BY <2>1, <2>4, <2>5, <2>6, <2>7
<1> QED  BY <1>8, <1>9

-----------------------------------------------------------------------------
(***************************************************************************)
(* The other steps of the thread, and those of the peer.                   *)
(***************************************************************************)

\* More comes to an open connection, or it has one more excuse.
LEMMA MoreComes ==
  ASSUME NEW u, NEW n, NEW p, WorldOK(u, n, p), u.conn.open,
         NEW s \in Socks, s.got = u.sock.got, s.mask = u.sock.mask, s.sent >= u.sock.sent,
         NEW l \in Logs, l.asked = u.log.asked, l.out = u.log.out,
         l.ended = u.log.ended, l.split = u.log.split,
         u.log.gone => l.gone, u.log.stale => l.stale,
         s.fin \/ s.rst => l.gone,
         NEW v, v = [conn |-> u.conn, sock |-> s, log |-> l]
  PROVE  WorldOK(v, n, p) /\ v.conn = u.conn /\ v.sock = s /\ v.log = l
<1>1. u \in Worlds /\ ObjectOK(u)  BY DEF WorldOK, ObjectOK
<1>2. v \in Worlds /\ v.conn = u.conn /\ v.sock = s /\ v.log = l
  BY <1>1, WorldFields, WorldParts
<1>3. s.sent \in Nat /\ s.got \in Nat /\ u.sock.sent \in Nat
  BY <1>1, WorldFields, HttpAssumption DEF Socks
<1>4. ObjectOK(v)  BY <1>1, <1>2, <1>3 DEF ObjectOK
<1>5. Clean(l) => Clean(u.log)  BY DEF Clean
<1>6. PromisesOK(v.log)  BY <1>2, <1>5 DEF WorldOK, PromisesOK
<1>7. AnswerOK(v, n)  BY <1>2 DEF WorldOK, AnswerOK
<1>8. RequestOK(v, p)  BY <1>2, <1>5 DEF WorldOK, RequestOK
<1> QED  BY <1>2, <1>4, <1>6, <1>7, <1>8 DEF WorldOK

\* What the invariant says of the variables
LEMMA AtAny ==
  ASSUME IInv
  PROVE  /\ WorldOK(Now, owed, parser) /\ ObjectOK(Now) /\ PromisesOK(log) /\ Now \in Worlds
         /\ Now.conn = conn /\ Now.sock = sock /\ Now.log = log
         /\ conn \in Conns /\ sock \in Socks /\ log \in Logs
         /\ ~ conn.open => conn.buf = "none" /\ conn.size = 0 /\ conn.offset = 0
                           /\ sock = NoSocket
         /\ conn.open => (sock.fin \/ sock.rst => log.gone)
         /\ parser \in Parsers /\ opened \in 0 .. MaxOpened /\ owed \in Nat /\ event \in Events
         /\ pc \in {"wait", "batch", "read", "crashed"} /\ after \in {"wait", "batch", "check"}
<1>1. /\ Holds(Now, owed, parser, opened, pc, after, event)
      /\ Now.conn = conn /\ Now.sock = sock /\ Now.log = log
  BY NowHolds
<1>2. WorldOK(Now, owed, parser) /\ ObjectOK(Now) /\ PromisesOK(log) /\ Now \in Worlds
  BY <1>1 DEF Holds, WorldOK, ObjectOK
<1>3. conn \in Conns /\ sock \in Socks /\ log \in Logs /\ conn.offset \in Nat
  BY <1>1, <1>2, WorldFields
<1>4. ~ conn.open => conn.buf = "none" /\ conn.size = 0 /\ conn.offset <= conn.size
                     /\ sock = NoSocket
  BY <1>1, <1>2 DEF ObjectOK
<1>5. ~ conn.open => conn.offset = 0  BY <1>3, <1>4
<1>6. conn.open => (sock.fin \/ sock.rst => log.gone)  BY <1>1, <1>2 DEF ObjectOK
<1> QED  BY <1>1, <1>2, <1>3, <1>4, <1>5, <1>6 DEF Holds

\* A socket that is not as it was at the beginning is that of a connection.
LEMMA SocketInUse ==
  ASSUME IInv, sock.edge \/ sock.mask # "none"
  PROVE  conn.open
BY AtAny DEF NoSocket

LEMMA PeerStep == ASSUME IInv, PeerSends \/ PeerLeaves \/ PeerReads PROVE IInv'
<1>1. conn.open  BY SocketInUse DEF PeerSends, PeerLeaves, PeerReads
<1>2. UNCHANGED <<conn, parser, opened, pc, after, event, owed>>
  BY DEF PeerSends, PeerLeaves, PeerReads
<1>3. PICK s, l : s = sock' /\ l = log'  OBVIOUS
<1>4. /\ s \in Socks /\ s.got = sock.got /\ s.mask = sock.mask /\ s.sent >= sock.sent
      /\ sock.fin => s.fin
      /\ sock.rst => s.rst
      /\ s.fin \/ s.rst => sock.fin \/ sock.rst \/ PeerLeaves
  <2>1. sock \in Socks /\ sock.sent \in Nat /\ Length \in Nat
    BY AtAny, WorldFields
  <2>2. CASE PeerSends
    <3>1. PICK sent \in sock.sent + 1 .. Length :
            s = [sock EXCEPT !.sent = sent, !.edge = sock.edge \/ sock.mask = "in"]
      BY <1>3, <2>2 DEF PeerSends
    <3>2. PICK b \in BOOLEAN : b = (sock.edge \/ sock.mask = "in")
      BY <2>1 DEF Socks
    <3>3. sent \in 0 .. Length /\ sent >= sock.sent  BY <2>1
    <3>4. s = [sock EXCEPT !.sent = sent, !.edge = b]  BY <3>1, <3>2
    <3> QED  BY <2>1, <3>3, <3>4 DEF Socks
  <2>3. CASE PeerLeaves
    <3>1. PICK b \in BOOLEAN : \/ s = [sock EXCEPT !.fin = TRUE, !.edge = b]
                               \/ s = [sock EXCEPT !.rst = TRUE, !.edge = b]
      BY <1>3, <2>1, <2>3 DEF PeerLeaves, Socks
    <3>2. /\ s \in Socks /\ s.got = sock.got /\ s.mask = sock.mask /\ s.sent = sock.sent
          /\ sock.fin => s.fin
          /\ sock.rst => s.rst
      BY <2>1, <3>1 DEF Socks
    <3>3. s.sent >= sock.sent  BY <2>1, <3>2
    <3> QED  BY <2>3, <3>2, <3>3
  <2>4. CASE PeerReads
    <3>1. s = [sock EXCEPT !.edge = TRUE]  BY <1>3, <2>4 DEF PeerReads
    <3>2. /\ s \in Socks /\ s.got = sock.got /\ s.mask = sock.mask /\ s.sent = sock.sent
          /\ s.fin = sock.fin /\ s.rst = sock.rst
      BY <2>1, <3>1 DEF Socks
    <3>3. s.sent >= sock.sent  BY <2>1, <3>2
    <3> QED  BY <3>2, <3>3
  <2> QED  BY <2>2, <2>3, <2>4
<1>5. /\ l \in Logs /\ l.asked = log.asked /\ l.out = log.out
      /\ l.ended = log.ended /\ l.split = log.split /\ l.stale = log.stale
      /\ log.gone => l.gone
      /\ PeerLeaves => l.gone
  <2>1. log \in Logs  BY AtAny
  <2>2. CASE PeerLeaves
    <3>1. l = [log EXCEPT !.gone = TRUE]  BY <1>3, <2>2 DEF PeerLeaves
    <3> QED  BY <2>1, <3>1 DEF Logs
  <2>3. CASE ~ PeerLeaves
    <3>1. l = log  BY <1>3, <2>3 DEF PeerSends, PeerReads
    <3> QED  BY <2>1, <2>3, <3>1
  <2> QED  BY <2>2, <2>3
<1>6. s.fin \/ s.rst => l.gone  BY <1>1, <1>4, <1>5, AtAny
<1>7. PICK v : v = [conn |-> conn, sock |-> s, log |-> l]  OBVIOUS
<1>8. WorldOK(v, owed, parser) /\ v.conn = conn /\ v.sock = s /\ v.log = l
  BY <1>1, <1>4, <1>5, <1>6, <1>7, AtAny, MoreComes
<1>9. ThreadOK(v, pc, after, event)
  <2>1. ThreadOK(Now, pc, after, event) /\ Now.conn = conn /\ Now.sock = sock /\ Now.log = log
    BY NowHolds DEF Holds
  <2>2. Clean(l) => Clean(log)  BY <1>5 DEF Clean
  <2>3. Readable(sock) => Readable(s)
    <3>1. sock.sent \in Nat /\ sock.got \in Nat /\ s.sent \in Nat
      BY <1>4, AtAny, HttpAssumption DEF Socks
    <3> QED  BY <1>4, <3>1 DEF Readable
  <2>4. pc = "batch" /\ event.fresh /\ "err" \in event.set => s.rst
    BY <1>4, <2>1 DEF ThreadOK
  <2> QED  BY <1>4, <1>5, <1>8, <2>1, <2>2, <2>3, <2>4 DEF ThreadOK
<1>10. Becomes(v)  BY <1>2, <1>3, <1>8 DEF Becomes
<1>11. Holds(v, owed', parser', opened', pc', after', event')
  BY <1>2, <1>8, <1>9, AtAny DEF Holds
<1> QED  BY <1>10, <1>11, ThenHolds

\* The events taken are true of the socket.
LEMMA WaitStep == ASSUME IInv, Wait PROVE IInv'
<1>1. conn.open /\ sock \in Socks /\ log \in Logs
  BY SocketInUse, AtAny DEF Wait
<1>2. UNCHANGED <<conn, log, parser, opened, after, owed>>  BY DEF Wait
<1>3. PICK s : s = sock'  OBVIOUS
<1>4. /\ s \in Socks /\ s.got = sock.got /\ s.mask = sock.mask /\ s.sent = sock.sent
      /\ s.fin = sock.fin /\ s.rst = sock.rst
  <2>1. s = [sock EXCEPT !.edge = FALSE]  BY <1>3 DEF Wait
  <2> QED  BY <1>1, <2>1 DEF Socks
<1>5. s.sent >= sock.sent  BY <1>1, <1>4, HttpAssumption DEF Socks
<1>6. PICK v : v = [conn |-> conn, sock |-> s, log |-> log]  OBVIOUS
<1>7. WorldOK(v, owed, parser) /\ v.conn = conn /\ v.sock = s /\ v.log = log
  BY <1>1, <1>4, <1>5, <1>6, AtAny, MoreComes
<1>8. /\ event' \in Events
      /\ "in" \in event'.set => sock.mask = "in" /\ Readable(sock)
      /\ "out" \in event'.set => sock.mask = "out"
      /\ "err" \in event'.set => sock.rst
  <2> DEFINE set == {e \in {"in", "out", "err"} :
                        \/ e = "in" /\ sock.mask = "in" /\ Readable(sock)
                        \/ e = "out" /\ sock.mask = "out"
                        \/ e = "err" /\ sock.rst}
  <2>1. event' = [set |-> set, fresh |-> TRUE]  BY DEF Wait
  <2> QED  BY <2>1 DEF Events
<1>9. pc' \in {"wait", "batch"}  BY DEF Wait
<1>10. ThreadOK(v, pc', after', event')
  BY <1>1, <1>4, <1>7, <1>8, <1>9 DEF ThreadOK, Readable
<1>11. Becomes(v)  BY <1>2, <1>3, <1>7 DEF Becomes
<1>12. Holds(v, owed', parser', opened', pc', after', event')
  BY <1>2, <1>7, <1>8, <1>9, <1>10, AtAny DEF Holds
<1> QED  BY <1>11, <1>12, ThenHolds

\* A task of the thread leaves the object as it may be between two steps, and the
\* events taken are old ones now.
LEMMA TaskStep ==
  ASSUME IInv, RunsTask, NEW v, Becomes(v), WorldOK(v, owed', parser'), owed' \in Nat,
         UNCHANGED <<parser, opened, pc, after>>
  PROVE  IInv'
<1>1. /\ pc \in {"wait", "batch"}
      /\ event' = [event EXCEPT !.fresh = pc = "wait"]
      /\ event \in Events
  BY AtAny DEF RunsTask
<1>2. event' \in Events /\ (pc = "batch" => ~ event'.fresh)
  <2>1. PICK b \in BOOLEAN : b = (pc = "wait")  OBVIOUS
  <2>2. event' = [event EXCEPT !.fresh = b]  BY <1>1, <2>1
  <2> QED  BY <1>1, <2>1, <2>2 DEF Events
<1>3. ThreadOK(v, pc', after', event')  BY <1>1, <1>2 DEF ThreadOK
<1>4. Holds(v, owed', parser', opened', pc', after', event')
  BY <1>2, <1>3, AtAny DEF Holds
<1> QED  BY <1>4, ThenHolds

LEMMA AnswerStep == ASSUME IInv, Answer PROVE IInv'
<1>1. /\ RunsTask /\ conn.open /\ owed \in Nat /\ owed > 0 /\ owed' = owed - 1
      /\ UNCHANGED <<parser, opened, pc, after>>
  BY AtAny DEF Answer
<1>2. PICK n, p : n = owed' /\ p = parser'  OBVIOUS
<1>3. PICK v \in Respond(Now) : Becomes(v)  BY DEF Answer
<1>4. n \in Nat /\ owed # 0 /\ (owed = 1 => n = 0)  BY <1>1, <1>2
<1>5. ~ log.stale => /\ log.asked # <<>>
                     /\ Len(log.asked) = 1 => n = 0 /\ log.out = <<>>
  BY <1>1, <1>4, AtAny DEF WorldOK, AnswerOK
<1>6. Clean(log) => sock.got = Length /\ log.asked = <<TRUE>>
  BY <1>1, <1>5, AtAny DEF WorldOK, RequestOK, Clean
<1>7. PICK u : u = Now  OBVIOUS
<1>8. /\ ObjectOK(u) /\ PromisesOK(u.log) /\ u.conn.open /\ v \in Respond(u)
      /\ u.log = log /\ u.sock = sock
  BY <1>1, <1>3, <1>7, AtAny
<1>9. WorldOK(v, n, p)  BY <1>5, <1>6, <1>8, RespondKeeps
<1> QED  BY <1>1, <1>2, <1>3, <1>4, <1>9, TaskStep

LEMMA CloseConnectStep == ASSUME IInv, CloseConnect PROVE IInv'
<1>1. PICK v : v = Remove(Now, "asked")  OBVIOUS
<1>2. WorldOK(v, owed, parser)  BY <1>1, AtAny, RemoveKeeps
<1> QED  BY <1>1, <1>2, AtAny, TaskStep DEF CloseConnect

LEMMA TimerCallbackStep == ASSUME IInv, TimerCallback PROVE IInv'
<1>1. PICK v : v = Remove(Now, "timeout")  OBVIOUS
<1>2. WorldOK(v, owed, parser)  BY <1>1, AtAny, RemoveKeeps
<1>3. pc = "wait" /\ Becomes(v) /\ UNCHANGED <<parser, opened, pc, after, event, owed>>
  BY <1>1 DEF TimerCallback
<1>4. ThreadOK(v, pc, after, event)  BY <1>3 DEF ThreadOK
<1>5. Holds(v, owed', parser', opened', pc', after', event')
  BY <1>2, <1>3, <1>4, AtAny DEF Holds
<1> QED  BY <1>3, <1>5, ThenHolds

\* A new connection: one that finds the state HTTP_STATE_DESTROY has met an old
\* event from the start.
LEMMA OpenHttpStep == ASSUME IInv, OpenHttp PROVE IInv'
<1>1. /\ RunsTask /\ ~ conn.open /\ opened' = opened + 1 /\ opened < MaxOpened
      /\ parser' = Begin /\ pc' = "read" /\ after' = pc /\ owed' = 0
  BY DEF OpenHttp
<1>2. /\ conn \in Conns /\ conn.buf = "none" /\ conn.size = 0 /\ conn.offset = 0
      /\ conn.destroy \in BOOLEAN
  BY <1>1, AtAny DEF Conns
<1>3. PICK c, s, l : c = conn' /\ s = sock' /\ l = log'  OBVIOUS
<1>4. /\ c \in Conns /\ c.open /\ c.destroy = conn.destroy
      /\ c.buf = "none" /\ c.size = 0 /\ c.offset = 0
  <2>1. c = [conn EXCEPT !.open = TRUE]  BY <1>3 DEF OpenHttp
  <2> QED  BY <1>2, <2>1 DEF Conns
<1>5. /\ s \in Socks /\ s.got = 0 /\ s.sent \in 0 .. Length
      /\ ~ s.fin /\ ~ s.rst /\ s.mask = "none"
  <2>1. PICK sent \in 0 .. Length : s = [NoSocket EXCEPT !.sent = sent]
    BY <1>3 DEF OpenHttp
  <2>2. NoSocket \in Socks /\ NoSocket.got = 0 /\ NoSocket.mask = "none"
        /\ ~ NoSocket.fin /\ ~ NoSocket.rst
    BY WorldParts
  <2> QED  BY <2>1, <2>2 DEF Socks
<1>6. /\ l \in Logs /\ l.asked = <<>> /\ l.out = <<>> /\ l.ended = "no"
      /\ l.stale = conn.destroy
  <2>1. l = [NoLog EXCEPT !.stale = conn.destroy]  BY <1>3 DEF OpenHttp
  <2>2. NoLog \in Logs /\ NoLog.asked = <<>> /\ NoLog.out = <<>> /\ NoLog.ended = "no"
    BY WorldParts DEF NoLog
  <2> QED  BY <1>2, <2>1, <2>2 DEF Logs
<1>7. PICK v : v = [conn |-> c, sock |-> s, log |-> l]  OBVIOUS
<1>8. v.conn = c /\ v.sock = s /\ v.log = l /\ v \in Worlds
  BY <1>4, <1>5, <1>6, <1>7, WorldParts
<1>9. WorldOK(v, 0, Begin)
  <2>1. ObjectOK(v)
    <3>1. s.got <= s.sent  BY <1>5, HttpAssumption
    <3> QED  BY <1>4, <1>5, <1>6, <1>8, <3>1 DEF ObjectOK
  <2>2. PromisesOK(l)
    <3>1. 0 \in 0 .. Length  BY HttpAssumption
    <3>2. l.out = SubSeq(Whole, 1, 0)  BY <1>6, WholeIsPrefix
    <3> QED  BY <1>6, <3>1, <3>2, PrefixKeepsPromises
  <2>3. AnswerOK(v, 0)
    <3>1. Len(<<>>) # 1  OBVIOUS
    <3> QED  BY <1>5, <1>6, <1>8, <3>1 DEF AnswerOK
  <2>4. RequestOK(v, Begin)  BY <1>4, <1>5, <1>6, <1>8 DEF RequestOK
  <2> QED  BY <1>8, <2>1, <2>2, <2>3, <2>4 DEF WorldOK
<1>10. event' \in Events /\ (pc = "batch" => ~ event'.fresh)
  <2>1. PICK b \in BOOLEAN : b = (pc = "wait")  OBVIOUS
  <2>2. event' = [event EXCEPT !.fresh = b]  BY <1>1, <2>1 DEF RunsTask
  <2> QED  BY <2>1, <2>2, AtAny DEF Events
<1>11. ThreadOK(v, "read", pc, event')
  BY <1>1, <1>4, <1>5, <1>8, <1>10 DEF ThreadOK, RunsTask
<1>12. opened' \in 0 .. MaxOpened
  <2>1. opened \in 0 .. MaxOpened /\ MaxOpened \in Nat  BY AtAny, HttpAssumption
  <2> QED  BY <1>1, <2>1
<1>13. Holds(v, owed', parser', opened', pc', after', event')
  BY <1>1, <1>9, <1>10, <1>11, <1>12, WorldParts DEF Holds, RunsTask
<1>14. Becomes(v)  BY <1>3, <1>8 DEF Becomes
<1> QED  BY <1>13, <1>14, ThenHolds

\* The event of the object: one taken for an earlier state of it is written down.
LEMMA EpollActiveStep == ASSUME IInv, EpollActive PROVE IInv'
<1>1. /\ pc = "batch" /\ event' = NoEvent /\ UNCHANGED <<parser, opened, owed>>
      /\ event \in Events /\ owed \in Nat /\ parser \in Parsers /\ opened \in 0 .. MaxOpened
      /\ after \in {"wait", "batch", "check"}
  BY AtAny DEF EpollActive
<1>2. NoEvent \in Events /\ NoEvent.set = {}  BY DEF NoEvent, Events
<1>3. PICK b \in BOOLEAN : b = (log.stale \/ (conn.open /\ ~ event.fresh))  OBVIOUS
<1>4. PICK l : l = [log EXCEPT !.stale = b]  OBVIOUS
<1>5. /\ l \in Logs /\ l.asked = log.asked /\ l.out = log.out
      /\ l.ended = log.ended /\ l.split = log.split /\ l.gone = log.gone /\ l.stale = b
  BY <1>3, <1>4, AtAny DEF Logs
<1>6. PICK w : w = [conn |-> conn, sock |-> sock, log |-> l]  OBVIOUS
<1>7. w = AtEvent  BY <1>3, <1>4, <1>6 DEF Now, AtEvent
<1>8. WorldOK(w, owed, parser) /\ w.conn = conn /\ w.sock = sock /\ w.log = l
  <2>1. CASE conn.open
    <3>1. sock.sent >= sock.sent  BY AtAny, HttpAssumption DEF Socks
    <3>2. log.stale => l.stale  BY <1>3, <1>5
    <3> QED  BY <1>5, <1>6, <2>1, <3>1, <3>2, AtAny, MoreComes
  <2>2. CASE ~ conn.open
    <3>1. b = log.stale  BY <1>3, <2>2, AtAny DEF Logs
    <3>2. l = log  BY <1>4, <3>1, AtAny DEF Logs
    <3> QED  BY <1>6, <3>2, AtAny DEF Now
  <2> QED  BY <2>1, <2>2
<1>9. ObjectOK(w) /\ PromisesOK(w.log) /\ w \in Worlds  BY <1>8 DEF WorldOK, ObjectOK
\* What the event says is true, or old.
<1>10. conn.open =>
         /\ "in" \in event.set => sock.mask = "in" \/ l.stale
         /\ "in" \in event.set => Readable(sock) \/ l.stale
         /\ "out" \in event.set => sock.mask = "out" \/ l.stale
         /\ "err" \in event.set => log.gone \/ l.stale
  <2>1. ThreadOK(Now, pc, after, event) /\ Now.sock = sock  BY NowHolds DEF Holds
  <2>2. conn.open /\ ~ l.stale => event.fresh  BY <1>3, <1>5
  <2> QED  BY <1>1, <2>1, <2>2, AtAny DEF ThreadOK
<1>11. ASSUME NEW v, Becomes(v), WorldOK(v, owed, parser), pc' = "wait", UNCHANGED after
       PROVE  IInv'
  <2>1. ThreadOK(v, pc', after', event')  BY <1>11 DEF ThreadOK
  <2>2. Holds(v, owed', parser', opened', pc', after', event')
    BY <1>1, <1>2, <1>11, <2>1 DEF Holds
  <2> QED  BY <1>11, <2>2, ThenHolds
<1>12. CASE pc' = "wait" /\ UNCHANGED <<world, after>>
  <2>1. Becomes(Now)  BY <1>12, AtAny DEF Becomes, world
  <2> QED  BY <1>11, <1>12, <2>1, AtAny
<1>13. CASE /\ ~ conn.open /\ pc' = "wait" /\ UNCHANGED after
            /\ Becomes([w EXCEPT !.conn.destroy = TRUE])
  <2>1. PICK v : v = [w EXCEPT !.conn.destroy = TRUE]  OBVIOUS
  <2>2. /\ v.conn = [conn EXCEPT !.destroy = TRUE] /\ v.sock = sock /\ v.log = l
        /\ v = [conn |-> v.conn, sock |-> v.sock, log |-> v.log]
    BY <1>8, <1>9, <2>1 DEF Worlds
  <2>3. /\ v.conn \in Conns /\ ~ v.conn.open /\ v.conn.buf = conn.buf
        /\ v.conn.size = conn.size /\ v.conn.offset = conn.offset
    BY <1>13, <2>2, AtAny DEF Conns
  <2>4. v \in Worlds  BY <1>5, <2>2, <2>3, AtAny, WorldParts
  <2>5. ObjectOK(v)  BY <1>8, <1>9, <1>13, <2>2, <2>3, <2>4 DEF ObjectOK
  <2>6. WorldOK(v, owed, parser)
    BY <1>8, <1>9, <2>2, <2>3, <2>5 DEF WorldOK, AnswerOK, RequestOK
  <2> QED  BY <1>11, <1>13, <2>1, <2>6
<1>14. CASE /\ "in" \in event.set /\ conn.open /\ Becomes(w) /\ pc' = "read"
            /\ after' = IF "err" \in event.set THEN "check" ELSE "wait"
  <2>1. Clean(l) => sock.got = 0
    <3>1. ASSUME Clean(l), sock.got # 0 PROVE FALSE
      <4>1. sock.got = Length
        BY <1>8, <1>14, <3>1 DEF WorldOK, RequestOK
      <4>2. Readable(sock) /\ ~ sock.fin /\ ~ sock.rst
        BY <1>5, <1>10, <1>14, <3>1, AtAny DEF Clean
      <4>3. sock.got < sock.sent  BY <4>2 DEF Readable
      <4>4. sock.sent \in 0 .. Length /\ Length \in Nat  BY AtAny, HttpAssumption DEF Socks
      <4> QED  BY <4>1, <4>3, <4>4
    <3> QED  BY <3>1
  <2>2. ~ l.stale => sock.mask # "out"  BY <1>10, <1>14
  <2>3. after' = "check" => l.gone \/ l.stale  BY <1>5, <1>10, <1>14
  <2>4. ThreadOK(w, pc', after', event')
    BY <1>8, <1>14, <2>1, <2>2, <2>3 DEF ThreadOK
  <2>5. Holds(w, owed', parser', opened', pc', after', event')
    BY <1>1, <1>2, <1>8, <1>14, <2>4 DEF Holds
  <2> QED  BY <1>14, <2>5, ThenHolds
<1>15. CASE /\ "out" \in event.set /\ conn.buf = "none" /\ pc' = "crashed"
            /\ UNCHANGED <<world, after>>
  <2>1. Becomes(Now)  BY <1>15, AtAny DEF Becomes, world
  <2>2. ThreadOK(Now, pc', after', event')  BY <1>15 DEF ThreadOK
  <2>3. Holds(Now, owed', parser', opened', pc', after', event')
    BY <1>1, <1>2, <1>15, <2>2, AtAny DEF Holds
  <2> QED  BY <2>1, <2>3, ThenHolds
<1>16. CASE /\ "out" \in event.set /\ conn.buf # "none" /\ pc' = "wait" /\ UNCHANGED after
            /\ \E v \in EpollOut(w) : Becomes(v)
  <2>1. PICK v \in EpollOut(w) : Becomes(v)  BY <1>16
  <2>2. conn.open  BY <1>16, AtAny
  <2>3. ~ l.stale => sock.mask = "out"  BY <1>10, <1>16, <2>2
  <2>4. ASSUME ~ l.stale
        PROVE  /\ l.asked # <<>>
               /\ Len(l.asked) = 1 => /\ owed = 0 /\ conn.buf = "answer" /\ conn.size = Length
                                      /\ l.out = SubSeq(Whole, 1, conn.offset)
    BY <1>8, <2>2, <2>3, <2>4 DEF WorldOK, AnswerOK
  <2>5. Clean(l) => sock.got = Length /\ l.asked = <<TRUE>>
    BY <1>8, <2>2, <2>4 DEF WorldOK, RequestOK, Clean
  <2>6. Answering(w, owed)  BY <1>8, <1>9, <1>16, <2>2, <2>4, <2>5 DEF Answering
  <2>7. WorldOK(v, owed, parser)  BY <2>1, <2>6, EpollOutKeeps
  <2> QED  BY <1>11, <1>16, <2>1, <2>7
<1>17. CASE /\ event.set = {"err"} /\ Becomes(Remove(w, "closed")) /\ pc' = "wait"
            /\ UNCHANGED after
  <2>1. PICK v : v = Remove(w, "closed")  OBVIOUS
  <2>2. w.conn.open => ~ Clean(w.log)  BY <1>5, <1>8, <1>10, <1>17 DEF Clean
  <2>3. WorldOK(v, owed, parser)  BY <1>9, <2>1, <2>2, RemoveKeeps
  <2> QED  BY <1>11, <1>17, <2>1, <2>3
<1>18. \/ pc' = "wait" /\ UNCHANGED <<world, after>>
       \/ /\ ~ conn.open /\ pc' = "wait" /\ UNCHANGED after
          /\ Becomes([w EXCEPT !.conn.destroy = TRUE])
       \/ /\ "in" \in event.set /\ conn.open /\ Becomes(w) /\ pc' = "read"
          /\ after' = IF "err" \in event.set THEN "check" ELSE "wait"
       \/ /\ "out" \in event.set /\ conn.buf = "none" /\ pc' = "crashed"
          /\ UNCHANGED <<world, after>>
       \/ /\ "out" \in event.set /\ conn.buf # "none" /\ pc' = "wait" /\ UNCHANGED after
          /\ \E v \in EpollOut(w) : Becomes(v)
       \/ /\ event.set = {"err"} /\ Becomes(Remove(w, "closed")) /\ pc' = "wait"
          /\ UNCHANGED after
  BY <1>7 DEF EpollActive
<1> QED  BY <1>12, <1>13, <1>14, <1>15, <1>16, <1>17, <1>18

LEMMA InitIInv == ASSUME Init PROVE IInv
<1>1. Now = [conn |-> Idle, sock |-> NoSocket, log |-> NoLog]  BY DEF Init, Now
<1>2. Now.conn = Idle /\ Now.sock = NoSocket /\ Now.log = NoLog /\ Now \in Worlds
  BY <1>1, WorldParts
<1>3. NoLog.ended = "no" /\ NoLog.asked = <<>> /\ NoLog.out = <<>>  BY DEF NoLog
<1>4. ObjectOK(Now)
  <2>1. Idle.offset <= Idle.size /\ NoSocket.got <= NoSocket.sent  BY WorldParts
  <2> QED  BY <1>2, <2>1, WorldParts DEF ObjectOK
<1>5. PromisesOK(NoLog)
  <2>1. 0 \in 0 .. Length  BY HttpAssumption
  <2>2. NoLog.out = SubSeq(Whole, 1, 0)  BY <1>3, WholeIsPrefix
  <2> QED  BY <1>3, <2>1, <2>2, WorldParts, PrefixKeepsPromises
<1>6. WorldOK(Now, owed, parser)
  BY <1>2, <1>4, <1>5, WorldParts DEF WorldOK, AnswerOK, RequestOK
<1>7. ThreadOK(Now, pc, after, event)  BY DEF Init, ThreadOK
<1>8. 0 \in 0 .. MaxOpened  BY HttpAssumption
<1> QED
  BY <1>6, <1>7, <1>8, WorldParts DEF Init, IInv, NoEvent, Parsers

LEMMA NextKeepsIInv == ASSUME IInv, [Next]_vars PROVE IInv'
<1>1. CASE Next
  <2>1. CASE ReadSocket  BY <2>1, ReadSocketStep
  <2>2. CASE Wait  BY <2>2, WaitStep
  <2>3. CASE EpollActive  BY <2>3, EpollActiveStep
  <2>4. CASE OpenHttp  BY <2>4, OpenHttpStep
  <2>5. CASE Answer  BY <2>5, AnswerStep
  <2>6. CASE CloseConnect  BY <2>6, CloseConnectStep
  <2>7. CASE TimerCallback  BY <2>7, TimerCallbackStep
  <2>8. CASE PeerSends \/ PeerLeaves \/ PeerReads  BY <2>8, PeerStep
  <2> QED  BY <1>1, <2>1, <2>2, <2>3, <2>4, <2>5, <2>6, <2>7, <2>8 DEF Next
<1>2. CASE UNCHANGED vars
  <2>1. Becomes(Now)  BY <1>2, AtAny DEF vars, world, Becomes
  <2>2. UNCHANGED <<owed, parser, opened, pc, after, event>>  BY <1>2 DEF vars
  <2>3. Holds(Now, owed', parser', opened', pc', after', event')  BY <2>2, NowHolds
  <2> QED  BY <2>1, <2>3, ThenHolds
<1> QED  BY <1>1, <1>2

-----------------------------------------------------------------------------
(***************************************************************************)
(* The theorems                                                            *)
(***************************************************************************)

\* Object, socket, parser and thread fit together: an object in the pool is clear,
\* an answer is owed or its rest is in the buffer, and an event is true or old.
THEOREM InductiveInvariant == Spec => []IInv
<1>1. Init => IInv  BY InitIInv
<1>2. IInv /\ [Next]_vars => IInv'  BY NextKeepsIInv
<1> QED  BY <1>1, <1>2, PTL DEF Spec

\* What IInv promises, for the history of the state
LEMMA NowPromises ==
  ASSUME IInv
  PROVE  PromisesOK(log)
BY AtAny

\* The server closes a connection by itself (closeHttp at the end of epollIn and
\* epollOut) only when the whole answer is sent, with the exceptions that the
\* property names.
THEOREM ClientIsServed == Spec => []ClientServed
<1>1. IInv => ClientServed  BY NowPromises DEF PromisesOK, Clean, ClientServed
<1> QED  BY <1>1, InductiveInvariant, PTL

\* The variables have their types, and a request that comes in one piece is given
\* to its receiver once and as it came (epollIn, http_parser_execute).
THEOREM RequestIsTakenOnce == Spec => []Inv
<1>1. IInv => TypeOK
  BY AtAny DEF TypeOK, Conns, Socks, Logs, Parsers, Events
<1>2. IInv => AskedOnce  BY NowPromises DEF PromisesOK, Clean, AskedOnce
<1> QED  BY <1>1, <1>2, InductiveInvariant, PTL DEF Inv

\* writeSocket and m_offset: however the socket takes it, an answer is written from
\* its beginning, in order and without a gap.
THEOREM AnswersAreIntact == Spec => []AnswersIntact
<1>1. IInv => AnswersIntact  BY NowPromises DEF PromisesOK, AnswersIntact
<1> QED  BY <1>1, InductiveInvariant, PTL
=============================================================================
