-------------------------- MODULE AcceptRead_proofs --------------------------
(***************************************************************************)
(* Proofs about the parser of an accepted connection (AcceptRead): the     *)
(* packets it dispatches are the packets of the peer, each once and in     *)
(* order, and between two reads every byte received is accounted for,      *)
(* for every sequence of packets, every way of cutting their bytes into    *)
(* reads and every number of connections the object serves.                *)
(***************************************************************************)
EXTENDS AcceptRead, TLAPS, SequenceTheorems, WellFoundedInduction

-----------------------------------------------------------------------------
(***************************************************************************)
(* Where the packets end in the stream.  EndOf is defined by recursion: a  *)
(* fact about all its values is proved by the least value it fails for.    *)
(***************************************************************************)

\* A set of natural numbers that is not empty has a least element.
LEMMA LeastOf ==
  ASSUME NEW T, T \subseteq Nat, T # {}
  PROVE  \E x \in T : \A y \in T : x <= y
<1>1. PICK R : R = OpToRel(<, Nat)  OBVIOUS
<1>2. IsWellFoundedOn(R, Nat)  BY <1>1, NatLessThanWellFounded
<1>3. PICK x \in T : \A y \in T : ~ (<<y, x>> \in R)  BY <1>2, WFMin
<1>4. \A y \in T : ~ (y < x)  BY <1>1, <1>3 DEF OpToRel
<1> QED  BY <1>4

\* f holds where the first packets of s end.
Ends(s, n, f) == f = [i \in 0 .. n |-> IF i = 0 THEN 0 ELSE f[i - 1] + s[i].length]

\* There is such a function for every sequence of packets.
LEMMA EndsExist ==
  ASSUME NEW s \in Seq(Packets), NEW n \in 0 .. Len(s)
  PROVE  \E f : Ends(s, n, f) /\ f \in [0 .. n -> Nat]
<1> DEFINE T == {m \in 0 .. Len(s) : ~ \E f : Ends(s, m, f) /\ f \in [0 .. m -> Nat]}
<1> SUFFICES ASSUME T # {} PROVE FALSE
  OBVIOUS
<1>1. Len(s) \in Nat /\ T \subseteq Nat  BY LenProperties
<1>2. PICK m \in T : \A k \in T : m <= k
  <2> HIDE DEF T
  <2> QED  BY <1>1, LeastOf
<1>3. CASE m = 0
  <2>1. Ends(s, 0, [i \in 0 .. 0 |-> 0])  BY DEF Ends
  <2>2. [i \in 0 .. 0 |-> 0] \in [0 .. 0 -> Nat]  OBVIOUS
  <2> QED  BY <1>3, <2>1, <2>2
<1>4. CASE m # 0
  <2>1. m \in Nat \ {0} /\ m - 1 \in 0 .. Len(s) /\ m \in 1 .. Len(s)  BY <1>1, <1>4
  <2>2. m - 1 \notin T
    <3> HIDE DEF T
    <3> QED  BY <1>2, <2>1
  <2>3. PICK f \in [0 .. m - 1 -> Nat] : Ends(s, m - 1, f)  BY <2>1, <2>2
  <2>4. PICK g : g = [i \in 0 .. m |-> IF i = m THEN f[m - 1] + s[m].length ELSE f[i]]  OBVIOUS
  <2>5. s[m] \in Packets  BY <2>1, ElementOfSeq
  <2>6. f[m - 1] + s[m].length \in Nat
    <3>1. s[m].length \in Nat  BY <2>5, AcceptReadAssumption DEF Packets
    <3>2. f[m - 1] \in Nat  BY <2>1, <2>3
    <3> QED  BY <3>1, <3>2
  <2>7. g \in [0 .. m -> Nat]  BY <2>1, <2>3, <2>4, <2>6
  <2>8. ASSUME NEW i \in 0 .. m
        PROVE  g[i] = IF i = 0 THEN 0 ELSE g[i - 1] + s[i].length
    <3>1. CASE i = m  BY <2>1, <2>3, <2>4, <3>1
    <3>2. CASE i # m
      <4>1. i \in 0 .. m - 1  BY <2>1, <3>2
      <4>2. f[i] = IF i = 0 THEN 0 ELSE f[i - 1] + s[i].length  BY <2>3, <4>1 DEF Ends
      <4> QED  BY <2>1, <2>4, <4>1, <4>2
    <3> QED  BY <3>1, <3>2
  <2>9. Ends(s, m, g)  BY <2>7, <2>8 DEF Ends
  <2> QED  BY <2>7, <2>9
<1> QED  BY <1>3, <1>4

\* The packets of the peer are no shorter than a head.
LEMMA PacketLength ==
  ASSUME NEW s \in Seq(Packets), NEW k \in 1 .. Len(s)
  PROVE  /\ s[k].length \in Nat /\ s[k].length >= HeadLength /\ s[k].length > 0
         /\ s[k].register \in BOOLEAN
<1>1. s[k] \in Packets  BY ElementOfSeq
<1>2. s[k].length \in Lengths /\ s[k].register \in BOOLEAN  BY <1>1 DEF Packets
<1>3. \A n \in Lengths : n \in Nat /\ n >= HeadLength /\ n > 0  BY AcceptReadAssumption
<1> QED  BY <1>2, <1>3

\* Its values are natural numbers that increase.
LEMMA EndsIncrease ==
  ASSUME NEW s \in Seq(Packets), NEW f, Ends(s, Len(s), f)
  PROVE  /\ \A k \in 0 .. Len(s) : f[k] \in Nat
         /\ f[0] = 0
         /\ \A k \in 1 .. Len(s) : f[k] = f[k - 1] + s[k].length
         /\ \A j, k \in 0 .. Len(s) : j < k => f[j] < f[k]
<1>0. PICK n \in Nat : n = Len(s)  BY LenProperties
<1>1. f[0] = 0  BY <1>0 DEF Ends
<1>2. \A k \in 1 .. n : f[k] = f[k - 1] + s[k].length  BY <1>0 DEF Ends
<1>3. \A k \in 1 .. n : s[k].length \in Nat /\ s[k].length > 0  BY <1>0, PacketLength
<1>4. \A k \in 0 .. n : f[k] \in Nat
  <2> DEFINE T == {k \in 0 .. n : f[k] \notin Nat}
  <2> SUFFICES ASSUME T # {} PROVE FALSE
    OBVIOUS
  <2>1. T \subseteq Nat  BY <1>0
  <2>2. PICK m \in T : \A k \in T : m <= k
    <3> HIDE DEF T
    <3> QED  BY <2>1, LeastOf
  <2>3. m \in 1 .. n /\ m - 1 \in 0 .. n  BY <1>0, <1>1, <2>2
  <2>4. m - 1 \notin T
    <3> HIDE DEF T
    <3> QED  BY <2>2, <2>3
  <2>5. f[m - 1] \in Nat  BY <2>3, <2>4
  <2>6. f[m] = f[m - 1] + s[m].length  BY <1>2, <2>3
  <2>7. s[m].length \in Nat  BY <1>3, <2>3
  <2>8. f[m] \in Nat  BY <2>5, <2>6, <2>7
  <2> QED  BY <2>8, <2>2
<1>5. \A j, k \in 0 .. n : j < k => f[j] < f[k]
  <2> DEFINE T == {k \in 0 .. n : \E j \in 0 .. n : j < k /\ ~ (f[j] < f[k])}
  <2> SUFFICES ASSUME T # {} PROVE FALSE
    OBVIOUS
  <2>1. T \subseteq Nat  BY <1>0
  <2>2. PICK m \in T : \A k \in T : m <= k
    <3> HIDE DEF T
    <3> QED  BY <2>1, LeastOf
  <2>3. PICK j \in 0 .. n : j < m /\ ~ (f[j] < f[m])  BY <2>2
  <2>4. m \in 1 .. n /\ m - 1 \in 0 .. n  BY <1>0, <2>2, <2>3
  <2>5. m - 1 \notin T
    <3> HIDE DEF T
    <3> QED  BY <2>2, <2>4
  <2>6. f[m - 1] < f[m]
    <3>1. f[m] = f[m - 1] + s[m].length  BY <1>2, <2>4
    <3>2. s[m].length \in Nat /\ s[m].length > 0  BY <1>3, <2>4
    <3>3. f[m - 1] \in Nat  BY <1>4, <2>4
    <3> QED  BY <3>1, <3>2, <3>3
  <2>7. j < m - 1  BY <2>3, <2>4, <2>6, <1>0
  <2>8. f[j] < f[m - 1]  BY <2>3, <2>4, <2>5, <2>7
  <2> QED  BY <1>4, <2>3, <2>4, <2>6, <2>8
<1> QED  BY <1>0, <1>1, <1>2, <1>4, <1>5

\* What the other proofs use of EndOf
EndsOK ==
    /\ \A k \in 0 .. Len(stream) : EndOf(k) \in Nat
    /\ EndOf(0) = 0
    /\ \A k \in 1 .. Len(stream) : EndOf(k) = EndOf(k - 1) + stream[k].length
    /\ \A j, k \in 0 .. Len(stream) : j < k => EndOf(j) < EndOf(k)

LEMMA EndsOfStream == stream \in Seq(Packets) => EndsOK
<1> SUFFICES ASSUME stream \in Seq(Packets) PROVE EndsOK
  OBVIOUS
<1>1. PICK g : Ends(stream, Len(stream), g)  BY EndsExist, LenProperties
<1>2. PICK f : f = CHOOSE h : Ends(stream, Len(stream), h)  OBVIOUS
<1>3. Ends(stream, Len(stream), f)  BY <1>1, <1>2
<1>4. \A k : EndOf(k) = f[k]  BY <1>2 DEF EndOf, Ends
<1> QED  BY <1>3, <1>4, EndsIncrease DEF EndsOK

LEMMA EndsOfNextStream == (stream \in Seq(Packets) => EndsOK)'
<1>1. stream \in Seq(Packets) => EndsOK  BY EndsOfStream
<1> QED  BY <1>1, PTL

\* The head behind the first n packets is that of the next packet.
LEMMA HeadOfNext ==
  ASSUME stream \in Seq(Packets), NEW n \in Nat, n < Len(stream)
  PROVE  HeadsAt(EndOf(n)) = {stream[n + 1]}
<1>1. PICK m \in Nat : m = Len(stream) /\ DOMAIN stream = 1 .. m  BY LenProperties
<1>2. \A k \in 1 .. m : EndOf(k - 1) = EndOf(n) <=> k = n + 1
  <2> TAKE k \in 1 .. m
  <2>1. k - 1 \in 0 .. m /\ n \in 0 .. m  BY <1>1
  <2>2. k - 1 < n => EndOf(k - 1) < EndOf(n)  BY <1>1, <2>1, EndsOfStream DEF EndsOK
  <2>3. n < k - 1 => EndOf(n) < EndOf(k - 1)  BY <1>1, <2>1, EndsOfStream DEF EndsOK
  <2>4. EndOf(n) \in Nat /\ EndOf(k - 1) \in Nat  BY <1>1, <2>1, EndsOfStream DEF EndsOK
  <2> QED  BY <1>1, <2>1, <2>2, <2>3, <2>4
<1>3. {i \in DOMAIN stream : EndOf(i - 1) = EndOf(n)} = {n + 1}
  BY <1>1, <1>2
<1>4. \E k \in DOMAIN stream : EndOf(k - 1) = EndOf(n)  BY <1>3
<1> HIDE DEF EndOf
<1> QED  BY <1>3, <1>4 DEF HeadsAt

\* Whatever the bytes at a position are, the head they make has a length.
LEMMA HeadLengthOK ==
  ASSUME stream \in Seq(Packets), NEW p, NEW q \in HeadsAt(p)
  PROVE  q.length \in Nat /\ q.register \in BOOLEAN
<1>1. \A k \in DOMAIN stream : stream[k].length \in Nat /\ stream[k].register \in BOOLEAN
  BY PacketLength, LenProperties
<1>2. Lengths \subseteq Nat  BY AcceptReadAssumption
<1>3. CASE \E k \in DOMAIN stream : EndOf(k - 1) = p
  <2>1. PICK k \in DOMAIN stream : q = stream[k]  BY <1>3 DEF HeadsAt
  <2> QED  BY <1>1, <2>1
<1>4. CASE ~ \E k \in DOMAIN stream : EndOf(k - 1) = p
  <2>1. q \in [length : Lengths \union {0}, register : BOOLEAN]  BY <1>4 DEF HeadsAt
  <2>2. q.length \in Lengths \union {0} /\ q.register \in BOOLEAN  BY <2>1
  <2>3. \A n \in Lengths \union {0} : n \in Nat  BY <1>2
  <2> QED  BY <2>2, <2>3
<1> QED  BY <1>3, <1>4

-----------------------------------------------------------------------------
(***************************************************************************)
(* The inductive invariant                                                 *)
(***************************************************************************)

\* While the stream does not change, neither does where its packets end.
LEMMA SameEnds == stream' = stream => \A k : EndOf(k)' = EndOf(k)
BY DEF EndOf

LEMMA NoPacketType ==
  NoPacket \in [at : Int, length : Nat, register : BOOLEAN, have : Nat, released : BOOLEAN]
BY DEF NoPacket

LEMMA InitInvariant == Init => IInv
<1> SUFFICES ASSUME Init PROVE IInv
  OBVIOUS
<1> USE DEF Init
<1>1. stream \in Seq(Packets)
  <2>1. PICK n \in 1 .. MaxPackets : stream \in [1 .. n -> Packets]  BY DEF Streams
  <2>2. n \in Nat  BY AcceptReadAssumption
  <2> QED  BY <2>1, <2>2, SeqDef
<1>2. EndOf(0) = 0 /\ EndOf(Len(stream)) \in Nat /\ Len(stream) \in Nat
  <2>1. Len(stream) \in Nat  BY <1>1, LenProperties
  <2> HIDE DEF Init
  <2> QED  BY <1>1, <2>1, EndsOfStream DEF EndsOK
<1>3. Len(dispatched) = 0 /\ DOMAIN dispatched = {}  OBVIOUS
<1>4. TypeOK
  <2>1. dispatched \in Seq(Int)  OBVIOUS
  <2>2. temp \in [at : Int, length : Nat, register : BOOLEAN, have : Nat, released : BOOLEAN]
    BY DEF NoPacket
  <2>3. connections \in 1 .. MaxConnections /\ tempLength \in 0 .. HeadLength
    BY AcceptReadAssumption
  <2>4. got \in Nat /\ from \in Int /\ to \in Int  OBVIOUS
  <2> QED  BY <1>1, <2>1, <2>2, <2>3, <2>4 DEF TypeOK
<1>5. BufferOK  BY DEF BufferOK, Incomplete
<1> HIDE DEF Init
<1>6. pc = "idle" /\ ~ Incomplete /\ got = 0 /\ tempLength = 0 /\ temp = NoPacket
  BY DEF Init, Incomplete
<1>7. PositionOK  BY <1>2, <1>6 DEF PositionOK
<1>8. NoByteLost  BY <1>2, <1>3, <1>6 DEF NoByteLost, Kept
<1>9. FramesInOrder  BY <1>2, <1>3 DEF FramesInOrder
<1> QED  BY <1>4, <1>5, <1>7, <1>8, <1>9 DEF IInv

\* What the proof of every step uses of the state before it
LEMMA Position ==
  ASSUME IInv
  PROVE  /\ Len(dispatched) \in Nat /\ Len(stream) \in Nat
         /\ \A k \in 0 .. Len(stream) : EndOf(k) \in Nat
         /\ HeadLength \in Nat /\ HeadLength > 0
         /\ intact => /\ Len(dispatched) <= Len(stream)
                      /\ EndOf(Len(dispatched)) \in Nat
                      /\ EndOf(Len(dispatched)) <= EndOf(Len(stream))
<1>1. stream \in Seq(Packets) /\ dispatched \in Seq(Int)  BY DEF IInv, TypeOK
<1>2. Len(stream) \in Nat /\ Len(dispatched) \in Nat  BY <1>1, LenProperties
<1>3. EndsOK  BY <1>1, EndsOfStream
<1>4. intact => Len(dispatched) <= Len(stream)  BY DEF IInv, FramesInOrder
<1>5. ASSUME intact PROVE EndOf(Len(dispatched)) <= EndOf(Len(stream))
  <2>1. Len(dispatched) = Len(stream) \/ Len(dispatched) < Len(stream)  BY <1>2, <1>4, <1>5
  <2>2. EndOf(Len(stream)) \in Nat  BY <1>2, <1>3 DEF EndsOK
  <2>3. CASE Len(dispatched) < Len(stream)
    <3>1. EndOf(Len(dispatched)) < EndOf(Len(stream)) /\ EndOf(Len(dispatched)) \in Nat
      BY <1>2, <1>3, <2>3 DEF EndsOK
    <3> QED  BY <2>2, <3>1
  <2>4. CASE Len(dispatched) = Len(stream)  BY <2>2, <2>4
  <2> QED  BY <2>1, <2>3, <2>4
<1> QED  BY <1>2, <1>3, <1>4, <1>5, AcceptReadAssumption DEF EndsOK

\* The packet behind those dispatched ends where its length says.
LEMMA NextPacket ==
  ASSUME IInv, intact, Len(dispatched) < Len(stream)
  PROVE  /\ EndOf(Len(dispatched) + 1) = EndOf(Len(dispatched)) + Expected.length
         /\ Expected.length \in Nat /\ Expected.length >= HeadLength
         /\ Expected.register \in BOOLEAN
         /\ HeadsAt(EndOf(Len(dispatched))) = {Expected}
<1>1. stream \in Seq(Packets)  BY DEF IInv, TypeOK
<1>2. PICK d \in Nat : d = Len(dispatched) /\ d < Len(stream)  BY Position
<1>3. Len(stream) \in Nat /\ d + 1 \in 1 .. Len(stream) /\ (d + 1) - 1 = d  BY <1>2, Position
<1>4. EndOf(d + 1) = EndOf(d) + stream[d + 1].length
  BY <1>1, <1>3, EndsOfStream DEF EndsOK
<1>5. stream[d + 1].length \in Nat /\ stream[d + 1].length >= HeadLength
      /\ stream[d + 1].register \in BOOLEAN
  BY <1>1, <1>3, PacketLength
<1>6. HeadsAt(EndOf(d)) = {stream[d + 1]}  BY <1>1, <1>2, HeadOfNext
<1> QED  BY <1>2, <1>4, <1>5, <1>6 DEF Expected

LEMMA ReadSocketStep ==
  ASSUME IInv, NEW n \in 1 .. EndOf(Len(stream)), ReadSocket(n)
  PROVE  IInv'
<1>0. n \in Nat /\ n > 0  BY Position
<1>1. stream' = stream /\ \A k : EndOf(k)' = EndOf(k)  BY SameEnds DEF ReadSocket
<1>2. UNCHANGED <<connections, open, identified, temp, dispatched, intact>> /\ open
  BY DEF ReadSocket
<1>3. got' = got + n /\ from' = got - tempLength /\ to' = got + n /\ tempLength' = 0
  BY DEF ReadSocket
<1>4. pc = "idle" /\ n <= EndOf(Len(stream)) - got
      /\ (temp = NoPacket => pc' = "first") /\ (temp # NoPacket => pc' = "temp")
  BY DEF ReadSocket
<1>5. got \in Nat /\ tempLength \in Nat /\ temp.have \in Nat  BY DEF IInv, TypeOK
<1>6. TypeOK'
  BY <1>0, <1>1, <1>2, <1>3, <1>4, <1>5, Position DEF IInv, TypeOK
<1>7. Incomplete' = Incomplete /\ (Incomplete => pc' = "temp")  BY <1>2, <1>4 DEF Incomplete
<1>8. BufferOK'
  <2>1. from' <= to'  BY <1>0, <1>3, <1>5
  <2>2. Incomplete => temp.have < temp.length  BY DEF IInv, BufferOK
  <2> QED  BY <1>2, <1>3, <1>4, <1>7, <2>1, <2>2 DEF BufferOK
<1>9. (intact => PositionOK)'
  <2> SUFFICES ASSUME intact PROVE PositionOK'
    BY <1>2
  <2>1. PositionOK /\ NoByteLost  BY DEF IInv
  <2>2. got = EndOf(Len(dispatched)) + Kept  BY <1>2, <1>4, <2>1 DEF NoByteLost
  <2>3. temp = NoPacket => from' = EndOf(Len(dispatched))
    <3> SUFFICES ASSUME temp = NoPacket PROVE from' = EndOf(Len(dispatched))
      OBVIOUS
    <3>1. Kept = tempLength  BY <1>5 DEF Kept
    <3> QED  BY <1>3, <1>5, <2>2, <3>1, Position
  <2>4. Incomplete => from' = EndOf(Len(dispatched)) + temp.have
    <3> SUFFICES ASSUME Incomplete PROVE from' = EndOf(Len(dispatched)) + temp.have
      OBVIOUS
    <3>1. tempLength = 0  BY DEF IInv, BufferOK
    <3>2. Kept = temp.have  BY <1>5, <3>1 DEF Kept, Incomplete
    <3> QED  BY <1>3, <1>5, <2>2, <3>1, <3>2, Position
  <2>5. got' <= EndOf(Len(stream))  BY <1>0, <1>3, <1>4, <1>5, Position
  <2>6. Incomplete => /\ Len(dispatched) < Len(stream)
                      /\ temp.at = EndOf(Len(dispatched))
                      /\ temp.length = Expected.length /\ temp.register = Expected.register
    BY <2>1 DEF PositionOK
  <2>7. Expected' = Expected  BY <1>1, <1>2 DEF Expected
  <2>8. (pc' = "temp" /\ ~ temp'.released) => Incomplete  BY <1>2, <1>4 DEF Incomplete
  <2>9. pc' \in {"first", "more"} => temp = NoPacket  BY <1>4
  <2> QED  BY <1>1, <1>2, <1>3, <1>7, <2>3, <2>4, <2>5, <2>6, <2>7, <2>8, <2>9 DEF PositionOK
<1>10. NoByteLost'  BY <1>4 DEF NoByteLost
<1>11. FramesInOrder'  BY <1>1, <1>2 DEF IInv, FramesInOrder
<1> QED  BY <1>6, <1>8, <1>9, <1>10, <1>11 DEF IInv

\* A released packet is followed: nothing else of the state is said to change.
LEMMA UndefinedStep ==
  ASSUME IInv, UseReleasedPacket
  PROVE  IInv'
<1> USE DEF UseReleasedPacket
<1>1. \A k : EndOf(k)' = EndOf(k)  BY SameEnds
<1>2. TypeOK'  BY DEF IInv, TypeOK
<1>3. Incomplete' = Incomplete  BY DEF Incomplete
<1>4. BufferOK'  BY <1>3 DEF IInv, BufferOK
<1>5. Expected' = Expected  BY DEF Expected
<1>6. (intact => PositionOK)'  BY <1>1, <1>3, <1>5 DEF IInv, PositionOK
<1>7. NoByteLost'  BY DEF NoByteLost
<1>8. FramesInOrder'  BY <1>1 DEF IInv, FramesInOrder
<1> QED  BY <1>2, <1>4, <1>6, <1>7, <1>8 DEF IInv

LEMMA ExtendTempPacketStep ==
  ASSUME IInv, ExtendTempPacket
  PROVE  IInv'
<1>1. stream' = stream /\ \A k : EndOf(k)' = EndOf(k)  BY SameEnds DEF ExtendTempPacket
<1>2. UNCHANGED <<connections, got, open, identified, tempLength, to, dispatched, intact>>
  BY DEF ExtendTempPacket
<1>3. pc = "temp" /\ ~ temp.released /\ from' = to /\ pc' = "idle"  BY DEF ExtendTempPacket
<1>4. PICK h, l, r, a :
         /\ h = temp.have /\ h \in Nat /\ l = temp.length /\ l \in Nat
         /\ r = temp.register /\ r \in BOOLEAN /\ a = temp.at /\ a \in Int
  BY DEF IInv, TypeOK
<1>5. temp' = [temp EXCEPT !.have = h + to - from]  BY <1>4 DEF ExtendTempPacket
<1>6. temp \in [at : Int, length : Nat, register : BOOLEAN, have : Nat, released : BOOLEAN]
      /\ from \in Int /\ to \in Int /\ from <= to
  BY <1>3 DEF IInv, TypeOK, BufferOK
<1>7. h + to - from \in Nat /\ h + to - from < l
  BY <1>4, <1>6 DEF ExtendTempPacket, Needed
<1>8. /\ temp'.have = h + to - from /\ temp'.length = l /\ temp'.register = r
      /\ temp'.at = a /\ temp'.released = FALSE
      /\ temp' \in [at : Int, length : Nat, register : BOOLEAN, have : Nat, released : BOOLEAN]
  BY <1>3, <1>4, <1>5, <1>6, <1>7
<1>9. temp' # NoPacket
  <2>1. l # 0  BY <1>4, <1>7
  <2> QED  BY <1>8, <2>1 DEF NoPacket
<1>10. Incomplete /\ Incomplete'
  BY <1>3, <1>8, <1>9 DEF Incomplete, IInv, BufferOK
<1>11. TypeOK'  BY <1>1, <1>2, <1>3, <1>6, <1>8 DEF IInv, TypeOK
<1>12. tempLength = 0  BY <1>10 DEF IInv, BufferOK
<1>13. BufferOK'  BY <1>2, <1>3, <1>7, <1>8, <1>12 DEF BufferOK
<1>14. Expected' = Expected  BY <1>1, <1>2 DEF Expected
<1>15. (intact => PositionOK)'
  <2> SUFFICES ASSUME intact PROVE PositionOK'
    BY <1>2
  <2>1. PositionOK  BY DEF IInv
  <2> QED  BY <1>1, <1>2, <1>3, <1>4, <1>8, <1>10, <1>14, <2>1 DEF PositionOK
<1>16. NoByteLost'
  <2> SUFFICES ASSUME intact PROVE got' = EndOf(Len(dispatched))' + Kept'
    BY <1>2 DEF NoByteLost
  <2>1. from = EndOf(Len(dispatched)) + h /\ to = got
    BY <1>3, <1>4 DEF IInv, PositionOK
  <2>2. Kept' = h + to - from
    BY <1>2, <1>7, <1>8, <1>9, <1>12 DEF Kept
  <2>3. got = EndOf(Len(dispatched)) + (h + to - from)
    <3>1. PICK e \in Nat : e = EndOf(Len(dispatched))  BY Position
    <3>2. from \in Int /\ to \in Int /\ h \in Nat  BY <1>4, <1>6
    <3> QED  BY <2>1, <3>1, <3>2
  <2>4. EndOf(Len(dispatched))' = EndOf(Len(dispatched))  BY <1>1, <1>2
  <2> QED  BY <1>2, <2>2, <2>3, <2>4
<1>17. FramesInOrder'  BY <1>1, <1>2 DEF IInv, FramesInOrder
<1> QED  BY <1>11, <1>13, <1>15, <1>16, <1>17 DEF IInv

\* One more packet has been dispatched, and the parser is behind it.
LEMMA OneMore ==
  ASSUME IInv, NEW a, a \in Int, dispatched' = Append(dispatched, a), stream' = stream,
         intact' = intact,
         intact => Len(dispatched) < Len(stream) /\ a = EndOf(Len(dispatched))
  PROVE  /\ FramesInOrder'
         /\ dispatched' \in Seq(Int)
         /\ Len(dispatched)' = Len(dispatched) + 1
         /\ intact => EndOf(Len(dispatched))' = EndOf(Len(dispatched)) + Expected.length
         /\ \A k : EndOf(k)' = EndOf(k)
<1>1. dispatched \in Seq(Int)  BY DEF IInv, TypeOK
<1>2. PICK d \in Nat : d = Len(dispatched) /\ DOMAIN dispatched = 1 .. d  BY <1>1, LenProperties
<1>3. dispatched' \in Seq(Int) /\ Len(dispatched') = d + 1 /\ DOMAIN dispatched' = 1 .. d + 1
      /\ dispatched'[d + 1] = a
      /\ \A k \in 1 .. d : dispatched'[k] = dispatched[k]
  BY <1>1, <1>2, AppendProperties, LenProperties
<1>4. \A k : EndOf(k)' = EndOf(k)  BY SameEnds
<1>5. intact => EndOf(Len(dispatched))' = EndOf(Len(dispatched)) + Expected.length
  <2>1. EndOf(Len(dispatched))' = EndOf(d + 1)'  BY <1>3
  <2> QED  BY <1>2, <1>4, <2>1, NextPacket
<1>6. FramesInOrder'
  <2> SUFFICES ASSUME intact
               PROVE  /\ Len(dispatched') <= Len(stream)
                      /\ \A k \in DOMAIN dispatched' : dispatched'[k] = EndOf(k - 1)
    BY <1>4 DEF FramesInOrder
  <2>1. \A k \in 1 .. d : dispatched[k] = EndOf(k - 1)  BY <1>2 DEF IInv, FramesInOrder
  <2>2. (d + 1) - 1 = d  OBVIOUS
  <2>3. dispatched'[d + 1] = EndOf((d + 1) - 1)  BY <1>2, <1>3, <2>2
  <2>4. \A k \in 1 .. d + 1 : k \in 1 .. d \/ k = d + 1  OBVIOUS
  <2>5. Len(dispatched') <= Len(stream)  BY <1>2, <1>3, Position
  <2> QED  BY <1>3, <2>1, <2>3, <2>4, <2>5
<1> QED  BY <1>2, <1>3, <1>4, <1>5, <1>6

\* What a dispatch does to the connection
LEMMA Outcome ==
  ASSUME IInv, NEW register, NEW out \in DispatchOutcomes(register)
  PROVE  out.closes \in BOOLEAN /\ out.identified \in BOOLEAN
<1>1. open \in BOOLEAN /\ identified \in BOOLEAN  BY DEF IInv, TypeOK
<1>2. \/ out = [closes |-> FALSE, identified |-> TRUE]
      \/ out = [closes |-> open, identified |-> TRUE]
      \/ out = [closes |-> open, identified |-> identified /\ ~ open]
      \/ out = [closes |-> open, identified |-> ~ open]
      \/ out = [closes |-> open, identified |-> FALSE]
  BY DEF DispatchOutcomes
<1>3. \A c, i \in BOOLEAN : out = [closes |-> c, identified |-> i] =>
         out.closes \in BOOLEAN /\ out.identified \in BOOLEAN
  OBVIOUS
<1> QED  BY <1>1, <1>2, <1>3

LEMMA CompleteTempPacketStep ==
  ASSUME IInv, CompleteTempPacket
  PROVE  IInv'
<1>1. PICK out \in DispatchOutcomes(temp.register) :
         IF out.closes THEN UseReleasedPacket
         ELSE /\ dispatched' = Append(dispatched, temp.at)
              /\ identified' = out.identified
              /\ from' = from + Needed
              /\ IF Needed = to - from
                 THEN temp' = NoPacket /\ pc' = "idle"
                 ELSE temp' = [temp EXCEPT !.released = TRUE] /\ pc' = "first"
              /\ UNCHANGED <<connections, stream, got, open, tempLength, to, intact>>
  BY DEF CompleteTempPacket
<1>2. CASE out.closes  BY <1>1, <1>2, UndefinedStep
<1>3. CASE ~ out.closes
  <2>1. /\ dispatched' = Append(dispatched, temp.at) /\ identified' = out.identified
        /\ from' = from + Needed
        /\ UNCHANGED <<connections, stream, got, open, tempLength, to, intact>>
    BY <1>1, <1>3
  <2>2. \/ Needed = to - from /\ temp' = NoPacket /\ pc' = "idle"
        \/ Needed # to - from /\ temp' = [temp EXCEPT !.released = TRUE] /\ pc' = "first"
    BY <1>1, <1>3
  <2>3. pc = "temp" /\ ~ temp.released /\ Needed <= to - from  BY DEF CompleteTempPacket
  <2>4. /\ temp \in [at : Int, length : Nat, register : BOOLEAN, have : Nat, released : BOOLEAN]
        /\ open \in BOOLEAN /\ identified \in BOOLEAN
        /\ from \in Int /\ to \in Int /\ from <= to /\ tempLength = 0
        /\ Incomplete
    BY <2>3 DEF IInv, TypeOK, BufferOK, Incomplete
  <2>5. PICK h, l : h \in Nat /\ l \in Nat /\ h = temp.have /\ l = temp.length /\ h < l
                    /\ Needed = l - h /\ temp.at \in Int
    BY <2>4 DEF IInv, BufferOK, Needed
  <2>6. intact => /\ Len(dispatched) < Len(stream)
                  /\ temp.at = EndOf(Len(dispatched))
                  /\ l = Expected.length
                  /\ from = EndOf(Len(dispatched)) + h /\ to = got
    BY <2>3, <2>4, <2>5 DEF IInv, PositionOK
  <2>7. /\ FramesInOrder'
        /\ dispatched' \in Seq(Int)
        /\ Len(dispatched)' = Len(dispatched) + 1
        /\ intact => EndOf(Len(dispatched))' = EndOf(Len(dispatched)) + Expected.length
        /\ \A k : EndOf(k)' = EndOf(k)
    BY <2>1, <2>5, <2>6, OneMore
  <2>8. out.identified \in BOOLEAN  BY Outcome
  <2>9. temp' \in [at : Int, length : Nat, register : BOOLEAN, have : Nat, released : BOOLEAN]
    <3>1. CASE temp' = NoPacket  BY <3>1 DEF NoPacket
    <3>2. CASE temp' = [temp EXCEPT !.released = TRUE]  BY <2>4, <3>2
    <3> QED  BY <2>2, <3>1, <3>2
  <2>10. TypeOK'  BY <2>1, <2>2, <2>4, <2>5, <2>7, <2>8, <2>9 DEF IInv, TypeOK
  <2>11. ~ Incomplete'
    <3>1. temp' = NoPacket \/ temp'.released  BY <2>2, <2>4
    <3> QED  BY <3>1 DEF Incomplete
  <2>12. from' = from + (l - h) /\ to' = to /\ from' <= to'  BY <2>1, <2>3, <2>4, <2>5
  <2>13. BufferOK'  BY <2>1, <2>2, <2>4, <2>11, <2>12 DEF BufferOK
  <2>14. ASSUME intact PROVE from' = EndOf(Len(dispatched))' /\ got' = to'
    <3>1. PICK e \in Nat : e = EndOf(Len(dispatched))  BY <2>14, Position
    <3>2. EndOf(Len(dispatched))' = e + l  BY <2>6, <2>7, <2>14, <3>1
    <3>3. from = e + h /\ to = got  BY <2>6, <2>14, <3>1
    <3>4. h \in Nat /\ l \in Nat /\ from' = from + (l - h)  BY <2>5, <2>12
    <3>5. from' = e + l  BY <3>1, <3>3, <3>4
    <3> QED  BY <2>1, <3>2, <3>3, <3>5
  <2>15. (intact => PositionOK)'
    <3>1. intact => got' <= EndOf(Len(stream))'
      BY <2>1, <2>7 DEF IInv, PositionOK
    <3> QED  BY <2>1, <2>2, <2>11, <2>14, <3>1 DEF PositionOK
  <2>16. NoByteLost'
    <3> SUFFICES ASSUME intact, pc' = "idle" PROVE got' = EndOf(Len(dispatched))' + Kept'
      BY <2>1 DEF NoByteLost
    <3>1. temp' = NoPacket /\ Needed = to - from  BY <2>2
    <3>2. Kept' = 0  BY <2>1, <2>4, <3>1 DEF Kept
    <3>3. to' = from'  BY <2>4, <2>5, <2>12, <3>1
    <3>4. got' = EndOf(Len(dispatched))'  BY <2>14, <3>3
    <3>5. got' \in Nat  BY <2>10 DEF TypeOK
    <3> QED  BY <3>2, <3>4, <3>5
  <2> QED  BY <2>7, <2>10, <2>13, <2>15, <2>16 DEF IInv
<1> QED  BY <1>2, <1>3

LEMMA KeepHeadStep ==
  ASSUME IInv, KeepHead
  PROVE  IInv'
<1>1. stream' = stream /\ \A k : EndOf(k)' = EndOf(k)  BY SameEnds DEF KeepHead
<1>2. UNCHANGED <<connections, got, open, identified, temp, to, dispatched, intact>>
  BY DEF KeepHead
<1>3. pc = "first" /\ to - from < HeadLength /\ tempLength' = to - from /\ from' = to
      /\ pc' = "idle"
  BY DEF KeepHead
<1>4. from \in Int /\ to \in Int /\ from <= to /\ ~ Incomplete
  BY <1>3 DEF IInv, TypeOK, BufferOK
<1>5. to - from \in 0 .. HeadLength  BY <1>3, <1>4, Position
<1>6. TypeOK'  BY <1>1, <1>2, <1>3, <1>4, <1>5 DEF IInv, TypeOK
<1>7. ~ Incomplete'  BY <1>2, <1>4 DEF Incomplete
<1>8. BufferOK'  BY <1>3, <1>7 DEF BufferOK
<1>9. (intact => PositionOK)'  BY <1>1, <1>2, <1>3, <1>7 DEF IInv, PositionOK
<1>10. NoByteLost'
  <2> SUFFICES ASSUME intact PROVE got' = EndOf(Len(dispatched))' + Kept'
    BY <1>2 DEF NoByteLost
  <2>1. PICK e \in Nat : e = EndOf(Len(dispatched))  BY Position
  <2>2. from = e /\ to = got  BY <1>3, <2>1 DEF IInv, PositionOK
  <2>3. Kept' = to - from  BY <1>3, <1>4, <1>5, <1>7 DEF Kept, Incomplete
  <2>4. got = e + (to - from)  BY <1>4, <2>1, <2>2
  <2>5. EndOf(Len(dispatched))' = e  BY <1>1, <1>2, <2>1
  <2> QED  BY <1>2, <2>3, <2>4, <2>5
<1>11. FramesInOrder'  BY <1>1, <1>2 DEF IInv, FramesInOrder
<1> QED  BY <1>6, <1>8, <1>9, <1>10, <1>11 DEF IInv

\* What the parser knows at the start of an iteration
LEMMA Iteration ==
  ASSUME IInv, pc \in {"first", "more"}, to - from >= HeadLength
  PROVE  /\ from \in Int /\ to \in Int /\ tempLength = 0 /\ ~ Incomplete
         /\ intact => /\ from = EndOf(Len(dispatched)) /\ to = got
                      /\ Len(dispatched) < Len(stream)
                      /\ HeadsAt(from) = {Expected}
<1>1. from \in Int /\ to \in Int /\ tempLength = 0 /\ ~ Incomplete /\ got \in Nat
  BY DEF IInv, TypeOK, BufferOK
<1>2. ASSUME intact
      PROVE  /\ from = EndOf(Len(dispatched)) /\ to = got
             /\ Len(dispatched) < Len(stream)
             /\ HeadsAt(from) = {Expected}
  <2>1. from = EndOf(Len(dispatched)) /\ to = got /\ got <= EndOf(Len(stream))
    BY <1>2 DEF IInv, PositionOK
  <2>2. HeadLength \in Nat /\ HeadLength > 0  BY Position
  <2>3. PICK e, n \in Nat : e = EndOf(Len(dispatched)) /\ n = EndOf(Len(stream))
    BY <1>2, Position
  <2>4. e < n  BY <1>1, <2>1, <2>2, <2>3
  <2>5. Len(dispatched) # Len(stream)  BY <2>3, <2>4
  <2>6. Len(dispatched) < Len(stream)  BY <1>2, <2>5, Position
  <2> QED  BY <1>2, <2>1, <2>6, NextPacket
<1> QED  BY <1>1, <1>2

LEMMA KeepPacketStep ==
  ASSUME IInv, pc \in {"first", "more"}, to - from >= HeadLength,
         NEW p \in HeadsAt(from), KeepPacket(p),
         UNCHANGED <<connections, stream, got, to, intact>>
  PROVE  IInv'
<1>1. \A k : EndOf(k)' = EndOf(k)  BY SameEnds
<1>2. p.length > to - from /\ from' = to /\ pc' = "idle"
      /\ UNCHANGED <<open, identified, tempLength, dispatched>>
  BY DEF KeepPacket
<1>3. stream \in Seq(Packets)  BY DEF IInv, TypeOK
<1>4. PICK l, r : l \in Nat /\ r \in BOOLEAN /\ l = p.length /\ r = p.register
  BY <1>3, HeadLengthOK
<1>5. /\ from \in Int /\ to \in Int /\ tempLength = 0 /\ ~ Incomplete
      /\ intact => /\ from = EndOf(Len(dispatched)) /\ to = got
                   /\ Len(dispatched) < Len(stream)
                   /\ HeadsAt(from) = {Expected}
  BY Iteration
<1>6. to - from \in Nat /\ to - from < l /\ l # 0  BY <1>2, <1>4, <1>5, Position
<1>7. temp' = [at |-> from, length |-> l, register |-> r, have |-> to - from,
               released |-> FALSE]
  BY <1>4 DEF KeepPacket
<1>8. /\ temp' \in [at : Int, length : Nat, register : BOOLEAN, have : Nat, released : BOOLEAN]
      /\ temp'.at = from /\ temp'.length = l /\ temp'.register = r
      /\ temp'.have = to - from /\ temp'.released = FALSE /\ temp' # NoPacket
  <2>1. temp' \in [at : Int, length : Nat, register : BOOLEAN, have : Nat, released : BOOLEAN]
    BY <1>4, <1>5, <1>6, <1>7
  <2>2. /\ temp'.at = from /\ temp'.length = l /\ temp'.register = r
        /\ temp'.have = to - from /\ temp'.released = FALSE
    BY <1>7
  <2>3. NoPacket.length = 0  BY DEF NoPacket
  <2> QED  BY <1>6, <2>1, <2>2, <2>3
<1>9. Incomplete'  BY <1>8 DEF Incomplete
<1>10. TypeOK'  BY <1>2, <1>5, <1>8 DEF IInv, TypeOK
<1>11. BufferOK'  BY <1>2, <1>5, <1>6, <1>8 DEF BufferOK
<1>12. Expected' = Expected  BY <1>2 DEF Expected
<1>13. (intact => PositionOK)'
  <2> SUFFICES ASSUME intact PROVE PositionOK'
    OBVIOUS
  <2>1. p = Expected  BY <1>5
  <2>2. l = Expected.length /\ r = Expected.register  BY <1>4, <2>1
  <2>3. got <= EndOf(Len(stream))  BY DEF IInv, PositionOK
  <2> QED  BY <1>1, <1>2, <1>5, <1>8, <1>9, <1>12, <2>2, <2>3 DEF PositionOK
<1>14. NoByteLost'
  <2> SUFFICES ASSUME intact PROVE got' = EndOf(Len(dispatched))' + Kept'
    BY DEF NoByteLost
  <2>1. PICK e \in Nat : e = EndOf(Len(dispatched))  BY Position
  <2>2. from = e /\ to = got  BY <1>5, <2>1
  <2>3. Kept' = to - from  BY <1>2, <1>5, <1>6, <1>8 DEF Kept
  <2>4. got = e + (to - from)  BY <1>5, <2>1, <2>2
  <2>5. EndOf(Len(dispatched))' = e  BY <1>1, <1>2, <2>1
  <2> QED  BY <2>3, <2>4, <2>5
<1>15. FramesInOrder'  BY <1>1, <1>2 DEF IInv, FramesInOrder
<1> QED  BY <1>10, <1>11, <1>13, <1>14, <1>15 DEF IInv

LEMMA DispatchPacketStep ==
  ASSUME IInv, pc \in {"first", "more"}, to - from >= HeadLength,
         NEW p \in HeadsAt(from), DispatchPacket(p),
         UNCHANGED <<connections, stream, got, to, intact>>
  PROVE  IInv'
<1>1. stream \in Seq(Packets)  BY DEF IInv, TypeOK
<1>2. PICK l : l \in Nat /\ l = p.length  BY <1>1, HeadLengthOK
<1>3. /\ from \in Int /\ to \in Int /\ tempLength = 0 /\ ~ Incomplete
      /\ intact => /\ from = EndOf(Len(dispatched)) /\ to = got
                   /\ Len(dispatched) < Len(stream)
                   /\ HeadsAt(from) = {Expected}
  BY Iteration
<1>4. PICK rest : rest = to - from - l  OBVIOUS
<1>5. rest \in Nat  BY <1>2, <1>3, <1>4 DEF DispatchPacket
<1>6. PICK out \in DispatchOutcomes(p.register) :
         IF ~ Closing(out) THEN UseReleasedPacket
         ELSE /\ open' = (open /\ ~ out.closes)
              /\ identified' = out.identified
              /\ dispatched' = Append(dispatched, from)
              /\ from' = from + l
              /\ IF rest > HeadLength
                 THEN /\ temp' = IF out.closes THEN NoPacket ELSE temp
                      /\ pc' = "more"
                      /\ UNCHANGED tempLength
                 ELSE /\ temp' = NoPacket
                      /\ tempLength' = rest
                      /\ pc' = "idle"
  BY <1>2, <1>4 DEF DispatchPacket
<1>7. CASE ~ Closing(out)  BY <1>6, <1>7, UndefinedStep
<1>8. CASE Closing(out)
  <2>1. open' = (open /\ ~ out.closes) /\ identified' = out.identified
        /\ dispatched' = Append(dispatched, from) /\ from' = from + l
    BY <1>6, <1>8
  <2>2. \/ /\ temp' = NoPacket \/ temp' = temp
           /\ pc' = "more" /\ tempLength' = 0
        \/ /\ temp' = NoPacket /\ tempLength' = rest /\ pc' = "idle" /\ rest <= HeadLength
    BY <1>3, <1>5, <1>6, <1>8, Position
  <2>3. intact => Len(dispatched) < Len(stream) /\ from = EndOf(Len(dispatched))
    BY <1>3
  <2>4. /\ FramesInOrder'
        /\ dispatched' \in Seq(Int)
        /\ Len(dispatched)' = Len(dispatched) + 1
        /\ intact => EndOf(Len(dispatched))' = EndOf(Len(dispatched)) + Expected.length
        /\ \A k : EndOf(k)' = EndOf(k)
    BY <1>3, <2>1, <2>3, OneMore
  <2>5. out.identified \in BOOLEAN /\ out.closes \in BOOLEAN  BY Outcome
  <2>6. temp' \in [at : Int, length : Nat, register : BOOLEAN, have : Nat, released : BOOLEAN]
    <3>1. temp \in [at : Int, length : Nat, register : BOOLEAN, have : Nat, released : BOOLEAN]
      BY DEF IInv, TypeOK
    <3>2. NoPacket \in [at : Int, length : Nat, register : BOOLEAN, have : Nat, released : BOOLEAN]
      BY DEF NoPacket
    <3> QED  BY <2>2, <3>1, <3>2
  <2>7. tempLength' \in 0 .. HeadLength  BY <1>5, <2>2, Position
  <2>8. from' \in Int /\ open' \in BOOLEAN
    BY <1>2, <1>3, <2>1, <2>5 DEF IInv, TypeOK
  <2>9. TypeOK'  BY <2>1, <2>2, <2>4, <2>5, <2>6, <2>7, <2>8 DEF IInv, TypeOK
  <2>10. ~ Incomplete'
    <3>1. ~ (temp # NoPacket /\ ~ temp.released)  BY <1>3 DEF Incomplete
    <3> QED  BY <2>2, <3>1 DEF Incomplete
  <2>11. from' <= to' /\ to' - from' = rest  BY <1>2, <1>3, <1>4, <1>5, <2>1
  <2>12. BufferOK'  BY <2>2, <2>10, <2>11 DEF BufferOK
  <2>13. ASSUME intact PROVE from' = EndOf(Len(dispatched))' /\ got' = to'
    <3>1. l = Expected.length  BY <1>2, <1>3, <2>13
    <3> QED  BY <1>3, <2>1, <2>4, <2>13, <3>1
  <2>14. (intact => PositionOK)'
    <3>1. intact => got' <= EndOf(Len(stream))'  BY <2>4 DEF IInv, PositionOK
    <3> QED  BY <2>2, <2>10, <2>13, <3>1 DEF PositionOK
  <2>15. NoByteLost'
    <3> SUFFICES ASSUME intact, pc' = "idle" PROVE got' = EndOf(Len(dispatched))' + Kept'
      BY DEF NoByteLost
    <3>1. temp' = NoPacket /\ tempLength' = rest  BY <2>2
    <3>2. Kept' = rest  BY <1>5, <3>1 DEF Kept
    <3>3. to' - from' = rest /\ got' = to' /\ from' = EndOf(Len(dispatched))'
      BY <2>11, <2>13
    <3>4. from' \in Int /\ to' \in Int  BY <1>3, <2>8
    <3>5. got' = from' + rest  BY <1>5, <3>3, <3>4
    <3> QED  BY <3>2, <3>3, <3>5
  <2> QED  BY <2>4, <2>9, <2>12, <2>14, <2>15 DEF IInv
<1> QED  BY <1>7, <1>8

LEMMA ParsePacketStep ==
  ASSUME IInv, ParsePacket
  PROVE  IInv'
<1>1. pc \in {"first", "more"} /\ to - from >= HeadLength
      /\ UNCHANGED <<connections, stream, got, to, intact>>
  BY DEF ParsePacket
<1>2. PICK p \in HeadsAt(from) : KeepPacket(p) \/ DispatchPacket(p)  BY DEF ParsePacket
<1>3. CASE KeepPacket(p)  BY <1>1, <1>3, KeepPacketStep
<1>4. CASE DispatchPacket(p)  BY <1>1, <1>4, DispatchPacketStep
<1> QED  BY <1>2, <1>3, <1>4

LEMMA DiscardBufferStep ==
  ASSUME IInv, DiscardBuffer
  PROVE  IInv'
<1>1. pc' = "idle" /\ temp' = NoPacket /\ from' = to /\ intact' = FALSE
      /\ UNCHANGED <<connections, stream, got, open, identified, tempLength, to, dispatched>>
  BY DEF DiscardBuffer
<1>2. TypeOK'  BY <1>1, NoPacketType DEF IInv, TypeOK
<1>3. BufferOK'  BY <1>1 DEF BufferOK, Incomplete
<1>4. NoByteLost' /\ FramesInOrder' /\ (intact => PositionOK)'
  BY <1>1 DEF NoByteLost, FramesInOrder
<1> QED  BY <1>2, <1>3, <1>4 DEF IInv

LEMMA CloseAcceptStep ==
  ASSUME IInv, CloseAccept
  PROVE  IInv'
<1>1. CASE temp.released  BY <1>1, UndefinedStep DEF CloseAccept
<1>2. CASE ~ temp.released
  <2>1. /\ pc = "idle" /\ open' = FALSE /\ identified' = FALSE /\ temp' = NoPacket
        /\ tempLength' = 0
        /\ UNCHANGED <<connections, stream, got, from, to, pc, dispatched, intact>>
    BY <1>2 DEF CloseAccept
  <2>2. \A k : EndOf(k)' = EndOf(k)  BY <2>1, SameEnds
  <2>3. tempLength' \in 0 .. HeadLength  BY <2>1, Position
  <2>4. TypeOK'  BY <2>1, <2>3, NoPacketType DEF IInv, TypeOK
  <2>5. ~ Incomplete'  BY <2>1 DEF Incomplete
  <2>6. BufferOK'  BY <2>1, <2>5 DEF BufferOK
  <2>7. (intact => PositionOK)'  BY <2>1, <2>2, <2>5 DEF IInv, PositionOK
  <2>8. NoByteLost'  BY <2>1 DEF NoByteLost
  <2>9. FramesInOrder'  BY <2>1, <2>2 DEF IInv, FramesInOrder
  <2> QED  BY <2>4, <2>6, <2>7, <2>8, <2>9 DEF IInv
<1> QED  BY <1>1, <1>2

\* What the last connection has left in the object is still there, unless the
\* connection is clean.
LEMMA OpenAcceptStep ==
  ASSUME IInv, OpenAccept
  PROVE  IInv'
<1>1. /\ got' = 0 /\ open' = TRUE /\ identified' = FALSE /\ from' = 0 /\ to' = 0
      /\ pc = "idle" /\ pc' = "idle" /\ dispatched' = <<>>
      /\ temp' = temp /\ tempLength' = tempLength
      /\ intact' = (temp = NoPacket /\ tempLength = 0)
      /\ connections' = connections + 1 /\ connections < MaxConnections
  BY DEF OpenAccept
<1>2. stream' \in Seq(Packets)
  <2>1. PICK n \in 1 .. MaxPackets : stream' \in [1 .. n -> Packets]
    BY DEF OpenAccept, Streams
  <2>2. n \in Nat  BY AcceptReadAssumption
  <2> QED  BY <2>1, <2>2, SeqDef
<1>3. EndsOK'  BY <1>2, EndsOfNextStream
<1>4. Len(stream') \in Nat /\ Len(dispatched') = 0 /\ DOMAIN dispatched' = {}
  BY <1>1, <1>2, LenProperties
<1>5. EndOf(0)' = 0 /\ EndOf(Len(stream))' \in Nat
  BY <1>3, <1>4 DEF EndsOK
<1>6. connections' \in 1 .. MaxConnections
  BY <1>1, AcceptReadAssumption DEF IInv, TypeOK
<1>7. TypeOK'
  <2>1. intact' \in BOOLEAN /\ dispatched' \in Seq(Int)  BY <1>1
  <2>2. temp' \in [at : Int, length : Nat, register : BOOLEAN, have : Nat, released : BOOLEAN]
        /\ tempLength' \in 0 .. HeadLength
    BY <1>1 DEF IInv, TypeOK
  <2>3. from' = 0 /\ to' = 0 /\ got' = 0 /\ pc' = "idle"  BY <1>1
  <2>4. open' \in BOOLEAN /\ identified' \in BOOLEAN  BY <1>1
  <2> QED  BY <1>2, <1>6, <2>1, <2>2, <2>3, <2>4 DEF TypeOK
<1>8. BufferOK'  BY <1>1 DEF IInv, BufferOK, Incomplete
<1>9. intact' => ~ Incomplete'  BY <1>1 DEF Incomplete
<1>10. (intact => PositionOK)'  BY <1>1, <1>5, <1>9 DEF PositionOK
<1>11. NoByteLost'
  <2>1. EndOf(Len(dispatched))' = 0  BY <1>4, <1>5
  <2>2. intact' => temp' = NoPacket /\ tempLength' = 0  BY <1>1
  <2>3. intact' => Kept' = 0  BY <2>2 DEF Kept
  <2> QED  BY <1>1, <2>1, <2>3 DEF NoByteLost
<1>12. FramesInOrder'  BY <1>4 DEF FramesInOrder
<1> QED  BY <1>7, <1>8, <1>10, <1>11, <1>12 DEF IInv

LEMMA StutterStep ==
  ASSUME IInv, UNCHANGED vars
  PROVE  IInv'
<1> USE DEF vars
<1>1. \A k : EndOf(k)' = EndOf(k)  BY SameEnds
<1>2. TypeOK'  BY DEF IInv, TypeOK
<1>3. Incomplete' = Incomplete /\ Expected' = Expected /\ Kept' = Kept
  BY DEF Incomplete, Expected, Kept
<1>4. BufferOK'  BY <1>3 DEF IInv, BufferOK
<1>5. (intact => PositionOK)'  BY <1>1, <1>3 DEF IInv, PositionOK
<1>6. NoByteLost'  BY <1>1, <1>3 DEF IInv, NoByteLost
<1>7. FramesInOrder'  BY <1>1 DEF IInv, FramesInOrder
<1> QED  BY <1>2, <1>4, <1>5, <1>6, <1>7 DEF IInv

LEMMA NextInvariant ==
  ASSUME IInv, [Next]_vars
  PROVE  IInv'
<1>1. ASSUME NEW n \in 1 .. EndOf(Len(stream)), ReadSocket(n) PROVE IInv'
  BY <1>1, ReadSocketStep
<1>2. CASE FollowReleasedPacket  BY <1>2, UndefinedStep DEF FollowReleasedPacket
<1>3. CASE ExtendTempPacket  BY <1>3, ExtendTempPacketStep
<1>4. CASE CompleteTempPacket  BY <1>4, CompleteTempPacketStep
<1>5. CASE KeepHead  BY <1>5, KeepHeadStep
<1>6. CASE ParsePacket  BY <1>6, ParsePacketStep
<1>7. CASE DiscardBuffer  BY <1>7, DiscardBufferStep
<1>8. CASE CloseAccept  BY <1>8, CloseAcceptStep
<1>9. CASE OpenAccept  BY <1>9, OpenAcceptStep
<1>10. CASE UNCHANGED vars  BY <1>10, StutterStep
<1> QED  BY <1>1, <1>2, <1>3, <1>4, <1>5, <1>6, <1>7, <1>8, <1>9, <1>10 DEF Next

-----------------------------------------------------------------------------
(***************************************************************************)
(* Theorems                                                                *)
(***************************************************************************)

\* The parser of onAcceptRead is always behind the packets it has dispatched,
\* and m_tempReadPacket is the next packet, for all packets of the peer and
\* all ways of reading their bytes.
THEOREM InductiveInvariant == Spec => []IInv
<1>1. Init => IInv  BY InitInvariant
<1>2. IInv /\ [Next]_vars => IInv'  BY NextInvariant
<1> QED  BY <1>1, <1>2, PTL DEF Spec

\* The packets that onAcceptRead dispatches are the first packets of the peer,
\* each one once and in order.
THEOREM PacketsInStreamOrder == Spec => []FramesInOrder
<1>1. IInv => FramesInOrder  BY DEF IInv
<1> QED  BY <1>1, InductiveInvariant, PTL

\* A packet with a body that has been received is not kept between two reads.
LEMMA CompletePacketsAreDispatched ==
  ASSUME IInv
  PROVE  DispatchedWhenComplete
<1> SUFFICES ASSUME intact, Len(dispatched) < Len(stream), Expected.length > HeadLength
             PROVE  Kept < Expected.length
  BY DEF DispatchedWhenComplete, Expected
<1>1. Expected.length \in Nat  BY NextPacket
<1>2. tempLength \in Nat /\ tempLength <= HeadLength /\ temp.have \in Nat /\ HeadLength \in Nat
  BY Position DEF IInv, TypeOK
<1>3. CASE Incomplete
  <2>1. tempLength = 0 /\ temp.have < temp.length  BY <1>3 DEF IInv, BufferOK
  <2>2. temp.length = Expected.length  BY <1>3 DEF IInv, PositionOK
  <2>3. Kept = temp.have  BY <1>2, <1>3, <2>1 DEF Kept, Incomplete
  <2> QED  BY <2>1, <2>2, <2>3
<1>4. CASE ~ Incomplete
  <2>1. Kept = tempLength  BY <1>2, <1>4 DEF Kept, Incomplete
  <2> QED  BY <1>1, <1>2, <2>1
<1> QED  BY <1>3, <1>4

\* Between two reads every byte received belongs to a packet that has been
\* dispatched or is kept for the next read, and no packet with a body is
\* withheld once it is complete.
THEOREM BytesAreAccountedFor == Spec => []Inv
<1>1. IInv => Inv  BY CompletePacketsAreDispatched DEF IInv, Inv
<1> QED  BY <1>1, InductiveInvariant, PTL
=============================================================================
