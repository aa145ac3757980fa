------------------------------ MODULE AcceptRead ------------------------------
(***************************************************************************)
(* How an accepted connection cuts the bytes of its socket into packets:   *)
(* onAcceptRead (gamma/epollhandler.cpp) with Accept::readSocket,          *)
(* Accept::dispatchPacket and Accept::resetData (libcore/accept.cpp).      *)
(*                                                                         *)
(* A packet starts with a head that holds its length.  The peer sends      *)
(* packets one after the other and a read returns any number of the bytes  *)
(* that are left.  Between two reads the connection keeps either the       *)
(* packet it has not received all of, m_tempReadPacket, or the bytes of a  *)
(* head it has not received all of, m_tempHead.  Dispatching a packet may  *)
(* close the connection; the loop then goes on with the object, which is   *)
(* idle and will serve another connection.                                 *)
(*                                                                         *)
(* A byte is its position in the stream of the connection, and a buffer is *)
(* an interval of positions; bytes left by an earlier connection come      *)
(* before position 0.  All of it runs in one epoll thread: an action is a  *)
(* read, or a step of the parser with the dispatch it makes.               *)
(***************************************************************************)
EXTENDS Integers, Sequences

CONSTANTS HeadLength,    \* PACKET_HEAD_LENGTH
          Lengths,       \* the lengths of the packets the peer sends
          MaxUnknown,    \* MAX_LENGTH_NOT_IDENTIFY
          MaxIdentified, \* MAX_LENGTH_IDENTIFY
          MaxPackets,    \* bound: packets of a connection
          MaxConnections \* bound: connections the object serves

ASSUME AcceptReadAssumption ==
    /\ HeadLength \in Nat \ {0}
    /\ Lengths \subseteq {n \in Nat : n >= HeadLength}
    /\ MaxUnknown \in Nat
    /\ MaxIdentified \in Nat
    /\ MaxPackets \in Nat
    /\ MaxConnections \in Nat \ {0}

VARIABLES
    connections,  \* how many connections the object has served
    stream,       \* the packets the peer sends
    got,          \* how many bytes read() has returned
    open,         \* m_fd # 0
    identified,   \* m_connectionState >= CS_IDENTIFY_OK
    temp,         \* m_tempReadPacket
    tempLength,   \* m_tempLength, the number of bytes in m_tempHead
    from, to,     \* the bytes of the read buffer that are not parsed yet
    pc,           \* where onAcceptRead is
    dispatched,   \* the packets given to dispatchPacket, by their positions
    intact        \* history: the connection began with a clean object, and no
                  \* byte of it was discarded

vars == <<connections, stream, got, open, identified, temp, tempLength,
          from, to, pc, dispatched, intact>>

Packets == [length : Lengths, register : BOOLEAN]
Streams == UNION {[1 .. n -> Packets] : n \in 1 .. MaxPackets}

NoPacket == [at |-> 0, length |-> 0, register |-> FALSE, have |-> 0, released |-> FALSE]

Init ==
    /\ connections = 1
    /\ stream \in Streams
    /\ got = 0
    /\ open = TRUE
    /\ identified = FALSE
    /\ temp = NoPacket
    /\ tempLength = 0
    /\ from = 0 /\ to = 0
    /\ pc = "idle"
    /\ dispatched = <<>>
    /\ intact = TRUE

-----------------------------------------------------------------------------
\* The position of the first byte after the first k packets
EndOf(k) ==
    LET end[i \in 0 .. Len(stream)] ==
            IF i = 0 THEN 0 ELSE end[i - 1] + stream[i].length
    IN end[k]

\* What PacketHead at position p may say: bytes that are not those of a head
\* may say anything.
HeadsAt(p) ==
    IF \E k \in DOMAIN stream : EndOf(k - 1) = p
    THEN {stream[k] : k \in {i \in DOMAIN stream : EndOf(i - 1) = p}}
    ELSE [length : Lengths \union {0}, register : BOOLEAN]

\* Accept::getMaxLength
MaxLengthNow == IF identified THEN MaxIdentified ELSE MaxUnknown

\* What dispatchPacket does to the connection.  A packet that is not a
\* registration closes a connection that is not identified.  A registration is
\* accepted, or refused, or accepted while its answer cannot be sent; the
\* handler of any other packet may close the connection by a failing send.
\* epollRemove does nothing to a connection that is closed already.
DispatchOutcomes(register) ==
    IF register
    THEN {[closes |-> FALSE, identified |-> TRUE],
          [closes |-> open, identified |-> TRUE],
          [closes |-> open, identified |-> identified /\ ~ open]}
    ELSE IF identified
    THEN {[closes |-> FALSE, identified |-> TRUE],
          [closes |-> open, identified |-> ~ open]}
    ELSE {[closes |-> open, identified |-> FALSE]}

-----------------------------------------------------------------------------
\* The bytes of m_tempHead are not put in front of the bytes read.
WrongReadSocket(n) ==
    /\ pc = "idle"
    /\ open
    /\ n <= EndOf(Len(stream)) - got
    /\ got' = got + n
    /\ from' = got
    /\ to' = got + n
    /\ tempLength' = 0
    /\ pc' = IF temp = NoPacket THEN "first" ELSE "temp"
    /\ UNCHANGED <<connections, stream, open, identified, temp, dispatched, intact>>

\* Accept::readSocket returns n bytes behind those of m_tempHead.
ReadSocket(n) ==
    /\ pc = "idle"
    /\ open
    /\ n <= EndOf(Len(stream)) - got
    /\ got' = got + n
    /\ from' = got - tempLength
    /\ to' = got + n
    /\ tempLength' = 0
    /\ pc' = IF temp = NoPacket THEN "first" ELSE "temp"
    /\ UNCHANGED <<connections, stream, open, identified, temp, dispatched, intact>>

\* From here on the behaviour is undefined: the packet has been deleted.
UseReleasedPacket ==
    /\ pc' = "undefined"
    /\ UNCHANGED <<connections, stream, got, open, identified, temp, tempLength,
                   from, to, dispatched, intact>>

\* m_tempReadPacket points to a packet that has been dispatched and released.
FollowReleasedPacket ==
    /\ pc = "temp"
    /\ temp.released
    /\ UseReleasedPacket

Needed == temp.length - temp.have

\* The packet of earlier reads is still not complete.
ExtendTempPacket ==
    /\ pc = "temp"
    /\ ~ temp.released
    /\ Needed > to - from
    /\ temp' = [temp EXCEPT !.have = @ + to - from]
    /\ from' = to
    /\ pc' = "idle"
    /\ UNCHANGED <<connections, stream, got, open, identified, tempLength, to,
                   dispatched, intact>>

\* It is complete: dispatched and released.  m_tempReadPacket is cleared only
\* if nothing is left to parse.  A dispatch that closes the connection has
\* released the packet in resetData, and the release here is one too many.
CompleteTempPacket ==
    /\ pc = "temp"
    /\ ~ temp.released
    /\ Needed <= to - from
    /\ \E d \in DispatchOutcomes(temp.register) :
         IF d.closes THEN UseReleasedPacket
         ELSE /\ dispatched' = Append(dispatched, temp.at)
              /\ identified' = d.identified
              /\ from' = from + Needed
              /\ IF Needed = to - from
                 THEN temp' = NoPacket /\ pc' = "idle"
                 ELSE temp' = [temp EXCEPT !.released = TRUE] /\ pc' = "first"
              /\ UNCHANGED <<connections, stream, got, open, tempLength, to, intact>>

\* The bytes are not kept.
WrongKeepHead ==
    /\ pc = "first"
    /\ to - from < HeadLength
    /\ from' = to
    /\ pc' = "idle"
    /\ UNCHANGED <<connections, stream, got, open, identified, temp, tempLength, to,
                   dispatched, intact>>

\* Less than a head is left: the bytes go to m_tempHead.
KeepHead ==
    /\ pc = "first"
    /\ to - from < HeadLength
    /\ tempLength' = to - from
    /\ from' = to
    /\ pc' = "idle"
    /\ UNCHANGED <<connections, stream, got, open, identified, temp, to,
                   dispatched, intact>>

\* resetData, when the packet in m_tempReadPacket has not been released
Closing(d) == d.closes => ~ temp.released

\* A packet that is not complete ends the buffer.
KeepPacket(p) ==
    /\ p.length > to - from
    /\ temp' = [at |-> from, length |-> p.length, register |-> p.register,
                have |-> to - from, released |-> FALSE]
    /\ from' = to
    /\ pc' = "idle"
    /\ UNCHANGED <<open, identified, tempLength, dispatched>>

\* A complete packet is dispatched and released.  The loop goes on if more than
\* a head is left; otherwise what is left goes to m_tempHead.  It does so even
\* if the dispatch has closed the connection.
DispatchPacket(p) ==
    LET rest == to - from - p.length IN
    /\ rest >= 0
    /\ \E d \in DispatchOutcomes(p.register) :
         IF ~ Closing(d) THEN UseReleasedPacket
         ELSE /\ open' = (open /\ ~ d.closes)
              /\ identified' = d.identified
              /\ dispatched' = Append(dispatched, from)
              /\ from' = from + p.length
              /\ IF rest > HeadLength
                 THEN /\ temp' = IF d.closes THEN NoPacket ELSE temp
                      /\ pc' = "more"
                      /\ UNCHANGED tempLength
                 ELSE /\ temp' = NoPacket
                      /\ tempLength' = rest
                      /\ pc' = "idle"

ValidLength(n) == HeadLength <= n /\ n <= MaxLengthNow

\* An iteration of the loop over the packets of the buffer
ParsePacket ==
    /\ pc \in {"first", "more"}
    /\ to - from >= HeadLength
    /\ \E p \in HeadsAt(from) :
          /\ ValidLength(p.length)
          /\ KeepPacket(p) \/ DispatchPacket(p)
    /\ UNCHANGED <<connections, stream, got, to, intact>>

\* The length in the head is invalid: the rest of the buffer is discarded.
DiscardBuffer ==
    /\ pc \in {"first", "more"}
    /\ to - from >= HeadLength
    /\ \E p \in HeadsAt(from) : ~ ValidLength(p.length)
    /\ temp' = NoPacket
    /\ from' = to
    /\ pc' = "idle"
    /\ intact' = FALSE
    /\ UNCHANGED <<connections, stream, got, open, identified, tempLength, to, dispatched>>

\* closeAccept between two reads: the peer has gone, a timer, a failed send
CloseAccept ==
    /\ pc = "idle"
    /\ open
    /\ IF temp.released THEN UseReleasedPacket
       ELSE /\ open' = FALSE
            /\ identified' = FALSE
            /\ temp' = NoPacket
            /\ tempLength' = 0
            /\ UNCHANGED <<connections, stream, got, from, to, pc, dispatched, intact>>

\* EpollWorker::openAccept with the idle object, as the close has left it
OpenAccept ==
    /\ pc = "idle"
    /\ ~ open
    /\ connections < MaxConnections
    /\ connections' = connections + 1
    /\ stream' \in Streams
    /\ got' = 0
    /\ open' = TRUE
    /\ identified' = FALSE
    /\ from' = 0 /\ to' = 0
    /\ dispatched' = <<>>
    /\ intact' = (temp = NoPacket /\ tempLength = 0)
    /\ UNCHANGED <<temp, tempLength, pc>>

Next ==
    \/ \E n \in 1 .. EndOf(Len(stream)) : ReadSocket(n)
    \/ FollowReleasedPacket
    \/ ExtendTempPacket
    \/ CompleteTempPacket
    \/ KeepHead
    \/ ParsePacket
    \/ DiscardBuffer
    \/ CloseAccept
    \/ OpenAccept

Spec == Init /\ [][Next]_vars

-----------------------------------------------------------------------------
(***************************************************************************)
(* Properties                                                              *)
(***************************************************************************)

\* The leftover of a read fits into m_tempHead.
TypeOK ==
    /\ connections \in 1 .. MaxConnections
    /\ stream \in Seq(Packets)
    /\ got \in Nat
    /\ open \in BOOLEAN
    /\ identified \in BOOLEAN
    /\ temp \in [at : Int, length : Nat, register : BOOLEAN, have : Nat, released : BOOLEAN]
    /\ tempLength \in 0 .. HeadLength
    /\ from \in Int
    /\ to \in Int
    /\ pc \in {"idle", "temp", "first", "more", "undefined"}
    /\ dispatched \in Seq(Int)
    /\ intact \in BOOLEAN

\* However the bytes are split into reads, the packets dispatched are the first
\* packets of the peer, each one once and in order.
FramesInOrder ==
    intact => /\ Len(dispatched) <= Len(stream)
              /\ \A k \in DOMAIN dispatched : dispatched[k] = EndOf(k - 1)

\* The bytes kept between two reads
Kept == tempLength + IF temp = NoPacket \/ temp.released THEN 0 ELSE temp.have

\* Between two reads every byte received belongs to a packet that has been
\* dispatched or is kept in front of the next read, once.
NoByteLost ==
    intact /\ open /\ pc = "idle" => got = EndOf(Len(dispatched)) + Kept

\* A packet that has a body is dispatched by the read that completes it.
DispatchedWhenComplete ==
    intact /\ open /\ pc = "idle" /\ Len(dispatched) < Len(stream) =>
        LET length == stream[Len(dispatched) + 1].length IN
        length > HeadLength => Kept < length

\* Between two reads nothing is lost, doubled or withheld.
Inv == TypeOK /\ NoByteLost /\ DispatchedWhenComplete

\* "after the temporary data has been used, it has to be cleared"
\* (epollhandler.cpp:36): between two reads m_tempReadPacket does not point to a
\* packet that has been dispatched and released.
TempPacketCleared == pc = "idle" => ~ temp.released

-----------------------------------------------------------------------------
(***************************************************************************)
(* The inductive invariant.                                                *)
(***************************************************************************)

\* m_tempReadPacket waits for the rest of its packet.
Incomplete == temp # NoPacket /\ ~ temp.released

\* The buffer of the read being parsed, and what is kept between two reads, of
\* this connection or of an earlier one
BufferOK ==
    /\ pc \in {"temp", "first", "more"} => from <= to /\ tempLength = 0
    /\ pc = "temp" => temp # NoPacket
    /\ pc \in {"first", "more"} => ~ Incomplete
    /\ Incomplete => tempLength = 0 /\ temp.have < temp.length

\* The packet that comes next in the stream
Expected == stream[Len(dispatched) + 1]

\* Where the parser is in the stream: behind the packets it has dispatched
PositionOK ==
    /\ got <= EndOf(Len(stream))
    /\ Incomplete =>
          /\ Len(dispatched) < Len(stream)
          /\ temp.at = EndOf(Len(dispatched))
          /\ temp.length = Expected.length /\ temp.register = Expected.register
    /\ pc = "temp" /\ ~ temp.released =>
          from = EndOf(Len(dispatched)) + temp.have /\ to = got
    /\ pc \in {"first", "more"} =>
          from = EndOf(Len(dispatched)) /\ to = got

IInv ==
    /\ TypeOK
    /\ BufferOK
    /\ intact => PositionOK
    /\ NoByteLost
    /\ FramesInOrder
=============================================================================
