----------------------------- MODULE NodeConnect -----------------------------
(***************************************************************************)
(* How a node connects to the other nodes of its cluster: MainHandler      *)
(* (gamma/mainhandler.cpp) and the route table GlobalNode                  *)
(* (libcore/globalnode.h), with the clients of the epoll threads           *)
(* (libcore/epollworker.cpp, client.cpp) and the timers that reconnect.    *)
(*                                                                         *)
(* The main handler runs its tasks one after the other.  It asks an epoll  *)
(* thread, chosen in turn, to open a client, is told the client's handle,  *)
(* then that the connection is established, and enters the handle in the   *)
(* route table.  A closed client is reported to it as well: it clears the  *)
(* route and connects again after some seconds.  Nodes tell each other the *)
(* addresses they know; a changed address closes the client and opens      *)
(* another.  Handler and epoll threads know of each other only by tasks:   *)
(* between two threads they stay in order, between three they do not.      *)
(*                                                                         *)
(* Every action is one task of the handler, one task of an epoll thread,   *)
(* or one event of a client's socket.  The other nodes are environment.    *)
(***************************************************************************)
EXTENDS Integers, Sequences, FiniteSets

CONSTANTS Nodes,      \* the other nodes (a node does not connect to itself)
          Discovery,  \* the node of the configuration, m_destID
          Addresses,  \* what HiveInformation may say of a node
          Workers,    \* the epoll threads
          NoAddress,
          MaxHandle,  \* bound: clients opened
          MaxGossip,  \* bound: addresses received from other nodes
          MaxLost     \* bound: connections lost or refused

ASSUME NodeConnectAssumption ==
    /\ Discovery \in Nodes
    /\ NoAddress \notin Addresses
    /\ MaxHandle \in Nat
    /\ MaxGossip \in Nat
    /\ MaxLost \in Nat

Handles == 1 .. MaxHandle

VARIABLES
    info,          \* m_hiveNodes
    handleToNode,  \* m_handleToNode, a partial function of handles; also of 0
    route,         \* GlobalNode::m_nodeConnects, 0 for no connection
    tasks,         \* the task queue of the main handler
    mailbox,       \* the task queue of each epoll thread
    client,        \* the Client objects, by the order of their opening
    timers,        \* running timers of the main handler, by their callback
    gossip, lost,  \* how many addresses were received, connections lost
    failed         \* history: the last openClient for the node returned 0

vars == <<info, handleToNode, route, tasks, mailbox, client, timers, gossip, lost, failed>>

Task(type, node, handle, address) ==
    [type |-> type, node |-> node, handle |-> handle, address |-> address]

\* The tasks of the handler and of the epoll threads
OpenClientTask(n, h, a) == Task("OpenClient", n, h, a)
OpenClientOKTask(h) == Task("OpenClientOK", Discovery, h, NoAddress)
CloseConnectTask(h) == Task("CloseConnect", Discovery, h, NoAddress)
TimerUpdateTask(n) == Task("TimerUpdate", n, 0, NoAddress)
RegisterTask(n, a) == Task("Hive", n, 0, a)         \* one HiveInformation
ResponseTask(h) == Task("Response", Discovery, h, NoAddress)
SendTask(h) == Task("Send", Discovery, h, NoAddress)

Init ==
    /\ info = [n \in Nodes |-> NoAddress]
    /\ handleToNode = <<>>
    /\ route = [n \in Nodes |-> 0]
    /\ \E a \in Addresses : tasks = <<RegisterTask(Discovery, a)>>  \* onConnectInitialize
    /\ mailbox = [w \in Workers |-> <<>>]
    /\ client = <<>>
    /\ timers = [n \in Nodes |-> 0]
    /\ gossip = 0 /\ lost = 0
    /\ failed = [n \in Nodes |-> FALSE]

-----------------------------------------------------------------------------
(***************************************************************************)
(* The main handler.  Its next task is Head(tasks).                        *)
(***************************************************************************)

\* GlobalService::dispatchTaskToEpollWorkerHandle: the handle names its thread.
PostToWorkerOf(box, h, t) == [box EXCEPT ![client[h].worker] = Append(@, t)]

\* checkNodeConnect, given the table after what the caller did to it: a client
\* is opened by the next thread in turn, unless the node has a route.
CheckNodeConnect(n, routes, a, box) ==
    IF routes[n] > 0
    THEN mailbox' = box /\ UNCHANGED failed
    ELSE /\ \E w \in Workers :
              mailbox' = [box EXCEPT ![w] = Append(@, OpenClientTask(n, 0, a))]
         /\ failed' = [failed EXCEPT ![n] = FALSE]

\* An address that is already known changes nothing.  A new address of a known
\* node clears the route and closes the client in it.
OnHive(t) ==
    /\ t.type = "Hive"
    /\ IF info[t.node] = t.address
       THEN UNCHANGED <<info, route, mailbox, failed>>
       ELSE LET n == t.node
                old == route[n]
                box == IF old > 0
                       THEN PostToWorkerOf(mailbox, old, CloseConnectTask(old))
                       ELSE mailbox
            IN /\ info' = [info EXCEPT ![n] = t.address]
               /\ route' = [route EXCEPT ![n] = 0]
               /\ CheckNodeConnect(n, route', t.address, box)
    /\ UNCHANGED <<handleToNode, timers>>

\* The handle is recorded, also the 0 of a failure.
OnOpenClient(t) ==
    /\ t.type = "OpenClient"
    /\ handleToNode' = [h \in DOMAIN handleToNode \union {t.handle} |->
                          IF h = t.handle THEN t.node ELSE handleToNode[h]]
    /\ UNCHANGED <<info, route, mailbox, timers, failed>>

\* The handle goes to the route table, and the node identifies itself.
OnOpenClientOK(t) ==
    /\ t.type = "OpenClientOK"
    /\ route' = IF t.handle \in DOMAIN handleToNode
                THEN [route EXCEPT ![handleToNode[t.handle]] = t.handle]
                ELSE route
    /\ mailbox' = PostToWorkerOf(mailbox, t.handle, SendTask(t.handle))
    /\ UNCHANGED <<info, handleToNode, timers, failed>>

Forget(h) == [x \in DOMAIN handleToNode \ {h} |-> handleToNode[x]]

\* What OnCloseConnect may get wrong: whether it clears the route, and whether
\* it starts the timer
WrongCloseConnect(t, clears, starts) ==
    /\ t.type = "CloseConnect"
    /\ IF t.handle \in DOMAIN handleToNode
       THEN LET n == handleToNode[t.handle] IN
            /\ handleToNode' = Forget(t.handle)
            /\ route' = IF clears THEN [route EXCEPT ![n] = 0] ELSE route
            /\ timers' = IF starts THEN [timers EXCEPT ![n] = @ + 1] ELSE timers
       ELSE UNCHANGED <<handleToNode, route, timers>>
    /\ UNCHANGED <<info, mailbox, failed>>

WrongOnCloseConnectRoute(t) == WrongCloseConnect(t, FALSE, TRUE)
WrongOnCloseConnectTimer(t) == WrongCloseConnect(t, TRUE, FALSE)

\* A handle that is known is forgotten, the route of its node is cleared, even
\* if another client has it by now, and a timer will connect again.
OnCloseConnect(t) ==
    /\ t.type = "CloseConnect"
    /\ IF t.handle \in DOMAIN handleToNode
       THEN LET n == handleToNode[t.handle] IN
            /\ handleToNode' = Forget(t.handle)
            /\ route' = [route EXCEPT ![n] = 0]
            /\ timers' = [timers EXCEPT ![n] = @ + 1]
       ELSE UNCHANGED <<handleToNode, route, timers>>
    /\ UNCHANGED <<info, mailbox, failed>>

\* The timer waits for nothing else, but the node is not connected.
WrongOnTimerUpdate(t) ==
    /\ t.type = "TimerUpdate"
    /\ UNCHANGED <<info, handleToNode, route, mailbox, timers, failed>>

OnTimerUpdate(t) ==
    /\ t.type = "TimerUpdate"
    /\ CheckNodeConnect(t.node, route, info[t.node], mailbox)
    /\ UNCHANGED <<info, handleToNode, route, timers>>

\* The remote node has accepted the identification: registerHive.
OnResponse(t) ==
    /\ t.type = "Response"
    /\ mailbox' = PostToWorkerOf(mailbox, t.handle, SendTask(t.handle))
    /\ UNCHANGED <<info, handleToNode, route, timers, failed>>

HandleTask ==
    /\ tasks # <<>>
    /\ LET t == Head(tasks) IN
       \/ OnHive(t)
       \/ OnOpenClient(t)
       \/ OnOpenClientOK(t)
       \/ OnCloseConnect(t)
       \/ OnTimerUpdate(t)
       \/ OnResponse(t)
    /\ tasks' = Tail(tasks)
    /\ UNCHANGED <<client, gossip, lost>>

\* A timer of the main handler is due: its task joins the queue.
TimerFires(n) ==
    /\ timers[n] > 0
    /\ timers' = [timers EXCEPT ![n] = @ - 1]
    /\ tasks' = Append(tasks, TimerUpdateTask(n))
    /\ UNCHANGED <<info, handleToNode, route, mailbox, client, gossip, lost, failed>>

-----------------------------------------------------------------------------
(***************************************************************************)
(* The epoll threads.  The next task of w is Head(mailbox[w]).             *)
(***************************************************************************)

IsOpen(h) == client[h].state # "closed"

\* openClient fails before there is a connection: no descriptor, no object, a
\* connect that is refused at once.  The handler is told the handle 0.
OpenClientFails(w, t) ==
    /\ t.type = "OpenClient"
    /\ tasks' = Append(tasks, OpenClientTask(t.node, 0, t.address))
    /\ failed' = [failed EXCEPT ![t.node] = TRUE]
    /\ UNCHANGED client

\* A new client; its handle was not given before (a pool has 65535 of them).
OpenClient(w, t) ==
    /\ t.type = "OpenClient"
    /\ Len(client) < MaxHandle
    /\ client' = Append(client, [state |-> "connecting", node |-> t.node,
                                 address |-> t.address, worker |-> w, sent |-> 0])
    /\ tasks' = Append(tasks, OpenClientTask(t.node, Len(client) + 1, t.address))
    /\ UNCHANGED failed

\* CloseConnectTask: the handler is told, found or not.
CloseConnect(w, t) ==
    /\ t.type = "CloseConnect"
    /\ client' = [client EXCEPT ![t.handle].state = "closed"]
    /\ tasks' = Append(tasks, CloseConnectTask(t.handle))
    /\ UNCHANGED failed

\* DispatchToConnectTask: a packet for a closed client is dropped.
DispatchToConnect(w, t) ==
    /\ t.type = "Send"
    /\ client' = IF IsOpen(t.handle)
                 THEN [client EXCEPT ![t.handle].sent = @ + 1]
                 ELSE client
    /\ UNCHANGED <<tasks, failed>>

WorkerTask(w) ==
    /\ mailbox[w] # <<>>
    /\ LET t == Head(mailbox[w]) IN
       \/ OpenClientFails(w, t)
       \/ OpenClient(w, t)
       \/ CloseConnect(w, t)
       \/ DispatchToConnect(w, t)
    /\ mailbox' = [mailbox EXCEPT ![w] = Tail(@)]
    /\ UNCHANGED <<info, handleToNode, route, timers, gossip, lost>>

-----------------------------------------------------------------------------
(***************************************************************************)
(* The sockets of the clients, and what other nodes send.                  *)
(***************************************************************************)

\* Client::epollActive: the connect is complete, receiveClient.
ConnectOK(h) ==
    /\ client[h].state = "connecting"
    /\ client' = [client EXCEPT ![h].state = "connected"]
    /\ tasks' = Append(tasks, OpenClientOKTask(h))
    /\ UNCHANGED <<info, handleToNode, route, mailbox, timers, gossip, lost, failed>>

\* closeClient comes before notifyCloseConnect: the object has forgotten its
\* handler when it is to be told.
WrongEpollRemove(h) ==
    /\ IsOpen(h)
    /\ lost < MaxLost
    /\ client' = [client EXCEPT ![h].state = "closed"]
    /\ lost' = lost + 1
    /\ UNCHANGED <<info, handleToNode, route, tasks, mailbox, timers, gossip, failed>>

\* Client::epollRemove: the connect fails, the peer closes, a read or a write
\* fails.  The handler is told, then the object is closed.
EpollRemove(h) ==
    /\ IsOpen(h)
    /\ lost < MaxLost
    /\ client' = [client EXCEPT ![h].state = "closed"]
    /\ tasks' = Append(tasks, CloseConnectTask(h))
    /\ lost' = lost + 1
    /\ UNCHANGED <<info, handleToNode, route, mailbox, timers, gossip, failed>>

\* The remote node answers the identification, onCommandResponse.
CommandResponse(h) ==
    /\ client[h].state = "connected"
    /\ client[h].sent = 1
    /\ client' = [client EXCEPT ![h].state = "identified"]
    /\ tasks' = Append(tasks, ResponseTask(h))
    /\ UNCHANGED <<info, handleToNode, route, mailbox, timers, gossip, lost, failed>>

\* An address arrives: in the answer to the registration on one of our clients,
\* or in the registration of another node on a connection it opened.  The
\* addresses of one packet are as many tasks here.
CommandHive(n, a) ==
    /\ gossip < MaxGossip
    /\ gossip' = gossip + 1
    /\ tasks' = Append(tasks, RegisterTask(n, a))
    /\ UNCHANGED <<info, handleToNode, route, mailbox, client, timers, lost, failed>>

ConnectEnds(h) ==
    \/ ConnectOK(h)
    \/ client[h].state = "connecting" /\ EpollRemove(h)

Next ==
    \/ HandleTask
    \/ \E w \in Workers : WorkerTask(w)
    \/ \E n \in Nodes : TimerFires(n) \/ \E a \in Addresses : CommandHive(n, a)
    \/ \E h \in DOMAIN client : ConnectOK(h) \/ EpollRemove(h) \/ CommandResponse(h)

Spec == Init /\ [][Next]_vars

\* The threads run, a timer that is running fires, and the kernel decides every
\* connect.  Nothing has to be received, and no connection has to be lost.
FairSpec ==
    /\ Spec
    /\ WF_vars(HandleTask)
    /\ \A w \in Workers : WF_vars(WorkerTask(w))
    /\ \A n \in Nodes : WF_vars(TimerFires(n))
    /\ \A h \in Handles : WF_vars(h \in DOMAIN client /\ ConnectEnds(h))
-----------------------------------------------------------------------------
(***************************************************************************)
(* Properties                                                              *)
(***************************************************************************)

ClientRecord == [state : {"connecting", "connected", "identified", "closed"},
                 node : Nodes, address : Addresses, worker : Workers, sent : 0 .. 2]

TypeOK ==
    /\ info \in [Nodes -> Addresses \union {NoAddress}]
    /\ DOMAIN handleToNode \subseteq Handles \union {0}
    /\ \A h \in DOMAIN handleToNode : handleToNode[h] \in Nodes
    /\ route \in [Nodes -> Handles \union {0}]
    /\ client \in Seq(ClientRecord)
    /\ Len(client) <= MaxHandle
    /\ timers \in [Nodes -> Nat]
    /\ failed \in [Nodes -> BOOLEAN]
    /\ \A i \in DOMAIN tasks : tasks[i].handle \in 0 .. Len(client)
    /\ \A w \in Workers : \A i \in DOMAIN mailbox[w] :
          mailbox[w][i].handle \in 0 .. Len(client)

InTasks(t) == \E i \in DOMAIN tasks : tasks[i] = t
InMailbox(t) == \E w \in Workers : \E i \in DOMAIN mailbox[w] : mailbox[w][i] = t

\* The route of a node is a client that was opened to that node and whose close
\* will find it in m_handleToNode: what is sent to the node goes to it.
RouteLeadsToNode ==
    \A n \in Nodes : route[n] # 0 =>
        /\ route[n] \in DOMAIN handleToNode
        /\ handleToNode[route[n]] = n
        /\ client[route[n]].node = n

\* A handle the main handler remembers belongs to an open client, or the task
\* that makes it forget the handle is on its way: no entry and no route outlives
\* its connection for ever.
ClosesAreHandled ==
    \A h \in DOMAIN handleToNode \ {0} :
        ~ IsOpen(h) => InTasks(CloseConnectTask(h))

Inv == TypeOK /\ ClosesAreHandled

\* What will connect the node, or show that it is connected
Connecting(n) ==
    \/ timers[n] > 0
    \/ InTasks(TimerUpdateTask(n))
    \/ \E a \in Addresses : InMailbox(OpenClientTask(n, 0, a))
    \/ \E h \in DOMAIN client :
          /\ client[h].node = n
          /\ \/ client[h].state = "connecting"
             \/ InTasks(OpenClientOKTask(h))
             \/ InTasks(CloseConnectTask(h)) /\ h \in DOMAIN handleToNode
             \/ \E a \in Addresses : InTasks(OpenClientTask(n, h, a))

\* "connect again in seconds" (mainhandler.cpp:110): a known node is connected
\* or something will connect it, in every order of closes, timers and addresses,
\* unless the last client for it could not be opened at all.
NodeNeverForgotten ==
    \A n \in Nodes :
        info[n] # NoAddress /\ ~ failed[n] => route[n] # 0 \/ Connecting(n)

\* When connections are not lost any more and addresses are settled, every known
\* node gets a route to an open client and keeps it.
NodesGetConnected ==
    \A n \in Nodes :
        <>[]( info[n] # NoAddress /\ ~ failed[n] =>
                route[n] # 0 /\ IsOpen(route[n]) )

\* A client of the node is established at the node's address, the handler knows
\* it, and nobody is closing it.
Connected(n) ==
    \E h \in DOMAIN client \intersect DOMAIN handleToNode :
        /\ client[h].node = n
        /\ client[h].address = info[n]
        /\ client[h].state \in {"connected", "identified"}
        /\ ~ InTasks(OpenClientOKTask(h))
        /\ ~ InTasks(CloseConnectTask(h))
        /\ ~ InMailbox(CloseConnectTask(h))

\* "if the connection is already connected, skip" (mainhandler.cpp:252): the
\* timer opens no client for a node that has an established one.
ConnectedNodeSkipped ==
    [][ \A n \in Nodes :
          tasks # <<>> /\ Head(tasks) = TimerUpdateTask(n) /\ mailbox' # mailbox
          /\ tasks' = Tail(tasks) => ~ Connected(n) ]_vars

-----------------------------------------------------------------------------
(***************************************************************************)
(* The inductive invariant.                                                *)
(***************************************************************************)

TaskRecord == [type : {"OpenClient", "OpenClientOK", "CloseConnect", "TimerUpdate",
                       "Hive", "Response", "Send"},
               node : Nodes, handle : Nat, address : Addresses \union {NoAddress}]

\* Position i of queue q holds a task of this type for handle h.
Is(q, i, type, h) == q[i].type = type /\ q[i].handle = h

Opened == DOMAIN client

\* A task means what its type says; a node it names has an address.
TaskOK(t) ==
    /\ t.type # "Send"
    /\ t.type = "OpenClient" =>
          /\ t.handle \in Opened \union {0} /\ t.address \in Addresses
          /\ t.handle # 0 => t.node = client[t.handle].node
    /\ t.type = "OpenClientOK" => t.handle \in Opened /\ t = OpenClientOKTask(t.handle)
    /\ t.type = "CloseConnect" => t.handle \in Opened /\ t = CloseConnectTask(t.handle)
    /\ t.type = "TimerUpdate" => t = TimerUpdateTask(t.node) /\ info[t.node] # NoAddress
    /\ t.type = "Hive" => t.handle = 0 /\ t.address \in Addresses
    /\ t.type = "Response" => t.handle \in Opened /\ t = ResponseTask(t.handle)

TasksOK == tasks \in Seq(TaskRecord) /\ \A i \in DOMAIN tasks : TaskOK(tasks[i])

MailOK(t) ==
    \/ /\ t.type = "OpenClient" /\ t.handle = 0
       /\ t.address \in Addresses /\ info[t.node] # NoAddress
    \/ t.type = "CloseConnect" /\ t.handle \in Opened
    \/ t.type = "Send" /\ t.handle \in Opened

MailboxOK ==
    /\ mailbox \in [Workers -> Seq(TaskRecord)]
    /\ \A w \in Workers : \A i \in DOMAIN mailbox[w] : MailOK(mailbox[w][i])

\* The main handler knows the node of every handle, and its address.
HandlesOK ==
    /\ \A h \in DOMAIN handleToNode \ {0} : h \in Opened /\ handleToNode[h] = client[h].node
    /\ \A h \in Opened : info[client[h].node] # NoAddress
    /\ \A n \in Nodes : timers[n] > 0 => info[n] # NoAddress

\* The main handler hears of a client in this order: opened, connected, closed.
OrderOK ==
    \A h \in Opened :
        /\ client[h].state = "connecting" =>
              /\ \A i \in DOMAIN tasks : ~ Is(tasks, i, "CloseConnect", h)
              /\ \/ h \in DOMAIN handleToNode
                 \/ \E i \in DOMAIN tasks : Is(tasks, i, "OpenClient", h)
        /\ \A i \in DOMAIN tasks : Is(tasks, i, "OpenClientOK", h) =>
              /\ \A j \in DOMAIN tasks : Is(tasks, j, "CloseConnect", h) => i < j
              /\ \/ h \in DOMAIN handleToNode
                 \/ \E j \in DOMAIN tasks : j < i /\ Is(tasks, j, "OpenClient", h)
        /\ \A i \in DOMAIN tasks : Is(tasks, i, "OpenClient", h) =>
              \/ client[h].state = "connecting"
              \/ /\ client[h].state # "closed"
                 /\ \E j \in DOMAIN tasks : i < j /\ Is(tasks, j, "OpenClientOK", h)
              \/ \E j \in DOMAIN tasks : i < j /\ Is(tasks, j, "CloseConnect", h)

\* At most one packet of the node's identification is on its way at a time: the
\* task that makes the handler send one, or the packet itself.
Asks(h, i) == Is(tasks, i, "OpenClientOK", h) \/ Is(tasks, i, "Response", h)
Sends(h, w, i) == Is(mailbox[w], i, "Send", h)

Pending(h) ==
    \/ \E i \in DOMAIN tasks : Asks(h, i)
    \/ \E w \in Workers : \E i \in DOMAIN mailbox[w] : Sends(h, w, i)

IdentifiesOK ==
    \A h \in Opened :
        /\ \A i, j \in DOMAIN tasks : Asks(h, i) /\ Asks(h, j) => i = j
        /\ \A v, w \in Workers : \A i \in DOMAIN mailbox[v], j \in DOMAIN mailbox[w] :
              Sends(h, v, i) /\ Sends(h, w, j) => v = w /\ i = j
        /\ \A i \in DOMAIN tasks, w \in Workers : \A j \in DOMAIN mailbox[w] :
              ~ (Asks(h, i) /\ Sends(h, w, j))
        /\ Pending(h) => /\ client[h].sent <= 1
                         /\ client[h].state # "connecting"
                         /\ client[h].state = "connected" => client[h].sent = 0
        /\ client[h].state = "connecting" => client[h].sent = 0
        /\ client[h].state = "connected" => client[h].sent <= 1

IInv ==
    /\ TypeOK
    /\ TasksOK
    /\ MailboxOK
    /\ HandlesOK
    /\ OrderOK
    /\ IdentifiesOK
    /\ ClosesAreHandled
    /\ RouteLeadsToNode
    /\ NodeNeverForgotten
=============================================================================
