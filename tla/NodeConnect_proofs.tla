--------------------------- MODULE NodeConnect_proofs ---------------------------
(***************************************************************************)
(* Proofs about the connections between nodes, for any number of nodes,    *)
(* epoll threads, clients, addresses and lost connections: what the route  *)
(* table says is true, and no known node is forgotten.                     *)
(***************************************************************************)
EXTENDS NodeConnect, TLAPS, SequenceTheorems

-----------------------------------------------------------------------------
(***************************************************************************)
(* Lemmas on the queues and on the clients.                                *)
(***************************************************************************)

\* push_back
LEMMA Pushed ==
  ASSUME NEW S, NEW q \in Seq(S), NEW x \in S
  PROVE  /\ Append(q, x) \in Seq(S)
         /\ Len(q) \in Nat /\ DOMAIN q = 1 .. Len(q)
         /\ DOMAIN Append(q, x) = 1 .. Len(q) + 1
         /\ \A i \in 1 .. Len(q) : Append(q, x)[i] = q[i]
         /\ Append(q, x)[Len(q) + 1] = x
<1>1. /\ Append(q, x) \in Seq(S) /\ Len(Append(q, x)) = Len(q) + 1 /\ Len(q) \in Nat
      /\ DOMAIN q = 1 .. Len(q) /\ DOMAIN Append(q, x) = 1 .. Len(q) + 1
  BY LenProperties, AppendProperties
<1>2. \A i \in 1 .. Len(q) : Append(q, x)[i] = q[i]  BY <1>1, AppendProperties
<1>3. Append(q, x)[Len(q) + 1] = x  BY <1>1, AppendProperties
<1> QED  BY <1>1, <1>2, <1>3

\* pop_front
LEMMA Popped ==
  ASSUME NEW S, NEW q \in Seq(S), q # <<>>
  PROVE  /\ Head(q) \in S /\ Head(q) = q[1] /\ 1 \in DOMAIN q
         /\ Tail(q) \in Seq(S)
         /\ Len(q) \in Nat \ {0} /\ DOMAIN q = 1 .. Len(q)
         /\ DOMAIN Tail(q) = 1 .. Len(q) - 1
         /\ \A i \in 1 .. Len(q) - 1 : Tail(q)[i] = q[i + 1]
<1>1. /\ Len(q) \in Nat \ {0} /\ DOMAIN q = 1 .. Len(q) /\ Head(q) = q[1]
      /\ Head(q) \in S /\ Tail(q) \in Seq(S) /\ Len(Tail(q)) = Len(q) - 1
      /\ DOMAIN Tail(q) = 1 .. Len(q) - 1
      /\ \A i \in 1 .. Len(q) - 1 : Tail(q)[i] = q[i + 1]
  BY HeadTailProperties, LenProperties, EmptySeq
<1> QED  BY <1>1

\* A task is posted to the main handler.
LEMMA PushTask ==
  ASSUME TasksOK, NEW x \in TaskRecord, tasks' = Append(tasks, x)
  PROVE  /\ tasks' \in Seq(TaskRecord)
         /\ Len(tasks) \in Nat /\ DOMAIN tasks = 1 .. Len(tasks)
         /\ DOMAIN tasks' = 1 .. Len(tasks) + 1
         /\ \A i \in 1 .. Len(tasks) : tasks'[i] = tasks[i]
         /\ tasks'[Len(tasks) + 1] = x
BY Pushed DEF TasksOK

\* The main handler takes its next task.
LEMMA PopTask ==
  ASSUME TasksOK, tasks # <<>>, tasks' = Tail(tasks)
  PROVE  /\ tasks' \in Seq(TaskRecord)
         /\ Head(tasks) \in TaskRecord /\ Head(tasks) = tasks[1] /\ TaskOK(tasks[1])
         /\ Len(tasks) \in Nat \ {0} /\ DOMAIN tasks = 1 .. Len(tasks)
         /\ DOMAIN tasks' = 1 .. Len(tasks) - 1
         /\ \A i \in 1 .. Len(tasks) - 1 : tasks'[i] = tasks[i + 1] /\ i + 1 \in DOMAIN tasks
<1>1. tasks \in Seq(TaskRecord)  BY DEF TasksOK
<1>2. /\ Head(tasks) \in TaskRecord /\ Head(tasks) = tasks[1] /\ 1 \in DOMAIN tasks
      /\ tasks' \in Seq(TaskRecord)
      /\ Len(tasks) \in Nat \ {0} /\ DOMAIN tasks = 1 .. Len(tasks)
      /\ DOMAIN tasks' = 1 .. Len(tasks) - 1
      /\ \A i \in 1 .. Len(tasks) - 1 : tasks'[i] = tasks[i + 1]
  BY <1>1, Popped
<1>3. \A i \in 1 .. Len(tasks) - 1 : i + 1 \in DOMAIN tasks  BY <1>2
<1>4. TaskOK(tasks[1])  BY <1>2 DEF TasksOK
<1> QED  BY <1>2, <1>3, <1>4

\* A task is posted to epoll thread w.
LEMMA PushMail ==
  ASSUME NEW m \in [Workers -> Seq(TaskRecord)], NEW w \in Workers, NEW x \in TaskRecord,
         NEW k, k = [m EXCEPT ![w] = Append(@, x)]
  PROVE  /\ k \in [Workers -> Seq(TaskRecord)]
         /\ \A v \in Workers : \A i \in DOMAIN m[v] : i \in DOMAIN k[v] /\ k[v][i] = m[v][i]
         /\ Len(m[w]) + 1 \in DOMAIN k[w] \ DOMAIN m[w]
         /\ k[w][Len(m[w]) + 1] = x
         /\ \A v \in Workers : \A i \in DOMAIN k[v] :
              i \in DOMAIN m[v] \/ (v = w /\ i = Len(m[w]) + 1)
<1>1. k[w] = Append(m[w], x) /\ \A v \in Workers : v # w => k[v] = m[v]
  OBVIOUS
<1>2. /\ k[w] \in Seq(TaskRecord)
      /\ Len(m[w]) \in Nat /\ DOMAIN m[w] = 1 .. Len(m[w])
      /\ DOMAIN k[w] = 1 .. Len(m[w]) + 1
      /\ \A i \in 1 .. Len(m[w]) : k[w][i] = m[w][i]
      /\ k[w][Len(m[w]) + 1] = x
  BY <1>1, Pushed
<1>3. k \in [Workers -> Seq(TaskRecord)]  BY <1>2
<1>4. Len(m[w]) + 1 \in DOMAIN k[w] \ DOMAIN m[w]  BY <1>2
<1>5. ASSUME NEW v \in Workers, NEW i \in DOMAIN m[v]
      PROVE  i \in DOMAIN k[v] /\ k[v][i] = m[v][i]
  <2>1. CASE v = w  BY <2>1, <1>2
  <2>2. CASE v # w  BY <2>2, <1>1
  <2> QED  BY <2>1, <2>2
<1>6. ASSUME NEW v \in Workers, NEW i \in DOMAIN k[v]
      PROVE  i \in DOMAIN m[v] \/ (v = w /\ i = Len(m[w]) + 1)
  <2>1. CASE v = w  BY <2>1, <1>2
  <2>2. CASE v # w  BY <2>2, <1>1
  <2> QED  BY <2>1, <2>2
<1> QED  BY <1>2, <1>3, <1>4, <1>5, <1>6

\* Epoll thread w takes its next task.
LEMMA PopMail ==
  ASSUME MailboxOK, NEW w \in Workers, mailbox[w] # <<>>,
         mailbox' = [mailbox EXCEPT ![w] = Tail(@)]
  PROVE  /\ mailbox' \in [Workers -> Seq(TaskRecord)]
         /\ Head(mailbox[w]) \in TaskRecord /\ Head(mailbox[w]) = mailbox[w][1]
         /\ 1 \in DOMAIN mailbox[w] /\ MailOK(mailbox[w][1])
         /\ \A v \in Workers : v # w => mailbox'[v] = mailbox[v]
         /\ \A i \in DOMAIN mailbox'[w] :
              /\ i \in Nat /\ i # 0
              /\ i + 1 \in DOMAIN mailbox[w] /\ mailbox'[w][i] = mailbox[w][i + 1]
         /\ \A i \in DOMAIN mailbox[w] : i \in Nat \ {0} /\ (i # 1 => i - 1 \in DOMAIN mailbox'[w])
<1>1. mailbox \in [Workers -> Seq(TaskRecord)]  BY DEF MailboxOK
<1>2. mailbox'[w] = Tail(mailbox[w]) /\ \A v \in Workers : v # w => mailbox'[v] = mailbox[v]
  BY <1>1
<1>3. /\ Head(mailbox[w]) \in TaskRecord /\ Head(mailbox[w]) = mailbox[w][1]
      /\ 1 \in DOMAIN mailbox[w] /\ mailbox'[w] \in Seq(TaskRecord)
      /\ Len(mailbox[w]) \in Nat \ {0} /\ DOMAIN mailbox[w] = 1 .. Len(mailbox[w])
      /\ DOMAIN mailbox'[w] = 1 .. Len(mailbox[w]) - 1
      /\ \A i \in 1 .. Len(mailbox[w]) - 1 : mailbox'[w][i] = mailbox[w][i + 1]
  BY <1>1, <1>2, Popped
<1>4. mailbox' \in [Workers -> Seq(TaskRecord)]  BY <1>1, <1>3
<1>5. MailOK(mailbox[w][1])  BY <1>3 DEF MailboxOK
<1>6. \A i \in DOMAIN mailbox'[w] : /\ i \in Nat /\ i # 0
                                   /\ i + 1 \in DOMAIN mailbox[w]
                                   /\ mailbox'[w][i] = mailbox[w][i + 1]
  BY <1>3
<1>7. \A i \in DOMAIN mailbox[w] : i \in Nat \ {0} /\ (i # 1 => i - 1 \in DOMAIN mailbox'[w])
  BY <1>3
<1> QED  BY <1>2, <1>3, <1>4, <1>5, <1>6, <1>7

\* A client's record changes.
LEMMA SetClient ==
  ASSUME client \in Seq(ClientRecord), NEW h \in Opened, NEW c \in ClientRecord,
         client' = [client EXCEPT ![h] = c]
  PROVE  /\ client' \in Seq(ClientRecord) /\ Len(client') = Len(client)
         /\ DOMAIN client' = DOMAIN client
         /\ client'[h] = c /\ \A g \in Opened : g # h => client'[g] = client[g]
BY ExceptSeq, LenProperties DEF Opened

\* A client is opened.
LEMMA AddClient ==
  ASSUME client \in Seq(ClientRecord), NEW c \in ClientRecord, client' = Append(client, c)
  PROVE  /\ client' \in Seq(ClientRecord) /\ Len(client') = Len(client) + 1
         /\ Len(client) \in Nat /\ DOMAIN client = 1 .. Len(client)
         /\ DOMAIN client' = 1 .. Len(client) + 1
         /\ \A g \in 1 .. Len(client) : client'[g] = client[g]
         /\ client'[Len(client) + 1] = c
BY Pushed, LenProperties

-----------------------------------------------------------------------------
(***************************************************************************)
(* The order in which the main handler hears of a client.                  *)
(***************************************************************************)

\* The handler takes task t: it learns of the client, or forgets it.
LEMMA OrderPop ==
  ASSUME IInv, tasks # <<>>, tasks' = Tail(tasks), client' = client,
         \A h \in Opened :
            \/ h \in DOMAIN handleToNode /\ ~ Is(tasks, 1, "CloseConnect", h)
            \/ Is(tasks, 1, "OpenClient", h)
            => h \in DOMAIN handleToNode',
         \A h \in DOMAIN handleToNode' \ {0} :
            \/ h \in DOMAIN handleToNode /\ ~ Is(tasks, 1, "CloseConnect", h)
            \/ Is(tasks, 1, "OpenClient", h)
  PROVE  OrderOK' /\ ClosesAreHandled'
<1> DEFINE n == Len(tasks)
<1>1. /\ n \in Nat \ {0} /\ DOMAIN tasks = 1 .. n /\ DOMAIN tasks' = 1 .. n - 1
      /\ \A i \in 1 .. n - 1 : tasks'[i] = tasks[i + 1] /\ i + 1 \in DOMAIN tasks
      /\ TaskOK(tasks[1]) /\ TasksOK
  BY PopTask DEF IInv
<1> HIDE DEF n
<1>2. /\ \A i \in DOMAIN tasks' : /\ i \in Nat /\ i + 1 \in DOMAIN tasks
                                  /\ \A y, h : Is(tasks, i, y, h)' <=> Is(tasks, i + 1, y, h)
      /\ \A j \in DOMAIN tasks : j \in Nat \ {0} /\ (j # 1 => j - 1 \in DOMAIN tasks')
      /\ 1 \in DOMAIN tasks
      /\ \A j \in DOMAIN tasks : j # 1 =>
            \A y, h : Is(tasks, j - 1, y, h)' <=> Is(tasks, j, y, h)
  BY <1>1 DEF Is
<1>3. Opened' = Opened /\ OrderOK /\ ClosesAreHandled
  BY DEF Opened, IInv
<1>4. ASSUME NEW h \in Opened, client[h].state = "connecting"
      PROVE  /\ \A i \in DOMAIN tasks' : ~ Is(tasks, i, "CloseConnect", h)'
             /\ \/ h \in DOMAIN handleToNode'
                \/ \E i \in DOMAIN tasks' : Is(tasks, i, "OpenClient", h)'
  <2>1. \A i \in DOMAIN tasks : ~ Is(tasks, i, "CloseConnect", h)
    BY <1>3, <1>4 DEF OrderOK
  <2>2. CASE h \in DOMAIN handleToNode
    BY <1>2, <2>1, <2>2
  <2>3. ASSUME NEW i \in DOMAIN tasks, Is(tasks, i, "OpenClient", h)
        PROVE  \/ h \in DOMAIN handleToNode'
               \/ \E k \in DOMAIN tasks' : Is(tasks, k, "OpenClient", h)'
    BY <1>2, <2>3
  <2>4. \A i \in DOMAIN tasks' : ~ Is(tasks, i, "CloseConnect", h)'
    BY <1>2, <2>1
  <2> QED  BY <1>3, <1>4, <2>2, <2>3, <2>4, <1>2, <2>1 DEF OrderOK
<1>5. ASSUME NEW h \in Opened, NEW i \in DOMAIN tasks', Is(tasks, i, "OpenClientOK", h)'
      PROVE  /\ \A j \in DOMAIN tasks' : Is(tasks, j, "CloseConnect", h)' => i < j
             /\ \/ h \in DOMAIN handleToNode'
                \/ \E j \in DOMAIN tasks' : j < i /\ Is(tasks, j, "OpenClient", h)'
  <2>1. i \in Nat /\ i + 1 \in DOMAIN tasks /\ Is(tasks, i + 1, "OpenClientOK", h)
    BY <1>2, <1>5
  <2>2. /\ \A j \in DOMAIN tasks : Is(tasks, j, "CloseConnect", h) => i + 1 < j
        /\ \/ h \in DOMAIN handleToNode
           \/ \E j \in DOMAIN tasks : j < i + 1 /\ Is(tasks, j, "OpenClient", h)
    BY <1>3, <2>1 DEF OrderOK
  <2>3. ASSUME NEW j \in DOMAIN tasks', Is(tasks, j, "CloseConnect", h)'
        PROVE  i < j
    <3>1. j \in Nat /\ i + 1 < j + 1  BY <1>2, <2>2, <2>3
    <3> QED  BY <3>1, <2>1
  <2>4. CASE h \in DOMAIN handleToNode
    <3>1. ~ Is(tasks, 1, "CloseConnect", h)
      <4>1. ~ (i + 1 < 1)  BY <2>1
      <4> QED  BY <4>1, <1>2, <2>2
    <3> QED  BY <2>3, <2>4, <3>1
  <2>5. ASSUME NEW j \in DOMAIN tasks, j < i + 1, Is(tasks, j, "OpenClient", h)
        PROVE  \/ h \in DOMAIN handleToNode'
               \/ \E k \in DOMAIN tasks' : k < i /\ Is(tasks, k, "OpenClient", h)'
    <3>1. CASE j = 1  BY <2>5, <3>1
    <3>2. CASE j # 1
      <4>1. j - 1 \in DOMAIN tasks' /\ j - 1 < i /\ Is(tasks, j - 1, "OpenClient", h)'
        BY <1>2, <2>1, <2>5, <3>2
      <4> QED  BY <4>1
    <3> QED  BY <3>1, <3>2
  <2> QED  BY <2>2, <2>3, <2>4, <2>5
<1>6. ASSUME NEW h \in Opened, NEW i \in DOMAIN tasks', NEW j \in DOMAIN tasks, NEW y,
             i + 1 < j, Is(tasks, j, y, h)
      PROVE  \E k \in DOMAIN tasks' : i < k /\ Is(tasks, k, y, h)'
  <2>1. i \in Nat /\ j \in Nat \ {0} /\ j # 1 /\ j - 1 \in DOMAIN tasks'
    BY <1>2, <1>6
  <2>2. i < j - 1 /\ Is(tasks, j - 1, y, h)'  BY <1>2, <1>6, <2>1
  <2> QED  BY <2>1, <2>2
<1>7. ASSUME NEW h \in Opened, NEW i \in DOMAIN tasks', Is(tasks, i, "OpenClient", h)'
      PROVE  \/ client'[h].state = "connecting"
             \/ /\ client'[h].state # "closed"
                /\ \E j \in DOMAIN tasks' : i < j /\ Is(tasks, j, "OpenClientOK", h)'
             \/ \E j \in DOMAIN tasks' : i < j /\ Is(tasks, j, "CloseConnect", h)'
  <2>1. i + 1 \in DOMAIN tasks /\ Is(tasks, i + 1, "OpenClient", h)
    BY <1>2, <1>7
  <2>2. \/ client[h].state = "connecting"
        \/ /\ client[h].state # "closed"
           /\ \E j \in DOMAIN tasks : i + 1 < j /\ Is(tasks, j, "OpenClientOK", h)
        \/ \E j \in DOMAIN tasks : i + 1 < j /\ Is(tasks, j, "CloseConnect", h)
    BY <1>3, <2>1 DEF OrderOK
  <2> QED  BY <2>2, <1>6
<1>8. OrderOK'  BY <1>3, <1>4, <1>5, <1>7 DEF OrderOK
<1>9. ASSUME NEW h \in DOMAIN handleToNode' \ {0}, client[h].state = "closed"
      PROVE  \E i \in DOMAIN tasks' : tasks'[i] = CloseConnectTask(h)
  <2>1. h \in Opened
    BY <1>1, <1>2, <1>9 DEF IInv, HandlesOK, TaskOK, Is
  <2>2. \E j \in DOMAIN tasks : 1 < j /\ tasks[j] = CloseConnectTask(h)
    <3>1. CASE h \in DOMAIN handleToNode /\ ~ Is(tasks, 1, "CloseConnect", h)
      <4> PICK j \in DOMAIN tasks : tasks[j] = CloseConnectTask(h)
        BY <1>3, <1>9, <3>1 DEF ClosesAreHandled, IsOpen, InTasks
      <4>1. j # 1  BY <3>1 DEF Is, CloseConnectTask, Task
      <4> QED  BY <4>1, <1>2
    <3>2. CASE Is(tasks, 1, "OpenClient", h)
      <4> PICK j \in DOMAIN tasks : 1 < j /\ Is(tasks, j, "CloseConnect", h)
        BY <1>2, <1>3, <1>9, <2>1, <3>2 DEF OrderOK
      <4>1. tasks[j] = CloseConnectTask(h)
        BY <1>1 DEF TasksOK, TaskOK, Is
      <4> QED  BY <4>1
    <3> QED  BY <1>9, <3>1, <3>2
  <2> PICK j \in DOMAIN tasks : 1 < j /\ tasks[j] = CloseConnectTask(h)  BY <2>2
  <2>3. j - 1 \in 1 .. n - 1 /\ (j - 1) + 1 = j  BY <1>1
  <2>4. tasks'[j - 1] = tasks[j]  BY <1>1, <2>3
  <2> QED  BY <2>3, <2>4, <1>1
<1>10. ClosesAreHandled'
  BY <1>9 DEF ClosesAreHandled, IsOpen, InTasks
<1> QED  BY <1>8, <1>10

\* What may happen to the clients when task x is posted to the main handler
ClientStep(x, h) ==
    \/ client'[h].state = client[h].state
    \/ /\ client[h].state = "connecting" /\ client'[h].state = "connected"
       /\ x = OpenClientOKTask(h)
    \/ client'[h].state = "closed" /\ x = CloseConnectTask(h)
    \/ client[h].state = "connected" /\ client'[h].state = "identified"

\* The handler is told: x is the news of what happened to the client it names.
LEMMA OrderPush ==
  ASSUME IInv, NEW x \in TaskRecord, tasks' = Append(tasks, x), handleToNode' = handleToNode,
         \A h \in Opened : ClientStep(x, h),
         \/ Opened' = Opened
         \/ /\ Opened' = Opened \union {x.handle} /\ x.handle \notin Opened \union {0}
            /\ x.type = "OpenClient" /\ client'[x.handle].state = "connecting",
         x.type = "OpenClient" => x.handle = 0 \/ x.handle \notin Opened,
         x.type = "OpenClientOK" => x.handle \in Opened /\ client[x.handle].state = "connecting",
         x.type = "CloseConnect" => x.handle \in Opened /\ client'[x.handle].state = "closed"
  PROVE  OrderOK' /\ ClosesAreHandled'
<1>0. PICK n \in Nat : n = Len(tasks)  BY PushTask DEF IInv
<1>1. /\ n \in Nat /\ DOMAIN tasks = 1 .. n /\ DOMAIN tasks' = 1 .. n + 1
      /\ \A i \in 1 .. n : tasks'[i] = tasks[i]
      /\ tasks'[n + 1] = x /\ TasksOK
  BY <1>0, PushTask DEF IInv
<1>2. /\ \A i \in DOMAIN tasks : /\ i \in Nat /\ i < n + 1 /\ i # n + 1 /\ i \in DOMAIN tasks'
                                 /\ \A y, h : Is(tasks, i, y, h)' <=> Is(tasks, i, y, h)
      /\ \A i \in DOMAIN tasks' : i \in DOMAIN tasks \/ i = n + 1
      /\ n + 1 \in DOMAIN tasks' /\ n + 1 \in Nat
      /\ \A y, h : Is(tasks, n + 1, y, h)' <=> x.type = y /\ x.handle = h
  BY <1>1 DEF Is
<1>3. /\ OrderOK /\ ClosesAreHandled /\ 0 \notin Opened
      /\ \A h \in Opened : h # 0
      /\ Opened \subseteq Opened'
      /\ \A h \in DOMAIN handleToNode \ {0} : h \in Opened
  <2>1. 0 \notin Opened  BY LenProperties DEF Opened, IInv, TypeOK
  <2> QED  BY <2>1 DEF IInv, HandlesOK
<1>4. ASSUME NEW h \in Opened', h \notin Opened
      PROVE  /\ h = x.handle /\ x.type = "OpenClient" /\ client'[h].state = "connecting"
             /\ \A i \in DOMAIN tasks, y \in {"OpenClient", "OpenClientOK", "CloseConnect"} :
                   h # 0 => ~ Is(tasks, i, y, h)
             /\ h # 0
  <2>1. h = x.handle /\ x.type = "OpenClient" /\ client'[h].state = "connecting"
    BY <1>4
  <2>2. \A i \in DOMAIN tasks : TaskOK(tasks[i])  BY <1>1 DEF TasksOK
  <2>3. \A i \in DOMAIN tasks, y \in {"OpenClient", "OpenClientOK", "CloseConnect"} :
           h # 0 => ~ Is(tasks, i, y, h)
    BY <1>4, <2>2 DEF TaskOK, Is
  <2>4. h # 0  BY <1>4
  <2> QED  BY <2>1, <2>3, <2>4
<1>5. \A i \in DOMAIN tasks' : \A h \in Opened :
         /\ Is(tasks, i, "OpenClient", h)' => i # n + 1
         /\ Is(tasks, i, "OpenClientOK", h)' /\ i = n + 1 =>
               client[h].state = "connecting" /\ x.handle = h /\ x.type = "OpenClientOK"
         /\ Is(tasks, i, "CloseConnect", h)' /\ i = n + 1 =>
               client'[h].state = "closed" /\ x.handle = h /\ x.type = "CloseConnect"
  BY <1>2, <1>3
<1>6. ASSUME NEW h \in Opened', client'[h].state = "connecting"
      PROVE  /\ \A i \in DOMAIN tasks' : ~ Is(tasks, i, "CloseConnect", h)'
             /\ \/ h \in DOMAIN handleToNode'
                \/ \E i \in DOMAIN tasks' : Is(tasks, i, "OpenClient", h)'
  <2>1. CASE h \notin Opened
    <3>1. \A i \in DOMAIN tasks' : ~ Is(tasks, i, "CloseConnect", h)'
      BY <1>2, <1>4, <2>1
    <3>2. Is(tasks, n + 1, "OpenClient", h)'
      BY <1>2, <1>4, <2>1
    <3> QED  BY <3>1, <3>2, <1>2
  <2>2. CASE h \in Opened
    <3>1. client[h].state = "connecting"  BY <1>6, <2>2 DEF ClientStep
    <3>2. /\ \A i \in DOMAIN tasks : ~ Is(tasks, i, "CloseConnect", h)
          /\ h \in DOMAIN handleToNode \/ \E i \in DOMAIN tasks : Is(tasks, i, "OpenClient", h)
      BY <3>1, <2>2, <1>3 DEF OrderOK
    <3>3. \A i \in DOMAIN tasks' : ~ Is(tasks, i, "CloseConnect", h)'
      BY <3>2, <1>2, <1>5, <1>6, <2>2
    <3> QED  BY <3>2, <3>3, <1>2
  <2> QED  BY <2>1, <2>2
<1>7. ASSUME NEW h \in Opened', NEW i \in DOMAIN tasks', Is(tasks, i, "OpenClientOK", h)'
      PROVE  /\ \A j \in DOMAIN tasks' : Is(tasks, j, "CloseConnect", h)' => i < j
             /\ \/ h \in DOMAIN handleToNode'
                \/ \E j \in DOMAIN tasks' : j < i /\ Is(tasks, j, "OpenClient", h)'
  <2>0. h \in Opened
    <3> SUFFICES ASSUME h \notin Opened PROVE FALSE
      OBVIOUS
    <3>1. i = n + 1  BY <1>2, <1>4, <1>7
    <3> QED  BY <3>1, <1>2, <1>4, <1>7
  <2>1. CASE i = n + 1
    <3>1. client[h].state = "connecting" /\ x.type = "OpenClientOK"  BY <1>5, <1>7, <2>0, <2>1
    <3>2. /\ \A j \in DOMAIN tasks : ~ Is(tasks, j, "CloseConnect", h)
          /\ h \in DOMAIN handleToNode \/ \E j \in DOMAIN tasks : Is(tasks, j, "OpenClient", h)
      BY <3>1, <2>0, <1>3 DEF OrderOK
    <3>3. \A j \in DOMAIN tasks' : ~ Is(tasks, j, "CloseConnect", h)'
      BY <3>1, <3>2, <1>2
    <3> QED  BY <3>2, <3>3, <1>2, <2>1
  <2>2. CASE i \in DOMAIN tasks
    <3>1. /\ \A j \in DOMAIN tasks : Is(tasks, j, "CloseConnect", h) => i < j
          /\ h \in DOMAIN handleToNode \/ \E j \in DOMAIN tasks : j < i /\ Is(tasks, j, "OpenClient", h)
      BY <2>0, <2>2, <1>2, <1>3, <1>7 DEF OrderOK
    <3> QED  BY <3>1, <2>2, <1>2
  <2> QED  BY <2>1, <2>2, <1>2
<1>8. ASSUME NEW h \in Opened', NEW i \in DOMAIN tasks', Is(tasks, i, "OpenClient", h)'
      PROVE  \/ client'[h].state = "connecting"
             \/ /\ client'[h].state # "closed"
                /\ \E j \in DOMAIN tasks' : i < j /\ Is(tasks, j, "OpenClientOK", h)'
             \/ \E j \in DOMAIN tasks' : i < j /\ Is(tasks, j, "CloseConnect", h)'
  <2>1. CASE h \notin Opened  BY <2>1, <1>4
  <2>2. CASE h \in Opened
    <3>1. i \in DOMAIN tasks /\ Is(tasks, i, "OpenClient", h)
      BY <1>2, <1>5, <1>8, <2>2
    <3>2. i < n + 1 /\ n + 1 \in DOMAIN tasks'  BY <3>1, <1>2
    <3>3. \/ client[h].state = "connecting"
          \/ /\ client[h].state # "closed"
             /\ \E j \in DOMAIN tasks : i < j /\ Is(tasks, j, "OpenClientOK", h)
          \/ \E j \in DOMAIN tasks : i < j /\ Is(tasks, j, "CloseConnect", h)
      BY <3>1, <2>2, <1>3 DEF OrderOK
    <3>4. x = CloseConnectTask(h) => Is(tasks, n + 1, "CloseConnect", h)'
      BY <1>2 DEF CloseConnectTask, Task
    <3>5. x = OpenClientOKTask(h) => Is(tasks, n + 1, "OpenClientOK", h)'
      BY <1>2 DEF OpenClientOKTask, Task
    <3>6. ClientStep(x, h)  BY <2>2
    <3>7. CASE client[h].state = "connecting"
      BY <3>2, <3>4, <3>5, <3>6, <3>7 DEF ClientStep
    <3>8. CASE /\ client[h].state # "closed"
               /\ \E j \in DOMAIN tasks : i < j /\ Is(tasks, j, "OpenClientOK", h)
      <4>1. \E j \in DOMAIN tasks' : i < j /\ Is(tasks, j, "OpenClientOK", h)'
        BY <3>8, <1>2
      <4> QED  BY <4>1, <3>2, <3>4, <3>6, <3>8 DEF ClientStep
    <3>9. CASE \E j \in DOMAIN tasks : i < j /\ Is(tasks, j, "CloseConnect", h)
      BY <3>9, <1>2
    <3> QED  BY <3>3, <3>7, <3>8, <3>9
  <2> QED  BY <2>1, <2>2
<1>9. OrderOK'  BY <1>6, <1>7, <1>8 DEF OrderOK
<1>10. ASSUME NEW h \in DOMAIN handleToNode \ {0}, client'[h].state = "closed"
       PROVE  \E i \in DOMAIN tasks' : tasks'[i] = CloseConnectTask(h)
  <2>1. h \in Opened  BY <1>3
  <2>2. CASE client[h].state = "closed"
    <3>1. PICK i \in DOMAIN tasks : tasks[i] = CloseConnectTask(h)
      BY <1>3, <2>2 DEF ClosesAreHandled, IsOpen, InTasks
    <3> QED  BY <3>1, <1>1
  <2>3. CASE client[h].state # "closed"
    <3>1. x = CloseConnectTask(h)  BY <2>1, <2>3, <1>10 DEF ClientStep
    <3> QED  BY <3>1, <1>1, <1>2
  <2> QED  BY <2>2, <2>3
<1>11. ClosesAreHandled'
  BY <1>10 DEF ClosesAreHandled, IsOpen, InTasks
<1> QED  BY <1>9, <1>11

-----------------------------------------------------------------------------
(***************************************************************************)
(* What the tasks say, and the types.                                      *)
(***************************************************************************)

\* An address stays known, a client stays opened and to the same node.
Grows ==
    /\ \A n \in Nodes : info[n] # NoAddress => info'[n] # NoAddress
    /\ Opened \subseteq Opened'
    /\ \A h \in Opened : client'[h].node = client[h].node

\* What a task says stays true.
LEMMA TaskStable ==
  ASSUME Grows, NEW t \in TaskRecord, TaskOK(t)
  PROVE  TaskOK(t)'
BY DEF Grows, TaskOK, TaskRecord, OpenClientOKTask, CloseConnectTask, TimerUpdateTask,
       ResponseTask, Task

LEMMA MailStable ==
  ASSUME Grows, NEW t \in TaskRecord, MailOK(t)
  PROVE  MailOK(t)'
BY DEF Grows, MailOK, TaskRecord

LEMMA TasksPush ==
  ASSUME TasksOK, Grows, NEW x \in TaskRecord, tasks' = Append(tasks, x), TaskOK(x)'
  PROVE  TasksOK'
<1>1. PICK n \in Nat : n = Len(tasks)  BY PushTask
<1>2. /\ tasks' \in Seq(TaskRecord) /\ DOMAIN tasks = 1 .. n /\ DOMAIN tasks' = 1 .. n + 1
      /\ \A i \in 1 .. n : tasks'[i] = tasks[i]
      /\ tasks'[n + 1] = x
  BY <1>1, PushTask
<1>3. ASSUME NEW i \in DOMAIN tasks'  PROVE TaskOK(tasks[i])'
  <2>1. CASE i = n + 1  BY <2>1, <1>2 DEF TaskOK
  <2>2. CASE i \in 1 .. n
    <3>1. tasks[i] \in TaskRecord /\ TaskOK(tasks[i])
      BY <2>2, <1>2, ElementOfSeq DEF TasksOK
    <3>2. PICK t \in TaskRecord : t = tasks[i] /\ TaskOK(t)  BY <3>1
    <3>3. TaskOK(t)' /\ tasks'[i] = t  BY <3>2, <2>2, <1>2, TaskStable
    <3> QED  BY <3>3 DEF TaskOK
  <2> QED  BY <2>1, <2>2, <1>2
<1> QED  BY <1>2, <1>3 DEF TasksOK

LEMMA TasksPop ==
  ASSUME TasksOK, Grows, tasks # <<>>, tasks' = Tail(tasks)
  PROVE  TasksOK'
<1>1. PICK n \in Nat \ {0} : n = Len(tasks)  BY PopTask
<1>2. /\ tasks' \in Seq(TaskRecord) /\ DOMAIN tasks = 1 .. n /\ DOMAIN tasks' = 1 .. n - 1
      /\ \A i \in 1 .. n - 1 : tasks'[i] = tasks[i + 1] /\ i + 1 \in DOMAIN tasks
  BY <1>1, PopTask
<1>3. ASSUME NEW i \in DOMAIN tasks'  PROVE TaskOK(tasks[i])'
  <2>1. tasks[i + 1] \in TaskRecord /\ TaskOK(tasks[i + 1])
    BY <1>2, ElementOfSeq DEF TasksOK
  <2>2. PICK t \in TaskRecord : t = tasks[i + 1] /\ TaskOK(t)  BY <2>1
  <2>3. TaskOK(t)' /\ tasks'[i] = t  BY <2>2, <1>2, TaskStable
  <2> QED  BY <2>3 DEF TaskOK
<1> QED  BY <1>2, <1>3 DEF TasksOK

LEMMA TasksSame ==
  ASSUME TasksOK, Grows, tasks' = tasks
  PROVE  TasksOK'
<1>1. ASSUME NEW i \in DOMAIN tasks'  PROVE TaskOK(tasks[i])'
  <2>1. PICK t \in TaskRecord : t = tasks[i] /\ TaskOK(t)
    BY ElementOfSeq, LenProperties DEF TasksOK
  <2>2. TaskOK(t)' /\ tasks'[i] = t  BY <2>1, TaskStable
  <2> QED  BY <2>2 DEF TaskOK
<1> QED  BY <1>1 DEF TasksOK

\* The main handler posted tasks of X to the epoll threads, and no others.
Posted(X) ==
    /\ mailbox' \in [Workers -> Seq(TaskRecord)]
    /\ \A v \in Workers : \A i \in DOMAIN mailbox[v] :
          i \in DOMAIN mailbox'[v] /\ mailbox'[v][i] = mailbox[v][i]
    /\ \A v \in Workers : \A i \in DOMAIN mailbox'[v] :
          i \in DOMAIN mailbox[v] \/ mailbox'[v][i] \in X

LEMMA MailPosted ==
  ASSUME MailboxOK, Grows, NEW X, Posted(X), \A x \in X : MailOK(x)'
  PROVE  MailboxOK'
<1>1. ASSUME NEW v \in Workers, NEW i \in DOMAIN mailbox'[v]
      PROVE  MailOK(mailbox[v][i])'
  <2>1. CASE i \in DOMAIN mailbox[v]
    <3>1. PICK t \in TaskRecord : t = mailbox[v][i] /\ MailOK(t)
      BY <2>1, ElementOfSeq, LenProperties DEF MailboxOK
    <3>2. MailOK(t)' /\ mailbox'[v][i] = t  BY <3>1, <2>1, MailStable DEF Posted
    <3> QED  BY <3>2 DEF MailOK
  <2>2. CASE mailbox'[v][i] \in X
    <3>1. PICK t \in X : t = mailbox'[v][i] /\ MailOK(t)'  BY <2>2
    <3> QED  BY <3>1 DEF MailOK
  <2> QED  BY <2>1, <2>2 DEF Posted
<1> QED  BY <1>1 DEF MailboxOK, Posted

LEMMA MailPopped ==
  ASSUME MailboxOK, Grows, NEW w \in Workers, mailbox[w] # <<>>,
         mailbox' = [mailbox EXCEPT ![w] = Tail(@)]
  PROVE  MailboxOK'
<1>1. /\ mailbox' \in [Workers -> Seq(TaskRecord)]
      /\ \A v \in Workers : v # w => mailbox'[v] = mailbox[v]
      /\ \A i \in DOMAIN mailbox'[w] :
            i + 1 \in DOMAIN mailbox[w] /\ mailbox'[w][i] = mailbox[w][i + 1]
  BY PopMail
<1>2. ASSUME NEW v \in Workers, NEW i \in DOMAIN mailbox'[v]
      PROVE  MailOK(mailbox[v][i])'
  <2>1. PICK t \in TaskRecord : t = mailbox'[v][i] /\ MailOK(t)
    <3>1. PICK j \in DOMAIN mailbox[v] : mailbox'[v][i] = mailbox[v][j]
      BY <1>1
    <3> QED  BY <3>1, ElementOfSeq, LenProperties DEF MailboxOK
  <2> QED  BY <2>1, MailStable DEF MailOK
<1> QED  BY <1>1, <1>2 DEF MailboxOK

\* The type invariant, but for the handles in the tasks, which follows
Types ==
    /\ info \in [Nodes -> Addresses \union {NoAddress}]
    /\ DOMAIN handleToNode \subseteq Handles \union {0}
    /\ \A h \in DOMAIN handleToNode : handleToNode[h] \in Nodes
    /\ route \in [Nodes -> Handles \union {0}]
    /\ client \in Seq(ClientRecord)
    /\ Len(client) <= MaxHandle
    /\ timers \in [Nodes -> Nat]
    /\ failed \in [Nodes -> BOOLEAN]

Queues == TasksOK /\ MailboxOK

LEMMA TypesSuffice == ASSUME Types, Queues PROVE TypeOK
<1>1. Len(client) \in Nat /\ Opened = 1 .. Len(client)
  BY LenProperties DEF Types, Opened
<1>2. ASSUME NEW i \in DOMAIN tasks  PROVE tasks[i].handle \in 0 .. Len(client)
  <2>1. tasks[i] \in TaskRecord /\ TaskOK(tasks[i])
    BY ElementOfSeq, LenProperties DEF Queues, TasksOK
  <2>2. tasks[i].handle \in Opened \union {0}
    <3>1. tasks[i].type = "TimerUpdate" => tasks[i].handle = 0
      BY <2>1 DEF TaskOK, TimerUpdateTask, Task
    <3> QED  BY <2>1, <3>1 DEF TaskOK, TaskRecord
  <2> QED  BY <1>1, <2>2
<1>3. ASSUME NEW w \in Workers, NEW i \in DOMAIN mailbox[w]
      PROVE  mailbox[w][i].handle \in 0 .. Len(client)
  <2>1. MailOK(mailbox[w][i])  BY DEF Queues, MailboxOK
  <2> QED  BY <1>1, <2>1 DEF MailOK
<1> QED  BY <1>2, <1>3 DEF Types, TypeOK

LEMMA TypesSufficeNext == Types' /\ Queues' => TypeOK'
<1>1. Types /\ Queues => TypeOK  BY TypesSuffice
<1> QED  BY <1>1, PTL

-----------------------------------------------------------------------------
(***************************************************************************)
(* At most one packet of the identification of client h is on its way.     *)
(***************************************************************************)

Once(h) ==
    /\ \A i, j \in DOMAIN tasks : Asks(h, i) /\ Asks(h, j) => i = j
    /\ \A v, w \in Workers : \A i \in DOMAIN mailbox[v], j \in DOMAIN mailbox[w] :
          Sends(h, v, i) /\ Sends(h, w, j) => v = w /\ i = j
    /\ \A i \in DOMAIN tasks, w \in Workers : \A j \in DOMAIN mailbox[w] :
          ~ (Asks(h, i) /\ Sends(h, w, j))

Counts(h) ==
    /\ Pending(h) => /\ client[h].sent <= 1
                     /\ client[h].state # "connecting"
                     /\ client[h].state = "connected" => client[h].sent = 0
    /\ client[h].state = "connecting" => client[h].sent = 0
    /\ client[h].state = "connected" => client[h].sent <= 1

LEMMA IdentifiesByClient == IdentifiesOK <=> \A h \in Opened : Once(h) /\ Counts(h)
BY DEF IdentifiesOK, Once, Counts

LEMMA IdentifiesByClientNext ==
  (\A h \in Opened' : Once(h)' /\ Counts(h)') => IdentifiesOK'
BY DEF IdentifiesOK, Once, Counts

\* What asks for a packet after the step did so before, d positions further on.
AsksFrom(h, d) ==
    \A i \in DOMAIN tasks' : Asks(h, i)' =>
        i \in Nat /\ i + d \in DOMAIN tasks /\ Asks(h, i + d)

SendsFrom(h, e) ==
    \A v \in Workers : \A i \in DOMAIN mailbox'[v] : Sends(h, v, i)' =>
        i \in Nat /\ i + e[v] \in DOMAIN mailbox[v] /\ Sends(h, v, i + e[v])

LEMMA NothingNew ==
  ASSUME NEW h, Once(h), NEW d \in {0, 1}, AsksFrom(h, d),
         NEW e \in [Workers -> {0, 1}], SendsFrom(h, e)
  PROVE  Once(h)' /\ (Pending(h)' => Pending(h))
<1>1. ASSUME NEW i \in DOMAIN tasks', NEW j \in DOMAIN tasks', Asks(h, i)', Asks(h, j)'
      PROVE  i = j
  <2>1. i \in Nat /\ j \in Nat /\ i + d = j + d
    BY <1>1 DEF AsksFrom, Once
  <2> QED  BY <2>1
<1>2. ASSUME NEW v \in Workers, NEW w \in Workers,
             NEW i \in DOMAIN mailbox'[v], NEW j \in DOMAIN mailbox'[w],
             Sends(h, v, i)', Sends(h, w, j)'
      PROVE  v = w /\ i = j
  <2>1. i \in Nat /\ j \in Nat /\ v = w /\ i + e[v] = j + e[w]
    BY <1>2 DEF SendsFrom, Once
  <2> QED  BY <2>1
<1>3. ASSUME NEW i \in DOMAIN tasks', NEW w \in Workers, NEW j \in DOMAIN mailbox'[w],
             Asks(h, i)', Sends(h, w, j)'
      PROVE  FALSE
  BY <1>3 DEF AsksFrom, SendsFrom, Once
<1>4. Once(h)'  BY <1>1, <1>2, <1>3 DEF Once
<1>5. Pending(h)' => Pending(h)
  BY DEF Pending, AsksFrom, SendsFrom
<1> QED  BY <1>4, <1>5

LEMMA AsksPop ==
  ASSUME TasksOK, tasks # <<>>, tasks' = Tail(tasks), NEW h
  PROVE  AsksFrom(h, 1)
<1>1. PICK n \in Nat \ {0} : n = Len(tasks)  BY PopTask
<1>2. /\ DOMAIN tasks = 1 .. n /\ DOMAIN tasks' = 1 .. n - 1
      /\ \A i \in 1 .. n - 1 : tasks'[i] = tasks[i + 1]
  BY <1>1, PopTask
<1> QED  BY <1>2 DEF AsksFrom, Asks, Is

LEMMA AsksPush ==
  ASSUME TasksOK, NEW x \in TaskRecord, tasks' = Append(tasks, x), NEW h,
         ~ (x.type \in {"OpenClientOK", "Response"} /\ x.handle = h)
  PROVE  AsksFrom(h, 0)
<1>1. PICK n \in Nat : n = Len(tasks)  BY PushTask
<1>2. /\ DOMAIN tasks = 1 .. n /\ DOMAIN tasks' = 1 .. n + 1
      /\ \A i \in 1 .. n : tasks'[i] = tasks[i]
      /\ tasks'[n + 1] = x
  BY <1>1, PushTask
<1> QED  BY <1>2 DEF AsksFrom, Asks, Is

LEMMA AsksSame ==
  ASSUME TasksOK, tasks' = tasks, NEW h
  PROVE  AsksFrom(h, 0)
<1>1. PICK n \in Nat : DOMAIN tasks = 1 .. n  BY LenProperties DEF TasksOK
<1> QED  BY <1>1 DEF AsksFrom, Asks, Is

Zero == [v \in Workers |-> 0]

LEMMA SendsPosted ==
  ASSUME MailboxOK, NEW X, Posted(X), NEW h, \A x \in X : ~ (x.type = "Send" /\ x.handle = h)
  PROVE  SendsFrom(h, Zero)
<1>1. ASSUME NEW v \in Workers, NEW i \in DOMAIN mailbox'[v], Sends(h, v, i)'
      PROVE  i \in Nat /\ i + Zero[v] \in DOMAIN mailbox[v] /\ Sends(h, v, i + Zero[v])
  <2>1. i \in DOMAIN mailbox[v] /\ mailbox'[v][i] = mailbox[v][i]
    BY <1>1 DEF Posted, Sends, Is
  <2>2. i \in Nat  BY <2>1, LenProperties DEF MailboxOK
  <2>3. i + Zero[v] = i  BY <2>2 DEF Zero
  <2> QED  BY <1>1, <2>1, <2>2, <2>3 DEF Sends, Is
<1> QED  BY <1>1 DEF SendsFrom

LEMMA SendsSame ==
  ASSUME MailboxOK, mailbox' = mailbox, NEW h
  PROVE  SendsFrom(h, Zero)
<1>1. Posted({})  BY DEF Posted, MailboxOK
<1> QED  BY <1>1, SendsPosted

LEMMA SendsPopped ==
  ASSUME MailboxOK, NEW w \in Workers, mailbox[w] # <<>>,
         mailbox' = [mailbox EXCEPT ![w] = Tail(@)], NEW h
  PROVE  SendsFrom(h, [v \in Workers |-> IF v = w THEN 1 ELSE 0])
<1>1. /\ \A v \in Workers : v # w => mailbox'[v] = mailbox[v]
      /\ \A i \in DOMAIN mailbox'[w] :
            i \in Nat /\ i + 1 \in DOMAIN mailbox[w] /\ mailbox'[w][i] = mailbox[w][i + 1]
  BY PopMail
<1>2. \A v \in Workers : \A i \in DOMAIN mailbox[v] : i \in Nat
  BY LenProperties DEF MailboxOK
<1> QED  BY <1>1, <1>2 DEF SendsFrom, Sends, Is

\* A step that adds nothing and changes neither the client's state nor what it
\* sent, unless it closes it
LEMMA QuietClient ==
  ASSUME NEW h, Once(h), Counts(h), NEW d \in {0, 1}, AsksFrom(h, d),
         NEW e \in [Workers -> {0, 1}], SendsFrom(h, e),
         client'[h].sent = client[h].sent,
         client'[h].state = client[h].state \/ client'[h].state = "closed"
  PROVE  Once(h)' /\ Counts(h)'
<1>1. Once(h)' /\ (Pending(h)' => Pending(h))  BY NothingNew
<1> QED  BY <1>1 DEF Counts

\* A client becomes established or identified: it asks for its next packet.
LEMMA ClientAsks ==
  ASSUME TasksOK, MailboxOK, NEW h, Once(h), Counts(h), NEW x \in TaskRecord,
         tasks' = Append(tasks, x), mailbox' = mailbox,
         client'[h].sent = client[h].sent,
         \/ client[h].state = "connecting" /\ client'[h].state = "connected"
         \/ /\ client[h].state = "connected" /\ client[h].sent = 1
            /\ client'[h].state = "identified"
  PROVE  Once(h)' /\ Counts(h)'
<1>1. PICK n \in Nat : n = Len(tasks)  BY PushTask
<1>2. /\ DOMAIN tasks = 1 .. n /\ DOMAIN tasks' = 1 .. n + 1
      /\ \A i \in 1 .. n : tasks'[i] = tasks[i]
  BY <1>1, PushTask
<1>3. ~ Pending(h)  BY DEF Counts
<1>4. \A i \in DOMAIN tasks' : Asks(h, i)' => i = n + 1
  BY <1>2, <1>3 DEF Pending, Asks, Is
<1>5. \A v \in Workers : \A i \in DOMAIN mailbox'[v] : ~ Sends(h, v, i)'
  BY <1>3 DEF Pending, Sends, Is
<1>6. Once(h)'  BY <1>4, <1>5 DEF Once
<1> QED  BY <1>6 DEF Counts

\* The main handler sends the packet it was asked for.
LEMMA PacketPosted ==
  ASSUME TasksOK, MailboxOK, NEW h, Once(h), Counts(h), tasks # <<>>, tasks' = Tail(tasks),
         Asks(h, 1), NEW w \in Workers, NEW x \in TaskRecord,
         mailbox' = [mailbox EXCEPT ![w] = Append(@, x)], client' = client
  PROVE  Once(h)' /\ Counts(h)'
<1>1. 1 \in DOMAIN tasks  BY Popped DEF TasksOK
<1>2. Pending(h)  BY <1>1 DEF Pending
<1>3. \A i \in DOMAIN tasks' : ~ Asks(h, i)'
  <2>1. AsksFrom(h, 1)  BY AsksPop
  <2> SUFFICES ASSUME NEW i \in DOMAIN tasks', Asks(h, i)' PROVE FALSE
    OBVIOUS
  <2>2. i \in Nat /\ i + 1 \in DOMAIN tasks /\ Asks(h, i + 1)  BY <2>1 DEF AsksFrom
  <2>3. i + 1 = 1  BY <2>2, <1>1 DEF Once
  <2>4. i = 0  BY <2>2, <2>3
  <2>5. i # 0
    <3>1. PICK q \in Seq(TaskRecord) : q = tasks'  BY PopTask
    <3>2. DOMAIN q = 1 .. Len(q) /\ Len(q) \in Nat  BY <3>1, LenProperties
    <3> QED  BY <3>1, <3>2
  <2> QED  BY <2>4, <2>5
<1>4. \A v \in Workers : \A i \in DOMAIN mailbox[v] : ~ Sends(h, v, i)
  BY <1>1 DEF Once
<1>5. PICK p : \A v \in Workers : \A i \in DOMAIN mailbox'[v] : Sends(h, v, i)' => v = w /\ i = p
  <2>1. /\ \A v \in Workers : \A i \in DOMAIN mailbox[v] :
              i \in DOMAIN mailbox'[v] /\ mailbox'[v][i] = mailbox[v][i]
        /\ \A v \in Workers : \A i \in DOMAIN mailbox'[v] :
              i \in DOMAIN mailbox[v] \/ (v = w /\ i = Len(mailbox[w]) + 1)
    <3>1. mailbox \in [Workers -> Seq(TaskRecord)]  BY DEF MailboxOK
    <3> QED  BY <3>1, PushMail
  <2>2. PICK p : p = Len(mailbox[w]) + 1  OBVIOUS
  <2>3. ASSUME NEW v \in Workers, NEW i \in DOMAIN mailbox'[v], Sends(h, v, i)'
        PROVE  v = w /\ i = p
    <3>1. i \notin DOMAIN mailbox[v]  BY <1>4, <2>1, <2>3 DEF Sends, Is
    <3> QED  BY <3>1, <2>1, <2>2
  <2> QED  BY <2>3
<1>6. Once(h)'  BY <1>3, <1>5 DEF Once
<1> QED  BY <1>2, <1>6 DEF Counts

\* The epoll thread writes the packet, or drops it because the client is closed.
LEMMA PacketSent ==
  ASSUME TasksOK, MailboxOK, NEW h, Once(h), Counts(h), NEW w \in Workers, mailbox[w] # <<>>,
         mailbox' = [mailbox EXCEPT ![w] = Tail(@)], tasks' = tasks, Sends(h, w, 1),
         client'[h].state = client[h].state,
         client[h].sent \in Nat,
         client'[h].sent \in {client[h].sent, client[h].sent + 1}
  PROVE  Once(h)' /\ Counts(h)' /\ client[h].sent <= 1
<1>1. 1 \in DOMAIN mailbox[w]  BY PopMail
<1>2. Pending(h)  BY <1>1 DEF Pending
<1>3. \A i \in DOMAIN tasks' : ~ Asks(h, i)'
  BY <1>1 DEF Once, Asks, Is
<1>4. ASSUME NEW v \in Workers, NEW i \in DOMAIN mailbox'[v], Sends(h, v, i)'  PROVE FALSE
  <2>1. /\ \A u \in Workers : u # w => mailbox'[u] = mailbox[u]
        /\ \A j \in DOMAIN mailbox'[w] :
              /\ j \in Nat /\ j # 0
              /\ j + 1 \in DOMAIN mailbox[w] /\ mailbox'[w][j] = mailbox[w][j + 1]
    BY PopMail
  <2>2. CASE v = w
    <3>1. i \in Nat /\ i # 0 /\ i + 1 \in DOMAIN mailbox[w] /\ Sends(h, w, i + 1)
      BY <1>4, <2>1, <2>2 DEF Sends, Is
    <3>2. i + 1 = 1  BY <3>1, <1>1 DEF Once
    <3> QED  BY <3>1, <3>2
  <2>3. CASE v # w
    BY <1>1, <1>4, <2>1, <2>3 DEF Sends, Is, Once
  <2> QED  BY <2>2, <2>3
<1>5. Once(h)' /\ ~ Pending(h)'  BY <1>3, <1>4 DEF Once, Pending
<1>6. Counts(h)' /\ client[h].sent <= 1  BY <1>2, <1>5 DEF Counts
<1> QED  BY <1>5, <1>6

-----------------------------------------------------------------------------
(***************************************************************************)
(* What connects a node.                                                   *)
(***************************************************************************)

LEMMA InTasksPush ==
  ASSUME TasksOK, NEW x \in TaskRecord, tasks' = Append(tasks, x)
  PROVE  InTasks(x)' /\ \A t : InTasks(t) => InTasks(t)'
<1>1. PICK n \in Nat : n = Len(tasks)  BY PushTask
<1>2. /\ DOMAIN tasks = 1 .. n /\ DOMAIN tasks' = 1 .. n + 1
      /\ \A i \in 1 .. n : tasks'[i] = tasks[i]
      /\ tasks'[n + 1] = x
  BY <1>1, PushTask
<1> QED  BY <1>2 DEF InTasks

LEMMA InTasksPop ==
  ASSUME TasksOK, tasks # <<>>, tasks' = Tail(tasks)
  PROVE  \A t : InTasks(t) => t = tasks[1] \/ InTasks(t)'
<1>1. PICK n \in Nat \ {0} : n = Len(tasks)  BY PopTask
<1>2. /\ DOMAIN tasks = 1 .. n /\ DOMAIN tasks' = 1 .. n - 1
      /\ \A i \in 1 .. n - 1 : tasks'[i] = tasks[i + 1]
  BY <1>1, PopTask
<1>3. ASSUME NEW i \in DOMAIN tasks, i # 1
      PROVE  i - 1 \in DOMAIN tasks' /\ tasks'[i - 1] = tasks[i]
  BY <1>2, <1>3
<1> QED  BY <1>3 DEF InTasks

LEMMA InMailboxPosted ==
  ASSUME NEW X, Posted(X)
  PROVE  \A t : InMailbox(t) => InMailbox(t)'
BY DEF Posted, InMailbox

LEMMA InMailboxPopped ==
  ASSUME MailboxOK, NEW w \in Workers, mailbox[w] # <<>>,
         mailbox' = [mailbox EXCEPT ![w] = Tail(@)]
  PROVE  \A t : InMailbox(t) => t = mailbox[w][1] \/ InMailbox(t)'
<1>1. /\ \A v \in Workers : v # w => mailbox'[v] = mailbox[v]
      /\ \A i \in DOMAIN mailbox'[w] : mailbox'[w][i] = mailbox[w][i + 1]
      /\ \A i \in DOMAIN mailbox[w] : i \in Nat \ {0} /\ (i # 1 => i - 1 \in DOMAIN mailbox'[w])
  BY PopMail
<1>2. ASSUME NEW v \in Workers, NEW i \in DOMAIN mailbox[v], v # w \/ i # 1
      PROVE  \E j \in DOMAIN mailbox'[v] : mailbox'[v][j] = mailbox[v][i]
  <2>1. CASE v # w  BY <2>1, <1>1
  <2>2. CASE v = w
    <3>1. i - 1 \in DOMAIN mailbox'[w] /\ (i - 1) + 1 = i  BY <1>1, <1>2, <2>2
    <3> QED  BY <3>1, <2>2, <1>1
  <2> QED  BY <2>1, <2>2
<1> QED  BY <1>2 DEF InMailbox

\* The mailboxes were those of box before task x was posted to w, at position n.
LastPost(box, w, x, n) ==
    /\ mailbox' \in [Workers -> Seq(TaskRecord)]
    /\ \A u \in Workers : \A i \in DOMAIN box[u] :
          i \in DOMAIN mailbox'[u] /\ mailbox'[u][i] = box[u][i]
    /\ n \in DOMAIN mailbox'[w] /\ mailbox'[w][n] = x
    /\ \A u \in Workers : \A i \in DOMAIN mailbox'[u] :
          i \in DOMAIN box[u] \/ (u = w /\ i = n)

LEMMA PushBox ==
  ASSUME NEW box \in [Workers -> Seq(TaskRecord)], NEW w \in Workers, NEW x \in TaskRecord,
         mailbox' = [box EXCEPT ![w] = Append(@, x)]
  PROVE  \E n : LastPost(box, w, x, n)
<1>1. PICK n : n = Len(box[w]) + 1  OBVIOUS
<1>2. LastPost(box, w, x, n)
  BY <1>1, PushMail DEF LastPost
<1> QED  BY <1>2

\* One task is posted to an epoll thread, or two.
LEMMA PostedOne ==
  ASSUME MailboxOK, NEW w \in Workers, NEW x \in TaskRecord,
         mailbox' = [mailbox EXCEPT ![w] = Append(@, x)]
  PROVE  Posted({x}) /\ InMailbox(x)'
<1>0. mailbox \in [Workers -> Seq(TaskRecord)]  BY DEF MailboxOK
<1>1. PICK n : n = Len(mailbox[w]) + 1  OBVIOUS
<1>2. /\ mailbox' \in [Workers -> Seq(TaskRecord)]
      /\ \A v \in Workers : \A i \in DOMAIN mailbox[v] :
            i \in DOMAIN mailbox'[v] /\ mailbox'[v][i] = mailbox[v][i]
      /\ n \in DOMAIN mailbox'[w] /\ mailbox'[w][n] = x
      /\ \A v \in Workers : \A i \in DOMAIN mailbox'[v] :
            i \in DOMAIN mailbox[v] \/ (v = w /\ i = n)
  BY <1>0, <1>1, PushMail
<1>3. Posted({x})  BY <1>2 DEF Posted
<1> QED  BY <1>2, <1>3 DEF InMailbox

LEMMA PostedTwo ==
  ASSUME MailboxOK, NEW v \in Workers, NEW w \in Workers, NEW x \in TaskRecord,
         NEW y \in TaskRecord, NEW box, box = [mailbox EXCEPT ![v] = Append(@, y)],
         mailbox' = [box EXCEPT ![w] = Append(@, x)]
  PROVE  Posted({x, y}) /\ InMailbox(x)'
<1>0. mailbox \in [Workers -> Seq(TaskRecord)]  BY DEF MailboxOK
<1>1. PICK m : m = Len(mailbox[v]) + 1  OBVIOUS
<1>2. /\ box \in [Workers -> Seq(TaskRecord)]
      /\ \A u \in Workers : \A i \in DOMAIN mailbox[u] :
            i \in DOMAIN box[u] /\ box[u][i] = mailbox[u][i]
      /\ box[v][m] = y
      /\ \A u \in Workers : \A i \in DOMAIN box[u] :
            i \in DOMAIN mailbox[u] \/ (u = v /\ i = m)
  BY <1>0, <1>1, PushMail
<1>3. PICK n : LastPost(box, w, x, n)  BY <1>2, PushBox
<1>4. /\ mailbox' \in [Workers -> Seq(TaskRecord)]
      /\ \A u \in Workers : \A i \in DOMAIN box[u] :
            i \in DOMAIN mailbox'[u] /\ mailbox'[u][i] = box[u][i]
      /\ n \in DOMAIN mailbox'[w] /\ mailbox'[w][n] = x
      /\ \A u \in Workers : \A i \in DOMAIN mailbox'[u] :
            i \in DOMAIN box[u] \/ (u = w /\ i = n)
  BY <1>3 DEF LastPost
<1>5. \A u \in Workers : \A i \in DOMAIN mailbox'[u] :
         i \in DOMAIN mailbox[u] \/ mailbox'[u][i] \in {x, y}
  BY <1>2, <1>4
<1>6. \A u \in Workers : \A i \in DOMAIN mailbox[u] :
         i \in DOMAIN mailbox'[u] /\ mailbox'[u][i] = mailbox[u][i]
  BY <1>2, <1>4
<1> QED  BY <1>4, <1>5, <1>6 DEF Posted, InMailbox

\* The main handler has taken task t, which is about no client or about h.
Taken(t) ==
    /\ tasks # <<>>
    /\ t = Head(tasks)
    /\ tasks' = Tail(tasks)
    /\ client' = client

LEMMA TakenTask ==
  ASSUME IInv, NEW t, Taken(t)
  PROVE  /\ t \in TaskRecord /\ t = tasks[1] /\ TaskOK(t)
         /\ 1 \in DOMAIN tasks
         /\ \A y, h : Is(tasks, 1, y, h) <=> t.type = y /\ t.handle = h
<1>1. /\ Head(tasks) \in TaskRecord /\ Head(tasks) = tasks[1] /\ TaskOK(tasks[1])
      /\ Len(tasks) \in Nat \ {0} /\ DOMAIN tasks = 1 .. Len(tasks)
  BY PopTask DEF IInv, Taken
<1> QED  BY <1>1 DEF Taken, Is

\* What connected node n before the task still does, or the task was about it.
LEMMA ConnectingPop ==
  ASSUME IInv, NEW t, Taken(t), NEW n \in Nodes, Connecting(n),
         timers[n] > 0 => timers'[n] > 0,
         \A x : InMailbox(x) => InMailbox(x)',
         \A h \in DOMAIN handleToNode : h \in DOMAIN handleToNode' \/ t = CloseConnectTask(h)
  PROVE  \/ Connecting(n)'
         \/ t = TimerUpdateTask(n)
         \/ \E h \in Opened :
               /\ client[h].node = n
               /\ \/ t = OpenClientOKTask(h)
                  \/ t = CloseConnectTask(h) /\ h \in DOMAIN handleToNode
                  \/ \E a \in Addresses : t = OpenClientTask(n, h, a)
<1>1. \A x : InTasks(x) => x = t \/ InTasks(x)'
  BY InTasksPop, TakenTask DEF IInv, Taken
<1>2. Opened' = Opened /\ client' = client  BY DEF Opened, Taken
<1>3. CASE timers[n] > 0  BY <1>3 DEF Connecting
<1>4. CASE InTasks(TimerUpdateTask(n))  BY <1>1, <1>4 DEF Connecting
<1>5. CASE \E a \in Addresses : InMailbox(OpenClientTask(n, 0, a))
  BY <1>5 DEF Connecting
<1>6. ASSUME NEW h \in Opened, client[h].node = n,
             \/ client[h].state = "connecting"
             \/ InTasks(OpenClientOKTask(h))
             \/ InTasks(CloseConnectTask(h)) /\ h \in DOMAIN handleToNode
             \/ \E a \in Addresses : InTasks(OpenClientTask(n, h, a))
      PROVE  \/ Connecting(n)'
             \/ t = OpenClientOKTask(h)
             \/ t = CloseConnectTask(h) /\ h \in DOMAIN handleToNode
             \/ \E a \in Addresses : t = OpenClientTask(n, h, a)
  <2>1. CASE client[h].state = "connecting"
    BY <1>2, <1>6, <2>1 DEF Connecting, Opened
  <2>2. CASE InTasks(OpenClientOKTask(h))
    BY <1>1, <1>2, <1>6, <2>2 DEF Connecting, Opened
  <2>3. CASE InTasks(CloseConnectTask(h)) /\ h \in DOMAIN handleToNode
    BY <1>1, <1>2, <1>6, <2>3 DEF Connecting, Opened
  <2>4. ASSUME NEW a \in Addresses, InTasks(OpenClientTask(n, h, a))
        PROVE  Connecting(n)' \/ t = OpenClientTask(n, h, a)
    BY <1>1, <1>2, <1>6, <2>4 DEF Connecting, Opened
  <2> QED  BY <1>6, <2>1, <2>2, <2>3, <2>4
<1> QED  BY <1>3, <1>4, <1>5, <1>6 DEF Connecting, Opened

\* What the main handler is told takes nothing away.
LEMMA ConnectingPush ==
  ASSUME IInv, NEW x \in TaskRecord, tasks' = Append(tasks, x), handleToNode' = handleToNode,
         Grows, NEW n \in Nodes, Connecting(n),
         \A h \in Opened : ClientStep(x, h),
         timers[n] > 0 => timers'[n] > 0,
         \A a \in Addresses : InMailbox(OpenClientTask(n, 0, a)) => InMailbox(OpenClientTask(n, 0, a))'
  PROVE  Connecting(n)'
<1>1. InTasks(x)' /\ \A t : InTasks(t) => InTasks(t)'  BY InTasksPush DEF IInv
<1>2. CASE timers[n] > 0  BY <1>2 DEF Connecting
<1>3. CASE InTasks(TimerUpdateTask(n))  BY <1>1, <1>3 DEF Connecting
<1>4. CASE \E a \in Addresses : InMailbox(OpenClientTask(n, 0, a))
  BY <1>4 DEF Connecting
<1>5. ASSUME NEW h \in Opened, client[h].node = n,
             \/ client[h].state = "connecting"
             \/ InTasks(OpenClientOKTask(h))
             \/ InTasks(CloseConnectTask(h)) /\ h \in DOMAIN handleToNode
             \/ \E a \in Addresses : InTasks(OpenClientTask(n, h, a))
      PROVE  Connecting(n)'
  <2>1. h \in Opened' /\ client'[h].node = n  BY <1>5 DEF Grows
  <2>2. ClientStep(x, h)  OBVIOUS
  <2>3. CASE client[h].state = "connecting"
    <3>1. \/ client'[h].state = "connecting"
          \/ x = OpenClientOKTask(h)
          \/ x = CloseConnectTask(h)
      BY <2>2, <2>3 DEF ClientStep
    <3>2. \/ h \in DOMAIN handleToNode
          \/ \E a \in Addresses : InTasks(OpenClientTask(n, h, a))
      <4>1. \/ h \in DOMAIN handleToNode
            \/ \E i \in DOMAIN tasks : Is(tasks, i, "OpenClient", h)
        BY <2>3 DEF IInv, OrderOK
      <4>2. ASSUME NEW i \in DOMAIN tasks, Is(tasks, i, "OpenClient", h)
            PROVE  \E a \in Addresses : InTasks(OpenClientTask(n, h, a))
        <5>1. /\ tasks[i] \in TaskRecord /\ TaskOK(tasks[i])
              /\ tasks[i].type = "OpenClient" /\ tasks[i].handle = h
          BY <4>2, ElementOfSeq, LenProperties DEF IInv, TasksOK, Is
        <5>2. h # 0  BY LenProperties DEF Opened, IInv, TypeOK
        <5>3. tasks[i].node = n /\ tasks[i].address \in Addresses
          BY <5>1, <5>2, <1>5 DEF TaskOK
        <5>4. tasks[i] = OpenClientTask(n, h, tasks[i].address)
          BY <5>1, <5>3 DEF TaskRecord, OpenClientTask, Task
        <5> QED  BY <5>3, <5>4 DEF InTasks
      <4> QED  BY <4>1, <4>2
    <3> QED  BY <1>1, <2>1, <3>1, <3>2 DEF Connecting, Opened
  <2>4. CASE InTasks(OpenClientOKTask(h))
    BY <1>1, <2>1, <2>4 DEF Connecting, Opened
  <2>5. CASE InTasks(CloseConnectTask(h)) /\ h \in DOMAIN handleToNode
    BY <1>1, <2>1, <2>5 DEF Connecting, Opened
  <2>6. ASSUME NEW a \in Addresses, InTasks(OpenClientTask(n, h, a))  PROVE Connecting(n)'
    BY <1>1, <2>1, <2>6 DEF Connecting, Opened
  <2> QED  BY <1>5, <2>3, <2>4, <2>5, <2>6
<1> QED  BY <1>2, <1>3, <1>4, <1>5 DEF Connecting, Opened

-----------------------------------------------------------------------------
(***************************************************************************)
(* The tasks of the main handler.                                          *)
(***************************************************************************)

LEMMA OpenedRange ==
  ASSUME TypeOK
  PROVE  /\ Len(client) \in Nat /\ Opened = 1 .. Len(client) /\ Opened \subseteq Handles
         /\ 0 \notin Opened
         /\ \A h \in Opened : client[h] \in ClientRecord
<1>1. /\ Len(client) \in Nat /\ Opened = 1 .. Len(client)
      /\ \A h \in Opened : client[h] \in ClientRecord
  BY LenProperties, ElementOfSeq DEF TypeOK, Opened
<1>2. Len(client) <= MaxHandle  BY DEF TypeOK
<1>3. Opened \subseteq Handles  BY <1>1, <1>2, NodeConnectAssumption DEF Handles
<1> QED  BY <1>1, <1>3

LEMMA TakenQueues ==
  ASSUME IInv, NEW t, Taken(t), Grows, NEW X, Posted(X), \A x \in X : MailOK(x)'
  PROVE  Queues'
<1>1. TasksOK'  BY TasksPop DEF IInv, Taken
<1>2. MailboxOK'  BY MailPosted DEF IInv
<1> QED  BY <1>1, <1>2 DEF Queues

LEMMA IdentifiesTaken ==
  ASSUME IInv, NEW t, Taken(t), NEW X, Posted(X), \A x \in X : x.type # "Send"
  PROVE  IdentifiesOK'
<1>1. ASSUME NEW h \in Opened'  PROVE Once(h)' /\ Counts(h)'
  <2>1. h \in Opened /\ client' = client  BY DEF Taken, Opened
  <2>2. Once(h) /\ Counts(h)  BY <2>1, IdentifiesByClient DEF IInv
  <2>3. AsksFrom(h, 1)  BY AsksPop DEF IInv, Taken
  <2>4. SendsFrom(h, Zero)  BY SendsPosted DEF IInv
  <2>5. Zero \in [Workers -> {0, 1}]  BY DEF Zero
  <2> QED  BY <2>1, <2>2, <2>3, <2>4, <2>5, QuietClient
<1> QED  BY <1>1, IdentifiesByClientNext

\* A task that neither tells of a new client nor of a closed one
LEMMA OrderTaken ==
  ASSUME IInv, NEW t, Taken(t), t.type \notin {"OpenClient", "CloseConnect"},
         handleToNode' = handleToNode
  PROVE  OrderOK' /\ ClosesAreHandled'
<1>1. \A h : ~ Is(tasks, 1, "CloseConnect", h) /\ ~ Is(tasks, 1, "OpenClient", h)
  BY TakenTask
<1> QED  BY <1>1, OrderPop DEF Taken

LEMMA HiveStep ==
  ASSUME IInv, NEW t, Taken(t), OnHive(t)
  PROVE  IInv'
<1>1. /\ t \in TaskRecord /\ t.type = "Hive" /\ t.node \in Nodes /\ t.address \in Addresses
      /\ t.address # NoAddress
  BY TakenTask, NodeConnectAssumption DEF OnHive, TaskOK, TaskRecord
<1>2. PICK n \in Nodes : n = t.node  BY <1>1
<1>3. /\ handleToNode' = handleToNode /\ timers' = timers /\ client' = client
      /\ Opened' = Opened
  BY DEF OnHive, Taken, Opened
<1>4. Types /\ MailboxOK /\ HandlesOK /\ RouteLeadsToNode /\ NodeNeverForgotten
      /\ mailbox \in [Workers -> Seq(TaskRecord)]
  BY DEF IInv, TypeOK, Types, MailboxOK
<1>5. \/ /\ info' = info /\ route' = route /\ failed' = failed
         /\ Posted({})
      \/ /\ info' = [info EXCEPT ![n] = t.address] /\ route' = [route EXCEPT ![n] = 0]
         /\ failed' = [failed EXCEPT ![n] = FALSE]
         /\ InMailbox(OpenClientTask(n, 0, t.address))'
         /\ \E X : /\ Posted(X)
                   /\ \A x \in X : \/ x = OpenClientTask(n, 0, t.address)
                                   \/ \E h \in Opened : x = CloseConnectTask(h)
  <2>1. CASE info[n] = t.address
    BY <1>2, <1>4, <2>1 DEF OnHive, Posted
  <2>2. CASE info[n] # t.address
    <3>1. PICK old \in Handles \union {0} : old = route[n]  BY <1>4 DEF Types
    <3>2. PICK box : box = IF old > 0
                           THEN PostToWorkerOf(mailbox, old, CloseConnectTask(old))
                           ELSE mailbox
      OBVIOUS
    <3>3. /\ info' = [info EXCEPT ![n] = t.address] /\ route' = [route EXCEPT ![n] = 0]
          /\ CheckNodeConnect(n, route', t.address, box)
      BY <1>2, <2>2, <3>1, <3>2 DEF OnHive
    <3>4. route'[n] = 0  BY <3>3, <1>4 DEF Types
    <3>5. PICK w \in Workers : mailbox' = [box EXCEPT ![w] = Append(@, OpenClientTask(n, 0, t.address))]
      BY <3>3, <3>4 DEF CheckNodeConnect
    <3>6. failed' = [failed EXCEPT ![n] = FALSE]  BY <3>3, <3>4 DEF CheckNodeConnect
    <3>7. OpenClientTask(n, 0, t.address) \in TaskRecord
      BY <1>1 DEF OpenClientTask, Task, TaskRecord
    <3>8. CASE old > 0
      <4>1. old \in Opened
        BY <3>1, <3>8, <1>4 DEF RouteLeadsToNode, HandlesOK
      <4>2. PICK v \in Workers : v = client[old].worker
        BY <4>1, OpenedRange DEF IInv, ClientRecord
      <4>3. box = [mailbox EXCEPT ![v] = Append(@, CloseConnectTask(old))]
        BY <3>2, <3>8, <4>2 DEF PostToWorkerOf
      <4>4. CloseConnectTask(old) \in TaskRecord
        BY <3>1, NodeConnectAssumption DEF CloseConnectTask, Task, TaskRecord, Handles
      <4>5. /\ Posted({OpenClientTask(n, 0, t.address), CloseConnectTask(old)})
            /\ InMailbox(OpenClientTask(n, 0, t.address))'
        BY <1>4, <3>5, <3>7, <4>3, <4>4, PostedTwo
      <4>6. PICK X : X = {OpenClientTask(n, 0, t.address), CloseConnectTask(old)}  OBVIOUS
      <4> QED  BY <3>3, <3>6, <4>1, <4>5, <4>6
    <3>9. CASE ~ old > 0
      <4>1. box = mailbox  BY <3>2, <3>9
      <4>2. /\ Posted({OpenClientTask(n, 0, t.address)})
            /\ InMailbox(OpenClientTask(n, 0, t.address))'
        BY <1>4, <3>5, <3>7, <4>1, PostedOne
      <4>3. PICK X : X = {OpenClientTask(n, 0, t.address)}  OBVIOUS
      <4> QED  BY <3>3, <3>6, <4>2, <4>3
    <3> QED  BY <3>8, <3>9
  <2> QED  BY <2>1, <2>2
<1>6. /\ info' \in [Nodes -> Addresses \union {NoAddress}] /\ route' \in [Nodes -> Handles \union {0}]
      /\ failed' \in [Nodes -> BOOLEAN]
      /\ \A m \in Nodes : /\ info[m] # NoAddress => info'[m] # NoAddress
                          /\ route'[m] # 0 => route'[m] = route[m]
  BY <1>1, <1>4, <1>5 DEF Types
<1>7. Grows  BY <1>3, <1>6 DEF Grows
<1>8. PICK X : /\ Posted(X)
               /\ \A x \in X : /\ x.type # "Send"
                               /\ MailOK(x)'
  <2>1. CASE Posted({})  BY <2>1
  <2>2. ASSUME NEW X, Posted(X), info' = [info EXCEPT ![n] = t.address],
               \A x \in X : \/ x = OpenClientTask(n, 0, t.address)
                            \/ \E h \in Opened : x = CloseConnectTask(h)
        PROVE  \A x \in X : x.type # "Send" /\ MailOK(x)'
    <3>1. info'[n] # NoAddress  BY <1>1, <1>4, <2>2 DEF Types
    <3>2. ASSUME NEW x \in X, x = OpenClientTask(n, 0, t.address)
          PROVE  x.type # "Send" /\ MailOK(x)'
      BY <1>1, <3>1, <3>2 DEF MailOK, OpenClientTask, Task
    <3>3. ASSUME NEW x \in X, NEW h \in Opened, x = CloseConnectTask(h)
          PROVE  x.type # "Send" /\ MailOK(x)'
      BY <1>3, <3>3 DEF MailOK, CloseConnectTask, Task
    <3> QED  BY <2>2, <3>2, <3>3
  <2> QED  BY <1>5, <2>1, <2>2
<1>9. Types'  BY <1>3, <1>4, <1>6 DEF Types
<1>10. Queues'  BY <1>7, <1>8, TakenQueues
<1>11. HandlesOK'
  <2>1. \A h \in Opened : client[h].node \in Nodes
    BY OpenedRange DEF IInv, ClientRecord
  <2> QED  BY <1>3, <1>4, <1>6, <2>1 DEF HandlesOK
<1>12. OrderOK' /\ ClosesAreHandled'  BY <1>1, <1>3, OrderTaken
<1>13. IdentifiesOK'  BY <1>8, IdentifiesTaken
<1>14. RouteLeadsToNode'  BY <1>3, <1>4, <1>6 DEF RouteLeadsToNode
<1>15. NodeNeverForgotten'
  <2>1. \A x : InMailbox(x) => InMailbox(x)'  BY <1>8, InMailboxPosted
  <2>2. ASSUME NEW m \in Nodes, info'[m] # NoAddress, ~ failed'[m], route'[m] = 0
        PROVE  Connecting(m)'
    <3>1. CASE info'[m] = info[m] /\ failed'[m] = failed[m] /\ route'[m] = route[m]
      <4>1. Connecting(m)  BY <1>4, <2>2, <3>1 DEF NodeNeverForgotten
      <4>2. \A h \in Opened : t # OpenClientOKTask(h) /\ t # CloseConnectTask(h)
                              /\ \A a \in Addresses : t # OpenClientTask(m, h, a)
        BY <1>1 DEF OpenClientOKTask, CloseConnectTask, OpenClientTask, Task
      <4>3. t # TimerUpdateTask(m)  BY <1>1 DEF TimerUpdateTask, Task
      <4> QED  BY <1>3, <2>1, <4>1, <4>2, <4>3, ConnectingPop
    <3>2. CASE m = n /\ InMailbox(OpenClientTask(n, 0, t.address))'
      BY <1>1, <3>2 DEF Connecting
    <3> QED  BY <1>4, <1>5, <3>1, <3>2 DEF Types
  <2> QED  BY <2>2 DEF NodeNeverForgotten
<1> QED  BY <1>9, <1>10, <1>11, <1>12, <1>13, <1>14, <1>15, TypesSufficeNext DEF IInv, Queues

\* OnOpenClient: the handler learns to which node the client was opened.
LEMMA OpenClientStep ==
  ASSUME IInv, NEW t, Taken(t), OnOpenClient(t)
  PROVE  IInv'
<1>1. /\ t \in TaskRecord /\ t.type = "OpenClient" /\ t.node \in Nodes /\ t.address \in Addresses
      /\ t.handle \in Opened \union {0}
      /\ t.handle # 0 => t.node = client[t.handle].node
      /\ 1 \in DOMAIN tasks /\ Is(tasks, 1, "OpenClient", t.handle)
      /\ \A h : ~ Is(tasks, 1, "CloseConnect", h)
      /\ \A h : Is(tasks, 1, "OpenClient", h) => h = t.handle
  BY TakenTask DEF OnOpenClient, TaskOK, TaskRecord
<1>2. /\ info' = info /\ route' = route /\ mailbox' = mailbox /\ timers' = timers
      /\ failed' = failed /\ client' = client /\ Opened' = Opened
      /\ DOMAIN handleToNode' = DOMAIN handleToNode \union {t.handle}
      /\ \A h \in DOMAIN handleToNode \ {t.handle} : handleToNode'[h] = handleToNode[h]
      /\ handleToNode'[t.handle] = t.node
  BY DEF OnOpenClient, Taken, Opened
<1>3. /\ Types /\ MailboxOK /\ HandlesOK /\ RouteLeadsToNode /\ NodeNeverForgotten
      /\ Opened \subseteq Handles /\ 0 \notin Opened
  BY OpenedRange DEF IInv, TypeOK, Types
<1>4. Posted({})  BY <1>2, <1>3 DEF Posted, MailboxOK
<1>5. Grows  BY <1>2 DEF Grows
<1>6. Types'
  <2>1. DOMAIN handleToNode' \subseteq Handles \union {0}  BY <1>1, <1>2, <1>3 DEF Types
  <2>2. \A h \in DOMAIN handleToNode' : handleToNode'[h] \in Nodes
    BY <1>1, <1>2, <1>3 DEF Types
  <2> QED  BY <1>2, <1>3, <2>1, <2>2 DEF Types
<1>7. Queues'  BY <1>4, <1>5, TakenQueues
<1>8. HandlesOK'
  <2>1. ASSUME NEW h \in DOMAIN handleToNode' \ {0}
        PROVE  h \in Opened /\ handleToNode'[h] = client[h].node
    <3>1. CASE h = t.handle  BY <1>1, <1>2, <3>1
    <3>2. CASE h # t.handle  BY <1>2, <1>3, <3>2 DEF HandlesOK
    <3> QED  BY <3>1, <3>2
  <2> QED  BY <1>2, <1>3, <2>1 DEF HandlesOK
<1>9. OrderOK' /\ ClosesAreHandled'
  <2>1. \A h \in Opened :
            \/ h \in DOMAIN handleToNode /\ ~ Is(tasks, 1, "CloseConnect", h)
            \/ Is(tasks, 1, "OpenClient", h)
            => h \in DOMAIN handleToNode'
    BY <1>1, <1>2
  <2>2. \A h \in DOMAIN handleToNode' \ {0} :
            \/ h \in DOMAIN handleToNode /\ ~ Is(tasks, 1, "CloseConnect", h)
            \/ Is(tasks, 1, "OpenClient", h)
    BY <1>1, <1>2
  <2> QED  BY <2>1, <2>2, OrderPop DEF Taken
<1>10. IdentifiesOK'  BY <1>4, IdentifiesTaken
<1>11. RouteLeadsToNode'
  <2>1. ASSUME NEW n \in Nodes, route[n] # 0
        PROVE  route[n] \in DOMAIN handleToNode' /\ handleToNode'[route[n]] = n
               /\ client[route[n]].node = n
    <3>1. /\ route[n] \in DOMAIN handleToNode /\ handleToNode[route[n]] = n
          /\ client[route[n]].node = n
      BY <1>3, <2>1 DEF RouteLeadsToNode
    <3>2. CASE route[n] = t.handle  BY <1>1, <1>2, <2>1, <3>1, <3>2
    <3>3. CASE route[n] # t.handle  BY <1>2, <3>1, <3>3
    <3> QED  BY <3>2, <3>3
  <2> QED  BY <1>2, <2>1 DEF RouteLeadsToNode
<1>12. NodeNeverForgotten'
  <2>1. ASSUME NEW n \in Nodes, info[n] # NoAddress, ~ failed[n], route[n] = 0
        PROVE  Connecting(n)'
    <3>1. Connecting(n)  BY <1>3, <2>1 DEF NodeNeverForgotten
    <3>2. \/ Connecting(n)'
          \/ t = TimerUpdateTask(n)
          \/ \E h \in Opened :
                /\ client[h].node = n
                /\ \/ t = OpenClientOKTask(h)
                   \/ t = CloseConnectTask(h) /\ h \in DOMAIN handleToNode
                   \/ \E a \in Addresses : t = OpenClientTask(n, h, a)
      <4>1. \A x : InMailbox(x) => InMailbox(x)'  BY <1>4, InMailboxPosted
      <4>2. \A h \in DOMAIN handleToNode : h \in DOMAIN handleToNode'  BY <1>2
      <4>3. timers[n] > 0 => timers'[n] > 0  BY <1>2
      <4> QED  BY <3>1, <4>1, <4>2, <4>3, ConnectingPop
    <3>3. t # TimerUpdateTask(n) /\ \A h : t # OpenClientOKTask(h) /\ t # CloseConnectTask(h)
      BY <1>1 DEF TimerUpdateTask, OpenClientOKTask, CloseConnectTask, Task
    <3>4. ASSUME NEW h \in Opened, client[h].node = n, h = t.handle  PROVE Connecting(n)'
      <4>1. Is(tasks, 1, "OpenClient", h)  BY <1>1, <3>4
      <4>2. CASE client[h].state = "connecting"
        BY <1>2, <3>4, <4>2 DEF Connecting, Opened
      <4>3. ASSUME NEW j \in DOMAIN tasks, 1 < j, Is(tasks, j, "OpenClientOK", h)
            PROVE  Connecting(n)'
        <5>1. InTasks(OpenClientOKTask(h)) /\ tasks[j] = OpenClientOKTask(h)
          BY <4>3 DEF IInv, TasksOK, TaskOK, Is, InTasks
        <5>2. InTasks(OpenClientOKTask(h))'
          BY <3>3, <5>1, TakenTask, InTasksPop DEF IInv, Taken
        <5> QED  BY <1>2, <3>4, <5>2 DEF Connecting, Opened
      <4>4. ASSUME NEW j \in DOMAIN tasks, 1 < j, Is(tasks, j, "CloseConnect", h)
            PROVE  Connecting(n)'
        <5>1. InTasks(CloseConnectTask(h))
          BY <4>4 DEF IInv, TasksOK, TaskOK, Is, InTasks
        <5>2. InTasks(CloseConnectTask(h))'
          BY <3>3, <5>1, TakenTask, InTasksPop DEF IInv, Taken
        <5> QED  BY <1>2, <3>4, <5>2 DEF Connecting, Opened
      <4> QED  BY <1>1, <4>1, <4>2, <4>3, <4>4 DEF IInv, OrderOK
    <3>5. \A h, a : t = OpenClientTask(n, h, a) => h = t.handle
      BY DEF OpenClientTask, Task
    <3> QED  BY <3>2, <3>3, <3>4, <3>5
  <2> QED  BY <1>2, <2>1 DEF NodeNeverForgotten
<1> QED  BY <1>6, <1>7, <1>8, <1>9, <1>10, <1>11, <1>12, TypesSufficeNext DEF IInv, Queues

\* OnOpenClientOK: the client becomes the route of its node and identifies itself.
LEMMA OpenClientOKStep ==
  ASSUME IInv, NEW t, Taken(t), OnOpenClientOK(t)
  PROVE  IInv'
<1>1. PICK h : h = t.handle  OBVIOUS
<1>2. /\ t \in TaskRecord /\ t.type = "OpenClientOK" /\ h \in Opened /\ t = OpenClientOKTask(h)
      /\ 1 \in DOMAIN tasks /\ Is(tasks, 1, "OpenClientOK", h)
  BY <1>1, TakenTask DEF OnOpenClientOK, TaskOK
<1>3. /\ Types /\ TasksOK /\ MailboxOK /\ HandlesOK /\ RouteLeadsToNode /\ NodeNeverForgotten
      /\ Opened \subseteq Handles /\ 0 \notin Opened
      /\ client[h].worker \in Workers /\ client[h].node \in Nodes
  BY <1>2, OpenedRange DEF IInv, TypeOK, Types, ClientRecord
<1>4. h \in DOMAIN handleToNode
  <2>1. \/ h \in DOMAIN handleToNode
        \/ \E j \in DOMAIN tasks : j < 1 /\ Is(tasks, j, "OpenClient", h)
    BY <1>2 DEF IInv, OrderOK
  <2>2. \A j \in DOMAIN tasks : ~ (j < 1)  BY LenProperties, <1>3 DEF TasksOK
  <2> QED  BY <2>1, <2>2
<1>5. PICK n \in Nodes : n = handleToNode[h] /\ n = client[h].node
  BY <1>3, <1>4, <1>2 DEF HandlesOK
<1>6. PICK w \in Workers : w = client[h].worker  BY <1>3
<1>7. /\ info' = info /\ handleToNode' = handleToNode /\ timers' = timers
      /\ failed' = failed /\ client' = client /\ Opened' = Opened
      /\ route' = [route EXCEPT ![n] = h]
      /\ mailbox' = [mailbox EXCEPT ![w] = Append(@, SendTask(h))]
  BY <1>1, <1>4, <1>5, <1>6 DEF OnOpenClientOK, Taken, Opened, PostToWorkerOf
<1>8. SendTask(h) \in TaskRecord
  BY <1>2, <1>3, NodeConnectAssumption DEF SendTask, Task, TaskRecord, Handles
<1>9. Posted({SendTask(h)})  BY <1>3, <1>7, <1>8, PostedOne
<1>10. MailOK(SendTask(h))'  BY <1>2, <1>7 DEF MailOK, SendTask, Task
<1>11. Grows  BY <1>7 DEF Grows
<1>12. Types'  BY <1>2, <1>3, <1>7 DEF Types
<1>13. Queues'  BY <1>9, <1>10, <1>11, TakenQueues
<1>14. HandlesOK'  BY <1>3, <1>7 DEF HandlesOK
<1>15. OrderOK' /\ ClosesAreHandled'  BY <1>2, <1>7, OrderTaken
<1>16. IdentifiesOK'
  <2>1. ASSUME NEW g \in Opened, g # h  PROVE Once(g)' /\ Counts(g)'
    <3>1. Once(g) /\ Counts(g)  BY IdentifiesByClient DEF IInv
    <3>2. AsksFrom(g, 1)  BY AsksPop DEF IInv, Taken
    <3>3. \A x \in {SendTask(h)} : ~ (x.type = "Send" /\ x.handle = g)
      BY <2>1 DEF SendTask, Task
    <3>4. SendsFrom(g, Zero)
      <4>1. PICK X : X = {SendTask(h)}  OBVIOUS
      <4> QED  BY <1>3, <1>9, <3>3, <4>1, SendsPosted
    <3>5. Zero \in [Workers -> {0, 1}]  BY DEF Zero
    <3> QED  BY <1>7, <3>1, <3>2, <3>4, <3>5, QuietClient
  <2>2. Once(h)' /\ Counts(h)'
    <3>1. Once(h) /\ Counts(h)  BY <1>2, IdentifiesByClient DEF IInv
    <3>2. Asks(h, 1)  BY <1>2 DEF Asks
    <3> QED  BY <1>3, <1>7, <1>8, <3>1, <3>2, PacketPosted DEF Taken
  <2> QED  BY <1>7, <2>1, <2>2, IdentifiesByClientNext
<1>17. RouteLeadsToNode'
  BY <1>3, <1>4, <1>5, <1>7 DEF RouteLeadsToNode, Types
<1>18. NodeNeverForgotten'
  <2>1. ASSUME NEW m \in Nodes, info[m] # NoAddress, ~ failed[m], route'[m] = 0
        PROVE  Connecting(m)'
    <3>1. m # n /\ route[m] = 0  BY <1>2, <1>3, <1>7, <2>1 DEF Types
    <3>2. Connecting(m)  BY <1>3, <2>1, <3>1 DEF NodeNeverForgotten
    <3>3. \A x : InMailbox(x) => InMailbox(x)'  BY <1>9, InMailboxPosted
    <3>4. t # TimerUpdateTask(m)
          /\ \A g : t # CloseConnectTask(g) /\ \A a : t # OpenClientTask(m, g, a)
      BY <1>2 DEF TimerUpdateTask, OpenClientTask, CloseConnectTask, Task
    <3>5. \A g : t = OpenClientOKTask(g) => g = h
      BY <1>1 DEF OpenClientOKTask, Task
    <3>6. \/ Connecting(m)'
          \/ t = TimerUpdateTask(m)
          \/ \E g \in Opened :
                /\ client[g].node = m
                /\ \/ t = OpenClientOKTask(g)
                   \/ t = CloseConnectTask(g) /\ g \in DOMAIN handleToNode
                   \/ \E a \in Addresses : t = OpenClientTask(m, g, a)
      <4>1. \A g \in DOMAIN handleToNode : g \in DOMAIN handleToNode'  BY <1>7
      <4>2. timers[m] > 0 => timers'[m] > 0  BY <1>7
      <4> QED  BY <3>2, <3>3, <4>1, <4>2, ConnectingPop
    <3> QED  BY <1>5, <3>1, <3>4, <3>5, <3>6
  <2> QED  BY <1>7, <2>1 DEF NodeNeverForgotten
<1> QED  BY <1>12, <1>13, <1>14, <1>15, <1>16, <1>17, <1>18, TypesSufficeNext DEF IInv, Queues

\* OnCloseConnect: the handle is forgotten with the route; the timer starts.
LEMMA CloseConnectStep ==
  ASSUME IInv, NEW t, Taken(t), OnCloseConnect(t)
  PROVE  IInv'
<1>1. PICK h : h = t.handle  OBVIOUS
<1>2. /\ t \in TaskRecord /\ t.type = "CloseConnect" /\ h \in Opened /\ t = CloseConnectTask(h)
      /\ 1 \in DOMAIN tasks
      /\ \A g : Is(tasks, 1, "CloseConnect", g) <=> g = h
      /\ \A g : ~ Is(tasks, 1, "OpenClient", g)
  BY <1>1, TakenTask DEF OnCloseConnect, TaskOK
<1>3. /\ Types /\ TasksOK /\ MailboxOK /\ HandlesOK /\ RouteLeadsToNode /\ NodeNeverForgotten
      /\ Opened \subseteq Handles /\ 0 \notin Opened /\ h # 0
  BY <1>2, OpenedRange DEF IInv, TypeOK, Types
<1>4. /\ info' = info /\ mailbox' = mailbox /\ failed' = failed /\ client' = client
      /\ Opened' = Opened
      /\ DOMAIN handleToNode' = DOMAIN handleToNode \ {h}
      /\ \A g \in DOMAIN handleToNode' : handleToNode'[g] = handleToNode[g]
      /\ h \notin DOMAIN handleToNode => route' = route /\ timers' = timers
  <2>1. CASE h \in DOMAIN handleToNode
    BY <1>1, <2>1 DEF OnCloseConnect, Taken, Opened, Forget
  <2>2. CASE h \notin DOMAIN handleToNode
    BY <1>1, <2>2 DEF OnCloseConnect, Taken, Opened
  <2> QED  BY <2>1, <2>2
<1>5. ASSUME h \in DOMAIN handleToNode
      PROVE  \E n \in Nodes : /\ n = handleToNode[h] /\ n = client[h].node
                              /\ route' = [route EXCEPT ![n] = 0]
                              /\ timers' = [timers EXCEPT ![n] = @ + 1]
                              /\ info[n] # NoAddress
  <2>1. PICK n \in Nodes : n = handleToNode[h]  BY <1>3, <1>5 DEF Types
  <2>2. n = client[h].node /\ info[n] # NoAddress  BY <1>2, <1>3, <1>5, <2>1 DEF HandlesOK
  <2> QED  BY <1>1, <1>5, <2>1, <2>2 DEF OnCloseConnect
<1>6. /\ route' \in [Nodes -> Handles \union {0}] /\ timers' \in [Nodes -> Nat]
      /\ \A n \in Nodes : /\ route'[n] # 0 => route'[n] = route[n]
                          /\ timers[n] > 0 => timers'[n] > 0
                          /\ timers'[n] > 0 => info[n] # NoAddress
  <2>1. CASE h \in DOMAIN handleToNode
    <3>1. PICK n \in Nodes : /\ route' = [route EXCEPT ![n] = 0]
                             /\ timers' = [timers EXCEPT ![n] = @ + 1]
                             /\ info[n] # NoAddress
      BY <1>5, <2>1
    <3> QED  BY <1>3, <3>1 DEF Types, HandlesOK
  <2>2. CASE h \notin DOMAIN handleToNode
    BY <1>3, <1>4, <2>2 DEF Types, HandlesOK
  <2> QED  BY <2>1, <2>2
<1>7. Posted({})  BY <1>3, <1>4 DEF Posted, MailboxOK
<1>8. Grows  BY <1>4 DEF Grows
<1>9. Types'  BY <1>3, <1>4, <1>6 DEF Types
<1>10. Queues'  BY <1>7, <1>8, TakenQueues
<1>11. HandlesOK'  BY <1>3, <1>4, <1>6 DEF HandlesOK
<1>12. OrderOK' /\ ClosesAreHandled'
  <2>1. \A g \in Opened :
            \/ g \in DOMAIN handleToNode /\ ~ Is(tasks, 1, "CloseConnect", g)
            \/ Is(tasks, 1, "OpenClient", g)
            => g \in DOMAIN handleToNode'
    BY <1>2, <1>4
  <2>2. \A g \in DOMAIN handleToNode' \ {0} :
            \/ g \in DOMAIN handleToNode /\ ~ Is(tasks, 1, "CloseConnect", g)
            \/ Is(tasks, 1, "OpenClient", g)
    BY <1>2, <1>4
  <2> QED  BY <2>1, <2>2, OrderPop DEF Taken
<1>13. IdentifiesOK'  BY <1>7, IdentifiesTaken
<1>14. RouteLeadsToNode'
  <2>1. ASSUME NEW m \in Nodes, route'[m] # 0
        PROVE  route'[m] \in DOMAIN handleToNode' /\ handleToNode'[route'[m]] = m
               /\ client[route'[m]].node = m
    <3>1. /\ route'[m] = route[m] /\ route[m] \in DOMAIN handleToNode
          /\ handleToNode[route[m]] = m /\ client[route[m]].node = m
      BY <1>3, <1>6, <2>1 DEF RouteLeadsToNode
    <3>2. route'[m] # h
      <4>1. CASE h \in DOMAIN handleToNode
        <5>1. PICK n \in Nodes : n = handleToNode[h] /\ route' = [route EXCEPT ![n] = 0]
          BY <1>5, <4>1
        <5>2. m # n  BY <1>3, <2>1, <5>1 DEF Types
        <5> QED  BY <3>1, <5>1, <5>2
      <4>2. CASE h \notin DOMAIN handleToNode  BY <3>1, <4>2
      <4> QED  BY <4>1, <4>2
    <3> QED  BY <1>4, <3>1, <3>2
  <2> QED  BY <1>4, <2>1 DEF RouteLeadsToNode
<1>15. NodeNeverForgotten'
  <2>1. ASSUME NEW m \in Nodes, info[m] # NoAddress, ~ failed[m], route'[m] = 0
        PROVE  Connecting(m)'
    <3>1. CASE route[m] # 0
      <4>1. h \in DOMAIN handleToNode  BY <1>4, <2>1, <3>1
      <4>2. PICK n \in Nodes : /\ route' = [route EXCEPT ![n] = 0]
                               /\ timers' = [timers EXCEPT ![n] = @ + 1]
        BY <1>5, <4>1
      <4>3. timers'[m] > 0  BY <1>3, <2>1, <3>1, <4>2 DEF Types
      <4> QED  BY <4>3 DEF Connecting
    <3>2. CASE route[m] = 0
      <4>1. Connecting(m)  BY <1>3, <2>1, <3>2 DEF NodeNeverForgotten
      <4>2. \A x : InMailbox(x) => InMailbox(x)'  BY <1>7, InMailboxPosted
      <4>3. \A g \in DOMAIN handleToNode : g \in DOMAIN handleToNode' \/ t = CloseConnectTask(g)
        BY <1>2, <1>4
      <4>4. timers[m] > 0 => timers'[m] > 0  BY <1>6
      <4>5. \/ Connecting(m)'
            \/ t = TimerUpdateTask(m)
            \/ \E g \in Opened :
                  /\ client[g].node = m
                  /\ \/ t = OpenClientOKTask(g)
                     \/ t = CloseConnectTask(g) /\ g \in DOMAIN handleToNode
                     \/ \E a \in Addresses : t = OpenClientTask(m, g, a)
        BY <4>1, <4>2, <4>3, <4>4, ConnectingPop
      <4>6. t # TimerUpdateTask(m)
            /\ \A g : t # OpenClientOKTask(g) /\ \A a : t # OpenClientTask(m, g, a)
        BY <1>2 DEF TimerUpdateTask, OpenClientTask, OpenClientOKTask, Task
      <4>7. \A g : t = CloseConnectTask(g) => g = h
        BY <1>1 DEF CloseConnectTask, Task
      <4>8. ASSUME client[h].node = m, h \in DOMAIN handleToNode  PROVE Connecting(m)'
        <5>1. timers' = [timers EXCEPT ![m] = @ + 1]  BY <1>5, <4>8
        <5>2. timers'[m] > 0  BY <1>3, <5>1 DEF Types
        <5> QED  BY <5>2 DEF Connecting
      <4> QED  BY <4>5, <4>6, <4>7, <4>8
    <3> QED  BY <3>1, <3>2
  <2> QED  BY <1>4, <2>1 DEF NodeNeverForgotten
<1> QED  BY <1>9, <1>10, <1>11, <1>12, <1>13, <1>14, <1>15, TypesSufficeNext DEF IInv, Queues

\* OnTimerUpdate: a client is opened to a node that has no route.
LEMMA TimerUpdateStep ==
  ASSUME IInv, NEW t, Taken(t), OnTimerUpdate(t)
  PROVE  IInv'
<1>1. PICK n : n = t.node  OBVIOUS
<1>2. /\ t \in TaskRecord /\ t.type = "TimerUpdate" /\ n \in Nodes /\ t = TimerUpdateTask(n)
      /\ info[n] # NoAddress
  BY <1>1, TakenTask DEF OnTimerUpdate, TaskOK, TaskRecord
<1>3. Types /\ MailboxOK /\ HandlesOK /\ RouteLeadsToNode /\ NodeNeverForgotten
  BY DEF IInv, TypeOK, Types
<1>4. /\ info' = info /\ handleToNode' = handleToNode /\ route' = route /\ timers' = timers
      /\ client' = client /\ Opened' = Opened
  BY DEF OnTimerUpdate, Taken, Opened
<1>5. info[n] \in Addresses  BY <1>2, <1>3 DEF Types
<1>6. PICK x \in TaskRecord : x = OpenClientTask(n, 0, info[n])
  BY <1>2, <1>5 DEF OpenClientTask, Task, TaskRecord
<1>7. \/ route[n] # 0 /\ failed' = failed /\ Posted({})
      \/ failed' = [failed EXCEPT ![n] = FALSE] /\ Posted({x}) /\ InMailbox(x)'
  <2>1. CASE route[n] > 0
    <3>1. mailbox' = mailbox /\ failed' = failed
      BY <1>1, <2>1 DEF OnTimerUpdate, CheckNodeConnect
    <3>2. Posted({})  BY <1>3, <3>1 DEF Posted, MailboxOK
    <3> QED  BY <2>1, <3>1, <3>2
  <2>2. CASE ~ route[n] > 0
    <3>1. PICK w \in Workers : mailbox' = [mailbox EXCEPT ![w] = Append(@, x)]
      BY <1>1, <1>6, <2>2 DEF OnTimerUpdate, CheckNodeConnect
    <3>2. failed' = [failed EXCEPT ![n] = FALSE]
      BY <1>1, <2>2 DEF OnTimerUpdate, CheckNodeConnect
    <3> QED  BY <1>3, <3>1, <3>2, PostedOne
  <2> QED  BY <2>1, <2>2
<1>8. PICK X : Posted(X) /\ X \in {{}, {x}}  BY <1>7
<1>9. MailOK(x)' /\ x.type # "Send"
  BY <1>2, <1>4, <1>5, <1>6 DEF MailOK, OpenClientTask, Task
<1>10. \A y \in X : MailOK(y)' /\ y.type # "Send"
  <2>1. CASE X = {}  BY <2>1
  <2>2. CASE X = {x}
    <3> SUFFICES ASSUME NEW y \in X PROVE MailOK(y)' /\ y.type # "Send"
      OBVIOUS
    <3>1. y = x  BY <2>2
    <3> QED  BY <1>9, <3>1 DEF MailOK
  <2> QED  BY <1>8, <2>1, <2>2
<1>11. Grows  BY <1>4 DEF Grows
<1>12. Types'
  <2>1. failed' \in [Nodes -> BOOLEAN]  BY <1>3, <1>7 DEF Types
  <2> QED  BY <1>3, <1>4, <2>1 DEF Types
<1>13. Queues'  BY <1>8, <1>10, <1>11, TakenQueues
<1>14. HandlesOK'  BY <1>3, <1>4 DEF HandlesOK
<1>15. OrderOK' /\ ClosesAreHandled'  BY <1>2, <1>4, OrderTaken
<1>16. IdentifiesOK'  BY <1>8, <1>10, IdentifiesTaken
<1>17. RouteLeadsToNode'  BY <1>3, <1>4 DEF RouteLeadsToNode
<1>18. NodeNeverForgotten'
  <2>1. ASSUME NEW m \in Nodes, info[m] # NoAddress, ~ failed'[m], route[m] = 0
        PROVE  Connecting(m)'
    <3>1. CASE m = n
      <4>1. InMailbox(x)'  BY <1>7, <2>1, <3>1
      <4> QED  BY <1>5, <1>6, <3>1, <4>1 DEF Connecting
    <3>2. CASE m # n
      <4>1. ~ failed[m]  BY <1>3, <1>7, <2>1, <3>2 DEF Types
      <4>2. Connecting(m)  BY <1>3, <2>1, <4>1 DEF NodeNeverForgotten
      <4>3. \A y : InMailbox(y) => InMailbox(y)'  BY <1>8, InMailboxPosted
      <4>4. timers[m] > 0 => timers'[m] > 0  BY <1>4
      <4>5. \A h \in DOMAIN handleToNode : h \in DOMAIN handleToNode'  BY <1>4
      <4>6. t # TimerUpdateTask(m)  BY <1>1, <3>2 DEF TimerUpdateTask, Task
      <4>7. \A h : t # OpenClientOKTask(h) /\ t # CloseConnectTask(h)
                   /\ \A a : t # OpenClientTask(m, h, a)
        BY <1>2 DEF TimerUpdateTask, OpenClientTask, OpenClientOKTask, CloseConnectTask, Task
      <4> QED  BY <4>2, <4>3, <4>4, <4>5, <4>6, <4>7, ConnectingPop
    <3> QED  BY <3>1, <3>2
  <2> QED  BY <1>4, <2>1 DEF NodeNeverForgotten
<1> QED  BY <1>12, <1>13, <1>14, <1>15, <1>16, <1>17, <1>18, TypesSufficeNext DEF IInv, Queues

\* OnResponse: the node was accepted; it registers.
LEMMA ResponseStep ==
  ASSUME IInv, NEW t, Taken(t), OnResponse(t)
  PROVE  IInv'
<1>1. PICK h : h = t.handle  OBVIOUS
<1>2. /\ t \in TaskRecord /\ t.type = "Response" /\ h \in Opened /\ t = ResponseTask(h)
      /\ 1 \in DOMAIN tasks /\ Is(tasks, 1, "Response", h)
  BY <1>1, TakenTask DEF OnResponse, TaskOK
<1>3. /\ Types /\ TasksOK /\ MailboxOK /\ HandlesOK /\ RouteLeadsToNode /\ NodeNeverForgotten
      /\ Opened \subseteq Handles /\ 0 \notin Opened
      /\ client[h].worker \in Workers
  BY <1>2, OpenedRange DEF IInv, TypeOK, Types, ClientRecord
<1>4. PICK w \in Workers : w = client[h].worker  BY <1>3
<1>5. /\ info' = info /\ handleToNode' = handleToNode /\ timers' = timers
      /\ failed' = failed /\ client' = client /\ Opened' = Opened /\ route' = route
      /\ mailbox' = [mailbox EXCEPT ![w] = Append(@, SendTask(h))]
  BY <1>1, <1>4 DEF OnResponse, Taken, Opened, PostToWorkerOf
<1>6. SendTask(h) \in TaskRecord
  BY <1>2, <1>3, NodeConnectAssumption DEF SendTask, Task, TaskRecord, Handles
<1>7. Posted({SendTask(h)})  BY <1>3, <1>5, <1>6, PostedOne
<1>8. MailOK(SendTask(h))'  BY <1>2, <1>5 DEF MailOK, SendTask, Task
<1>9. Grows  BY <1>5 DEF Grows
<1>10. Types'  BY <1>3, <1>5 DEF Types
<1>11. Queues'  BY <1>7, <1>8, <1>9, TakenQueues
<1>12. HandlesOK'  BY <1>3, <1>5 DEF HandlesOK
<1>13. OrderOK' /\ ClosesAreHandled'  BY <1>2, <1>5, OrderTaken
<1>14. IdentifiesOK'
  <2>1. ASSUME NEW g \in Opened, g # h  PROVE Once(g)' /\ Counts(g)'
    <3>1. Once(g) /\ Counts(g)  BY IdentifiesByClient DEF IInv
    <3>2. AsksFrom(g, 1)  BY AsksPop DEF IInv, Taken
    <3>3. \A x \in {SendTask(h)} : ~ (x.type = "Send" /\ x.handle = g)
      BY <2>1 DEF SendTask, Task
    <3>4. SendsFrom(g, Zero)
      <4>1. PICK X : X = {SendTask(h)}  OBVIOUS
      <4> QED  BY <1>3, <1>7, <3>3, <4>1, SendsPosted
    <3>5. Zero \in [Workers -> {0, 1}]  BY DEF Zero
    <3> QED  BY <1>5, <3>1, <3>2, <3>4, <3>5, QuietClient
  <2>2. Once(h)' /\ Counts(h)'
    <3>1. Once(h) /\ Counts(h)  BY <1>2, IdentifiesByClient DEF IInv
    <3>2. Asks(h, 1)  BY <1>2 DEF Asks
    <3> QED  BY <1>3, <1>5, <1>6, <3>1, <3>2, PacketPosted DEF Taken
  <2> QED  BY <1>5, <2>1, <2>2, IdentifiesByClientNext
<1>15. RouteLeadsToNode'  BY <1>3, <1>5 DEF RouteLeadsToNode
<1>16. NodeNeverForgotten'
  <2>1. ASSUME NEW m \in Nodes, info[m] # NoAddress, ~ failed[m], route[m] = 0
        PROVE  Connecting(m)'
    <3>1. Connecting(m)  BY <1>3, <2>1 DEF NodeNeverForgotten
    <3>2. \A y : InMailbox(y) => InMailbox(y)'  BY <1>7, InMailboxPosted
    <3>3. timers[m] > 0 => timers'[m] > 0  BY <1>5
    <3>4. \A g \in DOMAIN handleToNode : g \in DOMAIN handleToNode'  BY <1>5
    <3>5. t # TimerUpdateTask(m)
          /\ \A g : t # OpenClientOKTask(g) /\ t # CloseConnectTask(g)
                    /\ \A a : t # OpenClientTask(m, g, a)
      BY <1>2 DEF TimerUpdateTask, OpenClientTask, OpenClientOKTask, CloseConnectTask, Task
    <3> QED  BY <3>1, <3>2, <3>3, <3>4, <3>5, ConnectingPop
  <2> QED  BY <1>5, <2>1 DEF NodeNeverForgotten
<1> QED  BY <1>10, <1>11, <1>12, <1>13, <1>14, <1>15, <1>16, TypesSufficeNext DEF IInv, Queues

LEMMA HandleTaskStep == ASSUME IInv, HandleTask PROVE IInv'
<1>1. PICK t : t = Head(tasks)  OBVIOUS
<1>2. Taken(t)  BY <1>1 DEF HandleTask, Taken
<1>3. \/ OnHive(t) \/ OnOpenClient(t) \/ OnOpenClientOK(t) \/ OnCloseConnect(t)
      \/ OnTimerUpdate(t) \/ OnResponse(t)
  BY <1>1 DEF HandleTask
<1> QED  BY <1>2, <1>3, HiveStep, OpenClientStep, OpenClientOKStep, CloseConnectStep,
            TimerUpdateStep, ResponseStep

-----------------------------------------------------------------------------
(***************************************************************************)
(* What the main handler is told: the epoll threads, the sockets, the      *)
(* timers.                                                                 *)
(***************************************************************************)

\* Task x is posted to the main handler, from outside it.
Told(x) ==
    /\ tasks' = Append(tasks, x)
    /\ info' = info /\ handleToNode' = handleToNode /\ route' = route
    /\ Grows
    /\ \A h \in Opened : ClientStep(x, h)

LEMMA ToldStep ==
  ASSUME IInv, NEW x \in TaskRecord, Told(x), TaskOK(x)',
         client' \in Seq(ClientRecord), Len(client') <= MaxHandle,
         timers' \in [Nodes -> Nat], \A n \in Nodes : timers'[n] > 0 => timers[n] > 0,
         failed' \in [Nodes -> BOOLEAN], \A n \in Nodes : ~ failed'[n] => ~ failed[n],
         MailboxOK', IdentifiesOK',
         \A h \in Opened' : info[client'[h].node] # NoAddress,
         \A n \in Nodes : Connecting(n) /\ ~ failed'[n] => Connecting(n)',
         \/ Opened' = Opened
         \/ /\ Opened' = Opened \union {x.handle} /\ x.handle \notin Opened \union {0}
            /\ x.type = "OpenClient" /\ client'[x.handle].state = "connecting",
         x.type = "OpenClient" => x.handle = 0 \/ x.handle \notin Opened,
         x.type = "OpenClientOK" => x.handle \in Opened /\ client[x.handle].state = "connecting",
         x.type = "CloseConnect" => x.handle \in Opened /\ client'[x.handle].state = "closed"
  PROVE  IInv'
<1>1. Types /\ TasksOK /\ HandlesOK /\ RouteLeadsToNode /\ NodeNeverForgotten
  BY DEF IInv, TypeOK, Types
<1>2. Types'  BY <1>1 DEF Types, Told
<1>3. Queues'
  <2>1. TasksOK'  BY <1>1, TasksPush DEF Told
  <2> QED  BY <2>1 DEF Queues
<1>4. HandlesOK'
  <2>1. \A h \in DOMAIN handleToNode \ {0} : h \in Opened' /\ handleToNode[h] = client'[h].node
    BY <1>1 DEF HandlesOK, Told, Grows
  <2> QED  BY <1>1, <2>1 DEF HandlesOK, Told
<1>5. OrderOK' /\ ClosesAreHandled'  BY OrderPush DEF Told
<1>6. RouteLeadsToNode'
  <2>1. ASSUME NEW n \in Nodes, route[n] # 0  PROVE client'[route[n]].node = n
    <3>1. route[n] \in DOMAIN handleToNode /\ client[route[n]].node = n
      BY <1>1, <2>1 DEF RouteLeadsToNode
    <3>2. route[n] \in Opened  BY <1>1, <2>1, <3>1 DEF HandlesOK
    <3> QED  BY <3>1, <3>2 DEF Told, Grows
  <2> QED  BY <1>1, <2>1 DEF RouteLeadsToNode, Told
<1>7. NodeNeverForgotten'  BY <1>1 DEF NodeNeverForgotten, Told
<1> QED  BY <1>2, <1>3, <1>4, <1>5, <1>6, <1>7, TypesSufficeNext DEF IInv, Queues

\* A client's state is set.
LEMMA StateSet ==
  ASSUME TypeOK, NEW h \in Opened, NEW s \in {"connecting", "connected", "identified", "closed"},
         client' = [client EXCEPT ![h].state = s]
  PROVE  /\ client' \in Seq(ClientRecord) /\ Len(client') = Len(client) /\ Opened' = Opened
         /\ Len(client') <= MaxHandle
         /\ client'[h].state = s
         /\ \A g \in Opened : /\ client'[g].node = client[g].node
                              /\ client'[g].sent = client[g].sent
                              /\ g # h => client'[g] = client[g]
<1>1. client[h] \in ClientRecord /\ client \in Seq(ClientRecord) /\ Len(client) <= MaxHandle
  BY OpenedRange DEF TypeOK
<1>2. PICK c : c = [client[h] EXCEPT !.state = s]  OBVIOUS
<1>3. c \in ClientRecord /\ c.state = s /\ c.node = client[h].node /\ c.sent = client[h].sent
  BY <1>1, <1>2 DEF ClientRecord
<1>4. client' = [client EXCEPT ![h] = c]  BY <1>2
<1>5. /\ client' \in Seq(ClientRecord) /\ Len(client') = Len(client)
      /\ DOMAIN client' = DOMAIN client
      /\ client'[h] = c /\ \A g \in Opened : g # h => client'[g] = client[g]
  BY <1>1, <1>3, <1>4, SetClient
<1> QED  BY <1>1, <1>3, <1>5 DEF Opened

LEMMA IdentifiesTold ==
  ASSUME IInv, NEW x \in TaskRecord, tasks' = Append(tasks, x),
         x.type \notin {"OpenClientOK", "Response"},
         NEW e \in [Workers -> {0, 1}], \A h : SendsFrom(h, e),
         \A h \in Opened : /\ client'[h].sent = client[h].sent
                           /\ client'[h].state \in {client[h].state, "closed"}
  PROVE  \A h \in Opened : Once(h)' /\ Counts(h)'
<1> SUFFICES ASSUME NEW h \in Opened PROVE Once(h)' /\ Counts(h)'
  OBVIOUS
<1>1. Once(h) /\ Counts(h)  BY IdentifiesByClient DEF IInv
<1>2. AsksFrom(h, 0)  BY AsksPush DEF IInv
<1>3. SendsFrom(h, e)  OBVIOUS
<1>4. client'[h].sent = client[h].sent  OBVIOUS
<1>5. client'[h].state = client[h].state \/ client'[h].state = "closed"  OBVIOUS
<1> QED  BY <1>1, <1>2, <1>3, <1>4, <1>5, QuietClient

\* The mailboxes are not touched.
LEMMA MailSame ==
  ASSUME IInv, Grows, mailbox' = mailbox
  PROVE  /\ MailboxOK' /\ Zero \in [Workers -> {0, 1}] /\ \A h : SendsFrom(h, Zero)
         /\ \A t : InMailbox(t) => InMailbox(t)'
<1>1. Posted({})  BY DEF Posted, MailboxOK, IInv
<1>2. PICK X : X = {} /\ Posted(X)  BY <1>1
<1>3. MailboxOK'  BY <1>2, MailPosted DEF IInv
<1>4. \A t : InMailbox(t) => InMailbox(t)'  BY <1>2, InMailboxPosted
<1>5. \A h : SendsFrom(h, Zero)  BY SendsSame DEF IInv
<1>6. Zero \in [Workers -> {0, 1}]  BY DEF Zero
<1> QED  BY <1>3, <1>4, <1>5, <1>6

LEMMA TimerFiresStep == ASSUME IInv, NEW n \in Nodes, TimerFires(n) PROVE IInv'
<1>1. PICK x : x = TimerUpdateTask(n)  OBVIOUS
<1>2. Types /\ HandlesOK  BY DEF IInv, TypeOK, Types
<1>3. info[n] # NoAddress  BY <1>2 DEF HandlesOK, TimerFires
<1>4. x \in TaskRecord /\ x.type = "TimerUpdate"
  BY <1>1 DEF TimerUpdateTask, Task, TaskRecord
<1>5. /\ tasks' = Append(tasks, x) /\ info' = info /\ handleToNode' = handleToNode
      /\ route' = route /\ mailbox' = mailbox /\ client' = client /\ failed' = failed
      /\ Opened' = Opened
      /\ timers[n] > 0 /\ timers' = [timers EXCEPT ![n] = @ - 1]
  BY <1>1 DEF TimerFires, Opened
<1>6. Grows  BY <1>5 DEF Grows
<1>7. Told(x)  BY <1>5, <1>6 DEF Told, ClientStep
<1>8. /\ timers' \in [Nodes -> Nat]
      /\ \A m \in Nodes : /\ timers'[m] > 0 => timers[m] > 0
                          /\ m # n => timers'[m] = timers[m]
  BY <1>2, <1>5 DEF Types
<1>9. TaskOK(x)'  BY <1>1, <1>3, <1>5 DEF TaskOK, TimerUpdateTask, Task
<1>10. /\ MailboxOK' /\ Zero \in [Workers -> {0, 1}] /\ \A h : SendsFrom(h, Zero)
       /\ \A t : InMailbox(t) => InMailbox(t)'
  BY <1>5, <1>6, MailSame
<1>11. IdentifiesOK'
  <2>1. \A h \in Opened : Once(h)' /\ Counts(h)'
    BY <1>4, <1>5, <1>10, IdentifiesTold
  <2> QED  BY <1>5, <2>1, IdentifiesByClientNext
<1>12. ASSUME NEW m \in Nodes, Connecting(m)  PROVE Connecting(m)'
  <2>1. CASE m = n
    <3>1. InTasks(x)'  BY <1>4, <1>5, InTasksPush DEF IInv
    <3> QED  BY <1>1, <2>1, <3>1 DEF Connecting
  <2>2. CASE m # n
    BY <1>4, <1>5, <1>6, <1>7, <1>8, <1>10, <1>12, <2>2, ConnectingPush DEF Told
  <2> QED  BY <2>1, <2>2
<1>13. \A h \in Opened' : info[client'[h].node] # NoAddress
  BY <1>2, <1>5 DEF HandlesOK
<1> QED  BY <1>2, <1>4, <1>5, <1>7, <1>8, <1>9, <1>10, <1>11, <1>12, <1>13, ToldStep
         DEF Types

LEMMA CommandHiveStep ==
  ASSUME IInv, NEW n \in Nodes, NEW a \in Addresses, CommandHive(n, a)
  PROVE  IInv'
<1>1. PICK x : x = RegisterTask(n, a)  OBVIOUS
<1>2. Types /\ HandlesOK  BY DEF IInv, TypeOK, Types
<1>3. x \in TaskRecord /\ x.type = "Hive" /\ x.handle = 0 /\ x.address = a
  BY <1>1 DEF RegisterTask, Task, TaskRecord
<1>4. /\ tasks' = Append(tasks, x) /\ info' = info /\ handleToNode' = handleToNode
      /\ route' = route /\ mailbox' = mailbox /\ client' = client /\ failed' = failed
      /\ Opened' = Opened /\ timers' = timers
  BY <1>1 DEF CommandHive, Opened
<1>5. Grows  BY <1>4 DEF Grows
<1>6. Told(x)  BY <1>4, <1>5 DEF Told, ClientStep
<1>7. TaskOK(x)'  BY <1>3 DEF TaskOK
<1>8. /\ MailboxOK' /\ Zero \in [Workers -> {0, 1}] /\ \A h : SendsFrom(h, Zero)
      /\ \A t : InMailbox(t) => InMailbox(t)'
  BY <1>4, <1>5, MailSame
<1>9. IdentifiesOK'
  <2>1. \A h \in Opened : Once(h)' /\ Counts(h)'
    BY <1>3, <1>4, <1>8, IdentifiesTold
  <2> QED  BY <1>4, <2>1, IdentifiesByClientNext
<1>10. ASSUME NEW m \in Nodes, Connecting(m)  PROVE Connecting(m)'
  BY <1>3, <1>4, <1>5, <1>6, <1>8, <1>10, ConnectingPush DEF Told
<1>11. \A h \in Opened' : info[client'[h].node] # NoAddress
  BY <1>2, <1>4 DEF HandlesOK
<1> QED  BY <1>2, <1>3, <1>4, <1>6, <1>7, <1>8, <1>9, <1>10, <1>11, ToldStep DEF Types

\* The connect of client h is complete, or the remote node has answered it.
LEMMA SocketStep ==
  ASSUME IInv, NEW h \in Opened, ConnectOK(h) \/ CommandResponse(h)
  PROVE  IInv'
<1>1. PICK s \in {"connected", "identified"}, x \in {OpenClientOKTask(h), ResponseTask(h)} :
         /\ client' = [client EXCEPT ![h].state = s]
         /\ tasks' = Append(tasks, x)
         /\ \/ /\ s = "connected" /\ x = OpenClientOKTask(h)
               /\ client[h].state = "connecting"
            \/ /\ s = "identified" /\ x = ResponseTask(h)
               /\ client[h].state = "connected" /\ client[h].sent = 1
  <2>1. CASE ConnectOK(h)  BY <2>1 DEF ConnectOK
  <2>2. CASE CommandResponse(h)  BY <2>2 DEF CommandResponse
  <2> QED  BY <2>1, <2>2
<1>2. Types /\ TasksOK /\ MailboxOK /\ HandlesOK /\ h \in Handles /\ h # 0
      /\ \A g \in Opened : client[g] \in ClientRecord
  BY OpenedRange DEF IInv, TypeOK, Types
<1>3. /\ info' = info /\ handleToNode' = handleToNode
      /\ route' = route /\ mailbox' = mailbox /\ failed' = failed /\ timers' = timers
  BY DEF ConnectOK, CommandResponse
<1>4. /\ client' \in Seq(ClientRecord) /\ Opened' = Opened
      /\ Len(client') <= MaxHandle
      /\ client'[h].state = s
      /\ \A g \in Opened : /\ client'[g].node = client[g].node
                           /\ client'[g].sent = client[g].sent
                           /\ g # h => client'[g] = client[g]
  BY <1>1, StateSet DEF IInv
<1>5. x \in TaskRecord /\ x.type \in {"OpenClientOK", "Response"} /\ x.handle = h
  BY <1>1, <1>2, NodeConnectAssumption
  DEF OpenClientOKTask, ResponseTask, Task, TaskRecord, Handles
<1>6. Grows  BY <1>3, <1>4 DEF Grows
<1>7. Told(x)
  <2>1. \A g \in Opened : ClientStep(x, g)  BY <1>1, <1>4 DEF ClientStep
  <2> QED  BY <1>1, <1>3, <1>6, <2>1 DEF Told
<1>8. TaskOK(x)'  BY <1>1, <1>4, <1>5 DEF TaskOK, OpenClientOKTask, ResponseTask, Task
<1>9. /\ MailboxOK' /\ Zero \in [Workers -> {0, 1}] /\ \A g : SendsFrom(g, Zero)
      /\ \A t : InMailbox(t) => InMailbox(t)'
  BY <1>3, <1>6, MailSame
<1>10. IdentifiesOK'
  <2>1. ASSUME NEW g \in Opened, g # h  PROVE Once(g)' /\ Counts(g)'
    <3>1. Once(g) /\ Counts(g)  BY IdentifiesByClient DEF IInv
    <3>2. AsksFrom(g, 0)  BY <1>1, <1>2, <1>5, <2>1, AsksPush
    <3>3. client'[g].sent = client[g].sent /\ client'[g].state = client[g].state
      BY <1>4, <2>1
    <3> QED  BY <1>9, <3>1, <3>2, <3>3, QuietClient
  <2>2. Once(h)' /\ Counts(h)'
    <3>1. Once(h) /\ Counts(h)  BY IdentifiesByClient DEF IInv
    <3>2. client'[h].sent = client[h].sent  BY <1>4
    <3>3. \/ client[h].state = "connecting" /\ client'[h].state = "connected"
          \/ /\ client[h].state = "connected" /\ client[h].sent = 1
             /\ client'[h].state = "identified"
      BY <1>1, <1>4
    <3> QED  BY <1>1, <1>2, <1>3, <1>5, <3>1, <3>2, <3>3, ClientAsks
  <2> QED  BY <1>4, <2>1, <2>2, IdentifiesByClientNext
<1>11. ASSUME NEW m \in Nodes, Connecting(m)  PROVE Connecting(m)'
  BY <1>3, <1>5, <1>7, <1>9, <1>11, ConnectingPush DEF Told
<1>12. \A g \in Opened' : info[client'[g].node] # NoAddress
  BY <1>2, <1>4 DEF HandlesOK
<1>13. x.type = "OpenClientOK" => client[h].state = "connecting"
  BY <1>1 DEF ResponseTask, Task
<1> QED  BY <1>2, <1>3, <1>4, <1>5, <1>7, <1>8, <1>9, <1>10, <1>11, <1>12, <1>13, ToldStep
         DEF Types

LEMMA EpollRemoveStep == ASSUME IInv, NEW h \in Opened, EpollRemove(h) PROVE IInv'
<1>1. PICK x : x = CloseConnectTask(h)  OBVIOUS
<1>2. Types /\ TasksOK /\ MailboxOK /\ HandlesOK /\ h \in Handles /\ h # 0
  BY OpenedRange DEF IInv, TypeOK, Types
<1>3. /\ tasks' = Append(tasks, x) /\ info' = info /\ handleToNode' = handleToNode
      /\ route' = route /\ mailbox' = mailbox /\ failed' = failed /\ timers' = timers
      /\ client' = [client EXCEPT ![h].state = "closed"]
  BY <1>1 DEF EpollRemove
<1>4. /\ client' \in Seq(ClientRecord) /\ Opened' = Opened
      /\ Len(client') <= MaxHandle
      /\ client'[h].state = "closed"
      /\ \A g \in Opened : /\ client'[g].node = client[g].node
                           /\ client'[g].sent = client[g].sent
                           /\ g # h => client'[g] = client[g]
  BY <1>3, StateSet DEF IInv
<1>5. x \in TaskRecord /\ x.type = "CloseConnect" /\ x.handle = h
  BY <1>1, <1>2, NodeConnectAssumption DEF CloseConnectTask, Task, TaskRecord, Handles
<1>6. Grows  BY <1>3, <1>4 DEF Grows
<1>7. Told(x)
  <2>1. \A g \in Opened : ClientStep(x, g)  BY <1>1, <1>4 DEF ClientStep
  <2> QED  BY <1>3, <1>6, <2>1 DEF Told
<1>8. TaskOK(x)'  BY <1>1, <1>4, <1>5 DEF TaskOK, CloseConnectTask, Task
<1>9. /\ MailboxOK' /\ Zero \in [Workers -> {0, 1}] /\ \A g : SendsFrom(g, Zero)
      /\ \A t : InMailbox(t) => InMailbox(t)'
  BY <1>3, <1>6, MailSame
<1>10. IdentifiesOK'
  <2>0. \A g \in Opened : client'[g].state \in {client[g].state, "closed"}  BY <1>4
  <2>1. \A g \in Opened : Once(g)' /\ Counts(g)'
    BY <1>3, <1>4, <1>5, <1>9, <2>0, IdentifiesTold
  <2> QED  BY <1>4, <2>1, IdentifiesByClientNext
<1>11. ASSUME NEW m \in Nodes, Connecting(m)  PROVE Connecting(m)'
  BY <1>3, <1>5, <1>7, <1>9, <1>11, ConnectingPush DEF Told
<1>12. \A g \in Opened' : info[client'[g].node] # NoAddress
  BY <1>2, <1>4 DEF HandlesOK
<1> QED  BY <1>2, <1>3, <1>4, <1>5, <1>7, <1>8, <1>9, <1>10, <1>11, <1>12, ToldStep
         DEF Types

-----------------------------------------------------------------------------
(***************************************************************************)
(* The tasks of the epoll threads.                                         *)
(***************************************************************************)

PopOf(w) == [v \in Workers |-> IF v = w THEN 1 ELSE 0]

\* Epoll thread w has taken task t.
Served(w, t) ==
    /\ mailbox[w] # <<>>
    /\ t = Head(mailbox[w])
    /\ mailbox' = [mailbox EXCEPT ![w] = Tail(@)]
    /\ info' = info /\ handleToNode' = handleToNode /\ route' = route /\ timers' = timers

LEMMA ServedTask ==
  ASSUME IInv, NEW w \in Workers, NEW t, Served(w, t)
  PROVE  /\ t \in TaskRecord /\ t = mailbox[w][1] /\ MailOK(t) /\ 1 \in DOMAIN mailbox[w]
         /\ PopOf(w) \in [Workers -> {0, 1}] /\ \A h : SendsFrom(h, PopOf(w))
         /\ \A x : InMailbox(x) => x = t \/ InMailbox(x)'
         /\ \A h : Is(mailbox[w], 1, "Send", h) <=> t.type = "Send" /\ t.handle = h
<1>1. MailboxOK  BY DEF IInv
<1>2. /\ Head(mailbox[w]) \in TaskRecord /\ Head(mailbox[w]) = mailbox[w][1]
      /\ 1 \in DOMAIN mailbox[w] /\ MailOK(mailbox[w][1])
  BY <1>1, PopMail DEF Served
<1>3. PopOf(w) \in [Workers -> {0, 1}]  BY DEF PopOf
<1>4. \A h : SendsFrom(h, PopOf(w))  BY <1>1, SendsPopped DEF Served, PopOf
<1>5. \A x : InMailbox(x) => x = mailbox[w][1] \/ InMailbox(x)'
  BY <1>1, InMailboxPopped DEF Served
<1> QED  BY <1>2, <1>3, <1>4, <1>5 DEF Served, Is

LEMMA ServedMailbox ==
  ASSUME IInv, NEW w \in Workers, NEW t, Served(w, t), Grows
  PROVE  MailboxOK'
BY MailPopped DEF IInv, Served

\* No task is about a client that is not opened yet.
LEMMA NoneYet ==
  ASSUME IInv, NEW h, h \notin Opened
  PROVE  Once(h) /\ ~ Pending(h)
<1>1. \A i \in DOMAIN tasks : ~ Asks(h, i)
  BY DEF IInv, TasksOK, TaskOK, Asks, Is
<1>2. \A w \in Workers : \A i \in DOMAIN mailbox[w] : ~ Sends(h, w, i)
  <2> SUFFICES ASSUME NEW w \in Workers, NEW i \in DOMAIN mailbox[w], Sends(h, w, i)
               PROVE  FALSE
    OBVIOUS
  <2>1. MailOK(mailbox[w][i])  BY DEF IInv, MailboxOK
  <2> QED  BY <2>1 DEF MailOK, Sends, Is
<1> QED  BY <1>1, <1>2 DEF Once, Pending

LEMMA OpenClientFailsStep ==
  ASSUME IInv, NEW w \in Workers, NEW t, Served(w, t), OpenClientFails(w, t)
  PROVE  IInv'
<1>1. PICK x : x = OpenClientTask(t.node, 0, t.address)  OBVIOUS
<1>2. PICK n : n = t.node  OBVIOUS
<1>3. /\ t \in TaskRecord /\ t.type = "OpenClient" /\ n \in Nodes /\ t.address \in Addresses
  BY <1>2, ServedTask DEF OpenClientFails, MailOK, TaskRecord
<1>4. Types /\ HandlesOK  BY DEF IInv, TypeOK, Types
<1>5. x \in TaskRecord /\ x.type = "OpenClient" /\ x.handle = 0 /\ x.address \in Addresses
  BY <1>1, <1>2, <1>3 DEF OpenClientTask, Task, TaskRecord
<1>6. /\ tasks' = Append(tasks, x) /\ info' = info /\ handleToNode' = handleToNode
      /\ route' = route /\ client' = client /\ Opened' = Opened /\ timers' = timers
      /\ failed' = [failed EXCEPT ![n] = TRUE]
  BY <1>1, <1>2 DEF OpenClientFails, Served, Opened
<1>7. Grows  BY <1>6 DEF Grows
<1>8. Told(x)  BY <1>6, <1>7 DEF Told, ClientStep
<1>9. TaskOK(x)'  BY <1>5 DEF TaskOK
<1>10. MailboxOK'  BY <1>7, ServedMailbox
<1>11. IdentifiesOK'
  <2>1. \A h \in Opened : Once(h)' /\ Counts(h)'
    BY <1>5, <1>6, ServedTask, IdentifiesTold
  <2> QED  BY <1>6, <2>1, IdentifiesByClientNext
<1>12. /\ failed' \in [Nodes -> BOOLEAN]
       /\ \A m \in Nodes : ~ failed'[m] => ~ failed[m] /\ m # n
  BY <1>3, <1>4, <1>6 DEF Types
<1>13. ASSUME NEW m \in Nodes, Connecting(m), m # n  PROVE Connecting(m)'
  <2>1. \A a : t # OpenClientTask(m, 0, a)  BY <1>2, <1>13 DEF OpenClientTask, Task
  <2>2. \A a \in Addresses : InMailbox(OpenClientTask(m, 0, a)) => InMailbox(OpenClientTask(m, 0, a))'
    BY <2>1, ServedTask
  <2> QED  BY <1>5, <1>6, <1>7, <1>8, <1>13, <2>2, ConnectingPush DEF Told
<1>14. \A h \in Opened' : info[client'[h].node] # NoAddress
  BY <1>4, <1>6 DEF HandlesOK
<1>15. \A m \in Nodes : Connecting(m) /\ ~ failed'[m] => Connecting(m)'
  BY <1>12, <1>13
<1> QED  BY <1>4, <1>5, <1>6, <1>8, <1>9, <1>10, <1>11, <1>12, <1>14, <1>15, ToldStep DEF Types

LEMMA NewClientStep ==
  ASSUME IInv, NEW w \in Workers, NEW t, Served(w, t), OpenClient(w, t)
  PROVE  IInv'
<1>0. PICK h : h = Len(client) + 1  OBVIOUS
<1>1. PICK x : x = OpenClientTask(t.node, h, t.address)  OBVIOUS
<1>2. PICK n : n = t.node  OBVIOUS
<1>3. /\ t \in TaskRecord /\ t.type = "OpenClient" /\ n \in Nodes /\ t.address \in Addresses
      /\ info[n] # NoAddress
  BY <1>2, ServedTask DEF OpenClient, MailOK, TaskRecord
<1>4. /\ Types /\ HandlesOK /\ Opened = 1 .. Len(client) /\ Len(client) \in Nat
      /\ \A g \in Opened : client[g] \in ClientRecord
  BY OpenedRange DEF IInv, TypeOK, Types
<1>5. /\ x \in TaskRecord /\ x.type = "OpenClient" /\ x.handle = h /\ x.address \in Addresses
      /\ x.node = n
  BY <1>0, <1>1, <1>2, <1>3, <1>4 DEF OpenClientTask, Task, TaskRecord
<1>6. PICK c : c = [state |-> "connecting", node |-> n, address |-> t.address, worker |-> w, sent |-> 0]
  OBVIOUS
<1>7. c \in ClientRecord /\ c.state = "connecting" /\ c.node = n /\ c.sent = 0
  BY <1>3, <1>6 DEF ClientRecord
<1>8. /\ tasks' = Append(tasks, x) /\ info' = info /\ handleToNode' = handleToNode
      /\ route' = route /\ timers' = timers /\ failed' = failed
      /\ client' = Append(client, c) /\ Len(client) < MaxHandle
  BY <1>0, <1>1, <1>2, <1>6 DEF OpenClient, Served
<1>9. /\ client' \in Seq(ClientRecord) /\ Len(client') = h
      /\ Opened' = Opened \union {h} /\ h \notin Opened /\ h # 0 /\ client'[h] = c
      /\ \A g \in Opened : client'[g] = client[g]
  <2>1. /\ client' \in Seq(ClientRecord) /\ Len(client') = Len(client) + 1
        /\ DOMAIN client' = 1 .. Len(client) + 1
        /\ \A g \in 1 .. Len(client) : client'[g] = client[g]
        /\ client'[Len(client) + 1] = c
    BY <1>4, <1>7, <1>8, AddClient DEF Types
  <2>2. Opened' = 1 .. h  BY <1>0, <2>1 DEF Opened
  <2>3. 1 .. h = (1 .. Len(client)) \union {h} /\ h \notin 1 .. Len(client) /\ h # 0
    BY <1>0, <1>4
  <2> QED  BY <1>0, <1>4, <2>1, <2>2, <2>3
<1>10. Grows  BY <1>8, <1>9 DEF Grows
<1>11. Told(x)
  <2>1. \A g \in Opened : ClientStep(x, g)  BY <1>9 DEF ClientStep
  <2> QED  BY <1>8, <1>10, <2>1 DEF Told
<1>12. TaskOK(x)'
  BY <1>5, <1>7, <1>9 DEF TaskOK
<1>13. MailboxOK'  BY <1>10, ServedMailbox
<1>14. IdentifiesOK'
  <2>1. \A g \in Opened : client'[g].sent = client[g].sent
                          /\ client'[g].state \in {client[g].state, "closed"}
    BY <1>9
  <2>2. \A g \in Opened : Once(g)' /\ Counts(g)'
    BY <1>5, <1>8, <2>1, ServedTask, IdentifiesTold
  <2>3. Once(h)' /\ Counts(h)'
    <3>1. Once(h) /\ ~ Pending(h)  BY <1>9, NoneYet
    <3>2. AsksFrom(h, 0)  BY <1>5, <1>8, AsksPush DEF IInv
    <3>3. PopOf(w) \in [Workers -> {0, 1}] /\ SendsFrom(h, PopOf(w))  BY ServedTask
    <3>4. Once(h)' /\ ~ Pending(h)'  BY <3>1, <3>2, <3>3, NothingNew
    <3> QED  BY <1>7, <1>9, <3>4 DEF Counts
  <2> QED  BY <1>9, <2>2, <2>3, IdentifiesByClientNext
<1>15. ASSUME NEW m \in Nodes, Connecting(m)  PROVE Connecting(m)'
  <2>1. CASE m = n
    BY <1>7, <1>9, <2>1 DEF Connecting, Opened
  <2>2. CASE m # n
    <3>1. \A a : t # OpenClientTask(m, 0, a)  BY <1>2, <2>2 DEF OpenClientTask, Task
    <3>2. \A a \in Addresses : InMailbox(OpenClientTask(m, 0, a)) => InMailbox(OpenClientTask(m, 0, a))'
      BY <3>1, ServedTask
    <3> QED  BY <1>5, <1>8, <1>10, <1>11, <1>15, <3>2, ConnectingPush DEF Told
  <2> QED  BY <2>1, <2>2
<1>16. \A g \in Opened' : info[client'[g].node] # NoAddress
  BY <1>3, <1>4, <1>7, <1>9 DEF HandlesOK
<1>17. Len(client') <= MaxHandle
  BY <1>0, <1>4, <1>8, <1>9, NodeConnectAssumption
<1> QED  BY <1>4, <1>5, <1>7, <1>8, <1>9, <1>11, <1>12, <1>13, <1>14, <1>15, <1>16, <1>17, ToldStep
         DEF Types

LEMMA ClientClosedStep ==
  ASSUME IInv, NEW w \in Workers, NEW t, Served(w, t), CloseConnect(w, t)
  PROVE  IInv'
<1>0. PICK h : h = t.handle  OBVIOUS
<1>1. PICK x : x = CloseConnectTask(h)  OBVIOUS
<1>2. /\ t.type = "CloseConnect" /\ h \in Opened
      /\ Types /\ HandlesOK /\ h \in Handles /\ h # 0
  BY <1>0, ServedTask, OpenedRange DEF CloseConnect, MailOK, IInv, TypeOK, Types
<1>3. /\ tasks' = Append(tasks, x) /\ info' = info /\ handleToNode' = handleToNode
      /\ route' = route /\ failed' = failed /\ timers' = timers
      /\ client' = [client EXCEPT ![h].state = "closed"]
  BY <1>0, <1>1 DEF CloseConnect, Served
<1>4. /\ client' \in Seq(ClientRecord) /\ Opened' = Opened
      /\ Len(client') <= MaxHandle
      /\ client'[h].state = "closed"
      /\ \A g \in Opened : /\ client'[g].node = client[g].node
                           /\ client'[g].sent = client[g].sent
                           /\ g # h => client'[g] = client[g]
  BY <1>2, <1>3, StateSet DEF IInv
<1>5. x \in TaskRecord /\ x.type = "CloseConnect" /\ x.handle = h
  BY <1>1, <1>2, NodeConnectAssumption DEF CloseConnectTask, Task, TaskRecord, Handles
<1>6. Grows  BY <1>3, <1>4 DEF Grows
<1>7. Told(x)
  <2>1. \A g \in Opened : ClientStep(x, g)  BY <1>1, <1>4 DEF ClientStep
  <2> QED  BY <1>3, <1>6, <2>1 DEF Told
<1>8. TaskOK(x)'  BY <1>1, <1>2, <1>4, <1>5 DEF TaskOK, CloseConnectTask, Task
<1>9. MailboxOK'  BY <1>6, ServedMailbox
<1>10. IdentifiesOK'
  <2>0. \A g \in Opened : client'[g].sent = client[g].sent
                          /\ client'[g].state \in {client[g].state, "closed"}
    BY <1>4
  <2>1. \A g \in Opened : Once(g)' /\ Counts(g)'
    BY <1>3, <1>5, <2>0, ServedTask, IdentifiesTold
  <2> QED  BY <1>4, <2>1, IdentifiesByClientNext
<1>11. ASSUME NEW m \in Nodes, Connecting(m)  PROVE Connecting(m)'
  <2>1. \A a : t # OpenClientTask(m, 0, a)  BY <1>2 DEF OpenClientTask, Task
  <2>2. \A a \in Addresses : InMailbox(OpenClientTask(m, 0, a)) => InMailbox(OpenClientTask(m, 0, a))'
    BY <2>1, ServedTask
  <2> QED  BY <1>3, <1>5, <1>7, <1>11, <2>2, ConnectingPush DEF Told
<1>12. \A g \in Opened' : info[client'[g].node] # NoAddress
  BY <1>2, <1>4 DEF HandlesOK
<1> QED  BY <1>2, <1>3, <1>4, <1>5, <1>7, <1>8, <1>9, <1>10, <1>11, <1>12, ToldStep
         DEF Types

\* The packet is written: the main handler is told nothing.
LEMMA DispatchStep ==
  ASSUME IInv, NEW w \in Workers, NEW t, Served(w, t), DispatchToConnect(w, t)
  PROVE  IInv'
<1>0. PICK h : h = t.handle  OBVIOUS
<1>1. /\ t.type = "Send" /\ h \in Opened /\ Sends(h, w, 1)
  BY <1>0, ServedTask DEF DispatchToConnect, MailOK, Sends
<1>2. /\ TypeOK /\ Types /\ TasksOK /\ MailboxOK /\ HandlesOK /\ OrderOK /\ ClosesAreHandled
      /\ RouteLeadsToNode /\ NodeNeverForgotten /\ IdentifiesOK
      /\ client \in Seq(ClientRecord) /\ client[h] \in ClientRecord
  BY <1>1, OpenedRange DEF IInv, TypeOK, Types
<1>3. /\ tasks' = tasks /\ info' = info /\ handleToNode' = handleToNode
      /\ route' = route /\ failed' = failed /\ timers' = timers
  BY DEF DispatchToConnect, Served
<1>4. Once(h) /\ Counts(h)  BY <1>1, <1>2, IdentifiesByClient
<1>5. client[h].sent <= 1
  <2>1. Pending(h)
    <3>1. 1 \in DOMAIN mailbox[w]  BY ServedTask
    <3> QED  BY <1>1, <3>1 DEF Pending
  <2> QED  BY <1>4, <2>1 DEF Counts
<1>6. /\ client' \in Seq(ClientRecord) /\ Len(client') = Len(client) /\ Opened' = Opened
      /\ \A g \in Opened : /\ client'[g].node = client[g].node
                           /\ client'[g].state = client[g].state
                           /\ g # h => client'[g] = client[g]
      /\ client'[h].sent \in {client[h].sent, client[h].sent + 1}
  <2>1. CASE client' = client  BY <1>2, <2>1 DEF Opened
  <2>2. CASE client' = [client EXCEPT ![h].sent = @ + 1]
    <3>1. PICK c : c = [client[h] EXCEPT !.sent = client[h].sent + 1]  OBVIOUS
    <3>2. /\ c \in ClientRecord /\ c.state = client[h].state /\ c.node = client[h].node
          /\ c.sent = client[h].sent + 1
      BY <1>2, <1>5, <3>1 DEF ClientRecord
    <3>3. client' = [client EXCEPT ![h] = c]  BY <2>2, <3>1
    <3>4. /\ client' \in Seq(ClientRecord) /\ Len(client') = Len(client)
          /\ DOMAIN client' = DOMAIN client
          /\ client'[h] = c /\ \A g \in Opened : g # h => client'[g] = client[g]
      BY <1>1, <1>2, <3>2, <3>3, SetClient
    <3> QED  BY <3>2, <3>4 DEF Opened
  <2> QED  BY <1>0, <2>1, <2>2 DEF DispatchToConnect
<1>7. Grows  BY <1>3, <1>6 DEF Grows
<1>8. Types'  BY <1>2, <1>3, <1>6 DEF Types
<1>9. Queues'
  <2>1. TasksOK'  BY <1>2, <1>3, <1>7, TasksSame
  <2>2. MailboxOK'  BY <1>7, ServedMailbox
  <2> QED  BY <2>1, <2>2 DEF Queues
<1>10. HandlesOK'  BY <1>2, <1>3, <1>6 DEF HandlesOK
<1>11. OrderOK'
  <2>1. \A i, y, g : Is(tasks, i, y, g)' <=> Is(tasks, i, y, g)  BY <1>3 DEF Is
  <2> QED  BY <1>2, <1>3, <1>6, <2>1 DEF OrderOK
<1>12. ClosesAreHandled'
  <2>1. \A g \in DOMAIN handleToNode \ {0} : g \in Opened  BY <1>2 DEF HandlesOK
  <2> QED  BY <1>2, <1>3, <1>6, <2>1 DEF ClosesAreHandled, IsOpen, InTasks
<1>13. IdentifiesOK'
  <2>1. ASSUME NEW g \in Opened, g # h  PROVE Once(g)' /\ Counts(g)'
    <3>1. Once(g) /\ Counts(g)  BY <1>2, IdentifiesByClient
    <3>2. AsksFrom(g, 0)  BY <1>2, <1>3, AsksSame
    <3>3. PopOf(w) \in [Workers -> {0, 1}] /\ SendsFrom(g, PopOf(w))  BY ServedTask
    <3>4. client'[g].sent = client[g].sent /\ client'[g].state = client[g].state
      BY <1>6, <2>1
    <3> QED  BY <3>1, <3>2, <3>3, <3>4, QuietClient
  <2>2. Once(h)' /\ Counts(h)'
    <3>1. client[h].sent \in Nat  BY <1>2 DEF ClientRecord
    <3>2. client'[h].state = client[h].state  BY <1>1, <1>6
    <3> QED  BY <1>1, <1>2, <1>3, <1>4, <1>6, <3>1, <3>2, PacketSent DEF Served
  <2> QED  BY <1>6, <2>1, <2>2, IdentifiesByClientNext
<1>14. RouteLeadsToNode'
  <2>1. ASSUME NEW n \in Nodes, route[n] # 0  PROVE client'[route[n]].node = n
    <3>1. route[n] \in DOMAIN handleToNode /\ client[route[n]].node = n
      BY <1>2, <2>1 DEF RouteLeadsToNode
    <3>2. route[n] \in Opened  BY <1>2, <2>1, <3>1 DEF HandlesOK
    <3> QED  BY <1>6, <3>1, <3>2
  <2> QED  BY <1>2, <1>3, <2>1 DEF RouteLeadsToNode
<1>15. NodeNeverForgotten'
  <2>1. ASSUME NEW m \in Nodes, Connecting(m)  PROVE Connecting(m)'
    <3>1. \A a : t # OpenClientTask(m, 0, a)  BY <1>1 DEF OpenClientTask, Task
    <3>2. \A a \in Addresses : InMailbox(OpenClientTask(m, 0, a)) => InMailbox(OpenClientTask(m, 0, a))'
      BY <3>1, ServedTask
    <3>3. \A x : InTasks(x) <=> InTasks(x)'  BY <1>3 DEF InTasks
    <3> QED  BY <1>3, <1>6, <2>1, <3>2, <3>3 DEF Connecting, Opened
  <2> QED  BY <1>2, <1>3, <2>1 DEF NodeNeverForgotten
<1> QED  BY <1>8, <1>9, <1>10, <1>11, <1>12, <1>13, <1>14, <1>15, TypesSufficeNext DEF IInv, Queues

LEMMA WorkerTaskStep == ASSUME IInv, NEW w \in Workers, WorkerTask(w) PROVE IInv'
<1>1. PICK t : t = Head(mailbox[w])  OBVIOUS
<1>2. Served(w, t)  BY <1>1 DEF WorkerTask, Served
<1>3. \/ OpenClientFails(w, t) \/ OpenClient(w, t) \/ CloseConnect(w, t)
      \/ DispatchToConnect(w, t)
  BY <1>1 DEF WorkerTask
<1> QED  BY <1>2, <1>3, OpenClientFailsStep, NewClientStep, ClientClosedStep, DispatchStep

-----------------------------------------------------------------------------
(***************************************************************************)
(* The theorems.                                                           *)
(***************************************************************************)

LEMMA InitIInv == ASSUME Init PROVE IInv
<1>1. PICK a \in Addresses : tasks = <<RegisterTask(Discovery, a)>>  BY DEF Init
<1>2. PICK x : x = RegisterTask(Discovery, a)  OBVIOUS
<1>3. x \in TaskRecord /\ x.type = "Hive" /\ x.handle = 0 /\ x.address = a
  BY <1>2, NodeConnectAssumption DEF RegisterTask, Task, TaskRecord
<1>4. /\ tasks \in Seq(TaskRecord) /\ DOMAIN tasks = {1} /\ tasks[1] = x
  BY <1>1, <1>2, <1>3
<1>5. /\ info = [n \in Nodes |-> NoAddress] /\ handleToNode = <<>> /\ client = <<>>
      /\ route = [n \in Nodes |-> 0] /\ timers = [n \in Nodes |-> 0]
      /\ failed = [n \in Nodes |-> FALSE] /\ mailbox = [w \in Workers |-> <<>>]
  BY DEF Init
<1>6. Opened = {} /\ client \in Seq(ClientRecord) /\ Len(client) = 0 /\ DOMAIN handleToNode = {}
  BY <1>5 DEF Opened
<1>7. TasksOK  BY <1>3, <1>4 DEF TasksOK, TaskOK
<1>8. /\ MailboxOK /\ \A w \in Workers : DOMAIN mailbox[w] = {}
  BY <1>5 DEF MailboxOK
<1>9. Types
  <2>1. Len(client) <= MaxHandle  BY <1>6, NodeConnectAssumption
  <2> QED  BY <1>5, <1>6, <2>1 DEF Types
<1>10. TypeOK  BY <1>7, <1>8, <1>9, TypesSuffice DEF Queues
<1>11. HandlesOK  BY <1>5, <1>6 DEF HandlesOK
<1>12. OrderOK /\ IdentifiesOK  BY <1>6 DEF OrderOK, IdentifiesOK
<1>13. ClosesAreHandled /\ RouteLeadsToNode
  BY <1>5, <1>6 DEF ClosesAreHandled, RouteLeadsToNode
<1>14. NodeNeverForgotten  BY <1>5 DEF NodeNeverForgotten
<1> QED  BY <1>7, <1>8, <1>10, <1>11, <1>12, <1>13, <1>14 DEF IInv

LEMMA NextIInv == ASSUME IInv, Next PROVE IInv'
<1>1. CASE HandleTask  BY <1>1, HandleTaskStep
<1>2. CASE \E w \in Workers : WorkerTask(w)  BY <1>2, WorkerTaskStep
<1>3. CASE \E n \in Nodes : TimerFires(n) \/ \E a \in Addresses : CommandHive(n, a)
  BY <1>3, TimerFiresStep, CommandHiveStep
<1>4. CASE \E h \in DOMAIN client : ConnectOK(h) \/ EpollRemove(h) \/ CommandResponse(h)
  BY <1>4, SocketStep, EpollRemoveStep DEF Opened
<1> QED  BY <1>1, <1>2, <1>3, <1>4 DEF Next

LEMMA StutterIInv == ASSUME IInv, UNCHANGED vars PROVE IInv'
<1>1. /\ info' = info /\ handleToNode' = handleToNode /\ route' = route /\ tasks' = tasks
      /\ mailbox' = mailbox /\ client' = client /\ timers' = timers /\ failed' = failed
  BY DEF vars
<1>2. TypeOK'  BY <1>1 DEF IInv, TypeOK
<1>3. TasksOK' /\ MailboxOK'
  <2>1. Grows  BY <1>1 DEF Grows, Opened
  <2> QED  BY <1>1, <2>1, TasksSame, MailSame DEF IInv
<1>4. HandlesOK'  BY <1>1 DEF IInv, HandlesOK, Opened
<1>5. OrderOK'  BY <1>1 DEF IInv, OrderOK, Opened, Is
<1>6. IdentifiesOK'
  BY <1>1 DEF IInv, IdentifiesOK, Opened, Pending, Asks, Sends, Is
<1>7. ClosesAreHandled'  BY <1>1 DEF IInv, ClosesAreHandled, IsOpen, InTasks
<1>8. RouteLeadsToNode'  BY <1>1 DEF IInv, RouteLeadsToNode
<1>9. NodeNeverForgotten'
  BY <1>1 DEF IInv, NodeNeverForgotten, Connecting, InTasks, InMailbox
<1> QED  BY <1>2, <1>3, <1>4, <1>5, <1>6, <1>7, <1>8, <1>9 DEF IInv

\* The main handler hears of every client in order, at most one packet of an
\* identification is on its way, and what follows below: in every state.
THEOREM InductiveInvariant == Spec => []IInv
<1>1. Init => IInv  BY InitIInv
<1>2. IInv /\ [Next]_vars => IInv'  BY NextIInv, StutterIInv
<1> QED  BY <1>1, <1>2, PTL DEF Spec

\* The handle of a closed client is on its way out of m_handleToNode: notifyCloseConnect
\* reaches OnCloseConnect for every handle that is remembered.
THEOREM ClosedClientsAreReported == Spec => []Inv
<1>1. IInv => Inv  BY DEF IInv, Inv
<1> QED  BY <1>1, InductiveInvariant, PTL

\* The handle that GlobalNode has for a node is that of a client which was opened
\* to this node, and m_handleToNode knows it.
THEOREM RoutesAreTrue == Spec => []RouteLeadsToNode
<1>1. IInv => RouteLeadsToNode  BY DEF IInv
<1> QED  BY <1>1, InductiveInvariant, PTL

\* A node that became known has a route, or a timer, a task or a client that is on
\* its way to give it one.
THEOREM KnownNodesAreKept == Spec => []NodeNeverForgotten
<1>1. IInv => NodeNeverForgotten  BY DEF IInv
<1> QED  BY <1>1, InductiveInvariant, PTL
=============================================================================
