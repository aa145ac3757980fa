------------------------- MODULE GlobalHandler_proofs -------------------------
(***************************************************************************)
(* Proofs about the scheduler, for any number of handlers, workers,        *)
(* posters and tasks, and about handlers that come and go: the reference   *)
(* counts are exact, no task is lost with its handler, and the scheduler's *)
(* specification, with all that is proved of it, survives creation and     *)
(* removal.                                                                *)
(***************************************************************************)
EXTENDS GlobalHandler, TLAPS, SequenceTheorems, FiniteSetTheorems

-----------------------------------------------------------------------------
(***************************************************************************)
(* Lemmas on the run queue as a sequence without repetition.               *)
(***************************************************************************)

\* push_back of a handler: what the queue contains afterwards.
LEMMA AppendQueue ==
  ASSUME NEW S, NEW q \in Seq(S), NEW x \in S
  PROVE  /\ Append(q, x) \in Seq(S)
         /\ Len(Append(q, x)) = Len(q) + 1
         /\ \A y : Elem(Append(q, x), y) <=> Elem(q, y) \/ y = x
         /\ NoDup(q) /\ ~ Elem(q, x) => NoDup(Append(q, x))
<1> DEFINE a == Append(q, x)
<1>1. /\ a \in Seq(S) /\ Len(a) = Len(q) + 1 /\ Len(q) \in Nat
      /\ DOMAIN q = 1 .. Len(q) /\ DOMAIN a = 1 .. Len(q) + 1
  BY LenProperties
<1>2. /\ \A i \in 1 .. Len(q) : a[i] = q[i]
      /\ a[Len(q) + 1] = x
  BY <1>1
<1> HIDE DEF a
<1>3. \A y : Elem(a, y) <=> Elem(q, y) \/ y = x
  <2> TAKE y
  <2>1. ASSUME Elem(a, y) PROVE Elem(q, y) \/ y = x
    <3> PICK i \in 1 .. Len(q) + 1 : a[i] = y  BY <1>1, <2>1 DEF Elem
    <3>1. CASE i = Len(q) + 1  BY <3>1, <1>2
    <3>2. CASE i \in 1 .. Len(q)  BY <3>2, <1>1, <1>2 DEF Elem
    <3> QED  BY <3>1, <3>2, <1>1
  <2>2. ASSUME Elem(q, y) PROVE Elem(a, y)
    <3> PICK i \in 1 .. Len(q) : q[i] = y  BY <1>1, <2>2 DEF Elem
    <3>1. i \in DOMAIN a /\ a[i] = y  BY <1>1, <1>2
    <3> QED  BY <3>1 DEF Elem
  <2>3. Elem(a, x)
    <3>1. Len(q) + 1 \in DOMAIN a  BY <1>1
    <3> QED  BY <3>1, <1>2 DEF Elem
  <2> QED  BY <2>1, <2>2, <2>3
<1>4. ASSUME NoDup(q), ~ Elem(q, x) PROVE NoDup(a)
  BY <1>1, <1>2, <1>4 DEF NoDup, Elem
<1> QED  BY <1>1, <1>3, <1>4 DEF a

\* pop_front: the head, and only the head, leaves the queue.
LEMMA TailQueue ==
  ASSUME NEW S, NEW q \in Seq(S), q # <<>>, NoDup(q)
  PROVE  /\ Head(q) \in S
         /\ Elem(q, Head(q))
         /\ Tail(q) \in Seq(S)
         /\ Len(Tail(q)) = Len(q) - 1
         /\ NoDup(Tail(q))
         /\ \A y : Elem(Tail(q), y) <=> Elem(q, y) /\ y # Head(q)
<1> DEFINE r == Tail(q)
<1>1. /\ Len(q) \in Nat \ {0} /\ DOMAIN q = 1 .. Len(q) /\ Head(q) = q[1]
      /\ r \in Seq(S) /\ Len(r) = Len(q) - 1 /\ DOMAIN r = 1 .. Len(q) - 1
      /\ Head(q) \in S
  BY HeadTailProperties, LenProperties, EmptySeq
<1>2. \A i \in 1 .. Len(q) - 1 : r[i] = q[i + 1]
  BY <1>1, HeadTailProperties
<1>3. Elem(q, Head(q))  BY <1>1 DEF Elem
<1> HIDE DEF r
<1>4. NoDup(r)
  <2> SUFFICES ASSUME NEW i \in 1 .. Len(q) - 1, NEW j \in 1 .. Len(q) - 1, r[i] = r[j]
               PROVE  i = j
    BY <1>1 DEF NoDup
  <2>1. q[i + 1] = q[j + 1] /\ i + 1 \in DOMAIN q /\ j + 1 \in DOMAIN q
    BY <1>1, <1>2
  <2> QED  BY <2>1 DEF NoDup
<1>5. \A y : Elem(r, y) <=> Elem(q, y) /\ y # Head(q)
  <2> TAKE y
  <2>1. ASSUME Elem(r, y) PROVE Elem(q, y) /\ y # Head(q)
    <3> PICK i \in 1 .. Len(q) - 1 : r[i] = y  BY <1>1, <2>1 DEF Elem
    <3>1. q[i + 1] = y /\ i + 1 \in DOMAIN q /\ i + 1 # 1 /\ 1 \in DOMAIN q
      BY <1>1, <1>2
    <3> QED  BY <3>1, <1>1 DEF Elem, NoDup
  <2>2. ASSUME Elem(q, y), y # Head(q) PROVE Elem(r, y)
    <3> PICK i \in 1 .. Len(q) : q[i] = y  BY <1>1, <2>2 DEF Elem
    <3>1. i - 1 \in 1 .. Len(q) - 1  BY <1>1, <2>2
    <3>2. r[i - 1] = y  BY <3>1, <1>1, <1>2
    <3> QED  BY <3>1, <3>2, <1>1 DEF Elem
  <2> QED  BY <2>1, <2>2
<1> QED  BY <1>1, <1>3, <1>4, <1>5 DEF r

-----------------------------------------------------------------------------
(***************************************************************************)
(* The inductive invariant holds initially.                                *)
(***************************************************************************)

LEMMA InitIInv == Init => IInv
<1> SUFFICES ASSUME Init PROVE IInv
  OBVIOUS
<1> USE HandlerQueueAssumption DEF Init
<1>1. TypeOK  BY DEF TypeOK
<1>2. \A h : ~ Queued(h)  BY DEF Queued, Elem
<1>3. LocalsOK  BY DEF LocalsOK, Threads
<1>4. MutualExclusion  BY DEF MutualExclusion, Owns
<1>5. SingleToken  BY <1>2 DEF SingleToken, NoDup, Owns
<1>6. FlagIsToken  BY <1>2 DEF FlagIsToken, Owns
<1>7. NoStrandedTask  BY DEF NoStrandedTask
<1>8. NoEmptyTurn  BY <1>2 DEF NoEmptyTurn
<1>9. EnqueuesWork  BY DEF EnqueuesWork
<1> QED  BY <1>1, <1>3, <1>4, <1>5, <1>6, <1>7, <1>8, <1>9 DEF IInv

-----------------------------------------------------------------------------
(***************************************************************************)
(* Each action preserves it.                                               *)
(***************************************************************************)

\* Posting, at either end of the deque: h gets a longer, nonempty queue.
LEMMA PostIInv ==
  ASSUME IInv,
         NEW th \in Threads, NEW h \in Handlers, NEW q \in Seq(Tasks), q # <<>>,
         MayPost(th),
         taskQueue' = [taskQueue EXCEPT ![h] = q],
         ClaimFlag(th, h),
         UNCHANGED <<runQueue, pc, held, current>>
  PROVE  IInv'
<1> USE HandlerQueueAssumption DEF Threads
<1>1. TypeOK'  BY DEF IInv, TypeOK, ClaimFlag
<1>2. \A x : Queued(x)' <=> Queued(x)  BY DEF Queued
<1>3. \A w, x : Owns(w, x)' <=> Owns(w, x)  BY DEF Owns
<1>4. /\ taskQueue'[h] # <<>>
      /\ \A x \in Handlers : x # h => taskQueue'[x] = taskQueue[x]
  BY DEF IInv, TypeOK
<1>5. CASE inQueue[h]
  <2>1. inQueue' = inQueue /\ enqueuing' = enqueuing  BY <1>5 DEF ClaimFlag
  <2>2. LocalsOK'  BY <2>1 DEF IInv, LocalsOK
  <2>3. MutualExclusion'  BY <1>3 DEF IInv, MutualExclusion
  <2>4. SingleToken'  BY <2>1, <1>2, <1>3 DEF IInv, SingleToken
  <2>5. FlagIsToken'  BY <2>1, <1>2, <1>3 DEF IInv, FlagIsToken
  <2>6. NoStrandedTask'  BY <2>1, <1>4, <1>5 DEF IInv, NoStrandedTask
  <2>7. NoEmptyTurn'  BY <1>2, <1>4 DEF IInv, NoEmptyTurn, LocalsOK
  <2>8. EnqueuesWork'  BY <2>1, <1>4 DEF IInv, EnqueuesWork
  <2> QED  BY <1>1, <2>2, <2>3, <2>4, <2>5, <2>6, <2>7, <2>8 DEF IInv
<1>6. CASE ~ inQueue[h]
  <2>1. /\ inQueue' = [inQueue EXCEPT ![h] = TRUE]
        /\ enqueuing' = [enqueuing EXCEPT ![th] = h]
    BY <1>6 DEF ClaimFlag
  <2>2. /\ ~ Queued(h)
        /\ \A s \in Threads : enqueuing[s] # h
        /\ \A w \in Workers : ~ Owns(w, h)
    BY <1>6 DEF IInv, FlagIsToken
  <2>3. /\ enqueuing'[th] = h /\ enqueuing[th] = NoHandler
        /\ \A s \in Threads : s # th => enqueuing'[s] = enqueuing[s]
        /\ inQueue'[h] = TRUE
        /\ \A x \in Handlers : x # h => inQueue'[x] = inQueue[x]
    BY <2>1 DEF IInv, TypeOK, MayPost
  <2>4. LocalsOK'  BY <2>3 DEF IInv, LocalsOK, MayPost
  <2>5. MutualExclusion'  BY <1>3 DEF IInv, MutualExclusion
  <2>6. SingleToken'  BY <2>2, <2>3, <1>2, <1>3 DEF IInv, SingleToken
  <2>7. FlagIsToken'  BY <2>2, <2>3, <1>2, <1>3 DEF IInv, FlagIsToken
  <2>8. NoStrandedTask'  BY <2>3, <1>4 DEF IInv, NoStrandedTask
  <2>9. NoEmptyTurn'  BY <1>2, <1>4 DEF IInv, NoEmptyTurn, LocalsOK
  <2>10. EnqueuesWork'  BY <2>3, <1>4 DEF IInv, EnqueuesWork
  <2> QED  BY <1>1, <2>4, <2>5, <2>6, <2>7, <2>8, <2>9, <2>10 DEF IInv
<1> QED  BY <1>5, <1>6

\* A signal changes nothing but the step of one sleeping worker.
LEMMA SignalEffect ==
  ASSUME TypeOK, Signal
  PROVE  /\ pc' \in [Workers -> {"next", "wait", "task", "exec", "finish", "release"}]
         /\ \A w \in Workers : pc'[w] = pc[w] \/ (pc[w] = "wait" /\ pc'[w] = "next")
BY DEF TypeOK, Signal, Waiting

\* acceptHandler: the token moves from the thread to the run queue.
LEMMA AcceptHandlerIInv ==
  ASSUME IInv, NEW th \in Threads, AcceptHandler(th)
  PROVE  IInv'
<1> USE HandlerQueueAssumption DEF Threads
<1> DEFINE h == enqueuing[th]
<1>1. /\ h \in Handlers /\ runQueue \in Seq(Handlers) /\ NoDup(runQueue)
      /\ ~ Queued(h) /\ taskQueue[h] # <<>>
      /\ \A s \in Threads : s # th => enqueuing[s] # h
      /\ \A w \in Workers : ~ Owns(w, h)
  BY DEF IInv, TypeOK, SingleToken, EnqueuesWork, AcceptHandler
<1>2. /\ runQueue' = Append(runQueue, h)
      /\ enqueuing' = [enqueuing EXCEPT ![th] = NoHandler]
      /\ UNCHANGED <<taskQueue, inQueue, held, current>>
      /\ Signal
  BY DEF AcceptHandler
<1> HIDE DEF h
<1>3. /\ runQueue' \in Seq(Handlers) /\ NoDup(runQueue)'
      /\ \A x : Queued(x)' <=> Queued(x) \/ x = h
  BY <1>1, <1>2, AppendQueue DEF Queued
<1>4. /\ pc' \in [Workers -> {"next", "wait", "task", "exec", "finish", "release"}]
      /\ \A w \in Workers : pc'[w] = pc[w] \/ (pc[w] = "wait" /\ pc'[w] = "next")
  BY <1>2, SignalEffect DEF IInv
<1>5. /\ enqueuing' \in [Threads -> Handlers \union {NoHandler}]
      /\ enqueuing'[th] = NoHandler
      /\ \A s \in Threads : s # th => enqueuing'[s] = enqueuing[s]
  BY <1>2 DEF IInv, TypeOK
<1>6. \A w \in Workers, x \in Handlers : Owns(w, x)' <=> Owns(w, x)
  BY <1>2, <1>4 DEF Owns
<1>7. TypeOK'  BY <1>2, <1>3, <1>4, <1>5 DEF IInv, TypeOK
<1>8. LocalsOK'  BY <1>2, <1>4, <1>5 DEF IInv, LocalsOK
<1>9. MutualExclusion'  BY <1>6 DEF IInv, MutualExclusion
<1>10. SingleToken'
  <2>1. ~ Queued(NoHandler)
    BY <1>1, ElementOfSeq, LenProperties DEF Queued, Elem
  <2> QED  BY <2>1, <1>1, <1>3, <1>5, <1>6 DEF IInv, SingleToken
<1>11. FlagIsToken'  BY <1>2, <1>3, <1>5, <1>6 DEF IInv, FlagIsToken, h
<1>12. NoStrandedTask'  BY <1>2 DEF IInv, NoStrandedTask
<1>13. NoEmptyTurn'  BY <1>1, <1>2, <1>3, <1>4 DEF IInv, NoEmptyTurn
<1>14. EnqueuesWork'  BY <1>2, <1>5 DEF IInv, EnqueuesWork
<1> QED  BY <1>7, <1>8, <1>9, <1>10, <1>11, <1>12, <1>13, <1>14 DEF IInv

\* nextHandler: the token moves from the run queue to the worker.
LEMMA NextHandlerIInv ==
  ASSUME IInv, NEW w \in Workers, NextHandler(w)
  PROVE  IInv'
<1> USE HandlerQueueAssumption DEF Threads
<1>1. /\ UNCHANGED <<taskQueue, inQueue, enqueuing, current>>
      /\ pc[w] = "next" /\ enqueuing[w] = NoHandler
  BY DEF NextHandler, IInv, LocalsOK
<1>2. CASE runQueue = <<>>
  <2>1. pc' = [pc EXCEPT ![w] = "wait"] /\ UNCHANGED <<runQueue, held>>
    BY <1>2 DEF NextHandler
  <2>2. \A v \in Workers, x \in Handlers : Owns(v, x)' <=> Owns(v, x)
    BY <1>1, <2>1 DEF Owns, IInv, TypeOK
  <2>3. \A x : Queued(x)' <=> Queued(x)  BY <2>1 DEF Queued
  <2>4. TypeOK'  BY <1>1, <2>1 DEF IInv, TypeOK
  <2>5. LocalsOK'  BY <1>1, <2>1 DEF IInv, LocalsOK, TypeOK
  <2>6. MutualExclusion'  BY <2>2 DEF IInv, MutualExclusion
  <2>7. SingleToken'  BY <1>1, <2>1, <2>2, <2>3 DEF IInv, SingleToken
  <2>8. FlagIsToken'  BY <1>1, <2>2, <2>3 DEF IInv, FlagIsToken
  <2>9. NoStrandedTask'  BY <1>1 DEF IInv, NoStrandedTask
  <2>10. NoEmptyTurn'  BY <1>1, <2>1, <2>3 DEF IInv, NoEmptyTurn, TypeOK
  <2>11. EnqueuesWork'  BY <1>1 DEF IInv, EnqueuesWork
  <2> QED  BY <2>4, <2>5, <2>6, <2>7, <2>8, <2>9, <2>10, <2>11 DEF IInv
<1>3. CASE runQueue # <<>>
  <2> DEFINE h == Head(runQueue)
  <2>1. /\ pc' = [pc EXCEPT ![w] = "task"]
        /\ held' = [held EXCEPT ![w] = h]
        /\ runQueue' = Tail(runQueue)
    BY <1>3 DEF NextHandler
  <2>2. runQueue \in Seq(Handlers) /\ NoDup(runQueue)
    BY DEF IInv, TypeOK, SingleToken
  <2>3. /\ h \in Handlers /\ Queued(h)
        /\ runQueue' \in Seq(Handlers) /\ NoDup(runQueue)'
        /\ \A x : Queued(x)' <=> Queued(x) /\ x # h
    BY <1>3, <2>1, <2>2, TailQueue DEF Queued
  <2> HIDE DEF h
  <2>4. /\ taskQueue[h] # <<>>
        /\ \A s \in Threads : enqueuing[s] # h
        /\ \A v \in Workers : ~ Owns(v, h)
    BY <2>3 DEF IInv, NoEmptyTurn, SingleToken
  <2>5. /\ pc'[w] = "task" /\ held'[w] = h
        /\ \A v \in Workers : v # w => pc'[v] = pc[v] /\ held'[v] = held[v]
    BY <2>1 DEF IInv, TypeOK
  <2>6. \A v \in Workers, x \in Handlers :
           Owns(v, x)' <=> Owns(v, x) \/ (v = w /\ x = h)
    BY <1>1, <2>5 DEF Owns
  <2>7. TypeOK'  BY <1>1, <2>1, <2>3 DEF IInv, TypeOK
  <2>8. LocalsOK'  BY <1>1, <2>3, <2>5 DEF IInv, LocalsOK
  <2>9. MutualExclusion'  BY <2>4, <2>6 DEF IInv, MutualExclusion
  <2>10. SingleToken'  BY <1>1, <2>3, <2>4, <2>6 DEF IInv, SingleToken
  <2>11. FlagIsToken'  BY <1>1, <2>3, <2>6 DEF IInv, FlagIsToken
  <2>12. NoStrandedTask'  BY <1>1 DEF IInv, NoStrandedTask
  <2>13. NoEmptyTurn'  BY <1>1, <2>3, <2>4, <2>5 DEF IInv, NoEmptyTurn
  <2>14. EnqueuesWork'  BY <1>1 DEF IInv, EnqueuesWork
  <2> QED  BY <2>7, <2>8, <2>9, <2>10, <2>11, <2>12, <2>13, <2>14 DEF IInv
<1> QED  BY <1>2, <1>3

LEMMA SpuriousWakeupIInv ==
  ASSUME IInv, NEW w \in Workers, SpuriousWakeup(w)
  PROVE  IInv'
<1> USE HandlerQueueAssumption DEF Threads
<1>1. /\ UNCHANGED <<taskQueue, inQueue, runQueue, enqueuing, held, current>>
      /\ pc[w] = "wait" /\ pc' = [pc EXCEPT ![w] = "next"]
  BY DEF SpuriousWakeup
<1>2. \A v \in Workers, x \in Handlers : Owns(v, x)' <=> Owns(v, x)
  BY <1>1 DEF Owns, IInv, TypeOK
<1>3. \A x : Queued(x)' <=> Queued(x)  BY <1>1 DEF Queued
<1>4. TypeOK'  BY <1>1 DEF IInv, TypeOK
<1>5. LocalsOK'  BY <1>1 DEF IInv, LocalsOK, TypeOK
<1>6. MutualExclusion'  BY <1>2 DEF IInv, MutualExclusion
<1>7. SingleToken'  BY <1>1, <1>2, <1>3 DEF IInv, SingleToken
<1>8. FlagIsToken'  BY <1>1, <1>2, <1>3 DEF IInv, FlagIsToken
<1>9. NoStrandedTask'  BY <1>1 DEF IInv, NoStrandedTask
<1>10. NoEmptyTurn'  BY <1>1, <1>3 DEF IInv, NoEmptyTurn, TypeOK
<1>11. EnqueuesWork'  BY <1>1 DEF IInv, EnqueuesWork
<1> QED  BY <1>4, <1>5, <1>6, <1>7, <1>8, <1>9, <1>10, <1>11 DEF IInv

\* doTask: the worker takes one task of the handler it owns.
LEMMA DoTaskIInv ==
  ASSUME IInv, NEW w \in Workers, DoTask(w)
  PROVE  IInv'
<1> USE HandlerQueueAssumption DEF Threads
<1> DEFINE h == held[w]
<1>1. /\ UNCHANGED <<inQueue, runQueue, enqueuing, held>>
      /\ pc[w] = "task" /\ h \in Handlers /\ taskQueue[h] # <<>> /\ Owns(w, h)
      /\ enqueuing[w] = NoHandler
  BY DEF DoTask, IInv, LocalsOK, NoEmptyTurn, Owns
<1>2. /\ pc' = [pc EXCEPT ![w] = "exec"]
      /\ current' = [current EXCEPT ![w] = Head(taskQueue[h])]
      /\ taskQueue' = [taskQueue EXCEPT ![h] = Tail(@)]
  BY <1>1 DEF DoTask
<1> HIDE DEF h
<1>3. /\ Head(taskQueue[h]) \in Tasks /\ Tail(taskQueue[h]) \in Seq(Tasks)
      /\ \A x \in Handlers : x # h => taskQueue'[x] = taskQueue[x]
      /\ pc'[w] = "exec" /\ \A v \in Workers : v # w => pc'[v] = pc[v]
  BY <1>1, <1>2, HeadTailProperties DEF IInv, TypeOK
<1>4. \A v \in Workers, x \in Handlers : Owns(v, x)' <=> Owns(v, x)
  BY <1>1, <1>3 DEF Owns
<1>5. \A x : Queued(x)' <=> Queued(x)  BY <1>1 DEF Queued
<1>6. /\ ~ Queued(h) /\ inQueue[h]
      /\ \A th \in Threads : enqueuing[th] # h
      /\ \A v \in Workers : v # w /\ pc[v] = "task" => held[v] # h
  BY <1>1 DEF IInv, SingleToken, FlagIsToken, MutualExclusion, Owns
<1>7. TypeOK'  BY <1>1, <1>2, <1>3 DEF IInv, TypeOK
<1>8. LocalsOK'
  <2>1. /\ current'[w] \in Tasks
        /\ \A v \in Workers : v # w => current'[v] = current[v]
    BY <1>2, <1>3 DEF IInv, TypeOK
  <2>2. \A v \in Workers : v # w => held'[v] = held[v] /\ enqueuing'[v] = enqueuing[v]
    BY <1>1
  <2>3. held'[w] \in Handlers
    BY <1>1 DEF h
  <2> QED  BY <2>1, <2>2, <2>3, <1>3 DEF IInv, LocalsOK
<1>9. MutualExclusion'  BY <1>4 DEF IInv, MutualExclusion
<1>10. SingleToken'  BY <1>1, <1>4, <1>5 DEF IInv, SingleToken
<1>11. FlagIsToken'  BY <1>1, <1>4, <1>5 DEF IInv, FlagIsToken
<1>12. NoStrandedTask'  BY <1>1, <1>3, <1>6 DEF IInv, NoStrandedTask
<1>13. NoEmptyTurn'  BY <1>1, <1>3, <1>5, <1>6 DEF IInv, NoEmptyTurn, LocalsOK
<1>14. EnqueuesWork'  BY <1>1, <1>3, <1>6 DEF IInv, EnqueuesWork
<1> QED  BY <1>7, <1>8, <1>9, <1>10, <1>11, <1>12, <1>13, <1>14 DEF IInv

LEMMA EndTaskIInv ==
  ASSUME IInv, NEW w \in Workers, EndTask(w)
  PROVE  IInv'
<1> USE HandlerQueueAssumption DEF Threads
<1>1. /\ UNCHANGED <<taskQueue, inQueue, runQueue, enqueuing, held>>
      /\ pc[w] = "exec" /\ enqueuing[w] = NoHandler
      /\ pc' = [pc EXCEPT ![w] = "finish"]
      /\ current' = [current EXCEPT ![w] = NoTask]
  BY DEF EndTask
<1>2. \A v \in Workers, x \in Handlers : Owns(v, x)' <=> Owns(v, x)
  BY <1>1 DEF Owns, IInv, TypeOK
<1>3. \A x : Queued(x)' <=> Queued(x)  BY <1>1 DEF Queued
<1>4. TypeOK'  BY <1>1 DEF IInv, TypeOK
<1>5. LocalsOK'  BY <1>1 DEF IInv, LocalsOK, TypeOK
<1>6. MutualExclusion'  BY <1>2 DEF IInv, MutualExclusion
<1>7. SingleToken'  BY <1>1, <1>2, <1>3 DEF IInv, SingleToken
<1>8. FlagIsToken'  BY <1>1, <1>2, <1>3 DEF IInv, FlagIsToken
<1>9. NoStrandedTask'  BY <1>1 DEF IInv, NoStrandedTask
<1>10. NoEmptyTurn'  BY <1>1, <1>3 DEF IInv, NoEmptyTurn, TypeOK
<1>11. EnqueuesWork'  BY <1>1 DEF IInv, EnqueuesWork
<1> QED  BY <1>4, <1>5, <1>6, <1>7, <1>8, <1>9, <1>10, <1>11 DEF IInv

\* doHandler: the worker clears the flag, or owes the queue the handler again.
LEMMA FinishHandlerIInv ==
  ASSUME IInv, NEW w \in Workers, FinishHandler(w)
  PROVE  IInv'
<1> USE HandlerQueueAssumption DEF Threads
<1>0. PICK h \in Handlers : h = held[w]
  BY DEF FinishHandler, IInv, LocalsOK
<1> DEFINE left == taskQueue[h] # <<>>
<1>1. /\ UNCHANGED <<taskQueue, runQueue, held, current>>
      /\ pc[w] = "finish" /\ Owns(w, h)
      /\ enqueuing[w] = NoHandler
      /\ inQueue' = [inQueue EXCEPT ![h] = left]
      /\ enqueuing' = [enqueuing EXCEPT ![w] = IF left THEN h ELSE NoHandler]
      /\ pc' = [pc EXCEPT ![w] = "release"]
  BY <1>0 DEF FinishHandler, IInv, LocalsOK, Owns
<1>2. /\ \A x \in Handlers : x # h => inQueue'[x] = inQueue[x]
      /\ inQueue'[h] = left
      /\ enqueuing'[w] = IF left THEN h ELSE NoHandler
      /\ \A th \in Threads : th # w => enqueuing'[th] = enqueuing[th]
      /\ pc'[w] = "release" /\ \A v \in Workers : v # w => pc'[v] = pc[v]
  BY <1>1 DEF IInv, TypeOK
<1>3. \A v \in Workers, x \in Handlers : Owns(v, x)' <=> Owns(v, x) /\ v # w
  BY <1>1, <1>2 DEF Owns
<1>4. \A x : Queued(x)' <=> Queued(x)  BY <1>1 DEF Queued
<1>5. /\ ~ Queued(h)
      /\ \A th \in Threads : enqueuing[th] # h
      /\ \A v \in Workers : Owns(v, h) => v = w
      /\ \A x \in Handlers : Owns(w, x) => x = h
  BY <1>1 DEF IInv, SingleToken, MutualExclusion, Owns
<1>6. TypeOK'  BY <1>1 DEF IInv, TypeOK
<1>7. LocalsOK'  BY <1>0, <1>1, <1>2 DEF IInv, LocalsOK
<1>8. MutualExclusion'  BY <1>3 DEF IInv, MutualExclusion
<1>9. SingleToken'
  <2>1. NoDup(runQueue)'  BY <1>1 DEF IInv, SingleToken, NoDup
  <2>2. \A s, th \in Threads :
           enqueuing'[s] = enqueuing'[th] /\ enqueuing'[s] # NoHandler => s = th
    BY <1>2, <1>5 DEF IInv, SingleToken
  <2>3. \A th \in Threads : ~ Queued(enqueuing[th])'
    BY <1>1, <1>2, <1>4, <1>5 DEF IInv, SingleToken
  <2>4. \A x \in Handlers : \A v \in Workers :
           Owns(v, x)' => ~ Queued(x)' /\ \A th \in Threads : enqueuing'[th] # x
    BY <1>2, <1>3, <1>4, <1>5 DEF IInv, SingleToken
  <2> QED  BY <2>1, <2>2, <2>3, <2>4 DEF SingleToken
<1>10. FlagIsToken'
  <2>1. ASSUME NEW x \in Handlers, x # h
        PROVE  /\ inQueue'[x] = inQueue[x]
               /\ Queued(x)' <=> Queued(x)
               /\ \A th \in Threads : enqueuing'[th] = x <=> enqueuing[th] = x
               /\ \A v \in Workers : Owns(v, x)' <=> Owns(v, x)
    BY <1>1, <1>2, <1>3, <1>4, <1>5, <2>1
  <2>2. /\ ~ Queued(h)'
        /\ (\E th \in Threads : enqueuing'[th] = h) <=> left
        /\ \A v \in Workers : ~ Owns(v, h)'
    BY <1>1, <1>2, <1>3, <1>4, <1>5
  <2>3. ASSUME NEW x \in Handlers
        PROVE  inQueue'[x] <=> \/ Queued(x)'
                               \/ \E th \in Threads : enqueuing'[th] = x
                               \/ \E v \in Workers : Owns(v, x)'
    <3>1. CASE x = h  BY <3>1, <1>2, <2>2
    <3>2. CASE x # h  BY <3>2, <2>1 DEF IInv, FlagIsToken
    <3> QED  BY <3>1, <3>2
  <2> QED  BY <2>3 DEF FlagIsToken
<1>11. NoStrandedTask'  BY <1>1, <1>2 DEF IInv, NoStrandedTask
<1>12. NoEmptyTurn'  BY <1>1, <1>2, <1>4 DEF IInv, NoEmptyTurn
<1>13. EnqueuesWork'  BY <1>1, <1>2 DEF IInv, EnqueuesWork
<1> QED  BY <1>6, <1>7, <1>8, <1>9, <1>10, <1>11, <1>12, <1>13 DEF IInv

LEMMA ReleaseHandlerIInv ==
  ASSUME IInv, NEW w \in Workers, ReleaseHandler(w)
  PROVE  IInv'
<1> USE HandlerQueueAssumption DEF Threads
<1>1. /\ UNCHANGED <<taskQueue, inQueue, runQueue, enqueuing, current>>
      /\ pc[w] = "release" /\ enqueuing[w] = NoHandler
      /\ pc' = [pc EXCEPT ![w] = "next"]
      /\ held' = [held EXCEPT ![w] = NoHandler]
  BY DEF ReleaseHandler
<1>2. \A v \in Workers, x \in Handlers : Owns(v, x)' <=> Owns(v, x)
  BY <1>1 DEF Owns, IInv, TypeOK
<1>3. \A x : Queued(x)' <=> Queued(x)  BY <1>1 DEF Queued
<1>4. TypeOK'  BY <1>1 DEF IInv, TypeOK
<1>5. LocalsOK'  BY <1>1 DEF IInv, LocalsOK, TypeOK
<1>6. MutualExclusion'  BY <1>2 DEF IInv, MutualExclusion
<1>7. SingleToken'  BY <1>1, <1>2, <1>3 DEF IInv, SingleToken
<1>8. FlagIsToken'  BY <1>1, <1>2, <1>3 DEF IInv, FlagIsToken
<1>9. NoStrandedTask'  BY <1>1 DEF IInv, NoStrandedTask
<1>10. NoEmptyTurn'  BY <1>1, <1>3 DEF IInv, NoEmptyTurn, TypeOK
<1>11. EnqueuesWork'  BY <1>1 DEF IInv, EnqueuesWork
<1> QED  BY <1>4, <1>5, <1>6, <1>7, <1>8, <1>9, <1>10, <1>11 DEF IInv

-----------------------------------------------------------------------------
(***************************************************************************)
(* The theorems.                                                           *)
(***************************************************************************)

LEMMA FreeTasks == Free \subseteq Tasks
BY DEF Free

LEMMA NextIInv == IInv /\ [Next]_vars => IInv'
<1> SUFFICES ASSUME IInv, [Next]_vars PROVE IInv'
  OBVIOUS
<1>1. ASSUME NEW th \in Threads, NEW h \in Handlers, NEW t \in Tasks, AcceptTask(th, h, t)
      PROVE  IInv'
  <2> DEFINE q == Append(taskQueue[h], t)
  <2>0. taskQueue[h] \in Seq(Tasks)  BY DEF IInv, TypeOK
  <2>1. q \in Seq(Tasks) /\ q # <<>>  BY <2>0, AppendQueue, EmptySeq, LenProperties
  <2>2. taskQueue' = [taskQueue EXCEPT ![h] = q]  BY <1>1 DEF AcceptTask
  <2> HIDE DEF q
  <2> QED  BY <2>1, <2>2, <1>1, PostIInv DEF AcceptTask
<1>2. ASSUME NEW th \in Threads, NEW h \in Handlers, NEW t \in Tasks,
             AcceptTaskFront(th, h, t)
      PROVE  IInv'
  <2> DEFINE q == <<t>> \o taskQueue[h]
  <2>1. taskQueue[h] \in Seq(Tasks) /\ <<t>> \in Seq(Tasks)  BY DEF IInv, TypeOK
  <2>2. q \in Seq(Tasks) /\ Len(q) = 1 + Len(taskQueue[h]) /\ Len(taskQueue[h]) \in Nat
    BY <2>1, ConcatProperties, LenProperties
  <2>3. q # <<>>  BY <2>2
  <2>4. taskQueue' = [taskQueue EXCEPT ![h] = q]  BY <1>2 DEF AcceptTaskFront
  <2> HIDE DEF q
  <2> QED  BY <2>2, <2>3, <2>4, <1>2, PostIInv DEF AcceptTaskFront
<1>3. ASSUME NEW w \in Workers, WorkerStep(w) PROVE IInv'
  BY <1>3, NextHandlerIInv, DoTaskIInv, EndTaskIInv, FinishHandlerIInv, ReleaseHandlerIInv
     DEF WorkerStep
<1>4. CASE UNCHANGED vars
  BY <1>4 DEF vars, IInv, TypeOK, LocalsOK, MutualExclusion, SingleToken, FlagIsToken,
              NoStrandedTask, NoEmptyTurn, EnqueuesWork, Owns, Queued, NoDup, Elem
<1> QED
  BY <1>1, <1>2, <1>3, <1>4, FreeTasks, AcceptHandlerIInv, SpuriousWakeupIInv DEF Next

\* The scheduler's inductive invariant, for any number of threads and handlers.
THEOREM InductiveInvariant == Spec => []IInv
BY InitIInv, NextIInv, PTL DEF Spec

\* Every variable of the scheduler keeps its type.
THEOREM TypeCorrect == Spec => []TypeOK
<1>1. IInv => TypeOK  BY DEF IInv
<1> QED  BY <1>1, InductiveInvariant, PTL

\* doHandler and doTask may run tasks outside the handler's critical section:
\* no two workers ever own the same handler.
THEOREM HandlersAreExclusive == Spec => []MutualExclusion
<1>1. IInv => MutualExclusion  BY DEF IInv
<1> QED  BY <1>1, InductiveInvariant, PTL

\* m_isInHandlerQueue admits one enqueue of a handler at a time, and is set
\* exactly while the handler is queued, about to be, or owned.
THEOREM FlagAdmitsOneToken == Spec => [](SingleToken /\ FlagIsToken)
<1>1. IInv => SingleToken /\ FlagIsToken  BY DEF IInv
<1> QED  BY <1>1, InductiveInvariant, PTL

\* A handler with tasks is always in the hands of the scheduler, and a worker
\* that is given a handler finds a task in it.
THEOREM TasksAreScheduled == Spec => [](NoStrandedTask /\ NoEmptyTurn)
<1>1. IInv => NoStrandedTask /\ NoEmptyTurn  BY DEF IInv
<1> QED  BY <1>1, InductiveInvariant, PTL

-----------------------------------------------------------------------------
(***************************************************************************)
(* The condition variable: counting the workers on their way to the queue. *)
(***************************************************************************)

LEMMA AwakeFinite == IsFiniteSet(Awake) /\ Cardinality(Awake) \in Nat
<1>1. Awake \in SUBSET Workers  BY DEF Awake
<1> QED  BY <1>1, HandlerQueueAssumption, FS_Subset, FS_CardinalityType

\* Every step keeps, for a sleeping worker, as many awake workers as the run
\* queue has handlers.
LEMMA NextWakeup ==
  ASSUME IInv, NoLostWakeup, [Next]_vars
  PROVE  NoLostWakeup'
<1> USE HandlerQueueAssumption DEF Threads
<1>1. /\ pc \in [Workers -> {"next", "wait", "task", "exec", "finish", "release"}]
      /\ runQueue \in Seq(Handlers) /\ Len(runQueue) \in Nat
  BY LenProperties DEF IInv, TypeOK
<1>2. ASSUME UNCHANGED <<runQueue, pc>> PROVE NoLostWakeup'
  BY <1>2 DEF NoLostWakeup, Waiting, Awake
<1>3. ASSUME NEW w \in Workers, pc[w] # "next", pc' = [pc EXCEPT ![w] = "next"],
             UNCHANGED runQueue
      PROVE  NoLostWakeup'
  <2>1. /\ Awake' = Awake \union {w} /\ w \notin Awake
        /\ Waiting' \subseteq Waiting
    BY <1>1, <1>3 DEF Awake, Waiting
  <2>2. Cardinality(Awake') = Cardinality(Awake) + 1
    BY <2>1, AwakeFinite, FS_AddElement
  <2> QED  BY <2>1, <2>2, <1>1, <1>3, AwakeFinite DEF NoLostWakeup
<1>4. ASSUME NEW w \in Workers, pc[w] \notin {"next", "wait"}, UNCHANGED runQueue,
             NEW s \in {"task", "exec", "finish", "release"}, pc' = [pc EXCEPT ![w] = s]
      PROVE  NoLostWakeup'
  <2>1. Awake' = Awake /\ Waiting' = Waiting
    BY <1>1, <1>4 DEF Awake, Waiting
  <2> QED  BY <2>1, <1>4 DEF NoLostWakeup
<1>5. ASSUME NEW th \in Threads, AcceptHandler(th) PROVE NoLostWakeup'
  <2>1. Len(runQueue') = Len(runQueue) + 1
    <3>1. enqueuing[th] \in Handlers  BY <1>5 DEF AcceptHandler, IInv, TypeOK
    <3> QED  BY <3>1, <1>1, <1>5, AppendQueue DEF AcceptHandler
  <2>2. CASE Waiting = {}
    <3>1. Waiting' = {}  BY <2>2, <1>5 DEF AcceptHandler, Signal, Waiting
    <3> QED  BY <3>1 DEF NoLostWakeup
  <2>3. CASE Waiting # {}
    <3> PICK w \in Waiting : pc' = [pc EXCEPT ![w] = "next"]
      BY <2>3, <1>5 DEF AcceptHandler, Signal
    <3>1. Awake' = Awake \union {w} /\ w \notin Awake
      BY <1>1 DEF Awake, Waiting
    <3>2. Cardinality(Awake') = Cardinality(Awake) + 1
      BY <3>1, AwakeFinite, FS_AddElement
    <3> QED  BY <3>2, <2>1, <2>3, <1>1, AwakeFinite DEF NoLostWakeup
  <2> QED  BY <2>2, <2>3
<1>6. ASSUME NEW w \in Workers, NextHandler(w) PROVE NoLostWakeup'
  <2>1. CASE runQueue = <<>>
    <3>1. Len(runQueue') = 0  BY <2>1, <1>6, EmptySeq DEF NextHandler
    <3>2. /\ Awake' = Awake \ {w}
          /\ IsFiniteSet(Awake') /\ Cardinality(Awake') \in Nat
      <4>1. Awake' = Awake \ {w}  BY <2>1, <1>1, <1>6 DEF NextHandler, Awake
      <4> QED  BY <4>1, AwakeFinite, FS_RemoveElement, FS_CardinalityType
    <3> QED  BY <3>1, <3>2 DEF NoLostWakeup
  <2>2. CASE runQueue # <<>>
    <3>1. /\ Awake' = Awake \ {w} /\ w \in Awake /\ Waiting' = Waiting
          /\ Len(runQueue') = Len(runQueue) - 1
      BY <2>2, <1>1, <1>6, HeadTailProperties DEF NextHandler, Awake, Waiting
    <3>2. Cardinality(Awake') = Cardinality(Awake) - 1
      BY <3>1, AwakeFinite, FS_RemoveElement
    <3> QED  BY <3>1, <3>2, <1>1, AwakeFinite DEF NoLostWakeup
  <2> QED  BY <2>1, <2>2
<1>7. ASSUME NEW w \in Workers, WorkerStep(w) PROVE NoLostWakeup'
  <2>1. CASE DoTask(w)
    <3>1. UNCHANGED runQueue /\ pc[w] = "task"
          /\ \E s \in {"exec", "finish"} : pc' = [pc EXCEPT ![w] = s]
      BY <2>1 DEF DoTask
    <3> QED  BY <3>1, <1>4
  <2>2. CASE EndTask(w)  BY <2>2, <1>4 DEF EndTask
  <2>3. CASE FinishHandler(w)  BY <2>3, <1>4 DEF FinishHandler
  <2>4. CASE ReleaseHandler(w)  BY <2>4, <1>3 DEF ReleaseHandler
  <2> QED  BY <2>1, <2>2, <2>3, <2>4, <1>6, <1>7 DEF WorkerStep
<1>8. ASSUME NEW w \in Workers, SpuriousWakeup(w) PROVE NoLostWakeup'
  BY <1>8, <1>3 DEF SpuriousWakeup
<1>9. CASE UNCHANGED vars  BY <1>9, <1>2 DEF vars
<1>10. ASSUME NEW th \in Threads, NEW h \in Handlers, NEW t,
              AcceptTask(th, h, t) \/ AcceptTaskFront(th, h, t)
       PROVE  NoLostWakeup'
  BY <1>10, <1>2 DEF AcceptTask, AcceptTaskFront
<1> QED  BY <1>5, <1>7, <1>8, <1>9, <1>10 DEF Next

\* While a worker sleeps on the condition variable, no handler of the run queue
\* lacks an awake worker, although one signal is sent per acceptHandler and the
\* handler may be taken by a worker that was never asleep.
THEOREM NoWakeupIsLost == Spec => []NoLostWakeup
<1>1. Init => NoLostWakeup
  <2> SUFFICES ASSUME Init PROVE Waiting = {}
    BY DEF NoLostWakeup
  <2> QED  BY DEF Init, Waiting
<1>2. IInv /\ NoLostWakeup /\ [Next]_vars => NoLostWakeup'
  BY NextWakeup
<1> QED  BY <1>1, <1>2, InductiveInvariant, PTL DEF Spec

-----------------------------------------------------------------------------
(***************************************************************************)
(* The scheduler implements one serial mailbox per handler.                *)
(***************************************************************************)

\* By mutual exclusion, the task a handler runs is well defined.
Executes(w, h) == pc[w] = "exec" /\ held[w] = h

RunningOK ==
    /\ \A w \in Workers : pc[w] = "exec" => Running(held[w]) = current[w]
    /\ \A h \in Handlers : (\A w \in Workers : ~ Executes(w, h)) => Running(h) = NoTask

LEMMA RunningIsWellDefined == IInv => RunningOK
<1> SUFFICES ASSUME IInv PROVE RunningOK
  OBVIOUS
<1>1. ASSUME NEW w \in Workers, pc[w] = "exec" PROVE Running(held[w]) = current[w]
  <2> DEFINE h == held[w]
             c == CHOOSE v \in Workers : Owns(v, h) /\ pc[v] = "exec"
  <2>1. Owns(w, h) /\ h \in Handlers
    BY <1>1 DEF Owns, IInv, LocalsOK
  <2>2. c \in Workers /\ Owns(c, h)
    BY <2>1, <1>1
  <2>3. c = w
    BY <2>1, <2>2 DEF IInv, MutualExclusion
  <2> QED  BY <2>1, <2>3, <1>1 DEF Running
<1>2. ASSUME NEW h \in Handlers, \A w \in Workers : ~ Executes(w, h)
      PROVE  Running(h) = NoTask
  BY <1>2 DEF Running, Owns, Executes
<1> QED  BY <1>1, <1>2 DEF RunningOK

\* A step that starts and ends no task leaves what the handlers run alone.
LEMMA RunningUnchanged ==
  ASSUME IInv, RunningOK, RunningOK',
         \A w \in Workers : /\ (pc[w] = "exec") <=> (pc'[w] = "exec")
                            /\ pc[w] = "exec" => held'[w] = held[w] /\ current'[w] = current[w]
  PROVE  \A h \in Handlers : Running(h)' = Running(h)
<1> TAKE h \in Handlers
<1>1. CASE \E w \in Workers : Executes(w, h)
  <2> PICK w \in Workers : Executes(w, h)  BY <1>1
  <2>1. Running(h) = current[w]
    BY DEF RunningOK, Executes
  <2>2. Running(h)' = current'[w]
    BY DEF RunningOK, Executes
  <2> QED  BY <2>1, <2>2 DEF Executes
<1>2. CASE \A w \in Workers : ~ Executes(w, h)
  <2>1. Running(h) = NoTask
    BY <1>2 DEF RunningOK
  <2>2. Running(h)' = NoTask
    BY <1>2 DEF RunningOK, Executes
  <2> QED  BY <2>1, <2>2
<1> QED  BY <1>1, <1>2

\* Posting, starting and completing a task are the mailbox's steps; the run
\* queue, the flag and the references of the scheduler are invisible in it.
LEMMA NextMailbox ==
  ASSUME IInv, RunningOK, RunningOK', [Next]_vars
  PROVE  [Mailbox!Next]_(Mailbox!vars)
<1> USE HandlerQueueAssumption DEF Threads
<1>1. ASSUME UNCHANGED taskQueue,
             \A w \in Workers : /\ (pc[w] = "exec") <=> (pc'[w] = "exec")
                                /\ pc[w] = "exec" => held'[w] = held[w] /\ current'[w] = current[w]
      PROVE  UNCHANGED Mailbox!vars
  BY <1>1, RunningUnchanged DEF Mailbox!vars
<1>2. ASSUME NEW th \in Threads, NEW h \in Handlers, NEW t \in Tasks, AcceptTask(th, h, t)
      PROVE  Mailbox!Next
  <2>1. \A x \in Handlers : Running(x)' = Running(x)
    BY <1>2, RunningUnchanged DEF AcceptTask
  <2>2. Mailbox!Post(h, t)
    BY <1>2, <2>1 DEF AcceptTask, Mailbox!Post
  <2> QED  BY <2>2 DEF Mailbox!Next
<1>3. ASSUME NEW th \in Threads, NEW h \in Handlers, NEW t \in Tasks, AcceptTaskFront(th, h, t)
      PROVE  Mailbox!Next
  <2>1. \A x \in Handlers : Running(x)' = Running(x)
    BY <1>3, RunningUnchanged DEF AcceptTaskFront
  <2>2. Mailbox!PostFront(h, t)
    BY <1>3, <2>1 DEF AcceptTaskFront, Mailbox!PostFront
  <2> QED  BY <2>2 DEF Mailbox!Next
<1>4. ASSUME NEW th \in Threads, AcceptHandler(th) PROVE UNCHANGED Mailbox!vars
  BY <1>4, <1>1 DEF AcceptHandler, Signal, Waiting, IInv, TypeOK
<1>5. ASSUME NEW w \in Workers, NextHandler(w) PROVE UNCHANGED Mailbox!vars
  BY <1>5, <1>1 DEF NextHandler, IInv, TypeOK
<1>6. ASSUME NEW w \in Workers, SpuriousWakeup(w) PROVE UNCHANGED Mailbox!vars
  BY <1>6, <1>1 DEF SpuriousWakeup, IInv, TypeOK
<1>7. ASSUME NEW w \in Workers, DoTask(w) PROVE Mailbox!Next
  <2> PICK h : h = held[w]  OBVIOUS
  <2>1. /\ h \in Handlers /\ taskQueue[h] # <<>> /\ Owns(w, h) /\ pc[w] = "task"
    BY <1>7 DEF DoTask, IInv, LocalsOK, NoEmptyTurn, Owns
  <2>2. /\ pc' = [pc EXCEPT ![w] = "exec"] /\ held' = held
        /\ current' = [current EXCEPT ![w] = Head(taskQueue[h])]
        /\ taskQueue' = [taskQueue EXCEPT ![h] = Tail(@)]
    BY <1>7, <2>1 DEF DoTask
  <2>3. \A v \in Workers : ~ Executes(v, h)
    BY <2>1 DEF IInv, MutualExclusion, Owns, Executes
  <2>4. Running(h) = NoTask
    BY <2>1, <2>3 DEF RunningOK
  <2>5. pc'[w] = "exec" /\ held'[w] = h /\ current'[w] = Head(taskQueue[h])
    BY <2>2 DEF IInv, TypeOK
  <2>6. Running(h)' = Head(taskQueue[h])
    BY <2>5 DEF RunningOK
  <2>7. ASSUME NEW x \in Handlers, x # h PROVE Running(x)' = Running(x)
    <3>1. CASE \E v \in Workers : Executes(v, x)
      <4> PICK v \in Workers : Executes(v, x)  BY <3>1
      <4>1. v # w /\ pc'[v] = "exec" /\ held'[v] = x /\ current'[v] = current[v]
        BY <2>1, <2>2 DEF Executes, IInv, TypeOK
      <4>2. Running(x) = current[v]
        BY DEF RunningOK, Executes
      <4>3. Running(x)' = current'[v]
        BY <4>1 DEF RunningOK
      <4> QED  BY <4>1, <4>2, <4>3
    <3>2. CASE \A v \in Workers : ~ Executes(v, x)
      <4>1. \A v \in Workers : ~ Executes(v, x)'
        BY <2>2, <2>7, <2>5, <3>2 DEF Executes, IInv, TypeOK
      <4> QED  BY <3>2, <4>1 DEF RunningOK
    <3> QED  BY <3>1, <3>2
  <2>8. Mailbox!Start(h)
    BY <2>1, <2>2, <2>4, <2>6, <2>7 DEF Mailbox!Start
  <2> QED  BY <2>1, <2>8 DEF Mailbox!Next
<1>8. ASSUME NEW w \in Workers, EndTask(w) PROVE Mailbox!Next
  <2> PICK h : h = held[w]  OBVIOUS
  <2>1. h \in Handlers /\ Owns(w, h) /\ pc[w] = "exec" /\ current[w] \in Tasks
    BY <1>8 DEF EndTask, IInv, LocalsOK, Owns
  <2>2. /\ pc' = [pc EXCEPT ![w] = "finish"] /\ held' = held
        /\ current' = [current EXCEPT ![w] = NoTask] /\ taskQueue' = taskQueue
    BY <1>8 DEF EndTask
  <2>3. Running(h) # NoTask
    BY <2>1 DEF RunningOK
  <2>4. \A v \in Workers : v # w => ~ Executes(v, h)
    BY <2>1 DEF IInv, MutualExclusion, Owns, Executes
  <2>5. \A v \in Workers : ~ Executes(v, h)'
    BY <2>2, <2>4 DEF Executes, IInv, TypeOK
  <2>6. Running(h)' = NoTask
    BY <2>1, <2>5 DEF RunningOK
  <2>7. ASSUME NEW x \in Handlers, x # h PROVE Running(x)' = Running(x)
    <3>1. CASE \E v \in Workers : Executes(v, x)
      <4> PICK v \in Workers : Executes(v, x)  BY <3>1
      <4>1. v # w /\ pc'[v] = "exec" /\ held'[v] = x /\ current'[v] = current[v]
        BY <2>7, <2>1, <2>2 DEF Executes, IInv, TypeOK
      <4>2. Running(x) = current[v]
        BY DEF RunningOK, Executes
      <4>3. Running(x)' = current'[v]
        BY <4>1 DEF RunningOK
      <4> QED  BY <4>1, <4>2, <4>3
    <3>2. CASE \A v \in Workers : ~ Executes(v, x)
      <4>1. \A v \in Workers : ~ Executes(v, x)'
        BY <2>2, <3>2 DEF Executes, IInv, TypeOK
      <4> QED  BY <3>2, <4>1 DEF RunningOK
    <3> QED  BY <3>1, <3>2
  <2>8. Mailbox!Complete(h)
    BY <2>1, <2>2, <2>3, <2>6, <2>7 DEF Mailbox!Complete
  <2> QED  BY <2>1, <2>8 DEF Mailbox!Next
<1>9. ASSUME NEW w \in Workers, FinishHandler(w) PROVE UNCHANGED Mailbox!vars
  BY <1>9, <1>1 DEF FinishHandler, IInv, TypeOK
<1>10. ASSUME NEW w \in Workers, ReleaseHandler(w) PROVE UNCHANGED Mailbox!vars
  BY <1>10, <1>1 DEF ReleaseHandler, IInv, TypeOK
<1>11. CASE UNCHANGED vars
  BY <1>11, <1>1 DEF vars
<1> QED
  BY <1>2, <1>3, <1>4, <1>5, <1>6, <1>7, <1>8, <1>9, <1>10, <1>11, FreeTasks
  DEF Next, WorkerStep

LEMMA InitMailbox == Init => Mailbox!Init
<1> SUFFICES ASSUME Init PROVE Mailbox!Init
  OBVIOUS
<1>1. \A h \in Handlers : Running(h) = NoTask
  BY DEF Init, Running
<1> QED  BY <1>1 DEF Init, Mailbox!Init

\* Flag, run queue, condition variable and worker threads together implement a
\* serial mailbox per handler: tasks run one at a time and in queue order.
THEOREM MailboxImplemented == Spec => ImplementsMailbox
<1>1. IInv' => RunningOK'
  BY RunningIsWellDefined, PTL
<1>2. IInv /\ IInv' /\ [Next]_vars => [Mailbox!Next]_(Mailbox!vars)
  BY <1>1, NextMailbox, RunningIsWellDefined
<1> QED
  BY <1>2, InitMailbox, InductiveInvariant, PTL DEF Spec, ImplementsMailbox, Mailbox!Spec

-----------------------------------------------------------------------------
(***************************************************************************)
(* Counting holders.                                                       *)
(***************************************************************************)

\* What each kind of holder holds.
LEMMA HoldsWhat ==
  ASSUME NEW h \in Handlers
  PROVE  /\ <<"pool", NoHandler>> \in Holder /\ (Holds(<<"pool", NoHandler>>, h) <=> h \in registered)
         /\ <<"queue", NoHandler>> \in Holder /\ (Holds(<<"queue", NoHandler>>, h) <=> Queued(h))
         /\ <<"loader", NoHandler>> \in Holder /\ (Holds(<<"loader", NoHandler>>, h) <=> InCallback(h))
         /\ \A w \in Workers : /\ <<"worker", w>> \in Holder
                               /\ Holds(<<"worker", w>>, h) <=> held[w] = h
         /\ \A th \in Threads : /\ <<"thread", th>> \in Holder
                                /\ Holds(<<"thread", th>>, h) <=> dispatch[th].handler = h
BY DEF Holds, Holder

\* A step that changes no holder and no count
LEMMA SameHolders ==
  ASSUME \A g \in Handlers : Counted(g), UNCHANGED refs,
         \A y \in Holder, g \in Handlers : Holds(y, g)' <=> Holds(y, g)
  PROVE  \A g \in Handlers : Counted(g)'
<1> TAKE g \in Handlers
<1>1. Holders(g)' = Holders(g)  BY DEF Holders
<1> QED  BY <1>1 DEF Counted

\* A holder x is added to those of h: retain.
LEMMA AddHolder ==
  ASSUME NEW h \in Handlers, NEW x \in Holder, ~ Holds(x, h),
         \A g \in Handlers : Counted(g), refs \in [Handlers -> Nat], Retain(h),
         \A y \in Holder, g \in Handlers : Holds(y, g)' <=> Holds(y, g) \/ (y = x /\ g = h)
  PROVE  refs' \in [Handlers -> Nat] /\ \A g \in Handlers : Counted(g)'
<1>1. refs' \in [Handlers -> Nat] /\ refs'[h] = refs[h] + 1
      /\ \A g \in Handlers : g # h => refs'[g] = refs[g]
  BY DEF Retain
<1>2. ASSUME NEW g \in Handlers, g # h PROVE Counted(g)'
  <2>1. Holders(g)' = Holders(g)  BY <1>2 DEF Holders
  <2> QED  BY <2>1, <1>1, <1>2 DEF Counted
<1>3. Counted(h)'
  <2>1. Holders(h)' = Holders(h) \union {x} /\ x \notin Holders(h)  BY DEF Holders
  <2>2. IsFiniteSet(Holders(h)) /\ refs[h] = Cardinality(Holders(h))  BY DEF Counted
  <2>3. /\ IsFiniteSet(Holders(h) \union {x})
        /\ Cardinality(Holders(h) \union {x}) = Cardinality(Holders(h)) + 1
    BY <2>1, <2>2, FS_AddElement
  <2> QED  BY <2>1, <2>2, <2>3, <1>1 DEF Counted
<1> QED  BY <1>1, <1>2, <1>3

\* A holder x of h gives its reference up: release.
LEMMA RemoveHolder ==
  ASSUME NEW h \in Handlers, NEW x \in Holder, Holds(x, h),
         \A g \in Handlers : Counted(g), refs \in [Handlers -> Nat],
         refs' = [refs EXCEPT ![h] = @ - 1],
         \A y \in Holder, g \in Handlers : Holds(y, g)' <=> Holds(y, g) /\ ~ (y = x /\ g = h)
  PROVE  refs' \in [Handlers -> Nat] /\ \A g \in Handlers : Counted(g)'
<1>1. refs'[h] = refs[h] - 1
      /\ \A g \in Handlers : g # h => refs'[g] = refs[g]
  OBVIOUS
<1>2. ASSUME NEW g \in Handlers, g # h PROVE Counted(g)'
  <2>1. Holders(g)' = Holders(g)  BY <1>2 DEF Holders
  <2> QED  BY <2>1, <1>1, <1>2 DEF Counted
<1>3. Counted(h)' /\ refs'[h] \in Nat
  <2>1. Holders(h)' = Holders(h) \ {x} /\ x \in Holders(h)  BY DEF Holders
  <2>2. IsFiniteSet(Holders(h)) /\ refs[h] = Cardinality(Holders(h))  BY DEF Counted
  <2>3. /\ IsFiniteSet(Holders(h) \ {x})
        /\ Cardinality(Holders(h) \ {x}) = Cardinality(Holders(h)) - 1
    BY <2>1, <2>2, FS_RemoveElement
  <2>4. Cardinality(Holders(h) \ {x}) \in Nat  BY <2>3, FS_CardinalityType
  <2> QED  BY <2>1, <2>2, <2>3, <2>4, <1>1 DEF Counted
<1> QED  BY <1>1, <1>2, <1>3

\* A reference of h passes from x to z.
LEMMA MoveHolder ==
  ASSUME NEW h \in Handlers, NEW x \in Holder, NEW z \in Holder, x # z,
         Holds(x, h), ~ Holds(z, h),
         \A g \in Handlers : Counted(g), UNCHANGED refs,
         \A y \in Holder, g \in Handlers :
            Holds(y, g)' <=> (Holds(y, g) /\ ~ (y = x /\ g = h)) \/ (y = z /\ g = h)
  PROVE  \A g \in Handlers : Counted(g)'
<1>1. ASSUME NEW g \in Handlers, g # h PROVE Counted(g)'
  <2>1. Holders(g)' = Holders(g)  BY <1>1 DEF Holders
  <2> QED  BY <2>1, <1>1 DEF Counted
<1>2. Counted(h)'
  <2> DEFINE S == Holders(h) \ {x}
  <2>1. /\ Holders(h)' = S \union {z} /\ x \in Holders(h) /\ z \notin S
    BY DEF Holders
  <2>2. IsFiniteSet(Holders(h)) /\ refs[h] = Cardinality(Holders(h))  BY DEF Counted
  <2>3. IsFiniteSet(S) /\ Cardinality(S) = Cardinality(Holders(h)) - 1
    BY <2>1, <2>2, FS_RemoveElement
  <2> HIDE DEF S
  <2>4. IsFiniteSet(S \union {z}) /\ Cardinality(S \union {z}) = Cardinality(S) + 1
    BY <2>1, <2>3, FS_AddElement
  <2>5. Cardinality(Holders(h)) \in Nat  BY <2>2, FS_CardinalityType
  <2> QED  BY <2>1, <2>2, <2>3, <2>4, <2>5 DEF Counted
<1> QED  BY <1>1, <1>2

\* Whoever can still touch a handler holds a reference on it, or its thread does.
UseIsHeld == \A h \in Handlers : InUse(h) <=> \E x \in Holder : Holds(x, h)

LEMMA InUseIsHeld == EnqueuesHeld => UseIsHeld
<1> SUFFICES ASSUME EnqueuesHeld, NEW h \in Handlers
             PROVE  InUse(h) <=> \E x \in Holder : Holds(x, h)
  BY DEF UseIsHeld
<1>1. ASSUME NEW x \in Holder, Holds(x, h) PROVE InUse(h)
  BY <1>1 DEF Holds, InUse, InCallback
<1>2. ASSUME InUse(h) PROVE \E x \in Holder : Holds(x, h)
  <2>1. CASE h \in registered  BY <2>1, HoldsWhat
  <2>2. CASE Queued(h)  BY <2>2, HoldsWhat
  <2>3. ASSUME NEW w \in Workers, held[w] = h PROVE \E x \in Holder : Holds(x, h)
    BY <2>3, HoldsWhat
  <2>4. ASSUME NEW th \in Threads, dispatch[th].handler = h
        PROVE  \E x \in Holder : Holds(x, h)
    BY <2>4, HoldsWhat
  <2>5. ASSUME NEW th \in Threads, enqueuing[th] = h PROVE \E x \in Holder : Holds(x, h)
    <3>1. h # NoHandler  BY HandlerQueueAssumption
    <3> QED  BY <2>3, <2>4, <2>5, <3>1 DEF EnqueuesHeld
  <2>6. CASE InCallback(h)  BY <2>6, HoldsWhat
  <2> QED  BY <1>2, <2>1, <2>2, <2>3, <2>4, <2>5, <2>6 DEF InUse, InCallback
<1> QED  BY <1>1, <1>2

\* The counts are exact.
LEMMA CountedIsExact == LifeIInv => RefsExact
<1> SUFFICES ASSUME LifeIInv PROVE RefsExact
  OBVIOUS
<1>1. ASSUME NEW h \in Handlers PROVE InUse(h) <=> refs[h] > 0
  <2>1. IsFiniteSet(Holders(h)) /\ refs[h] = Cardinality(Holders(h))
    BY DEF LifeIInv, Counted
  <2>2. Cardinality(Holders(h)) \in Nat /\ (Cardinality(Holders(h)) = 0 <=> Holders(h) = {})
    BY <2>1, FS_CardinalityType, FS_EmptySet
  <2> QED  BY <2>1, <2>2, InUseIsHeld DEF LifeIInv, Holders, UseIsHeld
<1>2. refs \in [Handlers -> Nat]  BY DEF LifeIInv, LifeTypeOK
<1> QED  BY <1>1, <1>2 DEF RefsExact, NoUseAfterFree, NoLeak, LifeIInv

-----------------------------------------------------------------------------
(***************************************************************************)
(* The last release.                                                       *)
(***************************************************************************)

\* x may give its reference on h up: it does not owe the scheduler h any more.
MayRelease(x, h) ==
    /\ Holds(x, h)
    /\ x # <<"queue", NoHandler>>
    /\ \A th \in Threads : x \in {<<"thread", th>>, <<"worker", th>>} => enqueuing[th] = NoHandler
    /\ \A w \in Workers : x = <<"worker", w>> => ~ Owns(w, h)

\* The object that is deleted has no task and is in nobody's hands, so that
\* ~Handler finds nothing to drop.
LEMMA LastRelease ==
  ASSUME LifeIInv, NEW h \in Handlers, NEW x \in Holder, MayRelease(x, h), refs[h] = 1
  PROVE  taskQueue[h] = <<>> /\ inQueue[h] = FALSE
<1>1. \A y \in Holder : Holds(y, h) => y = x
  <2>1. IsFiniteSet(Holders(h)) /\ Cardinality(Holders(h)) = 1
    BY DEF LifeIInv, Counted
  <2>2. PICK z : Holders(h) = {z}  BY <2>1, FS_Singleton
  <2> QED  BY <2>2 DEF Holders, MayRelease
<1>2. ~ Queued(h)  BY <1>1, HoldsWhat DEF MayRelease
<1>3. ASSUME NEW th \in Threads, enqueuing[th] = h PROVE FALSE
  <2>1. h # NoHandler  BY HandlerQueueAssumption
  <2>2. CASE dispatch[th].handler = h
    <3>1. x = <<"thread", th>>  BY <2>2, <1>1, HoldsWhat
    <3> QED  BY <3>1, <2>1, <1>3 DEF MayRelease
  <2>3. CASE th \in Workers /\ held[th] = h
    <3>1. x = <<"worker", th>>  BY <2>3, <1>1, HoldsWhat
    <3> QED  BY <3>1, <2>1, <1>3 DEF MayRelease
  <2> QED  BY <2>1, <2>2, <2>3, <1>3 DEF LifeIInv, EnqueuesHeld
<1>4. ASSUME NEW w \in Workers, Owns(w, h) PROVE FALSE
  <2>1. x = <<"worker", w>>  BY <1>1, <1>4, HoldsWhat DEF Owns
  <2> QED  BY <2>1, <1>4 DEF MayRelease
<1>5. ~ inQueue[h]  BY <1>2, <1>3, <1>4 DEF LifeIInv, IInv, FlagIsToken
<1>6. taskQueue[h] = <<>>  BY <1>5 DEF LifeIInv, IInv, NoStrandedTask
<1> QED  BY <1>5, <1>6 DEF LifeIInv, IInv, TypeOK

\* What a release does: it counts down, and leaves the scheduler's state alone
\* even when it deletes.
LEMMA ReleaseEffect ==
  ASSUME LifeIInv, NEW h \in Handlers, NEW x \in Holder, MayRelease(x, h), Release(h)
  PROVE  /\ refs' = [refs EXCEPT ![h] = @ - 1]
         /\ UNCHANGED <<taskQueue, inQueue>>
<1>1. taskQueue \in [Handlers -> Seq(Tasks)] /\ inQueue \in [Handlers -> BOOLEAN]
  BY DEF LifeIInv, IInv, TypeOK
<1>2. CASE refs[h] = 1
  <2>1. taskQueue[h] = <<>> /\ inQueue[h] = FALSE  BY <1>2, LastRelease
  <2> QED  BY <1>1, <1>2, <2>1 DEF Release
<1>3. CASE refs[h] # 1  BY <1>3 DEF Release
<1> QED  BY <1>2, <1>3

-----------------------------------------------------------------------------
(***************************************************************************)
(* The inductive invariant holds initially.                                *)
(***************************************************************************)

LEMMA InitLifeIInv == LifeInit => LifeIInv
<1> SUFFICES ASSUME LifeInit PROVE LifeIInv
  OBVIOUS
<1> USE HandlerQueueAssumption DEF LifeInit
<1>1. IInv  BY InitIInv
<1>2. \A h \in Handlers : \A th \in Threads : enqueuing[th] # h /\ dispatch[th].handler # h
  BY DEF Init, NoDispatch
<1>3. \A h \in Handlers : ~ InUse(h) /\ \A x \in Holder : ~ Holds(x, h)
  BY <1>2 DEF Init, InUse, Holds, InCallback, Queued, Elem, NotLoading
<1>4. \A h \in Handlers : Counted(h)
  BY <1>3, FS_EmptySet DEF Counted, Holders
<1>5. LifeTypeOK  BY <1>1 DEF IInv, LifeTypeOK, NoDispatch, NotLoading
<1>6. DispatchesOK  BY DEF DispatchesOK, NoDispatch
<1>7. EnqueuesHeld /\ IdleHoldsNothing  BY DEF EnqueuesHeld, IdleHoldsNothing, Init
<1>8. LoaderOK  BY DEF LoaderOK, NotLoading
<1>9. UnbornUnknown  BY <1>3 DEF UnbornUnknown
<1> QED  BY <1>1, <1>4, <1>5, <1>6, <1>7, <1>8, <1>9 DEF LifeIInv

-----------------------------------------------------------------------------
(***************************************************************************)
(* Each action is a step of the scheduler, or invisible to it, and         *)
(* preserves the invariant.                                                *)
(***************************************************************************)

\* No step makes a handler known before it is created.
LEMMA UnbornKept ==
  ASSUME LifeIInv, EnqueuesHeld', unborn' \subseteq unborn,
         \A y \in Holder, g \in unborn' : Holds(y, g)' => Holds(y, g)
  PROVE  UnbornUnknown'
<1>1. EnqueuesHeld' => UseIsHeld'
  BY InUseIsHeld, PTL
<1>2. UseIsHeld
  BY InUseIsHeld DEF LifeIInv
<1>3. unborn \subseteq Handlers  BY DEF LifeIInv, LifeTypeOK
<1> QED  BY <1>1, <1>2, <1>3 DEF LifeIInv, UnbornUnknown, UseIsHeld

\* A task is free when it is in no queue and no worker executes it.
LEMMA FreeMeans ==
  ASSUME NEW t
  PROVE  t \in Free <=> /\ t \in Tasks
                        /\ \A h \in Handlers : ~ Elem(taskQueue[h], t)
                        /\ \A w \in Workers : current[w] # t
BY DEF Free, Elem

\* pop_front, of a queue that may repeat an element
LEMMA TailElements ==
  ASSUME NEW S, NEW q \in Seq(S), q # <<>>
  PROVE  /\ Elem(q, Head(q))
         /\ \A x : Elem(Tail(q), x) => Elem(q, x)
<1>1. /\ Len(q) \in Nat \ {0} /\ DOMAIN q = 1 .. Len(q) /\ Head(q) = q[1]
      /\ DOMAIN Tail(q) = 1 .. Len(q) - 1
      /\ \A i \in 1 .. Len(q) - 1 : Tail(q)[i] = q[i + 1]
  BY HeadTailProperties, LenProperties, EmptySeq
<1>2. Elem(q, Head(q))  BY <1>1 DEF Elem
<1>3. ASSUME NEW x, Elem(Tail(q), x) PROVE Elem(q, x)
  <2> PICK i \in 1 .. Len(q) - 1 : Tail(q)[i] = x  BY <1>1, <1>3 DEF Elem
  <2>1. i + 1 \in DOMAIN q /\ q[i + 1] = x  BY <1>1
  <2> QED  BY <2>1 DEF Elem
<1> QED  BY <1>2, <1>3

LEMMA GetDestinationStep ==
  ASSUME LifeIInv, NEW th \in Threads, NEW h \in Handlers, NEW t \in Tasks,
         GetDestination(th, h, t)
  PROVE  UNCHANGED vars /\ LifeIInv'
<1> USE HandlerQueueAssumption DEF Threads
<1>1. /\ UNCHANGED <<taskQueue, inQueue, runQueue, enqueuing, pc, held, current>>
      /\ UNCHANGED <<registered, unborn, loader>>
      /\ dispatch[th] = NoDispatch /\ h \in registered /\ MayPost(th)
      /\ t \in (Free \ Urgent) \ {dispatch[s].task : s \in Threads}
      /\ dispatch' = [dispatch EXCEPT ![th] = [step |-> "found", handler |-> h, task |-> t]]
      /\ Retain(h)
  BY DEF GetDestination, vars
<1>2. UNCHANGED vars  BY <1>1 DEF vars
<1>3. IInv'  BY <1>2, NextIInv DEF LifeIInv
<1>4. /\ dispatch \in [Threads -> [step : {"none", "found", "posted"},
                                   handler : Handlers \union {NoHandler},
                                   task : Tasks \union {NoTask}]]
      /\ refs \in [Handlers -> Nat]
  BY DEF LifeIInv, LifeTypeOK
<1>5. /\ dispatch'[th].step = "found" /\ dispatch'[th].handler = h /\ dispatch'[th].task = t
      /\ \A s \in Threads : s # th => dispatch'[s] = dispatch[s]
      /\ dispatch[th].handler = NoHandler
  BY <1>1, <1>4 DEF NoDispatch
<1>6. \A y \in Holder, g \in Handlers :
         Holds(y, g)' <=> Holds(y, g) \/ (y = <<"thread", th>> /\ g = h)
  BY <1>1, <1>5 DEF Holds, Queued, InCallback
<1>7. /\ refs' \in [Handlers -> Nat]
      /\ \A g \in Handlers : Counted(g)'
  <2>1. <<"thread", th>> \in Holder /\ ~ Holds(<<"thread", th>>, h)
    BY <1>5, HoldsWhat
  <2> QED  BY <1>1, <1>4, <1>6, <2>1, AddHolder DEF LifeIInv
<1>8. LifeTypeOK'
  BY <1>1, <1>3, <1>4, <1>7 DEF LifeIInv, LifeTypeOK, IInv
<1>9. DispatchesOK'
  <2>1. Free' = Free  BY <1>1 DEF Free
  <2> QED  BY <1>1, <1>5, <2>1 DEF LifeIInv, DispatchesOK, MayPost, NoDispatch
<1>10. EnqueuesHeld'  BY <1>1, <1>5 DEF LifeIInv, EnqueuesHeld, MayPost
<1>11. IdleHoldsNothing'  BY <1>1 DEF LifeIInv, IdleHoldsNothing
<1>12. LoaderOK'  BY <1>1 DEF LifeIInv, LoaderOK
<1>13. UnbornUnknown'
  <2>1. h \notin unborn  BY <1>1 DEF LifeIInv, UnbornUnknown, InUse
  <2> QED  BY <1>1, <1>6, <1>10, <2>1, UnbornKept DEF LifeIInv, LifeTypeOK
<1> QED  BY <1>2, <1>3, <1>7, <1>8, <1>9, <1>10, <1>11, <1>12, <1>13 DEF LifeIInv

LEMMA DispatchTaskStep ==
  ASSUME LifeIInv, NEW th \in Threads, DispatchTask(th)
  PROVE  Next /\ LifeIInv'
<1> USE HandlerQueueAssumption DEF Threads
<1> DEFINE h == dispatch[th].handler
           t == dispatch[th].task
<1>1. /\ dispatch[th].step = "found" /\ AcceptTask(th, h, t)
      /\ dispatch' = [dispatch EXCEPT ![th].step = "posted", ![th].task = NoTask]
      /\ UNCHANGED <<registered, unborn, refs, loader>>
  BY DEF DispatchTask
<1>2. h \in Handlers /\ t \in Free \ Urgent /\ t \in Tasks /\ enqueuing[th] = NoHandler
  BY <1>1 DEF LifeIInv, DispatchesOK, Free
<1>3. /\ MayPost(th)
      /\ taskQueue' = [taskQueue EXCEPT ![h] = Append(@, t)]
      /\ ClaimFlag(th, h)
      /\ UNCHANGED <<runQueue, pc, held, current>>
  BY <1>1 DEF AcceptTask
<1>4. Next  BY <1>1, <1>2 DEF Next
<1>5. IInv'  BY <1>4, NextIInv DEF LifeIInv
<1>6. /\ dispatch \in [Threads -> [step : {"none", "found", "posted"},
                                   handler : Handlers \union {NoHandler},
                                   task : Tasks \union {NoTask}]]
      /\ enqueuing \in [Threads -> Handlers \union {NoHandler}]
      /\ taskQueue \in [Handlers -> Seq(Tasks)]
  BY DEF LifeIInv, LifeTypeOK, IInv, TypeOK
<1>7. /\ dispatch'[th].step = "posted" /\ dispatch'[th].handler = h /\ dispatch'[th].task = NoTask
      /\ \A s \in Threads : s # th => dispatch'[s] = dispatch[s]
      /\ dispatch' \in [Threads -> [step : {"none", "found", "posted"},
                                   handler : Handlers \union {NoHandler},
                                   task : Tasks \union {NoTask}]]
  BY <1>1, <1>6
<1>8. \A s \in Threads : \/ enqueuing'[s] = enqueuing[s]
                         \/ s = th /\ enqueuing'[s] = h
  BY <1>3, <1>6 DEF ClaimFlag
<1>9. \A x \in Free : x # t => x \in Free'
  <2> SUFFICES ASSUME NEW x \in Free, x # t PROVE x \in Free'
    OBVIOUS
  <2>1. /\ x \in Tasks /\ \A w \in Workers : current[w] # x
        /\ \A g \in Handlers : ~ Elem(taskQueue[g], x)
    BY FreeMeans
  <2>2. ~ Elem(taskQueue'[h], x)
    <3>1. taskQueue'[h] = Append(taskQueue[h], t) /\ taskQueue[h] \in Seq(Tasks)
      BY <1>2, <1>3, <1>6
    <3> QED  BY <3>1, <1>2, <2>1, AppendQueue
  <2>3. \A g \in Handlers : g # h => taskQueue'[g] = taskQueue[g]  BY <1>3, <1>6
  <2>4. \A g \in Handlers : ~ Elem(taskQueue'[g], x)  BY <2>1, <2>2, <2>3
  <2> QED  BY <1>3, <2>1, <2>4 DEF Free, Elem
<1> HIDE DEF h, t
<1>10. \A y \in Holder, g \in Handlers : Holds(y, g)' <=> Holds(y, g)
  BY <1>1, <1>3, <1>7 DEF Holds, Queued, InCallback, h
<1>11. \A g \in Handlers : Counted(g)'
  BY <1>1, <1>10, SameHolders DEF LifeIInv
<1>12. LifeTypeOK'
  BY <1>1, <1>5, <1>7 DEF LifeIInv, LifeTypeOK, IInv
<1>13. DispatchesOK'
  <2>1. ASSUME NEW s \in Threads, dispatch'[s].step = "found"
        PROVE  /\ s # th /\ dispatch[s].step = "found" /\ dispatch'[s].task # t
               /\ dispatch'[s] = dispatch[s]
    BY <1>1, <1>7, <2>1 DEF LifeIInv, DispatchesOK, t
  <2>2. ASSUME NEW s \in Threads, dispatch'[s].step = "found"
        PROVE  dispatch'[s].task \in Free' \ Urgent /\ enqueuing'[s] = NoHandler
    BY <1>8, <1>9, <2>1, <2>2 DEF LifeIInv, DispatchesOK
  <2>3. ASSUME NEW s \in Threads
        PROVE  IF dispatch'[s].step = "none"
               THEN dispatch'[s] = NoDispatch
               ELSE dispatch'[s].handler \in Handlers /\ (s \in Workers => pc'[s] = "exec")
    <3>1. CASE s = th  BY <3>1, <1>2, <1>3, <1>7 DEF MayPost
    <3>2. CASE s # th  BY <3>2, <1>3, <1>7 DEF LifeIInv, DispatchesOK
    <3> QED  BY <3>1, <3>2
  <2>4. ASSUME NEW r \in Threads, NEW s \in Threads,
               dispatch'[r].step = "found", dispatch'[s].step = "found",
               dispatch'[r].task = dispatch'[s].task
        PROVE  r = s
    BY <2>1, <2>4 DEF LifeIInv, DispatchesOK
  <2> QED  BY <2>2, <2>3, <2>4 DEF DispatchesOK
<1>14. EnqueuesHeld'
  BY <1>1, <1>3, <1>7, <1>8 DEF LifeIInv, EnqueuesHeld, h
<1>15. IdleHoldsNothing'  BY <1>3 DEF LifeIInv, IdleHoldsNothing
<1>16. LoaderOK'  BY <1>1 DEF LifeIInv, LoaderOK
<1>17. UnbornUnknown'
  BY <1>1, <1>10, <1>14, UnbornKept DEF LifeIInv, LifeTypeOK
<1> QED  BY <1>4, <1>5, <1>11, <1>12, <1>13, <1>14, <1>15, <1>16, <1>17 DEF LifeIInv

\* The frame of a step of worker w, which is not inside a dispatch
LEMMA WorkerFrame ==
  ASSUME LifeIInv, IInv', UNCHANGED lifeVars, NEW w \in Workers,
         dispatch[w].step = "none",
         \A v \in Workers : v # w => pc'[v] = pc[v] /\ held'[v] = held[v],
         \A th \in Threads : th # w => enqueuing'[th] = enqueuing[th],
         Free \subseteq Free',
         enqueuing'[w] # NoHandler => pc'[w] = "release" /\ held'[w] = enqueuing'[w],
         pc'[w] \in {"next", "wait"} => held'[w] = NoHandler,
         \A g \in Handlers : Counted(g)',
         \A y \in Holder, g \in unborn : Holds(y, g)' => Holds(y, g)
  PROVE  LifeIInv'
<1> USE HandlerQueueAssumption DEF Threads
<1>1. UNCHANGED <<registered, unborn, refs, dispatch, loader>>  BY DEF lifeVars
<1>2. LifeTypeOK'  BY <1>1 DEF LifeIInv, LifeTypeOK, IInv
<1>3. DispatchesOK'
  <2>1. \A th \in Threads : dispatch[th].step # "none" => th # w
    OBVIOUS
  <2> QED  BY <1>1, <2>1 DEF LifeIInv, DispatchesOK
<1>4. EnqueuesHeld'
  <2>1. ASSUME NEW th \in Threads, enqueuing'[th] # NoHandler
        PROVE  \/ dispatch'[th].step = "posted" /\ dispatch'[th].handler = enqueuing'[th]
               \/ th \in Workers /\ pc'[th] = "release" /\ held'[th] = enqueuing'[th]
    <3>1. CASE th = w  BY <3>1, <2>1
    <3>2. CASE th # w  BY <3>2, <2>1, <1>1 DEF LifeIInv, EnqueuesHeld
    <3> QED  BY <3>1, <3>2
  <2> QED  BY <2>1 DEF EnqueuesHeld
<1>5. IdleHoldsNothing'  BY DEF LifeIInv, IdleHoldsNothing
<1>6. LoaderOK'  BY <1>1 DEF LifeIInv, LoaderOK
<1>7. UnbornUnknown'  BY <1>1, <1>4, UnbornKept
<1> QED  BY <1>2, <1>3, <1>4, <1>5, <1>6, <1>7 DEF LifeIInv

\* nextHandler: the run queue's reference becomes the worker's.
LEMMA NextHandlerStep ==
  ASSUME LifeIInv, NEW w \in Workers, dispatch[w] = NoDispatch, NextHandler(w),
         UNCHANGED lifeVars
  PROVE  Next /\ LifeIInv'
<1> USE HandlerQueueAssumption DEF Threads
<1>1. Next  BY DEF Next, WorkerStep
<1>2. IInv'  BY <1>1, NextIInv DEF LifeIInv
<1>3. /\ UNCHANGED <<taskQueue, inQueue, enqueuing, current>>
      /\ UNCHANGED <<registered, unborn, refs, dispatch, loader>>
      /\ pc[w] = "next" /\ enqueuing[w] = NoHandler /\ held[w] = NoHandler
      /\ dispatch[w].step = "none"
  BY DEF NextHandler, LifeIInv, IInv, LocalsOK, IdleHoldsNothing, NoDispatch, lifeVars
<1>4. Free' = Free  BY <1>3 DEF Free
<1>5. /\ pc \in [Workers -> {"next", "wait", "task", "exec", "finish", "release"}]
      /\ held \in [Workers -> Handlers \union {NoHandler}]
      /\ runQueue \in Seq(Handlers) /\ NoDup(runQueue)
  BY DEF LifeIInv, IInv, TypeOK, SingleToken
<1>6. CASE runQueue = <<>>
  <2>1. pc' = [pc EXCEPT ![w] = "wait"] /\ UNCHANGED <<runQueue, held>>
    BY <1>6 DEF NextHandler
  <2>2. \A y \in Holder, g \in Handlers : Holds(y, g)' <=> Holds(y, g)
    BY <1>3, <2>1 DEF Holds, Queued, InCallback
  <2>3. \A g \in Handlers : Counted(g)'
    BY <1>3, <2>2, SameHolders DEF LifeIInv
  <2>4. unborn \subseteq Handlers  BY DEF LifeIInv, LifeTypeOK
  <2>5. \A v \in Workers : v # w => pc'[v] = pc[v] /\ held'[v] = held[v]
    BY <2>1, <1>5
  <2>6. pc'[w] = "wait" /\ held'[w] = NoHandler  BY <2>1, <1>3, <1>5
  <2>7. LifeIInv'
    BY <1>2, <1>3, <1>4, <2>2, <2>3, <2>4, <2>5, <2>6, WorkerFrame
  <2> QED  BY <1>1, <2>7
<1>7. CASE runQueue # <<>>
  <2>0. PICK h \in Handlers : h = Head(runQueue)
    BY <1>5, <1>7, TailQueue
  <2>1. /\ pc' = [pc EXCEPT ![w] = "task"]
        /\ held' = [held EXCEPT ![w] = h]
        /\ runQueue' = Tail(runQueue)
    BY <1>7, <2>0 DEF NextHandler
  <2>2. /\ Queued(h)
        /\ \A x : Queued(x)' <=> Queued(x) /\ x # h
    BY <1>5, <1>7, <2>0, <2>1, TailQueue DEF Queued
  <2>3. /\ pc'[w] = "task" /\ held'[w] = h
        /\ \A v \in Workers : v # w => pc'[v] = pc[v] /\ held'[v] = held[v]
    BY <2>1, <1>5
  <2>4. \A y \in Holder, g \in Handlers :
           Holds(y, g)' <=> \/ Holds(y, g) /\ ~ (y = <<"queue", NoHandler>> /\ g = h)
                            \/ y = <<"worker", w>> /\ g = h
    <3> SUFFICES ASSUME NEW y \in Holder, NEW g \in Handlers
                 PROVE  Holds(y, g)' <=> \/ Holds(y, g) /\ ~ (y = <<"queue", NoHandler>> /\ g = h)
                                         \/ y = <<"worker", w>> /\ g = h
      OBVIOUS
    <3>1. \A v \in Workers : held'[v] = g <=> held[v] = g \/ (v = w /\ g = h)
      BY <1>3, <2>3
    <3>2. Queued(g)' <=> Queued(g) /\ g # h  BY <2>2
    <3>3. registered' = registered /\ dispatch' = dispatch /\ (InCallback(g)' <=> InCallback(g))
      BY <1>3 DEF InCallback
    <3>4. CASE g = h
      <4>1. \A v \in Workers : v # w => (held'[v] = h <=> held[v] = h)
        BY <3>1, <3>4
      <4>2. held'[w] = h /\ held[w] # h /\ ~ Queued(h)' /\ Queued(h)
        BY <1>3, <2>2, <2>3
      <4>3. CASE y = <<"queue", NoHandler>>
        BY <3>3, <3>4, <4>2, <4>3 DEF Holds
      <4>4. CASE y = <<"worker", w>>
        BY <3>3, <3>4, <4>2, <4>4 DEF Holds
      <4>5. CASE y # <<"queue", NoHandler>> /\ y # <<"worker", w>>
        BY <3>3, <3>4, <4>1, <4>5 DEF Holds
      <4> QED  BY <4>3, <4>4, <4>5
    <3>5. CASE g # h  BY <3>1, <3>2, <3>3, <3>5 DEF Holds
    <3> QED  BY <3>4, <3>5
  <2>5. \A g \in Handlers : Counted(g)'
    <3>1. /\ <<"queue", NoHandler>> \in Holder /\ <<"worker", w>> \in Holder
          /\ <<"queue", NoHandler>> # <<"worker", w>>
          /\ Holds(<<"queue", NoHandler>>, h)
      BY <2>2, HoldsWhat
    <3>2. ~ Holds(<<"worker", w>>, h)
      <4>1. held[w] # h  BY <1>3, <2>2
      <4> QED  BY <4>1, <2>2, HoldsWhat
    <3>3. (\A g \in Handlers : Counted(g)) /\ UNCHANGED refs  BY <1>3 DEF LifeIInv
    <3> DEFINE x == <<"queue", NoHandler>>
               z == <<"worker", w>>
    <3>4. \A y \in Holder, g \in Handlers :
             Holds(y, g)' <=> (Holds(y, g) /\ ~ (y = x /\ g = h)) \/ (y = z /\ g = h)
      BY <2>4
    <3>5. x \in Holder /\ z \in Holder /\ x # z /\ Holds(x, h) /\ ~ Holds(z, h)
      BY <3>1, <3>2
    <3> HIDE DEF x, z
    <3> QED  BY <2>2, <3>3, <3>4, <3>5, MoveHolder
  <2>6. h \notin unborn /\ unborn \subseteq Handlers
    BY <2>2 DEF LifeIInv, UnbornUnknown, InUse, LifeTypeOK
  <2>7. LifeIInv'
    BY <1>2, <1>3, <1>4, <2>3, <2>4, <2>5, <2>6, WorkerFrame
  <2> QED  BY <1>1, <2>7
<1> QED  BY <1>6, <1>7

\* doTask, the end of a task and the end of doHandler change no holder.
LEMMA OwnerStep ==
  ASSUME LifeIInv, NEW w \in Workers, dispatch[w] = NoDispatch,
         DoTask(w) \/ EndTask(w) \/ FinishHandler(w),
         UNCHANGED lifeVars
  PROVE  Next /\ LifeIInv'
<1> USE HandlerQueueAssumption DEF Threads
<1>1. Next  BY DEF Next, WorkerStep
<1>2. IInv'  BY <1>1, NextIInv DEF LifeIInv
<1>3. /\ UNCHANGED <<registered, unborn, refs, dispatch, loader, held, runQueue>>
      /\ dispatch[w].step = "none"
  BY DEF DoTask, EndTask, FinishHandler, NoDispatch, lifeVars
<1>4. /\ pc \in [Workers -> {"next", "wait", "task", "exec", "finish", "release"}]
      /\ held \in [Workers -> Handlers \union {NoHandler}]
      /\ enqueuing \in [Threads -> Handlers \union {NoHandler}]
      /\ current \in [Workers -> Tasks \union {NoTask}]
      /\ taskQueue \in [Handlers -> Seq(Tasks)]
  BY DEF LifeIInv, IInv, TypeOK
<1>5. \A y \in Holder, g \in Handlers : Holds(y, g)' <=> Holds(y, g)
  BY <1>3 DEF Holds, Queued, InCallback
<1>6. \A g \in Handlers : Counted(g)'
  BY <1>3, <1>5, SameHolders DEF LifeIInv
<1>7. unborn \subseteq Handlers  BY DEF LifeIInv, LifeTypeOK
<1>8. /\ \A v \in Workers : v # w => pc'[v] = pc[v]
      /\ pc'[w] \in {"exec", "finish", "release"}
      /\ \A th \in Threads : th # w => enqueuing'[th] = enqueuing[th]
      /\ enqueuing'[w] # NoHandler => pc'[w] = "release" /\ held'[w] = enqueuing'[w]
  <2>1. CASE DoTask(w)
    BY <2>1, <1>4 DEF DoTask, LifeIInv, IInv, LocalsOK
  <2>2. CASE EndTask(w)
    BY <2>2, <1>4 DEF EndTask
  <2>3. CASE FinishHandler(w)
    BY <2>3, <1>4 DEF FinishHandler
  <2> QED  BY <2>1, <2>2, <2>3
<1>9. Free \subseteq Free'
  <2>1. CASE DoTask(w)
    <3> DEFINE h == held[w]
    <3>1. /\ h \in Handlers /\ taskQueue[h] # <<>>
          /\ current' = [current EXCEPT ![w] = Head(taskQueue[h])]
          /\ taskQueue' = [taskQueue EXCEPT ![h] = Tail(@)]
      BY <2>1 DEF DoTask, LifeIInv, IInv, LocalsOK, NoEmptyTurn
    <3> HIDE DEF h
    <3>2. /\ taskQueue'[h] = Tail(taskQueue[h]) /\ current'[w] = Head(taskQueue[h])
          /\ \A g \in Handlers : g # h => taskQueue'[g] = taskQueue[g]
          /\ \A v \in Workers : v # w => current'[v] = current[v]
      BY <3>1, <1>4
    <3>3. /\ Elem(taskQueue[h], Head(taskQueue[h]))
          /\ \A x : Elem(taskQueue'[h], x) => Elem(taskQueue[h], x)
      <4>1. taskQueue[h] \in Seq(Tasks) /\ taskQueue[h] # <<>>  BY <3>1, <1>4
      <4> QED  BY <4>1, <3>2, TailElements
    <3>4. ASSUME NEW x \in Free PROVE x \in Free'
      <4>1. /\ x \in Tasks /\ \A v \in Workers : current[v] # x
            /\ \A g \in Handlers : ~ Elem(taskQueue[g], x)
        BY FreeMeans
      <4>2. \A g \in Handlers : ~ Elem(taskQueue'[g], x)
        BY <4>1, <3>1, <3>2, <3>3
      <4>3. \A v \in Workers : current'[v] # x
        BY <4>1, <3>1, <3>2, <3>3
      <4> QED  BY <4>1, <4>2, <4>3 DEF Free, Elem
    <3> QED  BY <3>4
  <2>2. CASE EndTask(w)
    <3>1. /\ taskQueue' = taskQueue
          /\ \A v \in Workers : current'[v] \in {current[v], NoTask}
      BY <2>2, <1>4 DEF EndTask
    <3>2. ASSUME NEW x \in Free PROVE x \in Free'
      <4>1. /\ x \in Tasks /\ \A v \in Workers : current[v] # x
            /\ \A g \in Handlers : ~ Elem(taskQueue[g], x)
        BY FreeMeans
      <4> QED  BY <3>1, <4>1 DEF Free, Elem
    <3> QED  BY <3>2
  <2>3. CASE FinishHandler(w)
    BY <2>3 DEF FinishHandler, Free
  <2> QED  BY <2>1, <2>2, <2>3
<1>10. LifeIInv'
  BY <1>2, <1>3, <1>5, <1>6, <1>7, <1>8, <1>9, WorkerFrame
<1> QED  BY <1>1, <1>10

LEMMA SpuriousStep ==
  ASSUME LifeIInv, NEW w \in Workers, SpuriousWakeup(w), UNCHANGED lifeVars
  PROVE  Next /\ LifeIInv'
<1> USE HandlerQueueAssumption DEF Threads
<1>1. Next  BY DEF Next
<1>2. IInv'  BY <1>1, NextIInv DEF LifeIInv
<1>3. /\ UNCHANGED <<taskQueue, inQueue, runQueue, enqueuing, held, current>>
      /\ UNCHANGED <<registered, unborn, refs, dispatch, loader>>
      /\ pc[w] = "wait" /\ pc' = [pc EXCEPT ![w] = "next"] /\ held[w] = NoHandler
      /\ enqueuing[w] = NoHandler /\ dispatch[w].step = "none"
  BY DEF SpuriousWakeup, LifeIInv, IInv, LocalsOK, IdleHoldsNothing, DispatchesOK, lifeVars
<1>4. /\ \A v \in Workers : v # w => pc'[v] = pc[v]
      /\ pc'[w] = "next" /\ unborn \subseteq Handlers
  BY <1>3 DEF LifeIInv, IInv, TypeOK, LifeTypeOK
<1>5. \A y \in Holder, g \in Handlers : Holds(y, g)' <=> Holds(y, g)
  BY <1>3 DEF Holds, Queued, InCallback
<1>6. \A g \in Handlers : Counted(g)'
  BY <1>3, <1>5, SameHolders DEF LifeIInv
<1>7. Free' = Free  BY <1>3 DEF Free
<1>8. LifeIInv'
  BY <1>2, <1>3, <1>4, <1>5, <1>6, <1>7, WorkerFrame
<1> QED  BY <1>1, <1>8

\* acceptHandler: the run queue takes a reference of its own.
LEMMA EnqueueRetainedStep ==
  ASSUME LifeIInv, NEW th \in Threads, EnqueueRetained(th)
  PROVE  Next /\ LifeIInv'
<1> USE HandlerQueueAssumption DEF Threads
<1>1. Next  BY DEF Next, EnqueueRetained
<1>2. IInv'  BY <1>1, NextIInv DEF LifeIInv
<1>3. /\ enqueuing \in [Threads -> Handlers \union {NoHandler}]
      /\ runQueue \in Seq(Handlers) /\ refs \in [Handlers -> Nat]
      /\ unborn \subseteq Handlers
  BY DEF LifeIInv, IInv, TypeOK, LifeTypeOK
<1>4. PICK h \in Handlers : h = enqueuing[th]
  BY <1>3 DEF EnqueueRetained, AcceptHandler
<1>5. /\ runQueue' = Append(runQueue, h)
      /\ enqueuing' = [enqueuing EXCEPT ![th] = NoHandler]
      /\ UNCHANGED <<taskQueue, inQueue, held, current>>
      /\ UNCHANGED <<registered, unborn, dispatch, loader>>
      /\ Signal /\ Retain(h)
  BY <1>4 DEF EnqueueRetained, AcceptHandler
<1>6. \A v \in Workers : pc'[v] = pc[v] \/ (pc[v] = "wait" /\ pc'[v] = "next")
  BY <1>5, SignalEffect DEF LifeIInv, IInv
<1>7. \A x : Queued(x)' <=> Queued(x) \/ x = h
  BY <1>3, <1>5, AppendQueue DEF Queued
<1>8. ~ Queued(h)  BY <1>4 DEF LifeIInv, IInv, SingleToken
<1>9. /\ \A s \in Threads : s # th => enqueuing'[s] = enqueuing[s]
      /\ enqueuing'[th] = NoHandler
  BY <1>3, <1>5
<1>10. \A y \in Holder, g \in Handlers :
          Holds(y, g)' <=> Holds(y, g) \/ (y = <<"queue", NoHandler>> /\ g = h)
  BY <1>5, <1>7 DEF Holds, InCallback
<1>11. refs' \in [Handlers -> Nat] /\ \A g \in Handlers : Counted(g)'
  <2> DEFINE x == <<"queue", NoHandler>>
  <2>1. x \in Holder /\ ~ Holds(x, h)  BY <1>8, HoldsWhat
  <2>2. \A y \in Holder, g \in Handlers : Holds(y, g)' <=> Holds(y, g) \/ (y = x /\ g = h)
    BY <1>10
  <2>3. \A g \in Handlers : Counted(g)  BY DEF LifeIInv
  <2> HIDE DEF x
  <2> QED  BY <1>3, <1>5, <2>1, <2>2, <2>3, AddHolder
<1>12. LifeTypeOK'  BY <1>2, <1>5, <1>11 DEF LifeIInv, LifeTypeOK, IInv
<1>13. DispatchesOK'
  <2>1. Free' = Free  BY <1>5 DEF Free
  <2>2. \A s \in Threads : enqueuing[s] = NoHandler => enqueuing'[s] = NoHandler
    BY <1>9
  <2>3. \A v \in Workers : pc[v] = "exec" => pc'[v] = "exec"
    BY <1>6
  <2> QED  BY <1>5, <2>1, <2>2, <2>3 DEF LifeIInv, DispatchesOK
<1>14. EnqueuesHeld'
  BY <1>5, <1>6, <1>9 DEF LifeIInv, EnqueuesHeld
<1>15. IdleHoldsNothing'
  BY <1>5, <1>6 DEF LifeIInv, IdleHoldsNothing
<1>16. LoaderOK'  BY <1>5 DEF LifeIInv, LoaderOK
<1>17. UnbornUnknown'
  <2>1. h \notin unborn  BY <1>4 DEF LifeIInv, UnbornUnknown, InUse
  <2> QED  BY <1>3, <1>5, <1>10, <1>14, <2>1, UnbornKept
<1> QED  BY <1>1, <1>2, <1>11, <1>12, <1>13, <1>14, <1>15, <1>16, <1>17 DEF LifeIInv

\* The end of a dispatch gives the reference of the lookup up.
LEMMA EndDispatchStep ==
  ASSUME LifeIInv, NEW th \in Threads, EndDispatch(th)
  PROVE  UNCHANGED vars /\ LifeIInv'
<1> USE HandlerQueueAssumption DEF Threads
<1>1. /\ dispatch \in [Threads -> [step : {"none", "found", "posted"},
                                   handler : Handlers \union {NoHandler},
                                   task : Tasks \union {NoTask}]]
      /\ refs \in [Handlers -> Nat] /\ unborn \subseteq Handlers
  BY DEF LifeIInv, LifeTypeOK
<1>2. /\ dispatch[th].step = "posted" /\ enqueuing[th] = NoHandler
      /\ dispatch' = [dispatch EXCEPT ![th] = NoDispatch]
      /\ Release(dispatch[th].handler)
      /\ UNCHANGED <<runQueue, enqueuing, pc, held, current, registered, unborn, loader>>
  BY DEF EndDispatch
<1>3. PICK h \in Handlers : h = dispatch[th].handler
  BY <1>2 DEF LifeIInv, DispatchesOK
<1>4. PICK x \in Holder : x = <<"thread", th>>  BY <1>3, HoldsWhat
<1>5. MayRelease(x, h)
  <2>1. Holds(x, h)  BY <1>3, <1>4, HoldsWhat
  <2> QED  BY <1>2, <1>4, <2>1 DEF MayRelease
<1>6. refs' = [refs EXCEPT ![h] = @ - 1] /\ UNCHANGED <<taskQueue, inQueue>>
  BY <1>2, <1>3, <1>5, ReleaseEffect
<1>7. UNCHANGED vars  BY <1>2, <1>6 DEF vars
<1>8. IInv'  BY <1>7, NextIInv DEF LifeIInv
<1>9. /\ dispatch'[th] = NoDispatch
      /\ \A s \in Threads : s # th => dispatch'[s] = dispatch[s]
      /\ dispatch'[th].handler = NoHandler /\ dispatch'[th].step = "none"
      /\ NoDispatch \in [step : {"none", "found", "posted"},
                         handler : Handlers \union {NoHandler}, task : Tasks \union {NoTask}]
  BY <1>1, <1>2 DEF NoDispatch
<1>10. \A y \in Holder, g \in Handlers : Holds(y, g)' <=> Holds(y, g) /\ ~ (y = x /\ g = h)
  <2> TAKE y \in Holder, g \in Handlers
  <2>1. /\ \A s \in Threads : s # th => (dispatch'[s].handler = g <=> dispatch[s].handler = g)
        /\ dispatch'[th].handler # g
        /\ dispatch[th].handler = g <=> g = h
    BY <1>3, <1>9
  <2>2. registered' = registered /\ held' = held
        /\ (Queued(g)' <=> Queued(g)) /\ (InCallback(g)' <=> InCallback(g))
    BY <1>2 DEF Queued, InCallback
  <2> QED  BY <1>4, <2>1, <2>2 DEF Holds
<1>11. refs' \in [Handlers -> Nat] /\ \A g \in Handlers : Counted(g)'
  <2>1. Holds(x, h) /\ \A g \in Handlers : Counted(g)
    BY <1>5 DEF MayRelease, LifeIInv
  <2> QED  BY <1>1, <1>6, <1>10, <2>1, RemoveHolder
<1>12. LifeTypeOK'  BY <1>1, <1>2, <1>8, <1>9, <1>11 DEF LifeIInv, LifeTypeOK, IInv
<1>13. DispatchesOK'
  <2>1. Free' = Free  BY <1>2, <1>6 DEF Free
  <2> QED  BY <1>2, <1>9, <2>1 DEF LifeIInv, DispatchesOK
<1>14. EnqueuesHeld'  BY <1>2, <1>9 DEF LifeIInv, EnqueuesHeld
<1>15. IdleHoldsNothing'  BY <1>2 DEF LifeIInv, IdleHoldsNothing
<1>16. LoaderOK'  BY <1>2 DEF LifeIInv, LoaderOK
<1>17. UnbornUnknown'  BY <1>1, <1>2, <1>10, <1>14, UnbornKept
<1> QED  BY <1>7, <1>8, <1>11, <1>12, <1>13, <1>14, <1>15, <1>16, <1>17 DEF LifeIInv

\* The worker gives its reference up, and forgets the handler.
LEMMA ReleaseRetainedStep ==
  ASSUME LifeIInv, NEW w \in Workers, ReleaseRetained(w)
  PROVE  Next /\ LifeIInv'
<1> USE HandlerQueueAssumption DEF Threads
<1>1. /\ held \in [Workers -> Handlers \union {NoHandler}]
      /\ pc \in [Workers -> {"next", "wait", "task", "exec", "finish", "release"}]
      /\ refs \in [Handlers -> Nat] /\ unborn \subseteq Handlers
  BY DEF LifeIInv, LifeTypeOK, IInv, TypeOK
<1>2. /\ pc[w] = "release" /\ enqueuing[w] = NoHandler
      /\ pc' = [pc EXCEPT ![w] = "next"]
      /\ held' = [held EXCEPT ![w] = NoHandler]
      /\ Release(held[w])
      /\ UNCHANGED <<runQueue, enqueuing, current, registered, unborn, dispatch, loader>>
  BY DEF ReleaseRetained
<1>3. PICK h \in Handlers : h = held[w]
  BY <1>2 DEF LifeIInv, IInv, LocalsOK
<1>4. PICK x \in Holder : x = <<"worker", w>>  BY <1>3, HoldsWhat
<1>5. MayRelease(x, h)
  <2>1. Holds(x, h)  BY <1>3, <1>4, HoldsWhat
  <2> QED  BY <1>2, <1>4, <2>1 DEF MayRelease, Owns
<1>6. refs' = [refs EXCEPT ![h] = @ - 1] /\ UNCHANGED <<taskQueue, inQueue>>
  BY <1>2, <1>3, <1>5, ReleaseEffect
<1>7. Next
  <2>1. ReleaseHandler(w)  BY <1>2, <1>6 DEF ReleaseHandler
  <2> QED  BY <2>1 DEF Next, WorkerStep
<1>8. IInv'  BY <1>7, NextIInv DEF LifeIInv
<1>9. /\ pc'[w] = "next" /\ held'[w] = NoHandler
      /\ \A v \in Workers : v # w => pc'[v] = pc[v] /\ held'[v] = held[v]
  BY <1>1, <1>2
<1>10. \A y \in Holder, g \in Handlers : Holds(y, g)' <=> Holds(y, g) /\ ~ (y = x /\ g = h)
  <2> TAKE y \in Holder, g \in Handlers
  <2>1. /\ \A v \in Workers : v # w => (held'[v] = g <=> held[v] = g)
        /\ held'[w] # g
        /\ held[w] = g <=> g = h
    BY <1>3, <1>9
  <2>2. registered' = registered /\ dispatch' = dispatch
        /\ (Queued(g)' <=> Queued(g)) /\ (InCallback(g)' <=> InCallback(g))
    BY <1>2 DEF Queued, InCallback
  <2> QED  BY <1>4, <2>1, <2>2 DEF Holds
<1>11. refs' \in [Handlers -> Nat] /\ \A g \in Handlers : Counted(g)'
  <2>1. Holds(x, h) /\ \A g \in Handlers : Counted(g)
    BY <1>5 DEF MayRelease, LifeIInv
  <2> QED  BY <1>1, <1>6, <1>10, <2>1, RemoveHolder
<1>12. LifeTypeOK'  BY <1>2, <1>8, <1>11 DEF LifeIInv, LifeTypeOK, IInv
<1>13. DispatchesOK'
  <2>1. Free' = Free  BY <1>2, <1>6 DEF Free
  <2>2. dispatch[w].step = "none"  BY <1>2 DEF LifeIInv, DispatchesOK
  <2> QED  BY <1>2, <1>9, <2>1, <2>2 DEF LifeIInv, DispatchesOK
<1>14. EnqueuesHeld'  BY <1>2, <1>9 DEF LifeIInv, EnqueuesHeld
<1>15. IdleHoldsNothing'  BY <1>9 DEF LifeIInv, IdleHoldsNothing
<1>16. LoaderOK'  BY <1>2 DEF LifeIInv, LoaderOK
<1>17. UnbornUnknown'  BY <1>1, <1>2, <1>10, <1>14, UnbornKept
<1> QED  BY <1>7, <1>8, <1>11, <1>12, <1>13, <1>14, <1>15, <1>16, <1>17 DEF LifeIInv

\* The frame of a step of Main that leaves the scheduler and the dispatches alone
LEMMA MainFrame ==
  ASSUME LifeIInv, UNCHANGED vars, UNCHANGED dispatch,
         registered' \subseteq Handlers, unborn' \subseteq unborn,
         refs' \in [Handlers -> Nat],
         loader' \in [step : {"idle", "onInitialize", "onDestroy", "remove"},
                      handler : Handlers \union {NoHandler}],
         LoaderOK', \A g \in Handlers : Counted(g)',
         \A y \in Holder, g \in unborn' : Holds(y, g)' => Holds(y, g)
  PROVE  LifeIInv'
<1>1. IInv'  BY NextIInv DEF LifeIInv
<1>2. UNCHANGED <<taskQueue, inQueue, runQueue, enqueuing, pc, held, current>>  BY DEF vars
<1>3. LifeTypeOK'  BY <1>1 DEF LifeIInv, LifeTypeOK, IInv
<1>4. DispatchesOK'
  <2>1. Free' = Free  BY <1>2 DEF Free
  <2> QED  BY <1>2, <2>1 DEF LifeIInv, DispatchesOK
<1>5. EnqueuesHeld'  BY <1>2 DEF LifeIInv, EnqueuesHeld
<1>6. IdleHoldsNothing'  BY <1>2 DEF LifeIInv, IdleHoldsNothing
<1>7. UnbornUnknown'  BY <1>5, UnbornKept
<1> QED  BY <1>1, <1>3, <1>4, <1>5, <1>6, <1>7 DEF LifeIInv

\* createDestination: a handler nobody knows gets the pool's reference and Main's.
LEMMA CreateDestinationStep ==
  ASSUME LifeIInv, NEW h \in Handlers, CreateDestination(h)
  PROVE  UNCHANGED vars /\ LifeIInv'
<1> USE HandlerQueueAssumption DEF Threads
<1>1. /\ loader = NotLoading /\ h \in unborn /\ unborn' = unborn \ {h}
      /\ registered' = registered \union {h}
      /\ refs' = [refs EXCEPT ![h] = 2]
      /\ loader' = [step |-> "onInitialize", handler |-> h]
      /\ UNCHANGED vars /\ UNCHANGED dispatch
  BY DEF CreateDestination
<1>2. UNCHANGED <<taskQueue, inQueue, runQueue, enqueuing, pc, held, current>>
  BY <1>1 DEF vars
<1>3. refs \in [Handlers -> Nat] /\ registered \subseteq Handlers
  BY DEF LifeIInv, LifeTypeOK
<1>4. \A y \in Holder : ~ Holds(y, h)
  <2>1. ~ InUse(h) /\ UseIsHeld
    BY <1>1, InUseIsHeld DEF LifeIInv, UnbornUnknown
  <2> QED  BY <2>1 DEF UseIsHeld
<1> DEFINE p == <<"pool", NoHandler>>
           l == <<"loader", NoHandler>>
<1>5. p \in Holder /\ l \in Holder /\ p # l  BY HoldsWhat
<1>6. ASSUME NEW y \in Holder, NEW g \in Handlers
      PROVE  Holds(y, g)' <=> Holds(y, g) \/ (y \in {p, l} /\ g = h)
  <2>1. /\ (g \in registered)' <=> g \in registered \/ g = h
        /\ InCallback(g)' <=> g = h
        /\ ~ InCallback(g)
        /\ Queued(g)' <=> Queued(g)
    BY <1>1, <1>2 DEF InCallback, NotLoading, Queued
  <2> QED  BY <1>1, <1>2, <2>1 DEF Holds
<1> HIDE DEF p, l
<1>7. refs' \in [Handlers -> Nat] /\ refs'[h] = 2
      /\ \A g \in Handlers : g # h => refs'[g] = refs[g]
  BY <1>1, <1>3
<1>8. ASSUME NEW g \in Handlers PROVE Counted(g)'
  <2>1. CASE g # h
    <3>1. Holders(g)' = Holders(g)  BY <1>6, <2>1 DEF Holders
    <3> QED  BY <3>1, <2>1, <1>7 DEF Counted, LifeIInv
  <2>2. CASE g = h
    <3>1. Holders(h)' = {p, l}  BY <1>4, <1>5, <1>6 DEF Holders
    <3> DEFINE S == {p}
    <3>2. IsFiniteSet(S) /\ Cardinality(S) = 1  BY FS_Singleton
    <3>3. {p, l} = S \union {l} /\ l \notin S  BY <1>5
    <3> HIDE DEF S
    <3>4. IsFiniteSet(S \union {l}) /\ Cardinality(S \union {l}) = 2
      BY <3>2, <3>3, FS_AddElement
    <3> QED  BY <3>1, <3>3, <3>4, <2>2, <1>7 DEF Counted
  <2> QED  BY <2>1, <2>2
<1>9. LoaderOK'  BY <1>1 DEF LoaderOK
<1>10. \A y \in Holder, g \in unborn' : Holds(y, g)' => Holds(y, g)
  <2>1. \A g \in unborn' : g # h /\ g \in Handlers
    BY <1>1 DEF LifeIInv, LifeTypeOK
  <2> QED  BY <2>1, <1>6
<1> QED  BY <1>1, <1>3, <1>7, <1>8, <1>9, <1>10, MainFrame

LEMMA CheckOnDestroyStep ==
  ASSUME LifeIInv, NEW h \in Handlers, CheckOnDestroy(h)
  PROVE  UNCHANGED vars /\ LifeIInv'
<1> USE HandlerQueueAssumption DEF Threads
<1>1. /\ loader = NotLoading /\ h \in registered /\ Retain(h)
      /\ loader' = [step |-> "onDestroy", handler |-> h]
      /\ UNCHANGED vars /\ UNCHANGED <<registered, unborn, dispatch>>
  BY DEF CheckOnDestroy
<1>2. UNCHANGED <<taskQueue, inQueue, runQueue, enqueuing, pc, held, current>>
  BY <1>1 DEF vars
<1>3. /\ refs \in [Handlers -> Nat] /\ registered \subseteq Handlers
      /\ unborn \subseteq Handlers
  BY DEF LifeIInv, LifeTypeOK
<1> DEFINE l == <<"loader", NoHandler>>
<1>4. ASSUME NEW y \in Holder, NEW g \in Handlers
      PROVE  Holds(y, g)' <=> Holds(y, g) \/ (y = l /\ g = h)
  <2>1. /\ InCallback(g)' <=> g = h
        /\ ~ InCallback(g)
        /\ Queued(g)' <=> Queued(g)
    BY <1>1, <1>2 DEF InCallback, NotLoading, Queued
  <2> QED  BY <1>1, <1>2, <2>1 DEF Holds
<1>5. l \in Holder /\ ~ Holds(l, h)
  <2>1. ~ InCallback(h)  BY <1>1 DEF InCallback, NotLoading
  <2> QED  BY <2>1, HoldsWhat
<1> HIDE DEF l
<1>6. refs' \in [Handlers -> Nat] /\ \A g \in Handlers : Counted(g)'
  <2>1. \A g \in Handlers : Counted(g)  BY DEF LifeIInv
  <2> QED  BY <1>1, <1>3, <1>4, <1>5, <2>1, AddHolder
<1>7. LoaderOK'  BY <1>1 DEF LoaderOK
<1>8. h \notin unborn  BY <1>1 DEF LifeIInv, UnbornUnknown, InUse
<1> QED  BY <1>1, <1>3, <1>4, <1>6, <1>7, <1>8, MainFrame

\* onInitialize or onDestroy has returned: Main gives its reference up.
LEMMA EndCallbackStep ==
  ASSUME LifeIInv, EndCallback
  PROVE  UNCHANGED vars /\ LifeIInv'
<1> USE HandlerQueueAssumption DEF Threads
<1>1. /\ loader.step \in {"onInitialize", "onDestroy"}
      /\ loader' = IF loader.step = "onDestroy"
                   THEN [loader EXCEPT !.step = "remove"]
                   ELSE NotLoading
      /\ Release(loader.handler)
      /\ UNCHANGED <<runQueue, enqueuing, pc, held, current, registered, unborn, dispatch>>
  BY DEF EndCallback
<1>2. /\ refs \in [Handlers -> Nat] /\ registered \subseteq Handlers
      /\ unborn \subseteq Handlers
      /\ loader \in [step : {"idle", "onInitialize", "onDestroy", "remove"},
                     handler : Handlers \union {NoHandler}]
  BY DEF LifeIInv, LifeTypeOK
<1>3. PICK h \in registered : h = loader.handler
  BY <1>1 DEF LifeIInv, LoaderOK
<1>4. h \in Handlers  BY <1>2
<1>5. PICK x \in Holder : x = <<"loader", NoHandler>>  BY <1>4, HoldsWhat
<1>6. MayRelease(x, h)
  <2>1. Holds(x, h)  BY <1>1, <1>3, <1>4, <1>5, HoldsWhat DEF InCallback
  <2> QED  BY <1>5, <2>1 DEF MayRelease
<1>7. refs' = [refs EXCEPT ![h] = @ - 1] /\ UNCHANGED <<taskQueue, inQueue>>
  BY <1>1, <1>3, <1>4, <1>6, ReleaseEffect
<1>8. UNCHANGED vars /\ UNCHANGED <<registered, unborn, dispatch>>
  BY <1>1, <1>7 DEF vars
<1>9. /\ loader'.step \in {"idle", "remove"}
      /\ loader' \in [step : {"idle", "onInitialize", "onDestroy", "remove"},
                      handler : Handlers \union {NoHandler}]
      /\ LoaderOK'
  <2>1. CASE loader.step = "onDestroy"
    <3>1. /\ loader' = [loader EXCEPT !.step = "remove"]
      BY <1>1, <2>1
    <3>2. loader'.step = "remove" /\ loader'.handler = h  BY <3>1, <1>2, <1>3
    <3> QED  BY <3>1, <3>2, <1>2, <1>8 DEF LoaderOK
  <2>2. CASE loader.step # "onDestroy"
    BY <2>2, <1>1 DEF LoaderOK, NotLoading
  <2> QED  BY <2>1, <2>2
<1>10. ASSUME NEW y \in Holder, NEW g \in Handlers
       PROVE  Holds(y, g)' <=> Holds(y, g) /\ ~ (y = x /\ g = h)
  <2>1. ~ InCallback(g)' /\ (InCallback(g) <=> g = h)
    BY <1>1, <1>3, <1>9 DEF InCallback
  <2>2. Queued(g)' <=> Queued(g)  BY <1>1 DEF Queued
  <2> QED  BY <1>1, <1>5, <2>1, <2>2 DEF Holds
<1>11. refs' \in [Handlers -> Nat] /\ \A g \in Handlers : Counted(g)'
  <2>1. Holds(x, h) /\ \A g \in Handlers : Counted(g)
    BY <1>6 DEF MayRelease, LifeIInv
  <2> QED  BY <1>2, <1>4, <1>7, <1>10, <2>1, RemoveHolder
<1> QED  BY <1>2, <1>8, <1>9, <1>10, <1>11, MainFrame

\* removeDestination: the pool gives its reference up.
LEMMA RemoveDestinationStep ==
  ASSUME LifeIInv, RemoveDestination
  PROVE  UNCHANGED vars /\ LifeIInv'
<1> USE HandlerQueueAssumption DEF Threads
<1>1. /\ loader.step = "remove"
      /\ registered' = registered \ {loader.handler}
      /\ loader' = NotLoading
      /\ Release(loader.handler)
      /\ UNCHANGED <<runQueue, enqueuing, pc, held, current, unborn, dispatch>>
  BY DEF RemoveDestination
<1>2. /\ refs \in [Handlers -> Nat] /\ registered \subseteq Handlers
      /\ unborn \subseteq Handlers
  BY DEF LifeIInv, LifeTypeOK
<1>3. PICK h \in registered : h = loader.handler
  BY <1>1 DEF LifeIInv, LoaderOK
<1>4. h \in Handlers  BY <1>2
<1>5. PICK x \in Holder : x = <<"pool", NoHandler>>  BY <1>4, HoldsWhat
<1>6. MayRelease(x, h)
  <2>1. Holds(x, h)  BY <1>3, <1>4, <1>5, HoldsWhat
  <2> QED  BY <1>5, <2>1 DEF MayRelease
<1>7. refs' = [refs EXCEPT ![h] = @ - 1] /\ UNCHANGED <<taskQueue, inQueue>>
  BY <1>1, <1>3, <1>4, <1>6, ReleaseEffect
<1>8. UNCHANGED vars /\ UNCHANGED <<unborn, dispatch>>
  BY <1>1, <1>7 DEF vars
<1>9. /\ loader' \in [step : {"idle", "onInitialize", "onDestroy", "remove"},
                      handler : Handlers \union {NoHandler}]
      /\ LoaderOK' /\ registered' \subseteq Handlers
  BY <1>1, <1>2 DEF LoaderOK, NotLoading
<1>10. ASSUME NEW y \in Holder, NEW g \in Handlers
       PROVE  Holds(y, g)' <=> Holds(y, g) /\ ~ (y = x /\ g = h)
  <2>1. ~ InCallback(g)' /\ ~ InCallback(g)
    BY <1>1 DEF InCallback, NotLoading
  <2>2. /\ Queued(g)' <=> Queued(g)
        /\ (g \in registered)' <=> g \in registered /\ g # h
    BY <1>1, <1>3 DEF Queued
  <2>3. g = h => g \in registered  BY <1>3
  <2> QED  BY <1>1, <1>5, <2>1, <2>2, <2>3 DEF Holds
<1>11. refs' \in [Handlers -> Nat] /\ \A g \in Handlers : Counted(g)'
  <2>1. Holds(x, h) /\ \A g \in Handlers : Counted(g)
    BY <1>6 DEF MayRelease, LifeIInv
  <2> QED  BY <1>2, <1>4, <1>7, <1>10, <2>1, RemoveHolder
<1> QED  BY <1>2, <1>8, <1>9, <1>10, <1>11, MainFrame

-----------------------------------------------------------------------------
(***************************************************************************)
(* The theorems.                                                           *)
(***************************************************************************)

LEMMA LifeStep ==
  LifeIInv /\ [LifeNext]_allVars => [Next]_vars /\ LifeIInv'
<1> SUFFICES ASSUME LifeIInv, [LifeNext]_allVars PROVE [Next]_vars /\ LifeIInv'
  OBVIOUS
<1>1. ASSUME NEW w \in Workers, RunWorker(w) PROVE [Next]_vars /\ LifeIInv'
  BY <1>1, NextHandlerStep, OwnerStep DEF RunWorker
<1>2. CASE UNCHANGED allVars
  <2>1. UNCHANGED vars /\ UNCHANGED <<registered, unborn, refs, dispatch, loader>>
    BY <1>2 DEF allVars, lifeVars
  <2>2. \A y \in Holder, g \in Handlers : Holds(y, g)' <=> Holds(y, g)
    BY <2>1 DEF Holds, Queued, InCallback, vars
  <2>3. \A g \in Handlers : Counted(g)'
    BY <2>1, <2>2, SameHolders DEF LifeIInv
  <2>4. LoaderOK'  BY <2>1 DEF LoaderOK, LifeIInv
  <2> QED  BY <2>1, <2>2, <2>3, <2>4, MainFrame DEF LifeIInv, LifeTypeOK
<1> QED
  BY <1>1, <1>2, GetDestinationStep, DispatchTaskStep, EndDispatchStep,
     EnqueueRetainedStep, ReleaseRetainedStep, SpuriousStep, CreateDestinationStep,
     CheckOnDestroyStep, EndCallbackStep, RemoveDestinationStep
  DEF LifeNext

\* Every reference is counted and every count is a reference, for any number of
\* handlers and threads: the inductive invariant of the life of handlers.
THEOREM LifeInductiveInvariant == LifeSpec => []LifeIInv
BY InitLifeIInv, LifeStep, PTL DEF LifeSpec

\* A handler is deleted when the last thread, queue or registry gives it up:
\* never while one can still reach it, and never not at all.
THEOREM ReferencesAreExact == LifeSpec => []RefsExact
BY LifeInductiveInvariant, CountedIsExact, PTL

\* Creation, removal and deletion, at any moment, are invisible in the
\* scheduler: every behaviour is one of HandlerQueue.
THEOREM SchedulerImplemented == LifeSpec => ImplementsScheduler
<1>1. LifeInit => Init  BY DEF LifeInit
<1> QED
  BY <1>1, LifeInductiveInvariant, LifeStep, PTL DEF LifeSpec, ImplementsScheduler, Spec

\* A handler that comes and goes is still a serial mailbox: its tasks run one at a
\* time and in the order of its queue.
THEOREM MailboxOfLivingHandlers == LifeSpec => ImplementsMailbox
BY SchedulerImplemented, MailboxImplemented DEF ImplementsScheduler

\* The release that deletes a handler finds its queue empty: a task accepted
\* before the handler was removed has been executed.
LEMMA DeletedIsEmpty ==
  ASSUME LifeIInv, LifeIInv', LifeNext, NEW h \in Handlers, refs[h] > 0, refs'[h] = 0
  PROVE  taskQueue[h] = <<>>
<1>1. UNCHANGED taskQueue
  <2>1. refs' # refs  OBVIOUS
  <2>2. ASSUME NEW th \in Threads, EndDispatch(th) PROVE UNCHANGED taskQueue
    BY <2>2, EndDispatchStep DEF vars
  <2>3. ASSUME NEW w \in Workers, ReleaseRetained(w) PROVE UNCHANGED taskQueue
    <3>1. /\ pc[w] = "release" /\ enqueuing[w] = NoHandler /\ Release(held[w])
      BY <2>3 DEF ReleaseRetained
    <3>2. PICK g \in Handlers : g = held[w]  BY <3>1 DEF LifeIInv, IInv, LocalsOK
    <3>3. PICK x \in Holder : x = <<"worker", w>>  BY HoldsWhat
    <3>4. MayRelease(x, g)
      <4>1. Holds(x, g)  BY <3>2, <3>3, HoldsWhat
      <4> QED  BY <3>1, <3>3, <4>1, HandlerQueueAssumption DEF MayRelease, Owns
    <3> QED  BY <3>1, <3>2, <3>4, ReleaseEffect
  <2>4. EndCallback => UNCHANGED taskQueue  BY EndCallbackStep DEF vars
  <2>5. RemoveDestination => UNCHANGED taskQueue  BY RemoveDestinationStep DEF vars
  <2>6. ASSUME NEW th \in Threads, EnqueueRetained(th) PROVE UNCHANGED taskQueue
    BY <2>6 DEF EnqueueRetained, AcceptHandler
  <2> QED
    BY <2>1, <2>2, <2>3, <2>4, <2>5, <2>6
    DEF LifeNext, GetDestination, DispatchTask, RunWorker, CreateDestination,
        CheckOnDestroy, lifeVars, vars
<1>2. \A g \in Handlers : InUse(g)' => refs'[g] > 0
  <2>1. RefsExact'  BY CountedIsExact, PTL
  <2> QED  BY <2>1 DEF RefsExact, NoUseAfterFree
<1>3. ~ InUse(h)'  BY <1>2
<1>4. ~ inQueue'[h]
  BY <1>3 DEF LifeIInv, IInv, FlagIsToken, InUse, Owns
<1>5. taskQueue'[h] = <<>>  BY <1>4 DEF LifeIInv, IInv, NoStrandedTask
<1> QED  BY <1>1, <1>5

THEOREM NoTaskIsDropped == LifeSpec => NoTaskDropped
<1>1. LifeIInv /\ LifeIInv' /\ [LifeNext]_allVars =>
        [\A h \in Handlers : refs[h] > 0 /\ refs'[h] = 0 => taskQueue[h] = <<>>]_allVars
  BY DeletedIsEmpty
<1> QED  BY <1>1, LifeInductiveInvariant, PTL DEF LifeSpec, NoTaskDropped
=============================================================================
