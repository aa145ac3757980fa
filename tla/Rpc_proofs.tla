------------------------------ MODULE Rpc_proofs ------------------------------
(***************************************************************************)
(* Proofs about the coroutines, for any number of coroutines, timers,      *)
(* versions and calls: first their callback IDs, then the owners of their  *)
(* timers and the timeouts that are on the way.                            *)
(***************************************************************************)
EXTENDS RpcProps, TLAPS, SequenceTheorems, FiniteSetTheorems

Message == [type : {"timeout", "answer"}, id : 0 .. MaxID]
Answered(q, i) == Contains(q, [type |-> "answer", id |-> i])

\* A suspended coroutine has an ID that has been given out.
IDsOK == \A c \in Suspended : co[c].id \in 1 .. nextID - 1

\* An ID that has not been given out is unknown, to the map as to the calls.
Fresh == \A i \in IDs : i >= nextID => cbMap[i] = Nobody /\ calls[i] = 0 /\ ~ Answered(inbox, i)

IDsInv == IDsOK /\ EntriesOK /\ Fresh /\ SleepUndisturbed

IInv == TypeOK /\ IDsInv

-----------------------------------------------------------------------------
(***************************************************************************)
(* The types of the timers and of their tasks.                             *)
(***************************************************************************)

LEMMA Numbers ==
  /\ MaxTimers \in Nat \ {0}
  /\ Versions \in Nat \ {0}
  /\ MaxStarted \in Nat
  /\ MaxID \in Nat
  /\ MaxCalls \in Nat
BY TimerHandleAssumption, RpcAssumption

\* The handle of a timer is a handle.
LEMMA HandleOfType ==
  ASSUME TimersTypeOK, NEW s \in DOMAIN timers
  PROVE  HandleOf(s) \in Handle /\ s \in 1 .. MaxTimers
<1>1. DOMAIN timers = 1 .. Len(timers) /\ Len(timers) \in Nat
  BY LenProperties DEF TimersTypeOK
<1>2. timers[s] \in [version : 0 .. Versions - 1, id : 0 .. MaxID, armed : BOOLEAN]
  BY <1>1, ElementOfSeq DEF TimersTypeOK
<1>3. s \in 1 .. MaxTimers  BY <1>1, Numbers DEF TimersTypeOK
<1> QED  BY <1>2, <1>3 DEF HandleOf, Handle

\* createTimerHandle returns a handle.
LEMMA CreatedType ==
  ASSUME TimersTypeOK
  PROVE  Created \in Handle
<1>1. CASE idle # <<>>
  <2>1. Len(idle) \in DOMAIN idle
    BY <1>1, EmptySeq, LenProperties DEF TimersTypeOK
  <2>2. Last(idle) \in DOMAIN timers  BY <2>1 DEF TimersTypeOK, Last
  <2> QED  BY <1>1, <2>2, HandleOfType DEF Created
<1>2. CASE idle = <<>> /\ Len(timers) < MaxTimers
  <2>1. Len(timers) \in Nat  BY LenProperties DEF TimersTypeOK
  <2>2. Len(timers) + 1 \in 1 .. MaxTimers /\ 0 \in 0 .. Versions - 1
    BY <1>2, <2>1, Numbers
  <2> QED  BY <1>2, <2>2 DEF Created, Handle
<1>3. CASE idle = <<>> /\ ~ (Len(timers) < MaxTimers)
  BY <1>3 DEF Created, Handle
<1> QED  BY <1>1, <1>2, <1>3

LEMMA TaskTypes ==
  ASSUME NEW handle \in Handle
  PROVE  /\ ChangeTask(handle) \in Task
         /\ RemoveTask(handle) \in Task
         /\ \A id \in IDs : StartTask(handle, id) \in Task
BY DEF Task, ChangeTask, RemoveTask, StartTask

LEMMA PostType ==
  ASSUME tasks \in Seq(Task), NEW new \in Seq(Task), Post(new)
  PROVE  tasks' \in Seq(Task)
BY ConcatProperties DEF Post

\* One task or two
LEMMA PostedTypes ==
  ASSUME NEW t \in Task, NEW more \in Seq(Task)
  PROVE  <<t>> \in Seq(Task) /\ <<t>> \o more \in Seq(Task)
<1>1. <<t>> \in Seq(Task)  OBVIOUS
<1> QED  BY <1>1, ConcatProperties

\* createTimerHandle
LEMMA CreateStep ==
  ASSUME TimersTypeOK, CreateTimerHandle, tasks' \in Seq(Task)
  PROVE  TimersTypeOK'
<1> DEFINE T == [version : 0 .. Versions - 1, id : 0 .. MaxID, armed : BOOLEAN]
<1>1. CASE idle # <<>>
  <2>1. idle' = Front(idle) /\ timers' = timers  BY <1>1 DEF CreateTimerHandle
  <2>2. Len(idle) \in Nat \ {0} /\ DOMAIN idle = 1 .. Len(idle)
    BY <1>1, EmptySeq, LenProperties DEF TimersTypeOK
  <2> DEFINE n == Len(idle)
             q == [i \in 1 .. n - 1 |-> idle[i]]
  <2>3. idle' = q  BY <2>1, <2>2 DEF Front, TimersTypeOK
  <2>4. \A i \in 1 .. n - 1 : i \in 1 .. n /\ q[i] = idle[i]  BY <2>2
  <2>5. \A i \in 1 .. n - 1 : q[i] \in 1 .. MaxTimers
    BY <2>4, ElementOfSeq DEF TimersTypeOK
  <2>6. q \in Seq(1 .. MaxTimers)  BY <2>2, <2>5, SeqDef
  <2>7. \A i \in DOMAIN q : q[i] \in DOMAIN timers
    BY <2>2, <2>4 DEF TimersTypeOK
  <2> QED  BY <2>1, <2>3, <2>6, <2>7 DEF TimersTypeOK
<1>2. CASE idle = <<>> /\ Len(timers) < MaxTimers
  <2>1. idle' = idle /\ timers' = Append(timers, [version |-> 0, id |-> 0, armed |-> FALSE])
    BY <1>2 DEF CreateTimerHandle
  <2>2. [version |-> 0, id |-> 0, armed |-> FALSE] \in T
    BY Numbers
  <2>3. /\ timers' \in Seq(T) /\ Len(timers') = Len(timers) + 1 /\ Len(timers) \in Nat
    BY <2>1, <2>2, AppendProperties, LenProperties DEF TimersTypeOK
  <2>4. DOMAIN idle = {}  BY <1>2
  <2> QED  BY <1>2, <2>1, <2>3, <2>4, Numbers DEF TimersTypeOK
<1>3. CASE idle = <<>> /\ ~ (Len(timers) < MaxTimers)
  BY <1>3 DEF CreateTimerHandle, TimersTypeOK
<1> QED  BY <1>1, <1>2, <1>3

\* scheduleTimeout
LEMMA ScheduleTimeoutStep ==
  ASSUME TimersTypeOK, NEW id \in IDs, NEW handle \in Handle, NEW more \in Seq(Task),
         ScheduleTimeout(id, handle, more)
  PROVE  TimersTypeOK' /\ TimerFor(handle) \in Handle
<1>1. CASE handle # Nil
  <2>1. Post(<<ChangeTask(handle)>> \o more) /\ UNCHANGED <<timers, idle>>
    BY <1>1 DEF ScheduleTimeout
  <2>2. <<ChangeTask(handle)>> \o more \in Seq(Task)  BY TaskTypes, PostedTypes
  <2>3. tasks' \in Seq(Task)  BY <2>1, <2>2, PostType DEF TimersTypeOK
  <2> QED  BY <1>1, <2>1, <2>3 DEF TimersTypeOK, TimerFor
<1>2. CASE handle = Nil
  <2>1. CreateTimerHandle /\ Post(<<StartTask(Created, id)>> \o more)
    BY <1>2 DEF ScheduleTimeout
  <2>2. <<StartTask(Created, id)>> \o more \in Seq(Task)
    BY TaskTypes, PostedTypes, CreatedType
  <2>3. tasks' \in Seq(Task)  BY <2>1, <2>2, PostType DEF TimersTypeOK
  <2> QED  BY <1>2, <2>1, <2>3, CreateStep, CreatedType DEF TimerFor
<1> QED  BY <1>1, <1>2

\* removeTimerHandle: the next version, and the slot goes onto the stack.
LEMMA RemoveTimerStep ==
  ASSUME TimersTypeOK, NEW s \in DOMAIN timers, RemoveTimerHandle(s),
         tasks' \in Seq(Task)
  PROVE  TimersTypeOK'
<1> DEFINE T == [version : 0 .. Versions - 1, id : 0 .. MaxID, armed : BOOLEAN]
           v == (timers[s].version + 1) % Versions
           t == [timers[s] EXCEPT !.armed = FALSE, !.version = v]
<1>1. DOMAIN timers = 1 .. Len(timers) /\ Len(timers) \in Nat
  BY LenProperties DEF TimersTypeOK
<1>2. timers[s] \in T  BY <1>1, ElementOfSeq DEF TimersTypeOK
<1>3. v \in 0 .. Versions - 1  BY <1>2, Numbers
<1>4. t \in T  BY <1>2, <1>3
<1> HIDE DEF v
<1>5. timers' = [timers EXCEPT ![s] = t]  BY DEF RemoveTimerHandle, v
<1> HIDE DEF t
<1>6. timers' \in Seq(T) /\ Len(timers') = Len(timers) /\ DOMAIN timers' = DOMAIN timers
  BY <1>1, <1>4, <1>5, ExceptSeq DEF TimersTypeOK
<1>7. s \in 1 .. MaxTimers  BY HandleOfType
<1>8. /\ idle' \in Seq(1 .. MaxTimers)
      /\ Len(idle') = Len(idle) + 1
      /\ \A i \in 1 .. Len(idle) : idle'[i] = idle[i]
      /\ idle'[Len(idle) + 1] = s
  BY <1>7, AppendProperties DEF RemoveTimerHandle, TimersTypeOK
<1>9. \A i \in DOMAIN idle' : idle'[i] \in DOMAIN timers
  <2>1. Len(idle) \in Nat /\ DOMAIN idle = 1 .. Len(idle)
    BY LenProperties DEF TimersTypeOK
  <2>2. DOMAIN idle' = 1 .. Len(idle) + 1  BY <1>8, LenProperties
  <2>3. \A i \in 1 .. Len(idle) + 1 : i \in 1 .. Len(idle) \/ i = Len(idle) + 1
    BY <2>1
  <2>4. \A i \in 1 .. Len(idle) : idle[i] \in DOMAIN timers
    BY <2>1 DEF TimersTypeOK
  <2> QED  BY <2>2, <2>3, <2>4, <1>8
<1> QED  BY <1>6, <1>8, <1>9 DEF TimersTypeOK

\* doActiveTask
LEMMA TimerTaskStep ==
  ASSUME TimersTypeOK, DoTimerTask
  PROVE  TimersTypeOK'
<1> DEFINE T == [version : 0 .. Versions - 1, id : 0 .. MaxID, armed : BOOLEAN]
           task == Head(tasks)
           s == task.handle[1]
<1>1. tasks' \in Seq(Task) /\ task \in Task
  BY HeadTailProperties DEF DoTimerTask, TimersTypeOK
<1>2. CASE UNCHANGED <<timers, idle>>
  BY <1>1, <1>2 DEF TimersTypeOK
<1>3. CASE /\ Current(task.handle)
           /\ \/ timers' = [timers EXCEPT ![s].id = task.id, ![s].armed = TRUE] /\ task.op = "start"
              \/ timers' = [timers EXCEPT ![s].armed = TRUE]
           /\ UNCHANGED idle
  <2>1. DOMAIN timers = 1 .. Len(timers) /\ Len(timers) \in Nat
    BY LenProperties DEF TimersTypeOK
  <2>2. s \in DOMAIN timers  BY <1>3 DEF Current
  <2>3. timers[s] \in T  BY <2>1, <2>2, ElementOfSeq DEF TimersTypeOK
  <2>4. PICK t \in T : timers' = [timers EXCEPT ![s] = t]
    <3>1. CASE timers' = [timers EXCEPT ![s].id = task.id, ![s].armed = TRUE] /\ task.op = "start"
      <4>1. task.id \in 0 .. MaxID  BY <3>1, <1>1, Numbers DEF Task, IDs
      <4>2. [timers[s] EXCEPT !.id = task.id, !.armed = TRUE] \in T  BY <2>3, <4>1
      <4> QED  BY <3>1, <4>2
    <3>2. CASE timers' = [timers EXCEPT ![s].armed = TRUE]
      <4>1. [timers[s] EXCEPT !.armed = TRUE] \in T  BY <2>3
      <4> QED  BY <3>2, <4>1
    <3> QED  BY <1>3, <3>1, <3>2
  <2>5. timers' \in Seq(T) /\ Len(timers') = Len(timers) /\ DOMAIN timers' = DOMAIN timers
    BY <2>1, <2>2, <2>4, ExceptSeq DEF TimersTypeOK
  <2> QED  BY <1>1, <1>3, <2>5 DEF TimersTypeOK
<1>4. CASE Current(task.handle) /\ RemoveTimerHandle(s)
  BY <1>1, <1>4, RemoveTimerStep DEF Current
<1> QED  BY <1>2, <1>3, <1>4 DEF DoTimerTask

-----------------------------------------------------------------------------
(***************************************************************************)
(* The coroutines.                                                         *)
(***************************************************************************)

CoroutineType == [status : {"new", "waiting", "asleep", "dead"}, loop : BOOLEAN,
                  id : 0 .. MaxID, timer : Handle, stray : BOOLEAN]

\* Before its start and after its end
LEMMA CoroutineTypes ==
  NotStarted \in CoroutineType /\ Dead \in CoroutineType /\ Dead.status = "dead"
<1>1. Nil \in Handle /\ 0 \in 0 .. MaxID  BY Numbers DEF Handle
<1>2. NotStarted \in CoroutineType  BY <1>1 DEF NotStarted, CoroutineType
<1>3. Dead \in CoroutineType /\ Dead.status = "dead"
  BY <1>1 DEF Dead, NotStarted, CoroutineType
<1> QED  BY <1>2, <1>3

\* No answer comes into the mailbox.
NoNewAnswer ==
  /\ inbox' \in Seq(Message)
  /\ \A i \in IDs : Answered(inbox', i) => Answered(inbox, i)

\* The entry that an ID leads to is a suspended coroutine, the only one with it.
LEMMA EntryOf ==
  ASSUME IInv, NEW i \in IDs, cbMap[i] # Nobody
  PROVE  /\ cbMap[i] \in Suspended
         /\ co[cbMap[i]].id = i
         /\ \A d \in Suspended : co[d].id = i => d = cbMap[i]
BY DEF IInv, IDsInv, EntriesOK, TypeOK, Suspended

\* A coroutine d that a step does not touch stays what it is.
LEMMA OneCoroutine ==
  ASSUME IInv, NEW c \in Coroutines, NEW r \in CoroutineType,
         co' = [co EXCEPT ![c] = r]
  PROVE  /\ co' \in [Coroutines -> CoroutineType]
         /\ co'[c] = r
         /\ \A d \in Coroutines : d # c => co'[d] = co[d]
         /\ \A d \in Coroutines : d \in Suspended' <=>
               IF d = c THEN r.status \in {"waiting", "asleep"} ELSE d \in Suspended
BY DEF IInv, TypeOK, Suspended, CoroutineType

\* Coroutine c has made a call with its ID i, the one it had or a new one.
LEMMA CallKeeps ==
  ASSUME IInv, NoNewAnswer, NEW c \in Coroutines, NEW r \in CoroutineType,
         r.status = "waiting", r.id \in IDs, r.id < nextID', nextID' >= nextID,
         nextID' \in 1 .. MaxID + 1,
         co' = [co EXCEPT ![c] = r],
         calls' = [calls EXCEPT ![r.id] = @ + 1],
         cbMap' = [cbMap EXCEPT ![r.id] = c],
         \/ c \in Suspended /\ co[c].id = r.id
         \/ c \notin Suspended /\ r.id >= nextID
  PROVE  IDsInv'
<1>1. /\ \A d \in Coroutines : d # c => co'[d] = co[d]
      /\ co'[c] = r
      /\ \A d \in Coroutines : d \in Suspended' <=> d = c \/ d \in Suspended
  BY OneCoroutine
<1>2. /\ cbMap \in [IDs -> Coroutines \union {Nobody}]
      /\ calls \in [IDs -> Nat]
      /\ nextID \in 1 .. MaxID + 1 /\ MaxID \in Nat
      /\ IDs = 1 .. MaxID /\ Suspended \subseteq Coroutines
      /\ Suspended' \subseteq Coroutines
  BY Numbers DEF IInv, TypeOK, IDs, Suspended
<1>3. \A d \in Suspended : d # c => co[d].id # r.id /\ co[d].id \in 1 .. nextID - 1
  BY <1>2 DEF IInv, IDsInv, IDsOK, EntriesOK
<1>4. IDsOK'
  BY <1>1, <1>2, <1>3 DEF IDsOK
<1>5. EntriesOK'
  <2> SUFFICES ASSUME NEW i \in IDs, NEW d \in Coroutines
               PROVE  cbMap'[i] = d <=> d \in Suspended' /\ co'[d].id = i
    BY DEF EntriesOK
  <2>1. cbMap[i] = d <=> d \in Suspended /\ co[d].id = i
    BY DEF IInv, IDsInv, EntriesOK
  <2>2. CASE i = r.id  BY <2>1, <2>2, <1>1, <1>2, <1>3
  <2>3. CASE i # r.id  BY <2>1, <2>3, <1>1, <1>2
  <2> QED  BY <2>2, <2>3
<1>6. Fresh'
  <2> SUFFICES ASSUME NEW i \in IDs, i >= nextID'
               PROVE  cbMap'[i] = Nobody /\ calls'[i] = 0 /\ ~ Answered(inbox', i)
    BY DEF Fresh
  <2>1. i >= nextID /\ i # r.id  BY <1>2
  <2> QED  BY <2>1, <1>2 DEF IInv, IDsInv, Fresh, NoNewAnswer
<1>7. SleepUndisturbed'
  <2> SUFFICES ASSUME NEW d \in Coroutines, co'[d].status = "asleep"
               PROVE  calls'[co'[d].id] = 0 /\ ~ Answered(inbox', co'[d].id)
    BY DEF SleepUndisturbed, Answered
  <2>1. d # c /\ co'[d] = co[d]  BY <1>1
  <2>2. d \in Suspended /\ co[d].status = "asleep"  BY <2>1 DEF Suspended
  <2>3. co[d].id \in IDs /\ co[d].id # r.id  BY <2>1, <2>2, <1>2, <1>3
  <2>4. calls[co[d].id] = 0 /\ ~ Answered(inbox, co[d].id)
    BY <2>2 DEF IInv, IDsInv, SleepUndisturbed, Answered
  <2> QED  BY <2>1, <2>3, <2>4, <1>2 DEF NoNewAnswer
<1> QED  BY <1>4, <1>5, <1>6, <1>7 DEF IDsInv

\* Coroutine c has gone to sleep with the next ID, and what it had in the map is
\* removed.
LEMMA SleepKeeps ==
  ASSUME IInv, NoNewAnswer, NEW c \in Coroutines, NEW r \in CoroutineType,
         r.status = "asleep", r.id = nextID, nextID <= MaxID, nextID' = nextID + 1,
         co' = [co EXCEPT ![c] = r],
         calls' = calls,
         cbMap' = [i \in IDs |-> IF i = nextID THEN c
                                 ELSE IF cbMap[i] = c THEN Nobody ELSE cbMap[i]]
  PROVE  IDsInv'
<1>1. /\ \A d \in Coroutines : d # c => co'[d] = co[d]
      /\ co'[c] = r
      /\ \A d \in Coroutines : d \in Suspended' <=> d = c \/ d \in Suspended
  BY OneCoroutine
<1>2. /\ cbMap \in [IDs -> Coroutines \union {Nobody}]
      /\ calls \in [IDs -> Nat]
      /\ nextID \in 1 .. MaxID + 1 /\ MaxID \in Nat /\ nextID \in IDs
      /\ IDs = 1 .. MaxID /\ Suspended \subseteq Coroutines
      /\ Suspended' \subseteq Coroutines
      /\ Nobody \notin Coroutines
  BY Numbers DEF IInv, TypeOK, IDs, Suspended, Nobody, Coroutines
<1>3. \A d \in Suspended : co[d].id \in 1 .. nextID - 1
  BY DEF IInv, IDsInv, IDsOK
<1>4. IDsOK'
  BY <1>1, <1>2, <1>3 DEF IDsOK
<1>5. EntriesOK'
  <2> SUFFICES ASSUME NEW i \in IDs, NEW d \in Coroutines
               PROVE  cbMap'[i] = d <=> d \in Suspended' /\ co'[d].id = i
    BY DEF EntriesOK
  <2>1. cbMap[i] = d <=> d \in Suspended /\ co[d].id = i
    BY DEF IInv, IDsInv, EntriesOK
  <2>2. CASE i = nextID
    <3>1. cbMap'[i] = c /\ co'[c].id = i  BY <2>2, <1>1
    <3>2. d # c => ~ (d \in Suspended' /\ co'[d].id = i)
      BY <2>2, <1>1, <1>2, <1>3
    <3>3. c \in Suspended'  BY <1>1
    <3> QED  BY <3>1, <3>2, <3>3
  <2>3. CASE i # nextID /\ d = c
    BY <2>3, <1>1, <1>2
  <2>4. CASE i # nextID /\ d # c
    <3>1. cbMap'[i] = d <=> cbMap[i] = d  BY <2>4, <1>2
    <3> QED  BY <3>1, <2>1, <2>4, <1>1
  <2> QED  BY <2>2, <2>3, <2>4
<1>6. Fresh'
  <2> SUFFICES ASSUME NEW i \in IDs, i >= nextID'
               PROVE  cbMap'[i] = Nobody /\ calls'[i] = 0 /\ ~ Answered(inbox', i)
    BY DEF Fresh
  <2>1. i >= nextID /\ i # nextID  BY <1>2
  <2> QED  BY <2>1, <1>2 DEF IInv, IDsInv, Fresh, NoNewAnswer
<1>7. SleepUndisturbed'
  <2> SUFFICES ASSUME NEW d \in Coroutines, co'[d].status = "asleep"
               PROVE  calls'[co'[d].id] = 0 /\ ~ Answered(inbox', co'[d].id)
    BY DEF SleepUndisturbed, Answered
  <2>1. CASE d = c
    <3>1. co'[d].id = nextID  BY <2>1, <1>1
    <3>2. calls[nextID] = 0 /\ ~ Answered(inbox, nextID)
      BY <1>2 DEF IInv, IDsInv, Fresh
    <3> QED  BY <3>1, <3>2, <1>2 DEF NoNewAnswer
  <2>2. CASE d # c
    <3>1. co'[d] = co[d]  BY <2>2, <1>1
    <3>2. d \in Suspended /\ co[d].status = "asleep"  BY <3>1 DEF Suspended
    <3>3. co[d].id \in IDs  BY <3>2, <1>2, <1>3
    <3>4. calls[co[d].id] = 0 /\ ~ Answered(inbox, co[d].id)
      BY <3>2 DEF IInv, IDsInv, SleepUndisturbed, Answered
    <3> QED  BY <3>1, <3>3, <3>4 DEF NoNewAnswer
  <2> QED  BY <2>1, <2>2
<1> QED  BY <1>4, <1>5, <1>6, <1>7 DEF IDsInv

\* Coroutine c is dead, and what it had in the map is removed.
LEMMA DeathKeeps ==
  ASSUME IInv, NoNewAnswer, NEW c \in Coroutines,
         co' = [co EXCEPT ![c] = Dead],
         UNCHANGED <<calls, nextID>>,
         cbMap' = [i \in IDs |-> IF cbMap[i] = c THEN Nobody ELSE cbMap[i]]
  PROVE  IDsInv'
<1>1. Dead \in CoroutineType /\ Dead.status = "dead"  BY CoroutineTypes
<1>2. /\ \A d \in Coroutines : d # c => co'[d] = co[d]
      /\ co'[c] = Dead
      /\ \A d \in Coroutines : d \in Suspended' <=> d # c /\ d \in Suspended
  BY <1>1, OneCoroutine
<1>3. /\ cbMap \in [IDs -> Coroutines \union {Nobody}]
      /\ nextID \in 1 .. MaxID + 1 /\ MaxID \in Nat
      /\ IDs = 1 .. MaxID /\ Suspended \subseteq Coroutines
      /\ Suspended' \subseteq Coroutines
      /\ Nobody \notin Coroutines
  BY Numbers DEF IInv, TypeOK, IDs, Suspended, Nobody, Coroutines
<1>4. IDsOK'
  BY <1>2, <1>3 DEF IDsOK, IInv, IDsInv
<1>5. EntriesOK'
  <2> SUFFICES ASSUME NEW i \in IDs, NEW d \in Coroutines
               PROVE  cbMap'[i] = d <=> d \in Suspended' /\ co'[d].id = i
    BY DEF EntriesOK
  <2>1. cbMap[i] = d <=> d \in Suspended /\ co[d].id = i
    BY DEF IInv, IDsInv, EntriesOK
  <2>2. cbMap'[i] = d <=> d # c /\ cbMap[i] = d  BY <1>3
  <2> QED  BY <2>1, <2>2, <1>2
<1>6. Fresh'
  <2> SUFFICES ASSUME NEW i \in IDs, i >= nextID
               PROVE  cbMap'[i] = Nobody /\ calls'[i] = 0 /\ ~ Answered(inbox', i)
    BY DEF Fresh
  <2>1. cbMap[i] = Nobody /\ calls[i] = 0 /\ ~ Answered(inbox, i)
    BY DEF IInv, IDsInv, Fresh
  <2> QED  BY <2>1 DEF NoNewAnswer
<1>7. SleepUndisturbed'
  <2> SUFFICES ASSUME NEW d \in Coroutines, co'[d].status = "asleep"
               PROVE  calls'[co'[d].id] = 0 /\ ~ Answered(inbox', co'[d].id)
    BY DEF SleepUndisturbed, Answered
  <2>1. d # c /\ co'[d] = co[d]  BY <1>1, <1>2
  <2>2. d \in Suspended /\ co[d].status = "asleep"  BY <2>1 DEF Suspended
  <2>3. co[d].id \in IDs  BY <2>2, <1>3 DEF IInv, IDsInv, IDsOK
  <2>4. calls[co[d].id] = 0 /\ ~ Answered(inbox, co[d].id)
    BY <2>2 DEF IInv, IDsInv, SleepUndisturbed, Answered
  <2> QED  BY <2>1, <2>3, <2>4 DEF NoNewAnswer
<1> QED  BY <1>4, <1>5, <1>6, <1>7 DEF IDsInv

\* Suspend: the new coInfo has a handle and the timers their types.
LEMMA SuspendStep ==
  ASSUME IInv, NEW c \in Coroutines, NEW wait \in {"waiting", "asleep"}, NEW id \in IDs,
         NEW handle \in Handle, NEW info \in CoroutineType,
         Suspend(c, wait, id, handle, info)
  PROVE  /\ TimersTypeOK'
         /\ \E r \in CoroutineType :
              r.status = wait /\ r.id = id /\ co' = [co EXCEPT ![c] = r]
<1>1. ScheduleTimeout(id, handle, <<>>) /\ <<>> \in Seq(Task)
  BY DEF Suspend
<1>2. TimersTypeOK' /\ TimerFor(handle) \in Handle
  BY <1>1, ScheduleTimeoutStep DEF IInv, TypeOK
<1> DEFINE r == [info EXCEPT !.status = wait, !.id = id, !.timer = TimerFor(handle)]
<1>3. id \in 0 .. MaxID  BY Numbers DEF IDs
<1>4. r \in CoroutineType /\ r.status = wait /\ r.id = id
  BY <1>2, <1>3 DEF CoroutineType
<1>5. co' = [co EXCEPT ![c] = r]  BY DEF Suspend
<1> QED  BY <1>2, <1>4, <1>5

\* resumeCoroutine, by a task of the mailbox
LEMMA ResumeStep ==
  ASSUME IInv, NoNewAnswer, UNCHANGED handler, NEW c \in Suspended,
         NEW handle \in Handle, Resume(c, handle)
  PROVE  IInv'
<1>1. /\ c \in Coroutines /\ co[c] \in CoroutineType
      /\ co[c].id \in IDs /\ co[c].id < nextID /\ cbMap[co[c].id] = c
      /\ nextID \in 1 .. MaxID + 1 /\ MaxID \in Nat /\ MaxCalls \in Nat
      /\ cbMap \in [IDs -> Coroutines \union {Nobody}]
      /\ \A i \in IDs : cbMap[i] = c <=> i = co[c].id
  BY Numbers DEF IInv, IDsInv, IDsOK, EntriesOK, TypeOK, Suspended, CoroutineType, IDs
<1>2. CASE Call(c, co[c], handle) /\ UNCHANGED <<cbMap, nextID>>
  <2> DEFINE info == co[c]
  <2>1. /\ made < MaxCalls /\ made' = made + 1
        /\ calls' = [calls EXCEPT ![info.id] = @ + 1]
        /\ Suspend(c, "waiting", info.id, handle, info)
    BY <1>2 DEF Call
  <2>2. PICK r \in CoroutineType :
          r.status = "waiting" /\ r.id = info.id /\ co' = [co EXCEPT ![c] = r]
    BY <2>1, <1>1, SuspendStep
  <2>3. TimersTypeOK'  BY <2>1, <1>1, SuspendStep
  <2>4. calls' = [calls EXCEPT ![r.id] = @ + 1] /\ cbMap' = [cbMap EXCEPT ![r.id] = c]
    BY <2>1, <2>2, <1>1, <1>2
  <2>5. IDsInv'
    <3>1. /\ r.status = "waiting" /\ r.id \in IDs /\ r.id < nextID' /\ nextID' >= nextID
          /\ nextID' \in 1 .. MaxID + 1
          /\ c \in Suspended /\ co[c].id = r.id
      BY <2>2, <1>1, <1>2
    <3> QED  BY <3>1, <2>2, <2>4, <1>1, CallKeeps
  <2>6. co' \in [Coroutines -> CoroutineType]  BY <2>2, <1>1, OneCoroutine
  <2>7. calls' \in [IDs -> Nat] /\ made' \in 0 .. MaxCalls
    BY <2>1, <1>1 DEF IInv, TypeOK
  <2>8. TypeOK'
    BY <2>3, <2>6, <2>7, <1>2 DEF IInv, TypeOK, CoroutineType, NoNewAnswer, Message
  <2> QED  BY <2>5, <2>8 DEF IInv
<1>3. CASE Iterate(c, co[c], handle)
  <2> DEFINE info == [co[c] EXCEPT !.stray = @ \/ handle # Nil]
  <2>1. /\ nextID <= MaxID /\ nextID' = nextID + 1
        /\ cbMap' = [cbMap EXCEPT ![co[c].id] = Nobody, ![nextID] = c]
        /\ Suspend(c, "asleep", nextID, handle, info)
        /\ UNCHANGED <<made, calls>>
    BY <1>3 DEF Iterate
  <2>2. info \in CoroutineType /\ nextID \in IDs
    <3>1. nextID \in IDs  BY <2>1, <1>1 DEF IDs
    <3>2. (co[c].stray \/ handle # Nil) \in BOOLEAN  OBVIOUS
    <3>3. info \in CoroutineType  BY <3>2, <1>1 DEF CoroutineType
    <3> QED  BY <3>1, <3>3
  <2>3. PICK r \in CoroutineType :
          r.status = "asleep" /\ r.id = nextID /\ co' = [co EXCEPT ![c] = r]
    BY <2>1, <2>2, <1>1, SuspendStep
  <2>4. TimersTypeOK'  BY <2>1, <2>2, <1>1, SuspendStep
  <2>5. cbMap' = [i \in IDs |-> IF i = nextID THEN c
                                ELSE IF cbMap[i] = c THEN Nobody ELSE cbMap[i]]
    BY <2>1, <2>2, <1>1
  <2>6. IDsInv'
    BY <2>1, <2>3, <2>5, <1>1, SleepKeeps
  <2>7. co' \in [Coroutines -> CoroutineType]  BY <2>3, <1>1, OneCoroutine
  <2>8. cbMap' \in [IDs -> Coroutines \union {Nobody}] /\ nextID' \in 1 .. MaxID + 1
    <3>1. cbMap' \in [IDs -> Coroutines \union {Nobody}]  BY <2>5, <1>1
    <3>2. nextID' \in 1 .. MaxID + 1
      <4> HIDE DEF info
      <4> QED  BY <2>1, <1>1
    <3> QED  BY <3>1, <3>2
  <2>9. TypeOK'
    BY <2>1, <2>4, <2>7, <2>8 DEF IInv, TypeOK, CoroutineType, NoNewAnswer, Message
  <2> QED  BY <2>6, <2>9 DEF IInv
<1>4. CASE Finish(c, co[c], handle)
  <2>1. /\ cbMap' = [cbMap EXCEPT ![co[c].id] = Nobody]
        /\ co' = [co EXCEPT ![c] = Dead]
        /\ Post(IF handle # Nil THEN <<RemoveTask(handle)>> ELSE <<>>)
        /\ UNCHANGED <<timers, idle, nextID, made, calls>>
    BY <1>4 DEF Finish
  <2>2. cbMap' = [i \in IDs |-> IF cbMap[i] = c THEN Nobody ELSE cbMap[i]]
    BY <2>1, <1>1
  <2>3. IDsInv'  BY <2>1, <2>2, <1>1, DeathKeeps
  <2>4. (IF handle # Nil THEN <<RemoveTask(handle)>> ELSE <<>>) \in Seq(Task)
    <3>1. RemoveTask(handle) \in Task  BY TaskTypes
    <3>2. <<RemoveTask(handle)>> \in Seq(Task) /\ <<>> \in Seq(Task)  BY <3>1
    <3> QED  BY <3>2
  <2>5. TimersTypeOK'
    BY <2>1, <2>4, PostType DEF IInv, TypeOK, TimersTypeOK
  <2>6. Dead \in CoroutineType  BY CoroutineTypes
  <2>7. co' \in [Coroutines -> CoroutineType]  BY <2>1, <2>6, <1>1, OneCoroutine
  <2>8. cbMap' \in [IDs -> Coroutines \union {Nobody}]  BY <2>2, <1>1
  <2>9. TypeOK'
    BY <2>1, <2>5, <2>7, <2>8 DEF IInv, TypeOK, CoroutineType, NoNewAnswer, Message
  <2> QED  BY <2>3, <2>9 DEF IInv
<1> QED  BY <1>2, <1>3, <1>4 DEF Resume

\* registerCoroutine
LEMMA RegisterStep ==
  ASSUME IInv, NEW c \in Coroutines, Register(c)
  PROVE  /\ c \notin Suspended
         /\ nextID \in IDs /\ nextID \in 1 .. MaxID + 1 /\ nextID <= MaxID
         /\ nextID' = nextID + 1 /\ nextID' \in 1 .. MaxID + 1
         /\ [NotStarted EXCEPT !.id = nextID] \in CoroutineType
         /\ cbMap' = [cbMap EXCEPT ![nextID] = c]
         /\ cbMap' = [i \in IDs |-> IF i = nextID THEN c
                                    ELSE IF cbMap[i] = c THEN Nobody ELSE cbMap[i]]
         /\ cbMap' \in [IDs -> Coroutines \union {Nobody}]
<1>1. /\ co[c].status = "new" /\ nextID <= MaxID
      /\ cbMap' = [cbMap EXCEPT ![nextID] = c] /\ nextID' = nextID + 1
      /\ nextID \in 1 .. MaxID + 1 /\ MaxID \in Nat
      /\ cbMap \in [IDs -> Coroutines \union {Nobody}]
  BY Numbers DEF Register, IInv, TypeOK
<1>2. c \notin Suspended  BY <1>1 DEF Suspended
<1>3. nextID \in IDs /\ nextID' \in 1 .. MaxID + 1 /\ nextID \in 0 .. MaxID
  BY <1>1 DEF IDs
<1>4. \A i \in IDs : cbMap[i] # c  BY <1>2 DEF IInv, IDsInv, EntriesOK
<1>5. [NotStarted EXCEPT !.id = nextID] \in CoroutineType
  BY <1>3, CoroutineTypes DEF CoroutineType
<1> QED  BY <1>1, <1>2, <1>3, <1>4, <1>5

LEMMA SameMailbox ==
  ASSUME IInv, inbox' = inbox
  PROVE  NoNewAnswer
BY DEF IInv, TypeOK, NoNewAnswer, Message

\* execute
LEMMA ExecuteStep ==
  ASSUME IInv, NEW c \in Coroutines, Execute(c)
  PROVE  IInv'
<1> DEFINE info == [NotStarted EXCEPT !.id = nextID]
<1>1. /\ c \notin Suspended
      /\ nextID \in IDs /\ nextID \in 1 .. MaxID + 1 /\ nextID <= MaxID
      /\ nextID' = nextID + 1 /\ nextID' \in 1 .. MaxID + 1
      /\ info \in CoroutineType
      /\ cbMap' = [cbMap EXCEPT ![nextID] = c]
      /\ cbMap' \in [IDs -> Coroutines \union {Nobody}]
  BY RegisterStep DEF Execute
<1>2. /\ made < MaxCalls /\ made' = made + 1
      /\ calls' = [calls EXCEPT ![nextID] = @ + 1]
      /\ Suspend(c, "waiting", nextID, Nil, info)
      /\ UNCHANGED <<inbox, handler>>
  <2>1. Call(c, info, Nil) /\ UNCHANGED <<inbox, handler>>  BY DEF Execute
  <2>2. info.id = nextID  BY DEF NotStarted
  <2> HIDE DEF info
  <2> QED  BY <2>1, <2>2 DEF Call
<1> HIDE DEF info
<1>3. TimersTypeOK' /\ \E r \in CoroutineType :
        r.status = "waiting" /\ r.id = nextID /\ co' = [co EXCEPT ![c] = r]
  <2>1. /\ nextID \in IDs /\ info \in CoroutineType
        /\ Suspend(c, "waiting", nextID, Nil, info)
    BY <1>1, <1>2
  <2>2. Nil \in Handle /\ "waiting" \in {"waiting", "asleep"}  BY DEF Handle
  <2> QED  BY <2>1, <2>2, SuspendStep DEF info
<1>4. PICK r \in CoroutineType :
        r.status = "waiting" /\ r.id = nextID /\ co' = [co EXCEPT ![c] = r]
  BY <1>3
<1>5. TimersTypeOK'  BY <1>3
<1>6. NoNewAnswer  BY <1>2, SameMailbox
<1>7. IDsInv'
  <2>1. /\ r.status = "waiting" /\ r.id \in IDs /\ r.id < nextID' /\ nextID' >= nextID
        /\ c \notin Suspended /\ r.id >= nextID
        /\ calls' = [calls EXCEPT ![r.id] = @ + 1] /\ cbMap' = [cbMap EXCEPT ![r.id] = c]
    BY <1>1, <1>2, <1>4
  <2> QED  BY <2>1, <1>1, <1>4, <1>6, CallKeeps
<1>8. co' \in [Coroutines -> CoroutineType]  BY <1>4, OneCoroutine
<1>9. calls' \in [IDs -> Nat] /\ made' \in 0 .. MaxCalls
  <2>1. calls \in [IDs -> Nat] /\ made \in 0 .. MaxCalls  BY DEF IInv, TypeOK
  <2>2. calls' \in [IDs -> Nat]
    <3>1. calls' = [calls EXCEPT ![nextID] = @ + 1] /\ nextID \in IDs  BY <1>1, <1>2
    <3> QED  BY <2>1, <3>1
  <2>3. made' \in 0 .. MaxCalls  BY <2>1, <1>2, Numbers
  <2> QED  BY <2>2, <2>3
<1>10. TypeOK'
  BY <1>1, <1>2, <1>5, <1>8, <1>9 DEF IInv, TypeOK, CoroutineType
<1> QED  BY <1>7, <1>10 DEF IInv

\* schedule
LEMMA ScheduleStep ==
  ASSUME IInv, NEW c \in Coroutines, NEW loop \in BOOLEAN, Schedule(c, loop)
  PROVE  IInv'
<1> DEFINE r == [NotStarted EXCEPT !.status = "asleep", !.loop = loop,
                                   !.id = nextID, !.timer = Created]
<1>1. /\ nextID \in IDs /\ nextID <= MaxID
      /\ nextID' = nextID + 1 /\ nextID' \in 1 .. MaxID + 1
      /\ cbMap' = [i \in IDs |-> IF i = nextID THEN c
                                 ELSE IF cbMap[i] = c THEN Nobody ELSE cbMap[i]]
      /\ cbMap' \in [IDs -> Coroutines \union {Nobody}]
  BY RegisterStep DEF Schedule
<1>2. /\ ScheduleTimeout(nextID, Nil, <<ChangeTask(Created)>>)
      /\ co' = [co EXCEPT ![c] = r]
      /\ UNCHANGED <<made, calls, inbox, handler>>
  BY DEF Schedule
<1>3. Created \in Handle /\ Nil \in Handle
  BY CreatedType DEF IInv, TypeOK, Handle
<1>4. <<ChangeTask(Created)>> \in Seq(Task)
  <2>1. ChangeTask(Created) \in Task  BY <1>3, TaskTypes
  <2> QED  BY <2>1
<1>5. TimersTypeOK'  BY <1>1, <1>2, <1>3, <1>4, ScheduleTimeoutStep DEF IInv, TypeOK
<1>6. r \in CoroutineType /\ r.status = "asleep" /\ r.id = nextID
  <2>1. nextID \in 0 .. MaxID  BY <1>1, Numbers DEF IDs
  <2> QED  BY <2>1, <1>3, CoroutineTypes DEF NotStarted, CoroutineType
<1> HIDE DEF r
<1>7. NoNewAnswer  BY <1>2, SameMailbox
<1>8. IDsInv'  BY <1>1, <1>2, <1>6, <1>7, SleepKeeps
<1>9. co' \in [Coroutines -> CoroutineType]  BY <1>2, <1>6, OneCoroutine
<1>10. TypeOK'
  BY <1>1, <1>2, <1>5, <1>9 DEF IInv, TypeOK, CoroutineType
<1> QED  BY <1>8, <1>10 DEF IInv

\* A task that finds nobody
LEMMA NothingChanges ==
  ASSUME IInv, NoNewAnswer, UNCHANGED <<co, cbMap, nextID, made, calls, timerVars>>,
         handler' \in {"running", "destroyed", "gone"}
  PROVE  IInv'
<1>1. Suspended' = Suspended  BY DEF Suspended
<1>2. IDsOK' /\ EntriesOK'
  BY <1>1 DEF IDsOK, EntriesOK, IInv, IDsInv
<1>3. Fresh'
  BY DEF Fresh, IInv, IDsInv, NoNewAnswer
<1>4. SleepUndisturbed'
  <2> SUFFICES ASSUME NEW d \in Coroutines, co[d].status = "asleep"
               PROVE  calls[co[d].id] = 0 /\ ~ Answered(inbox', co[d].id)
    BY DEF SleepUndisturbed, Answered
  <2>1. d \in Suspended  BY DEF Suspended
  <2>2. nextID \in 1 .. MaxID + 1 /\ MaxID \in Nat  BY Numbers DEF IInv, TypeOK
  <2>3. co[d].id \in IDs  BY <2>1, <2>2 DEF IInv, IDsInv, IDsOK, IDs
  <2>4. calls[co[d].id] = 0 /\ ~ Answered(inbox, co[d].id)
    BY DEF IInv, IDsInv, SleepUndisturbed, Answered
  <2> QED  BY <2>3, <2>4 DEF NoNewAnswer
<1>5. TypeOK'
  BY DEF IInv, TypeOK, TimersTypeOK, timerVars, NoNewAnswer, Message
<1> QED  BY <1>2, <1>3, <1>4, <1>5 DEF IInv, IDsInv

\* DoHandlerTask: a timeout or an answer
LEMMA HandlerTaskStep ==
  ASSUME IInv, DoHandlerTask
  PROVE  IInv'
<1> DEFINE id == Head(inbox).id
           c == GetInfoByID(id)
<1>1. inbox \in Seq(Message) /\ inbox # <<>> /\ inbox' = Tail(inbox) /\ handler' = handler
  BY DEF DoHandlerTask, IInv, TypeOK, Message
<1>2. NoNewAnswer
  <2>1. /\ inbox' \in Seq(Message) /\ Len(inbox') = Len(inbox) - 1 /\ Len(inbox) \in Nat
        /\ \A i \in 1 .. Len(inbox') : inbox'[i] = inbox[i + 1]
    BY <1>1, HeadTailProperties, LenProperties
  <2>2. \A i \in 1 .. Len(inbox') : i + 1 \in 1 .. Len(inbox)  BY <2>1
  <2> QED  BY <2>1, <2>2 DEF NoNewAnswer, Answered, Contains
<1>3. CASE c = Nobody /\ Ignored
  <2>1. handler' \in {"running", "destroyed", "gone"}  BY <1>1 DEF IInv, TypeOK
  <2> QED  BY <2>1, <1>2, <1>3, NothingChanges DEF Ignored
<1>4. CASE c # Nobody /\ (Resume(c, Nil) \/ Resume(c, co[c].timer))
  <2>1. id \in IDs /\ cbMap[id] = c  BY <1>4 DEF GetInfoByID
  <2>2. c \in Suspended  BY <2>1, <1>4, EntryOf
  <2>3. Nil \in Handle /\ co[c].timer \in Handle
    BY <2>2 DEF Handle, IInv, TypeOK, Suspended
  <2> HIDE DEF c, id
  <2> QED  BY <2>2, <2>3, <1>1, <1>2, <1>4, ResumeStep
<1>5. \/ c = Nobody /\ Ignored
      \/ c # Nobody /\ (Resume(c, Nil) \/ Resume(c, co[c].timer))
  BY DEF DoHandlerTask, DoingTimeout, DoingAnswer
<1> QED  BY <1>3, <1>4, <1>5

\* A sequence made of a finite set
LEMMA SetToSeqType ==
  ASSUME NEW S, IsFiniteSet(S)
  PROVE  SetToSeq(S) \in Seq(S)
<1> DEFINE n == Cardinality(S)
<1>1. n \in Nat /\ ExistsBijection(1 .. n, S)  BY FS_CardinalityType
<1>2. \E f \in [1 .. n -> S] : IsInjective(f)
  BY <1>1 DEF ExistsBijection, Bijection, Injection
<1>3. SetToSeq(S) \in [1 .. n -> S]  BY <1>2 DEF SetToSeq
<1> QED  BY <1>1, <1>3, SeqDef

\* destroyRpc
LEMMA DestroyStep ==
  ASSUME IInv, Destroy
  PROVE  IInv'
<1> DEFINE Mapped == {d \in Coroutines : (\E i \in IDs : cbMap[i] = d) /\ co[d].timer # Nil}
           Tasks == {RemoveTask(co[d].timer) : d \in Mapped}
<1>1. /\ Post(SetToSeq(Tasks)) /\ handler' = "destroyed"
      /\ cbMap' = [i \in IDs |-> Nobody] /\ co' = [d \in Coroutines |-> Dead]
      /\ UNCHANGED <<timers, idle, nextID, made, calls, inbox>>
  BY DEF Destroy
<1>2. IsFiniteSet(Tasks)
  <2>1. 1 \in Int /\ MaxStarted \in Int /\ IsFiniteSet(Coroutines)
    BY Numbers, FS_Interval DEF Coroutines
  <2>2. Mapped \in SUBSET Coroutines  OBVIOUS
  <2>3. IsFiniteSet(Mapped)  BY <2>1, <2>2, FS_Subset
  <2> HIDE DEF Mapped
  <2> DEFINE f == [d \in Mapped |-> RemoveTask(co[d].timer)]
  <2>4. f \in Surjection(Mapped, Tasks)  BY DEF Surjection
  <2> QED  BY <2>3, <2>4, FS_Surjection DEF ExistsSurjection
<1>3. Tasks \subseteq Task
  <2>1. \A d \in Mapped : co[d].timer \in Handle  BY DEF IInv, TypeOK
  <2> QED  BY <2>1, TaskTypes
<1> HIDE DEF Tasks
<1>4. SetToSeq(Tasks) \in Seq(Task)  BY <1>2, <1>3, SetToSeqType, SeqDef
<1>5. TimersTypeOK'  BY <1>1, <1>4, PostType DEF IInv, TypeOK, TimersTypeOK
<1>6. Suspended' = {}  BY <1>1, CoroutineTypes DEF Suspended
<1>7. Nobody \notin Coroutines  BY DEF Nobody, Coroutines
<1>8. IDsOK'  BY <1>6 DEF IDsOK
<1>9. EntriesOK'  BY <1>1, <1>6, <1>7 DEF EntriesOK
<1>10. Fresh'
  <2> SUFFICES ASSUME NEW i \in IDs, i >= nextID
               PROVE  cbMap'[i] = Nobody /\ calls[i] = 0 /\ ~ Answered(inbox, i)
    BY <1>1 DEF Fresh
  <2> QED  BY <1>1 DEF IInv, IDsInv, Fresh
<1>11. SleepUndisturbed'  BY <1>1, CoroutineTypes DEF SleepUndisturbed
<1>12. co' \in [Coroutines -> CoroutineType]  BY <1>1, CoroutineTypes
<1>13. TypeOK'  BY <1>1, <1>5, <1>12 DEF IInv, TypeOK, CoroutineType
<1> QED  BY <1>8, <1>9, <1>10, <1>11, <1>13 DEF IInv, IDsInv

\* A message at the end of the mailbox
LEMMA NewMessage ==
  ASSUME inbox \in Seq(Message), NEW m \in Message, inbox' = Append(inbox, m)
  PROVE  /\ inbox' \in Seq(Message)
         /\ \A i \in IDs : Answered(inbox', i) =>
               Answered(inbox, i) \/ m = [type |-> "answer", id |-> i]
<1>1. /\ inbox' \in Seq(Message) /\ Len(inbox') = Len(inbox) + 1 /\ Len(inbox) \in Nat
      /\ \A k \in 1 .. Len(inbox) : inbox'[k] = inbox[k]
      /\ inbox'[Len(inbox) + 1] = m
  BY AppendProperties, LenProperties
<1>2. \A k \in 1 .. Len(inbox') : k \in 1 .. Len(inbox) \/ k = Len(inbox) + 1
  BY <1>1
<1> QED  BY <1>1, <1>2 DEF Answered, Contains

\* Another thread answers a call.
LEMMA AnswerStep ==
  ASSUME IInv, NEW i \in IDs, calls[i] > 0,
         calls' = [calls EXCEPT ![i] = @ - 1],
         inbox' = IF handler = "gone" THEN inbox
                  ELSE Append(inbox, [type |-> "answer", id |-> i]),
         UNCHANGED <<co, cbMap, nextID, made, handler, timerVars>>
  PROVE  IInv'
<1> DEFINE m == [type |-> "answer", id |-> i]
<1>1. m \in Message  BY Numbers DEF Message, IDs
<1>2. /\ inbox' \in Seq(Message)
      /\ \A j \in IDs : Answered(inbox', j) => Answered(inbox, j) \/ j = i
  <2>1. inbox \in Seq(Message)  BY DEF IInv, TypeOK, Message
  <2>2. CASE handler = "gone"  BY <2>1, <2>2
  <2>3. CASE handler # "gone"
    <3>1. \A j : m = [type |-> "answer", id |-> j] => j = i  OBVIOUS
    <3> HIDE DEF m
    <3>2. inbox' = Append(inbox, m)  BY <2>3 DEF m
    <3> QED  BY <2>1, <3>1, <3>2, <1>1, NewMessage
  <2> QED  BY <2>2, <2>3
<1>3. /\ calls \in [IDs -> Nat] /\ calls[i] \in Nat
      /\ nextID \in 1 .. MaxID + 1 /\ MaxID \in Nat /\ IDs = 1 .. MaxID
  BY Numbers DEF IInv, TypeOK, IDs
<1>4. calls' \in [IDs -> Nat] /\ \A j \in IDs : j # i => calls'[j] = calls[j]
  BY <1>3
<1>5. i < nextID  BY <1>3 DEF IInv, IDsInv, Fresh
<1>6. Suspended' = Suspended  BY DEF Suspended
<1>7. IDsOK' /\ EntriesOK'  BY <1>6 DEF IDsOK, EntriesOK, IInv, IDsInv
<1>8. Fresh'
  <2> SUFFICES ASSUME NEW j \in IDs, j >= nextID
               PROVE  cbMap[j] = Nobody /\ calls'[j] = 0 /\ ~ Answered(inbox', j)
    BY DEF Fresh
  <2>1. j # i  BY <1>3, <1>5
  <2> QED  BY <2>1, <1>2, <1>4 DEF IInv, IDsInv, Fresh
<1>9. SleepUndisturbed'
  <2> SUFFICES ASSUME NEW d \in Coroutines, co[d].status = "asleep"
               PROVE  calls'[co[d].id] = 0 /\ ~ Answered(inbox', co[d].id)
    BY DEF SleepUndisturbed, Answered
  <2>1. d \in Suspended  BY DEF Suspended
  <2>2. co[d].id \in IDs  BY <2>1, <1>3 DEF IInv, IDsInv, IDsOK
  <2>3. calls[co[d].id] = 0 /\ ~ Answered(inbox, co[d].id)
    BY DEF IInv, IDsInv, SleepUndisturbed, Answered
  <2>4. co[d].id # i  BY <2>3, <1>3
  <2> QED  BY <2>2, <2>3, <2>4, <1>2, <1>4
<1>10. TypeOK'
  BY <1>2, <1>4 DEF IInv, TypeOK, TimersTypeOK, timerVars, Message
<1> QED  BY <1>7, <1>8, <1>9, <1>10 DEF IInv, IDsInv

\* A timer fires in the main thread.
LEMMA FireStep ==
  ASSUME IInv, NEW s \in 1 .. MaxTimers, Fire(s)
  PROVE  IInv'
<1> DEFINE m == [type |-> "timeout", id |-> timers[s].id]
<1>1. /\ s \in DOMAIN timers /\ RemoveTimerHandle(s) /\ tasks' = tasks
      /\ inbox' = Append(inbox, m)
      /\ UNCHANGED <<co, cbMap, nextID, made, calls, handler>>
  BY DEF Fire, Expire
<1>2. TimersTypeOK'
  BY <1>1, RemoveTimerStep DEF IInv, TypeOK, TimersTypeOK
<1>3. m \in Message
  <2>1. DOMAIN timers = 1 .. Len(timers)
    BY LenProperties DEF IInv, TypeOK, TimersTypeOK
  <2>2. timers[s] \in [version : 0 .. Versions - 1, id : 0 .. MaxID, armed : BOOLEAN]
    BY <1>1, <2>1, ElementOfSeq DEF IInv, TypeOK, TimersTypeOK
  <2> QED  BY <2>2 DEF Message
<1>4. NoNewAnswer
  <2>1. \A i : m # [type |-> "answer", id |-> i]  OBVIOUS
  <2>2. inbox \in Seq(Message)  BY DEF IInv, TypeOK, Message
  <2> HIDE DEF m
  <2> QED  BY <1>1, <1>3, <2>1, <2>2, NewMessage DEF NoNewAnswer
<1>5. IDsInv'
  <2>1. Suspended' = Suspended  BY <1>1 DEF Suspended
  <2>2. IDsOK' /\ EntriesOK' /\ Fresh'
    BY <1>1, <1>4, <2>1 DEF IDsOK, EntriesOK, Fresh, IInv, IDsInv, NoNewAnswer
  <2>3. SleepUndisturbed'
    <3> SUFFICES ASSUME NEW d \in Coroutines, co[d].status = "asleep"
                 PROVE  calls[co[d].id] = 0 /\ ~ Answered(inbox', co[d].id)
      BY <1>1 DEF SleepUndisturbed, Answered
    <3>1. d \in Suspended  BY DEF Suspended
    <3>2. nextID \in 1 .. MaxID + 1 /\ MaxID \in Nat  BY Numbers DEF IInv, TypeOK
    <3>3. co[d].id \in IDs  BY <3>1, <3>2 DEF IInv, IDsInv, IDsOK, IDs
    <3>4. calls[co[d].id] = 0 /\ ~ Answered(inbox, co[d].id)
      BY DEF IInv, IDsInv, SleepUndisturbed, Answered
    <3> QED  BY <3>3, <3>4, <1>4 DEF NoNewAnswer
  <2> QED  BY <2>2, <2>3 DEF IDsInv
<1>6. TypeOK'
  BY <1>1, <1>2, <1>4 DEF IInv, TypeOK, NoNewAnswer, Message
<1> QED  BY <1>5, <1>6 DEF IInv

\* A step that leaves the coroutines, the calls and the mailbox alone
LEMMA TimersOnly ==
  ASSUME IInv, TimersTypeOK', UNCHANGED <<co, cbMap, nextID, made, calls, inbox>>,
         handler' \in {"running", "destroyed", "gone"}
  PROVE  IInv'
<1>1. Suspended' = Suspended  BY DEF Suspended
<1>2. IDsInv'
  BY <1>1 DEF IInv, IDsInv, IDsOK, EntriesOK, Fresh, SleepUndisturbed, Answered
<1>3. TypeOK'  BY DEF IInv, TypeOK
<1> QED  BY <1>2, <1>3 DEF IInv

-----------------------------------------------------------------------------
(***************************************************************************)
(* The theorems about the callback IDs.                                    *)
(***************************************************************************)

\* The inductive invariant
THEOREM InductiveInvariant == Spec => []IInv
<1>1. Init => IInv
  <2> SUFFICES ASSUME Init PROVE IInv  OBVIOUS
  <2>1. TimersTypeOK
    <3>1. timers = <<>> /\ idle = <<>> /\ tasks = <<>>  BY DEF Init, TimerInit
    <3>2. Len(<<>>) = 0 /\ DOMAIN <<>> = {}  OBVIOUS
    <3> QED  BY <3>1, <3>2, Numbers DEF TimersTypeOK
  <2>2. TypeOK
    BY <2>1, CoroutineTypes, Numbers DEF Init, TypeOK, CoroutineType, Message
  <2>3. Suspended = {}  BY DEF Suspended, Init, NotStarted
  <2>4. Nobody \notin Coroutines  BY DEF Nobody, Coroutines
  <2>5. \A i \in IDs : ~ Answered(inbox, i)
    BY DEF Init, Answered, Contains
  <2>6. IDsOK /\ EntriesOK  BY <2>3, <2>4 DEF IDsOK, EntriesOK, Init
  <2>7. Fresh  BY <2>5 DEF Fresh, Init
  <2>8. SleepUndisturbed  BY DEF SleepUndisturbed, Init, NotStarted
  <2> QED  BY <2>2, <2>6, <2>7, <2>8 DEF IInv, IDsInv
<1>2. IInv /\ [Next]_vars => IInv'
  <2> SUFFICES ASSUME IInv, [Next]_vars PROVE IInv'  OBVIOUS
  <2>1. handler \in {"running", "destroyed", "gone"} /\ TimersTypeOK
    BY DEF IInv, TypeOK
  <2>2. CASE UNCHANGED vars
    <3>1. TimersTypeOK'  BY <2>1, <2>2 DEF vars, timerVars, TimersTypeOK
    <3> QED  BY <3>1, <2>1, <2>2, TimersOnly DEF vars, rpcVars
  <2>3. ASSUME NEW c \in Coroutines, Execute(c) PROVE IInv'
    BY <2>3, ExecuteStep
  <2>4. ASSUME NEW c \in Coroutines, NEW loop \in BOOLEAN, Schedule(c, loop) PROVE IInv'
    BY <2>4, ScheduleStep
  <2>5. CASE DoHandlerTask  BY <2>5, HandlerTaskStep
  <2>6. CASE Destroy  BY <2>6, DestroyStep
  <2>7. CASE Unload
    <3>1. TimersTypeOK'  BY <2>1, <2>7 DEF Unload, timerVars, TimersTypeOK
    <3> QED  BY <3>1, <2>7, TimersOnly DEF Unload
  <2>8. CASE Answer  BY <2>8, AnswerStep DEF Answer
  <2>9. ASSUME NEW s \in 1 .. MaxTimers, Fire(s) PROVE IInv'
    BY <2>9, FireStep
  <2>10. CASE MainTask
    <3>1. TimersTypeOK'  BY <2>1, <2>10, TimerTaskStep DEF MainTask
    <3> QED  BY <3>1, <2>1, <2>10, TimersOnly DEF MainTask, rpcVars
  <2> QED  BY <2>2, <2>3, <2>4, <2>5, <2>6, <2>7, <2>8, <2>9, <2>10 DEF Next
<1> QED  BY <1>1, <1>2, PTL DEF Spec

\* The map has exactly the suspended coroutines, each under the ID that it has now.
THEOREM EntriesExact == Spec => []EntriesOK
<1>1. IInv => EntriesOK  BY DEF IInv, IDsInv
<1> QED  BY <1>1, InductiveInvariant, PTL

\* No answer, however late, ends the sleep of a schedule before its time.
THEOREM SleepIsUndisturbed == Spec => []SleepUndisturbed
<1>1. IInv => SleepUndisturbed  BY DEF IInv, IDsInv
<1> QED  BY <1>1, InductiveInvariant, PTL

-----------------------------------------------------------------------------
(***************************************************************************)
(* The timers of the coroutines.  What is said of them holds as long as no *)
(* version comes round to a handle that is still kept: NoHandleReused.     *)
(***************************************************************************)

Timeout(i) == [type |-> "timeout", id |-> i]

\* m is at most once in q.
Once(q, m) == \A j, k \in DOMAIN q : q[j] = m /\ q[k] = m => j = k

\* A slot is given back once, and only a timer in use is armed.
PoolOK ==
  /\ IsInjective(idle)
  /\ \A s \in DOMAIN timers : timers[s].armed => s \in Live

\* Handles are of slots that have an object.
KeptOK == \A h \in Handle : Kept(h) => h \in {Nil, NoTimer} \/ h[1] \in DOMAIN timers

\* The start of a timer is the first task with its handle, and nothing has armed it
\* before.
TasksOK ==
  \A q \in DOMAIN tasks : tasks[q].op = "start" /\ tasks[q].handle # NoTimer =>
     /\ Current(tasks[q].handle)
     /\ ~ timers[tasks[q].handle[1]].armed
     /\ \A p \in DOMAIN tasks : p < q => tasks[p].handle # tasks[q].handle

\* A timer in use is armed, or its start is on the way.
StartedOK ==
  \A s \in Live : timers[s].armed \/ \E i \in IDs : Contains(tasks, StartTask(HandleOf(s), i))

\* A current handle is with its coroutine or in the task that removes it, not with both.
OwnersOK ==
  /\ TimersOwned
  /\ \A c \in Suspended :
        /\ co[c].timer # Nil
        /\ Contains(tasks, RemoveTask(co[c].timer)) => ~ Current(co[c].timer)

\* For each suspended coroutine there is at most one timeout: armed, or to be armed, or
\* in the mailbox, and then its timer has been given back.
OneTimeout ==
  \A c \in Suspended :
    /\ \A s \in DOMAIN timers :
          timers[s].armed /\ timers[s].id = co[c].id => HandleOf(s) = co[c].timer
    /\ \A h \in Handle \ {NoTimer} :
          Contains(tasks, StartTask(h, co[c].id)) => h = co[c].timer
    /\ Once(inbox, Timeout(co[c].id))
    /\ Contains(inbox, Timeout(co[c].id)) => ~ Current(co[c].timer)

\* No timeout has an ID that has not been given out.
TimersFresh ==
  /\ \A s \in DOMAIN timers : timers[s].armed => timers[s].id < nextID
  /\ \A i \in IDs, h \in Handle : Contains(tasks, StartTask(h, i)) => i < nextID
  /\ \A i \in IDs : Contains(inbox, Timeout(i)) => i < nextID

\* TimeoutComes, but for a coroutine that got no timer
TimeoutsOK == \A c \in Suspended : HasTimeout(c) \/ co[c].stray \/ co[c].timer = NoTimer

TimersInv ==
  /\ PoolOK /\ KeptOK /\ TasksOK /\ StartedOK
  /\ OwnersOK /\ OneTimeout /\ TimersFresh /\ TimeoutsOK

-----------------------------------------------------------------------------
\* The handles that are current are those of the slots.
LEMMA HandlesAre ==
  /\ \A h : Current(h) <=> \E s \in DOMAIN timers : h = HandleOf(s)
  /\ \A h : Current(h)' <=> \E s \in DOMAIN timers' : h = HandleOf(s)'
  /\ \A s, t : HandleOf(s) = HandleOf(t) => s = t
  /\ \A s, t : HandleOf(s)' = HandleOf(t)' => s = t
  /\ \A s, t : HandleOf(s)' = HandleOf(t) => s = t
  /\ \A s : HandleOf(s)[1] = s /\ HandleOf(s)'[1] = s
  /\ \A s : timers'[s].version = timers[s].version => HandleOf(s)' = HandleOf(s)
BY DEF Current, HandleOf

\* Nil and NoTimer belong to no slot.
LEMMA NoSlot ==
  /\ TimersTypeOK => /\ ~ Current(Nil) /\ ~ Current(NoTimer)
                     /\ \A s \in DOMAIN timers : HandleOf(s) \in Handle \ {Nil, NoTimer}
  /\ TimersTypeOK' => /\ ~ Current(Nil)' /\ ~ Current(NoTimer)'
                      /\ \A s \in DOMAIN timers' : HandleOf(s)' \in Handle \ {Nil, NoTimer}
<1> DEFINE T == [version : 0 .. Versions - 1, id : 0 .. MaxID, armed : BOOLEAN]
<1>1. ASSUME NEW q \in Seq(T), Len(q) <= MaxTimers
      PROVE  \A s \in DOMAIN q : s \in 1 .. MaxTimers /\ s # 0 /\ q[s].version \in 0 .. Versions - 1
  <2>1. Len(q) \in Nat /\ DOMAIN q = 1 .. Len(q)  BY LenProperties
  <2> TAKE s \in DOMAIN q
  <2>2. q[s] \in T  BY <1>1, <2>1, ElementOfSeq
  <2> QED  BY <1>1, <2>1, <2>2, Numbers
<1>2. Nil[1] = 0 /\ NoTimer[1] = 0  BY DEF Nil, NoTimer
<1>3. ASSUME NEW s \in 1 .. MaxTimers, NEW v \in 0 .. Versions - 1
      PROVE  <<s, v>> \in Handle \ {Nil, NoTimer}
  BY Numbers DEF Handle, Nil, NoTimer
<1>4. TimersTypeOK => \A s \in DOMAIN timers :
        s \in 1 .. MaxTimers /\ s # 0 /\ timers[s].version \in 0 .. Versions - 1
  BY <1>1 DEF TimersTypeOK
<1>5. TimersTypeOK' => \A s \in DOMAIN timers' :
        s \in 1 .. MaxTimers /\ s # 0 /\ timers'[s].version \in 0 .. Versions - 1
  BY <1>1 DEF TimersTypeOK
<1> QED  BY <1>2, <1>3, <1>4, <1>5 DEF Current, HandleOf

\* The first element of a queue is taken.
LEMMA TakenFirst ==
  ASSUME NEW A, NEW q \in Seq(A), q # <<>>
  PROVE  /\ Tail(q) \in Seq(A) /\ Head(q) \in A /\ Head(q) = q[1] /\ 1 \in DOMAIN q
         /\ \A j \in DOMAIN Tail(q) : j \in Nat /\ j + 1 \in DOMAIN q /\ Tail(q)[j] = q[j + 1]
         /\ \A m : Contains(Tail(q), m) => Contains(q, m)
         /\ \A m : Contains(q, m) => m = Head(q) \/ Contains(Tail(q), m)
         /\ \A m : Once(q, m) => Once(Tail(q), m)
         /\ Once(q, Head(q)) => ~ Contains(Tail(q), Head(q))
<1>1. /\ Len(q) \in Nat \ {0} /\ DOMAIN q = 1 .. Len(q)
      /\ Tail(q) \in Seq(A) /\ Len(Tail(q)) = Len(q) - 1
      /\ \A j \in 1 .. Len(q) - 1 : Tail(q)[j] = q[j + 1]
      /\ DOMAIN Tail(q) = 1 .. Len(q) - 1
      /\ Head(q) = q[1] /\ Head(q) \in A
  BY EmptySeq, LenProperties, HeadTailProperties
<1> DEFINE n == Len(q)
           r == Tail(q)
<1>2. /\ n \in Nat \ {0} /\ DOMAIN q = 1 .. n /\ Len(q) = n
      /\ DOMAIN r = 1 .. n - 1 /\ Len(r) = n - 1
      /\ \A j \in 1 .. n - 1 : r[j] = q[j + 1]
  BY <1>1
<1> HIDE DEF n, r
<1>3. \A j \in 1 .. n - 1 : j \in Nat /\ j + 1 \in 1 .. n  BY <1>2
<1>4. \A j \in 1 .. n : j = 1 \/ (j - 1 \in 1 .. n - 1 /\ q[j] = r[j - 1])
  BY <1>2
<1>5. \A m : Contains(r, m) => Contains(q, m)
  BY <1>2, <1>3 DEF Contains
<1>6. \A m : Contains(q, m) => m = q[1] \/ Contains(r, m)
  BY <1>2, <1>4 DEF Contains
<1>7. \A m : Once(q, m) => Once(r, m)
  <2> SUFFICES ASSUME NEW m, Once(q, m), NEW j \in 1 .. n - 1, NEW k \in 1 .. n - 1,
                      r[j] = m, r[k] = m
               PROVE  j = k
    BY <1>2 DEF Once
  <2>1. j + 1 = k + 1  BY <1>2, <1>3 DEF Once
  <2> QED  BY <2>1
<1>8. Once(q, q[1]) => ~ Contains(r, q[1])
  <2> SUFFICES ASSUME Once(q, q[1]), NEW j \in 1 .. n - 1, r[j] = q[1] PROVE FALSE
    BY <1>2 DEF Contains
  <2>1. j + 1 = 1  BY <1>2, <1>3 DEF Once
  <2> QED  BY <2>1
<1> QED  BY <1>1, <1>2, <1>3, <1>5, <1>6, <1>7, <1>8 DEF r

\* Elements are added at the end of a queue.
LEMMA AddedLast ==
  ASSUME NEW A, NEW q \in Seq(A), NEW more \in Seq(A)
  PROVE  /\ q \o more \in Seq(A)
         /\ \A m : Contains(q \o more, m) <=> Contains(q, m) \/ Contains(more, m)
         /\ \A j \in DOMAIN (q \o more) :
               \/ j \in DOMAIN q /\ (q \o more)[j] = q[j]
               \/ \E k \in DOMAIN more : j = Len(q) + k /\ (q \o more)[j] = more[k]
         /\ \A j \in DOMAIN q : j \in DOMAIN (q \o more) /\ (q \o more)[j] = q[j]
<1> DEFINE r == q \o more
           n == Len(q)
           k == Len(more)
<1>1. /\ n \in Nat /\ k \in Nat /\ DOMAIN q = 1 .. n /\ DOMAIN more = 1 .. k
      /\ r \in Seq(A) /\ Len(r) = n + k /\ DOMAIN r = 1 .. n + k
      /\ \A j \in 1 .. n + k : r[j] = IF j <= n THEN q[j] ELSE more[j - n]
  BY LenProperties, ConcatProperties
<1>2. Len(q) = n /\ Len(more) = k  OBVIOUS
<1> HIDE DEF r, n, k
<1>3. \A j \in 1 .. n : j \in 1 .. n + k /\ r[j] = q[j]  BY <1>1
<1>4. \A j \in 1 .. k : n + j \in 1 .. n + k /\ r[n + j] = more[j]
  <2> TAKE j \in 1 .. k
  <2>1. n + j \in 1 .. n + k /\ ~ (n + j <= n) /\ (n + j) - n = j  BY <1>1
  <2> QED  BY <1>1, <2>1
<1>5. \A j \in 1 .. n + k : \/ j \in 1 .. n /\ r[j] = q[j]
                            \/ \E i \in 1 .. k : j = n + i /\ r[j] = more[i]
  <2> TAKE j \in 1 .. n + k
  <2>1. CASE j <= n  BY <2>1, <1>1
  <2>2. CASE ~ (j <= n)
    <3>1. j - n \in 1 .. k /\ j = n + (j - n)  BY <2>2, <1>1
    <3> QED  BY <2>2, <3>1, <1>1
  <2> QED  BY <2>1, <2>2
<1>6. \A m : Contains(r, m) <=> Contains(q, m) \/ Contains(more, m)
  BY <1>1, <1>2, <1>3, <1>4, <1>5 DEF Contains
<1> QED  BY <1>1, <1>2, <1>3, <1>5, <1>6 DEF r, n

\* Timers come and go by the handles; these are the tasks.
LEMMA TasksDiffer ==
  /\ \A g, h, i, j : StartTask(g, i) = StartTask(h, j) => g = h /\ i = j
  /\ \A g, h : RemoveTask(g) = RemoveTask(h) => g = h
  /\ \A g, h, i : StartTask(g, i) # RemoveTask(h) /\ StartTask(g, i) # ChangeTask(h)
  /\ \A g, h : ChangeTask(g) # RemoveTask(h)
  /\ \A h, i : StartTask(h, i).handle = h /\ StartTask(h, i).op = "start" /\ StartTask(h, i).id = i
  /\ \A h : ChangeTask(h).handle = h /\ ChangeTask(h).op = "change"
  /\ \A h : RemoveTask(h).handle = h /\ RemoveTask(h).op = "remove"
  /\ \A t \in Task : t.op = "start" => t.id \in IDs /\ t = StartTask(t.handle, t.id)
  /\ \A t \in Task : t.op = "change" => t = ChangeTask(t.handle)
  /\ \A t \in Task : t.op = "remove" => t = RemoveTask(t.handle)
  /\ \A t \in Task : t.handle \in Handle /\ t.op \in {"start", "change", "remove"}
<1>1. /\ \A g, h, i, j : StartTask(g, i) = StartTask(h, j) => g = h /\ i = j
      /\ \A g, h : RemoveTask(g) = RemoveTask(h) => g = h
  BY DEF StartTask, RemoveTask
<1>2. /\ \A h, i : StartTask(h, i).handle = h /\ StartTask(h, i).op = "start" /\ StartTask(h, i).id = i
      /\ \A h : ChangeTask(h).handle = h /\ ChangeTask(h).op = "change"
      /\ \A h : RemoveTask(h).handle = h /\ RemoveTask(h).op = "remove"
  BY DEF StartTask, RemoveTask, ChangeTask
<1>3. /\ \A g, h, i : StartTask(g, i) # RemoveTask(h) /\ StartTask(g, i) # ChangeTask(h)
      /\ \A g, h : ChangeTask(g) # RemoveTask(h)
  BY DEF StartTask, RemoveTask, ChangeTask
<1>4. ASSUME NEW t \in Task
      PROVE  /\ t.op = "start" => t.id \in IDs /\ t = StartTask(t.handle, t.id)
             /\ t.op = "change" => t = ChangeTask(t.handle)
             /\ t.op = "remove" => t = RemoveTask(t.handle)
             /\ t.handle \in Handle /\ t.op \in {"start", "change", "remove"}
  BY DEF Task, StartTask, RemoveTask, ChangeTask
<1> QED  BY <1>1, <1>2, <1>3, <1>4

LEMMA TimersAre ==
  ASSUME TimersTypeOK
  PROVE  /\ Len(timers) \in Nat /\ DOMAIN timers = 1 .. Len(timers)
         /\ Len(idle) \in Nat /\ DOMAIN idle = 1 .. Len(idle)
         /\ \A s \in DOMAIN timers :
               timers[s] \in [version : 0 .. Versions - 1, id : 0 .. MaxID, armed : BOOLEAN]
         /\ \A s : Contains(idle, s) => s \in DOMAIN timers
<1>1. /\ Len(timers) \in Nat /\ DOMAIN timers = 1 .. Len(timers)
      /\ Len(idle) \in Nat /\ DOMAIN idle = 1 .. Len(idle)
  BY LenProperties DEF TimersTypeOK
<1>2. \A s \in DOMAIN timers :
        timers[s] \in [version : 0 .. Versions - 1, id : 0 .. MaxID, armed : BOOLEAN]
  BY <1>1, ElementOfSeq DEF TimersTypeOK
<1>3. \A s : Contains(idle, s) => s \in DOMAIN timers
  BY <1>1 DEF Contains, TimersTypeOK
<1> QED  BY <1>1, <1>2, <1>3

\* createTimerHandle: a slot that is not in use, or none
LEMMA SlotTaken ==
  ASSUME TimersTypeOK, PoolOK, CreateTimerHandle
  PROVE  \/ Created = NoTimer /\ UNCHANGED <<timers, idle>>
         \/ \E s : /\ Created = HandleOf(s)' /\ s \in DOMAIN timers' /\ s \notin Live
                   /\ s \in DOMAIN timers => Created = HandleOf(s)
                   /\ DOMAIN timers' = DOMAIN timers \union {s}
                   /\ \A t \in DOMAIN timers : timers'[t] = timers[t]
                   /\ Live' = Live \union {s}
                   /\ ~ timers'[s].armed
                   /\ PoolOK'
<1>1. CASE idle # <<>>
  <2> DEFINE n == Len(idle)
             q == [i \in 1 .. n - 1 |-> idle[i]]
  <2> PICK s : s = idle[n]  OBVIOUS
  <2>1. idle' = Front(idle) /\ timers' = timers  BY <1>1 DEF CreateTimerHandle
  <2>2. n \in Nat \ {0} /\ DOMAIN idle = 1 .. n /\ n \in 1 .. n
    BY <1>1, EmptySeq, LenProperties DEF TimersTypeOK
  <2>3. idle' = q  BY <2>1, <2>2 DEF Front, TimersTypeOK
  <2>4. q \in Seq(DOMAIN timers)
    <3>1. \A i \in 1 .. n - 1 : i \in 1 .. n /\ q[i] = idle[i]  BY <2>2
    <3>2. \A i \in 1 .. n - 1 : q[i] \in DOMAIN timers  BY <2>2, <3>1 DEF TimersTypeOK
    <3> QED  BY <2>2, <3>2, SeqDef
  <2>5. Len(q) = n - 1 /\ DOMAIN q = 1 .. n - 1 /\ \A i \in 1 .. n - 1 : q[i] = idle[i]
    BY <2>2, <2>4, LenProperties
  <2>6. \A i, j \in 1 .. n : idle[i] = idle[j] => i = j
    BY <2>2 DEF PoolOK, IsInjective
  <2>7. Created = HandleOf(s) /\ HandleOf(s)' = HandleOf(s)
    BY <1>1, <2>1 DEF Created, HandleOf, Last
  <2>8. s \in DOMAIN timers /\ s \notin Live
    <3>1. s \in DOMAIN timers  BY <2>2 DEF TimersTypeOK
    <3>2. Contains(idle, s)  BY <2>2 DEF Contains
    <3> QED  BY <3>1, <3>2 DEF Live
  <2> HIDE DEF n, q
  <2>9. Len(idle) = n  BY DEF n
  <2>10. \A t : Contains(idle', t) <=> Contains(idle, t) /\ t # s
    <3>1. \A i \in 1 .. n - 1 : i \in 1 .. n /\ i # n  BY <2>2
    <3>2. \A i \in 1 .. n : i # n => i \in 1 .. n - 1  BY <2>2
    <3> QED  BY <2>2, <2>3, <2>5, <2>6, <2>9, <3>1, <3>2 DEF Contains
  <2>11. Live' = Live \union {s}  BY <2>1, <2>8, <2>10 DEF Live
  <2>12. ~ timers[s].armed  BY <2>8 DEF PoolOK
  <2>13. PoolOK'
    <3>1. IsInjective(idle')
      <4>1. \A i \in 1 .. n - 1 : i \in 1 .. n  BY <2>2
      <4> QED  BY <2>3, <2>5, <2>6, <4>1 DEF IsInjective
    <3> QED  BY <2>1, <2>11, <3>1 DEF PoolOK
  <2> QED  BY <2>1, <2>7, <2>8, <2>11, <2>12, <2>13
<1>2. CASE idle = <<>> /\ Len(timers) < MaxTimers
  <2> PICK s : s = Len(timers) + 1  OBVIOUS
  <2> DEFINE t0 == [version |-> 0, id |-> 0, armed |-> FALSE]
  <2>1. idle' = idle /\ timers' = Append(timers, t0)  BY <1>2 DEF CreateTimerHandle
  <2>2. /\ DOMAIN timers = 1 .. Len(timers) /\ Len(timers) \in Nat
        /\ DOMAIN timers' = 1 .. Len(timers) + 1
        /\ \A t \in 1 .. Len(timers) : timers'[t] = timers[t]
        /\ timers'[Len(timers) + 1] = t0
    <3>1. DOMAIN timers = 1 .. Len(timers) /\ Len(timers) \in Nat  BY TimersAre
    <3>2. t0 \in [version : 0 .. Versions - 1, id : 0 .. MaxID, armed : BOOLEAN]  BY Numbers
    <3> HIDE DEF t0
    <3> QED  BY <2>1, <3>1, <3>2, AppendProperties, LenProperties DEF TimersTypeOK
  <2>3. s \notin DOMAIN timers /\ s \in DOMAIN timers' /\ DOMAIN timers' = DOMAIN timers \union {s}
    BY <2>2
  <2>4. Created = HandleOf(s)' /\ ~ timers'[s].armed
    BY <1>2, <2>2 DEF Created, HandleOf
  <2>5. s \notin Live /\ Live' = Live \union {s}
    <3>1. ~ Contains(idle, s)  BY <2>3, TimersAre
    <3> QED  BY <2>1, <2>3, <3>1 DEF Live
  <2>6. PoolOK'  BY <2>1, <2>2, <2>3, <2>4, <2>5 DEF PoolOK
  <2> QED  BY <2>2, <2>3, <2>4, <2>5, <2>6
<1>3. CASE idle = <<>> /\ ~ (Len(timers) < MaxTimers)
  BY <1>3 DEF Created, CreateTimerHandle
<1> QED  BY <1>1, <1>2, <1>3

\* removeTimerHandle of a timer in use
LEMMA SlotGivenBack ==
  ASSUME TimersTypeOK, PoolOK, NEW s \in Live, RemoveTimerHandle(s)
  PROVE  /\ s \in DOMAIN timers /\ DOMAIN timers' = DOMAIN timers
         /\ \A t \in DOMAIN timers : t # s => timers'[t] = timers[t]
         /\ ~ timers'[s].armed
         /\ timers'[s].version = (timers[s].version + 1) % Versions
         /\ Live' = Live \ {s}
         /\ PoolOK'
<1>1. s \in DOMAIN timers /\ ~ Contains(idle, s)  BY DEF Live
<1>2. timers[s] \in [version : 0 .. Versions - 1, id : 0 .. MaxID, armed : BOOLEAN]
  BY <1>1, TimersAre
<1>3. /\ DOMAIN timers' = DOMAIN timers
      /\ \A t \in DOMAIN timers : t # s => timers'[t] = timers[t]
      /\ ~ timers'[s].armed
      /\ timers'[s].version = (timers[s].version + 1) % Versions
  BY <1>1, <1>2 DEF RemoveTimerHandle
<1>4. /\ Len(idle) \in Nat /\ DOMAIN idle = 1 .. Len(idle)
      /\ Len(idle') = Len(idle) + 1 /\ DOMAIN idle' = 1 .. Len(idle) + 1
      /\ \A i \in 1 .. Len(idle) : idle'[i] = idle[i]
      /\ idle'[Len(idle) + 1] = s
  <2>1. idle \in Seq(1 .. MaxTimers) /\ s \in 1 .. MaxTimers  BY <1>1, HandleOfType DEF TimersTypeOK
  <2> QED  BY <2>1, AppendProperties, LenProperties DEF RemoveTimerHandle
<1>5. \A i \in 1 .. Len(idle) + 1 : i \in 1 .. Len(idle) \/ i = Len(idle) + 1  BY <1>4
<1>6. \A t : Contains(idle', t) <=> Contains(idle, t) \/ t = s
  BY <1>4, <1>5 DEF Contains
<1>7. Live' = Live \ {s}  BY <1>3, <1>6 DEF Live
<1>8. IsInjective(idle')
  <2>1. \A i \in 1 .. Len(idle) : idle[i] # s  BY <1>1 DEF Contains
  <2>2. \A i, j \in 1 .. Len(idle) : idle[i] = idle[j] => i = j
    BY <1>4 DEF PoolOK, IsInjective
  <2> QED  BY <1>4, <1>5, <2>1, <2>2 DEF IsInjective
<1> QED  BY <1>1, <1>3, <1>7, <1>8 DEF PoolOK

-----------------------------------------------------------------------------
\* The handle of a coroutine is a handle, and held.
LEMMA TimerHeld ==
  ASSUME TypeOK, NEW c \in Coroutines
  PROVE  co[c].timer \in Handle /\ Kept(co[c].timer)
<1>1. co[c].timer \in Handle  BY DEF TypeOK
<1> QED  BY <1>1 DEF Kept

\* So is the handle of a task.
LEMMA TasksKept ==
  ASSUME TypeOK
  PROVE  /\ \A q \in DOMAIN tasks : tasks[q] \in Task /\ tasks[q].handle \in Handle
                                    /\ Kept(tasks[q].handle) /\ Contains(tasks, tasks[q])
         /\ \A t : Contains(tasks, t) => t \in Task /\ Kept(t.handle)
                                         /\ \E q \in DOMAIN tasks : tasks[q] = t
<1>1. Len(tasks) \in Nat /\ DOMAIN tasks = 1 .. Len(tasks)
  BY LenProperties DEF TypeOK, TimersTypeOK
<1>2. \A q \in DOMAIN tasks : tasks[q] \in Task
  BY <1>1, ElementOfSeq DEF TypeOK, TimersTypeOK
<1>3. \A q \in DOMAIN tasks : tasks[q].handle \in Handle  BY <1>2, TasksDiffer
<1>4. \A q \in DOMAIN tasks : Contains(tasks, tasks[q])  BY <1>1 DEF Contains
<1>5. \A t : Contains(tasks, t) => \E q \in DOMAIN tasks : tasks[q] = t
  BY <1>1 DEF Contains
<1> QED  BY <1>2, <1>3, <1>4, <1>5 DEF Kept

\* Once, if at all
LEMMA NotThere ==
  ASSUME NEW A, NEW q \in Seq(A), NEW m, ~ Contains(q, m)
  PROVE  Once(q, m)
<1>1. DOMAIN q = 1 .. Len(q)  BY LenProperties
<1> QED  BY <1>1 DEF Once, Contains

\* A timeout that was on its way still is.
LEMMA TimeoutKept ==
  ASSUME NEW d, NEW h, NEW i, HasTimeout(d), co[d].timer = h, co[d].id = i,
         co'[d].timer = h, co'[d].id = i,
         Contains(inbox, Timeout(i)) => Contains(inbox', Timeout(i)),
         Current(h) =>
            /\ Current(h)'
            /\ timers[h[1]].armed => timers'[h[1]].armed /\ timers'[h[1]].id = timers[h[1]].id
            /\ Contains(tasks, StartTask(h, i)) =>
                  \/ Contains(tasks', StartTask(h, i))
                  \/ timers'[h[1]].armed /\ timers'[h[1]].id = i
  PROVE  HasTimeout(d)'
<1>1. \/ Contains(inbox, Timeout(i))
      \/ Current(h) /\ ((timers[h[1]].armed /\ timers[h[1]].id = i)
                        \/ Contains(tasks, StartTask(h, i)))
  BY DEF HasTimeout, Timeout
<1>2. \/ Contains(inbox', Timeout(i))
      \/ Current(h)' /\ ((timers'[h[1]].armed /\ timers'[h[1]].id = i)
                         \/ Contains(tasks', StartTask(h, i)))
  BY <1>1
<1>3. co'[d].timer = h /\ co'[d].id = i  OBVIOUS
<1>4. Current(co[d].timer)' <=> Current(h)'  BY <1>3 DEF Current
<1> QED  BY <1>2, <1>3, <1>4 DEF HasTimeout, Timeout


LEMMA TasksPosted ==
  ASSUME tasks \in Seq(Task), NEW new \in Seq(Task), Post(new)
  PROVE  /\ \A t : Contains(tasks', t) <=> Contains(tasks, t) \/ Contains(new, t)
         /\ \A j \in DOMAIN tasks' : \/ j \in DOMAIN tasks /\ tasks'[j] = tasks[j]
                                     \/ \E i \in DOMAIN new : j = Len(tasks) + i /\ tasks'[j] = new[i]
         /\ \A j \in DOMAIN tasks : j \in DOMAIN tasks' /\ tasks'[j] = tasks[j]
<1>1. tasks' = tasks \o new  BY DEF Post
<1> QED  BY <1>1, AddedLast

\* q has one task, t; q has no task, or one, t.
JustOne(q, t) ==
  q \in Seq(Task) /\ Len(q) = 1 /\ DOMAIN q = {1} /\ q[1] = t /\ \A m : Contains(q, m) <=> m = t

AtMostOne(q, t) ==
  /\ q \in Seq(Task) /\ DOMAIN q \subseteq {1} /\ \A j \in DOMAIN q : q[j] = t
  /\ \A m : Contains(q, m) => m = t

LEMMA OneTask ==
  ASSUME NEW t \in Task, NEW one, one = <<t>>
  PROVE  JustOne(one, t) /\ AtMostOne(one, t)
<1>1. /\ one \in Seq(Task) /\ Len(one) = 1 /\ DOMAIN one = 1 .. 1 /\ one[1] = t
      /\ 1 .. 1 = {1}
  OBVIOUS
<1> QED  BY <1>1 DEF Contains, JustOne, AtMostOne

LEMMA NoTask ==
  ASSUME NEW t, NEW none, none = <<>>
  PROVE  AtMostOne(none, t)
<1>1. none \in Seq(Task) /\ Len(none) = 0 /\ DOMAIN none = {} /\ 1 .. 0 = {}  OBVIOUS
<1> QED  BY <1>1 DEF Contains, AtMostOne

\* st, and then ch or nothing
OneThen(new, st, ch) ==
  /\ new \in Seq(Task)
  /\ \A t : Contains(new, t) => t = st \/ t = ch
  /\ Contains(new, st)
  /\ \A j \in DOMAIN new : /\ j \in Nat \ {0}
                           /\ (j = 1 /\ new[j] = st) \/ new[j] = ch

LEMMA OneOrTwo ==
  ASSUME NEW st, NEW ch, NEW one, JustOne(one, st), NEW more, AtMostOne(more, ch),
         NEW new, new = one \o more
  PROVE  OneThen(new, st, ch)
<1>1. /\ one \in Seq(Task) /\ Len(one) = 1 /\ DOMAIN one = {1} /\ one[1] = st
      /\ \A m : Contains(one, m) <=> m = st
  BY DEF JustOne
<1>2. /\ more \in Seq(Task) /\ DOMAIN more \subseteq {1} /\ \A j \in DOMAIN more : more[j] = ch
      /\ \A m : Contains(more, m) => m = ch
  BY DEF AtMostOne
<1>3. one \in Seq(Task) /\ more \in Seq(Task)  BY <1>1, <1>2
<1>4. /\ new \in Seq(Task)
      /\ \A m : Contains(new, m) <=> Contains(one, m) \/ Contains(more, m)
      /\ \A j \in DOMAIN new : \/ j \in DOMAIN one /\ new[j] = one[j]
                               \/ \E i \in DOMAIN more : j = Len(one) + i /\ new[j] = more[i]
  BY <1>3, AddedLast
<1>5. ASSUME NEW j \in DOMAIN new
      PROVE  j \in Nat \ {0} /\ ((j = 1 /\ new[j] = st) \/ new[j] = ch)
  <2>1. CASE j \in DOMAIN one /\ new[j] = one[j]  BY <2>1, <1>1
  <2>2. ASSUME NEW i \in DOMAIN more, j = Len(one) + i, new[j] = more[i]
        PROVE  j \in Nat \ {0} /\ new[j] = ch
    <3>1. i = 1  BY <1>2
    <3> QED  BY <2>2, <3>1, <1>1, <1>2
  <2> QED  BY <1>4, <2>1, <2>2
<1> QED  BY <1>1, <1>2, <1>4, <1>5 DEF OneThen

-----------------------------------------------------------------------------
\* createTimerHandle has returned k: the timers in use stay, and k is a new one that
\* nobody holds, or NoTimer.
NewTimer(k) ==
  /\ DOMAIN timers \subseteq DOMAIN timers'
  /\ \A t \in DOMAIN timers : timers'[t] = timers[t] /\ HandleOf(t)' = HandleOf(t)
  /\ \A t \in Live : t \in DOMAIN timers /\ t \in Live'
  /\ \A t \in Live' : t \in Live \/ HandleOf(t)' = k
  /\ \A t \in DOMAIN timers' : t \in DOMAIN timers \/ (HandleOf(t)' = k /\ ~ timers'[t].armed)
  /\ k = NoTimer \/ (Current(k)' /\ ~ Kept(k) /\ ~ timers'[k[1]].armed)
  /\ PoolOK'

\* The tasks that scheduleTimeout posts: the start of k, and maybe its change
StartTasks(new, k, id) ==
  /\ new \in Seq(Task)
  /\ \A t : Contains(new, t) => t = StartTask(k, id) \/ t = ChangeTask(k)
  /\ Contains(new, StartTask(k, id))
  /\ \A j \in DOMAIN new : /\ j \in Nat \ {0}
                           /\ (j = 1 /\ new[j] = StartTask(k, id)) \/ new[j] = ChangeTask(k)

\* No timeout for id is armed or on the way.
NoTimeoutFor(id) ==
  /\ \A s \in DOMAIN timers : timers[s].armed => timers[s].id # id
  /\ \A h \in Handle \ {NoTimer} : ~ Contains(tasks, StartTask(h, id))
  /\ ~ Contains(inbox', Timeout(id))

\* The mailbox has no new timeout and keeps those of the coroutines other than c.
MailboxStays(c) ==
  /\ \A i : Contains(inbox', Timeout(i)) => Contains(inbox, Timeout(i))
  /\ \A i : Once(inbox, Timeout(i)) => Once(inbox', Timeout(i))
  /\ \A d \in Suspended :
        d # c /\ Contains(inbox, Timeout(co[d].id)) => Contains(inbox', Timeout(co[d].id))

\* Coroutine c is suspended with a new timer k, for the ID id, which has no timeout on
\* the way.
LEMMA WaitStarts ==
  ASSUME IInv, IInv', TimersInv, NoHandleReused,
         NEW c \in Coroutines, NEW id \in IDs, NEW k, k = Created,
         CreateTimerHandle, NEW new, StartTasks(new, k, id), Post(new),
         c \in Suspended', co'[c].id = id, co'[c].timer = k,
         \A d \in Coroutines : d # c => co'[d] = co[d],
         nextID <= nextID',
         c \in Suspended => ~ Current(co[c].timer),
         NoTimeoutFor(id), MailboxStays(c)
  PROVE  TimersInv'
<1>1. TypeOK /\ TypeOK' /\ TimersTypeOK /\ TimersTypeOK' /\ k \in Handle /\ k # Nil
  <2>1. TypeOK /\ TypeOK' /\ TimersTypeOK /\ TimersTypeOK'  BY DEF IInv, TypeOK
  <2>2. k \in Handle  BY <2>1, CreatedType
  <2>3. CASE k = NoTimer  BY <2>1, <2>2, <2>3 DEF Nil, NoTimer
  <2>4. CASE k # NoTimer
    <3>1. PICK s : k = HandleOf(s)' /\ s \in DOMAIN timers'
      BY <2>1, <2>4, SlotTaken DEF TimersInv
    <3> QED  BY <2>1, <2>2, <3>1, NoSlot
  <2> QED  BY <2>1, <2>2, <2>3, <2>4
\* The timers
<1>2. NewTimer(k)
  <2>1. CASE k = NoTimer /\ UNCHANGED <<timers, idle>>
    BY <2>1, HandlesAre DEF Live, TimersInv, PoolOK, NewTimer
  <2>2. ASSUME NEW s, /\ k = HandleOf(s)' /\ s \in DOMAIN timers' /\ s \notin Live
                      /\ s \in DOMAIN timers => k = HandleOf(s)
                      /\ DOMAIN timers' = DOMAIN timers \union {s}
                      /\ \A t \in DOMAIN timers : timers'[t] = timers[t]
                      /\ Live' = Live \union {s}
                      /\ ~ timers'[s].armed
                      /\ PoolOK'
        PROVE  NewTimer(k)
    <3>1. Current(k)' /\ k[1] = s  BY <2>2, HandlesAre
    <3>2. ~ Kept(k)
      <4>1. CASE s \in DOMAIN timers
        BY <2>2, <4>1 DEF NoHandleReused
      <4>2. CASE s \notin DOMAIN timers
        <5>1. k \notin {Nil, NoTimer}  BY <1>1, <2>2, NoSlot
        <5> QED  BY <1>1, <3>1, <4>2, <5>1 DEF TimersInv, KeptOK
      <4> QED  BY <4>1, <4>2
    <3>3. \A t \in DOMAIN timers : HandleOf(t)' = HandleOf(t)  BY <2>2, HandlesAre
    <3>4. Live \subseteq DOMAIN timers  BY DEF Live
    <3> QED  BY <2>2, <3>1, <3>2, <3>3, <3>4 DEF NewTimer
  <2> QED  BY <1>1, <2>1, <2>2, SlotTaken DEF TimersInv
<1>22. /\ DOMAIN timers \subseteq DOMAIN timers'
       /\ \A t \in DOMAIN timers : timers'[t] = timers[t] /\ HandleOf(t)' = HandleOf(t)
       /\ \A t \in Live : t \in DOMAIN timers /\ t \in Live'
       /\ \A t \in Live' : t \in Live \/ HandleOf(t)' = k
       /\ \A t \in DOMAIN timers' : t \in DOMAIN timers \/ (HandleOf(t)' = k /\ ~ timers'[t].armed)
       /\ k = NoTimer \/ (Current(k)' /\ ~ Kept(k) /\ ~ timers'[k[1]].armed)
       /\ PoolOK'
  BY <1>2 DEF NewTimer
<1>3. /\ \A h : Current(h) => Current(h)' /\ timers'[h[1]] = timers[h[1]]
      /\ \A h : Current(h)' => Current(h) \/ h = k
  BY <1>22, HandlesAre
\* The tasks
<1>4. /\ new \in Seq(Task)
      /\ \A t : Contains(new, t) => t = StartTask(k, id) \/ t = ChangeTask(k)
      /\ Contains(new, StartTask(k, id))
      /\ \A j \in DOMAIN new : /\ j \in Nat \ {0}
                               /\ (j = 1 /\ new[j] = StartTask(k, id)) \/ new[j] = ChangeTask(k)
  BY DEF StartTasks
<1>5. tasks \in Seq(Task) /\ DOMAIN tasks = 1 .. Len(tasks) /\ Len(tasks) \in Nat
  BY <1>1, LenProperties DEF TimersTypeOK
<1>55.
      /\ \A t : Contains(tasks', t) <=> Contains(tasks, t) \/ Contains(new, t)
      /\ \A j \in DOMAIN tasks' : \/ j \in DOMAIN tasks /\ tasks'[j] = tasks[j]
                                  \/ \E i \in DOMAIN new : j = Len(tasks) + i /\ tasks'[j] = new[i]
      /\ \A j \in DOMAIN tasks : j \in DOMAIN tasks' /\ tasks'[j] = tasks[j]
  <2>1. tasks \in Seq(Task) /\ new \in Seq(Task) /\ Post(new)  BY <1>4, <1>5
  <2> QED  BY <2>1, TasksPosted
<1>6. /\ \A t : Contains(tasks', t) => Contains(tasks, t) \/ t = StartTask(k, id) \/ t = ChangeTask(k)
      /\ \A t : Contains(tasks, t) => Contains(tasks', t)
      /\ Contains(tasks', StartTask(k, id))
  BY <1>4, <1>55
<1>7. \A j \in DOMAIN tasks' :
        \/ j \in DOMAIN tasks /\ tasks'[j] = tasks[j]
        \/ j = Len(tasks) + 1 /\ tasks'[j] = StartTask(k, id)
        \/ j \in Nat /\ j > Len(tasks) /\ tasks'[j] = ChangeTask(k)
  <2> TAKE j \in DOMAIN tasks'
  <2>1. CASE j \in DOMAIN tasks /\ tasks'[j] = tasks[j]  BY <2>1
  <2>2. ASSUME NEW i \in DOMAIN new, j = Len(tasks) + i, tasks'[j] = new[i]
        PROVE  \/ j = Len(tasks) + 1 /\ tasks'[j] = StartTask(k, id)
               \/ j \in Nat /\ j > Len(tasks) /\ tasks'[j] = ChangeTask(k)
    <3>1. i \in Nat \ {0} /\ ((i = 1 /\ new[i] = StartTask(k, id)) \/ new[i] = ChangeTask(k))
      BY <1>4
    <3>2. j \in Nat /\ j > Len(tasks)  BY <2>2, <3>1, <1>5
    <3> QED  BY <2>2, <3>1, <3>2
  <2> QED  BY <1>55, <2>1, <2>2
\* The coroutines
<1>8. /\ Suspended' = Suspended \union {c}
      /\ \A d \in Suspended : d \in Coroutines
      /\ \A d \in Suspended' : d # c => d \in Suspended /\ co'[d] = co[d] /\ co[d].id # id
      /\ \A d \in Suspended : co[d].id \in IDs
      /\ id < nextID' /\ nextID' \in Nat /\ nextID \in Nat
  <2>1. Suspended' = Suspended \union {c}  BY DEF Suspended
  <2>2. \A d \in Suspended : d \in Coroutines  BY DEF Suspended
  <2>3. \A d \in Suspended' : d # c => d \in Suspended /\ co'[d] = co[d]  BY <2>1, <2>2
  <2>4. \A d, e \in Suspended' : co'[d].id = co'[e].id /\ co'[d].id \in IDs => d = e
    <3>1. \A i \in IDs, d \in Coroutines : cbMap'[i] = d <=> d \in Suspended' /\ co'[d].id = i
      BY DEF IInv, IDsInv, EntriesOK
    <3>2. \A d \in Suspended' : d \in Coroutines  BY DEF Suspended
    <3> QED  BY <3>1, <3>2
  <2>5. /\ \A d \in Suspended : co[d].id \in IDs
        /\ nextID' \in Nat /\ nextID \in Nat /\ id < nextID'
    <3>1. nextID \in 1 .. MaxID + 1 /\ nextID' \in 1 .. MaxID + 1 /\ MaxID \in Nat
      BY <1>1, Numbers DEF TypeOK
    <3>2. \A d \in Suspended : co[d].id \in 1 .. nextID - 1  BY DEF IInv, IDsInv, IDsOK
    <3>3. co'[c].id \in 1 .. nextID' - 1  BY DEF IInv, IDsInv, IDsOK
    <3>4. id \in 1 .. nextID' - 1  BY <3>3
    <3>7. nextID' \in Nat /\ nextID \in Nat  BY <3>1
    <3>8. \A n \in Nat : \A x \in 1 .. n - 1 : x < n  OBVIOUS
    <3>5. nextID' \in Nat /\ nextID \in Nat /\ id < nextID'  BY <3>4, <3>7, <3>8
    <3>6. 1 .. nextID - 1 \subseteq IDs  BY <3>1 DEF IDs
    <3> QED  BY <3>2, <3>5, <3>6
  <2> QED  BY <2>1, <2>2, <2>3, <2>4, <2>5
<1>9. /\ \A d \in Coroutines : co[d].timer \in Handle /\ Kept(co[d].timer)
      /\ \A j \in DOMAIN tasks : tasks[j] \in Task /\ tasks[j].handle \in Handle
                                 /\ Kept(tasks[j].handle) /\ Contains(tasks, tasks[j])
      /\ \A t : Contains(tasks, t) => t \in Task /\ Kept(t.handle)
  BY <1>1, TimerHeld, TasksKept
<1>10. \A h : Kept(h) /\ Current(h)' => Current(h)
  <2> TAKE h
  <2>1. ASSUME Kept(h), Current(h)', h = k PROVE FALSE
    BY <1>1, <1>22, <2>1, NoSlot
  <2> QED  BY <1>3, <2>1
<1>11. PoolOK /\ KeptOK /\ TasksOK /\ StartedOK /\ OwnersOK /\ OneTimeout /\ TimersFresh /\ TimeoutsOK
  BY DEF TimersInv
\* The parts of the invariant
<1>12. KeptOK'
  <2> SUFFICES ASSUME NEW h \in Handle, Kept(h)', h \notin {Nil, NoTimer}
               PROVE  h[1] \in DOMAIN timers'
    BY DEF KeptOK
  <2>1. Kept(h) \/ h = k
    <3>1. CASE \E p \in DOMAIN tasks' : tasks'[p].handle = h
      BY <3>1, <1>7, <1>9, TasksDiffer
    <3>2. CASE \E d \in Coroutines : co'[d].timer = h
      BY <3>2, <1>9
    <3> QED  BY <3>1, <3>2 DEF Kept
  <2>2. CASE Kept(h)  BY <2>2, <1>22, <1>11 DEF KeptOK
  <2>3. CASE h = k
    <3>1. Current(k)'  BY <2>3, <1>22
    <3> QED  BY <2>3, <3>1, HandlesAre
  <2> QED  BY <2>1, <2>2, <2>3
<1>13. TasksOK'
  <2> SUFFICES ASSUME NEW q \in DOMAIN tasks', tasks'[q].op = "start", tasks'[q].handle # NoTimer
               PROVE  /\ Current(tasks[q].handle)'
                      /\ ~ timers'[tasks'[q].handle[1]].armed
                      /\ \A p \in DOMAIN tasks' : p < q => tasks'[p].handle # tasks'[q].handle
    BY DEF TasksOK
  <2>1. PICK h : h = tasks'[q].handle  OBVIOUS
  <2>2. CASE q \in DOMAIN tasks /\ tasks'[q] = tasks[q]
    <3>1. /\ Current(h) /\ ~ timers[h[1]].armed
          /\ \A p \in DOMAIN tasks : p < q => tasks[p].handle # h
      BY <2>1, <2>2, <1>11 DEF TasksOK
    <3>2. Current(h)' /\ ~ timers'[h[1]].armed  BY <3>1, <1>3
    <3>3. Current(tasks[q].handle)'  BY <2>1, <3>2 DEF Current
    <3>4. \A p \in DOMAIN tasks' : p < q => p \in DOMAIN tasks /\ tasks'[p] = tasks[p]
      BY <2>2, <1>5, <1>55, <1>7
    <3> QED  BY <2>1, <3>1, <3>2, <3>3, <3>4
  <2>3. CASE q = Len(tasks) + 1 /\ tasks'[q] = StartTask(k, id)
    <3>1. h = k /\ Current(h)' /\ ~ Kept(h) /\ ~ timers'[h[1]].armed
      BY <2>1, <2>3, <1>22, TasksDiffer
    <3>2. Current(tasks[q].handle)'  BY <2>1, <3>1 DEF Current
    <3>3. \A p \in DOMAIN tasks' : p < q => p \in DOMAIN tasks /\ tasks'[p] = tasks[p]
      BY <2>3, <1>5, <1>55, <1>7
    <3> QED  BY <2>1, <3>1, <3>2, <3>3, <1>9
  <2>4. CASE tasks'[q] = ChangeTask(k)  BY <2>4, TasksDiffer
  <2> QED  BY <1>7, <2>2, <2>3, <2>4
<1>14. StartedOK'
  <2> SUFFICES ASSUME NEW s \in Live'
               PROVE  timers'[s].armed \/ \E i \in IDs : Contains(tasks', StartTask(HandleOf(s)', i))
    BY DEF StartedOK, StartTask
  <2>1. CASE s \in Live
    <3>1. timers'[s] = timers[s] /\ HandleOf(s)' = HandleOf(s)  BY <2>1, <1>22
    <3> QED  BY <2>1, <3>1, <1>6, <1>11 DEF StartedOK
  <2>2. CASE HandleOf(s)' = k  BY <2>2, <1>6
  <2> QED  BY <1>22, <2>1, <2>2
<1>15. OwnersOK'
  <2>1. ASSUME NEW s \in Live'
        PROVE  \/ Contains(tasks', RemoveTask(HandleOf(s)'))
               \/ \E d \in Suspended' : co'[d].timer = HandleOf(s)'
    <3>1. CASE HandleOf(s)' = k  BY <3>1, <1>8
    <3>2. CASE s \in Live
      <4>1. HandleOf(s)' = HandleOf(s) /\ Current(HandleOf(s))  BY <3>2, <1>22, HandlesAre
      <4>2. CASE Contains(tasks, RemoveTask(HandleOf(s)))  BY <4>1, <4>2, <1>6
      <4>3. ASSUME NEW d \in Suspended, co[d].timer = HandleOf(s)
            PROVE  d \in Suspended' /\ co'[d].timer = HandleOf(s)
        BY <4>1, <4>3, <1>8
      <4> QED  BY <3>2, <4>1, <4>2, <4>3, <1>11 DEF OwnersOK, TimersOwned
    <3> QED  BY <3>1, <3>2, <1>22
  <2>2. ASSUME NEW d \in Suspended', NEW e \in Suspended', d # e, co'[d].timer = co'[e].timer
        PROVE  ~ Current(co[d].timer)'
    <3>1. PICK h : h = co'[d].timer  OBVIOUS
    <3> SUFFICES ASSUME Current(h)' PROVE FALSE
      BY <3>1 DEF Current
    <3>2. Kept(h)  BY <3>1, <2>2, <1>8, <1>9
    <3>3. Current(h)  BY <3>2, <1>10
    <3>4. h # k  BY <3>2, <1>22, <1>1, NoSlot
    <3>5. d # c /\ e # c  BY <3>1, <3>4, <2>2
    <3> QED  BY <3>1, <3>3, <3>5, <2>2, <1>8, <1>11 DEF OwnersOK, TimersOwned
  <2>3. ASSUME NEW d \in Suspended'
        PROVE  /\ co'[d].timer # Nil
               /\ Contains(tasks', RemoveTask(co'[d].timer)) => ~ Current(co[d].timer)'
    <3>1. PICK h : h = co'[d].timer  OBVIOUS
    <3>2. h # Nil  BY <3>1, <1>1, <1>8, <1>11 DEF OwnersOK
    <3>3. ASSUME Contains(tasks', RemoveTask(h)), Current(h)' PROVE FALSE
      <4>1. Contains(tasks, RemoveTask(h))  BY <3>3, <1>6, TasksDiffer
      <4>2. Kept(h)  BY <4>1, <1>9, TasksDiffer
      <4>3. Current(h) /\ h # k  BY <4>2, <3>3, <1>10, <1>1, <1>22, NoSlot
      <4>4. d # c  BY <3>1, <4>3
      <4> QED  BY <3>1, <4>1, <4>3, <4>4, <1>8, <1>11 DEF OwnersOK
    <3>4. Current(co[d].timer)' <=> Current(h)'  BY <3>1 DEF Current
    <3> QED  BY <3>1, <3>2, <3>3, <3>4
  <2>4. TimersOwned'
    <3>1. \A s : RemoveTask(HandleOf(s))' = RemoveTask(HandleOf(s)')  BY DEF RemoveTask
    <3> QED  BY <2>1, <2>2, <3>1 DEF TimersOwned
  <2>5. \A d : RemoveTask(co[d].timer)' = RemoveTask(co'[d].timer)  BY DEF RemoveTask
  <2> QED  BY <2>3, <2>4, <2>5 DEF OwnersOK
<1>16. OneTimeout'
  <2> SUFFICES ASSUME NEW d \in Suspended', NEW i, NEW g, i = co'[d].id, g = co'[d].timer
               PROVE  /\ \A s \in DOMAIN timers' :
                            timers'[s].armed /\ timers'[s].id = i => HandleOf(s)' = g
                      /\ \A h \in Handle \ {NoTimer} : Contains(tasks', StartTask(h, i)) => h = g
                      /\ Once(inbox', Timeout(i))
                      /\ Contains(inbox', Timeout(i)) => ~ Current(g)'
    BY DEF OneTimeout, StartTask, Timeout, Current, HandleOf
  <2>1. CASE d = c
    <3>1. i = id /\ g = k  BY <2>1
    <3>2. \A s \in DOMAIN timers' : ~ (timers'[s].armed /\ timers'[s].id = i)
      BY <3>1, <1>22 DEF NoTimeoutFor
    <3>3. \A h \in Handle \ {NoTimer} : Contains(tasks', StartTask(h, i)) => h = g
      BY <3>1, <1>6, TasksDiffer DEF NoTimeoutFor
    <3>4. ~ Contains(inbox', Timeout(i))  BY <3>1 DEF NoTimeoutFor
    <3>5. Once(inbox', Timeout(i))
      <4>1. inbox' \in Seq(Message)  BY <1>1 DEF TypeOK, Message
      <4> QED  BY <3>4, <4>1, NotThere
    <3> QED  BY <3>2, <3>3, <3>4, <3>5
  <2>2. CASE d # c
    <3>1. d \in Suspended /\ i = co[d].id /\ g = co[d].timer /\ i # id  BY <2>2, <1>8
    <3>2. /\ \A s \in DOMAIN timers : timers[s].armed /\ timers[s].id = i => HandleOf(s) = g
          /\ \A h \in Handle \ {NoTimer} : Contains(tasks, StartTask(h, i)) => h = g
          /\ Once(inbox, Timeout(i))
          /\ Contains(inbox, Timeout(i)) => ~ Current(g)
      BY <3>1, <1>11 DEF OneTimeout
    <3>3. Kept(g)  BY <3>1, <1>8, <1>9
    <3>4. Contains(inbox', Timeout(i)) => ~ Current(g)'
      BY <3>2, <3>3, <1>10 DEF MailboxStays
    <3>5. Once(inbox', Timeout(i))  BY <3>2 DEF MailboxStays
    <3>6. \A h \in Handle \ {NoTimer} : Contains(tasks', StartTask(h, i)) => h = g
      BY <3>1, <3>2, <1>6, TasksDiffer
    <3>7. \A s \in DOMAIN timers' : timers'[s].armed /\ timers'[s].id = i => HandleOf(s)' = g
      BY <3>2, <1>22
    <3> QED  BY <3>4, <3>5, <3>6, <3>7
  <2> QED  BY <2>1, <2>2
<1>17. TimersFresh'
  <2>1. \A s \in DOMAIN timers' : timers'[s].armed => timers'[s].id < nextID'
    <3> SUFFICES ASSUME NEW s \in DOMAIN timers', timers'[s].armed PROVE timers'[s].id < nextID'
      OBVIOUS
    <3>1. s \in DOMAIN timers /\ timers[s].armed /\ timers'[s] = timers[s]  BY <1>22
    <3>2. timers[s].id < nextID  BY <3>1, <1>11 DEF TimersFresh
    <3>3. timers[s].id \in 0 .. MaxID /\ MaxID \in Nat  BY <1>1, <3>1, TimersAre, Numbers
    <3> QED  BY <3>1, <3>2, <3>3, <1>8
  <2>2. \A i \in IDs, h \in Handle : Contains(tasks', StartTask(h, i)) => i < nextID'
    <3> TAKE i \in IDs, h \in Handle
    <3>1. CASE Contains(tasks, StartTask(h, i))
      <4>1. i < nextID  BY <3>1, <1>11 DEF TimersFresh
      <4>2. i \in Nat  BY Numbers DEF IDs
      <4> QED  BY <4>1, <4>2, <1>8
    <3>2. CASE i = id  BY <3>2, <1>8
    <3> QED  BY <3>1, <3>2, <1>6, TasksDiffer
  <2>3. \A i \in IDs : Contains(inbox', Timeout(i)) => i < nextID'
    <3> SUFFICES ASSUME NEW i \in IDs, Contains(inbox, Timeout(i)) PROVE i < nextID'
      BY DEF MailboxStays
    <3>1. i < nextID  BY <1>11 DEF TimersFresh
    <3>2. i \in Nat  BY Numbers DEF IDs
    <3> QED  BY <3>1, <3>2, <1>8
  <2> QED  BY <2>1, <2>2, <2>3 DEF TimersFresh, StartTask, Timeout
<1>18. TimeoutsOK'
  <2> SUFFICES ASSUME NEW d \in Suspended', ~ co'[d].stray, co'[d].timer # NoTimer
               PROVE  HasTimeout(d)'
    BY DEF TimeoutsOK
  <2>1. CASE d = c
    <3>1. Current(k)' /\ Contains(tasks', StartTask(k, id))  BY <2>1, <1>6, <1>22
    <3>2. co'[d].timer = k /\ co'[d].id = id  BY <2>1
    <3>3. Current(co[d].timer)' <=> Current(k)'  BY <3>2 DEF Current
    <3> QED  BY <3>1, <3>2, <3>3 DEF HasTimeout
  <2>2. CASE d # c
    <3>1. d \in Suspended /\ co'[d] = co[d]  BY <2>2, <1>8
    <3>2. HasTimeout(d)  BY <3>1, <1>11 DEF TimeoutsOK
    <3>3. PICK h, i : h = co[d].timer /\ i = co[d].id /\ h = co'[d].timer /\ i = co'[d].id  BY <3>1
    <3>4. Contains(inbox, Timeout(i)) => Contains(inbox', Timeout(i))
      BY <2>2, <3>1, <3>3 DEF MailboxStays
    <3>5. Current(h) =>
            /\ Current(h)'
            /\ timers[h[1]].armed => timers'[h[1]].armed /\ timers'[h[1]].id = timers[h[1]].id
            /\ Contains(tasks, StartTask(h, i)) => Contains(tasks', StartTask(h, i))
      BY <1>3, <1>6
    <3> QED  BY <3>1, <3>2, <3>3, <3>4, <3>5, TimeoutKept
  <2> QED  BY <2>1, <2>2
<1> QED  BY <1>12, <1>13, <1>14, <1>15, <1>16, <1>17, <1>18, <1>22 DEF TimersInv


\* Two parts of the invariant in the next state, with the names of what they are about
LEMMA OneTimeoutNext ==
  ASSUME \A d \in Suspended' : \A i, g : i = co'[d].id /\ g = co'[d].timer =>
            /\ \A s \in DOMAIN timers' :
                  timers'[s].armed /\ timers'[s].id = i => HandleOf(s)' = g
            /\ \A h \in Handle \ {NoTimer} : Contains(tasks', StartTask(h, i)) => h = g
            /\ Once(inbox', Timeout(i))
            /\ Contains(inbox', Timeout(i)) => ~ Current(g)'
  PROVE  OneTimeout'
<1>1. ASSUME NEW d \in Suspended'
      PROVE  /\ \A s \in DOMAIN timers' :
                   timers'[s].armed /\ timers'[s].id = co'[d].id => HandleOf(s)' = co'[d].timer
             /\ \A h \in Handle \ {NoTimer} :
                   Contains(tasks', StartTask(h, co[d].id)') => h = co'[d].timer
             /\ Once(inbox', Timeout(co[d].id)')
             /\ Contains(inbox', Timeout(co[d].id)') => ~ Current(co[d].timer)'
  <2>1. PICK i, g : i = co'[d].id /\ g = co'[d].timer  OBVIOUS
  <2>2. /\ \A s \in DOMAIN timers' : timers'[s].armed /\ timers'[s].id = i => HandleOf(s)' = g
        /\ \A h \in Handle \ {NoTimer} : Contains(tasks', StartTask(h, i)) => h = g
        /\ Once(inbox', Timeout(i))
        /\ Contains(inbox', Timeout(i)) => ~ Current(g)'
    BY <2>1
  <2>3. /\ \A h : StartTask(h, co[d].id)' = StartTask(h, i)
        /\ Timeout(co[d].id)' = Timeout(i)
    BY <2>1 DEF StartTask, Timeout
  <2>4. Current(co[d].timer)' <=> Current(g)'  BY <2>1 DEF Current
  <2> QED  BY <2>1, <2>2, <2>3, <2>4
<1> QED  BY <1>1 DEF OneTimeout

LEMMA TasksNext ==
  ASSUME \A q \in DOMAIN tasks' : \A h : tasks'[q].op = "start" /\ h = tasks'[q].handle /\ h # NoTimer =>
            /\ Current(h)'
            /\ ~ timers'[h[1]].armed
            /\ \A p \in DOMAIN tasks' : p < q => tasks'[p].handle # h
  PROVE  TasksOK'
<1> SUFFICES ASSUME NEW q \in DOMAIN tasks', tasks'[q].op = "start", tasks'[q].handle # NoTimer
             PROVE  /\ Current(tasks[q].handle)'
                    /\ ~ timers'[tasks'[q].handle[1]].armed
                    /\ \A p \in DOMAIN tasks' : p < q => tasks'[p].handle # tasks'[q].handle
  BY DEF TasksOK
<1>1. PICK h : h = tasks'[q].handle  OBVIOUS
<1>2. Current(h)' => Current(tasks[q].handle)'  BY <1>1 DEF Current
<1> QED  BY <1>1, <1>2

LEMMA OwnersNext ==
  ASSUME \A s \in Live' : \/ Contains(tasks', RemoveTask(HandleOf(s)'))
                          \/ \E d \in Suspended' : co'[d].timer = HandleOf(s)',
         \A d, e \in Suspended' : \A h : d # e /\ co'[d].timer = h /\ co'[e].timer = h => ~ Current(h)',
         \A d \in Suspended' : \A h : co'[d].timer = h =>
            h # Nil /\ (Contains(tasks', RemoveTask(h)) => ~ Current(h)')
  PROVE  OwnersOK'
<1>1. ASSUME NEW d \in Suspended', NEW e \in Suspended', d # e, co'[d].timer = co'[e].timer
      PROVE  ~ Current(co[d].timer)'
  <2>1. PICK h : h = co'[d].timer  OBVIOUS
  <2>2. ~ Current(h)'  BY <1>1, <2>1
  <2> QED  BY <2>1, <2>2 DEF Current
<1>2. ASSUME NEW d \in Suspended'
      PROVE  /\ co'[d].timer # Nil
             /\ Contains(tasks', RemoveTask(co'[d].timer)) => ~ Current(co[d].timer)'
  <2>1. PICK h : h = co'[d].timer  OBVIOUS
  <2>2. h # Nil /\ (Contains(tasks', RemoveTask(h)) => ~ Current(h)')  BY <2>1
  <2>3. Current(co[d].timer)' <=> Current(h)'  BY <2>1 DEF Current
  <2> QED  BY <2>1, <2>2, <2>3
<1>3. \A s : RemoveTask(HandleOf(s))' = RemoveTask(HandleOf(s)')  BY DEF RemoveTask
<1>4. TimersOwned'  BY <1>1, <1>3 DEF TimersOwned
<1>5. \A d : RemoveTask(co[d].timer)' = RemoveTask(co'[d].timer)  BY DEF RemoveTask
<1> QED  BY <1>2, <1>4, <1>5 DEF OwnersOK

\* No timer is taken or given back and none is started: coroutines go on with the timers
\* that they have, under another ID only as strays, or end and have them removed.
LEMMA WaitsGoOn ==
  ASSUME IInv, IInv', TimersInv, UNCHANGED <<timers, idle>>,
         NEW new \in Seq(Task), Post(new),
         \A t : Contains(new, t) => t.op # "start" /\ Kept(t.handle),
         NEW c, c \notin Suspended', MailboxStays(c), nextID <= nextID',
         \A d \in Coroutines : co'[d].timer \in {co[d].timer, Nil},
         \A d \in Suspended' :
            /\ d \in Suspended /\ co'[d].timer = co[d].timer
            /\ \/ co'[d].id = co[d].id /\ co'[d].stray = co[d].stray
               \/ co'[d].stray /\ NoTimeoutFor(co'[d].id),
         \A d \in Suspended : d \notin Suspended' /\ Current(co[d].timer) =>
                                 Contains(new, RemoveTask(co[d].timer)),
         \A d \in Suspended' : Contains(new, RemoveTask(co[d].timer)) => ~ Current(co[d].timer)
  PROVE  TimersInv'
<1>1. TypeOK /\ TypeOK' /\ TimersTypeOK /\ TimersTypeOK'  BY DEF IInv, TypeOK
<1>2. PoolOK /\ KeptOK /\ TasksOK /\ StartedOK /\ OwnersOK /\ OneTimeout /\ TimersFresh /\ TimeoutsOK
  BY DEF TimersInv
\* The timers
<1>3. /\ timers' = timers /\ idle' = idle /\ Live' = Live /\ PoolOK'
      /\ \A s : HandleOf(s)' = HandleOf(s)
      /\ \A h : Current(h)' <=> Current(h)
  BY <1>2 DEF Live, PoolOK, HandleOf, Current
\* The tasks
<1>4. tasks \in Seq(Task) /\ DOMAIN tasks = 1 .. Len(tasks) /\ Len(tasks) \in Nat
  BY <1>1, LenProperties DEF TimersTypeOK
<1>5. /\ \A t : Contains(tasks', t) <=> Contains(tasks, t) \/ Contains(new, t)
      /\ \A j \in DOMAIN tasks' : \/ j \in DOMAIN tasks /\ tasks'[j] = tasks[j]
                                  \/ \E i \in DOMAIN new : j = Len(tasks) + i /\ tasks'[j] = new[i]
      /\ \A j \in DOMAIN tasks : j \in DOMAIN tasks' /\ tasks'[j] = tasks[j]
  BY <1>4, TasksPosted
<1>6. /\ \A j \in DOMAIN new : j \in Nat \ {0} /\ Contains(new, new[j])
  <2>1. DOMAIN new = 1 .. Len(new) /\ Len(new) \in Nat  BY LenProperties
  <2> QED  BY <2>1 DEF Contains
<1>7. \A j \in DOMAIN tasks' :
        \/ j \in DOMAIN tasks /\ tasks'[j] = tasks[j]
        \/ j \in Nat /\ j > Len(tasks) /\ tasks'[j].op # "start" /\ Kept(tasks'[j].handle)
  <2> TAKE j \in DOMAIN tasks'
  <2>1. ASSUME NEW i \in DOMAIN new, j = Len(tasks) + i, tasks'[j] = new[i]
        PROVE  j \in Nat /\ j > Len(tasks) /\ tasks'[j].op # "start" /\ Kept(tasks'[j].handle)
    <3>1. i \in Nat \ {0} /\ Contains(new, new[i])  BY <1>6
    <3>2. j \in Nat /\ j > Len(tasks)  BY <2>1, <3>1, <1>4
    <3> QED  BY <2>1, <3>1, <3>2
  <2> QED  BY <1>5, <2>1
<1>8. \A h, i : Contains(tasks', StartTask(h, i)) <=> Contains(tasks, StartTask(h, i))
  BY <1>5, TasksDiffer
<1>9. \A d \in Coroutines : co[d].timer \in Handle /\ Kept(co[d].timer)
  BY <1>1, TimerHeld
<1>10. \A j \in DOMAIN tasks : Kept(tasks[j].handle)  BY <1>1, TasksKept
<1>11. \A d \in Suspended : d \in Coroutines  BY DEF Suspended
\* The parts of the invariant
<1>12. KeptOK'
  <2> SUFFICES ASSUME NEW h \in Handle, Kept(h)', h \notin {Nil, NoTimer}
               PROVE  h[1] \in DOMAIN timers
    BY <1>3 DEF KeptOK
  <2>1. CASE \E p \in DOMAIN tasks' : tasks'[p].handle = h
    BY <2>1, <1>2, <1>7, <1>10 DEF KeptOK
  <2>2. CASE \E d \in Coroutines : co'[d].timer = h
    BY <2>2, <1>2, <1>9 DEF KeptOK
  <2> QED  BY <2>1, <2>2 DEF Kept
<1>13. TasksOK'
  <2>1. ASSUME NEW q \in DOMAIN tasks', NEW h,
               tasks'[q].op = "start", h = tasks'[q].handle, h # NoTimer
        PROVE  /\ Current(h)'
               /\ ~ timers'[h[1]].armed
               /\ \A p \in DOMAIN tasks' : p < q => tasks'[p].handle # h
    <3>1. q \in DOMAIN tasks /\ tasks'[q] = tasks[q]  BY <1>7, <2>1
    <3>2. /\ Current(h) /\ ~ timers[h[1]].armed
          /\ \A p \in DOMAIN tasks : p < q => tasks[p].handle # h
      BY <2>1, <3>1, <1>2 DEF TasksOK
    <3>3. \A p \in DOMAIN tasks' : p < q => p \in DOMAIN tasks /\ tasks'[p] = tasks[p]
      BY <3>1, <1>4, <1>7
    <3> QED  BY <3>2, <3>3, <1>3
  <2> QED  BY <2>1, TasksNext
<1>14. StartedOK'
  <2>1. \A s \in Live : timers[s].armed \/ \E i \in IDs : Contains(tasks', StartTask(HandleOf(s), i))
    BY <1>2, <1>8 DEF StartedOK
  <2>2. \A s, i : StartTask(HandleOf(s), i)' = StartTask(HandleOf(s)', i)  BY DEF StartTask
  <2> QED  BY <2>1, <2>2, <1>3 DEF StartedOK
<1>15. OwnersOK'
  <2>1. ASSUME NEW s \in Live
        PROVE  \/ Contains(tasks', RemoveTask(HandleOf(s)))
               \/ \E d \in Suspended' : co'[d].timer = HandleOf(s)
    <3>1. CASE Contains(tasks, RemoveTask(HandleOf(s)))  BY <3>1, <1>5
    <3>2. ASSUME NEW d \in Suspended, co[d].timer = HandleOf(s), d \notin Suspended'
          PROVE  Contains(new, RemoveTask(HandleOf(s)))
      <4>1. Current(co[d].timer)  BY <3>2, HandlesAre DEF Live
      <4> QED  BY <3>2, <4>1
    <3>3. \A d \in Suspended' : co'[d].timer = co[d].timer  OBVIOUS
    <3> QED  BY <3>1, <3>2, <3>3, <1>2, <1>5 DEF OwnersOK, TimersOwned
  <2>2. ASSUME NEW d \in Suspended', NEW e \in Suspended', NEW h,
               d # e, co'[d].timer = h, co'[e].timer = h
        PROVE  ~ Current(h)'
    <3>1. d \in Suspended /\ e \in Suspended /\ co[d].timer = h /\ co[e].timer = h  BY <2>2
    <3>2. ~ Current(h)  BY <2>2, <3>1, <1>2 DEF OwnersOK, TimersOwned
    <3> QED  BY <3>2, <1>3
  <2>3. ASSUME NEW d \in Suspended', NEW h, co'[d].timer = h
        PROVE  h # Nil /\ (Contains(tasks', RemoveTask(h)) => ~ Current(h)')
    <3>1. d \in Suspended /\ co[d].timer = h  BY <2>3
    <3>2. h # Nil /\ (Contains(tasks, RemoveTask(h)) => ~ Current(h))  BY <3>1, <1>2 DEF OwnersOK
    <3>3. Contains(new, RemoveTask(h)) => ~ Current(h)  BY <3>1
    <3> QED  BY <3>2, <3>3, <1>3, <1>5
  <2> QED
    <3>1. \A s \in Live' : \/ Contains(tasks', RemoveTask(HandleOf(s)'))
                           \/ \E d \in Suspended' : co'[d].timer = HandleOf(s)'
      BY <2>1, <1>3
    <3> QED  BY <2>2, <2>3, <3>1, OwnersNext
<1>16. OneTimeout'
  <2>1. ASSUME NEW d \in Suspended', NEW i, NEW g, i = co'[d].id, g = co'[d].timer
        PROVE  /\ \A s \in DOMAIN timers' :
                     timers'[s].armed /\ timers'[s].id = i => HandleOf(s)' = g
               /\ \A h \in Handle \ {NoTimer} : Contains(tasks', StartTask(h, i)) => h = g
               /\ Once(inbox', Timeout(i))
               /\ Contains(inbox', Timeout(i)) => ~ Current(g)'
    <3>1. CASE NoTimeoutFor(i)
      <4>1. inbox' \in Seq(Message)  BY <1>1 DEF TypeOK, Message
      <4>2. Once(inbox', Timeout(i))  BY <3>1, <4>1, NotThere DEF NoTimeoutFor
      <4> QED  BY <3>1, <4>2, <1>3, <1>8 DEF NoTimeoutFor
    <3>2. CASE co'[d].id = co[d].id
      <4>1. d \in Suspended /\ co[d].id = i /\ co[d].timer = g  BY <2>1, <3>2
      <4>2. /\ \A s \in DOMAIN timers : timers[s].armed /\ timers[s].id = i => HandleOf(s) = g
            /\ \A h \in Handle \ {NoTimer} : Contains(tasks, StartTask(h, i)) => h = g
            /\ Once(inbox, Timeout(i))
            /\ Contains(inbox, Timeout(i)) => ~ Current(g)
        BY <4>1, <1>2 DEF OneTimeout
      <4> QED  BY <4>2, <1>3, <1>8 DEF MailboxStays
    <3> QED  BY <2>1, <3>1, <3>2
  <2> QED  BY <2>1, OneTimeoutNext
<1>17. TimersFresh'
  <2>1. nextID \in 1 .. MaxID + 1 /\ nextID' \in 1 .. MaxID + 1 /\ MaxID \in Nat
    BY <1>1, Numbers DEF TypeOK
  <2>2. nextID \in Nat /\ nextID' \in Nat  BY <2>1
  <2>3. \A i \in Nat : i < nextID => i < nextID'  BY <2>2
  <2>4. IDs \subseteq Nat  BY Numbers DEF IDs
  <2>5. \A s \in DOMAIN timers : timers[s].id \in Nat  BY <1>1, TimersAre, Numbers
  <2> QED  BY <2>3, <2>4, <2>5, <1>2, <1>3, <1>8 DEF TimersFresh, StartTask, Timeout, MailboxStays
<1>18. TimeoutsOK'
  <2> SUFFICES ASSUME NEW d \in Suspended', ~ co'[d].stray, co'[d].timer # NoTimer
               PROVE  HasTimeout(d)'
    BY DEF TimeoutsOK
  <2>1. PICK h, i : h = co[d].timer /\ i = co[d].id /\ h = co'[d].timer /\ i = co'[d].id
    OBVIOUS
  <2>2. d \in Suspended /\ d # c /\ HasTimeout(d)  BY <2>1, <1>2 DEF TimeoutsOK
  <2>3. Contains(inbox, Timeout(i)) => Contains(inbox', Timeout(i))
    BY <2>1, <2>2 DEF MailboxStays
  <2> QED  BY <2>1, <2>2, <2>3, <1>3, <1>8, TimeoutKept
<1> QED  BY <1>3, <1>12, <1>13, <1>14, <1>15, <1>16, <1>17, <1>18 DEF TimersInv

-----------------------------------------------------------------------------
\* A timer has been given back.  Its handle was current and nobody gets the next one.
LEMMA HandleGone ==
  ASSUME TimersTypeOK, PoolOK, NEW s \in Live, RemoveTimerHandle(s), NoHandleReused'
  PROVE  /\ \A h : Kept(h)' /\ Current(h)' => Current(h) /\ h # HandleOf(s)
         /\ \A h : Current(h) /\ h # HandleOf(s) => Current(h)' /\ timers'[h[1]] = timers[h[1]]
         /\ \A t \in Live' : t \in Live /\ t # s /\ HandleOf(t)' = HandleOf(t)
                             /\ timers'[t] = timers[t]
         /\ \A t \in DOMAIN timers' : t \in DOMAIN timers /\ (t # s => timers'[t] = timers[t])
         /\ \A t : t # s => HandleOf(t) # HandleOf(s)
         /\ \A t \in DOMAIN timers : t # s => HandleOf(t)' = HandleOf(t)
         /\ Current(HandleOf(s)) /\ ~ timers'[s].armed
<1>1. /\ s \in DOMAIN timers /\ DOMAIN timers' = DOMAIN timers
      /\ \A t \in DOMAIN timers : t # s => timers'[t] = timers[t]
      /\ ~ timers'[s].armed /\ Live' = Live \ {s}
  BY SlotGivenBack
<1>2. \A t \in DOMAIN timers : t # s => HandleOf(t)' = HandleOf(t)  BY <1>1, HandlesAre
<1>3. ASSUME NEW h, Kept(h)', Current(h)'
      PROVE  Current(h) /\ h # HandleOf(s)
  <2>1. PICK t \in DOMAIN timers : h = HandleOf(t)'  BY <1>1, <1>3, HandlesAre
  <2>2. t # s
    <3> SUFFICES ASSUME t = s PROVE FALSE  OBVIOUS
    <3>1. s \in DOMAIN timers' /\ s \notin Live'  BY <1>1
    <3>2. ~ Kept(HandleOf(s))'  BY <3>1 DEF NoHandleReused
    <3>3. Kept(HandleOf(s))' <=> Kept(h)'  BY <2>1 DEF Kept
    <3> QED  BY <1>3, <3>2, <3>3
  <2> QED  BY <2>1, <2>2, <1>2, HandlesAre
<1>4. ASSUME NEW h, Current(h), h # HandleOf(s)
      PROVE  Current(h)' /\ timers'[h[1]] = timers[h[1]]
  <2>1. PICK t \in DOMAIN timers : h = HandleOf(t)  BY <1>4, HandlesAre
  <2>2. t # s /\ h[1] = t  BY <1>4, <2>1, HandlesAre
  <2> QED  BY <2>1, <2>2, <1>1, <1>2, HandlesAre
<1>5. \A t \in Live : t \in DOMAIN timers  BY DEF Live
<1> QED  BY <1>1, <1>2, <1>3, <1>4, <1>5, HandlesAre

\* A message at the end of the mailbox
LEMMA MailboxGrows ==
  ASSUME NEW q \in Seq(Message), NEW m \in Message
  PROVE  /\ \A x : Contains(Append(q, m), x) <=> Contains(q, x) \/ x = m
         /\ \A x : Once(q, x) /\ (x = m => ~ Contains(q, x)) => Once(Append(q, m), x)
<1> DEFINE r == Append(q, m)
           n == Len(q)
<1>1. /\ n \in Nat /\ DOMAIN q = 1 .. n
      /\ Len(r) = n + 1 /\ DOMAIN r = 1 .. n + 1
      /\ \A k \in 1 .. n : r[k] = q[k]
      /\ r[n + 1] = m
  <2>1. r \in Seq(Message)  BY AppendProperties
  <2> QED  BY <2>1, AppendProperties, LenProperties
<1>2. Len(q) = n  OBVIOUS
<1> HIDE DEF r, n
<1>3. \A k \in 1 .. n + 1 : k \in 1 .. n \/ k = n + 1  BY <1>1
<1>4. \A k \in 1 .. n : k \in 1 .. n + 1  BY <1>1
<1>5. n + 1 \in 1 .. n + 1  BY <1>1
<1>6. \A x : Contains(r, x) <=> Contains(q, x) \/ x = m
  BY <1>1, <1>2, <1>3, <1>4, <1>5 DEF Contains
<1>7. ASSUME NEW x, Once(q, x), x = m => ~ Contains(q, x)
      PROVE  Once(r, x)
  <2> SUFFICES ASSUME NEW j \in 1 .. n + 1, NEW k \in 1 .. n + 1, r[j] = x, r[k] = x
               PROVE  j = k
    BY <1>1 DEF Once
  <2>1. \A l \in 1 .. n : r[l] = x => Contains(q, x)  BY <1>1, <1>2 DEF Contains
  <2>2. CASE x = m  BY <2>1, <2>2, <1>3, <1>7
  <2>3. CASE x # m
    <3>1. j \in 1 .. n /\ k \in 1 .. n  BY <2>3, <1>1, <1>3
    <3>2. q[j] = x /\ q[k] = x  BY <3>1, <1>1
    <3> QED  BY <3>1, <3>2, <1>1, <1>7 DEF Once
  <2> QED  BY <2>2, <2>3
<1> QED  BY <1>6, <1>7 DEF r

\* timerCallback: the timer has fired and is given back.
LEMMA FireTimers ==
  ASSUME IInv, IInv', TimersInv, NoHandleReused', NEW s \in 1 .. MaxTimers, Fire(s)
  PROVE  TimersInv'
<1>1. TypeOK /\ TypeOK' /\ TimersTypeOK /\ TimersTypeOK' /\ inbox \in Seq(Message)
  BY DEF IInv, TypeOK, Message
<1>2. PoolOK /\ KeptOK /\ TasksOK /\ StartedOK /\ OwnersOK /\ OneTimeout /\ TimersFresh /\ TimeoutsOK
  BY DEF TimersInv
<1>3. PICK i0 : i0 = timers[s].id  OBVIOUS
<1>4. /\ s \in DOMAIN timers /\ timers[s].armed /\ RemoveTimerHandle(s) /\ tasks' = tasks
      /\ inbox' = Append(inbox, Timeout(i0)) /\ co' = co /\ nextID' = nextID
  BY <1>3 DEF Fire, Expire, Timeout
<1>5. s \in Live  BY <1>2, <1>4 DEF PoolOK
<1>6. PICK h0 : h0 = HandleOf(s)  OBVIOUS
<1>7. /\ \A h : Kept(h)' /\ Current(h)' => Current(h) /\ h # h0
      /\ \A h : Current(h) /\ h # h0 => Current(h)' /\ timers'[h[1]] = timers[h[1]]
      /\ \A t \in Live' : t \in Live /\ t # s /\ HandleOf(t)' = HandleOf(t) /\ timers'[t] = timers[t]
      /\ \A t \in DOMAIN timers' : t \in DOMAIN timers /\ (t # s => timers'[t] = timers[t])
      /\ \A t : t # s => HandleOf(t) # h0
      /\ \A t \in DOMAIN timers : t # s => HandleOf(t)' = HandleOf(t)
      /\ Current(h0) /\ ~ timers'[s].armed /\ h0[1] = s
  BY <1>1, <1>2, <1>4, <1>5, <1>6, HandleGone, HandlesAre
<1>8. DOMAIN timers' = DOMAIN timers /\ PoolOK'  BY <1>1, <1>2, <1>4, <1>5, SlotGivenBack
<1>9. i0 \in 0 .. MaxID /\ Timeout(i0) \in Message
  <2>1. i0 \in 0 .. MaxID  BY <1>1, <1>3, <1>4, TimersAre
  <2> QED  BY <2>1 DEF Timeout, Message
<1>10. /\ \A i : Contains(inbox', Timeout(i)) <=> Contains(inbox, Timeout(i)) \/ i = i0
       /\ \A i : Once(inbox, Timeout(i)) /\ (i = i0 => ~ Contains(inbox, Timeout(i)))
                    => Once(inbox', Timeout(i))
  <2>1. \A i : Timeout(i) = Timeout(i0) <=> i = i0  BY DEF Timeout
  <2>2. /\ \A x : Contains(inbox', x) <=> Contains(inbox, x) \/ x = Timeout(i0)
        /\ \A x : Once(inbox, x) /\ (x = Timeout(i0) => ~ Contains(inbox, x)) => Once(inbox', x)
    BY <1>1, <1>4, <1>9, MailboxGrows
  <2> QED  BY <2>1, <2>2
<1>11. Suspended' = Suspended  BY <1>4 DEF Suspended
<1>12. \A h : Kept(h)' <=> Kept(h)  BY <1>4 DEF Kept
<1>13. \A d \in Suspended : d \in Coroutines  BY DEF Suspended
<1>14. \A d \in Suspended : \A h : co[d].timer = h => Kept(h)'  BY <1>1, <1>12, <1>13, TimerHeld
\* The parts of the invariant
<1>15. KeptOK'  BY <1>2, <1>8, <1>12 DEF KeptOK
<1>16. TasksOK'
  <2>1. ASSUME NEW q \in DOMAIN tasks, NEW h, tasks[q].op = "start", h = tasks[q].handle, h # NoTimer
        PROVE  /\ Current(h)'
               /\ ~ timers'[h[1]].armed
               /\ \A p \in DOMAIN tasks : p < q => tasks[p].handle # h
    <3>1. /\ Current(h) /\ ~ timers[h[1]].armed
          /\ \A p \in DOMAIN tasks : p < q => tasks[p].handle # h
      BY <2>1, <1>2 DEF TasksOK
    <3>2. h # h0  BY <3>1, <1>4, <1>7
    <3> QED  BY <3>1, <3>2, <1>7
  <2> QED  BY <2>1, <1>4, TasksNext
<1>17. StartedOK'
  <2>1. \A t \in Live' : timers'[t].armed \/ \E i \in IDs : Contains(tasks', StartTask(HandleOf(t)', i))
    BY <1>2, <1>4, <1>7 DEF StartedOK
  <2> QED  BY <2>1 DEF StartedOK, StartTask
<1>18. OwnersOK'
  <2>1. \A t \in Live' : \/ Contains(tasks', RemoveTask(HandleOf(t)'))
                         \/ \E d \in Suspended' : co'[d].timer = HandleOf(t)'
    BY <1>2, <1>4, <1>7, <1>11 DEF OwnersOK, TimersOwned
  <2>2. ASSUME NEW d \in Suspended', NEW e \in Suspended', NEW h,
               d # e, co'[d].timer = h, co'[e].timer = h
        PROVE  ~ Current(h)'
    <3>1. d \in Suspended /\ e \in Suspended /\ co[d].timer = h /\ co[e].timer = h
      BY <2>2, <1>4, <1>11
    <3>2. ~ Current(h)  BY <2>2, <3>1, <1>2 DEF OwnersOK, TimersOwned
    <3> QED  BY <3>1, <3>2, <1>7, <1>14
  <2>3. ASSUME NEW d \in Suspended', NEW h, co'[d].timer = h
        PROVE  h # Nil /\ (Contains(tasks', RemoveTask(h)) => ~ Current(h)')
    <3>1. d \in Suspended /\ co[d].timer = h  BY <2>3, <1>4, <1>11
    <3>2. h # Nil /\ (Contains(tasks, RemoveTask(h)) => ~ Current(h))  BY <3>1, <1>2 DEF OwnersOK
    <3> QED  BY <3>1, <3>2, <1>4, <1>7, <1>14
  <2> QED  BY <2>1, <2>2, <2>3, OwnersNext
<1>19. OneTimeout'
  <2>1. ASSUME NEW d \in Suspended', NEW i, NEW g, i = co'[d].id, g = co'[d].timer
        PROVE  /\ \A t \in DOMAIN timers' :
                     timers'[t].armed /\ timers'[t].id = i => HandleOf(t)' = g
               /\ \A h \in Handle \ {NoTimer} : Contains(tasks', StartTask(h, i)) => h = g
               /\ Once(inbox', Timeout(i))
               /\ Contains(inbox', Timeout(i)) => ~ Current(g)'
    <3>1. d \in Suspended /\ i = co[d].id /\ g = co[d].timer  BY <2>1, <1>4, <1>11
    <3>2. /\ \A t \in DOMAIN timers : timers[t].armed /\ timers[t].id = i => HandleOf(t) = g
          /\ \A h \in Handle \ {NoTimer} : Contains(tasks, StartTask(h, i)) => h = g
          /\ Once(inbox, Timeout(i))
          /\ Contains(inbox, Timeout(i)) => ~ Current(g)
      BY <3>1, <1>2 DEF OneTimeout
    <3>3. i = i0 => g = h0 /\ ~ Contains(inbox, Timeout(i))  BY <3>2, <1>3, <1>4, <1>6, <1>7
    <3>4. Once(inbox', Timeout(i))  BY <3>2, <3>3, <1>10
    <3>5. Contains(inbox', Timeout(i)) => ~ Current(g)'
      BY <3>1, <3>2, <3>3, <1>7, <1>10, <1>14
    <3>6. \A t \in DOMAIN timers' : timers'[t].armed /\ timers'[t].id = i => HandleOf(t)' = g
      BY <3>2, <1>7
    <3> QED  BY <3>2, <3>4, <3>5, <3>6, <1>4
  <2> QED  BY <2>1, OneTimeoutNext
<1>20. TimersFresh'
  <2>1. i0 < nextID  BY <1>2, <1>3, <1>4 DEF TimersFresh
  <2>2. \A t \in DOMAIN timers' : timers'[t].armed => t \in DOMAIN timers /\ timers'[t] = timers[t]
    BY <1>7
  <2>3. \A t \in DOMAIN timers' : timers'[t].armed => timers'[t].id < nextID'
    BY <2>2, <1>2, <1>4 DEF TimersFresh
  <2>4. \A i \in IDs, h \in Handle : Contains(tasks', StartTask(h, i)) => i < nextID'
    BY <1>2, <1>4 DEF TimersFresh
  <2>5. \A i \in IDs : Contains(inbox', Timeout(i)) => i < nextID'
    BY <2>1, <1>2, <1>4, <1>10 DEF TimersFresh
  <2> QED  BY <2>3, <2>4, <2>5 DEF TimersFresh, StartTask, Timeout
<1>21. TimeoutsOK'
  <2> SUFFICES ASSUME NEW d \in Suspended', ~ co'[d].stray, co'[d].timer # NoTimer
               PROVE  HasTimeout(d)'
    BY DEF TimeoutsOK
  <2>1. PICK h, i : h = co[d].timer /\ i = co[d].id /\ h = co'[d].timer /\ i = co'[d].id
    BY <1>4
  <2>2. d \in Suspended /\ HasTimeout(d)  BY <1>2, <1>4, <1>11 DEF TimeoutsOK
  <2>3. CASE Contains(inbox', Timeout(i))
    <3>1. Timeout(i) = [type |-> "timeout", id |-> co'[d].id]  BY <2>1 DEF Timeout
    <3> QED  BY <2>3, <3>1 DEF HasTimeout
  <2>4. CASE ~ Contains(inbox', Timeout(i))
    <3>1. ~ Contains(inbox, Timeout(i)) /\ i # i0  BY <2>4, <1>10
    <3>2. /\ Current(h)
          /\ (timers[h[1]].armed /\ timers[h[1]].id = i) \/ Contains(tasks, StartTask(h, i))
      BY <2>1, <2>2, <3>1 DEF HasTimeout, Timeout
    <3>3. h # h0
      <4>1. CASE timers[h[1]].id = i  BY <4>1, <3>1, <1>3, <1>7
      <4>2. CASE Contains(tasks, StartTask(h, i))
        <5>1. PICK q \in DOMAIN tasks : tasks[q] = StartTask(h, i)  BY <4>2, <1>1, TasksKept
        <5>2. ~ timers[h[1]].armed
          <6>1. tasks[q].op = "start" /\ tasks[q].handle = h  BY <5>1, TasksDiffer
          <6>2. h # NoTimer  BY <3>2, <1>1, NoSlot
          <6> QED  BY <6>1, <6>2, <1>2 DEF TasksOK
        <5> QED  BY <5>2, <1>4, <1>7
      <4> QED  BY <3>2, <4>1, <4>2
    <3>4. Current(h)' /\ timers'[h[1]] = timers[h[1]]  BY <3>2, <3>3, <1>7
    <3> QED  BY <2>1, <2>2, <3>1, <3>4, <1>4, TimeoutKept
  <2> QED  BY <2>3, <2>4
<1> QED  BY <1>8, <1>15, <1>16, <1>17, <1>18, <1>19, <1>20, <1>21 DEF TimersInv

-----------------------------------------------------------------------------
\* The main thread takes its first task.
LEMMA TaskTaken ==
  ASSUME TypeOK, TasksOK, tasks # <<>>, tasks' = Tail(tasks), co' = co, NEW t, t = Head(tasks)
  PROVE  /\ t \in Task /\ Contains(tasks, t) /\ Kept(t.handle)
         /\ \A m : Contains(tasks', m) => Contains(tasks, m)
         /\ \A m : Contains(tasks, m) => m = t \/ Contains(tasks', m)
         /\ \A h : Kept(h)' => Kept(h)
         /\ \A h, i : Contains(tasks, StartTask(h, i)) /\ h # NoTimer =>
               Current(h) /\ ~ timers[h[1]].armed
         /\ \A h, i : Contains(tasks', StartTask(h, i)) /\ h # NoTimer => h # t.handle
         /\ \A q \in DOMAIN tasks' : \A h :
               tasks'[q].op = "start" /\ h = tasks'[q].handle /\ h # NoTimer =>
                  /\ Current(h) /\ ~ timers[h[1]].armed /\ h # t.handle
                  /\ \A p \in DOMAIN tasks' : p < q => tasks'[p].handle # h
<1>1. tasks \in Seq(Task)  BY DEF TypeOK, TimersTypeOK
<1>2. /\ tasks' \in Seq(Task) /\ t \in Task /\ t = tasks[1] /\ 1 \in DOMAIN tasks
      /\ \A j \in DOMAIN tasks' : j \in Nat /\ j + 1 \in DOMAIN tasks /\ tasks'[j] = tasks[j + 1]
      /\ \A m : Contains(tasks', m) => Contains(tasks, m)
      /\ \A m : Contains(tasks, m) => m = t \/ Contains(tasks', m)
  BY <1>1, TakenFirst
<1>3. DOMAIN tasks' = 1 .. Len(tasks') /\ Len(tasks') \in Nat  BY <1>2, LenProperties
<1>4. Contains(tasks, t) /\ Kept(t.handle)  BY <1>2, TasksKept
<1>5. \A h : Kept(h)' => Kept(h)  BY <1>2 DEF Kept
<1>6. ASSUME NEW h, NEW i, Contains(tasks, StartTask(h, i)), h # NoTimer
      PROVE  Current(h) /\ ~ timers[h[1]].armed
  <2>1. PICK q \in DOMAIN tasks : tasks[q] = StartTask(h, i)  BY <1>6, TasksKept
  <2>2. tasks[q].op = "start" /\ tasks[q].handle = h  BY <2>1, TasksDiffer
  <2> QED  BY <2>2, <1>6 DEF TasksOK
<1>7. ASSUME NEW q \in DOMAIN tasks', NEW h,
             tasks'[q].op = "start", h = tasks'[q].handle, h # NoTimer
      PROVE  /\ Current(h) /\ ~ timers[h[1]].armed /\ h # t.handle
             /\ \A p \in DOMAIN tasks' : p < q => tasks'[p].handle # h
  <2>1. q \in Nat \ {0} /\ q + 1 \in DOMAIN tasks /\ tasks'[q] = tasks[q + 1]  BY <1>2, <1>3
  <2>2. /\ Current(h) /\ ~ timers[h[1]].armed
        /\ \A p \in DOMAIN tasks : p < q + 1 => tasks[p].handle # h
    BY <1>7, <2>1 DEF TasksOK
  <2>3. 1 < q + 1  BY <2>1
  <2>4. h # t.handle  BY <2>2, <2>3, <1>2
  <2>5. \A p \in DOMAIN tasks' : p < q => p + 1 < q + 1  BY <2>1, <1>2
  <2> QED  BY <2>2, <2>4, <2>5, <1>2
<1>8. ASSUME NEW h, NEW i, Contains(tasks', StartTask(h, i)), h # NoTimer
      PROVE  h # t.handle
  <2>1. PICK q \in DOMAIN tasks' : tasks'[q] = StartTask(h, i)  BY <1>3, <1>8 DEF Contains
  <2>2. tasks'[q].op = "start" /\ tasks'[q].handle = h  BY <2>1, TasksDiffer
  <2> QED  BY <2>2, <1>7, <1>8
<1> QED  BY <1>2, <1>4, <1>5, <1>6, <1>7, <1>8

\* A task of an old handle, or the change of a timer: nothing happens.
LEMMA NoEffect ==
  ASSUME IInv, IInv', TimersInv, UNCHANGED rpcVars, UNCHANGED <<timers, idle>>,
         tasks # <<>>, tasks' = Tail(tasks),
         NEW t, t = Head(tasks), ~ Current(t.handle) \/ t.op = "change"
  PROVE  TimersInv'
<1>1. TypeOK /\ TypeOK' /\ TimersTypeOK /\ TimersTypeOK'  BY DEF IInv, TypeOK
<1>2. PoolOK /\ KeptOK /\ TasksOK /\ StartedOK /\ OwnersOK /\ OneTimeout /\ TimersFresh /\ TimeoutsOK
  BY DEF TimersInv
<1>3. co' = co /\ inbox' = inbox /\ nextID' = nextID /\ Suspended' = Suspended
  BY DEF rpcVars, Suspended
<1>4. /\ timers' = timers /\ idle' = idle /\ Live' = Live /\ PoolOK'
      /\ \A s : HandleOf(s)' = HandleOf(s)
      /\ \A h : Current(h)' <=> Current(h)
      /\ \A s \in Live : Current(HandleOf(s))
  BY <1>2, HandlesAre DEF Live, PoolOK, HandleOf, Current
<1>5. /\ \A m : Contains(tasks', m) => Contains(tasks, m)
      /\ \A m : Contains(tasks, m) => m = t \/ Contains(tasks', m)
      /\ \A h : Kept(h)' => Kept(h)
      /\ \A q \in DOMAIN tasks' : \A h :
            tasks'[q].op = "start" /\ h = tasks'[q].handle /\ h # NoTimer =>
               /\ Current(h) /\ ~ timers[h[1]].armed
               /\ \A p \in DOMAIN tasks' : p < q => tasks'[p].handle # h
  BY <1>1, <1>2, <1>3, TaskTaken
<1>6. \A h : Current(h) => /\ t # RemoveTask(h)
                           /\ \A i : t # StartTask(h, i)
  BY TasksDiffer
<1>7. KeptOK'  BY <1>2, <1>4, <1>5 DEF KeptOK
<1>8. TasksOK'  BY <1>4, <1>5, TasksNext
<1>9. StartedOK'
  <2>1. \A s \in Live' : timers'[s].armed \/ \E i \in IDs : Contains(tasks', StartTask(HandleOf(s)', i))
    BY <1>2, <1>4, <1>5, <1>6 DEF StartedOK
  <2> QED  BY <2>1 DEF StartedOK, StartTask
<1>10. OwnersOK'
  <2>1. \A s \in Live' : \/ Contains(tasks', RemoveTask(HandleOf(s)'))
                         \/ \E d \in Suspended' : co'[d].timer = HandleOf(s)'
    BY <1>2, <1>3, <1>4, <1>5, <1>6 DEF OwnersOK, TimersOwned
  <2>2. \A d, e \in Suspended' : \A h : d # e /\ co'[d].timer = h /\ co'[e].timer = h => ~ Current(h)'
    BY <1>2, <1>3, <1>4 DEF OwnersOK, TimersOwned
  <2>3. \A d \in Suspended' : \A h : co'[d].timer = h =>
            h # Nil /\ (Contains(tasks', RemoveTask(h)) => ~ Current(h)')
    BY <1>2, <1>3, <1>4, <1>5 DEF OwnersOK
  <2> QED  BY <2>1, <2>2, <2>3, OwnersNext
<1>11. OneTimeout'
  <2>1. ASSUME NEW d \in Suspended', NEW i, NEW g, i = co'[d].id, g = co'[d].timer
        PROVE  /\ \A s \in DOMAIN timers' :
                     timers'[s].armed /\ timers'[s].id = i => HandleOf(s)' = g
               /\ \A h \in Handle \ {NoTimer} : Contains(tasks', StartTask(h, i)) => h = g
               /\ Once(inbox', Timeout(i))
               /\ Contains(inbox', Timeout(i)) => ~ Current(g)'
    <3>1. d \in Suspended /\ i = co[d].id /\ g = co[d].timer  BY <2>1, <1>3
    <3>2. /\ \A s \in DOMAIN timers : timers[s].armed /\ timers[s].id = i => HandleOf(s) = g
          /\ \A h \in Handle \ {NoTimer} : Contains(tasks, StartTask(h, i)) => h = g
          /\ Once(inbox, Timeout(i))
          /\ Contains(inbox, Timeout(i)) => ~ Current(g)
      BY <3>1, <1>2 DEF OneTimeout
    <3> QED  BY <3>2, <1>3, <1>4, <1>5
  <2> QED  BY <2>1, OneTimeoutNext
<1>12. TimersFresh'
  BY <1>2, <1>3, <1>4, <1>5 DEF TimersFresh, StartTask, Timeout
<1>13. TimeoutsOK'
  <2> SUFFICES ASSUME NEW d \in Suspended', ~ co'[d].stray, co'[d].timer # NoTimer
               PROVE  HasTimeout(d)'
    BY DEF TimeoutsOK
  <2>1. PICK h, i : h = co[d].timer /\ i = co[d].id /\ h = co'[d].timer /\ i = co'[d].id
    BY <1>3
  <2>2. d \in Suspended /\ HasTimeout(d)  BY <1>2, <1>3 DEF TimeoutsOK
  <2> QED  BY <2>1, <2>2, <1>3, <1>4, <1>5, <1>6, TimeoutKept
<1> QED  BY <1>4, <1>7, <1>8, <1>9, <1>10, <1>11, <1>12, <1>13 DEF TimersInv

\* StartTimerTask: the timer is armed.
LEMMA StartDone ==
  ASSUME IInv, IInv', TimersInv, NoHandleReused, UNCHANGED rpcVars, UNCHANGED idle,
         tasks # <<>>, tasks' = Tail(tasks),
         NEW t, t = Head(tasks), t.op = "start", NEW h0, h0 = t.handle, Current(h0),
         NEW s, s = h0[1],
         timers' = [timers EXCEPT ![s].id = t.id, ![s].armed = TRUE]
  PROVE  TimersInv'
<1>1. TypeOK /\ TypeOK' /\ TimersTypeOK /\ TimersTypeOK'  BY DEF IInv, TypeOK
<1>2. PoolOK /\ KeptOK /\ TasksOK /\ StartedOK /\ OwnersOK /\ OneTimeout /\ TimersFresh /\ TimeoutsOK
  BY DEF TimersInv
<1>3. co' = co /\ inbox' = inbox /\ nextID' = nextID /\ Suspended' = Suspended
  BY DEF rpcVars, Suspended
<1>4. /\ t \in Task /\ Contains(tasks, t) /\ Kept(h0)
      /\ \A m : Contains(tasks', m) => Contains(tasks, m)
      /\ \A m : Contains(tasks, m) => m = t \/ Contains(tasks', m)
      /\ \A h : Kept(h)' => Kept(h)
      /\ \A h, i : Contains(tasks, StartTask(h, i)) /\ h # NoTimer =>
            Current(h) /\ ~ timers[h[1]].armed
      /\ \A h, i : Contains(tasks', StartTask(h, i)) /\ h # NoTimer => h # h0
      /\ \A q \in DOMAIN tasks' : \A h :
            tasks'[q].op = "start" /\ h = tasks'[q].handle /\ h # NoTimer =>
               /\ Current(h) /\ ~ timers[h[1]].armed /\ h # h0
               /\ \A p \in DOMAIN tasks' : p < q => tasks'[p].handle # h
  BY <1>1, <1>2, <1>3, TaskTaken
<1>5. /\ t = StartTask(h0, t.id) /\ t.id \in IDs /\ h0 \in Handle \ {NoTimer}
      /\ s \in DOMAIN timers /\ h0 = HandleOf(s)
  <2>1. t = StartTask(h0, t.id) /\ t.id \in IDs /\ h0 \in Handle  BY <1>4, TasksDiffer
  <2>2. h0 # NoTimer  BY <1>1, NoSlot
  <2> QED  BY <2>1, <2>2 DEF Current
<1>6. PICK i0 : i0 = t.id  OBVIOUS
<1>7. s \in Live  BY <1>4, <1>5 DEF NoHandleReused
<1>8. /\ DOMAIN timers' = DOMAIN timers
      /\ \A x \in DOMAIN timers : timers'[x].version = timers[x].version
      /\ \A x \in DOMAIN timers : x # s => timers'[x] = timers[x]
      /\ timers'[s].armed /\ timers'[s].id = i0
  <2>1. timers[s] \in [version : 0 .. Versions - 1, id : 0 .. MaxID, armed : BOOLEAN]
    BY <1>1, <1>5, TimersAre
  <2> QED  BY <2>1, <1>5, <1>6
<1>9. /\ \A x \in DOMAIN timers : HandleOf(x)' = HandleOf(x)
      /\ \A h : Current(h)' <=> Current(h)
      /\ \A h : Current(h) /\ h # h0 => timers'[h[1]] = timers[h[1]]
      /\ \A x : Current(HandleOf(x)) <=> x \in DOMAIN timers
      /\ \A x : HandleOf(x) = h0 => x = s
  <2>1. \A x \in DOMAIN timers : HandleOf(x)' = HandleOf(x)  BY <1>8, HandlesAre
  <2>2. ASSUME NEW h PROVE Current(h)' <=> Current(h)
    <3>1. (\E x \in DOMAIN timers' : h = HandleOf(x)') <=> \E x \in DOMAIN timers : h = HandleOf(x)
      BY <2>1, <1>8
    <3> QED  BY <3>1, HandlesAre
  <2>3. ASSUME NEW h, Current(h), h # h0 PROVE timers'[h[1]] = timers[h[1]]
    <3>1. PICK x \in DOMAIN timers : h = HandleOf(x)  BY <2>3, HandlesAre
    <3>2. h[1] = x /\ x # s  BY <2>3, <3>1, <1>5, HandlesAre
    <3> QED  BY <3>1, <3>2, <1>8
  <2>4. \A x : Current(HandleOf(x)) <=> x \in DOMAIN timers  BY DEF Current, HandleOf
  <2> QED  BY <2>1, <2>2, <2>3, <2>4, <1>5, HandlesAre
<1>10. Live' = Live /\ \A x \in Live : x \in DOMAIN timers  BY <1>8 DEF Live
<1>11. PoolOK'  BY <1>2, <1>7, <1>8, <1>10 DEF PoolOK
<1>12. KeptOK'  BY <1>2, <1>4, <1>8 DEF KeptOK
<1>13. TasksOK'
  <2>1. \A q \in DOMAIN tasks' : \A h :
          tasks'[q].op = "start" /\ h = tasks'[q].handle /\ h # NoTimer =>
             /\ Current(h)' /\ ~ timers'[h[1]].armed
             /\ \A p \in DOMAIN tasks' : p < q => tasks'[p].handle # h
    <3> SUFFICES ASSUME NEW q \in DOMAIN tasks', NEW h,
                        tasks'[q].op = "start", h = tasks'[q].handle, h # NoTimer
                 PROVE  /\ Current(h)' /\ ~ timers'[h[1]].armed
                        /\ \A p \in DOMAIN tasks' : p < q => tasks'[p].handle # h
      OBVIOUS
    <3>1. /\ Current(h) /\ ~ timers[h[1]].armed /\ h # h0
          /\ \A p \in DOMAIN tasks' : p < q => tasks'[p].handle # h
      BY <1>4
    <3> QED  BY <3>1, <1>9
  <2> QED  BY <2>1, TasksNext
<1>14. StartedOK'
  <2>1. ASSUME NEW x \in Live'
        PROVE  timers'[x].armed \/ \E i \in IDs : Contains(tasks', StartTask(HandleOf(x)', i))
    <3>1. CASE x = s  BY <3>1, <1>8
    <3>2. CASE x # s
      <4>1. x \in Live /\ HandleOf(x) # h0 /\ HandleOf(x)' = HandleOf(x) /\ timers'[x] = timers[x]
        BY <3>2, <1>8, <1>9, <1>10
      <4>2. \A i : StartTask(HandleOf(x), i) # t  BY <4>1, <1>5, TasksDiffer
      <4> QED  BY <4>1, <4>2, <1>2, <1>4 DEF StartedOK
    <3> QED  BY <3>1, <3>2
  <2> QED  BY <2>1 DEF StartedOK, StartTask
<1>15. OwnersOK'
  <2>1. \A h : RemoveTask(h) # t  BY <1>5, TasksDiffer
  <2>2. \A x \in Live' : \/ Contains(tasks', RemoveTask(HandleOf(x)'))
                         \/ \E d \in Suspended' : co'[d].timer = HandleOf(x)'
    <3>1. \A x \in Live : \/ Contains(tasks, RemoveTask(HandleOf(x)))
                          \/ \E d \in Suspended : co[d].timer = HandleOf(x)
      BY <1>2 DEF OwnersOK, TimersOwned
    <3>2. \A h : Contains(tasks, RemoveTask(h)) => Contains(tasks', RemoveTask(h))
      BY <2>1, <1>4
    <3>3. \A x \in Live' : x \in Live /\ HandleOf(x)' = HandleOf(x)  BY <1>9, <1>10
    <3> QED  BY <3>1, <3>2, <3>3, <1>3
  <2>3. \A d, e \in Suspended' : \A h : d # e /\ co'[d].timer = h /\ co'[e].timer = h => ~ Current(h)'
    <3>1. \A d, e \in Suspended : d # e /\ co[d].timer = co[e].timer => ~ Current(co[d].timer)
      BY <1>2 DEF OwnersOK, TimersOwned
    <3> QED  BY <3>1, <1>3, <1>9
  <2>4. \A d \in Suspended' : \A h : co'[d].timer = h =>
            h # Nil /\ (Contains(tasks', RemoveTask(h)) => ~ Current(h)')
    <3>1. \A d \in Suspended : \A h : co[d].timer = h =>
            h # Nil /\ (Contains(tasks, RemoveTask(h)) => ~ Current(h))
      BY <1>2 DEF OwnersOK
    <3>2. \A h : Contains(tasks', RemoveTask(h)) => Contains(tasks, RemoveTask(h))  BY <1>4
    <3>3. \A h : Current(h)' <=> Current(h)  BY <1>9
    <3> QED  BY <3>1, <3>2, <3>3, <1>3
  <2> QED  BY <2>2, <2>3, <2>4, OwnersNext
<1>16. OneTimeout'
  <2>1. ASSUME NEW d \in Suspended', NEW i, NEW g, i = co'[d].id, g = co'[d].timer
        PROVE  /\ \A x \in DOMAIN timers' :
                     timers'[x].armed /\ timers'[x].id = i => HandleOf(x)' = g
               /\ \A h \in Handle \ {NoTimer} : Contains(tasks', StartTask(h, i)) => h = g
               /\ Once(inbox', Timeout(i))
               /\ Contains(inbox', Timeout(i)) => ~ Current(g)'
    <3>1. d \in Suspended /\ i = co[d].id /\ g = co[d].timer  BY <2>1, <1>3
    <3>2. /\ \A x \in DOMAIN timers : timers[x].armed /\ timers[x].id = i => HandleOf(x) = g
          /\ \A h \in Handle \ {NoTimer} : Contains(tasks, StartTask(h, i)) => h = g
          /\ Once(inbox, Timeout(i))
          /\ Contains(inbox, Timeout(i)) => ~ Current(g)
      BY <3>1, <1>2 DEF OneTimeout
    <3>3. i0 = i => h0 = g  BY <3>2, <1>4, <1>5, <1>6
    <3>4. ASSUME NEW x \in DOMAIN timers', timers'[x].armed, timers'[x].id = i
          PROVE  HandleOf(x)' = g
      <4>1. x \in DOMAIN timers /\ HandleOf(x)' = HandleOf(x)  BY <1>8, <1>9
      <4>2. CASE x = s  BY <3>3, <3>4, <4>1, <4>2, <1>5, <1>8
      <4>3. CASE x # s  BY <3>2, <3>4, <4>1, <4>3, <1>8
      <4> QED  BY <4>2, <4>3
    <3> QED  BY <3>2, <3>4, <1>3, <1>4, <1>9
  <2> QED  BY <2>1, OneTimeoutNext
<1>17. TimersFresh'
  <2>1. i0 < nextID  BY <1>2, <1>4, <1>5, <1>6 DEF TimersFresh
  <2>2. \A x \in DOMAIN timers' : timers'[x].armed => timers'[x].id < nextID'
    BY <2>1, <1>2, <1>3, <1>8 DEF TimersFresh
  <2> QED  BY <2>2, <1>2, <1>3, <1>4 DEF TimersFresh, StartTask, Timeout
<1>18. TimeoutsOK'
  <2> SUFFICES ASSUME NEW d \in Suspended', ~ co'[d].stray, co'[d].timer # NoTimer
               PROVE  HasTimeout(d)'
    BY DEF TimeoutsOK
  <2>1. PICK h, i : h = co[d].timer /\ i = co[d].id /\ h = co'[d].timer /\ i = co'[d].id
    BY <1>3
  <2>2. d \in Suspended /\ HasTimeout(d)  BY <1>2, <1>3 DEF TimeoutsOK
  <2>3. Current(h) =>
          /\ Current(h)'
          /\ timers[h[1]].armed => timers'[h[1]].armed /\ timers'[h[1]].id = timers[h[1]].id
          /\ Contains(tasks, StartTask(h, i)) =>
                \/ Contains(tasks', StartTask(h, i))
                \/ timers'[h[1]].armed /\ timers'[h[1]].id = i
    <3>1. CASE h # h0
      <4>1. StartTask(h, i) # t  BY <3>1, <1>5, TasksDiffer
      <4> QED  BY <3>1, <4>1, <1>4, <1>9
    <3>2. CASE h = h0
      <4>1. ~ timers[s].armed  BY <1>4, <1>5
      <4>2. Contains(tasks, StartTask(h, i)) => Contains(tasks', StartTask(h, i)) \/ i = i0
        <5>1. StartTask(h, i) = t => i = i0  BY <1>5, <1>6, TasksDiffer
        <5> QED  BY <5>1, <1>4
      <4> QED  BY <3>2, <4>1, <4>2, <1>8, <1>9
    <3> QED  BY <3>1, <3>2
  <2> QED  BY <2>1, <2>2, <2>3, <1>3, TimeoutKept
<1> QED  BY <1>11, <1>12, <1>13, <1>14, <1>15, <1>16, <1>17, <1>18 DEF TimersInv

\* RemoveTimerTask: the timer is given back.
LEMMA RemoveDone ==
  ASSUME IInv, IInv', TimersInv, NoHandleReused, NoHandleReused', UNCHANGED rpcVars,
         tasks # <<>>, tasks' = Tail(tasks),
         NEW t, t = Head(tasks), t.op = "remove", NEW h0, h0 = t.handle, Current(h0),
         NEW s, s = h0[1], RemoveTimerHandle(s)
  PROVE  TimersInv'
<1>1. TypeOK /\ TypeOK' /\ TimersTypeOK /\ TimersTypeOK'  BY DEF IInv, TypeOK
<1>2. PoolOK /\ KeptOK /\ TasksOK /\ StartedOK /\ OwnersOK /\ OneTimeout /\ TimersFresh /\ TimeoutsOK
  BY DEF TimersInv
<1>3. co' = co /\ inbox' = inbox /\ nextID' = nextID /\ Suspended' = Suspended
  BY DEF rpcVars, Suspended
<1>4. /\ t \in Task /\ Contains(tasks, t) /\ Kept(h0)
      /\ \A m : Contains(tasks', m) => Contains(tasks, m)
      /\ \A m : Contains(tasks, m) => m = t \/ Contains(tasks', m)
      /\ \A h : Kept(h)' => Kept(h)
      /\ \A q \in DOMAIN tasks' : \A h :
            tasks'[q].op = "start" /\ h = tasks'[q].handle /\ h # NoTimer =>
               /\ Current(h) /\ ~ timers[h[1]].armed /\ h # h0
               /\ \A p \in DOMAIN tasks' : p < q => tasks'[p].handle # h
  BY <1>1, <1>2, <1>3, TaskTaken
<1>5. t = RemoveTask(h0) /\ s \in DOMAIN timers /\ h0 = HandleOf(s)
  BY <1>4, TasksDiffer DEF Current
<1>6. s \in Live  BY <1>4, <1>5 DEF NoHandleReused
<1>7. /\ \A h : Kept(h)' /\ Current(h)' => Current(h) /\ h # h0
      /\ \A h : Current(h) /\ h # h0 => Current(h)' /\ timers'[h[1]] = timers[h[1]]
      /\ \A x \in Live' : x \in Live /\ x # s /\ HandleOf(x)' = HandleOf(x) /\ timers'[x] = timers[x]
      /\ \A x \in DOMAIN timers' : x \in DOMAIN timers /\ (x # s => timers'[x] = timers[x])
      /\ \A x : x # s => HandleOf(x) # h0
      /\ \A x \in DOMAIN timers : x # s => HandleOf(x)' = HandleOf(x)
      /\ ~ timers'[s].armed
  BY <1>1, <1>2, <1>5, <1>6, HandleGone
<1>8. DOMAIN timers' = DOMAIN timers /\ PoolOK'  BY <1>1, <1>2, <1>6, SlotGivenBack
<1>9. \A d \in Suspended : co[d].timer # h0  BY <1>2, <1>4, <1>5 DEF OwnersOK
<1>10. \A d \in Suspended : \A h : co[d].timer = h => Kept(h)'
  BY <1>3 DEF Kept, Suspended
\* The parts of the invariant
<1>11. KeptOK'  BY <1>2, <1>4, <1>8 DEF KeptOK
<1>12. TasksOK'
  <2>1. \A q \in DOMAIN tasks' : \A h :
          tasks'[q].op = "start" /\ h = tasks'[q].handle /\ h # NoTimer =>
             /\ Current(h)' /\ ~ timers'[h[1]].armed
             /\ \A p \in DOMAIN tasks' : p < q => tasks'[p].handle # h
    BY <1>4, <1>7
  <2> QED  BY <2>1, TasksNext
<1>13. StartedOK'
  <2>1. \A h, i : StartTask(h, i) # t  BY <1>5, TasksDiffer
  <2>2. \A x \in Live' : timers'[x].armed \/ \E i \in IDs : Contains(tasks', StartTask(HandleOf(x)', i))
    BY <2>1, <1>2, <1>4, <1>7 DEF StartedOK
  <2> QED  BY <2>2 DEF StartedOK, StartTask
<1>14. OwnersOK'
  <2>1. ASSUME NEW x \in Live'
        PROVE  \/ Contains(tasks', RemoveTask(HandleOf(x)'))
               \/ \E d \in Suspended' : co'[d].timer = HandleOf(x)'
    <3>1. x \in Live /\ HandleOf(x)' = HandleOf(x) /\ HandleOf(x) # h0  BY <1>7
    <3>2. RemoveTask(HandleOf(x)) # t  BY <3>1, <1>5, TasksDiffer
    <3> QED  BY <3>1, <3>2, <1>2, <1>3, <1>4 DEF OwnersOK, TimersOwned
  <2>2. ASSUME NEW d \in Suspended', NEW e \in Suspended', NEW h,
               d # e, co'[d].timer = h, co'[e].timer = h
        PROVE  ~ Current(h)'
    <3>1. d \in Suspended /\ e \in Suspended /\ co[d].timer = h /\ co[e].timer = h
      BY <2>2, <1>3
    <3>2. ~ Current(h)  BY <2>2, <3>1, <1>2 DEF OwnersOK, TimersOwned
    <3> QED  BY <3>1, <3>2, <1>7, <1>10
  <2>3. ASSUME NEW d \in Suspended', NEW h, co'[d].timer = h
        PROVE  h # Nil /\ (Contains(tasks', RemoveTask(h)) => ~ Current(h)')
    <3>1. d \in Suspended /\ co[d].timer = h  BY <2>3, <1>3
    <3>2. h # Nil /\ (Contains(tasks, RemoveTask(h)) => ~ Current(h))  BY <3>1, <1>2 DEF OwnersOK
    <3> QED  BY <3>1, <3>2, <1>4, <1>7, <1>10
  <2> QED  BY <2>1, <2>2, <2>3, OwnersNext
<1>15. OneTimeout'
  <2>1. ASSUME NEW d \in Suspended', NEW i, NEW g, i = co'[d].id, g = co'[d].timer
        PROVE  /\ \A x \in DOMAIN timers' :
                     timers'[x].armed /\ timers'[x].id = i => HandleOf(x)' = g
               /\ \A h \in Handle \ {NoTimer} : Contains(tasks', StartTask(h, i)) => h = g
               /\ Once(inbox', Timeout(i))
               /\ Contains(inbox', Timeout(i)) => ~ Current(g)'
    <3>1. d \in Suspended /\ i = co[d].id /\ g = co[d].timer  BY <2>1, <1>3
    <3>2. /\ \A x \in DOMAIN timers : timers[x].armed /\ timers[x].id = i => HandleOf(x) = g
          /\ \A h \in Handle \ {NoTimer} : Contains(tasks, StartTask(h, i)) => h = g
          /\ Once(inbox, Timeout(i))
          /\ Contains(inbox, Timeout(i)) => ~ Current(g)
      BY <3>1, <1>2 DEF OneTimeout
    <3>3. \A x \in DOMAIN timers' : timers'[x].armed /\ timers'[x].id = i => HandleOf(x)' = g
      BY <3>2, <1>7
    <3>4. Contains(inbox', Timeout(i)) => ~ Current(g)'  BY <3>1, <3>2, <1>3, <1>7, <1>10
    <3> QED  BY <3>2, <3>3, <3>4, <1>3, <1>4
  <2> QED  BY <2>1, OneTimeoutNext
<1>16. TimersFresh'
  <2>1. \A x \in DOMAIN timers' : timers'[x].armed => timers'[x].id < nextID'
    BY <1>2, <1>3, <1>7 DEF TimersFresh
  <2> QED  BY <2>1, <1>2, <1>3, <1>4 DEF TimersFresh, StartTask, Timeout
<1>17. TimeoutsOK'
  <2> SUFFICES ASSUME NEW d \in Suspended', ~ co'[d].stray, co'[d].timer # NoTimer
               PROVE  HasTimeout(d)'
    BY DEF TimeoutsOK
  <2>1. PICK h, i : h = co[d].timer /\ i = co[d].id /\ h = co'[d].timer /\ i = co'[d].id
    BY <1>3
  <2>2. d \in Suspended /\ HasTimeout(d) /\ h # h0  BY <2>1, <1>2, <1>3, <1>9 DEF TimeoutsOK
  <2>3. StartTask(h, i) # t  BY <1>5, TasksDiffer
  <2> QED  BY <2>1, <2>2, <2>3, <1>3, <1>4, <1>7, TimeoutKept
<1> QED  BY <1>8, <1>11, <1>12, <1>13, <1>14, <1>15, <1>16, <1>17 DEF TimersInv

\* doActiveTask
LEMMA MainTaskTimers ==
  ASSUME IInv, IInv', TimersInv, NoHandleReused, NoHandleReused', MainTask
  PROVE  TimersInv'
<1>1. PICK t, h0, s : t = Head(tasks) /\ h0 = t.handle /\ s = h0[1]  OBVIOUS
<1>2. tasks # <<>> /\ tasks' = Tail(tasks) /\ UNCHANGED rpcVars  BY DEF MainTask, DoTimerTask
<1>3. \/ ~ Current(h0) /\ UNCHANGED <<timers, idle>>
      \/ /\ Current(h0) /\ t.op = "start" /\ UNCHANGED idle
         /\ timers' = [timers EXCEPT ![s].id = t.id, ![s].armed = TRUE]
      \/ /\ Current(h0) /\ t.op = "change" /\ UNCHANGED idle
         /\ timers' = [timers EXCEPT ![s].armed = TRUE]
      \/ Current(h0) /\ t.op = "remove" /\ RemoveTimerHandle(s)
  BY <1>1 DEF MainTask, DoTimerTask
<1>4. TypeOK /\ TimersTypeOK /\ TasksOK /\ StartedOK /\ co' = co
  BY <1>2 DEF IInv, TypeOK, TimersInv, rpcVars
<1>5. CASE ~ Current(h0) /\ UNCHANGED <<timers, idle>>  BY <1>1, <1>2, <1>5, NoEffect
<1>6. CASE /\ Current(h0) /\ t.op = "start" /\ UNCHANGED idle
           /\ timers' = [timers EXCEPT ![s].id = t.id, ![s].armed = TRUE]
  BY <1>1, <1>2, <1>6, StartDone
<1>7. CASE /\ Current(h0) /\ t.op = "change" /\ UNCHANGED idle
           /\ timers' = [timers EXCEPT ![s].armed = TRUE]
  <2>1. /\ Contains(tasks, t) /\ Kept(h0)
        /\ \A m : Contains(tasks, m) => m = t \/ Contains(tasks', m)
        /\ \A h, i : Contains(tasks', StartTask(h, i)) /\ h # NoTimer => h # h0
    BY <1>1, <1>2, <1>4, TaskTaken
  <2>2. s \in DOMAIN timers /\ h0 = HandleOf(s)  BY <1>1, <1>7 DEF Current
  <2>3. s \in Live  BY <2>1, <2>2 DEF NoHandleReused
  <2>4. timers[s].armed
    <3> SUFFICES ASSUME ~ timers[s].armed PROVE FALSE  OBVIOUS
    <3>1. PICK i \in IDs : Contains(tasks, StartTask(h0, i))  BY <2>2, <2>3, <1>4 DEF StartedOK
    <3>2. StartTask(h0, i) # t  BY <1>7, TasksDiffer
    <3>3. h0 # NoTimer  BY <1>4, <1>7, NoSlot
    <3> QED  BY <2>1, <3>1, <3>2, <3>3
  <2>5. timers' = timers
    <3>1. timers[s] \in [version : 0 .. Versions - 1, id : 0 .. MaxID, armed : BOOLEAN]
      BY <1>4, <2>2, TimersAre
    <3>2. [timers[s] EXCEPT !.armed = TRUE] = timers[s]  BY <2>4, <3>1
    <3>3. DOMAIN timers = 1 .. Len(timers) /\ timers = [x \in 1 .. Len(timers) |-> timers[x]]
      BY <1>4 DEF TimersTypeOK
    <3>4. timers' = [timers EXCEPT ![s] = timers[s]]  BY <3>2, <1>7
    <3> QED  BY <3>3, <3>4
  <2> QED  BY <2>5, <1>1, <1>2, <1>7, NoEffect
<1>8. CASE Current(h0) /\ t.op = "remove" /\ RemoveTimerHandle(s)
  BY <1>1, <1>2, <1>8, RemoveDone
<1> QED  BY <1>3, <1>5, <1>6, <1>7, <1>8

-----------------------------------------------------------------------------
(***************************************************************************)
(* The steps of the handler's thread.                                      *)
(***************************************************************************)

\* Nothing happens to the coroutines and their timers.
LEMMA TimersStay ==
  ASSUME IInv, IInv', TimersInv, UNCHANGED <<co, nextID, timerVars>>, MailboxStays(Nobody)
  PROVE  TimersInv'
<1>1. tasks \in Seq(Task) /\ nextID \in Nat
  <2>1. nextID \in 1 .. MaxID + 1 /\ MaxID \in Nat  BY Numbers DEF IInv, TypeOK
  <2> QED  BY <2>1 DEF IInv, TypeOK, TimersTypeOK
<1>2. Post(<<>>) /\ <<>> \in Seq(Task)
  BY <1>1, ConcatEmptySeq DEF Post, timerVars
<1>3. \A t : ~ Contains(<<>>, t)  BY DEF Contains
<1>4. Suspended' = Suspended /\ Nobody \notin Suspended'
  BY DEF Suspended, Nobody, Coroutines
<1>5. UNCHANGED <<timers, idle>> /\ nextID <= nextID'  BY <1>1 DEF timerVars
<1>6. /\ \A d \in Coroutines : co'[d].timer \in {co[d].timer, Nil}
      /\ \A d \in Suspended' :
            /\ d \in Suspended /\ co'[d].timer = co[d].timer
            /\ co'[d].id = co[d].id /\ co'[d].stray = co[d].stray
  BY <1>4
<1>7. PICK new : new = <<>>  OBVIOUS
<1> QED  BY <1>2, <1>3, <1>4, <1>5, <1>6, <1>7, WaitsGoOn

\* The first wait of a coroutine, or its next one after a timeout, has a new timer.
LEMMA TimerStarts ==
  ASSUME TypeOK, NEW id \in IDs, NEW k, k = Created, NEW more \in {<<>>, <<ChangeTask(k)>>},
         ScheduleTimeout(id, Nil, more)
  PROVE  CreateTimerHandle /\ \E new : StartTasks(new, k, id) /\ Post(new)
<1>1. CreateTimerHandle /\ Post(<<StartTask(k, id)>> \o more)  BY DEF ScheduleTimeout
<1>2. k \in Handle  BY CreatedType DEF TypeOK
<1>3. PICK st, ch, one : st = StartTask(k, id) /\ ch = ChangeTask(k) /\ one = <<st>>  OBVIOUS
<1>4. st \in Task /\ ch \in Task  BY <1>2, <1>3, TaskTypes
<1>5. PICK new : new = one \o more  OBVIOUS
<1>6. OneThen(new, st, ch)
  <2>1. JustOne(one, st)  BY <1>3, <1>4, OneTask
  <2>2. AtMostOne(more, ch)
    <3>1. CASE more = <<>>  BY <3>1, NoTask
    <3>2. CASE more = <<ch>>  BY <3>2, <1>4, OneTask
    <3> QED  BY <3>1, <3>2, <1>3
  <2> QED  BY <2>1, <2>2, <1>5, OneOrTwo
<1>7. StartTasks(new, k, id)  BY <1>3, <1>6 DEF StartTasks, OneThen
<1>8. Post(new)  BY <1>1, <1>3, <1>5
<1> QED  BY <1>1, <1>7, <1>8

\* A new ID has no timeout.
LEMMA NewIDFree ==
  ASSUME TypeOK, TimersFresh, nextID \in IDs,
         \A i : Contains(inbox', Timeout(i)) => Contains(inbox, Timeout(i))
  PROVE  NoTimeoutFor(nextID)
<1>1. nextID \in Nat /\ ~ (nextID < nextID)  BY Numbers DEF IDs
<1> QED  BY <1>1 DEF NoTimeoutFor, TimersFresh

\* Suspend
LEMMA Suspends ==
  ASSUME IInv, NEW c \in Coroutines, NEW wait \in {"waiting", "asleep"}, NEW id \in IDs,
         NEW handle, NEW info \in CoroutineType, Suspend(c, wait, id, handle, info)
  PROVE  /\ ScheduleTimeout(id, handle, <<>>)
         /\ co'[c].id = id /\ co'[c].timer = TimerFor(handle) /\ co'[c].stray = info.stray
         /\ \A d \in Coroutines : d # c => co'[d] = co[d]
         /\ c \in Suspended' /\ Suspended' = Suspended \union {c}
<1>1. /\ ScheduleTimeout(id, handle, <<>>)
      /\ co' = [co EXCEPT ![c] = [info EXCEPT !.status = wait, !.id = id,
                                              !.timer = TimerFor(handle)]]
  BY DEF Suspend
<1> PICK k : k = TimerFor(handle)  OBVIOUS
<1>2. co \in [Coroutines -> CoroutineType]  BY DEF IInv, TypeOK, CoroutineType
<1>3. PICK r : r = [info EXCEPT !.status = wait, !.id = id, !.timer = k]  OBVIOUS
<1>4. r.id = id /\ r.timer = k /\ r.stray = info.stray /\ r.status = wait
  BY <1>3 DEF CoroutineType
<1>5. co'[c] = r /\ \A d \in Coroutines : d # c => co'[d] = co[d]  BY <1>1, <1>2, <1>3
<1>6. c \in Suspended' /\ Suspended' = Suspended \union {c}  BY <1>4, <1>5 DEF Suspended
<1> QED  BY <1>1, <1>4, <1>5, <1>6

\* A coroutine waits with a new timer.
LEMMA SuspendsWithNew ==
  ASSUME IInv, IInv', TimersInv, NoHandleReused, NEW c \in Coroutines,
         NEW wait \in {"waiting", "asleep"}, NEW id \in IDs, NEW info \in CoroutineType,
         Suspend(c, wait, id, Nil, info), nextID <= nextID',
         c \in Suspended => ~ Current(co[c].timer), NoTimeoutFor(id), MailboxStays(c)
  PROVE  TimersInv'
<1>1. /\ ScheduleTimeout(id, Nil, <<>>)
      /\ co'[c].id = id /\ co'[c].timer = TimerFor(Nil)
      /\ \A d \in Coroutines : d # c => co'[d] = co[d]
      /\ c \in Suspended'
  BY Suspends
<1>2. PICK k : k = Created  OBVIOUS
<1>3. co'[c].timer = k  BY <1>1, <1>2 DEF TimerFor
<1>4. PICK new : CreateTimerHandle /\ StartTasks(new, k, id) /\ Post(new)
  BY <1>1, <1>2, TimerStarts DEF IInv
<1> QED  BY <1>1, <1>2, <1>3, <1>4, WaitStarts

\* A coroutine waits again with the timer that it has.
LEMMA SuspendsWithOld ==
  ASSUME IInv, IInv', TimersInv, NEW c \in Suspended,
         NEW wait \in {"waiting", "asleep"}, NEW id \in IDs, NEW info \in CoroutineType,
         Suspend(c, wait, id, co[c].timer, info), nextID <= nextID', MailboxStays(Nobody),
         \/ id = co[c].id /\ info.stray = co[c].stray
         \/ info.stray /\ NoTimeoutFor(id)
  PROVE  TimersInv'
<1>1. PICK h : h = co[c].timer  OBVIOUS
<1>2. c \in Coroutines /\ h \in Handle /\ h # Nil /\ Kept(h)
  <2>1. c \in Coroutines  BY DEF Suspended
  <2>2. h \in Handle /\ Kept(h)  BY <1>1, <2>1, TimerHeld DEF IInv
  <2>3. h # Nil  BY <1>1 DEF TimersInv, OwnersOK
  <2> QED  BY <2>1, <2>2, <2>3
<1>3. /\ ScheduleTimeout(id, h, <<>>)
      /\ co'[c].id = id /\ co'[c].timer = TimerFor(h) /\ co'[c].stray = info.stray
      /\ \A d \in Coroutines : d # c => co'[d] = co[d]
      /\ Suspended' = Suspended \union {c}
  BY <1>1, <1>2, Suspends
<1>4. co'[c].timer = h  BY <1>2, <1>3 DEF TimerFor
<1>5. PICK ch : ch = ChangeTask(h)  OBVIOUS
<1>6. ch \in Task /\ ch.op # "start" /\ ch.handle = h /\ \A g : RemoveTask(g) # ch
  BY <1>2, <1>5, TaskTypes, TasksDiffer
<1>7. PICK new \in Seq(Task) : Post(new) /\ \A t : Contains(new, t) => t = ch
  <2>1. PICK one, none : one = <<ch>> /\ none = <<>>  OBVIOUS
  <2>2. JustOne(one, ch) /\ AtMostOne(none, ch)  BY <2>1, <1>6, OneTask, NoTask
  <2>3. PICK new : new = one \o none  OBVIOUS
  <2>4. OneThen(new, ch, ch)  BY <2>2, <2>3, OneOrTwo
  <2>5. Post(new)  BY <2>1, <2>3, <1>2, <1>3, <1>5 DEF ScheduleTimeout
  <2> QED  BY <2>4, <2>5 DEF OneThen
<1>8. UNCHANGED <<timers, idle>>  BY <1>2, <1>3 DEF ScheduleTimeout
<1>9. Suspended' = Suspended /\ Nobody \notin Suspended'
  BY <1>3 DEF Suspended, Nobody, Coroutines
<1>10. /\ \A d \in Coroutines : co'[d].timer \in {co[d].timer, Nil}
       /\ \A d \in Suspended' :
            /\ d \in Suspended /\ co'[d].timer = co[d].timer
            /\ \/ co'[d].id = co[d].id /\ co'[d].stray = co[d].stray
               \/ co'[d].stray /\ NoTimeoutFor(co'[d].id)
  <2>1. \A d \in Coroutines : d # c => co'[d] = co[d]  BY <1>3
  <2>2. \A d \in Suspended : d \in Coroutines  BY DEF Suspended
  <2>3. \/ co'[c].id = co[c].id /\ co'[c].stray = co[c].stray
        \/ co'[c].stray /\ NoTimeoutFor(co'[c].id)
    BY <1>3
  <2> QED  BY <2>1, <2>2, <2>3, <1>1, <1>4, <1>9
<1>11. /\ \A t : Contains(new, t) => t.op # "start" /\ Kept(t.handle)
       /\ \A g : ~ Contains(new, RemoveTask(g))
  BY <1>2, <1>6, <1>7
<1> QED  BY <1>7, <1>8, <1>9, <1>10, <1>11, WaitsGoOn

\* A coroutine ends: h is its timer, or Nil when its timer has just fired.
LEMMA Finishes ==
  ASSUME IInv, IInv', TimersInv, NEW c \in Suspended, NEW h, NEW info, Finish(c, info, h),
         \/ h = Nil /\ ~ Current(co[c].timer) /\ MailboxStays(c)
         \/ h = co[c].timer /\ MailboxStays(Nobody)
  PROVE  TimersInv'
<1>1. /\ co' = [co EXCEPT ![c] = Dead] /\ nextID' = nextID
      /\ Post(IF h # Nil THEN <<RemoveTask(h)>> ELSE <<>>)
      /\ UNCHANGED <<timers, idle>>
  BY DEF Finish
<1>2. c \in Coroutines /\ co[c].timer # Nil /\ co[c].timer \in Handle /\ Kept(co[c].timer)
  <2>1. c \in Coroutines  BY DEF Suspended
  <2> QED  BY <2>1, TimerHeld DEF IInv, TimersInv, OwnersOK
<1>3. /\ \A d \in Coroutines : d # c => co'[d] = co[d]
      /\ co'[c].timer = Nil
      /\ Suspended' = Suspended \ {c}
  <2>1. co \in [Coroutines -> CoroutineType]  BY DEF IInv, TypeOK, CoroutineType
  <2>2. co'[c] = Dead /\ \A d \in Coroutines : d # c => co'[d] = co[d]  BY <2>1, <1>1, <1>2
  <2>3. Dead.timer = Nil /\ Dead.status = "dead"  BY DEF Dead, NotStarted
  <2> QED  BY <2>2, <2>3 DEF Suspended
<1>4. /\ nextID <= nextID' /\ Nobody \notin Suspended' /\ c \notin Suspended'
      /\ \A d \in Coroutines : co'[d].timer \in {co[d].timer, Nil}
      /\ \A d \in Suspended' : d \in Suspended /\ d # c /\ co'[d] = co[d]
  <2>1. nextID \in 1 .. MaxID + 1 /\ MaxID \in Nat  BY Numbers DEF IInv, TypeOK
  <2>2. nextID <= nextID'  BY <2>1, <1>1
  <2>3. \A d \in Suspended : d \in Coroutines /\ d # Nobody
    BY DEF Suspended, Nobody, Coroutines
  <2> QED  BY <2>2, <2>3, <1>3
<1>5. CASE h = Nil /\ ~ Current(co[c].timer) /\ MailboxStays(c)
  <2>1. PICK new : new = <<>>  OBVIOUS
  <2>2. Post(new)  BY <1>1, <1>5, <2>1
  <2>3. new \in Seq(Task) /\ \A t : ~ Contains(new, t)  BY <2>1 DEF Contains
  <2>4. \A d \in Suspended : d \notin Suspended' /\ Current(co[d].timer) =>
                                 Contains(new, RemoveTask(co[d].timer))
    BY <1>3, <1>5
  <2> QED  BY <2>2, <2>3, <2>4, <1>1, <1>4, <1>5, WaitsGoOn
<1>6. CASE h = co[c].timer /\ MailboxStays(Nobody)
  <2>1. PICK t0, new : t0 = RemoveTask(h) /\ new = <<t0>>  OBVIOUS
  <2>2. Post(new)  BY <1>1, <1>2, <1>6, <2>1
  <2>3. t0 \in Task /\ t0.handle = h /\ t0.op = "remove"
        /\ \A g : RemoveTask(g) = t0 => g = h
    BY <1>2, <1>6, <2>1, TaskTypes, TasksDiffer
  <2>4. new \in Seq(Task) /\ \A t : Contains(new, t) <=> t = t0
    BY <2>1, <2>3, OneTask DEF JustOne
  <2>5. \A t : Contains(new, t) => t.op # "start" /\ Kept(t.handle)
    BY <1>2, <1>6, <2>3, <2>4
  <2>6. \A d \in Suspended : d \notin Suspended' /\ Current(co[d].timer) =>
                                 Contains(new, RemoveTask(co[d].timer))
    BY <1>3, <1>6, <2>1, <2>4
  <2>7. ASSUME NEW d \in Suspended', Contains(new, RemoveTask(co[d].timer))
        PROVE  ~ Current(co[d].timer)
    <3>1. d \in Suspended /\ d # c /\ co[d].timer = co[c].timer  BY <1>4, <1>6, <2>3, <2>4, <2>7
    <3> QED  BY <3>1 DEF TimersInv, OwnersOK, TimersOwned
  <2> QED  BY <2>2, <2>4, <2>5, <2>6, <2>7, <1>1, <1>4, <1>6, WaitsGoOn
<1> QED  BY <1>5, <1>6

\* resumeCoroutine: after a timeout, or after an answer
LEMMA ResumeTimers ==
  ASSUME IInv, IInv', TimersInv, NoHandleReused, NEW c \in Suspended, NEW h, Resume(c, h),
         \/ /\ h = Nil /\ ~ Current(co[c].timer)
            /\ MailboxStays(c) /\ ~ Contains(inbox', Timeout(co[c].id))
         \/ h = co[c].timer /\ MailboxStays(Nobody)
  PROVE  TimersInv'
<1>1. /\ c \in Coroutines /\ co[c] \in CoroutineType /\ co[c].id \in IDs
      /\ nextID \in 1 .. MaxID + 1 /\ MaxID \in Nat
  <2>1. c \in Coroutines /\ co[c] \in CoroutineType  BY DEF Suspended, IInv, TypeOK, CoroutineType
  <2>2. nextID \in 1 .. MaxID + 1 /\ MaxID \in Nat  BY Numbers DEF IInv, TypeOK
  <2>3. co[c].id \in 1 .. nextID - 1  BY DEF IInv, IDsInv, IDsOK
  <2> QED  BY <2>1, <2>2, <2>3 DEF IDs
<1>2. \A i : Contains(inbox', Timeout(i)) => Contains(inbox, Timeout(i))  BY DEF MailboxStays
<1>3. nextID <= MaxID => nextID \in IDs /\ NoTimeoutFor(nextID)
  <2>1. nextID <= MaxID => nextID \in IDs  BY <1>1 DEF IDs
  <2> QED  BY <2>1, <1>2, NewIDFree DEF IInv, TimersInv
<1>4. h = Nil => NoTimeoutFor(co[c].id)
  <2> SUFFICES ASSUME h = Nil PROVE NoTimeoutFor(co[c].id)  OBVIOUS
  <2>1. ~ Current(co[c].timer) /\ ~ Contains(inbox', Timeout(co[c].id))
    BY DEF TimersInv, OwnersOK
  <2>2. \A s \in DOMAIN timers : timers[s].armed => timers[s].id # co[c].id
    BY <2>1, HandlesAre DEF TimersInv, OneTimeout
  <2>3. ASSUME NEW g \in Handle \ {NoTimer}, Contains(tasks, StartTask(g, co[c].id)) PROVE FALSE
    <3>1. g = co[c].timer  BY <2>3 DEF TimersInv, OneTimeout
    <3>2. PICK q \in DOMAIN tasks : tasks[q] = StartTask(g, co[c].id)
      BY <2>3, TasksKept DEF IInv
    <3>3. tasks[q].op = "start" /\ tasks[q].handle = g  BY <3>2, TasksDiffer
    <3>4. Current(g)  BY <3>3, <2>3 DEF TimersInv, TasksOK
    <3> QED  BY <3>1, <3>4, <2>1
  <2> QED  BY <2>1, <2>2, <2>3 DEF NoTimeoutFor
<1>5. CASE Call(c, co[c], h) /\ UNCHANGED <<cbMap, nextID>>
  <2>1. Suspend(c, "waiting", co[c].id, h, co[c])  BY <1>5 DEF Call
  <2>2. nextID <= nextID'  BY <1>1, <1>5
  <2>3. "waiting" \in {"waiting", "asleep"}  OBVIOUS
  <2>4. CASE h = Nil /\ ~ Current(co[c].timer) /\ MailboxStays(c)
    BY <2>1, <2>2, <2>3, <2>4, <1>1, <1>4, SuspendsWithNew
  <2>5. CASE h = co[c].timer /\ MailboxStays(Nobody)
    BY <2>1, <2>2, <2>3, <2>5, <1>1, SuspendsWithOld
  <2> QED  BY <2>4, <2>5
<1>6. CASE Iterate(c, co[c], h)
  <2>1. PICK info : info = [co[c] EXCEPT !.stray = @ \/ h # Nil]  OBVIOUS
  <2>2. /\ nextID <= MaxID /\ nextID' = nextID + 1
        /\ Suspend(c, "asleep", nextID, h, info)
    BY <1>6, <2>1 DEF Iterate
  <2>3. info \in CoroutineType /\ (h # Nil => info.stray)
    <3>1. PICK b \in BOOLEAN : b = (co[c].stray \/ h # Nil)  OBVIOUS
    <3>2. info = [co[c] EXCEPT !.stray = b]  BY <2>1, <3>1
    <3>3. info \in CoroutineType /\ info.stray = b  BY <3>2, <1>1 DEF CoroutineType
    <3> QED  BY <3>1, <3>3
  <2>4. nextID <= nextID'  BY <1>1, <2>2
  <2>5. "asleep" \in {"waiting", "asleep"}  OBVIOUS
  <2>6. CASE h = Nil /\ ~ Current(co[c].timer) /\ MailboxStays(c)
    BY <2>2, <2>3, <2>4, <2>5, <2>6, <1>1, <1>3, SuspendsWithNew
  <2>7. CASE h = co[c].timer /\ MailboxStays(Nobody)
    <3>1. h # Nil  BY <2>7 DEF TimersInv, OwnersOK
    <3> QED  BY <3>1, <2>2, <2>3, <2>4, <2>5, <2>7, <1>3, SuspendsWithOld
  <2> QED  BY <2>6, <2>7
<1>7. CASE Finish(c, co[c], h)  BY <1>7, Finishes
<1> QED  BY <1>5, <1>6, <1>7 DEF Resume

\* The mailbox as it was
LEMMA MailboxSame ==
  ASSUME inbox' = inbox, NEW c
  PROVE  MailboxStays(c)
BY DEF MailboxStays

\* execute
LEMMA ExecuteTimers ==
  ASSUME IInv, IInv', TimersInv, NoHandleReused, NEW c \in Coroutines, Execute(c)
  PROVE  TimersInv'
<1>1. /\ c \notin Suspended /\ nextID \in IDs /\ nextID' = nextID + 1
      /\ nextID \in 1 .. MaxID + 1 /\ [NotStarted EXCEPT !.id = nextID] \in CoroutineType
  BY RegisterStep DEF Execute
<1>2. PICK info : info = [NotStarted EXCEPT !.id = nextID]  OBVIOUS
<1>3. info.id = nextID /\ info \in CoroutineType  BY <1>1, <1>2 DEF NotStarted
<1>4. Suspend(c, "waiting", nextID, Nil, info) /\ inbox' = inbox
  BY <1>2, <1>3 DEF Execute, Call
<1>5. MailboxStays(c)  BY <1>4, MailboxSame
<1>6. NoTimeoutFor(nextID)  BY <1>1, <1>4, NewIDFree DEF IInv, TimersInv
<1>7. nextID <= nextID' /\ "waiting" \in {"waiting", "asleep"}  BY <1>1, Numbers
<1> QED  BY <1>1, <1>3, <1>4, <1>5, <1>6, <1>7, SuspendsWithNew

\* schedule
LEMMA ScheduleTimers ==
  ASSUME IInv, IInv', TimersInv, NoHandleReused, NEW c \in Coroutines, NEW loop \in BOOLEAN,
         Schedule(c, loop)
  PROVE  TimersInv'
<1>1. /\ c \notin Suspended /\ nextID \in IDs /\ nextID' = nextID + 1
      /\ nextID \in 1 .. MaxID + 1
  BY RegisterStep DEF Schedule
<1>2. PICK k : k = Created  OBVIOUS
<1>3. PICK r : r = [NotStarted EXCEPT !.status = "asleep", !.loop = loop,
                                      !.id = nextID, !.timer = k]
  OBVIOUS
<1>4. /\ ScheduleTimeout(nextID, Nil, <<ChangeTask(k)>>)
      /\ co' = [co EXCEPT ![c] = r] /\ inbox' = inbox
  BY <1>2, <1>3 DEF Schedule
<1>5. r.status = "asleep" /\ r.id = nextID /\ r.timer = k  BY <1>3 DEF NotStarted
<1>6. co'[c] = r /\ \A d \in Coroutines : d # c => co'[d] = co[d]
  BY <1>4 DEF IInv, TypeOK
<1>7. c \in Suspended'  BY <1>5, <1>6 DEF Suspended
<1>8. PICK new : CreateTimerHandle /\ StartTasks(new, k, nextID) /\ Post(new)
  <2>1. PICK more \in {<<>>, <<ChangeTask(k)>>} : more = <<ChangeTask(k)>>  OBVIOUS
  <2>2. ScheduleTimeout(nextID, Nil, more)  BY <1>4, <2>1
  <2> QED  BY <2>2, <1>1, <1>2, TimerStarts DEF IInv
<1>9. MailboxStays(c)  BY <1>4, MailboxSame
<1>10. NoTimeoutFor(nextID)  BY <1>1, <1>4, NewIDFree DEF IInv, TimersInv
<1>11. nextID <= nextID'  BY <1>1, Numbers
<1> QED  BY <1>1, <1>2, <1>5, <1>6, <1>7, <1>8, <1>9, <1>10, <1>11, WaitStarts

\* DoHandlerTask: a timeout or an answer
LEMMA HandlerTaskTimers ==
  ASSUME IInv, IInv', TimersInv, NoHandleReused, DoHandlerTask
  PROVE  TimersInv'
<1>1. PICK m, id, c : m = Head(inbox) /\ id = m.id /\ c = GetInfoByID(id)  OBVIOUS
<1>2. inbox \in Seq(Message) /\ inbox # <<>> /\ inbox' = Tail(inbox)
  BY DEF DoHandlerTask, IInv, TypeOK, Message
<1>3. /\ m \in Message
      /\ \A x : Contains(inbox', x) => Contains(inbox, x)
      /\ \A x : Contains(inbox, x) => x = m \/ Contains(inbox', x)
      /\ \A x : Once(inbox, x) => Once(inbox', x)
      /\ Once(inbox, m) => ~ Contains(inbox', m)
      /\ Contains(inbox, m)
  <2>1. /\ m \in Message /\ m = inbox[1] /\ 1 \in DOMAIN inbox
        /\ \A x : Contains(inbox', x) => Contains(inbox, x)
        /\ \A x : Contains(inbox, x) => x = m \/ Contains(inbox', x)
        /\ \A x : Once(inbox, x) => Once(inbox', x)
        /\ Once(inbox, m) => ~ Contains(inbox', m)
    BY <1>1, <1>2, TakenFirst
  <2>2. DOMAIN inbox = 1 .. Len(inbox)  BY <1>2, LenProperties
  <2>3. Contains(inbox, m)  BY <2>1, <2>2 DEF Contains
  <2> QED  BY <2>1, <2>3
<1>4. /\ m.type = "timeout" => m = Timeout(id)
      /\ m.type # "timeout" => \A i : m # Timeout(i)
      /\ \A i : Timeout(i) = Timeout(id) => i = id
  BY <1>1, <1>3 DEF Message, Timeout
<1>5. \A d \in Suspended : cbMap[co[d].id] = d /\ co[d].id \in IDs /\ d # Nobody
  <2>1. nextID \in 1 .. MaxID + 1 /\ MaxID \in Nat  BY Numbers DEF IInv, TypeOK
  <2>2. \A d \in Suspended : co[d].id \in 1 .. nextID - 1 /\ d \in Coroutines
    BY DEF IInv, IDsInv, IDsOK, Suspended
  <2>3. \A d \in Suspended : co[d].id \in IDs  BY <2>1, <2>2 DEF IDs
  <2> QED  BY <2>2, <2>3 DEF IInv, IDsInv, EntriesOK, Nobody, Coroutines
<1>6. CASE c = Nobody /\ Ignored
  <2>1. \A d \in Suspended : co[d].id # id
    <3> SUFFICES ASSUME NEW d \in Suspended, co[d].id = id PROVE FALSE  OBVIOUS
    <3>1. id \in IDs /\ cbMap[id] = d /\ d # Nobody  BY <1>5
    <3> QED  BY <3>1, <1>1, <1>6 DEF GetInfoByID
  <2>2. \A d \in Suspended : Timeout(co[d].id) # m  BY <2>1, <1>4
  <2>3. MailboxStays(Nobody)  BY <2>2, <1>3 DEF MailboxStays
  <2> QED  BY <2>3, <1>6, TimersStay DEF Ignored
<1>7. ASSUME c # Nobody PROVE c \in Suspended /\ co[c].id = id
  <2>1. id \in IDs /\ cbMap[id] = c  BY <1>1, <1>7 DEF GetInfoByID
  <2> QED  BY <2>1, <1>7, EntryOf
<1>8. CASE c # Nobody /\ m.type = "timeout" /\ Resume(c, Nil)
  <2>1. /\ Once(inbox, m) /\ ~ Current(co[c].timer) /\ m = Timeout(co[c].id)
    BY <1>3, <1>4, <1>7, <1>8 DEF TimersInv, OneTimeout
  <2>2. ~ Contains(inbox', Timeout(co[c].id))  BY <2>1, <1>3
  <2>3. \A d \in Suspended : d # c => Timeout(co[d].id) # m  BY <1>4, <1>5, <1>7, <1>8
  <2>4. MailboxStays(c)  BY <2>3, <1>3 DEF MailboxStays
  <2> QED  BY <2>1, <2>2, <2>4, <1>7, <1>8, ResumeTimers
<1>9. CASE c # Nobody /\ m.type = "answer" /\ Resume(c, co[c].timer)
  <2>1. \A i : m # Timeout(i)  BY <1>4, <1>9
  <2>2. MailboxStays(Nobody)  BY <2>1, <1>3 DEF MailboxStays
  <2> QED  BY <2>2, <1>7, <1>9, ResumeTimers
<1>10. \/ c = Nobody /\ Ignored
       \/ c # Nobody /\ m.type = "timeout" /\ Resume(c, Nil)
       \/ c # Nobody /\ m.type = "answer" /\ Resume(c, co[c].timer)
  BY <1>1 DEF DoHandlerTask, DoingTimeout, DoingAnswer
<1> QED  BY <1>6, <1>8, <1>9, <1>10

\* A sequence made of a finite set has all its elements.
LEMMA SetToSeqElements ==
  ASSUME NEW S, IsFiniteSet(S)
  PROVE  \A x : Contains(SetToSeq(S), x) <=> x \in S
<1> DEFINE n == Cardinality(S)
           f == SetToSeq(S)
<1>1. n \in Nat /\ ExistsBijection(1 .. n, S)  BY FS_CardinalityType
<1>2. \E g \in [1 .. n -> S] : IsInjective(g)
  BY <1>1 DEF ExistsBijection, Bijection, Injection
<1>3. f \in [1 .. n -> S] /\ IsInjective(f)  BY <1>2 DEF SetToSeq
<1>4. f \in Injection(1 .. n, S)  BY <1>3 DEF Injection
<1>5. Cardinality(1 .. n) = n  BY <1>1, FS_Interval
<1>6. f \in Surjection(1 .. n, S)  BY <1>4, <1>5, FS_Injection
<1>7. f \in Seq(S) /\ DOMAIN f = 1 .. n /\ Len(f) = n
  <2> HIDE DEF f, n
  <2>1. f \in Seq(S) /\ DOMAIN f = 1 .. n  BY <1>1, <1>3, SeqDef
  <2> QED  BY <2>1, <1>1, LenProperties
<1> HIDE DEF n
<1>8. \A x : Contains(f, x) <=> \E k \in 1 .. n : f[k] = x
  <2> HIDE DEF f
  <2> QED  BY <1>7 DEF Contains
<1> QED  BY <1>3, <1>6, <1>8 DEF Surjection

\* The tasks of destroyRpc remove the timers of the coroutines.
LEMMA DestroyTasks ==
  ASSUME IInv, OwnersOK, Destroy
  PROVE  \E new \in Seq(Task) :
            /\ Post(new)
            /\ \A t : Contains(new, t) => t.op # "start" /\ Kept(t.handle)
            /\ \A d \in Suspended : Contains(new, RemoveTask(co[d].timer))
<1> DEFINE Mapped == {d \in Coroutines : (\E i \in IDs : cbMap[i] = d) /\ co[d].timer # Nil}
           Tasks == {RemoveTask(co[d].timer) : d \in Mapped}
<1>1. Post(SetToSeq(Tasks))  BY DEF Destroy
<1>2. IsFiniteSet(Tasks)
  <2>1. 1 \in Int /\ MaxStarted \in Int /\ IsFiniteSet(Coroutines)
    BY Numbers, FS_Interval DEF Coroutines
  <2>2. Mapped \in SUBSET Coroutines  OBVIOUS
  <2>3. IsFiniteSet(Mapped)  BY <2>1, <2>2, FS_Subset
  <2> HIDE DEF Mapped
  <2> DEFINE f == [d \in Mapped |-> RemoveTask(co[d].timer)]
  <2>4. f \in Surjection(Mapped, Tasks)  BY DEF Surjection
  <2> QED  BY <2>3, <2>4, FS_Surjection DEF ExistsSurjection
<1>3. \A t \in Tasks : t \in Task /\ t.op # "start" /\ Kept(t.handle)
  <2>1. \A d \in Mapped : co[d].timer \in Handle /\ Kept(co[d].timer)
    BY TimerHeld DEF IInv
  <2>2. \A h \in Handle : RemoveTask(h) \in Task /\ RemoveTask(h).op # "start"
                          /\ RemoveTask(h).handle = h
    BY TaskTypes, TasksDiffer
  <2> QED  BY <2>1, <2>2
<1>4. \A d \in Suspended : RemoveTask(co[d].timer) \in Tasks
  <2> TAKE d \in Suspended
  <2>1. nextID \in 1 .. MaxID + 1 /\ MaxID \in Nat  BY Numbers DEF IInv, TypeOK
  <2>2. co[d].id \in 1 .. nextID - 1 /\ d \in Coroutines
    BY DEF IInv, IDsInv, IDsOK, Suspended
  <2>3. co[d].id \in IDs  BY <2>1, <2>2 DEF IDs
  <2>4. cbMap[co[d].id] = d  BY <2>2, <2>3 DEF IInv, IDsInv, EntriesOK
  <2>5. co[d].timer # Nil  BY DEF OwnersOK
  <2> QED  BY <2>2, <2>3, <2>4, <2>5
<1> HIDE DEF Tasks
<1>5. PICK new : new = SetToSeq(Tasks)  OBVIOUS
<1>6. new \in Seq(Task)  BY <1>2, <1>3, <1>5, SetToSeqType, SeqDef
<1>7. \A t : Contains(new, t) <=> t \in Tasks  BY <1>2, <1>5, SetToSeqElements
<1> QED  BY <1>1, <1>3, <1>4, <1>5, <1>6, <1>7

\* destroyRpc
LEMMA DestroyTimers ==
  ASSUME IInv, IInv', TimersInv, Destroy
  PROVE  TimersInv'
<1>1. /\ co' = [d \in Coroutines |-> Dead]
      /\ UNCHANGED <<timers, idle, nextID, inbox>>
  BY DEF Destroy
<1>2. PICK new \in Seq(Task) :
        /\ Post(new)
        /\ \A t : Contains(new, t) => t.op # "start" /\ Kept(t.handle)
        /\ \A d \in Suspended : Contains(new, RemoveTask(co[d].timer))
  BY DestroyTasks DEF TimersInv
<1>3. Suspended' = {}  BY <1>1 DEF Suspended, Dead, NotStarted
<1>4. \A d \in Coroutines : co'[d].timer = Nil  BY <1>1 DEF Dead, NotStarted
<1>5. MailboxStays(Nobody)  BY <1>1, MailboxSame
<1>6. nextID <= nextID'
  <2>1. nextID \in 1 .. MaxID + 1 /\ MaxID \in Nat  BY Numbers DEF IInv, TypeOK
  <2> QED  BY <2>1, <1>1
<1> QED  BY <1>1, <1>2, <1>3, <1>4, <1>5, <1>6, WaitsGoOn

\* Another thread answers a call.
LEMMA AnswerTimers ==
  ASSUME IInv, IInv', TimersInv, Answer
  PROVE  TimersInv'
<1>1. PICK id \in IDs :
        /\ inbox' = IF handler = "gone" THEN inbox
                    ELSE Append(inbox, [type |-> "answer", id |-> id])
        /\ UNCHANGED <<co, nextID, timerVars>>
  BY DEF Answer
<1>2. PICK m : m = [type |-> "answer", id |-> id]  OBVIOUS
<1>3. m \in Message /\ \A i : Timeout(i) # m  BY <1>2, Numbers DEF Message, IDs, Timeout
<1>4. inbox \in Seq(Message)  BY DEF IInv, TypeOK, Message
<1>5. MailboxStays(Nobody)
  <2>1. CASE inbox' = inbox  BY <2>1, MailboxSame
  <2>2. CASE inbox' = Append(inbox, m)
    <3>1. /\ \A x : Contains(inbox', x) <=> Contains(inbox, x) \/ x = m
          /\ \A x : Once(inbox, x) /\ (x = m => ~ Contains(inbox, x)) => Once(inbox', x)
      BY <2>2, <1>3, <1>4, MailboxGrows
    <3> QED  BY <3>1, <1>3 DEF MailboxStays
  <2> QED  BY <2>1, <2>2, <1>1, <1>2
<1> QED  BY <1>1, <1>5, TimersStay

-----------------------------------------------------------------------------
(***************************************************************************)
(* The theorems about the timers.                                          *)
(***************************************************************************)

LEMMA TimersBegin ==
  ASSUME Init
  PROVE  TimersInv
<1>1. timers = <<>> /\ idle = <<>> /\ tasks = <<>> /\ inbox = <<>>  BY DEF Init, TimerInit
<1>2. DOMAIN <<>> = {} /\ \A x : ~ Contains(<<>>, x)  BY DEF Contains
<1>3. Suspended = {} /\ Live = {}  BY <1>1, <1>2 DEF Suspended, Live, Init, NotStarted
<1>4. \A h : Kept(h) => h = Nil  BY <1>1, <1>2 DEF Kept, Init, NotStarted
<1>5. PoolOK  BY <1>1, <1>2 DEF PoolOK, IsInjective
<1>6. KeptOK  BY <1>4 DEF KeptOK
<1>7. TasksOK /\ StartedOK  BY <1>1, <1>2, <1>3 DEF TasksOK, StartedOK
<1>8. OwnersOK  BY <1>3 DEF OwnersOK, TimersOwned
<1>9. OneTimeout /\ TimeoutsOK  BY <1>3 DEF OneTimeout, TimeoutsOK
<1>10. TimersFresh  BY <1>1, <1>2 DEF TimersFresh
<1> QED  BY <1>5, <1>6, <1>7, <1>8, <1>9, <1>10 DEF TimersInv

\* Every step of the thread of the handler and of the main thread
LEMMA TimersStep ==
  ASSUME IInv, IInv', TimersInv, NoHandleReused, NoHandleReused', [Next]_vars
  PROVE  TimersInv'
<1>1. CASE UNCHANGED vars
  <2>1. UNCHANGED <<co, nextID, timerVars>> /\ inbox' = inbox  BY <1>1 DEF vars, rpcVars
  <2> QED  BY <2>1, MailboxSame, TimersStay
<1>2. ASSUME NEW c \in Coroutines, Execute(c) PROVE TimersInv'
  BY <1>2, ExecuteTimers
<1>3. ASSUME NEW c \in Coroutines, NEW loop \in BOOLEAN, Schedule(c, loop) PROVE TimersInv'
  BY <1>3, ScheduleTimers
<1>4. CASE DoHandlerTask  BY <1>4, HandlerTaskTimers
<1>5. CASE Destroy  BY <1>5, DestroyTimers
<1>6. CASE Unload
  <2>1. UNCHANGED <<co, nextID, timerVars>> /\ inbox' = inbox  BY <1>6 DEF Unload
  <2> QED  BY <2>1, MailboxSame, TimersStay
<1>7. CASE Answer  BY <1>7, AnswerTimers
<1>8. ASSUME NEW s \in 1 .. MaxTimers, Fire(s) PROVE TimersInv'
  BY <1>8, FireTimers
<1>9. CASE MainTask  BY <1>9, MainTaskTimers
<1> QED  BY <1>1, <1>2, <1>3, <1>4, <1>5, <1>6, <1>7, <1>8, <1>9 DEF Next

\* The inductive invariant of the timers: who holds a handle, which tasks are on the way
\* for it and when its timer is armed.
THEOREM TimersInvariant == Spec /\ []NoHandleReused => []TimersInv
<1>1. Init => TimersInv  BY TimersBegin
<1>2. IInv /\ IInv' /\ TimersInv /\ NoHandleReused /\ NoHandleReused' /\ [Next]_vars => TimersInv'
  BY TimersStep
<1> QED  BY <1>1, <1>2, InductiveInvariant, PTL DEF Spec

\* As long as nobody keeps a handle until its version comes round, however many timers
\* there are, no timer of the coroutines is lost and none has two owners: a slot in use
\* belongs to one suspended coroutine or is about to be removed.
THEOREM TimersHaveOwners == Spec /\ []NoHandleReused => []TimersOwned
<1>1. TimersInv => TimersOwned  BY DEF TimersInv, OwnersOK
<1> QED  BY <1>1, TimersInvariant, PTL

\* The pool always had a timer for a coroutine that waits.
TimersEnough == \A c \in Suspended : co[c].timer # NoTimer

\* Then the timeout that resumeCoroutine has set for a suspended coroutine is on its way,
\* but for the loops of rpc_loop, whatever the main thread and the handler's do meanwhile.
THEOREM TimeoutsCome == Spec /\ []NoHandleReused /\ []TimersEnough => []TimeoutComes
<1>1. TimersInv /\ TimersEnough => TimeoutComes
  BY DEF TimersInv, TimeoutsOK, TimersEnough, TimeoutComes
<1> QED  BY <1>1, TimersInvariant, PTL
=============================================================================
