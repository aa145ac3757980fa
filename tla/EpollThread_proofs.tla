-------------------------- MODULE EpollThread_proofs --------------------------
(***************************************************************************)
(* Proofs about the loop of an epoll thread: its timers, for any number of *)
(* objects and durations, its mailbox (ActiveWorker), for any number of    *)
(* posters and tasks, and its http client (MultiCurl), for any requests    *)
(* and limits.                                                             *)
(***************************************************************************)
EXTENDS TimerProps, ActiveWorker, MultiCurlProps, TLAPS, SequenceTheorems,
        FiniteSetTheorems, WellFoundedInduction

-----------------------------------------------------------------------------
(***************************************************************************)
(* Selection.  Only is defined by recursion: a fact about all its values   *)
(* is proved by the least value it fails for.                              *)
(***************************************************************************)

\* A set of natural numbers that is not empty has a least element.
LEMMA LeastOf ==
  ASSUME NEW T, T \subseteq Nat, T # {}
  PROVE  \E x \in T : \A y \in T : x <= y
<1>1. PICK R : R = OpToRel(<, Nat)  OBVIOUS
<1>2. IsWellFoundedOn(R, Nat)  BY <1>1, NatLessThanWellFounded
<1>3. PICK x \in T : \A y \in T : ~ (<<y, x>> \in R)  BY <1>2, WFMin
<1>4. \A y \in T : ~ (y < x)  BY <1>1, <1>3 DEF OpToRel
<1> QED  BY <1>4

\* f[m] has the elements of S among the first m of q.
Selects(q, S, n, f) ==
  f = [m \in 0 .. n |->
         IF m = 0 THEN <<>>
         ELSE IF q[m] \in S THEN Append(f[m - 1], q[m]) ELSE f[m - 1]]

\* r selects from the first m of q through the positions e.
Embeds(q, S, m, r, e) ==
  /\ e \in [1 .. Len(r) -> 1 .. m]
  /\ \A i \in 1 .. Len(r) : r[i] = q[e[i]] /\ q[e[i]] \in S
  /\ \A i, j \in 1 .. Len(r) : i < j => e[i] < e[j]
  /\ \A k \in 1 .. m : q[k] \in S => \E i \in 1 .. Len(r) : e[i] = k

LEMMA SelectsExist ==
  ASSUME NEW A, NEW q \in Seq(A), NEW S, NEW n \in 0 .. Len(q)
  PROVE  \E f \in [0 .. n -> Seq(A)] : Selects(q, S, n, f)
<1> DEFINE T == {m \in 0 .. Len(q) : ~ \E f \in [0 .. m -> Seq(A)] : Selects(q, S, m, f)}
<1> SUFFICES ASSUME T # {} PROVE FALSE
  OBVIOUS
<1>1. Len(q) \in Nat /\ T \subseteq Nat  BY LenProperties
<1>2. PICK m \in T : \A k \in T : m <= k
  <2> HIDE DEF T
  <2> QED  BY <1>1, LeastOf
<1>3. CASE m = 0
  <2>1. Selects(q, S, 0, [i \in 0 .. 0 |-> <<>>])  BY DEF Selects
  <2>2. [i \in 0 .. 0 |-> <<>>] \in [0 .. 0 -> Seq(A)]  OBVIOUS
  <2> QED  BY <1>3, <2>1, <2>2
<1>4. CASE m # 0
  <2>1. m \in Nat \ {0} /\ m - 1 \in 0 .. Len(q) /\ m \in 1 .. Len(q)  BY <1>1, <1>4
  <2>2. m - 1 \notin T
    <3> HIDE DEF T
    <3> QED  BY <1>2, <2>1
  <2>3. PICK f \in [0 .. m - 1 -> Seq(A)] : Selects(q, S, m - 1, f)  BY <2>1, <2>2
  <2> DEFINE last == IF q[m] \in S THEN Append(f[m - 1], q[m]) ELSE f[m - 1]
  <2>4. last \in Seq(A)
    <3>1. f[m - 1] \in Seq(A) /\ q[m] \in A  BY <2>1, <2>3, ElementOfSeq
    <3> QED  BY <3>1, AppendProperties
  <2> HIDE DEF last
  <2>5. PICK g : g = [i \in 0 .. m |-> IF i = m THEN last ELSE f[i]]  OBVIOUS
  <2>6. g \in [0 .. m -> Seq(A)]  BY <2>1, <2>3, <2>4, <2>5
  <2>7. ASSUME NEW i \in 0 .. m
        PROVE  g[i] = IF i = 0 THEN <<>>
                      ELSE IF q[i] \in S THEN Append(g[i - 1], q[i]) ELSE g[i - 1]
    <3>1. CASE i = m
      <4>1. g[m] = last /\ g[m - 1] = f[m - 1]  BY <2>1, <2>5
      <4> QED  BY <2>1, <3>1, <4>1 DEF last
    <3>2. CASE i # m
      <4>1. i \in 0 .. m - 1 /\ g[i] = f[i]  BY <2>1, <2>5, <3>2
      <4>2. i # 0 => i - 1 \in 0 .. m - 1 /\ g[i - 1] = f[i - 1]  BY <2>1, <2>5, <4>1
      <4>3. f[i] = IF i = 0 THEN <<>>
                   ELSE IF q[i] \in S THEN Append(f[i - 1], q[i]) ELSE f[i - 1]
        BY <2>3, <4>1 DEF Selects
      <4> QED  BY <4>1, <4>2, <4>3
    <3> QED  BY <3>1, <3>2
  <2>8. Selects(q, S, m, g)
    <3>1. g = [i \in 0 .. m |-> g[i]]  BY <2>5
    <3> QED  BY <2>7, <3>1 DEF Selects
  <2> QED  BY <2>6, <2>8
<1> QED  BY <1>3, <1>4

\* One more element of q
LEMMA EmbedsNext ==
  ASSUME NEW A, NEW q \in Seq(A), NEW S, NEW m \in 1 .. Len(q),
         NEW r \in Seq(A), NEW e, Embeds(q, S, m - 1, r, e)
  PROVE  \E d : Embeds(q, S, m, IF q[m] \in S THEN Append(r, q[m]) ELSE r, d)
<1>1. Len(q) \in Nat /\ Len(r) \in Nat /\ m \in Nat  BY LenProperties
<1>2. CASE q[m] \notin S
  <2>1. \A k \in 1 .. m : q[k] \in S => k \in 1 .. m - 1  BY <1>1, <1>2
  <2>2. e \in [1 .. Len(r) -> 1 .. m]
    <3>1. \A i \in 1 .. m - 1 : i \in 1 .. m  BY <1>1
    <3>2. e \in [1 .. Len(r) -> 1 .. m - 1]  BY DEF Embeds
    <3> QED  BY <3>1, <3>2
  <2>3. Embeds(q, S, m, r, e)  BY <2>1, <2>2 DEF Embeds
  <2> QED  BY <1>2, <2>3
<1>3. CASE q[m] \in S
  <2> DEFINE s == Append(r, q[m])
             d == [i \in 1 .. Len(r) + 1 |-> IF i = Len(r) + 1 THEN m ELSE e[i]]
  <2>1. q[m] \in A  BY ElementOfSeq
  <2>2. /\ Len(s) = Len(r) + 1 /\ s[Len(r) + 1] = q[m]
        /\ \A i \in 1 .. Len(r) : s[i] = r[i]
    BY <2>1, AppendProperties
  <2> HIDE DEF s
  <2>3. /\ d[Len(r) + 1] = m
        /\ \A i \in 1 .. Len(r) : d[i] = e[i] /\ e[i] \in 1 .. m - 1
    <3>1. e \in [1 .. Len(r) -> 1 .. m - 1]  BY DEF Embeds
    <3>2. \A i \in 1 .. Len(r) : i \in 1 .. Len(r) + 1 /\ i # Len(r) + 1  BY <1>1
    <3>3. Len(r) + 1 \in 1 .. Len(r) + 1  BY <1>1
    <3> QED  BY <3>1, <3>2, <3>3
  <2>4. d \in [1 .. Len(s) -> 1 .. m]
    <3>1. \A i \in 1 .. Len(r) + 1 :
             (IF i = Len(r) + 1 THEN m ELSE e[i]) \in 1 .. m
      <4> TAKE i \in 1 .. Len(r) + 1
      <4>1. e \in [1 .. Len(r) -> 1 .. m - 1]  BY DEF Embeds
      <4>2. i # Len(r) + 1 => i \in 1 .. Len(r)  BY <1>1
      <4> QED  BY <1>1, <4>1, <4>2
    <3> QED  BY <2>2, <3>1
  <2> HIDE DEF d
  <2>5. \A i \in 1 .. Len(s) : i \in 1 .. Len(r) \/ i = Len(r) + 1  BY <1>1, <2>2
  <2>6. \A i \in 1 .. Len(s) : s[i] = q[d[i]] /\ q[d[i]] \in S
    BY <1>3, <2>2, <2>3, <2>5 DEF Embeds
  <2>7. \A i, j \in 1 .. Len(s) : i < j => d[i] < d[j]
    <3> SUFFICES ASSUME NEW i \in 1 .. Len(s), NEW j \in 1 .. Len(s), i < j
                 PROVE  d[i] < d[j]
      OBVIOUS
    <3>1. i \in 1 .. Len(r)  BY <1>1, <2>2
    <3> QED  BY <1>1, <2>3, <2>5, <3>1 DEF Embeds
  <2>8. \A k \in 1 .. m : q[k] \in S => \E i \in 1 .. Len(s) : d[i] = k
    <3> SUFFICES ASSUME NEW k \in 1 .. m, q[k] \in S
                 PROVE  \E i \in 1 .. Len(s) : d[i] = k
      OBVIOUS
    <3>1. CASE k = m
      <4>1. Len(r) + 1 \in 1 .. Len(s)  BY <1>1, <2>2
      <4> QED  BY <2>3, <3>1, <4>1
    <3>2. CASE k # m
      <4>1. k \in 1 .. m - 1  BY <1>1, <3>2
      <4>2. PICK i \in 1 .. Len(r) : e[i] = k  BY <4>1 DEF Embeds
      <4>3. i \in 1 .. Len(s)  BY <1>1, <2>2
      <4> QED  BY <2>3, <4>2, <4>3
    <3> QED  BY <3>1, <3>2
  <2> QED  BY <1>3, <2>4, <2>6, <2>7, <2>8 DEF Embeds, s
<1> QED  BY <1>2, <1>3

\* Only selects the elements that are in S, in the order of q.
LEMMA OnlySelects ==
  ASSUME NEW A, NEW q \in Seq(A), NEW S
  PROVE  Only(q, S) \in Seq(A) /\ \E e : Embeds(q, S, Len(q), Only(q, S), e)
<1>1. Len(q) \in Nat /\ Len(q) \in 0 .. Len(q)  BY LenProperties
<1>2. PICK f : f = CHOOSE h : Selects(q, S, Len(q), h)  OBVIOUS
<1>3. \E h : Selects(q, S, Len(q), h)  BY <1>1, SelectsExist
<1>4. Selects(q, S, Len(q), f)  BY <1>2, <1>3
<1>5. Only(q, S) = f[Len(q)]
  BY <1>2 DEF Only, Selects
<1> DEFINE Good(m) == f[m] \in Seq(A) /\ \E e : Embeds(q, S, m, f[m], e)
           T == {m \in 0 .. Len(q) : ~ Good(m)}
<1>6. T = {}
  <2> SUFFICES ASSUME T # {} PROVE FALSE
    OBVIOUS
  <2>1. T \subseteq Nat  OBVIOUS
  <2>2. PICK m \in T : \A k \in T : m <= k
    <3> HIDE DEF T
    <3> QED  BY <2>1, LeastOf
  <2>3. CASE m = 0
    <3>1. f[0] = <<>>  BY <1>1, <1>4 DEF Selects
    <3>2. f[0] \in Seq(A) /\ Len(f[0]) = 0  BY <3>1
    <3>3. Embeds(q, S, 0, f[0], [i \in 1 .. 0 |-> i])  BY <3>2 DEF Embeds
    <3> QED  BY <2>3, <3>2, <3>3
  <2>4. CASE m # 0
    <3>1. m \in Nat /\ m - 1 \in 0 .. Len(q) /\ m \in 1 .. Len(q)  BY <1>1, <2>4
    <3>2. m - 1 \notin T
      <4> HIDE DEF T
      <4> QED  BY <2>2, <3>1
    <3>3. f[m - 1] \in Seq(A)  BY <3>1, <3>2
    <3>4. PICK e : Embeds(q, S, m - 1, f[m - 1], e)  BY <3>1, <3>2
    <3>5. f[m] = IF q[m] \in S THEN Append(f[m - 1], q[m]) ELSE f[m - 1]
      <4>1. m \in 0 .. Len(q)  BY <3>1
      <4>2. f[m] = IF m = 0 THEN <<>>
                   ELSE IF q[m] \in S THEN Append(f[m - 1], q[m]) ELSE f[m - 1]
        BY <1>4, <4>1 DEF Selects
      <4> QED  BY <2>4, <4>2
    <3>6. q[m] \in A  BY <3>1, ElementOfSeq
    <3>7. f[m] \in Seq(A)  BY <3>3, <3>5, <3>6, AppendProperties
    <3>8. \E d : Embeds(q, S, m, f[m], d)  BY <3>1, <3>3, <3>4, <3>5, EmbedsNext
    <3> QED  BY <3>7, <3>8
  <2> QED  BY <2>3, <2>4
<1>7. Good(Len(q))
  <2> HIDE DEF Good
  <2> QED  BY <1>1, <1>6
<1> QED  BY <1>5, <1>7

\* What the selection has, and that it has nothing twice
LEMMA OnlyElements ==
  ASSUME NEW A, NEW q \in Seq(A), NEW S
  PROVE  /\ Only(q, S) \in Seq(A)
         /\ ToSet(Only(q, S)) = ToSet(q) \intersect S
         /\ IsInjective(q) => IsInjective(Only(q, S))
<1>1. PICK r \in Seq(A) : r = Only(q, S)  BY OnlySelects
<1>2. PICK e : Embeds(q, S, Len(q), r, e)  BY <1>1, OnlySelects
<1>3. /\ DOMAIN q = 1 .. Len(q) /\ DOMAIN r = 1 .. Len(r)
      /\ Len(q) \in Nat /\ Len(r) \in Nat
  BY LenProperties
<1>4. \A i \in DOMAIN r : e[i] \in DOMAIN q /\ r[i] = q[e[i]] /\ r[i] \in S
  BY <1>2, <1>3 DEF Embeds
<1>5. ToSet(r) \subseteq ToSet(q) \intersect S
  BY <1>4 DEF ToSet
<1>6. ToSet(q) \intersect S \subseteq ToSet(r)
  <2> SUFFICES ASSUME NEW k \in DOMAIN q, q[k] \in S PROVE q[k] \in ToSet(r)
    BY DEF ToSet
  <2>1. PICK i \in DOMAIN r : e[i] = k  BY <1>2, <1>3 DEF Embeds
  <2> QED  BY <1>4, <2>1 DEF ToSet
<1>7. IsInjective(q) => IsInjective(r)
  <2> SUFFICES ASSUME IsInjective(q), NEW i \in DOMAIN r, NEW j \in DOMAIN r, r[i] = r[j]
               PROVE  i = j
    BY DEF IsInjective
  <2>1. e[i] = e[j]  BY <1>4 DEF IsInjective
  <2>2. e[i] \in Nat /\ e[j] \in Nat  BY <1>3, <1>4
  <2>3. (i < j => e[i] < e[j]) /\ (j < i => e[j] < e[i])  BY <1>2, <1>3 DEF Embeds
  <2> QED  BY <1>3, <2>1, <2>2, <2>3
<1> QED  BY <1>1, <1>5, <1>6, <1>7

LEMMA WithoutElements ==
  ASSUME NEW A, NEW q \in Seq(A), NEW S
  PROVE  /\ Without(q, S) \in Seq(A)
         /\ ToSet(Without(q, S)) = ToSet(q) \ S
         /\ IsInjective(q) => IsInjective(Without(q, S))
<1> DEFINE T == ToSet(q) \ S
<1>1. Without(q, S) = Only(q, T)  BY DEF Without, ToSet
<1> HIDE DEF T
<1>2. /\ Only(q, T) \in Seq(A)
      /\ ToSet(Only(q, T)) = ToSet(q) \intersect T
      /\ IsInjective(q) => IsInjective(Only(q, T))
  BY OnlyElements
<1> QED  BY <1>1, <1>2 DEF T

\* Append
LEMMA AppendElements ==
  ASSUME NEW A, NEW q \in Seq(A), NEW a \in A
  PROVE  /\ Append(q, a) \in Seq(A)
         /\ ToSet(Append(q, a)) = ToSet(q) \union {a}
         /\ IsInjective(q) /\ a \notin ToSet(q) => IsInjective(Append(q, a))
<1>1. PICK r \in Seq(A) : r = Append(q, a)  BY AppendProperties
<1>2. /\ DOMAIN q = 1 .. Len(q) /\ DOMAIN r = 1 .. Len(q) + 1 /\ Len(q) \in Nat
      /\ \A i \in 1 .. Len(q) : r[i] = q[i]
      /\ r[Len(q) + 1] = a
  BY <1>1, AppendProperties, LenProperties
<1>3. \A i \in DOMAIN r : i \in DOMAIN q \/ i = Len(q) + 1  BY <1>2
<1>4. \A i \in DOMAIN q : i \in DOMAIN r  BY <1>2
<1>5. Len(q) + 1 \in DOMAIN r  BY <1>2
<1>6. ToSet(r) = ToSet(q) \union {a}
  BY <1>2, <1>3, <1>4, <1>5 DEF ToSet
<1>7. ASSUME IsInjective(q), a \notin ToSet(q) PROVE IsInjective(r)
  BY <1>2, <1>3, <1>7 DEF IsInjective, ToSet
<1> QED  BY <1>1, <1>6, <1>7

-----------------------------------------------------------------------------
(***************************************************************************)
(* The list that the pointers make: Chain finds it.                        *)
(***************************************************************************)

LEMMA CardinalityUpTo ==
  ASSUME NEW n \in Nat
  PROVE  Cardinality(1 .. n) = n
BY FS_Interval

\* f is what following m_pNext from the head of the list of c meets.
Follows(L, c, n, f) ==
  f = [i \in 1 .. n |->
         IF i = 1 THEN L.head[c]
         ELSE IF f[i - 1] = Nil THEN Nil ELSE L.nxt[f[i - 1]]]

\* A sequence of different elements of a finite set is not longer than the set is large.
LEMMA DistinctLength ==
  ASSUME NEW A, IsFiniteSet(A), NEW q \in Seq(A), IsInjective(q)
  PROVE  Len(q) <= Cardinality(A)
<1>1. DOMAIN q = 1 .. Len(q) /\ Len(q) \in Nat  BY LenProperties
<1>2. q \in Injection(1 .. Len(q), A)
  BY <1>1, ElementOfSeq DEF IsInjective, Injection, IsInjective
<1>3. IsFiniteSet(1 .. Len(q)) /\ Cardinality(1 .. Len(q)) = Len(q)
  BY <1>1, FS_Interval
<1> HIDE DEF IsInjective
<1>4. Cardinality(1 .. Len(q)) <= Cardinality(A)
  BY <1>2, <1>3, FS_Injection
<1> QED  BY <1>3, <1>4

\* The pointers lead through q.
Leads(L, c, q) ==
  /\ L.head[c] = At(q, 1)
  /\ \A i \in DOMAIN q : L.nxt[q[i]] = At(q, i + 1)

LEMMA FollowsList ==
  ASSUME NEW L, NEW c, NEW q \in Seq(Objects), Leads(L, c, q), NEW n \in Nat
  PROVE  /\ Follows(L, c, n, [i \in 1 .. n |-> At(q, i)])
         /\ \A f : Follows(L, c, n, f) => f = [i \in 1 .. n |-> At(q, i)]
<1>1. DOMAIN q = 1 .. Len(q) /\ Len(q) \in Nat  BY LenProperties
<1>2. \A i \in DOMAIN q : q[i] # Nil  BY <1>1, ElementOfSeq, TimerAssumption
<1>3. \A i \in 1 .. n :
         At(q, i) = IF i = 1 THEN L.head[c]
                    ELSE IF At(q, i - 1) = Nil THEN Nil ELSE L.nxt[At(q, i - 1)]
  <2> TAKE i \in 1 .. n
  <2>1. CASE i = 1  BY <2>1 DEF Leads
  <2>2. CASE i # 1 /\ i - 1 \in DOMAIN q
    <3>1. At(q, i - 1) = q[i - 1] /\ q[i - 1] # Nil  BY <1>2, <2>2 DEF At
    <3>2. L.nxt[q[i - 1]] = At(q, (i - 1) + 1)  BY <2>2 DEF Leads
    <3>3. (i - 1) + 1 = i  OBVIOUS
    <3> QED  BY <2>2, <3>1, <3>2, <3>3
  <2>3. CASE i # 1 /\ i - 1 \notin DOMAIN q
    <3>1. i \notin DOMAIN q  BY <1>1, <2>3
    <3> QED  BY <2>3, <3>1 DEF At
  <2> QED  BY <2>1, <2>2, <2>3
<1>4. Follows(L, c, n, [i \in 1 .. n |-> At(q, i)])
  <2> DEFINE g == [i \in 1 .. n |-> At(q, i)]
  <2>1. \A i \in 1 .. n : g[i] = At(q, i)  OBVIOUS
  <2>2. \A i \in 1 .. n : i # 1 => g[i - 1] = At(q, i - 1)  OBVIOUS
  <2>3. g = [i \in 1 .. n |-> g[i]]  OBVIOUS
  <2> HIDE DEF g
  <2>4. \A i \in 1 .. n :
           g[i] = IF i = 1 THEN L.head[c]
                  ELSE IF g[i - 1] = Nil THEN Nil ELSE L.nxt[g[i - 1]]
    <3> TAKE i \in 1 .. n
    <3>1. At(q, i) = IF i = 1 THEN L.head[c]
                     ELSE IF At(q, i - 1) = Nil THEN Nil ELSE L.nxt[At(q, i - 1)]
      BY <1>3
    <3> QED  BY <2>1, <2>2, <3>1
  <2>5. Follows(L, c, n, g)  BY <2>3, <2>4 DEF Follows
  <2> QED  BY <2>5 DEF g
<1>5. ASSUME NEW f, Follows(L, c, n, f) PROVE f = [i \in 1 .. n |-> At(q, i)]
  <2> DEFINE T == {i \in 1 .. n : f[i] # At(q, i)}
  <2>1. \A i \in 1 .. n :
           f[i] = IF i = 1 THEN L.head[c]
                  ELSE IF f[i - 1] = Nil THEN Nil ELSE L.nxt[f[i - 1]]
    BY <1>5 DEF Follows
  <2>2. T = {}
    <3> SUFFICES ASSUME T # {} PROVE FALSE
      OBVIOUS
    <3>1. T \subseteq Nat  OBVIOUS
    <3>2. PICK i \in T : \A k \in T : i <= k
      <4> HIDE DEF T
      <4> QED  BY <3>1, LeastOf
    <3>3. i # 1 => f[i - 1] = At(q, i - 1)
      <4> SUFFICES ASSUME i # 1 PROVE f[i - 1] = At(q, i - 1)
        OBVIOUS
      <4>1. i - 1 \in 1 .. n /\ ~ (i <= i - 1)  OBVIOUS
      <4>2. i - 1 \notin T
        <5> HIDE DEF T
        <5> QED  BY <3>2, <4>1
      <4> QED  BY <4>1, <4>2
    <3>4. i \in 1 .. n /\ f[i] # At(q, i)  OBVIOUS
    <3>5. At(q, i) = IF i = 1 THEN L.head[c]
                     ELSE IF At(q, i - 1) = Nil THEN Nil ELSE L.nxt[At(q, i - 1)]
      BY <1>3, <3>4
    <3>6. f[i] = IF i = 1 THEN L.head[c]
                 ELSE IF f[i - 1] = Nil THEN Nil ELSE L.nxt[f[i - 1]]
      BY <2>1, <3>4
    <3> QED  BY <3>3, <3>4, <3>5, <3>6
  <2>3. \A i \in 1 .. n : f[i] = At(q, i)  BY <2>2
  <2>4. f = [i \in 1 .. n |-> f[i]]  BY <1>5 DEF Follows
  <2> QED  BY <2>3, <2>4
<1> QED  BY <1>4, <1>5

LEMMA ChainOfList ==
  ASSUME NEW L, NEW c, NEW q \in Seq(Objects), IsInjective(q), Leads(L, c, q)
  PROVE  Chain(L, c) = q
<1> DEFINE n == Cardinality(Objects)
           g == [i \in 1 .. n |-> At(q, i)]
<1>1. DOMAIN q = 1 .. Len(q) /\ Len(q) \in Nat  BY LenProperties
<1>2. Len(q) <= n /\ n \in Nat
  BY DistinctLength, TimerAssumption, FS_CardinalityType
<1>3. PICK f : f = CHOOSE h : Follows(L, c, n, h)  OBVIOUS
<1>4. Follows(L, c, n, g) /\ \A h : Follows(L, c, n, h) => h = g
  <2> HIDE DEF n
  <2> QED  BY <1>2, FollowsList
<1>5. f = g
  <2> HIDE DEF g, n
  <2>1. Follows(L, c, n, f)  BY <1>3, <1>4
  <2> QED  BY <1>4, <2>1
<1>6. Chain(L, c) = SubSeq(f, 1, Cardinality({i \in DOMAIN f : f[i] # Nil}))
  BY <1>3 DEF Chain, Follows
<1>7. {i \in DOMAIN f : f[i] # Nil} = 1 .. Len(q)
  <2>1. \A i \in 1 .. Len(q) : q[i] # Nil  BY ElementOfSeq, TimerAssumption
  <2>2. DOMAIN f = 1 .. n /\ \A i \in 1 .. n : f[i] = At(q, i)  BY <1>5
  <2>3. \A i \in 1 .. Len(q) : i \in 1 .. n  BY <1>1, <1>2
  <2> HIDE DEF n
  <2> QED  BY <1>1, <2>1, <2>2, <2>3 DEF At
<1>8. Cardinality(1 .. Len(q)) = Len(q)  BY <1>1, FS_Interval
<1>9. \A i \in 1 .. Len(q) : f[i] = q[i] /\ q[i] \in Objects
  <2>1. \A i \in 1 .. Len(q) : i \in 1 .. n  BY <1>1, <1>2
  <2> HIDE DEF n
  <2> QED  BY <1>1, <1>5, <2>1, ElementOfSeq DEF At
<1> DEFINE s == SubSeq(f, 1, Len(q))
<1>10. s \in Seq(Objects) /\ Len(s) = Len(q) /\ \A i \in 1 .. Len(q) : s[i] = q[i]
  <2>1. /\ s \in Seq(Objects) /\ Len(s) = IF 1 <= Len(q) THEN Len(q) - 1 + 1 ELSE 0
        /\ \A i \in 1 .. Len(q) - 1 + 1 : s[i] = f[1 + i - 1]
    BY <1>1, <1>9, SubSeqProperties
  <2>2. \A i \in 1 .. Len(q) : i \in 1 .. Len(q) - 1 + 1 /\ 1 + i - 1 = i  BY <1>1
  <2> HIDE DEF s
  <2> QED  BY <1>1, <1>9, <2>1, <2>2
<1>11. s = q
  <2> HIDE DEF s
  <2> QED  BY <1>10, SeqEqual
<1> QED  BY <1>6, <1>7, <1>8, <1>11

-----------------------------------------------------------------------------
(***************************************************************************)
(* TimerList::remove and add, on the pointers.                             *)
(***************************************************************************)

LEMMA PointersFields ==
  ASSUME NEW L \in Pointers
  PROVE  /\ L = [head |-> L.head, tail |-> L.tail, pre |-> L.pre, nxt |-> L.nxt,
                 list |-> L.list]
         /\ L.head \in [Periods -> Objects \union {Nil}]
         /\ L.tail \in [Periods -> Objects \union {Nil}]
         /\ L.pre \in [Objects -> Objects \union {Nil}]
         /\ L.nxt \in [Objects -> Objects \union {Nil}]
         /\ L.list \in [Objects -> Periods \union {NoList}]
BY DEF Pointers

\* An object that is in no list has no neighbours.
Apart(L) == \A o \in Objects : L.list[o] = NoList => L.pre[o] = Nil /\ L.nxt[o] = Nil

\* Q has the list of every duration.
Lists(L, Q) ==
  /\ L \in Pointers /\ Apart(L)
  /\ Q \in [Periods -> Seq(Objects)]
  /\ \A c \in Periods : IsList(L, c, Q[c])

\* The pointers without o, which had the neighbours p and n in the list of c
Unlinked(L, o, c, p, n) ==
  [head |-> [L.head EXCEPT ![c] = IF p = Nil THEN n ELSE @],
   tail |-> [L.tail EXCEPT ![c] = IF n = Nil THEN p ELSE @],
   pre  |-> [x \in Objects |-> IF x = o THEN Nil ELSE IF x = n THEN p ELSE L.pre[x]],
   nxt  |-> [x \in Objects |-> IF x = o THEN Nil ELSE IF x = p THEN n ELSE L.nxt[x]],
   list |-> [L.list EXCEPT ![o] = NoList]]

\* The place of an object in its list
LEMMA PlaceInList ==
  ASSUME NEW L, NEW Q, Lists(L, Q), NEW o \in Objects, L.list[o] # NoList
  PROVE  /\ L.list[o] \in Periods
         /\ \E k \in 1 .. Len(Q[L.list[o]]) : Q[L.list[o]][k] = o
<1>1. L.list[o] \in Periods  BY PointersFields DEF Lists
<1>2. Q[L.list[o]] \in Seq(Objects) /\ IsList(L, L.list[o], Q[L.list[o]])
  BY <1>1 DEF Lists
<1>3. o \in ToSet(Q[L.list[o]])  BY <1>2 DEF IsList
<1>4. DOMAIN Q[L.list[o]] = 1 .. Len(Q[L.list[o]])  BY <1>2, LenProperties
<1> QED  BY <1>1, <1>3, <1>4 DEF ToSet

LEMMA ClearedFields ==
  ASSUME NEW h, NEW t, NEW p, NEW n, NEW l, NEW S
  PROVE  Cleared([head |-> h, tail |-> t, pre |-> p, nxt |-> n, list |-> l], S)
           = [head |-> h, tail |-> t,
              pre  |-> [o \in Objects |-> IF o \in S THEN Nil ELSE p[o]],
              nxt  |-> [o \in Objects |-> IF o \in S THEN Nil ELSE n[o]],
              list |-> [o \in Objects |-> IF o \in S THEN NoList ELSE l[o]]]
<1>1. PICK L : L = [head |-> h, tail |-> t, pre |-> p, nxt |-> n, list |-> l]  OBVIOUS
<1> DEFINE P == [o \in Objects |-> IF o \in S THEN Nil ELSE L.pre[o]]
           N == [o \in Objects |-> IF o \in S THEN Nil ELSE L.nxt[o]]
           K == [o \in Objects |-> IF o \in S THEN NoList ELSE L.list[o]]
<1>2. Cleared(L, S) = [L EXCEPT !.list = K, !.pre = P, !.nxt = N]  BY DEF Cleared
<1>3. L.pre = p /\ L.nxt = n /\ L.list = l  BY <1>1
<1>4. /\ P = [o \in Objects |-> IF o \in S THEN Nil ELSE p[o]]
      /\ N = [o \in Objects |-> IF o \in S THEN Nil ELSE n[o]]
      /\ K = [o \in Objects |-> IF o \in S THEN NoList ELSE l[o]]
  BY <1>3
<1> HIDE DEF P, N, K
<1>5. Cleared(L, S) = [head |-> h, tail |-> t, pre |-> P, nxt |-> N, list |-> K]
  BY <1>1, <1>2
<1> QED  BY <1>1, <1>4, <1>5

LEMMA RemoveUnlinks ==
  ASSUME NEW L \in Pointers, NEW c \in Periods, NEW q \in Seq(Objects), IsList(L, c, q),
         NEW k \in 1 .. Len(q)
  PROVE  ListRemove(L, q[k]) = Unlinked(L, q[k], c, At(q, k - 1), At(q, k + 1))
<1> DEFINE o == q[k]
           p == At(q, k - 1)
           n == At(q, k + 1)
<1>1. DOMAIN q = 1 .. Len(q) /\ Len(q) \in Nat /\ k \in DOMAIN q  BY LenProperties
<1>2. \A i \in DOMAIN q : q[i] \in Objects /\ q[i] # Nil
  BY <1>1, ElementOfSeq, TimerAssumption
<1>3. o \in Objects /\ L.list[o] = c
  <2>1. o \in ToSet(q)  BY <1>1 DEF ToSet
  <2> QED  BY <2>1 DEF IsList
<1>4. L.pre[o] = p /\ L.nxt[o] = n  BY <1>1 DEF IsList
<1>5. c # NoList  BY TimerAssumption
<1>6. o = L.head[c] <=> k = 1
  <2>1. L.head[c] = q[1] /\ 1 \in DOMAIN q  BY <1>1 DEF IsList, At
  <2> QED  BY <1>1, <2>1 DEF IsList, IsInjective
<1>7. o = L.tail[c] <=> k = Len(q)
  <2>1. L.tail[c] = q[Len(q)] /\ Len(q) \in DOMAIN q  BY <1>1 DEF IsList, At
  <2> QED  BY <1>1, <2>1 DEF IsList, IsInjective
<1>8. /\ (k = 1) = (p = Nil) /\ (k = Len(q)) = (n = Nil)
      /\ p # Nil => p \in Objects /\ p # o
      /\ n # Nil => n \in Objects /\ n # o
  <2>1. (k = 1) = (p = Nil)
    <3>1. k - 1 \in DOMAIN q <=> k # 1  BY <1>1
    <3> QED  BY <1>2, <3>1 DEF At
  <2>2. (k = Len(q)) = (n = Nil)
    <3>1. k + 1 \in DOMAIN q <=> k # Len(q)  BY <1>1
    <3> QED  BY <1>2, <3>1 DEF At
  <2>3. p # Nil => p \in Objects /\ p # o
    <3>1. k - 1 \in DOMAIN q => q[k - 1] # q[k]  BY <1>1 DEF IsList, IsInjective
    <3> QED  BY <1>2, <3>1 DEF At
  <2>4. n # Nil => n \in Objects /\ n # o
    <3>1. k + 1 \in DOMAIN q => q[k + 1] # q[k]  BY <1>1 DEF IsList, IsInjective
    <3> QED  BY <1>2, <3>1 DEF At
  <2> QED  BY <2>1, <2>2, <2>3, <2>4
<1> HIDE DEF o, p, n
<1> DEFINE M == IF p = Nil /\ n = Nil
                THEN [L EXCEPT !.head[c] = Nil, !.tail[c] = Nil]
                ELSE IF p = Nil THEN [L EXCEPT !.head[c] = n, !.pre[n] = Nil]
                ELSE IF n = Nil THEN [L EXCEPT !.tail[c] = p, !.nxt[p] = Nil]
                ELSE [L EXCEPT !.nxt[p] = n, !.pre[n] = p]
<1>9. ListRemove(L, o) = Cleared(M, {o})
  BY <1>3, <1>4, <1>5, <1>6, <1>7, <1>8 DEF ListRemove
<1>10. Cleared(M, {o}) = Unlinked(L, o, c, p, n)
  <2>1. /\ L = [head |-> L.head, tail |-> L.tail, pre |-> L.pre, nxt |-> L.nxt,
                list |-> L.list]
        /\ L.head \in [Periods -> Objects \union {Nil}]
        /\ L.tail \in [Periods -> Objects \union {Nil}]
        /\ L.pre \in [Objects -> Objects \union {Nil}]
        /\ L.nxt \in [Objects -> Objects \union {Nil}]
        /\ L.list \in [Objects -> Periods \union {NoList}]
    BY PointersFields
  <2>2. M = [head |-> [L.head EXCEPT ![c] = IF p = Nil THEN n ELSE @],
             tail |-> [L.tail EXCEPT ![c] = IF n = Nil THEN p ELSE @],
             pre  |-> [x \in Objects |-> IF x = n THEN p ELSE L.pre[x]],
             nxt  |-> [x \in Objects |-> IF x = p THEN n ELSE L.nxt[x]],
             list |-> L.list]
    <3>1. CASE p = Nil /\ n = Nil
      <4>1. \A x \in Objects : x # p /\ x # n  BY <3>1, TimerAssumption
      <4> QED  BY <2>1, <3>1, <4>1
    <3>2. CASE p = Nil /\ n # Nil
      <4>1. \A x \in Objects : x # p  BY <3>2, TimerAssumption
      <4>2. M = [L EXCEPT !.head[c] = n, !.pre[n] = Nil]  BY <3>2
      <4>3. n \in Objects  BY <1>8, <3>2
      <4>4. M.head = [L.head EXCEPT ![c] = n] /\ M.tail = L.tail /\ M.nxt = L.nxt
        BY <2>1, <4>2
      <4>5. M.pre = [L.pre EXCEPT ![n] = Nil] /\ M.list = L.list
        BY <2>1, <4>2
      <4>6. M = [head |-> M.head, tail |-> M.tail, pre |-> M.pre, nxt |-> M.nxt,
                 list |-> M.list]
        BY <2>1, <4>2
      <4> HIDE DEF M
      <4>7. M.pre = [x \in Objects |-> IF x = n THEN p ELSE L.pre[x]]
        BY <2>1, <3>2, <4>3, <4>5
      <4>8. M.nxt = [x \in Objects |-> IF x = p THEN n ELSE L.nxt[x]]
        BY <2>1, <4>1, <4>4
      <4>9. M.head = [L.head EXCEPT ![c] = IF p = Nil THEN n ELSE @]
        BY <3>2, <4>4
      <4>10. M.tail = [L.tail EXCEPT ![c] = IF n = Nil THEN p ELSE @]
        BY <2>1, <3>2, <4>4
      <4> QED  BY <4>5, <4>6, <4>7, <4>8, <4>9, <4>10
    <3>3. CASE p # Nil /\ n = Nil
      <4>1. \A x \in Objects : x # n  BY <3>3, TimerAssumption
      <4> QED  BY <1>8, <2>1, <3>3, <4>1
    <3>4. CASE p # Nil /\ n # Nil  BY <1>8, <2>1, <3>4
    <3> QED  BY <3>1, <3>2, <3>3, <3>4
  <2> DEFINE h == [L.head EXCEPT ![c] = IF p = Nil THEN n ELSE @]
             t == [L.tail EXCEPT ![c] = IF n = Nil THEN p ELSE @]
             b == [x \in Objects |-> IF x = n THEN p ELSE L.pre[x]]
             f == [x \in Objects |-> IF x = p THEN n ELSE L.nxt[x]]
  <2> HIDE DEF M
  <2>3. \A x \in Objects : b[x] = (IF x = n THEN p ELSE L.pre[x])
                          /\ f[x] = (IF x = p THEN n ELSE L.nxt[x])
    OBVIOUS
  <2>4. M = [head |-> h, tail |-> t, pre |-> b, nxt |-> f, list |-> L.list]  BY <2>2
  <2>5. Unlinked(L, o, c, p, n)
          = [head |-> h, tail |-> t,
             pre  |-> [x \in Objects |-> IF x = o THEN Nil ELSE IF x = n THEN p ELSE L.pre[x]],
             nxt  |-> [x \in Objects |-> IF x = o THEN Nil ELSE IF x = p THEN n ELSE L.nxt[x]],
             list |-> [L.list EXCEPT ![o] = NoList]]
    BY DEF Unlinked
  <2> HIDE DEF h, t, b, f
  <2>6. Cleared(M, {o})
          = [head |-> h, tail |-> t,
             pre  |-> [x \in Objects |-> IF x \in {o} THEN Nil ELSE b[x]],
             nxt  |-> [x \in Objects |-> IF x \in {o} THEN Nil ELSE f[x]],
             list |-> [x \in Objects |-> IF x \in {o} THEN NoList ELSE L.list[x]]]
    BY <2>4, ClearedFields
  <2>7. [x \in Objects |-> IF x \in {o} THEN Nil ELSE b[x]]
          = [x \in Objects |-> IF x = o THEN Nil ELSE IF x = n THEN p ELSE L.pre[x]]
    BY <2>3
  <2>8. [x \in Objects |-> IF x \in {o} THEN Nil ELSE f[x]]
          = [x \in Objects |-> IF x = o THEN Nil ELSE IF x = p THEN n ELSE L.nxt[x]]
    BY <2>3
  <2>9. [x \in Objects |-> IF x \in {o} THEN NoList ELSE L.list[x]]
          = [L.list EXCEPT ![o] = NoList]
    BY <2>1
  <2> QED  BY <2>5, <2>6, <2>7, <2>8, <2>9
<1> QED  BY <1>9, <1>10 DEF o, p, n

\* q without its element at place k
Drop(q, k) == [i \in 1 .. Len(q) - 1 |-> IF i < k THEN q[i] ELSE q[i + 1]]

LEMMA DropElements ==
  ASSUME NEW A, NEW q \in Seq(A), NEW k \in 1 .. Len(q), IsInjective(q)
  PROVE  /\ Drop(q, k) \in Seq(A) /\ Len(Drop(q, k)) = Len(q) - 1
         /\ \A i \in 1 .. Len(q) - 1 : Drop(q, k)[i] = IF i < k THEN q[i] ELSE q[i + 1]
         /\ \A i \in Nat : At(Drop(q, k), i) = IF i < k THEN At(q, i) ELSE At(q, i + 1)
         /\ ToSet(Drop(q, k)) = ToSet(q) \ {q[k]}
         /\ IsInjective(Drop(q, k))
<1>1. DOMAIN q = 1 .. Len(q) /\ Len(q) \in Nat /\ k \in DOMAIN q  BY LenProperties
<1> DEFINE r == Drop(q, k)
<1>2. /\ DOMAIN r = 1 .. Len(q) - 1
      /\ \A i \in 1 .. Len(q) - 1 : r[i] = IF i < k THEN q[i] ELSE q[i + 1]
  BY DEF Drop
<1>3. r = [i \in 1 .. Len(q) - 1 |-> r[i]]  BY DEF Drop
<1> HIDE DEF r
<1>4. \A i \in 1 .. Len(q) - 1 : i \in DOMAIN q /\ i + 1 \in DOMAIN q  BY <1>1
<1>5. r \in Seq(A) /\ Len(r) = Len(q) - 1
  <2>1. \A i \in 1 .. Len(q) - 1 : r[i] \in A  BY <1>1, <1>2, <1>4, ElementOfSeq
  <2>2. Len(q) - 1 \in Nat  BY <1>1
  <2>3. r \in Seq(A)  BY <1>3, <2>1, <2>2, IsASeq
  <2> QED  BY <1>2, <2>2, <2>3, LenProperties
<1>6. \A i \in Nat : At(r, i) = IF i < k THEN At(q, i) ELSE At(q, i + 1)
  <2> TAKE i \in Nat
  <2>1. i < k => (i \in DOMAIN q <=> i \in DOMAIN r)  BY <1>1, <1>2
  <2>2. ~ (i < k) => (i + 1 \in DOMAIN q <=> i \in DOMAIN r)  BY <1>1, <1>2
  <2> QED  BY <1>2, <2>1, <2>2 DEF At
<1>7. ToSet(r) = ToSet(q) \ {q[k]}
  <2>1. \A i \in DOMAIN r : r[i] \in ToSet(q) /\ r[i] # q[k]
    <3> TAKE i \in DOMAIN r
    <3>1. CASE i < k
      <4>1. i \in DOMAIN q /\ r[i] = q[i] /\ i # k  BY <1>2, <1>4, <3>1
      <4> QED  BY <1>1, <4>1 DEF IsInjective, ToSet
    <3>2. CASE ~ (i < k)
      <4>1. i + 1 \in DOMAIN q /\ r[i] = q[i + 1] /\ i + 1 # k  BY <1>1, <1>2, <1>4, <3>2
      <4> QED  BY <1>1, <4>1 DEF IsInjective, ToSet
    <3> QED  BY <3>1, <3>2
  <2>2. \A j \in DOMAIN q : j # k => \E i \in DOMAIN r : r[i] = q[j]
    <3> SUFFICES ASSUME NEW j \in DOMAIN q, j # k PROVE \E i \in DOMAIN r : r[i] = q[j]
      OBVIOUS
    <3>1. CASE j < k
      <4>1. j \in DOMAIN r  BY <1>1, <1>2, <3>1
      <4> QED  BY <1>2, <3>1, <4>1
    <3>2. CASE k < j
      <4>1. j - 1 \in DOMAIN r /\ ~ (j - 1 < k) /\ (j - 1) + 1 = j  BY <1>1, <1>2, <3>2
      <4>2. r[j - 1] = q[j]  BY <1>2, <4>1
      <4> QED  BY <4>1, <4>2
    <3> QED  BY <1>1, <3>1, <3>2
  <2>3. \A a : a \in ToSet(q) /\ a # q[k] => a \in ToSet(r)
    BY <2>2 DEF ToSet
  <2>4. \A a : a \in ToSet(r) => a \in ToSet(q) /\ a # q[k]
    BY <2>1 DEF ToSet
  <2> QED  BY <2>3, <2>4
<1>8. IsInjective(r)
  <2> SUFFICES ASSUME NEW i \in DOMAIN r, NEW j \in DOMAIN r, r[i] = r[j] PROVE i = j
    BY DEF IsInjective
  <2> DEFINE at(x) == IF x < k THEN x ELSE x + 1
  <2>1. \A x \in DOMAIN r : at(x) \in DOMAIN q /\ r[x] = q[at(x)]  BY <1>2, <1>4
  <2>2. at(i) = at(j)  BY <2>1 DEF IsInjective
  <2> QED  BY <1>1, <1>2, <2>2
<1> QED  BY <1>2, <1>5, <1>6, <1>7, <1>8 DEF r

\* Removing an object from its list leaves lists.
LEMMA UnlinkedLists ==
  ASSUME NEW L, NEW Q, Lists(L, Q), NEW c \in Periods, NEW k \in 1 .. Len(Q[c])
  PROVE  Lists(Unlinked(L, Q[c][k], c, At(Q[c], k - 1), At(Q[c], k + 1)),
               [Q EXCEPT ![c] = Drop(Q[c], k)])
<1> DEFINE q == Q[c]
           o == q[k]
           p == At(q, k - 1)
           n == At(q, k + 1)
           M == Unlinked(L, o, c, p, n)
           R == [Q EXCEPT ![c] = Drop(q, k)]
<1>1. q \in Seq(Objects) /\ IsList(L, c, q)  BY DEF Lists
<1>2. DOMAIN q = 1 .. Len(q) /\ Len(q) \in Nat /\ k \in DOMAIN q /\ k \in 1 .. Len(q)
  BY <1>1, LenProperties
<1>3. /\ L.head \in [Periods -> Objects \union {Nil}]
      /\ L.tail \in [Periods -> Objects \union {Nil}]
      /\ L.pre \in [Objects -> Objects \union {Nil}]
      /\ L.nxt \in [Objects -> Objects \union {Nil}]
      /\ L.list \in [Objects -> Periods \union {NoList}]
  BY PointersFields DEF Lists
<1> HIDE DEF q
<1>4. \A i \in DOMAIN q : q[i] \in Objects /\ q[i] # Nil /\ L.list[q[i]] = c
  <2> TAKE i \in DOMAIN q
  <2>1. q[i] \in ToSet(q)  BY DEF ToSet
  <2>2. q[i] \in Objects /\ L.list[q[i]] = c  BY <1>1, <2>1 DEF IsList
  <2> QED  BY <2>2, TimerAssumption
<1>5. \A j \in DOMAIN q : /\ q[j] = o <=> j = k
                          /\ q[j] = p <=> j = k - 1
                          /\ q[j] = n <=> j = k + 1
  <2> TAKE j \in DOMAIN q
  <2>1. q[j] = o <=> j = k  BY <1>1, <1>2 DEF IsList, IsInjective
  <2>2. q[j] = p <=> j = k - 1
    <3>1. CASE k - 1 \in DOMAIN q  BY <1>1, <3>1 DEF IsList, IsInjective, At
    <3>2. CASE k - 1 \notin DOMAIN q  BY <1>4, <3>2 DEF At
    <3> QED  BY <3>1, <3>2
  <2>3. q[j] = n <=> j = k + 1
    <3>1. CASE k + 1 \in DOMAIN q  BY <1>1, <3>1 DEF IsList, IsInjective, At
    <3>2. CASE k + 1 \notin DOMAIN q  BY <1>4, <3>2 DEF At
    <3> QED  BY <3>1, <3>2
  <2> QED  BY <2>1, <2>2, <2>3
<1>6. /\ o \in Objects /\ L.list[o] = c
      /\ p \in Objects \union {Nil} /\ n \in Objects \union {Nil}
      /\ p # Nil => L.list[p] = c
      /\ n # Nil => L.list[n] = c
      /\ p = Nil <=> k = 1
      /\ n = Nil <=> k = Len(q)
  <2>1. k - 1 \in DOMAIN q <=> k # 1  BY <1>2
  <2>2. k + 1 \in DOMAIN q <=> k # Len(q)  BY <1>2
  <2> QED  BY <1>2, <1>4, <2>1, <2>2 DEF At
<1>7. Nil \notin Objects /\ NoList \notin Periods  BY TimerAssumption
<1>8. /\ Drop(q, k) \in Seq(Objects) /\ Len(Drop(q, k)) = Len(q) - 1
      /\ \A i \in 1 .. Len(q) - 1 : Drop(q, k)[i] = IF i < k THEN q[i] ELSE q[i + 1]
      /\ \A i \in Nat : At(Drop(q, k), i) = IF i < k THEN At(q, i) ELSE At(q, i + 1)
      /\ ToSet(Drop(q, k)) = ToSet(q) \ {o}
      /\ IsInjective(Drop(q, k))
  <2>1. IsInjective(q)  BY <1>1 DEF IsList
  <2> QED  BY <1>1, <1>2, <2>1, DropElements
<1> HIDE DEF o, p, n
<1>9. /\ M.head = [L.head EXCEPT ![c] = IF p = Nil THEN n ELSE @]
      /\ M.tail = [L.tail EXCEPT ![c] = IF n = Nil THEN p ELSE @]
      /\ M.pre = [x \in Objects |-> IF x = o THEN Nil ELSE IF x = n THEN p ELSE L.pre[x]]
      /\ M.nxt = [x \in Objects |-> IF x = o THEN Nil ELSE IF x = p THEN n ELSE L.nxt[x]]
      /\ M.list = [L.list EXCEPT ![o] = NoList]
      /\ M = [head |-> M.head, tail |-> M.tail, pre |-> M.pre, nxt |-> M.nxt,
              list |-> M.list]
  BY DEF Unlinked
<1> HIDE DEF M
<1>10. M \in Pointers
  <2>1. M.head \in [Periods -> Objects \union {Nil}]  BY <1>3, <1>6, <1>9
  <2>2. M.tail \in [Periods -> Objects \union {Nil}]  BY <1>3, <1>6, <1>9
  <2>3. M.pre \in [Objects -> Objects \union {Nil}]  BY <1>3, <1>6, <1>9
  <2>4. M.nxt \in [Objects -> Objects \union {Nil}]  BY <1>3, <1>6, <1>9
  <2>5. M.list \in [Objects -> Periods \union {NoList}]  BY <1>3, <1>9
  <2> QED  BY <1>9, <2>1, <2>2, <2>3, <2>4, <2>5 DEF Pointers
<1>11. /\ \A d \in Periods : M.head[d] = IF d = c /\ p = Nil THEN n ELSE L.head[d]
       /\ \A d \in Periods : M.tail[d] = IF d = c /\ n = Nil THEN p ELSE L.tail[d]
       /\ \A x \in Objects :
            /\ M.pre[x] = IF x = o THEN Nil ELSE IF x = n THEN p ELSE L.pre[x]
            /\ M.nxt[x] = IF x = o THEN Nil ELSE IF x = p THEN n ELSE L.nxt[x]
            /\ M.list[x] = IF x = o THEN NoList ELSE L.list[x]
  BY <1>3, <1>9
<1>12. Apart(M)
  <2> SUFFICES ASSUME NEW x \in Objects, M.list[x] = NoList, x # o
               PROVE  M.pre[x] = Nil /\ M.nxt[x] = Nil
    BY <1>11 DEF Apart
  <2>1. L.list[x] = NoList  BY <1>11
  <2>2. x # p /\ x # n  BY <1>6, <1>7, <2>1
  <2>3. L.pre[x] = Nil /\ L.nxt[x] = Nil  BY <2>1 DEF Lists, Apart
  <2> QED  BY <1>11, <2>2, <2>3
<1>13. R \in [Periods -> Seq(Objects)]  BY <1>8 DEF Lists
<1>14. \A d \in Periods : R[d] = IF d = c THEN Drop(q, k) ELSE Q[d]  BY DEF Lists
<1>15. IsList(M, c, Drop(q, k))
  <2> DEFINE r == Drop(q, k)
  <2>1. DOMAIN r = 1 .. Len(q) - 1  BY <1>8, LenProperties
  <2> HIDE DEF r
  <2>2. IsInjective(r)  BY <1>8 DEF r
  <2>3. ToSet(r) = {x \in Objects : M.list[x] = c}
    <3>1. ToSet(r) = {x \in Objects : L.list[x] = c} \ {o}
      BY <1>1, <1>8 DEF IsList, r
    <3> QED  BY <1>7, <1>11, <3>1
  <2>4. M.head[c] = At(r, 1)
    <3>1. L.head[c] = At(q, 1)  BY <1>1 DEF IsList
    <3>2. At(r, 1) = IF 1 < k THEN At(q, 1) ELSE At(q, 2)  BY <1>8 DEF r
    <3>3. k = 1 => n = At(q, 2)  BY DEF n
    <3> QED  BY <1>2, <1>6, <1>11, <3>1, <3>2, <3>3
  <2>5. M.tail[c] = At(r, Len(r))
    <3>1. L.tail[c] = At(q, Len(q))  BY <1>1 DEF IsList
    <3>2. Len(q) - 1 \in Nat /\ (Len(q) - 1) + 1 = Len(q)  BY <1>2
    <3>3. At(r, Len(q) - 1) = IF Len(q) - 1 < k THEN At(q, Len(q) - 1) ELSE At(q, Len(q))
      BY <1>8, <3>2 DEF r
    <3>4. Len(q) - 1 < k <=> k = Len(q)  BY <1>2
    <3>5. k = Len(q) => p = At(q, Len(q) - 1)  BY DEF p
    <3>6. Len(r) = Len(q) - 1  BY <1>8 DEF r
    <3> QED  BY <1>6, <1>11, <3>1, <3>3, <3>4, <3>5, <3>6
  <2>6. ASSUME NEW i \in DOMAIN r
        PROVE  M.nxt[r[i]] = At(r, i + 1) /\ M.pre[r[i]] = At(r, i - 1)
    <3> DEFINE j == IF i < k THEN i ELSE i + 1
    <3>1. /\ j \in DOMAIN q /\ r[i] = q[j] /\ j # k
          /\ i + 1 \in Nat /\ i - 1 \in Nat /\ i \in Nat
      <4>1. i \in 1 .. Len(q) - 1  BY <2>1
      <4>2. r[i] = IF i < k THEN q[i] ELSE q[i + 1]  BY <1>8, <4>1 DEF r
      <4>3. j \in DOMAIN q /\ j # k  BY <1>2, <4>1
      <4> QED  BY <1>2, <4>1, <4>2, <4>3
    <3>2. L.nxt[q[j]] = At(q, j + 1) /\ L.pre[q[j]] = At(q, j - 1)
      BY <1>1, <3>1 DEF IsList
    <3>3. /\ M.nxt[q[j]] = IF j = k - 1 THEN n ELSE At(q, j + 1)
          /\ M.pre[q[j]] = IF j = k + 1 THEN p ELSE At(q, j - 1)
      <4> HIDE DEF j
      <4> QED  BY <1>4, <1>5, <1>11, <3>1, <3>2
    <3>4. At(r, i + 1) = IF i + 1 < k THEN At(q, i + 1) ELSE At(q, i + 2)
      <4>1. (i + 1) + 1 = i + 2  BY <3>1
      <4> QED  BY <1>8, <3>1, <4>1 DEF r
    <3>5. At(r, i - 1) = IF i - 1 < k THEN At(q, i - 1) ELSE At(q, i)
      <4>1. (i - 1) + 1 = i  BY <3>1
      <4> QED  BY <1>8, <3>1, <4>1 DEF r
    <3>6. n = At(q, k + 1) /\ p = At(q, k - 1)  BY DEF n, p
    <3>7. CASE i < k
      <4>1. j = i /\ (j = k - 1 => k + 1 = i + 2 /\ ~ (i + 1 < k))
            /\ (j # k - 1 => i + 1 < k) /\ j # k + 1 /\ i - 1 < k
        BY <1>2, <3>1, <3>7
      <4> HIDE DEF j
      <4> QED  BY <3>1, <3>3, <3>4, <3>5, <3>6, <4>1
    <3>8. CASE ~ (i < k)
      <4>1. /\ j = i + 1 /\ j # k - 1 /\ ~ (i + 1 < k) /\ j + 1 = i + 2 /\ j - 1 = i
            /\ (j = k + 1 => i = k /\ i - 1 < k /\ k - 1 = i - 1)
            /\ (j # k + 1 => ~ (i - 1 < k))
        BY <1>2, <3>1, <3>8
      <4> HIDE DEF j
      <4> QED  BY <3>1, <3>3, <3>4, <3>5, <3>6, <4>1
    <3> QED  BY <3>7, <3>8
  <2>7. IsList(M, c, r)  BY <2>2, <2>3, <2>4, <2>5, <2>6 DEF IsList
  <2> QED  BY <2>7 DEF r
<1>16. ASSUME NEW d \in Periods, d # c PROVE IsList(M, d, Q[d])
  <2>1. IsList(L, d, Q[d])  BY DEF Lists
  <2>2. {x \in Objects : M.list[x] = d} = {x \in Objects : L.list[x] = d}
    BY <1>6, <1>7, <1>11, <1>16
  <2>3. M.head[d] = L.head[d] /\ M.tail[d] = L.tail[d]  BY <1>11, <1>16
  <2>4. ASSUME NEW i \in DOMAIN Q[d]
        PROVE  M.nxt[Q[d][i]] = L.nxt[Q[d][i]] /\ M.pre[Q[d][i]] = L.pre[Q[d][i]]
    <3> DEFINE x == Q[d][i]
    <3>1. x \in ToSet(Q[d])  BY DEF ToSet
    <3> HIDE DEF x
    <3>2. x \in Objects /\ L.list[x] = d  BY <2>1, <3>1 DEF IsList
    <3>3. x # o /\ x # p /\ x # n  BY <1>6, <1>7, <1>16, <3>2
    <3>4. M.nxt[x] = L.nxt[x] /\ M.pre[x] = L.pre[x]  BY <1>11, <3>2, <3>3
    <3> QED  BY <3>4 DEF x
  <2> QED  BY <2>1, <2>2, <2>3, <2>4 DEF IsList
<1>17. \A d \in Periods : IsList(M, d, R[d])  BY <1>14, <1>15, <1>16
<1>18. Lists(M, R)
  <2> HIDE DEF R
  <2> QED  BY <1>10, <1>12, <1>13, <1>17 DEF Lists
<1> QED  BY <1>18 DEF M, o, p, n, q

\* What remains of the lists Q when o leaves the one it is in
LeftBy(Q, R, o) ==
  \A c \in Periods :
    \/ R[c] = Q[c]
    \/ \E k \in 1 .. Len(Q[c]) : Q[c][k] = o /\ R[c] = Drop(Q[c], k)

LEMMA RemoveLists ==
  ASSUME NEW L, NEW Q, Lists(L, Q), NEW o \in Objects
  PROVE  /\ ListRemove(L, o).list = [L.list EXCEPT ![o] = NoList]
         /\ \E R : Lists(ListRemove(L, o), R) /\ LeftBy(Q, R, o)
<1>1. L \in Pointers /\ L.list \in [Objects -> Periods \union {NoList}]
  BY PointersFields DEF Lists
<1>2. CASE L.list[o] = NoList
  <2>1. ListRemove(L, o) = L  BY <1>2 DEF ListRemove
  <2>2. LeftBy(Q, Q, o)  BY DEF LeftBy
  <2> QED  BY <1>1, <1>2, <2>1, <2>2
<1>3. CASE L.list[o] # NoList
  <2> DEFINE c == L.list[o]
  <2>1. c \in Periods  BY <1>3, PlaceInList
  <2>2. PICK k \in 1 .. Len(Q[c]) : Q[c][k] = o  BY <1>3, PlaceInList
  <2> HIDE DEF c
  <2>3. Q[c] \in Seq(Objects) /\ IsList(L, c, Q[c])  BY <2>1 DEF Lists
  <2> DEFINE p == At(Q[c], k - 1)
             n == At(Q[c], k + 1)
             R == [Q EXCEPT ![c] = Drop(Q[c], k)]
  <2>4. ListRemove(L, o) = Unlinked(L, o, c, p, n)
    <3>1. ListRemove(L, Q[c][k]) = Unlinked(L, Q[c][k], c, At(Q[c], k - 1), At(Q[c], k + 1))
      BY <1>1, <2>1, <2>3, RemoveUnlinks
    <3> QED  BY <2>2, <3>1
  <2>5. Lists(Unlinked(L, o, c, p, n), R)  BY <2>1, <2>2, UnlinkedLists
  <2>6. Unlinked(L, o, c, p, n).list = [L.list EXCEPT ![o] = NoList]  BY DEF Unlinked
  <2>7. LeftBy(Q, R, o)  BY <2>2 DEF LeftBy, Lists
  <2> HIDE DEF p, n, R
  <2> QED  BY <2>4, <2>5, <2>6, <2>7
<1> QED  BY <1>2, <1>3

LEMMA LinkLastLists ==
  ASSUME NEW L, NEW Q, Lists(L, Q), NEW o \in Objects, L.list[o] = NoList, NEW c \in Periods
  PROVE  /\ LinkLast(L, o, c).list = [L.list EXCEPT ![o] = c]
         /\ Lists(LinkLast(L, o, c), [Q EXCEPT ![c] = Append(Q[c], o)])
<1> DEFINE q == Q[c]
           last == L.tail[c]
           M == LinkLast(L, o, c)
           R == [Q EXCEPT ![c] = Append(q, o)]
<1>1. q \in Seq(Objects) /\ IsList(L, c, q)  BY DEF Lists
<1>2. DOMAIN q = 1 .. Len(q) /\ Len(q) \in Nat  BY <1>1, LenProperties
<1>3. /\ L.head \in [Periods -> Objects \union {Nil}]
      /\ L.tail \in [Periods -> Objects \union {Nil}]
      /\ L.pre \in [Objects -> Objects \union {Nil}]
      /\ L.nxt \in [Objects -> Objects \union {Nil}]
      /\ L.list \in [Objects -> Periods \union {NoList}]
      /\ L = [head |-> L.head, tail |-> L.tail, pre |-> L.pre, nxt |-> L.nxt,
              list |-> L.list]
  BY PointersFields DEF Lists
<1>4. L.pre[o] = Nil /\ L.nxt[o] = Nil  BY DEF Lists, Apart
<1>5. Nil \notin Objects /\ NoList \notin Periods  BY TimerAssumption
<1>6. L.head[c] = At(q, 1) /\ last = At(q, Len(q))  BY <1>1 DEF IsList
<1> HIDE DEF q
<1>7. \A i \in DOMAIN q : q[i] \in Objects /\ q[i] # Nil /\ L.list[q[i]] = c /\ q[i] # o
  <2> TAKE i \in DOMAIN q
  <2>1. q[i] \in ToSet(q)  BY DEF ToSet
  <2>2. q[i] \in Objects /\ L.list[q[i]] = c  BY <1>1, <2>1 DEF IsList
  <2> QED  BY <1>5, <2>2
<1>8. /\ L.head[c] = Nil <=> Len(q) = 0
      /\ last = Nil <=> Len(q) = 0
      /\ last # Nil => last \in Objects /\ L.list[last] = c
      /\ \A j \in DOMAIN q : q[j] = last <=> j = Len(q)
  <2>1. L.head[c] = Nil <=> Len(q) = 0
    <3>1. 1 \in DOMAIN q <=> Len(q) # 0  BY <1>2
    <3> QED  BY <1>6, <1>7, <3>1 DEF At
  <2>2. Len(q) \in DOMAIN q <=> Len(q) # 0  BY <1>2
  <2>3. last = Nil <=> Len(q) = 0  BY <1>6, <1>7, <2>2 DEF At
  <2>4. last # Nil => last \in Objects /\ L.list[last] = c
    BY <1>6, <1>7, <2>2 DEF At
  <2>5. \A j \in DOMAIN q : q[j] = last <=> j = Len(q)
    <3>1. CASE Len(q) \in DOMAIN q  BY <1>1, <1>6, <3>1 DEF IsList, IsInjective, At
    <3>2. CASE Len(q) \notin DOMAIN q  BY <1>2, <3>2
    <3> QED  BY <3>1, <3>2
  <2> QED  BY <2>1, <2>3, <2>4, <2>5
<1> DEFINE r == Append(q, o)
<1>9. /\ r \in Seq(Objects) /\ Len(r) = Len(q) + 1 /\ DOMAIN r = 1 .. Len(q) + 1
      /\ \A i \in 1 .. Len(q) : r[i] = q[i]
      /\ r[Len(q) + 1] = o
  <2>1. r \in Seq(Objects) /\ Len(r) = Len(q) + 1
        /\ (\A i \in 1 .. Len(q) : r[i] = q[i]) /\ r[Len(q) + 1] = o
    BY <1>1, AppendProperties
  <2> HIDE DEF r
  <2> QED  BY <2>1, LenProperties
<1>10. ToSet(r) = ToSet(q) \union {o} /\ IsInjective(r)
  <2>1. IsInjective(q)  BY <1>1 DEF IsList
  <2>2. o \notin ToSet(q)  BY <1>7 DEF ToSet
  <2> QED  BY <1>1, <2>1, <2>2, AppendElements
<1> HIDE DEF r
<1>11. \A i \in Nat : At(r, i) = IF i = Len(q) + 1 THEN o ELSE At(q, i)
  <2> TAKE i \in Nat
  <2>1. i \in DOMAIN r <=> i \in DOMAIN q \/ i = Len(q) + 1  BY <1>2, <1>9
  <2>2. i = Len(q) + 1 => i \notin DOMAIN q  BY <1>2
  <2> QED  BY <1>2, <1>9, <2>1, <2>2 DEF At
<1> HIDE DEF last
<1>12. M = [head |-> [L.head EXCEPT ![c] = IF last = Nil THEN o ELSE @],
            tail |-> [L.tail EXCEPT ![c] = o],
            pre  |-> [L.pre EXCEPT ![o] = last],
            nxt  |-> [x \in Objects |-> IF x = last THEN o ELSE L.nxt[x]],
            list |-> [L.list EXCEPT ![o] = c]]
  <2>1. CASE Len(q) = 0
    <3>1. M = [L EXCEPT !.list[o] = c, !.head[c] = o, !.tail[c] = o]
      BY <1>8, <2>1 DEF LinkLast
    <3> HIDE DEF M
    <3>2. /\ M.head = [L.head EXCEPT ![c] = o] /\ M.tail = [L.tail EXCEPT ![c] = o]
          /\ M.pre = L.pre /\ M.nxt = L.nxt /\ M.list = [L.list EXCEPT ![o] = c]
      BY <1>3, <3>1
    <3>3. M = [head |-> M.head, tail |-> M.tail, pre |-> M.pre, nxt |-> M.nxt,
               list |-> M.list]
      BY <1>3, <3>1
    <3>4. last = Nil  BY <1>8, <2>1
    <3>5. [L.pre EXCEPT ![o] = last] = L.pre  BY <1>3, <1>4, <3>4
    <3>6. [x \in Objects |-> IF x = last THEN o ELSE L.nxt[x]] = L.nxt
      <4>1. \A x \in Objects : x # last  BY <1>5, <3>4
      <4> QED  BY <1>3, <4>1
    <3>7. [L.head EXCEPT ![c] = IF last = Nil THEN o ELSE @] = [L.head EXCEPT ![c] = o]
      BY <3>4
    <3> QED  BY <3>2, <3>3, <3>5, <3>6, <3>7
  <2>2. CASE Len(q) # 0
    <3>1. M = [L EXCEPT !.list[o] = c, !.tail[c] = o, !.pre[o] = last, !.nxt[last] = o]
      BY <1>8, <2>2 DEF LinkLast, last
    <3> HIDE DEF M
    <3>2. /\ M.head = L.head /\ M.tail = [L.tail EXCEPT ![c] = o]
          /\ M.pre = [L.pre EXCEPT ![o] = last] /\ M.nxt = [L.nxt EXCEPT ![last] = o]
          /\ M.list = [L.list EXCEPT ![o] = c]
      BY <1>3, <3>1
    <3>3. M = [head |-> M.head, tail |-> M.tail, pre |-> M.pre, nxt |-> M.nxt,
               list |-> M.list]
      BY <1>3, <3>1
    <3>4. last # Nil  BY <1>8, <2>2
    <3>5. [x \in Objects |-> IF x = last THEN o ELSE L.nxt[x]] = [L.nxt EXCEPT ![last] = o]
      BY <1>3
    <3>6. [L.head EXCEPT ![c] = IF last = Nil THEN o ELSE @] = L.head
      BY <1>3, <3>4
    <3> QED  BY <3>2, <3>3, <3>5, <3>6
  <2> QED  BY <2>1, <2>2
<1> HIDE DEF M
<1>13. /\ \A d \in Periods : M.head[d] = IF d = c /\ last = Nil THEN o ELSE L.head[d]
       /\ \A d \in Periods : M.tail[d] = IF d = c THEN o ELSE L.tail[d]
       /\ \A x \in Objects : /\ M.pre[x] = IF x = o THEN last ELSE L.pre[x]
                             /\ M.nxt[x] = IF x = last THEN o ELSE L.nxt[x]
                             /\ M.list[x] = IF x = o THEN c ELSE L.list[x]
  BY <1>3, <1>12
<1>14. M.list = [L.list EXCEPT ![o] = c]  BY <1>12
<1>15. M \in Pointers
  <2>1. M.head \in [Periods -> Objects \union {Nil}]  BY <1>3, <1>12
  <2>2. M.tail \in [Periods -> Objects \union {Nil}]  BY <1>3, <1>12
  <2>3. M.pre \in [Objects -> Objects \union {Nil}]  BY <1>3, <1>8, <1>12
  <2>4. M.nxt \in [Objects -> Objects \union {Nil}]  BY <1>3, <1>12
  <2>5. M.list \in [Objects -> Periods \union {NoList}]  BY <1>3, <1>12
  <2>6. M = [head |-> M.head, tail |-> M.tail, pre |-> M.pre, nxt |-> M.nxt,
             list |-> M.list]
    BY <1>12
  <2> QED  BY <2>1, <2>2, <2>3, <2>4, <2>5, <2>6 DEF Pointers
<1>16. Apart(M)
  <2> SUFFICES ASSUME NEW x \in Objects, M.list[x] = NoList
               PROVE  M.pre[x] = Nil /\ M.nxt[x] = Nil
    BY DEF Apart
  <2>1. x # o /\ L.list[x] = NoList  BY <1>5, <1>13
  <2>2. x # last  BY <1>5, <1>8, <2>1
  <2>3. L.pre[x] = Nil /\ L.nxt[x] = Nil  BY <2>1 DEF Lists, Apart
  <2> QED  BY <1>13, <2>1, <2>2, <2>3
<1>17. R \in [Periods -> Seq(Objects)]  BY <1>9 DEF Lists, r
<1>18. \A d \in Periods : R[d] = IF d = c THEN r ELSE Q[d]  BY DEF Lists, r
<1>19. IsList(M, c, r)
  <2>1. ToSet(r) = {x \in Objects : M.list[x] = c}
    <3>1. ToSet(q) = {x \in Objects : L.list[x] = c}  BY <1>1 DEF IsList
    <3> QED  BY <1>10, <1>13, <3>1
  <2>2. M.head[c] = At(r, 1)
    <3>1. At(r, 1) = IF 1 = Len(q) + 1 THEN o ELSE At(q, 1)  BY <1>11
    <3>2. 1 = Len(q) + 1 <=> Len(q) = 0  BY <1>2
    <3> QED  BY <1>6, <1>8, <1>13, <3>1, <3>2
  <2>3. M.tail[c] = At(r, Len(r))
    <3>1. At(r, Len(q) + 1) = o  BY <1>2, <1>11
    <3> QED  BY <1>9, <1>13, <3>1
  <2>4. ASSUME NEW i \in DOMAIN r
        PROVE  M.nxt[r[i]] = At(r, i + 1) /\ M.pre[r[i]] = At(r, i - 1)
    <3>1. i \in Nat /\ i + 1 \in Nat /\ i - 1 \in Nat /\ i - 1 # Len(q) + 1
      BY <1>2, <1>9
    <3>2. /\ At(r, i + 1) = IF i + 1 = Len(q) + 1 THEN o ELSE At(q, i + 1)
          /\ At(r, i - 1) = At(q, i - 1)
      BY <1>11, <3>1
    <3>3. CASE i = Len(q) + 1
      <4>1. r[i] = o  BY <1>9, <3>3
      <4>2. o # last  BY <1>5, <1>8
      <4>3. M.nxt[o] = Nil /\ M.pre[o] = last  BY <1>4, <1>13, <4>2
      <4>4. At(q, i + 1) = Nil /\ i + 1 # Len(q) + 1 /\ i - 1 = Len(q)
        BY <1>2, <3>3 DEF At
      <4> QED  BY <1>6, <3>2, <4>1, <4>3, <4>4
    <3>4. CASE i # Len(q) + 1
      <4>1. i \in DOMAIN q /\ r[i] = q[i]  BY <1>2, <1>9, <3>4
      <4>2. L.nxt[q[i]] = At(q, i + 1) /\ L.pre[q[i]] = At(q, i - 1)
        BY <1>1, <4>1 DEF IsList
      <4>3. /\ M.pre[q[i]] = At(q, i - 1)
            /\ M.nxt[q[i]] = IF i = Len(q) THEN o ELSE At(q, i + 1)
        BY <1>7, <1>8, <1>13, <4>1, <4>2
      <4>4. i + 1 = Len(q) + 1 <=> i = Len(q)  BY <1>2, <3>1
      <4> QED  BY <3>2, <4>1, <4>3, <4>4
    <3> QED  BY <3>3, <3>4
  <2> QED  BY <1>10, <2>1, <2>2, <2>3, <2>4 DEF IsList
<1>20. ASSUME NEW d \in Periods, d # c PROVE IsList(M, d, Q[d])
  <2>1. IsList(L, d, Q[d])  BY DEF Lists
  <2>2. {x \in Objects : M.list[x] = d} = {x \in Objects : L.list[x] = d}
    BY <1>5, <1>13, <1>20
  <2>3. M.head[d] = L.head[d] /\ M.tail[d] = L.tail[d]  BY <1>13, <1>20
  <2>4. ASSUME NEW i \in DOMAIN Q[d]
        PROVE  M.nxt[Q[d][i]] = L.nxt[Q[d][i]] /\ M.pre[Q[d][i]] = L.pre[Q[d][i]]
    <3> DEFINE x == Q[d][i]
    <3>1. x \in ToSet(Q[d])  BY DEF ToSet
    <3> HIDE DEF x
    <3>2. x \in Objects /\ L.list[x] = d  BY <2>1, <3>1 DEF IsList
    <3>3. x # o /\ x # last  BY <1>5, <1>8, <1>20, <3>2
    <3>4. M.nxt[x] = L.nxt[x] /\ M.pre[x] = L.pre[x]  BY <1>13, <3>2, <3>3
    <3> QED  BY <3>4 DEF x
  <2> QED  BY <2>1, <2>2, <2>3, <2>4 DEF IsList
<1>21. \A d \in Periods : IsList(M, d, R[d])  BY <1>18, <1>19, <1>20
<1>22. Lists(M, R)
  <2> HIDE DEF R
  <2> QED  BY <1>15, <1>16, <1>17, <1>21 DEF Lists
<1> QED  BY <1>14, <1>22 DEF M, q

-----------------------------------------------------------------------------
(***************************************************************************)
(* TimerList::update, on the lists.                                        *)
(***************************************************************************)

\* q without its first n elements
Rest(q, n) == SubSeq(q, n + 1, Len(q))

LEMMA RestElements ==
  ASSUME NEW A, NEW q \in Seq(A), NEW n \in 0 .. Len(q)
  PROVE  /\ Rest(q, n) \in Seq(A) /\ Len(Rest(q, n)) = Len(q) - n
         /\ \A i \in 1 .. Len(q) - n : Rest(q, n)[i] = q[n + i]
         /\ \A i \in Nat : At(Rest(q, n), i) = IF i = 0 THEN Nil ELSE At(q, n + i)
         /\ ToSet(Rest(q, n)) = {q[i] : i \in n + 1 .. Len(q)}
         /\ IsInjective(q) => IsInjective(Rest(q, n))
<1> DEFINE r == Rest(q, n)
<1>1. DOMAIN q = 1 .. Len(q) /\ Len(q) \in Nat /\ n \in Nat /\ n <= Len(q)
  BY LenProperties
<1>2. \A i \in n + 1 .. Len(q) : q[i] \in A
  <2>1. \A i \in n + 1 .. Len(q) : i \in 1 .. Len(q)  BY <1>1
  <2> QED  BY <2>1, ElementOfSeq
<1>3. /\ r \in Seq(A)
      /\ Len(r) = IF n + 1 <= Len(q) THEN Len(q) - (n + 1) + 1 ELSE 0
      /\ \A i \in 1 .. Len(q) - (n + 1) + 1 : r[i] = q[(n + 1) + i - 1]
  BY <1>1, <1>2, SubSeqProperties DEF Rest
<1> HIDE DEF r
<1>4. Len(r) = Len(q) - n /\ DOMAIN r = 1 .. Len(q) - n
  <2>1. Len(r) = IF n + 1 <= Len(q) THEN Len(q) - (n + 1) + 1 ELSE 0  BY <1>3
  <2>2. Len(q) \in Nat /\ n \in Nat /\ n <= Len(q)  BY <1>1
  <2>3. CASE n + 1 <= Len(q)
    <3>1. Len(r) = Len(q) - (n + 1) + 1  BY <2>1, <2>3
    <3>2. Len(q) - (n + 1) + 1 = Len(q) - n  BY <2>2
    <3> QED  BY <1>3, <3>1, <3>2, LenProperties
  <2>4. CASE ~ (n + 1 <= Len(q))
    <3>1. n = Len(q) /\ Len(q) - n = 0  BY <2>2, <2>4
    <3> QED  BY <1>3, <2>1, <2>4, <3>1, LenProperties
  <2> QED  BY <2>3, <2>4
<1>5. \A i \in 1 .. Len(q) - n : r[i] = q[n + i]
  <2>1. \A i \in 1 .. Len(q) - n :
           i \in 1 .. Len(q) - (n + 1) + 1 /\ (n + 1) + i - 1 = n + i
    BY <1>1
  <2> QED  BY <1>3, <2>1
<1>6. \A i \in Nat : At(r, i) = IF i = 0 THEN Nil ELSE At(q, n + i)
  <2> TAKE i \in Nat
  <2>1. i = 0 => i \notin DOMAIN r  BY <1>1, <1>4
  <2>2. i # 0 => (i \in DOMAIN r <=> n + i \in DOMAIN q)  BY <1>1, <1>4
  <2> QED  BY <1>4, <1>5, <2>1, <2>2 DEF At
<1>7. ToSet(r) = {q[i] : i \in n + 1 .. Len(q)}
  <2>1. \A i \in DOMAIN r : n + i \in n + 1 .. Len(q)  BY <1>1, <1>4
  <2>2. \A j \in n + 1 .. Len(q) : j - n \in DOMAIN r /\ n + (j - n) = j  BY <1>1, <1>4
  <2>3. \A j \in n + 1 .. Len(q) : r[j - n] = q[j]  BY <1>4, <1>5, <2>2
  <2>4. \A a : a \in ToSet(r) => a \in {q[i] : i \in n + 1 .. Len(q)}
    BY <1>4, <1>5, <2>1 DEF ToSet
  <2>5. \A a : a \in {q[i] : i \in n + 1 .. Len(q)} => a \in ToSet(r)
    BY <2>2, <2>3 DEF ToSet
  <2> QED  BY <2>4, <2>5
<1>8. ASSUME IsInjective(q) PROVE IsInjective(r)
  <2> SUFFICES ASSUME NEW i \in DOMAIN r, NEW j \in DOMAIN r, r[i] = r[j] PROVE i = j
    BY DEF IsInjective
  <2>1. n + i \in DOMAIN q /\ n + j \in DOMAIN q /\ q[n + i] = q[n + j]
    BY <1>1, <1>4, <1>5
  <2>2. n + i = n + j  BY <1>8, <2>1 DEF IsInjective
  <2> QED  BY <1>1, <1>4, <2>2
<1> QED  BY <1>3, <1>4, <1>5, <1>6, <1>7, <1>8 DEF r

\* In a sorted list the scan stops behind the last object that is due.
LEMMA DueCountIs ==
  ASSUME NEW c, Chain(links, c) \in Seq(Objects), Sorted(Chain(links, c)),
         condition \in [Objects -> Nat], now \in Nat
  PROVE  /\ DueCount(c) \in 0 .. Len(Chain(links, c))
         /\ \A i \in DOMAIN Chain(links, c) :
              condition[Chain(links, c)[i]] <= now <=> i <= DueCount(c)
<1> DEFINE q == Chain(links, c)
           D == {i \in DOMAIN q : \A j \in 1 .. i : now >= condition[q[j]]}
           T == {i \in DOMAIN q : i \notin D}
<1>1. DueCount(c) = Cardinality(D)  BY DEF DueCount
<1>2. DOMAIN q = 1 .. Len(q) /\ Len(q) \in Nat  BY LenProperties
<1>3. \A i \in DOMAIN q : condition[q[i]] \in Nat
  <2> HIDE DEF q
  <2> QED  BY <1>2, ElementOfSeq DEF q
<1>4. \A i, j \in DOMAIN q : i < j => condition[q[i]] <= condition[q[j]]  BY DEF Sorted
<1> HIDE DEF q
<1>5. CASE T = {}
  <2>1. D = 1 .. Len(q)  BY <1>2, <1>5
  <2>2. \A i \in 1 .. Len(q) : condition[q[i]] <= now
    <3> TAKE i \in 1 .. Len(q)
    <3>1. i \in D /\ i \in 1 .. i  BY <1>2, <2>1
    <3>2. now >= condition[q[i]]  BY <3>1
    <3> QED  BY <1>2, <1>3, <3>2
  <2> HIDE DEF D
  <2>3. Cardinality(1 .. Len(q)) = Len(q)
    <3>1. Len(q) \in Nat  BY <1>2
    <3> QED  BY <3>1, CardinalityUpTo
  <2>4. DueCount(c) = Len(q)  BY <1>1, <2>1, <2>3
  <2> QED  BY <1>2, <2>2, <2>4 DEF q
<1>6. CASE T # {}
  <2>1. T \subseteq Nat  BY <1>2
  <2>2. PICK m \in T : \A i \in T : m <= i
    <3> HIDE DEF T
    <3> QED  BY <1>6, <2>1, LeastOf
  <2>3. m \in DOMAIN q /\ m \in 1 .. Len(q)  BY <1>2
  <2>4. PICK j \in 1 .. m : ~ (now >= condition[q[j]])  BY <2>3
  <2>5. \A i \in DOMAIN q : i \in D <=> i <= m - 1
    <3> TAKE i \in DOMAIN q
    <3>1. CASE i <= m - 1
      <4>1. i \notin T
        <5>1. ~ (m <= i)  BY <1>2, <2>3, <3>1
        <5> HIDE DEF T
        <5> QED  BY <2>2, <5>1
      <4> QED  BY <3>1, <4>1
    <3>2. CASE ~ (i <= m - 1)
      <4>1. j \in 1 .. i  BY <1>2, <2>3, <3>2
      <4> QED  BY <2>4, <3>2, <4>1
    <3> QED  BY <3>1, <3>2
  <2>6. D = 1 .. m - 1
    <3>1. D \subseteq DOMAIN q  OBVIOUS
    <3>2. 1 .. m - 1 \subseteq DOMAIN q  BY <1>2, <2>3
    <3>3. \A i \in DOMAIN q : i <= m - 1 <=> i \in 1 .. m - 1  BY <1>2, <2>3
    <3> HIDE DEF D
    <3> QED  BY <2>5, <3>1, <3>2, <3>3
  <2>7. \A i \in DOMAIN q : i <= m - 1 => condition[q[i]] <= now
    <3> SUFFICES ASSUME NEW i \in DOMAIN q, i <= m - 1 PROVE condition[q[i]] <= now
      OBVIOUS
    <3>1. i \in D /\ i \in 1 .. i  BY <1>2, <2>5
    <3>2. now >= condition[q[i]]  BY <3>1
    <3> QED  BY <1>3, <3>2
  <2>8. \A i \in DOMAIN q : condition[q[i]] <= now => i <= m - 1
    <3> SUFFICES ASSUME NEW i \in DOMAIN q, condition[q[i]] <= now, ~ (i <= m - 1)
                 PROVE  FALSE
      OBVIOUS
    <3>1. j \in DOMAIN q /\ (j < i \/ j = i)  BY <1>2, <2>3
    <3>2. condition[q[j]] \in Nat /\ condition[q[i]] \in Nat  BY <1>3, <3>1
    <3>3. condition[q[j]] <= condition[q[i]]  BY <1>4, <3>1, <3>2
    <3> QED  BY <2>4, <3>2, <3>3
  <2>9. m - 1 \in Nat /\ m - 1 \in 0 .. Len(q)  BY <1>2, <2>3
  <2> HIDE DEF D
  <2>10. DueCount(c) = m - 1  BY <1>1, <2>6, <2>9, CardinalityUpTo
  <2> QED  BY <2>7, <2>8, <2>9, <2>10 DEF q
<1> QED  BY <1>5, <1>6

\* The lists are Q, they are sorted, and the times fit their types.
Ordered(Q) ==
  /\ Lists(links, Q)
  /\ \A c \in Periods : Chain(links, c) = Q[c] /\ Sorted(Q[c])
  /\ condition \in [Objects -> Nat]
  /\ now \in Nat

LEMMA DueInList ==
  ASSUME NEW Q, Ordered(Q), NEW c \in Periods
  PROVE  /\ Q[c] \in Seq(Objects) /\ IsList(links, c, Q[c])
         /\ DOMAIN Q[c] = 1 .. Len(Q[c]) /\ Len(Q[c]) \in Nat
         /\ DueCount(c) \in 0 .. Len(Q[c])
         /\ \A i \in DOMAIN Q[c] :
              /\ Q[c][i] \in Objects /\ Q[c][i] # Nil /\ links.list[Q[c][i]] = c
              /\ Due(Q[c][i]) <=> i <= DueCount(c)
<1>1. Q[c] \in Seq(Objects) /\ IsList(links, c, Q[c])  BY DEF Ordered, Lists
<1>2. DOMAIN Q[c] = 1 .. Len(Q[c]) /\ Len(Q[c]) \in Nat  BY <1>1, LenProperties
<1>3. /\ DueCount(c) \in 0 .. Len(Q[c])
      /\ \A i \in DOMAIN Q[c] : condition[Q[c][i]] <= now <=> i <= DueCount(c)
  <2>1. Chain(links, c) = Q[c] /\ Sorted(Q[c]) /\ condition \in [Objects -> Nat] /\ now \in Nat
    BY DEF Ordered
  <2> QED  BY <1>1, <2>1, DueCountIs
<1>4. \A i \in DOMAIN Q[c] :
         Q[c][i] \in Objects /\ Q[c][i] # Nil /\ links.list[Q[c][i]] = c
  <2> TAKE i \in DOMAIN Q[c]
  <2>1. Q[c][i] \in ToSet(Q[c])  BY DEF ToSet
  <2>2. Q[c][i] \in Objects /\ links.list[Q[c][i]] = c  BY <1>1, <2>1 DEF IsList
  <2> QED  BY <2>2, TimerAssumption
<1>5. c # NoList  BY TimerAssumption
<1> QED  BY <1>1, <1>2, <1>3, <1>4, <1>5 DEF Due, InList

LEMMA DueObjectsAreDue ==
  ASSUME NEW Q, Ordered(Q)
  PROVE  DueObjects = {o \in Objects : Due(o)}
<1>1. ASSUME NEW c \in Periods
      PROVE  {DuePrefix(c)[i] : i \in DOMAIN DuePrefix(c)} = {Q[c][i] : i \in 1 .. DueCount(c)}
  <2> DEFINE n == DueCount(c)
             r == DuePrefix(c)
  <2>1. /\ n \in 0 .. Len(Q[c]) /\ Q[c] \in Seq(Objects) /\ Len(Q[c]) \in Nat
        /\ DOMAIN Q[c] = 1 .. Len(Q[c])
    BY DueInList
  <2>2. r = SubSeq(Q[c], 1, n)  BY DEF DuePrefix, Ordered
  <2> HIDE DEF n, r
  <2>3. \A i \in 1 .. n : Q[c][i] \in Objects  BY <2>1, ElementOfSeq
  <2>4. /\ r \in Seq(Objects) /\ Len(r) = IF 1 <= n THEN n - 1 + 1 ELSE 0
        /\ \A i \in 1 .. n - 1 + 1 : r[i] = Q[c][1 + i - 1]
    BY <2>1, <2>2, <2>3, SubSeqProperties
  <2>5. n \in Nat  BY <2>1
  <2>6. Len(r) = n
    <3>1. Len(r) = IF 1 <= n THEN n - 1 + 1 ELSE 0  BY <2>4
    <3> QED  BY <2>5, <3>1
  <2>7. DOMAIN r = 1 .. n  BY <2>4, <2>6, LenProperties
  <2>8. \A i \in 1 .. n : r[i] = Q[c][i]
    <3>1. \A i \in 1 .. n : i \in 1 .. n - 1 + 1 /\ 1 + i - 1 = i  BY <2>5
    <3> QED  BY <2>4, <3>1
  <2>9. {r[i] : i \in DOMAIN r} = {Q[c][i] : i \in 1 .. n}  BY <2>7, <2>8
  <2> QED  BY <2>9 DEF n, r
<1>2. DueObjects = UNION {{Q[c][i] : i \in 1 .. DueCount(c)} : c \in Periods}
  <2>1. {{DuePrefix(c)[i] : i \in DOMAIN DuePrefix(c)} : c \in Periods}
          = {{Q[c][i] : i \in 1 .. DueCount(c)} : c \in Periods}
    <3> DEFINE A(c) == {DuePrefix(c)[i] : i \in DOMAIN DuePrefix(c)}
               B(c) == {Q[c][i] : i \in 1 .. DueCount(c)}
    <3>1. \A c \in Periods : A(c) = B(c)  BY <1>1
    <3> HIDE DEF A, B
    <3>2. {A(c) : c \in Periods} = {B(c) : c \in Periods}  BY <3>1
    <3> QED  BY <3>2 DEF A, B
  <2>2. DueObjects = UNION {{DuePrefix(c)[i] : i \in DOMAIN DuePrefix(c)} : c \in Periods}
    BY DEF DueObjects, ToSet
  <2> QED  BY <2>1, <2>2
<1>3. ASSUME NEW o \in DueObjects PROVE o \in Objects /\ Due(o)
  <2>1. PICK c \in Periods : o \in {Q[c][i] : i \in 1 .. DueCount(c)}  BY <1>2
  <2>2. PICK i \in 1 .. DueCount(c) : o = Q[c][i]  BY <2>1
  <2>3. /\ DueCount(c) \in 0 .. Len(Q[c]) /\ Len(Q[c]) \in Nat
        /\ DOMAIN Q[c] = 1 .. Len(Q[c])
        /\ \A j \in DOMAIN Q[c] : Q[c][j] \in Objects /\ (Due(Q[c][j]) <=> j <= DueCount(c))
    BY DueInList
  <2>4. i \in DOMAIN Q[c] /\ i <= DueCount(c)  BY <2>3
  <2> QED  BY <2>2, <2>3, <2>4
<1>4. ASSUME NEW o \in Objects, Due(o) PROVE o \in DueObjects
  <2> DEFINE c == links.list[o]
  <2>1. c \in Periods /\ \E k \in 1 .. Len(Q[c]) : Q[c][k] = o
    <3>1. links.list[o] # NoList /\ Lists(links, Q)  BY <1>4 DEF Due, InList, Ordered
    <3> QED  BY <3>1, PlaceInList
  <2> HIDE DEF c
  <2>2. PICK k \in 1 .. Len(Q[c]) : Q[c][k] = o  BY <2>1
  <2>3. /\ DueCount(c) \in 0 .. Len(Q[c]) /\ Len(Q[c]) \in Nat
        /\ DOMAIN Q[c] = 1 .. Len(Q[c])
        /\ \A j \in DOMAIN Q[c] : Due(Q[c][j]) <=> j <= DueCount(c)
    BY <2>1, DueInList
  <2>4. k \in 1 .. DueCount(c)  BY <1>4, <2>2, <2>3
  <2>5. o \in {Q[c][i] : i \in 1 .. DueCount(c)}  BY <2>2, <2>4
  <2> QED  BY <1>2, <2>1, <2>5
<1> QED  BY <1>3, <1>4

\* The first object of every list that stays
FirstKept == [c \in Periods |-> At(Chain(links, c), DueCount(c) + 1)]

LEMMA CutDueFields ==
  ASSUME NEW Q, Ordered(Q)
  PROVE  CutDue =
           [head |-> FirstKept,
            tail |-> [c \in Periods |-> IF FirstKept[c] = Nil THEN Nil ELSE links.tail[c]],
            pre  |-> [o \in Objects |-> IF o \in {FirstKept[c] : c \in Periods} THEN Nil
                                        ELSE IF Due(o) THEN Nil ELSE links.pre[o]],
            nxt  |-> [o \in Objects |-> IF Due(o) THEN Nil ELSE links.nxt[o]],
            list |-> [o \in Objects |-> IF Due(o) THEN NoList ELSE links.list[o]]]
<1> DEFINE S == {o \in Objects : Due(o)}
           C == Cleared(links, S)
           H == {FirstKept[c] : c \in Periods}
           T == [c \in Periods |-> IF FirstKept[c] = Nil THEN Nil ELSE C.tail[c]]
           P == [o \in Objects |-> IF o \in H THEN Nil ELSE C.pre[o]]
<1>1. DueObjects = S  BY DueObjectsAreDue
<1>2. CutDue = [C EXCEPT !.head = FirstKept, !.tail = T, !.pre = P]
  BY <1>1 DEF CutDue, FirstKept
<1>3. links = [head |-> links.head, tail |-> links.tail, pre |-> links.pre,
               nxt |-> links.nxt, list |-> links.list]
  <2>1. links \in Pointers  BY DEF Ordered, Lists
  <2> QED  BY <2>1, PointersFields
<1> HIDE DEF S
<1>4. C = [head |-> links.head, tail |-> links.tail,
           pre  |-> [o \in Objects |-> IF o \in S THEN Nil ELSE links.pre[o]],
           nxt  |-> [o \in Objects |-> IF o \in S THEN Nil ELSE links.nxt[o]],
           list |-> [o \in Objects |-> IF o \in S THEN NoList ELSE links.list[o]]]
  <2> DEFINE L == [head |-> links.head, tail |-> links.tail, pre |-> links.pre,
                   nxt |-> links.nxt, list |-> links.list]
  <2>1. Cleared(L, S)
          = [head |-> links.head, tail |-> links.tail,
             pre  |-> [o \in Objects |-> IF o \in S THEN Nil ELSE links.pre[o]],
             nxt  |-> [o \in Objects |-> IF o \in S THEN Nil ELSE links.nxt[o]],
             list |-> [o \in Objects |-> IF o \in S THEN NoList ELSE links.list[o]]]
    BY ClearedFields
  <2>2. L = links  BY <1>3
  <2> HIDE DEF L
  <2> QED  BY <2>1, <2>2
<1> HIDE DEF C
<1>5. /\ T = [c \in Periods |-> IF FirstKept[c] = Nil THEN Nil ELSE links.tail[c]]
      /\ C.tail = links.tail
  BY <1>4
<1>6. P = [o \in Objects |-> IF o \in H THEN Nil ELSE IF o \in S THEN Nil ELSE links.pre[o]]
  <2>1. \A o \in Objects : C.pre[o] = IF o \in S THEN Nil ELSE links.pre[o]  BY <1>4
  <2> QED  BY <2>1
<1> HIDE DEF T, P, H
<1>7. CutDue = [head |-> FirstKept, tail |-> T, pre |-> P,
                nxt |-> [o \in Objects |-> IF o \in S THEN Nil ELSE links.nxt[o]],
                list |-> [o \in Objects |-> IF o \in S THEN NoList ELSE links.list[o]]]
  BY <1>2, <1>4
<1>8. \A o \in Objects : o \in S <=> Due(o)  BY DEF S
<1>9. /\ [o \in Objects |-> IF o \in S THEN Nil ELSE links.nxt[o]]
           = [o \in Objects |-> IF Due(o) THEN Nil ELSE links.nxt[o]]
      /\ [o \in Objects |-> IF o \in S THEN NoList ELSE links.list[o]]
           = [o \in Objects |-> IF Due(o) THEN NoList ELSE links.list[o]]
      /\ P = [o \in Objects |-> IF o \in H THEN Nil ELSE IF Due(o) THEN Nil ELSE links.pre[o]]
  BY <1>6, <1>8
<1> QED  BY <1>5, <1>7, <1>9 DEF H

\* What an update leaves of the lists Q
Kept(Q) == [c \in Periods |-> Rest(Q[c], DueCount(c))]

LEMMA CutDueLists ==
  ASSUME NEW Q, Ordered(Q)
  PROVE  /\ CutDue.list = [o \in Objects |-> IF Due(o) THEN NoList ELSE links.list[o]]
         /\ Lists(CutDue, Kept(Q))
<1> DEFINE M == CutDue
           H == {FirstKept[c] : c \in Periods}
<1>1. /\ links.head \in [Periods -> Objects \union {Nil}]
      /\ links.tail \in [Periods -> Objects \union {Nil}]
      /\ links.pre \in [Objects -> Objects \union {Nil}]
      /\ links.nxt \in [Objects -> Objects \union {Nil}]
      /\ links.list \in [Objects -> Periods \union {NoList}]
      /\ Apart(links)
  BY PointersFields DEF Ordered, Lists
<1>2. M = [head |-> FirstKept,
           tail |-> [c \in Periods |-> IF FirstKept[c] = Nil THEN Nil ELSE links.tail[c]],
           pre  |-> [o \in Objects |-> IF o \in H THEN Nil
                                       ELSE IF Due(o) THEN Nil ELSE links.pre[o]],
           nxt  |-> [o \in Objects |-> IF Due(o) THEN Nil ELSE links.nxt[o]],
           list |-> [o \in Objects |-> IF Due(o) THEN NoList ELSE links.list[o]]]
  BY CutDueFields
<1>3. \A c \in Periods : FirstKept[c] = At(Q[c], DueCount(c) + 1)
  BY DEF FirstKept, Ordered
<1>4. \A c \in Periods : FirstKept[c] \in Objects \union {Nil}
  <2> TAKE c \in Periods
  <2>1. \A i \in DOMAIN Q[c] : Q[c][i] \in Objects  BY DueInList
  <2> QED  BY <1>3, <2>1 DEF At
<1>5. FirstKept \in [Periods -> Objects \union {Nil}]  BY <1>4 DEF FirstKept
<1> HIDE DEF M
<1>6. M \in Pointers
  <2>1. M.tail \in [Periods -> Objects \union {Nil}]  BY <1>1, <1>2
  <2>2. M.pre \in [Objects -> Objects \union {Nil}]
    <3> HIDE DEF H
    <3> QED  BY <1>1, <1>2
  <2>3. M.nxt \in [Objects -> Objects \union {Nil}]
    <3> HIDE DEF H
    <3> QED  BY <1>1, <1>2
  <2>4. M.list \in [Objects -> Periods \union {NoList}]
    <3> HIDE DEF H
    <3> QED  BY <1>1, <1>2
  <2>5. M.head = FirstKept  BY <1>2
  <2>6. M = [head |-> M.head, tail |-> M.tail, pre |-> M.pre, nxt |-> M.nxt,
             list |-> M.list]
    BY <1>2
  <2> QED  BY <1>5, <2>1, <2>2, <2>3, <2>4, <2>5, <2>6 DEF Pointers
<1>7. /\ M.head = FirstKept
      /\ \A c \in Periods : M.tail[c] = IF FirstKept[c] = Nil THEN Nil ELSE links.tail[c]
      /\ \A o \in Objects :
           /\ M.pre[o] = IF o \in H THEN Nil ELSE IF Due(o) THEN Nil ELSE links.pre[o]
           /\ M.nxt[o] = IF Due(o) THEN Nil ELSE links.nxt[o]
           /\ M.list[o] = IF Due(o) THEN NoList ELSE links.list[o]
  <2> HIDE DEF H
  <2> QED  BY <1>2
<1>8. Apart(M)
  <2> SUFFICES ASSUME NEW o \in Objects, M.list[o] = NoList
               PROVE  M.pre[o] = Nil /\ M.nxt[o] = Nil
    BY DEF Apart
  <2> HIDE DEF H
  <2>1. CASE Due(o)  BY <1>7, <2>1
  <2>2. CASE ~ Due(o)
    <3>1. links.list[o] = NoList  BY <1>7, <2>2
    <3>2. links.pre[o] = Nil /\ links.nxt[o] = Nil  BY <1>1, <3>1 DEF Apart
    <3> QED  BY <1>7, <2>2, <3>2
  <2> QED  BY <2>1, <2>2
<1>9. ASSUME NEW c \in Periods
      PROVE  Kept(Q)[c] \in Seq(Objects) /\ IsList(M, c, Kept(Q)[c])
  <2> DEFINE q == Q[c]
             n == DueCount(c)
             r == Rest(q, n)
  <2>1. /\ q \in Seq(Objects) /\ IsList(links, c, q)
        /\ DOMAIN q = 1 .. Len(q) /\ Len(q) \in Nat
        /\ n \in 0 .. Len(q)
        /\ \A i \in DOMAIN q :
              /\ q[i] \in Objects /\ q[i] # Nil /\ links.list[q[i]] = c
              /\ Due(q[i]) <=> i <= n
    BY DueInList
  <2>2. FirstKept[c] = At(q, n + 1)  BY <1>3
  <2> HIDE DEF q, n
  <2>3. /\ r \in Seq(Objects) /\ Len(r) = Len(q) - n
        /\ \A i \in 1 .. Len(q) - n : r[i] = q[n + i]
        /\ \A i \in Nat : At(r, i) = IF i = 0 THEN Nil ELSE At(q, n + i)
        /\ ToSet(r) = {q[i] : i \in n + 1 .. Len(q)}
        /\ IsInjective(r)
    <3>1. IsInjective(q)  BY <2>1 DEF IsList
    <3> QED  BY <2>1, <3>1, RestElements
  <2>4. DOMAIN r = 1 .. Len(q) - n
    <3> HIDE DEF r
    <3> QED  BY <2>3, LenProperties
  <2> HIDE DEF r
  <2>5. n \in Nat /\ n <= Len(q)  BY <2>1
  <2>6. ToSet(r) = {x \in Objects : M.list[x] = c}
    <3>1. ASSUME NEW x \in ToSet(r) PROVE x \in Objects /\ M.list[x] = c
      <4>1. PICK i \in n + 1 .. Len(q) : x = q[i]  BY <2>3
      <4>2. i \in DOMAIN q /\ ~ (i <= n)  BY <2>1, <2>5
      <4>3. q[i] \in Objects /\ ~ Due(q[i]) /\ links.list[q[i]] = c  BY <2>1, <4>2
      <4> QED  BY <1>7, <4>1, <4>3
    <3>2. ASSUME NEW x \in Objects, M.list[x] = c PROVE x \in ToSet(r)
      <4>1. ~ Due(x) /\ links.list[x] = c  BY <1>7, <3>2, TimerAssumption
      <4>2. x \in ToSet(q)  BY <2>1, <4>1 DEF IsList
      <4>3. PICK i \in DOMAIN q : x = q[i]  BY <4>2 DEF ToSet
      <4>4. i \in n + 1 .. Len(q)
        <5>1. ~ (i <= n)  BY <2>1, <4>1, <4>3
        <5> QED  BY <2>1, <2>5, <5>1
      <4> QED  BY <2>3, <4>3, <4>4
    <3> QED  BY <3>1, <3>2
  <2>7. FirstKept[c] = Nil <=> n = Len(q)
    <3>1. n + 1 \in DOMAIN q <=> n # Len(q)
      <4>1. DOMAIN q = 1 .. Len(q) /\ Len(q) \in Nat  BY <2>1
      <4>2. \A i, j \in Nat : i <= j => (i + 1 \in 1 .. j <=> i # j)  OBVIOUS
      <4> QED  BY <2>5, <4>1, <4>2
    <3> QED  BY <2>1, <2>2, <3>1 DEF At
  <2>8. M.head[c] = At(r, 1)
    <3>1. At(r, 1) = At(q, n + 1)  BY <2>3
    <3> QED  BY <1>7, <2>2, <3>1
  <2>9. M.tail[c] = At(r, Len(r))
    <3>1. Len(q) - n \in Nat /\ n + (Len(q) - n) = Len(q)  BY <2>1, <2>5
    <3>2. At(r, Len(q) - n) = IF Len(q) - n = 0 THEN Nil ELSE At(q, Len(q))
      BY <2>3, <3>1
    <3>3. links.tail[c] = At(q, Len(q))  BY <2>1 DEF IsList
    <3>4. Len(q) - n = 0 <=> n = Len(q)  BY <2>1, <2>5
    <3> QED  BY <1>7, <2>3, <2>7, <3>2, <3>3, <3>4
  <2>10. ASSUME NEW i \in DOMAIN r
         PROVE  M.nxt[r[i]] = At(r, i + 1) /\ M.pre[r[i]] = At(r, i - 1)
    <3>1. /\ i \in 1 .. Len(q) - n /\ n + i \in DOMAIN q /\ ~ (n + i <= n)
          /\ i + 1 \in Nat /\ i - 1 \in Nat /\ i + 1 # 0
          /\ n + (i + 1) = (n + i) + 1 /\ n + (i - 1) = (n + i) - 1
      BY <2>1, <2>4, <2>5
    <3>2. r[i] = q[n + i]  BY <2>3, <3>1
    <3> DEFINE x == r[i]
    <3>3. x \in Objects /\ ~ Due(x) /\ links.list[x] = c  BY <2>1, <3>1, <3>2
    <3>4. links.nxt[x] = At(q, (n + i) + 1) /\ links.pre[x] = At(q, (n + i) - 1)
      BY <2>1, <3>1, <3>2 DEF IsList
    <3>5. M.nxt[x] = At(r, i + 1)
      <4>1. M.nxt[x] = links.nxt[x]
        <5> HIDE DEF H
        <5> QED  BY <1>7, <3>3
      <4>2. At(r, i + 1) = At(q, n + (i + 1))  BY <2>3, <3>1
      <4> QED  BY <3>1, <3>4, <4>1, <4>2
    <3>6. x \in H <=> i = 1
      <4>1. ASSUME x \in H PROVE i = 1
        <5>1. PICK d \in Periods : x = FirstKept[d]  BY <4>1
        <5>2. x = At(Q[d], DueCount(d) + 1)  BY <1>3, <5>1
        <5>3. x \in ToSet(Q[d])
          <6>1. x # Nil  BY <3>3, TimerAssumption
          <6> QED  BY <5>2, <6>1 DEF At, ToSet
        <5>4. IsList(links, d, Q[d])  BY DueInList
        <5>5. d = c  BY <3>3, <5>3, <5>4 DEF IsList
        <5>6. x = At(q, n + 1)  BY <2>2, <5>1, <5>5
        <5>7. n + 1 \in DOMAIN q /\ q[n + 1] = q[n + i]
          <6>1. x # Nil  BY <3>3, TimerAssumption
          <6> QED  BY <3>2, <5>6, <6>1 DEF At
        <5>8. \A k, l \in DOMAIN q : q[k] = q[l] => k = l  BY <2>1 DEF IsList, IsInjective
        <5>9. n + 1 = n + i  BY <3>1, <5>7, <5>8
        <5> QED  BY <2>5, <3>1, <5>9
      <4>2. ASSUME i = 1 PROVE x \in H
        <5>1. x = FirstKept[c]  BY <2>2, <3>1, <3>2, <4>2 DEF At
        <5> QED  BY <5>1
      <4> QED  BY <4>1, <4>2
    <3>7. M.pre[x] = At(r, i - 1)
      <4>1. M.pre[x] = IF i = 1 THEN Nil ELSE links.pre[x]
        <5> HIDE DEF H
        <5> QED  BY <1>7, <3>3, <3>6
      <4>2. At(r, i - 1) = IF i - 1 = 0 THEN Nil ELSE At(q, n + (i - 1))  BY <2>3, <3>1
      <4>3. i - 1 = 0 <=> i = 1  BY <3>1
      <4> QED  BY <3>1, <3>4, <4>1, <4>2, <4>3
    <3> QED  BY <3>5, <3>7
  <2>11. IsList(M, c, r)  BY <2>3, <2>6, <2>8, <2>9, <2>10 DEF IsList
  <2>12. Kept(Q)[c] = r  BY DEF Kept, r, q, n
  <2> QED  BY <2>3, <2>11, <2>12
<1>10. Kept(Q) \in [Periods -> Seq(Objects)]
  <2>1. Kept(Q) = [c \in Periods |-> Kept(Q)[c]]  BY DEF Kept
  <2> QED  BY <1>9, <2>1
<1>11. Lists(M, Kept(Q))  BY <1>6, <1>8, <1>9, <1>10 DEF Lists
<1>12. M.list = [o \in Objects |-> IF Due(o) THEN NoList ELSE links.list[o]]
  <2> HIDE DEF H
  <2> QED  BY <1>2
<1> QED  BY <1>11, <1>12 DEF M

-----------------------------------------------------------------------------
(***************************************************************************)
(* Sorted lists                                                            *)
(***************************************************************************)

SortedBy(f, q) == \A i, j \in DOMAIN q : i < j => f[q[i]] <= f[q[j]]

LEMMA DropSorted ==
  ASSUME NEW A, NEW q \in Seq(A), NEW k \in 1 .. Len(q), IsInjective(q),
         NEW f, SortedBy(f, q)
  PROVE  SortedBy(f, Drop(q, k))
<1> DEFINE r == Drop(q, k)
           at(x) == IF x < k THEN x ELSE x + 1
<1>1. DOMAIN q = 1 .. Len(q) /\ Len(q) \in Nat  BY LenProperties
<1>2. /\ r \in Seq(A) /\ Len(r) = Len(q) - 1
      /\ \A i \in 1 .. Len(q) - 1 : r[i] = IF i < k THEN q[i] ELSE q[i + 1]
  BY DropElements
<1> HIDE DEF r
<1>3. DOMAIN r = 1 .. Len(q) - 1  BY <1>2, LenProperties
<1>4. \A x \in DOMAIN r : at(x) \in DOMAIN q /\ r[x] = q[at(x)]  BY <1>1, <1>2, <1>3
<1>5. \A x, y \in DOMAIN r : x < y => at(x) < at(y)  BY <1>1, <1>3
<1> HIDE DEF at
<1>6. SortedBy(f, r)  BY <1>4, <1>5 DEF SortedBy
<1> QED  BY <1>6 DEF r

LEMMA RestSorted ==
  ASSUME NEW A, NEW q \in Seq(A), NEW n \in 0 .. Len(q), NEW f, SortedBy(f, q)
  PROVE  SortedBy(f, Rest(q, n))
<1> DEFINE r == Rest(q, n)
<1>1. DOMAIN q = 1 .. Len(q) /\ Len(q) \in Nat /\ n \in Nat  BY LenProperties
<1>2. /\ r \in Seq(A) /\ Len(r) = Len(q) - n
      /\ \A i \in 1 .. Len(q) - n : r[i] = q[n + i]
  BY RestElements
<1> HIDE DEF r
<1>3. DOMAIN r = 1 .. Len(q) - n  BY <1>2, LenProperties
<1>4. \A x \in DOMAIN r : n + x \in DOMAIN q /\ r[x] = q[n + x]  BY <1>1, <1>2, <1>3
<1>5. \A x, y \in DOMAIN r : x < y => n + x < n + y  BY <1>1, <1>3
<1>6. SortedBy(f, r)  BY <1>4, <1>5 DEF SortedBy
<1> QED  BY <1>6 DEF r

LEMMA AppendSorted ==
  ASSUME NEW A, NEW q \in Seq(A), NEW a \in A, NEW f, SortedBy(f, q),
         \A i \in DOMAIN q : f[q[i]] <= f[a]
  PROVE  SortedBy(f, Append(q, a))
<1>1. PICK r \in Seq(A) : r = Append(q, a)  BY AppendProperties
<1>2. /\ DOMAIN q = 1 .. Len(q) /\ DOMAIN r = 1 .. Len(q) + 1 /\ Len(q) \in Nat
      /\ \A i \in 1 .. Len(q) : r[i] = q[i]
      /\ r[Len(q) + 1] = a
  BY <1>1, AppendProperties, LenProperties
<1>3. ASSUME NEW i \in DOMAIN r, NEW j \in DOMAIN r, i < j PROVE f[r[i]] <= f[r[j]]
  <2>1. i \in DOMAIN q /\ r[i] = q[i]  BY <1>2, <1>3
  <2>2. CASE j = Len(q) + 1  BY <1>2, <2>1, <2>2
  <2>3. CASE j # Len(q) + 1
    <3>1. j \in DOMAIN q /\ r[j] = q[j]  BY <1>2, <2>3
    <3> QED  BY <1>3, <2>1, <3>1 DEF SortedBy
  <2> QED  BY <2>2, <2>3
<1> QED  BY <1>1, <1>3 DEF SortedBy

\* Lists that are sorted stay so when the objects in them keep their condition.
LEMMA SameSorted ==
  ASSUME NEW q, NEW f, NEW g, SortedBy(f, q), \A i \in DOMAIN q : g[q[i]] = f[q[i]]
  PROVE  SortedBy(g, q)
BY DEF SortedBy

\* Chain finds the lists.
LEMMA ListsChain ==
  ASSUME NEW L, NEW Q, Lists(L, Q)
  PROVE  \A c \in Periods : Chain(L, c) = Q[c]
<1> SUFFICES ASSUME NEW c \in Periods PROVE Chain(L, c) = Q[c]
  OBVIOUS
<1>1. Q[c] \in Seq(Objects) /\ IsList(L, c, Q[c])  BY DEF Lists
<1>2. IsInjective(Q[c]) /\ Leads(L, c, Q[c])  BY <1>1 DEF IsList, Leads
<1> QED  BY <1>1, <1>2, ChainOfList

\* The timeout that an update computes is before every timer that stays.
LEMMA HeadsTimeoutIs ==
  ASSUME NEW Q, Ordered(Q)
  PROVE  /\ HeadsTimeout \in Nat
         /\ \A o \in Objects : CutDue.list[o] # NoList => HeadsTimeout <= condition[o]
<1> DEFINE heads == {CutDue.head[c] : c \in Periods} \ {Nil}
           times == {condition[o] : o \in heads}
<1>1. Lists(CutDue, Kept(Q))  BY CutDueLists
<1>2. heads \subseteq Objects
  <2>1. CutDue.head \in [Periods -> Objects \union {Nil}]
    BY <1>1, PointersFields DEF Lists
  <2> QED  BY <2>1
<1>3. condition \in [Objects -> Nat]  BY DEF Ordered
<1>4. times \subseteq Nat
  <2> HIDE DEF heads
  <2> QED  BY <1>2, <1>3
<1>5. HeadsTimeout = IF heads = {} THEN MaxInt64
                     ELSE CHOOSE t \in times : \A o \in heads : t <= condition[o]
  BY DEF HeadsTimeout
<1>6. ASSUME NEW o \in Objects, CutDue.list[o] # NoList
      PROVE  \E h \in heads : condition[h] <= condition[o]
  <2> DEFINE c == CutDue.list[o]
             q == Kept(Q)[c]
  <2>1. c \in Periods /\ \E k \in 1 .. Len(q) : q[k] = o  BY <1>1, <1>6, PlaceInList
  <2>2. PICK k \in 1 .. Len(q) : q[k] = o  BY <2>1
  <2> HIDE DEF c
  <2>3. q \in Seq(Objects) /\ IsList(CutDue, c, q)  BY <1>1, <2>1 DEF Lists
  <2>4. SortedBy(condition, q)
    <3>1. Q[c] \in Seq(Objects) /\ DueCount(c) \in 0 .. Len(Q[c])  BY <2>1, DueInList
    <3>2. SortedBy(condition, Q[c])  BY <2>1 DEF Ordered, Sorted, SortedBy
    <3>3. q = Rest(Q[c], DueCount(c))  BY <2>1 DEF Kept
    <3> HIDE DEF q
    <3> QED  BY <3>1, <3>2, <3>3, RestSorted
  <2> HIDE DEF q
  <2>5. DOMAIN q = 1 .. Len(q) /\ Len(q) \in Nat  BY <2>3, LenProperties
  <2>6. 1 \in DOMAIN q /\ k \in DOMAIN q /\ (k = 1 \/ 1 < k)  BY <2>5
  <2>7. CutDue.head[c] = q[1]  BY <2>3, <2>6 DEF IsList, At
  <2>8. q[1] \in Objects /\ q[k] \in Objects  BY <2>3, <2>5, <2>6, ElementOfSeq
  <2>9. q[1] \in heads  BY <2>1, <2>7, <2>8, TimerAssumption
  <2>10. condition[q[1]] \in Nat /\ condition[q[1]] <= condition[q[k]]
    BY <1>3, <2>4, <2>6, <2>8 DEF SortedBy
  <2> HIDE DEF heads
  <2> QED  BY <2>2, <2>9, <2>10
<1> HIDE DEF heads
<1>7. CASE heads = {}
  <2>1. HeadsTimeout = MaxInt64  BY <1>5, <1>7
  <2> QED  BY <1>6, <1>7, <2>1, TimerAssumption
<1>8. CASE heads # {}
  <2>1. times # {}  BY <1>8
  <2>2. PICK t \in times : \A u \in times : t <= u
    <3> HIDE DEF times
    <3> QED  BY <1>4, <2>1, LeastOf
  <2>3. \A o \in heads : t <= condition[o]  BY <2>2
  <2> HIDE DEF times
  <2>4. HeadsTimeout \in times /\ \A o \in heads : HeadsTimeout <= condition[o]
    BY <1>5, <1>8, <2>3
  <2>5. HeadsTimeout \in Nat  BY <1>4, <2>4
  <2>6. \A o \in Objects : CutDue.list[o] # NoList => HeadsTimeout <= condition[o]
    <3> SUFFICES ASSUME NEW o \in Objects, CutDue.list[o] # NoList
                 PROVE  HeadsTimeout <= condition[o]
      OBVIOUS
    <3>1. PICK h \in heads : condition[h] <= condition[o]  BY <1>6
    <3>2. condition[h] \in Nat /\ condition[o] \in Nat  BY <1>2, <1>3
    <3> QED  BY <2>4, <2>5, <3>1, <3>2
  <2> QED  BY <2>5, <2>6
<1> QED  BY <1>7, <1>8

-----------------------------------------------------------------------------
(***************************************************************************)
(* The inductive invariant                                                 *)
(***************************************************************************)

\* There are sorted lists that the pointers make; every armed object has its
\* place in the order, and is due by its duration from now at the latest.
Core ==
  /\ now \in 0 .. Horizon
  /\ \E Q : Lists(links, Q) /\ \A c \in Periods : SortedBy(condition, Q[c])
  /\ condition \in [Objects -> Nat]
  /\ \A o \in Objects : InList(o) => condition[o] <= now + links.list[o]
  /\ order \in Seq(Objects) /\ OrderOK
  /\ waitTimeout \in Nat
  /\ NoOversleep

TimerIInv == Core /\ batch \in Seq([object : Objects, list : Periods])

LEMMA CoreOrdered ==
  ASSUME NEW Q, Lists(links, Q), \A c \in Periods : SortedBy(condition, Q[c]),
         condition \in [Objects -> Nat], now \in 0 .. Horizon
  PROVE  Ordered(Q)
<1>1. \A c \in Periods : Chain(links, c) = Q[c]  BY ListsChain
<1>2. now \in Nat  BY TimerAssumption
<1> QED  BY <1>1, <1>2 DEF Ordered, Sorted, SortedBy

LEMMA TimerIInvImplies == TimerIInv => ListsInv /\ NoOversleep
<1> SUFFICES ASSUME TimerIInv PROVE ListsInv /\ NoOversleep
  OBVIOUS
<1>1. PICK Q : Lists(links, Q) /\ \A c \in Periods : SortedBy(condition, Q[c])
  BY DEF TimerIInv, Core
<1>2. Ordered(Q)  BY <1>1, CoreOrdered DEF TimerIInv, Core
<1>3. TimerTypeOK
  <2>1. links \in Pointers  BY <1>1 DEF Lists
  <2> QED  BY <2>1 DEF TimerIInv, Core, TimerTypeOK
<1>4. ListsOK
  <2>1. \A c \in Periods : IsList(links, c, Chain(links, c))  BY <1>1, <1>2 DEF Lists, Ordered
  <2>2. \A o \in Objects : ~ InList(o) => links.pre[o] = Nil /\ links.nxt[o] = Nil
    BY <1>1 DEF Lists, Apart, InList
  <2> QED  BY <2>1, <2>2 DEF ListsOK
<1>5. ListsSorted
  <2>1. \A c \in Periods : Sorted(Chain(links, c))  BY <1>2 DEF Ordered
  <2> QED  BY <2>1 DEF ListsSorted, TimerIInv, Core
<1> QED  BY <1>3, <1>4, <1>5 DEF ListsInv, TimerIInv, Core

LEMMA InitCore == TimerInit => TimerIInv
<1> SUFFICES ASSUME TimerInit PROVE TimerIInv
  OBVIOUS
<1> DEFINE Q == [c \in Periods |-> <<>>]
<1>1. /\ links \in Pointers /\ Apart(links)
      /\ \A o \in Objects : links.list[o] = NoList
      /\ \A c \in Periods : links.head[c] = Nil /\ links.tail[c] = Nil
  BY DEF TimerInit, Pointers, Apart
<1>2. \A c \in Periods : IsList(links, c, <<>>)
  <2> TAKE c \in Periods
  <2>1. ToSet(<<>>) = {}  BY DEF ToSet
  <2>2. {o \in Objects : links.list[o] = c} = {}  BY <1>1, TimerAssumption
  <2>3. IsInjective(<<>>) /\ \A i : At(<<>>, i) = Nil  BY DEF IsInjective, At
  <2> QED  BY <1>1, <2>1, <2>2, <2>3 DEF IsList
<1>3. Lists(links, Q) /\ \A c \in Periods : SortedBy(condition, Q[c])
  <2>1. Q \in [Periods -> Seq(Objects)]  OBVIOUS
  <2>2. \A c \in Periods : SortedBy(condition, <<>>)  BY DEF SortedBy
  <2> QED  BY <1>1, <1>2, <2>1, <2>2 DEF Lists
<1>4. OrderOK
  <2>1. ToSet(<<>>) = {} /\ IsInjective(<<>>)  BY DEF ToSet, IsInjective
  <2>2. {o \in Objects : InList(o)} = {}  BY <1>1 DEF InList
  <2> QED  BY <2>1, <2>2 DEF OrderOK, TimerInit
<1>5. \A o \in Objects : ~ InList(o)  BY <1>1 DEF InList
<1>6. /\ now \in 0 .. Horizon /\ condition \in [Objects -> Nat] /\ order \in Seq(Objects)
      /\ waitTimeout \in Nat /\ batch \in Seq([object : Objects, list : Periods])
  BY TimerAssumption DEF TimerInit
<1> HIDE DEF Q
<1> QED  BY <1>3, <1>4, <1>5, <1>6 DEF TimerIInv, Core, NoOversleep

\* The objects in a list are those of its duration.
LEMMA InItsList ==
  ASSUME NEW L, NEW Q, Lists(L, Q), NEW c \in Periods
  PROVE  /\ Q[c] \in Seq(Objects) /\ IsInjective(Q[c])
         /\ \A i \in DOMAIN Q[c] : Q[c][i] \in Objects /\ L.list[Q[c][i]] = c
<1>1. Q[c] \in Seq(Objects) /\ IsList(L, c, Q[c])  BY DEF Lists
<1>2. \A i \in DOMAIN Q[c] : Q[c][i] \in ToSet(Q[c])  BY DEF ToSet
<1> QED  BY <1>1, <1>2 DEF IsList

\* An object leaves its list, or is in none.
LEMMA RemoveSorted ==
  ASSUME NEW L, NEW Q, Lists(L, Q), NEW o \in Objects, NEW f,
         \A c \in Periods : SortedBy(f, Q[c])
  PROVE  \E R : Lists(ListRemove(L, o), R) /\ \A c \in Periods : SortedBy(f, R[c])
<1>1. PICK R : Lists(ListRemove(L, o), R) /\ LeftBy(Q, R, o)  BY RemoveLists
<1>2. ASSUME NEW c \in Periods PROVE SortedBy(f, R[c])
  <2>1. Q[c] \in Seq(Objects) /\ IsInjective(Q[c]) /\ SortedBy(f, Q[c])  BY InItsList
  <2>2. CASE R[c] = Q[c]  BY <2>1, <2>2
  <2>3. CASE R[c] # Q[c]
    <3>1. PICK k \in 1 .. Len(Q[c]) : R[c] = Drop(Q[c], k)  BY <1>1, <2>3 DEF LeftBy
    <3>2. SortedBy(f, Drop(Q[c], k))  BY <2>1, DropSorted
    <3> QED  BY <3>1, <3>2
  <2> QED  BY <2>2, <2>3
<1> QED  BY <1>1, <1>2

LEMMA ArmStep ==
  ASSUME Core, NEW o \in Objects, NEW c \in Periods, Arm(o, c), now' = now
  PROVE  Core'
<1>1. PICK Q : Lists(links, Q) /\ \A d \in Periods : SortedBy(condition, Q[d])
  BY DEF Core
<1>2. PICK R : Lists(ListRemove(links, o), R) /\ \A d \in Periods : SortedBy(condition, R[d])
  BY <1>1, RemoveSorted
<1> DEFINE L == ListRemove(links, o)
           S == [R EXCEPT ![c] = Append(R[c], o)]
<1>3. L.list = [links.list EXCEPT ![o] = NoList]  BY <1>1, RemoveLists
<1>4. links.list \in [Objects -> Periods \union {NoList}]
  BY <1>1, PointersFields DEF Lists
<1>5. L.list[o] = NoList /\ \A x \in Objects : x # o => L.list[x] = links.list[x]
  <2> HIDE DEF L
  <2> QED  BY <1>3, <1>4
<1>6. links' = LinkLast(L, o, c)  BY DEF Arm, Relink
<1>7. links'.list = [L.list EXCEPT ![o] = c] /\ Lists(links', S)
  <2> HIDE DEF L
  <2>1. Lists(L, R)  BY <1>2 DEF L
  <2> QED  BY <1>5, <1>6, <2>1, LinkLastLists
<1>8. links'.list[o] = c /\ \A x \in Objects : x # o => links'.list[x] = links.list[x]
  <2> HIDE DEF L
  <2> QED  BY <1>3, <1>4, <1>5, <1>7
<1>9. /\ condition \in [Objects -> Nat] /\ now \in Nat /\ c \in Nat
      /\ condition' = [condition EXCEPT ![o] = now + c]
  BY TimerAssumption DEF Core, Arm
<1>10. /\ condition' \in [Objects -> Nat] /\ condition'[o] = now + c
       /\ \A x \in Objects : x # o => condition'[x] = condition[x]
  BY <1>9
<1>11. \A d \in Periods : SortedBy(condition', S[d])
  <2> SUFFICES ASSUME NEW d \in Periods PROVE SortedBy(condition', S[d])
    OBVIOUS
  <2>1. /\ R[d] \in Seq(Objects) /\ IsInjective(R[d])
        /\ \A i \in DOMAIN R[d] : R[d][i] \in Objects /\ L.list[R[d][i]] = d
    <3> HIDE DEF L
    <3>1. Lists(L, R)  BY <1>2 DEF L
    <3> QED  BY <3>1, InItsList
  <2>2. \A i \in DOMAIN R[d] : R[d][i] # o /\ links.list[R[d][i]] = d
    <3> HIDE DEF L
    <3> QED  BY <1>5, <2>1, TimerAssumption
  <2>3. SortedBy(condition', R[d])
    <3>1. \A i \in DOMAIN R[d] : condition'[R[d][i]] = condition[R[d][i]]
      BY <1>10, <2>1, <2>2
    <3> QED  BY <1>2, <3>1, SameSorted
  <2>4. CASE d # c
    <3>1. S[d] = R[d]  BY <1>2, <2>4 DEF Lists
    <3> QED  BY <2>3, <3>1
  <2>5. CASE d = c
    <3>1. S[d] = Append(R[d], o)  BY <1>2, <2>5 DEF Lists
    <3>2. \A i \in DOMAIN R[d] : condition'[R[d][i]] <= condition'[o]
      <4> TAKE i \in DOMAIN R[d]
      <4>1. R[d][i] \in Objects /\ links.list[R[d][i]] = d /\ R[d][i] # o  BY <2>1, <2>2
      <4>2. condition[R[d][i]] <= now + d
        BY <2>5, <4>1, TimerAssumption DEF Core, InList
      <4> QED  BY <1>10, <2>5, <4>1, <4>2
    <3>3. SortedBy(condition', Append(R[d], o))  BY <2>1, <2>3, <3>2, AppendSorted
    <3> QED  BY <3>1, <3>3
  <2> QED  BY <2>4, <2>5
<1>12. \A x \in Objects : InList(x)' => condition'[x] <= now' + links'.list[x]
  <2> SUFFICES ASSUME NEW x \in Objects, links'.list[x] # NoList
               PROVE  condition'[x] <= now + links'.list[x]
    BY DEF InList
  <2>1. CASE x = o  BY <1>8, <1>9, <1>10, <2>1
  <2>2. CASE x # o
    <3>1. links.list[x] # NoList  BY <1>8, <2>2
    <3>2. condition[x] <= now + links.list[x]  BY <3>1 DEF Core, InList
    <3> QED  BY <1>8, <1>10, <2>2, <3>2
  <2> QED  BY <2>1, <2>2
<1>13. order' \in Seq(Objects) /\ OrderOK'
  <2> DEFINE q == Without(order, {o})
  <2>1. order \in Seq(Objects) /\ IsInjective(order) /\ ToSet(order) = {x \in Objects : InList(x)}
    BY DEF Core, OrderOK
  <2>2. q \in Seq(Objects) /\ ToSet(q) = ToSet(order) \ {o} /\ IsInjective(q)
    BY <2>1, WithoutElements
  <2>3. order' = Append(q, o)  BY DEF Arm
  <2> HIDE DEF q
  <2>4. /\ order' \in Seq(Objects) /\ ToSet(order') = ToSet(q) \union {o}
        /\ IsInjective(order')
    BY <2>2, <2>3, AppendElements
  <2>5. \A x \in Objects : InList(x)' <=> x = o \/ InList(x)
    BY <1>8, TimerAssumption DEF InList
  <2>6. ToSet(order') = {x \in Objects : InList(x)'}
    BY <2>1, <2>2, <2>4, <2>5
  <2> QED  BY <2>4, <2>6 DEF OrderOK
<1>14. waitTimeout' \in Nat /\ NoOversleep'
  <2>1. waitTimeout \in Nat /\ waitTimeout' = LesserOf(waitTimeout, now + c)
    BY DEF Core, Arm
  <2>2. waitTimeout' \in Nat /\ waitTimeout' <= waitTimeout /\ waitTimeout' <= now + c
    BY <1>9, <2>1 DEF LesserOf
  <2>3. ASSUME NEW x \in Objects, links'.list[x] # NoList PROVE waitTimeout' <= condition'[x]
    <3>1. CASE x = o  BY <1>10, <2>2, <3>1
    <3>2. CASE x # o
      <4>1. links.list[x] # NoList  BY <1>8, <2>3, <3>2
      <4>2. waitTimeout <= condition[x]  BY <4>1 DEF Core, NoOversleep, InList
      <4>3. condition[x] \in Nat /\ condition'[x] = condition[x]  BY <1>9, <1>10, <3>2
      <4> QED  BY <2>1, <2>2, <4>2, <4>3
    <3> QED  BY <3>1, <3>2
  <2> QED  BY <2>2, <2>3 DEF NoOversleep, InList
<1>15. now' \in 0 .. Horizon  BY DEF Core
<1> HIDE DEF S
<1> QED  BY <1>7, <1>10, <1>11, <1>12, <1>13, <1>14, <1>15 DEF Core

LEMMA ClearStep ==
  ASSUME Core, NEW o \in Objects, ClearTimer(o)
  PROVE  Core'
<1>1. PICK Q : Lists(links, Q) /\ \A d \in Periods : SortedBy(condition, Q[d])
  BY DEF Core
<1>2. /\ links' = ListRemove(links, o) /\ condition' = condition /\ now' = now
      /\ waitTimeout' = waitTimeout /\ order' = Without(order, {o})
  BY DEF ClearTimer
<1>3. \E R : Lists(links', R) /\ \A d \in Periods : SortedBy(condition', R[d])
  BY <1>1, <1>2, RemoveSorted
<1>4. links'.list[o] = NoList /\ \A x \in Objects : x # o => links'.list[x] = links.list[x]
  <2>1. links'.list = [links.list EXCEPT ![o] = NoList]  BY <1>1, <1>2, RemoveLists
  <2>2. links.list \in [Objects -> Periods \union {NoList}]
    BY <1>1, PointersFields DEF Lists
  <2> QED  BY <2>1, <2>2
<1>5. \A x \in Objects : InList(x)' <=> x # o /\ InList(x)  BY <1>4 DEF InList
<1>6. order' \in Seq(Objects) /\ OrderOK'
  <2>1. order \in Seq(Objects) /\ IsInjective(order) /\ ToSet(order) = {x \in Objects : InList(x)}
    BY DEF Core, OrderOK
  <2>2. order' \in Seq(Objects) /\ ToSet(order') = ToSet(order) \ {o} /\ IsInjective(order')
    BY <1>2, <2>1, WithoutElements
  <2>3. ToSet(order') = {x \in Objects : InList(x)'}  BY <1>5, <2>1, <2>2
  <2> QED  BY <2>2, <2>3 DEF OrderOK
<1>7. \A x \in Objects : InList(x)' => condition'[x] <= now' + links'.list[x]
  BY <1>2, <1>4, <1>5 DEF Core
<1>8. NoOversleep'  BY <1>2, <1>5 DEF Core, NoOversleep
<1> QED  BY <1>2, <1>3, <1>6, <1>7, <1>8 DEF Core

LEMMA UpdateStep ==
  ASSUME Core, Update
  PROVE  Core' /\ batch' \in Seq([object : Objects, list : Periods])
<1>1. PICK Q : Lists(links, Q) /\ \A d \in Periods : SortedBy(condition, Q[d])
  BY DEF Core
<1>2. Ordered(Q)  BY <1>1, CoreOrdered DEF Core
<1>3. /\ links' = CutDue /\ condition' = condition /\ now' = now
      /\ waitTimeout' = HeadsTimeout /\ order' = Without(order, DueObjects)
      /\ batch' = Taken
  BY DEF Update
<1>4. DueObjects = {o \in Objects : Due(o)}  BY <1>2, DueObjectsAreDue
<1>5. \A x \in Objects : links'.list[x] = IF Due(x) THEN NoList ELSE links.list[x]
  <2>1. CutDue.list = [o \in Objects |-> IF Due(o) THEN NoList ELSE links.list[o]]
    BY <1>2, CutDueLists
  <2> QED  BY <1>3, <2>1
<1>6. \E R : Lists(links', R) /\ \A d \in Periods : SortedBy(condition', R[d])
  <2>1. Lists(links', Kept(Q))  BY <1>2, <1>3, CutDueLists
  <2>2. ASSUME NEW d \in Periods PROVE SortedBy(condition', Kept(Q)[d])
    <3>1. Q[d] \in Seq(Objects) /\ DueCount(d) \in 0 .. Len(Q[d])  BY <1>2, DueInList
    <3>2. SortedBy(condition', Q[d])  BY <1>1, <1>3
    <3>3. Kept(Q)[d] = Rest(Q[d], DueCount(d))  BY DEF Kept
    <3> QED  BY <3>1, <3>2, <3>3, RestSorted
  <2> QED  BY <2>1, <2>2
<1>7. \A x \in Objects : InList(x)' <=> InList(x) /\ ~ Due(x)  BY <1>5 DEF InList, Due
<1>8. order \in Seq(Objects) /\ IsInjective(order) /\ ToSet(order) = {x \in Objects : InList(x)}
  BY DEF Core, OrderOK
<1>9. order' \in Seq(Objects) /\ OrderOK'
  <2>1. /\ order' \in Seq(Objects) /\ ToSet(order') = ToSet(order) \ DueObjects
        /\ IsInjective(order')
    BY <1>3, <1>8, WithoutElements
  <2>2. ToSet(order') = {x \in Objects : InList(x)'}  BY <1>4, <1>7, <1>8, <2>1
  <2> QED  BY <2>1, <2>2 DEF OrderOK
<1>10. \A x \in Objects : InList(x)' => condition'[x] <= now' + links'.list[x]
  BY <1>3, <1>5, <1>7 DEF Core
<1>11. waitTimeout' \in Nat /\ NoOversleep'
  <2>1. /\ HeadsTimeout \in Nat
        /\ \A o \in Objects : CutDue.list[o] # NoList => HeadsTimeout <= condition[o]
    BY <1>2, HeadsTimeoutIs
  <2> QED  BY <1>3, <2>1 DEF NoOversleep, InList
<1>12. batch' \in Seq([object : Objects, list : Periods])
  <2> DEFINE due == Only(order, DueObjects)
  <2>1. due \in Seq(Objects) /\ ToSet(due) = ToSet(order) \intersect DueObjects
    BY <1>8, OnlyElements
  <2>2. batch' = [i \in DOMAIN due |-> [object |-> due[i], list |-> links.list[due[i]]]]
    BY <1>3 DEF Taken
  <2> HIDE DEF due
  <2>3. DOMAIN due = 1 .. Len(due) /\ Len(due) \in Nat  BY <2>1, LenProperties
  <2>4. \A i \in DOMAIN due : due[i] \in Objects /\ links.list[due[i]] \in Periods
    <3> TAKE i \in DOMAIN due
    <3>1. due[i] \in ToSet(due)  BY DEF ToSet
    <3>2. due[i] \in Objects /\ links.list[due[i]] # NoList
      BY <1>4, <2>1, <3>1 DEF Due, InList
    <3> QED  BY <1>1, <3>2, PlaceInList
  <2>5. \A i \in 1 .. Len(due) : [object |-> due[i], list |-> links.list[due[i]]]
                                   \in [object : Objects, list : Periods]
    BY <2>3, <2>4
  <2>6. batch' = [i \in 1 .. Len(due) |-> [object |-> due[i], list |-> links.list[due[i]]]]
    BY <2>2, <2>3
  <2> QED  BY <2>3, <2>5, <2>6, IsASeq
<1>13. now' \in 0 .. Horizon /\ condition' \in [Objects -> Nat]  BY <1>3 DEF Core
<1> QED  BY <1>6, <1>9, <1>10, <1>11, <1>12, <1>13 DEF Core

LEMMA SameCore ==
  ASSUME Core, UNCHANGED <<links, condition, order, waitTimeout>>,
         now' \in 0 .. Horizon, now <= now'
  PROVE  Core'
<1>1. \A o \in Objects : InList(o)' <=> InList(o)  BY DEF InList
<1>2. \A o \in Objects : InList(o)' => condition'[o] <= now' + links'.list[o]
  <2> SUFFICES ASSUME NEW o \in Objects, InList(o) PROVE condition[o] <= now' + links.list[o]
    BY <1>1
  <2>1. PICK Q : Lists(links, Q)  BY DEF Core
  <2>2. links.list[o] \in Periods  BY <2>1, PlaceInList DEF InList
  <2>3. condition[o] \in Nat /\ condition[o] <= now + links.list[o]  BY DEF Core
  <2>4. now \in 0 .. Horizon /\ Periods \subseteq Nat /\ Horizon \in Nat
    BY TimerAssumption DEF Core
  <2>5. links.list[o] \in Nat  BY <2>2, <2>4
  <2>6. now \in Nat /\ now' \in Nat
    <3>1. \A n \in 0 .. Horizon : n \in Nat  BY <2>4
    <3> QED  BY <2>4, <3>1
  <2>7. \A a, b, d, n \in Nat : a <= n + d /\ n <= b => a <= b + d  OBVIOUS
  <2> QED  BY <2>3, <2>5, <2>6, <2>7
<1>3. OrderOK' /\ NoOversleep'  BY <1>1 DEF Core, OrderOK, NoOversleep
<1> QED  BY <1>2, <1>3 DEF Core

LEMMA StepTimerIInv == TimerIInv /\ [TimerNext]_timerVars => TimerIInv'
<1> SUFFICES ASSUME TimerIInv, [TimerNext]_timerVars PROVE TimerIInv'
  OBVIOUS
<1> DEFINE Batches == Seq([object : Objects, list : Periods])
<1>1. Core /\ batch \in Batches  BY DEF TimerIInv
<1>2. now \in 0 .. Horizon /\ now \in Nat  BY TimerAssumption DEF TimerIInv, Core
<1>3. ASSUME batch # <<>> PROVE Tail(batch) \in Batches /\ Head(batch).object \in Objects
  <2>1. Tail(batch) \in Batches /\ Head(batch) \in [object : Objects, list : Periods]
    BY <1>1, <1>3, HeadTailProperties
  <2> QED  BY <2>1
<1> HIDE DEF Batches
<1>4. ASSUME NEW o \in Objects, ClearTimer(o) PROVE TimerIInv'
  <2>1. batch' = batch  BY <1>4 DEF ClearTimer
  <2> QED  BY <1>1, <1>4, <2>1, ClearStep DEF TimerIInv, Batches
<1>5. ASSUME NEW o \in Objects, NEW c \in Periods, SetTimer(o, c) PROVE TimerIInv'
  <2>1. batch' = batch /\ now' = now /\ Arm(o, c)  BY <1>5 DEF SetTimer
  <2> QED  BY <1>1, <2>1, ArmStep DEF TimerIInv, Batches
<1>6. CASE Update  BY <1>1, <1>6, UpdateStep DEF TimerIInv
<1>7. ASSUME NEW r \in Periods, ReturnPeriod(r) PROVE TimerIInv'
  <2>1. batch # <<>> /\ batch' = Tail(batch) /\ now' = now  BY <1>7 DEF ReturnPeriod
  <2>2. CASE links.list[Head(batch).object] = NoList
    <3>1. Arm(Head(batch).object, r)  BY <1>7, <2>2 DEF ReturnPeriod
    <3> QED  BY <1>1, <1>3, <2>1, <3>1, ArmStep DEF TimerIInv, Batches
  <2>3. CASE links.list[Head(batch).object] # NoList
    <3>1. UNCHANGED <<links, condition, order, waitTimeout>>
      BY <1>7, <2>3 DEF ReturnPeriod
    <3> QED  BY <1>1, <1>2, <1>3, <2>1, <3>1, SameCore DEF TimerIInv, Batches
  <2> QED  BY <2>2, <2>3
<1>8. CASE ReturnNone
  <2>1. /\ batch # <<>> /\ batch' = Tail(batch) /\ now' = now
        /\ UNCHANGED <<links, condition, order, waitTimeout>>
    BY <1>8 DEF ReturnNone
  <2> QED  BY <1>1, <1>2, <1>3, <2>1, SameCore DEF TimerIInv, Batches
<1>9. CASE Tick
  <2>1. /\ now < Horizon /\ now' = now + 1 /\ batch' = batch
        /\ UNCHANGED <<links, condition, order, waitTimeout>>
    BY <1>9 DEF Tick
  <2>2. now' \in 0 .. Horizon /\ now <= now'  BY <1>2, <2>1, TimerAssumption
  <2> QED  BY <1>1, <2>1, <2>2, SameCore DEF TimerIInv, Batches
<1>10. CASE UNCHANGED timerVars
  <2>1. /\ now' = now /\ batch' = batch
        /\ UNCHANGED <<links, condition, order, waitTimeout>>
    BY <1>10 DEF timerVars
  <2> QED  BY <1>1, <1>2, <2>1, SameCore DEF TimerIInv, Batches
<1> QED  BY <1>4, <1>5, <1>6, <1>7, <1>8, <1>9, <1>10 DEF TimerNext, CallbackReturns

\* The inductive invariant holds in every reachable state of the timers: whatever the
\* order of timerAdd, timerRemove and update, also from inside a callback.
THEOREM TimerInvariant == TimerSpec => []TimerIInv
<1>1. TimerInit => TimerIInv  BY InitCore
<1>2. TimerIInv /\ [TimerNext]_timerVars => TimerIInv'  BY StepTimerIInv
<1> QED  BY <1>1, <1>2, PTL DEF TimerSpec

\* The lists of the timers are lists, sorted by the time their objects are due, and
\* TimerObject::m_index orders exactly the armed objects.
THEOREM ListsHold == TimerSpec => []ListsInv
<1>1. TimerIInv => ListsInv  BY TimerIInvImplies
<1> QED  BY <1>1, TimerInvariant, PTL

\* The thread does not sleep past an armed timer (Timer::getWaitTimeout).
THEOREM NeverOversleeps == TimerSpec => []NoOversleep
<1>1. TimerIInv => NoOversleep  BY TimerIInvImplies
<1> QED  BY <1>1, TimerInvariant, PTL

\* Timer::update takes every timer that is due, and calls them in the order of arming.
THEOREM TakesDue == TimerSpec => TakesDueInOrder
<1> DEFINE Step == batch = <<>> /\ batch' # <<>> =>
                     [i \in DOMAIN batch' |-> batch'[i].object]
                       = Only(order, {o \in Objects : Due(o)})
<1>1. ASSUME TimerIInv, [TimerNext]_timerVars, batch = <<>>, batch' # <<>>
      PROVE  [i \in DOMAIN batch' |-> batch'[i].object] = Only(order, {o \in Objects : Due(o)})
  <2>1. Update
    <3>1. ~ CallbackReturns
      <4>1. ~ ReturnNone  BY <1>1 DEF ReturnNone
      <4>2. \A r \in Periods : ~ ReturnPeriod(r)  BY <1>1 DEF ReturnPeriod
      <4> QED  BY <4>1, <4>2 DEF CallbackReturns
    <3>2. ~ Tick /\ ~ UNCHANGED timerVars  BY <1>1 DEF Tick, timerVars
    <3>3. \A o \in Objects : ~ ClearTimer(o) /\ \A c \in Periods : ~ SetTimer(o, c)
      BY <1>1 DEF ClearTimer, SetTimer
    <3> QED  BY <1>1, <3>1, <3>2, <3>3 DEF TimerNext
  <2>2. PICK Q : Lists(links, Q) /\ \A d \in Periods : SortedBy(condition, Q[d])
    BY <1>1 DEF TimerIInv, Core
  <2>3. Ordered(Q)  BY <1>1, <2>2, CoreOrdered DEF TimerIInv, Core
  <2>4. DueObjects = {o \in Objects : Due(o)}  BY <2>3, DueObjectsAreDue
  <2> DEFINE due == Only(order, DueObjects)
  <2>5. batch' = [i \in DOMAIN due |-> [object |-> due[i], list |-> links.list[due[i]]]]
    BY <2>1 DEF Update, Taken
  <2>6. due \in Seq(Objects)
    <3>1. order \in Seq(Objects)  BY <1>1 DEF TimerIInv, Core
    <3> QED  BY <3>1, OnlyElements
  <2> HIDE DEF due
  <2>7. [i \in DOMAIN batch' |-> batch'[i].object] = [i \in DOMAIN due |-> due[i]]
    BY <2>5
  <2>8. due = [i \in DOMAIN due |-> due[i]]  BY <2>6
  <2> QED  BY <2>4, <2>7, <2>8 DEF due
<1>2. TimerIInv /\ [TimerNext]_timerVars => [Step]_timerVars  BY <1>1
<1> QED  BY <1>2, TimerInvariant, PTL DEF TimerSpec, TakesDueInOrder

-----------------------------------------------------------------------------
(***************************************************************************)
(* Sequences                                                               *)
(***************************************************************************)

\* What is left of q from position n on
LEMMA RestOfSeq ==
    ASSUME NEW S, NEW q \in Seq(S), NEW n \in Nat \ {0}
    PROVE  /\ SubSeq(q, n, Len(q)) \in Seq(S)
           /\ n > Len(q) => SubSeq(q, n, Len(q)) = <<>>
           /\ n = 1 => SubSeq(q, n, Len(q)) = q
<1>1. Len(q) \in Nat /\ DOMAIN q = 1 .. Len(q)
  BY LenProperties
<1>2. \A i \in n .. Len(q) : q[i] \in S
  BY <1>1, ElementOfSeq
<1>3. SubSeq(q, n, Len(q)) \in Seq(S)
  BY <1>1, <1>2, SubSeqProperties
<1>4. n > Len(q) => SubSeq(q, n, Len(q)) = <<>>
  BY <1>1, SubSeqEmpty
<1>5. n = 1 => SubSeq(q, n, Len(q)) = q
  BY SubSeqFull
<1> QED BY <1>3, <1>4, <1>5

\* The first of what is left of q, followed by r
LEMMA HeadOfRest ==
    ASSUME NEW S, NEW q \in Seq(S), NEW r \in Seq(S), NEW n \in 1 .. Len(q)
    PROVE  LET rest == SubSeq(q, n, Len(q)) \o r IN
           /\ rest # <<>>
           /\ Head(rest) = q[n]
           /\ Tail(rest) = SubSeq(q, n + 1, Len(q)) \o r
<1> DEFINE s == SubSeq(q, n + 1, Len(q))
           e == q[n]
<1>1. Len(q) \in Nat /\ n \in Nat \ {0} /\ e \in S
  BY LenProperties, ElementOfSeq
<1>2. s \in Seq(S)
  BY <1>1, RestOfSeq
<1>3. SubSeq(q, n, Len(q)) = <<e>> \o s
  BY <1>1, SubSeqRecursiveFirst
<1>4. <<e>> \in Seq(S) /\ s \o r \in Seq(S)
  BY <1>1, <1>2, ConcatProperties
<1> HIDE DEF s, e
<1>5. SubSeq(q, n, Len(q)) \o r = <<e>> \o (s \o r)
  <2>1. (<<e>> \o s) \o r = <<e>> \o (s \o r)
    BY <1>2, <1>4, ConcatAssociative
  <2> QED BY <1>3, <2>1
<1>6. <<e>> \o (s \o r) # <<>> /\ Head(<<e>> \o (s \o r)) = e
  BY <1>1, <1>4, ConcatProperties
<1>7. Tail(<<e>> \o (s \o r)) = s \o r
  <2> DEFINE u == s \o r
             v == <<e>> \o u
  <2>1. v \in Seq(S) /\ Len(v) = 1 + Len(u) /\ Len(u) \in Nat
    BY <1>4, ConcatProperties, LenProperties
  <2>2. \A i \in 1 .. Len(u) : v[i + 1] = u[i]
    BY <2>1, <1>4, ConcatProperties
  <2>3. v # <<>> BY <1>6
  <2>4. Tail(v) \in Seq(S) /\ Len(Tail(v)) = Len(u)
    BY <2>1, <2>3, HeadTailProperties
  <2>5. \A i \in 1 .. Len(u) : Tail(v)[i] = u[i]
    BY <2>1, <2>2, <2>3, <2>4, HeadTailProperties
  <2> HIDE DEF u, v
  <2>6. u \in Seq(S) BY <1>4 DEF u
  <2>7. Tail(v) = u
    BY <2>4, <2>5, <2>6, SeqEqual
  <2> QED BY <2>7 DEF u, v
<1> QED BY <1>5, <1>6, <1>7 DEF s, e

-----------------------------------------------------------------------------
(***************************************************************************)
(* The inductive invariant                                                 *)
(***************************************************************************)

LEMMA InitIInv == Init => IInv
<1> SUFFICES ASSUME Init PROVE IInv
  OBVIOUS
<1>1. TypeOK
  <2>1. <<>> \in Seq(Tasks)
    OBVIOUS
  <2>2. ready \in BOOLEAN
    BY DEF Init
  <2>3. next \in Nat \ {0} /\ counter \in Nat
    BY DEF Init
  <2> QED BY <2>1, <2>2, <2>3 DEF Init, TypeOK
<1>2. BatchOK /\ Signalled /\ Armed
  BY DEF Init, BatchOK, Signalled, Armed
<1> QED BY <1>1, <1>2 DEF IInv

LEMMA FreeIsTask == Free \subseteq Tasks
BY DEF Free

\* Every step preserves the invariant: only a swap empties the queue, and only
\* a read, which leads to a swap, clears the counter.
LEMMA NextIInv == IInv /\ [Next]_vars => IInv'
<1> SUFFICES ASSUME IInv, [Next]_vars PROVE IInv'
  OBVIOUS
<1> USE DEF IInv, TypeOK, BatchOK, Signalled, Armed
<1>1. ASSUME NEW th \in Threads, NEW t \in Free, AcceptTask(th, t) PROVE IInv'
  <2>1. taskQueue' \in Seq(Tasks)
    BY <1>1, FreeIsTask, AppendProperties DEF AcceptTask
  <2>2. writing' # {}
    BY <1>1 DEF AcceptTask
  <2> QED BY <1>1, <2>1, <2>2 DEF AcceptTask
<1>2. ASSUME NEW th \in Threads, Activate(th) PROVE IInv'
  BY <1>2 DEF Activate
<1>3. CASE EpollWait
  BY <1>3 DEF EpollWait
<1>4. CASE ReadEvent
  BY <1>4 DEF ReadEvent
<1>5. CASE ReadInterrupted
  BY <1>5 DEF ReadInterrupted
<1>6. CASE SwapQueues
  <2>1. tempQueue = <<>> /\ taskQueue' = <<>> /\ tempQueue' = taskQueue
    BY <1>6 DEF SwapQueues
  <2>2. Len(taskQueue) \in Nat
    BY LenProperties
  <2> QED BY <1>6, <2>1, <2>2 DEF SwapQueues
<1>7. CASE StartTask
  BY <1>7 DEF StartTask
<1>8. CASE EndTask
  BY <1>8, LenProperties DEF EndTask
<1>9. CASE ClearQueue
  BY <1>9 DEF ClearQueue
<1>10. CASE Rearm
  BY <1>10 DEF Rearm
<1>11. CASE UNCHANGED vars
  BY <1>11 DEF vars
<1> QED BY <1>1, <1>2, <1>3, <1>4, <1>5, <1>6, <1>7, <1>8, <1>9, <1>10, <1>11
        DEF Next, WorkerStep

\* The invariant holds in every reachable state of the mailbox.
THEOREM InductiveInvariant == Spec => []IInv
BY InitIInv, NextIInv, PTL DEF Spec

\* A worker of any program that posts like acceptTask never sleeps on a task.
THEOREM WorkerIsAwake == Spec => []NoLostWakeup
<1>1. IInv => NoLostWakeup
  BY DEF IInv, Signalled, Armed, NoLostWakeup
<1> QED BY <1>1, InductiveInvariant, PTL

-----------------------------------------------------------------------------
(***************************************************************************)
(* The refinement                                                          *)
(***************************************************************************)

LEMMA InitMailbox == Init => Mailbox!Init
<1> SUFFICES ASSUME Init PROVE Mailbox!Init
  OBVIOUS
<1>1. Pending = <<>>
  BY EmptySeq, SubSeqEmpty, ConcatEmptySeq, RestOfSeq DEF Init, Pending
<1>2. Running = NoTask
  BY DEF Init, Running
<1> QED BY <1>1, <1>2 DEF Mailbox!Init

\* A step of the worker that moves tasks between its queues changes neither.
LEMMA StepMailbox == IInv /\ [Next]_vars => [Mailbox!Next]_(Mailbox!vars)
<1> SUFFICES ASSUME IInv, [Next]_vars PROVE [Mailbox!Next]_(Mailbox!vars)
  OBVIOUS
<1> USE DEF IInv, TypeOK
<1>0. /\ Len(tempQueue) \in Nat
      /\ next \in Nat \ {0} /\ next + 1 \in Nat \ {0}
      /\ tempQueue \in Seq(Tasks) /\ taskQueue \in Seq(Tasks)
  BY LenProperties
<1>s. ASSUME Pending' = Pending, Running' = Running
      PROVE  [Mailbox!Next]_(Mailbox!vars)
  BY <1>s DEF Mailbox!vars
<1>1. ASSUME NEW th \in Threads, NEW t \in Free, AcceptTask(th, t)
      PROVE  [Mailbox!Next]_(Mailbox!vars)
  <2> DEFINE rest == SubSeq(tempQueue, IF pc = "exec" THEN next + 1 ELSE next, Len(tempQueue))
  <2>1. rest \in Seq(Tasks)
    BY <1>0, RestOfSeq
  <2>2. t \in Tasks BY FreeIsTask
  <2>3. Pending' = rest \o Append(taskQueue, t) /\ Pending = rest \o taskQueue
    BY <1>1 DEF AcceptTask, Pending
  <2>4. Running' = Running
    BY <1>1 DEF AcceptTask, Running
  <2> HIDE DEF rest
  <2>5. rest \o Append(taskQueue, t) = Append(rest \o taskQueue, t)
    BY <1>0, <2>1, <2>2, AppendIsConcat, ConcatAssociative, ConcatProperties
  <2>6. Mailbox!Post(Self, t)
    BY <2>3, <2>4, <2>5 DEF Mailbox!Post
  <2> QED BY <2>2, <2>6 DEF Mailbox!Next
<1>2. ASSUME NEW th \in Threads, Activate(th) PROVE [Mailbox!Next]_(Mailbox!vars)
  BY <1>2, <1>s DEF Activate, Pending, Running
<1>3. CASE EpollWait
  BY <1>3, <1>s DEF EpollWait, Pending, Running
<1>4. CASE ReadEvent
  BY <1>4, <1>s DEF ReadEvent, Pending, Running
<1>5. CASE ReadInterrupted
  BY <1>5, <1>s DEF ReadInterrupted, Pending, Running
<1>6. CASE SwapQueues
  <2>1. /\ tempQueue = <<>> /\ next = 1 /\ taskQueue' = <<>>
        /\ tempQueue' = taskQueue /\ next' = 1
        /\ pc = "swap" /\ pc' = "run"
    BY <1>6 DEF SwapQueues, BatchOK
  <2>2. Pending = taskQueue
    BY <1>0, <2>1, RestOfSeq, ConcatEmptySeq DEF Pending
  <2>3. Pending' = taskQueue
    BY <1>0, <2>1, RestOfSeq, ConcatEmptySeq DEF Pending
  <2>4. Running' = Running
    BY <2>1 DEF Running
  <2> QED BY <1>s, <2>2, <2>3, <2>4
<1>7. CASE StartTask
  <2>1. /\ pc = "run" /\ pc' = "exec" /\ next \in 1 .. Len(tempQueue)
        /\ UNCHANGED <<taskQueue, tempQueue, next>>
    BY <1>0, <1>7 DEF StartTask
  <2>2. Pending # <<>> /\ Head(Pending) = tempQueue[next] /\ Pending' = Tail(Pending)
    BY <1>0, <2>1, HeadOfRest DEF Pending
  <2>3. Running = NoTask /\ Running' = tempQueue[next]
    BY <2>1 DEF Running
  <2>4. Mailbox!Start(Self)
    BY <2>2, <2>3 DEF Mailbox!Start
  <2> QED BY <2>4 DEF Mailbox!Next
<1>8. CASE EndTask
  <2>1. /\ pc = "exec" /\ pc' = "run" /\ next \in 1 .. Len(tempQueue)
        /\ next' = next + 1 /\ UNCHANGED <<taskQueue, tempQueue>>
    BY <1>0, <1>8 DEF EndTask, BatchOK
  <2>2. Pending' = Pending
    BY <2>1 DEF Pending
  <2>3. Running # NoTask /\ Running' = NoTask
    BY <1>0, <2>1, ElementOfSeq, ActiveWorkerAssumption DEF Running
  <2>4. Mailbox!Complete(Self)
    BY <2>2, <2>3 DEF Mailbox!Complete
  <2> QED BY <2>4 DEF Mailbox!Next
<1>9. CASE ClearQueue
  <2>1. /\ pc = "run" /\ pc' = "rearm" /\ next > Len(tempQueue)
        /\ tempQueue' = <<>> /\ next' = 1 /\ taskQueue' = taskQueue
    BY <1>9 DEF ClearQueue
  <2>2. Pending = taskQueue
    BY <1>0, <2>1, RestOfSeq, ConcatEmptySeq DEF Pending
  <2>3. Pending' = taskQueue
    BY <1>0, <2>1, EmptySeq, RestOfSeq, ConcatEmptySeq DEF Pending
  <2>4. Running' = Running
    BY <2>1 DEF Running
  <2> QED BY <1>s, <2>2, <2>3, <2>4
<1>10. CASE Rearm
  BY <1>10, <1>s DEF Rearm, Pending, Running
<1>11. CASE UNCHANGED vars
  BY <1>11, <1>s DEF vars, Pending, Running
<1> QED BY <1>1, <1>2, <1>3, <1>4, <1>5, <1>6, <1>7, <1>8, <1>9, <1>10, <1>11
        DEF Next, WorkerStep

\* Two queues, a lock, an edge-triggered eventfd and any number of posters
\* implement one serial FIFO mailbox.
THEOREM MailboxImplemented == Spec => ImplementsMailbox
BY InitMailbox, InductiveInvariant, StepMailbox, PTL DEF Spec, ImplementsMailbox, Mailbox!Spec

-----------------------------------------------------------------------------
(***************************************************************************)
(* The http client: m_index orders armed timers, and batches (MultiCurl).  *)
(***************************************************************************)

\* Behind the MultiCurl no object of U
BehindMulti(q, U) == \A i, j \in DOMAIN q : i < j /\ q[i] = Multi => q[j] \notin U

LEMMA SelectionBehind ==
  ASSUME NEW A, NEW q \in Seq(A), NEW S, NEW U, BehindMulti(q, U)
  PROVE  BehindMulti(Only(q, S), U)
<1>1. PICK r \in Seq(A) : r = Only(q, S)  BY OnlySelects
<1>2. PICK e : Embeds(q, S, Len(q), r, e)  BY <1>1, OnlySelects
<1>3. /\ DOMAIN q = 1 .. Len(q) /\ DOMAIN r = 1 .. Len(r)
      /\ Len(q) \in Nat /\ Len(r) \in Nat
  BY LenProperties
<1>4. \A i \in DOMAIN r : e[i] \in DOMAIN q /\ r[i] = q[e[i]]
  BY <1>2, <1>3 DEF Embeds
<1>5. \A i, j \in DOMAIN r : i < j => e[i] < e[j]  BY <1>2, <1>3 DEF Embeds
<1> QED  BY <1>1, <1>4, <1>5 DEF BehindMulti

LEMMA AppendBehind ==
  ASSUME NEW A, NEW q \in Seq(A), NEW a \in A, NEW U, BehindMulti(q, U),
         a \notin U \/ Multi \notin ToSet(q)
  PROVE  BehindMulti(Append(q, a), U)
<1>1. PICK r \in Seq(A) : r = Append(q, a)  BY AppendProperties
<1>2. /\ DOMAIN q = 1 .. Len(q) /\ DOMAIN r = 1 .. Len(q) + 1 /\ Len(q) \in Nat
      /\ \A i \in 1 .. Len(q) : r[i] = q[i]
      /\ r[Len(q) + 1] = a
  BY <1>1, AppendProperties, LenProperties
<1>3. SUFFICES ASSUME NEW i \in DOMAIN r, NEW j \in DOMAIN r, i < j, r[i] = Multi
               PROVE  r[j] \notin U
  BY <1>1 DEF BehindMulti
<1>4. i \in DOMAIN q /\ q[i] = Multi  BY <1>2, <1>3
<1>5. CASE j \in DOMAIN q  BY <1>2, <1>3, <1>4, <1>5 DEF BehindMulti
<1>6. CASE j = Len(q) + 1  BY <1>2, <1>4, <1>6 DEF ToSet
<1> QED  BY <1>2, <1>5, <1>6

\* Of two sets that agree on q
LEMMA BehindLess ==
  ASSUME NEW q, NEW U, NEW V, BehindMulti(q, U), ToSet(q) \intersect V \subseteq U
  PROVE  BehindMulti(q, V)
BY DEF BehindMulti, ToSet

\* The timers of the http client that may be armed when U are used and W have a request
ArmedOK(q, U, W) ==
  /\ q \in Seq(TimerObjects) /\ IsInjective(q)
  /\ ToSet(q) \ {Multi} \subseteq W
  /\ BehindMulti(q, U)

LEMMA DisarmOK ==
  ASSUME NEW q, NEW U, NEW W, ArmedOK(q, U, W), NEW o
  PROVE  ArmedOK(Disarm(q, o), U, W \ {o}) /\ ToSet(Disarm(q, o)) = ToSet(q) \ {o}
<1>1. q \in Seq(TimerObjects) /\ IsInjective(q)  BY DEF ArmedOK
<1> DEFINE r == Without(q, {o})
<1>2. r \in Seq(TimerObjects) /\ IsInjective(r) /\ ToSet(r) = ToSet(q) \ {o}
  BY <1>1, WithoutElements
<1>3. BehindMulti(r, U)
  <2>1. r = Only(q, ToSet(q) \ {o})  BY DEF Without
  <2> HIDE DEF r
  <2>2. BehindMulti(q, U)  BY DEF ArmedOK
  <2> QED  BY <1>1, <2>1, <2>2, SelectionBehind
<1>4. r = Disarm(q, o)  BY DEF Disarm
<1> HIDE DEF r
<1> QED  BY <1>2, <1>3, <1>4 DEF ArmedOK

LEMMA ArmLastOK ==
  ASSUME NEW q, NEW U, NEW W, ArmedOK(q, U, W), NEW o \in TimerObjects,
         o = Multi \/ o \in W \ U
  PROVE  ArmedOK(ArmLast(q, o), U, W) /\ ToSet(ArmLast(q, o)) = ToSet(q) \union {o}
<1>1. PICK r : r = Disarm(q, o)  OBVIOUS
<1>2. ArmedOK(r, U, W \ {o}) /\ ToSet(r) = ToSet(q) \ {o}  BY <1>1, DisarmOK
<1>3. r \in Seq(TimerObjects) /\ IsInjective(r) /\ BehindMulti(r, U)  BY <1>2 DEF ArmedOK
<1>4. o \notin ToSet(r)  BY <1>2
<1>5. PICK s : s = Append(r, o)  OBVIOUS
<1>6. s \in Seq(TimerObjects) /\ ToSet(s) = ToSet(r) \union {o} /\ IsInjective(s)
  BY <1>3, <1>4, <1>5, AppendElements
<1>7. BehindMulti(s, U)
  <2>1. o \notin U \/ Multi \notin ToSet(r)  BY <1>4
  <2> QED  BY <1>3, <1>5, <2>1, AppendBehind
<1>8. s = ArmLast(q, o)  BY <1>1, <1>5 DEF ArmLast
<1> QED  BY <1>2, <1>6, <1>7, <1>8 DEF ArmedOK

\* Behind the MultiCurl, armed last, there is nothing.
LEMMA MultiLast ==
  ASSUME NEW q, NEW U, NEW W, ArmedOK(q, U, W), NEW V
  PROVE  ArmedOK(ArmLast(q, Multi), V, W)
<1>1. PICK s : s = ArmLast(q, Multi)  OBVIOUS
<1>2. ArmedOK(s, U, W)  BY <1>1, ArmLastOK DEF TimerObjects
<1>3. PICK r : r = Disarm(q, Multi)  OBVIOUS
<1>4. r \in Seq(TimerObjects) /\ Multi \notin ToSet(r)
  <2>1. ArmedOK(r, U, W \ {Multi}) /\ ToSet(r) = ToSet(q) \ {Multi}
    BY <1>3, DisarmOK
  <2> QED  BY <2>1 DEF ArmedOK
<1>5. BehindMulti(r, V)  BY <1>4 DEF BehindMulti, ToSet
<1>6. BehindMulti(s, V)
  <2>1. s = Append(r, Multi) /\ Multi \in TimerObjects
    BY <1>1, <1>3 DEF ArmLast, TimerObjects
  <2> QED  BY <1>4, <1>5, <2>1, AppendBehind
<1> QED  BY <1>1, <1>2, <1>6 DEF ArmedOK

LEMMA ArmedLess ==
  ASSUME NEW q, NEW U, NEW W, ArmedOK(q, U, W), NEW V, NEW X,
         V \subseteq U, W \subseteq X
  PROVE  ArmedOK(q, V, X)
<1>1. BehindMulti(q, V)  BY BehindLess DEF ArmedOK
<1> QED  BY <1>1 DEF ArmedOK

\* A transfer starts on e, which need not have been in use.
LEMMA StartedOK ==
  ASSUME NEW q, NEW U, NEW W, ArmedOK(q, U, W), NEW e \in EasyCurls, NEW V
  PROVE  /\ ArmedOK(Started(q, e), V, W \union {e})
         /\ ToSet(Started(q, e)) = ToSet(q) \union {e, Multi}
<1>1. ArmedOK(q, {}, W \union {e})  BY ArmedLess
<1>2. PICK r : r = ArmLast(q, e)  OBVIOUS
<1>3. ArmedOK(r, {}, W \union {e}) /\ ToSet(r) = ToSet(q) \union {e}
  BY <1>1, <1>2, ArmLastOK DEF TimerObjects
<1>4. Started(q, e) = ArmLast(r, Multi)  BY <1>2 DEF Started
<1>5. ToSet(ArmLast(r, Multi)) = ToSet(r) \union {Multi}
  BY <1>3, ArmLastOK DEF TimerObjects
<1>6. ArmedOK(ArmLast(r, Multi), V, W \union {e})  BY <1>3, MultiLast
<1> QED  BY <1>3, <1>4, <1>5, <1>6

LEMMA CallbackOK ==
  ASSUME NEW q, NEW U, NEW W, ArmedOK(q, U, W), Multi \notin W,
         NEW r \in TimeoutCallbacks(q)
  PROVE  ArmedOK(r, U, W) /\ ToSet(r) \subseteq ToSet(q) \union {Multi}
<1>1. CASE r = q  BY <1>1
<1>2. CASE r = ArmLast(q, Multi)  BY <1>2, ArmLastOK DEF TimerObjects
<1>3. CASE r = Disarm(q, Multi)
  <2>1. W \ {Multi} = W  OBVIOUS
  <2> QED  BY <1>3, <2>1, DisarmOK
<1> QED  BY <1>1, <1>2, <1>3 DEF TimeoutCallbacks

-----------------------------------------------------------------------------
(***************************************************************************)
(* The http client: the pool, the requests and the inductive invariant.    *)
(***************************************************************************)

\* The part of Accounted that is about objects
CurlPoolOK ==
  /\ InLibcurl = used /\ used \subseteq WithRequest
  /\ IsInjective(idleObjects) /\ ToSet(idleObjects) = EasyCurls \ used
  /\ requestCount <= Cardinality(used)
  /\ Cardinality(used) + Cardinality(Stale) <= requestCount + failures

\* Stale objects are among the last that were given back: while requests are queued there
\* is none.
StaleOK ==
  /\ requestCount <= MaxPerform
  /\ \A i \in DOMAIN idleObjects :
        idleObjects[i] \in Stale => Len(idleObjects) - i + 1 <= MaxPerform - requestCount

\* The part of Accounted that is about requests
HoldersOK ==
  /\ \A d, e \in WithRequest : easy[d].req = easy[e].req => d = e
  /\ \A e \in WithRequest : easy[e].req \notin ToSet(requestQueue)
  /\ IsInjective(requestQueue)

Held == {easy[e].req : e \in WithRequest}
Open == Held \union ToSet(requestQueue)

\* Open requests have been sent, and have no answer.
AnswersOK ==
  /\ Open \subseteq sent
  /\ \A r \in Requests : answers[r] # <<>> => r \in sent \ Open
  /\ AnsweredOnce

Batched == [i \in DOMAIN dueBatch |-> dueBatch[i].object]

BatchedOK ==
  /\ IsInjective(Batched)
  /\ ToSet(armed) \intersect ToSet(Batched) \subseteq {Multi}
  /\ BehindMulti(Batched, used)
  /\ reading # "no" => dueBatch # <<>> /\ Head(dueBatch).object = Multi

CurlIInv ==
  /\ CurlTypeOK
  /\ CurlPoolOK /\ StaleOK /\ NoneWaitsInVain
  /\ HoldersOK /\ AnswersOK
  /\ ArmedOK(armed, used, WithRequest) /\ BatchedOK /\ LimitsAreOwn

LEMMA FrontOfSeq ==
  ASSUME NEW A, NEW q \in Seq(A), q # <<>>
  PROVE  /\ Front(q) \in Seq(A) /\ Len(Front(q)) = Len(q) - 1
         /\ \A i \in 1 .. Len(q) - 1 : Front(q)[i] = q[i]
         /\ q[Len(q)] \in A
         /\ IsInjective(q) => /\ IsInjective(Front(q))
                              /\ ToSet(Front(q)) = ToSet(q) \ {q[Len(q)]}
<1>1. Len(q) \in Nat \ {0} /\ DOMAIN q = 1 .. Len(q)  BY EmptySeq, LenProperties
<1>2. PICK n \in Nat : n = Len(q) - 1
  <2>1. Len(q) - 1 \in Nat  BY <1>1
  <2> QED  BY <2>1
<1>3. PICK r : r = SubSeq(q, 1, n)  OBVIOUS
<1>4. \A i \in 1 .. n : q[i] \in A  BY <1>1, <1>2, ElementOfSeq
<1>5. /\ r \in Seq(A) /\ Len(r) = IF 1 <= n THEN n - 1 + 1 ELSE 0
      /\ \A i \in 1 .. n - 1 + 1 : r[i] = q[1 + i - 1]
  BY <1>2, <1>3, <1>4, SubSeqProperties
<1>6. Len(r) = n  BY <1>2, <1>5
<1>7. \A i \in 1 .. n : r[i] = q[i]
  <2> TAKE i \in 1 .. n
  <2>1. i \in 1 .. n - 1 + 1 /\ 1 + i - 1 = i  BY <1>2
  <2> QED  BY <1>5, <2>1
<1>8. DOMAIN r = 1 .. n  BY <1>5, <1>6, LenProperties
<1>9. q[Len(q)] \in A  BY <1>1, ElementOfSeq
<1>10. r = Front(q)  BY <1>2, <1>3 DEF Front
<1>11. ASSUME IsInjective(q)
       PROVE  IsInjective(r) /\ ToSet(r) = ToSet(q) \ {q[Len(q)]}
  <2>1. \A i \in DOMAIN r : i \in DOMAIN q /\ i # Len(q)  BY <1>1, <1>2, <1>8
  <2>2. \A i \in DOMAIN q : i # Len(q) => i \in DOMAIN r  BY <1>1, <1>2, <1>8
  <2>3. Len(q) \in DOMAIN q  BY <1>1
  <2> QED  BY <1>7, <1>8, <1>11, <2>1, <2>2, <2>3 DEF IsInjective, ToSet
<1> QED  BY <1>2, <1>5, <1>6, <1>7, <1>9, <1>10, <1>11

EasyRecords == [req : Requests \union {None}, transfer : {"none", "running", "done"}]

\* One object gets another request, or another stand of its transfer.
LEMMA EasyChange ==
  ASSUME CurlTypeOK, NEW e \in EasyCurls, NEW v \in EasyRecords,
         easy' = [easy EXCEPT ![e] = v]
  PROVE  /\ easy' \in [EasyCurls -> EasyRecords]
         /\ easy'[e] = v /\ \A d \in EasyCurls \ {e} : easy'[d] = easy[d]
         /\ InLibcurl' = (InLibcurl \ {e}) \union (IF v.transfer # "none" THEN {e} ELSE {})
         /\ WithRequest' = (WithRequest \ {e}) \union (IF v.req # None THEN {e} ELSE {})
         /\ Stale' = (Stale \ {e}) \union
                        (IF v.req # None /\ v.transfer = "none" THEN {e} ELSE {})
<1>1. easy \in [EasyCurls -> EasyRecords]  BY DEF CurlTypeOK, EasyRecords
<1>2. easy' \in [EasyCurls -> EasyRecords]  BY <1>1
<1>3. easy'[e] = v /\ \A d \in EasyCurls \ {e} : easy'[d] = easy[d]  BY <1>1
<1>4. \A d \in EasyCurls :
         /\ easy[d].transfer \in {"none", "running", "done"}
         /\ easy'[d].transfer \in {"none", "running", "done"}
  BY <1>1, <1>2 DEF EasyRecords
<1>5. /\ InLibcurl = {d \in EasyCurls : easy[d].transfer # "none"}
      /\ InLibcurl' = {d \in EasyCurls : easy'[d].transfer # "none"}
  BY <1>4 DEF InLibcurl, InTransfer
<1>6. InLibcurl' = (InLibcurl \ {e}) \union (IF v.transfer # "none" THEN {e} ELSE {})
  BY <1>3, <1>5
<1>7. WithRequest' = (WithRequest \ {e}) \union (IF v.req # None THEN {e} ELSE {})
  BY <1>3 DEF WithRequest
<1>8. Stale' = (Stale \ {e}) \union
                  (IF v.req # None /\ v.transfer = "none" THEN {e} ELSE {})
  BY <1>3 DEF Stale, WithRequest
<1> QED  BY <1>2, <1>3, <1>6, <1>7, <1>8

\* What is counted is finite.
LEMMA CurlFinite ==
  ASSUME CurlTypeOK
  PROVE  /\ IsFiniteSet(used) /\ IsFiniteSet(Stale)
         /\ Cardinality(used) \in Nat /\ Cardinality(Stale) \in Nat
         /\ Cardinality(EasyCurls) \in Nat
         /\ requestCount \in Int /\ failures \in Nat
         /\ MaxPerform \in Nat /\ MaxFailures \in Nat
<1>1. IsFiniteSet(EasyCurls) /\ MaxPerform \in Nat /\ MaxFailures \in Nat
  BY CurlAssumption
<1>2. used \in SUBSET EasyCurls /\ Stale \in SUBSET EasyCurls
  BY DEF CurlTypeOK, Stale, WithRequest
<1>3. IsFiniteSet(used) /\ IsFiniteSet(Stale)  BY <1>1, <1>2, FS_Subset
<1>4. requestCount \in Int /\ failures \in Nat  BY <1>1 DEF CurlTypeOK
<1> QED  BY <1>1, <1>3, <1>4, FS_CardinalityType

\* Below the limit the pool has an object to give.
LEMMA PoolGives ==
  ASSUME CurlTypeOK, CurlPoolOK, requestCount < MaxPerform
  PROVE  idleObjects # <<>> /\ NextEasyCurl \in EasyCurls \ used
<1>1. idleObjects \in Seq(EasyCurls)  BY DEF CurlTypeOK
<1>2. idleObjects # <<>>
  <2> SUFFICES ASSUME idleObjects = <<>> PROVE FALSE
    OBVIOUS
  <2>1. ToSet(idleObjects) = {}  BY DEF ToSet
  <2>2. used = EasyCurls  BY <2>1 DEF CurlPoolOK, CurlTypeOK
  <2>3. Cardinality(EasyCurls) + Cardinality(Stale) <= requestCount + failures
    BY <2>2 DEF CurlPoolOK
  <2>4. Cardinality(EasyCurls) >= MaxPerform + MaxFailures  BY CurlAssumption
  <2>5. failures <= MaxFailures  BY CurlFinite DEF CurlTypeOK
  <2> QED  BY <2>3, <2>4, <2>5, CurlFinite
<1>3. Len(idleObjects) \in DOMAIN idleObjects
  BY <1>1, <1>2, EmptySeq, LenProperties
<1>4. NextEasyCurl \in ToSet(idleObjects)  BY <1>3 DEF NextEasyCurl, ToSet
<1> QED  BY <1>2, <1>4 DEF CurlPoolOK

LEMMA RequestNotNone ==
  ASSUME NEW r \in Requests
  PROVE  /\ r # None /\ TransferOf(r) \in EasyRecords /\ [Blank EXCEPT !.req = r] \in EasyRecords
         /\ TransferOf(r).req = r /\ TransferOf(r).transfer = "running"
         /\ [Blank EXCEPT !.req = r].req = r /\ [Blank EXCEPT !.req = r].transfer = "none"
         /\ Blank \in EasyRecords /\ Blank.req = None /\ Blank.transfer = "none"
BY CurlAssumption DEF EasyRecords, TransferOf, Blank

\* A transfer starts on e.
LEMMA EasyStarts ==
  ASSUME CurlTypeOK, NEW e \in EasyCurls, NEW r \in Requests,
         easy' = [easy EXCEPT ![e] = TransferOf(r)]
  PROVE  /\ easy' \in [EasyCurls -> EasyRecords]
         /\ easy'[e].req = r /\ \A d \in EasyCurls \ {e} : easy'[d] = easy[d]
         /\ InLibcurl' = InLibcurl \union {e} /\ WithRequest' = WithRequest \union {e}
         /\ Stale' = Stale \ {e}
<1>1. PICK v \in EasyRecords : /\ v = TransferOf(r) /\ v.req = r /\ v.req # None
                              /\ v.transfer = "running"
  BY RequestNotNone
<1>2. easy' = [easy EXCEPT ![e] = v]  BY <1>1
<1>3. /\ easy' \in [EasyCurls -> EasyRecords]
      /\ easy'[e] = v /\ \A d \in EasyCurls \ {e} : easy'[d] = easy[d]
      /\ InLibcurl' = (InLibcurl \ {e}) \union (IF v.transfer # "none" THEN {e} ELSE {})
      /\ WithRequest' = (WithRequest \ {e}) \union (IF v.req # None THEN {e} ELSE {})
      /\ Stale' = (Stale \ {e}) \union
                     (IF v.req # None /\ v.transfer = "none" THEN {e} ELSE {})
  BY <1>2, EasyChange
<1>4. v.transfer # "none"  BY <1>1
<1> QED  BY <1>1, <1>3, <1>4

\* While requests are queued no object is stale.
LEMMA QueuedNoneStale ==
  ASSUME CurlTypeOK, CurlPoolOK, StaleOK, NoneWaitsInVain, requestQueue # <<>>
  PROVE  WithRequest \subseteq used
<1> SUFFICES ASSUME NEW e \in WithRequest, e \notin used PROVE FALSE
  OBVIOUS
<1>1. e \in EasyCurls /\ e \notin InLibcurl  BY DEF WithRequest, CurlPoolOK
<1>2. e \in Stale
  <2>1. easy[e].transfer \in {"none", "running", "done"}  BY <1>1 DEF CurlTypeOK
  <2> QED  BY <1>1, <2>1 DEF Stale, InLibcurl, InTransfer
<1>3. PICK i \in DOMAIN idleObjects : idleObjects[i] = e
  BY <1>1 DEF CurlPoolOK, ToSet
<1>4. i \in 1 .. Len(idleObjects) /\ Len(idleObjects) \in Nat
  BY LenProperties DEF CurlTypeOK
<1>5. Len(idleObjects) - i + 1 <= MaxPerform - requestCount  BY <1>2, <1>3 DEF StaleOK
<1>6. requestCount >= MaxPerform  BY DEF NoneWaitsInVain
<1> QED  BY <1>4, <1>5, <1>6, CurlFinite

\* createEasyCurl takes the last object, and the transfer starts.
LEMMA PoolAccepts ==
  ASSUME CurlTypeOK, CurlPoolOK, StaleOK, requestCount < MaxPerform,
         NEW r \in Requests, easy' = [easy EXCEPT ![NextEasyCurl] = TransferOf(r)],
         used' = used \union {NextEasyCurl}, idleObjects' = Front(idleObjects),
         requestCount' = requestCount + 1, failures' = failures
  PROVE  /\ used' \subseteq EasyCurls /\ idleObjects' \in Seq(EasyCurls)
         /\ CurlPoolOK' /\ StaleOK'
<1>1. PICK e : e = NextEasyCurl  OBVIOUS
<1>2. e \in EasyCurls \ used /\ idleObjects # <<>>  BY <1>1, PoolGives
<1>3. /\ InLibcurl' = InLibcurl \union {e} /\ WithRequest' = WithRequest \union {e}
      /\ Stale' = Stale \ {e}
  <2>1. easy' = [easy EXCEPT ![e] = TransferOf(r)]  BY <1>1
  <2> QED  BY <1>2, <2>1, EasyStarts
<1>4. idleObjects \in Seq(EasyCurls)  BY DEF CurlTypeOK
<1>5. /\ idleObjects' \in Seq(EasyCurls) /\ Len(idleObjects') = Len(idleObjects) - 1
      /\ \A i \in 1 .. Len(idleObjects) - 1 : idleObjects'[i] = idleObjects[i]
      /\ IsInjective(idleObjects') /\ ToSet(idleObjects') = ToSet(idleObjects) \ {e}
  BY <1>1, <1>2, <1>4, FrontOfSeq DEF CurlPoolOK, NextEasyCurl
<1>6. used' = used \union {e}  BY <1>1
<1>7. Cardinality(used') = Cardinality(used) + 1  BY <1>2, <1>6, CurlFinite, FS_AddElement
<1>8. Cardinality(Stale') <= Cardinality(Stale) /\ Cardinality(Stale') \in Nat
  <2>1. Stale' \in SUBSET Stale  BY <1>3
  <2>2. IsFiniteSet(Stale') /\ Cardinality(Stale') <= Cardinality(Stale)
    BY <2>1, CurlFinite, FS_Subset
  <2> QED  BY <2>2, FS_CardinalityType
<1>9. CurlPoolOK'
  <2>1. InLibcurl' = used' /\ used' \subseteq WithRequest'  BY <1>3, <1>6 DEF CurlPoolOK
  <2>2. ToSet(idleObjects') = EasyCurls \ used'  BY <1>5, <1>6 DEF CurlPoolOK
  <2>3. requestCount' <= Cardinality(used')  BY <1>7, CurlFinite DEF CurlPoolOK
  <2>4. Cardinality(used') + Cardinality(Stale') <= requestCount' + failures'
    BY <1>7, <1>8, CurlFinite DEF CurlPoolOK
  <2> QED  BY <1>5, <2>1, <2>2, <2>3, <2>4 DEF CurlPoolOK
<1>10. StaleOK'
  <2>1. requestCount' <= MaxPerform  BY CurlFinite
  <2>2. ASSUME NEW i \in DOMAIN idleObjects', idleObjects'[i] \in Stale'
        PROVE  Len(idleObjects') - i + 1 <= MaxPerform - requestCount'
    <3>1. Len(idleObjects) \in Nat /\ DOMAIN idleObjects = 1 .. Len(idleObjects)
      BY <1>4, LenProperties
    <3>2. i \in 1 .. Len(idleObjects) - 1  BY <1>5, <2>2, LenProperties
    <3>3. i \in DOMAIN idleObjects /\ idleObjects[i] \in Stale
      BY <1>3, <1>5, <2>2, <3>1, <3>2
    <3>4. Len(idleObjects) - i + 1 <= MaxPerform - requestCount  BY <3>3 DEF StaleOK
    <3>5. i \in Nat  BY <3>1, <3>2
    <3>6. Len(idleObjects') = Len(idleObjects) - 1  BY <1>5
    <3>7. requestCount \in Int /\ MaxPerform \in Int /\ requestCount' = requestCount + 1
      BY CurlFinite
    <3>8. \A n \in Nat, k \in Nat, c \in Int, m \in Int :
             n - k + 1 <= m - c => (n - 1) - k + 1 <= m - (c + 1)
      OBVIOUS
    <3> QED  BY <3>1, <3>4, <3>5, <3>6, <3>7, <3>8
  <2> QED  BY <2>1, <2>2 DEF StaleOK
<1> QED  BY <1>2, <1>5, <1>6, <1>9, <1>10 DEF CurlTypeOK

\* The object of a request that fails to start stays in the pool.
LEMMA PoolFails ==
  ASSUME CurlTypeOK, CurlPoolOK, StaleOK, requestCount < MaxPerform,
         easy' = [easy EXCEPT ![NextEasyCurl] = Blank], UNCHANGED <<pool, requestCount>>,
         failures' = failures + 1
  PROVE  CurlPoolOK' /\ StaleOK'
<1>1. PICK e : e = NextEasyCurl  OBVIOUS
<1>2. e \in EasyCurls \ used  BY <1>1, PoolGives
<1>3. /\ InLibcurl' = InLibcurl \ {e} /\ WithRequest' = WithRequest \ {e}
      /\ Stale' = Stale \ {e}
  <2>1. Blank \in EasyRecords /\ Blank.req = None /\ Blank.transfer = "none"
    BY DEF Blank, EasyRecords
  <2>2. easy' = [easy EXCEPT ![e] = Blank]  BY <1>1
  <2>3. /\ InLibcurl' = (InLibcurl \ {e}) \union {}
        /\ WithRequest' = (WithRequest \ {e}) \union {}
        /\ Stale' = (Stale \ {e}) \union {}
    BY <1>2, <2>1, <2>2, EasyChange
  <2> QED  BY <2>3
<1>4. used' = used /\ idleObjects' = idleObjects /\ requestCount' = requestCount  BY DEF pool
<1>5. Cardinality(Stale') <= Cardinality(Stale) /\ Cardinality(Stale') \in Nat
  <2>1. Stale' \in SUBSET Stale  BY <1>3
  <2>2. IsFiniteSet(Stale') /\ Cardinality(Stale') <= Cardinality(Stale)
    BY <2>1, CurlFinite, FS_Subset
  <2> QED  BY <2>2, FS_CardinalityType
<1>6. Cardinality(used') + Cardinality(Stale') <= requestCount' + failures'
  BY <1>4, <1>5, CurlFinite DEF CurlPoolOK
<1>7. CurlPoolOK'  BY <1>2, <1>3, <1>4, <1>6 DEF CurlPoolOK
<1>8. StaleOK'  BY <1>3, <1>4 DEF StaleOK
<1> QED  BY <1>7, <1>8

\* The next request runs on the same object.
LEMMA PoolNext ==
  ASSUME CurlTypeOK, CurlPoolOK, StaleOK, NEW e \in used, NEW r \in Requests,
         easy' = [easy EXCEPT ![e] = TransferOf(r)], UNCHANGED <<pool, requestCount>>,
         failures' \in Nat, failures' >= failures
  PROVE  CurlPoolOK' /\ StaleOK'
<1>1. e \in EasyCurls  BY DEF CurlTypeOK
<1>2. /\ InLibcurl' = InLibcurl \union {e} /\ WithRequest' = WithRequest \union {e}
      /\ Stale' = Stale \ {e}
  BY <1>1, EasyStarts
<1>3. used' = used /\ idleObjects' = idleObjects /\ requestCount' = requestCount  BY DEF pool
<1>4. Cardinality(Stale') <= Cardinality(Stale) /\ Cardinality(Stale') \in Nat
  <2>1. Stale' \in SUBSET Stale  BY <1>2
  <2>2. IsFiniteSet(Stale') /\ Cardinality(Stale') <= Cardinality(Stale)
    BY <2>1, CurlFinite, FS_Subset
  <2> QED  BY <2>2, FS_CardinalityType
<1>5. Cardinality(used') + Cardinality(Stale') <= requestCount' + failures'
  BY <1>3, <1>4, CurlFinite DEF CurlPoolOK
<1>6. CurlPoolOK'  BY <1>2, <1>3, <1>5 DEF CurlPoolOK
<1>7. StaleOK'  BY <1>2, <1>3 DEF StaleOK
<1> QED  BY <1>6, <1>7

\* The transfer of e is taken from libcurl, or was never there.
LEMMA EasyStops ==
  ASSUME CurlTypeOK, NEW e \in EasyCurls, NEW v \in EasyRecords, v.transfer = "none",
         easy' = [easy EXCEPT ![e] = v]
  PROVE  /\ easy' \in [EasyCurls -> EasyRecords]
         /\ easy'[e] = v /\ \A d \in EasyCurls \ {e} : easy'[d] = easy[d]
         /\ InLibcurl' = InLibcurl \ {e}
         /\ v.req = None => WithRequest' = WithRequest \ {e} /\ Stale' = Stale \ {e}
         /\ v.req # None => WithRequest' = WithRequest \union {e} /\ Stale' = Stale \union {e}
<1>1. /\ easy' \in [EasyCurls -> EasyRecords]
      /\ easy'[e] = v /\ \A d \in EasyCurls \ {e} : easy'[d] = easy[d]
      /\ InLibcurl' = (InLibcurl \ {e}) \union (IF v.transfer # "none" THEN {e} ELSE {})
      /\ WithRequest' = (WithRequest \ {e}) \union (IF v.req # None THEN {e} ELSE {})
      /\ Stale' = (Stale \ {e}) \union
                     (IF v.req # None /\ v.transfer = "none" THEN {e} ELSE {})
  BY EasyChange
<1> QED  BY <1>1

\* The object goes back to the pool: a stale one was there.
LEMMA PoolLeaves ==
  ASSUME CurlTypeOK, CurlPoolOK, StaleOK, NEW e \in WithRequest,
         NEW v \in EasyRecords, v.transfer = "none", easy' = [easy EXCEPT ![e] = v],
         RemoveEasyCurl(e), requestCount' = requestCount - 1,
         failures' \in Nat, failures' >= failures, v.req # None => failures' >= failures + 1
  PROVE  /\ used' \subseteq EasyCurls /\ idleObjects' \in Seq(EasyCurls)
         /\ CurlPoolOK' /\ StaleOK' /\ used' = used \ {e}
<1>1. e \in EasyCurls /\ idleObjects \in Seq(EasyCurls) /\ used \subseteq EasyCurls
  BY DEF WithRequest, CurlTypeOK
<1>2. /\ InLibcurl' = InLibcurl \ {e}
      /\ v.req = None => WithRequest' = WithRequest \ {e} /\ Stale' = Stale \ {e}
      /\ v.req # None => WithRequest' = WithRequest \union {e} /\ Stale' = Stale \union {e}
  BY <1>1, EasyStops
<1>3. used' = used \ {e}
  <2>1. CASE e \in used  BY <2>1 DEF RemoveEasyCurl
  <2>2. CASE e \notin used
    <3>1. used' = used  BY <2>2 DEF RemoveEasyCurl, pool
    <3> QED  BY <2>2, <3>1
  <2> QED  BY <2>1, <2>2
<1>4. InLibcurl' = used' /\ used' \subseteq WithRequest'  BY <1>2, <1>3 DEF CurlPoolOK
<1>5. /\ IsFiniteSet(Stale \ {e}) /\ IsFiniteSet(Stale \union {e})
      /\ Cardinality(Stale \ {e}) = IF e \in Stale THEN Cardinality(Stale) - 1
                                    ELSE Cardinality(Stale)
      /\ Cardinality(Stale \union {e}) = IF e \in Stale THEN Cardinality(Stale)
                                         ELSE Cardinality(Stale) + 1
      /\ Cardinality(used \ {e}) = IF e \in used THEN Cardinality(used) - 1
                                   ELSE Cardinality(used)
  BY CurlFinite, FS_AddElement, FS_RemoveElement
<1>6. requestCount <= MaxPerform  BY DEF StaleOK
<1>7. CASE e \in used
  <2>1. idleObjects' = Append(idleObjects, e)  BY <1>7 DEF RemoveEasyCurl
  <2>2. e \notin ToSet(idleObjects)  BY <1>7 DEF CurlPoolOK
  <2>3. /\ idleObjects' \in Seq(EasyCurls) /\ IsInjective(idleObjects')
        /\ ToSet(idleObjects') = ToSet(idleObjects) \union {e}
    BY <1>1, <2>1, <2>2, AppendElements DEF CurlPoolOK
  <2>4. ToSet(idleObjects') = EasyCurls \ used'  BY <1>1, <1>3, <1>7, <2>3 DEF CurlPoolOK
  <2>5. e \notin Stale
    <3>1. e \in InLibcurl  BY <1>7 DEF CurlPoolOK
    <3> QED  BY <3>1 DEF Stale, InLibcurl, InTransfer
  <2>6. /\ Cardinality(used') = Cardinality(used) - 1
        /\ v.req = None => Cardinality(Stale') = Cardinality(Stale)
        /\ v.req # None => Cardinality(Stale') = Cardinality(Stale) + 1
    BY <1>2, <1>3, <1>5, <1>7, <2>5
  <2>7. /\ requestCount' <= Cardinality(used')
        /\ Cardinality(used') + Cardinality(Stale') <= requestCount' + failures'
    BY <2>6, CurlFinite DEF CurlPoolOK
  <2>8. CurlPoolOK'  BY <1>4, <2>3, <2>4, <2>7 DEF CurlPoolOK
  <2>9. requestCount' <= MaxPerform  BY <1>6, CurlFinite
  <2>10. ASSUME NEW i \in DOMAIN idleObjects', idleObjects'[i] \in Stale'
         PROVE  Len(idleObjects') - i + 1 <= MaxPerform - requestCount'
    <3>1. /\ Len(idleObjects) \in Nat /\ DOMAIN idleObjects = 1 .. Len(idleObjects)
          /\ Len(idleObjects') = Len(idleObjects) + 1
          /\ DOMAIN idleObjects' = 1 .. Len(idleObjects')
          /\ \A k \in 1 .. Len(idleObjects) : idleObjects'[k] = idleObjects[k]
      BY <1>1, <2>1, <2>3, LenProperties, AppendProperties
    <3>2. CASE i \in DOMAIN idleObjects
      <4>1. idleObjects[i] \in Stale
        <5>1. idleObjects[i] \in ToSet(idleObjects)  BY <3>2 DEF ToSet
        <5>2. idleObjects[i] # e /\ idleObjects[i] \in Stale'  BY <2>2, <2>10, <3>1, <3>2, <5>1
        <5> QED  BY <1>2, <5>2
      <4>2. Len(idleObjects) - i + 1 <= MaxPerform - requestCount  BY <3>2, <4>1 DEF StaleOK
      <4>3. i \in Nat  BY <3>1, <3>2
      <4>4. Len(idleObjects') = Len(idleObjects) + 1 /\ Len(idleObjects) \in Nat  BY <3>1
      <4>5. PICK n \in Nat : n = Len(idleObjects)  BY <4>4
      <4>6. requestCount \in Int /\ MaxPerform \in Nat  BY CurlFinite
      <4>7. n + 1 - i + 1 <= MaxPerform - (requestCount - 1)
        <5>1. n - i + 1 <= MaxPerform - requestCount  BY <4>2, <4>5
        <5> QED  BY <4>3, <4>6, <5>1
      <4> QED  BY <4>4, <4>5, <4>7
    <3>3. CASE i \notin DOMAIN idleObjects
      <4>1. i = Len(idleObjects) + 1  BY <3>1, <3>3
      <4>2. Len(idleObjects) \in Nat /\ Len(idleObjects') = Len(idleObjects) + 1  BY <3>1
      <4>3. Len(idleObjects') - i + 1 = 1  BY <4>1, <4>2
      <4> QED  BY <1>6, <4>3, CurlFinite
    <3> QED  BY <3>2, <3>3
  <2>11. StaleOK'  BY <2>9, <2>10 DEF StaleOK
  <2> QED  BY <1>1, <1>3, <2>3, <2>8, <2>11
<1>8. CASE e \notin used
  <2>1. idleObjects' = idleObjects /\ used' = used  BY <1>8 DEF RemoveEasyCurl, pool
  <2>2. e \in Stale
    <3>1. e \notin InLibcurl  BY <1>8 DEF CurlPoolOK
    <3>2. easy[e].transfer \in {"none", "running", "done"}  BY <1>1 DEF CurlTypeOK
    <3> QED  BY <1>1, <3>1, <3>2 DEF Stale, InLibcurl, InTransfer
  <2>3. /\ v.req = None => Cardinality(Stale') = Cardinality(Stale) - 1
        /\ v.req # None => Cardinality(Stale') = Cardinality(Stale)
        /\ Stale' \subseteq Stale
    BY <1>2, <1>5, <2>2
  <2>4. /\ requestCount' <= Cardinality(used')
        /\ Cardinality(used') + Cardinality(Stale') <= requestCount' + failures'
    BY <2>1, <2>3, CurlFinite DEF CurlPoolOK
  <2>5. CurlPoolOK'  BY <1>4, <2>1, <2>4 DEF CurlPoolOK
  <2>6. requestCount' <= MaxPerform  BY <1>6, CurlFinite
  <2>7. ASSUME NEW i \in DOMAIN idleObjects', idleObjects'[i] \in Stale'
        PROVE  Len(idleObjects') - i + 1 <= MaxPerform - requestCount'
    <3>1. i \in DOMAIN idleObjects /\ idleObjects[i] \in Stale  BY <2>1, <2>3, <2>7
    <3>2. Len(idleObjects) - i + 1 <= MaxPerform - requestCount  BY <3>1 DEF StaleOK
    <3>3. i \in Nat /\ Len(idleObjects) \in Nat  BY <1>1, <3>1, LenProperties
    <3>4. Len(idleObjects') = Len(idleObjects)  BY <2>1
    <3>5. requestCount' = requestCount - 1 /\ requestCount \in Int /\ MaxPerform \in Int
      BY CurlFinite
    <3>6. \A n, k \in Nat, r, m \in Int : n - k + 1 <= m - r => n - k + 1 <= m - (r - 1)
      OBVIOUS
    <3>7. Len(idleObjects) - i + 1 <= MaxPerform - (requestCount - 1)
      BY <3>2, <3>3, <3>5, <3>6
    <3> QED  BY <3>4, <3>5, <3>7
  <2>8. StaleOK'  BY <2>6, <2>7 DEF StaleOK
  <2> QED  BY <1>1, <1>3, <2>1, <2>5, <2>8
<1> QED  BY <1>7, <1>8

\* Nothing that counts changes.
LEMMA PoolSame ==
  ASSUME CurlPoolOK, StaleOK, UNCHANGED <<pool, requestCount, failures>>,
         InLibcurl' = InLibcurl, WithRequest' = WithRequest, Stale' = Stale
  PROVE  CurlPoolOK' /\ StaleOK'
<1>1. /\ used' = used /\ idleObjects' = idleObjects /\ requestCount' = requestCount
      /\ failures' = failures
  BY DEF pool
<1> QED  BY <1>1 DEF CurlPoolOK, StaleOK

\* One object loses its request or gets another, and some leave the queue.
LEMMA HoldersChange ==
  ASSUME HoldersOK, NEW e \in EasyCurls, NEW r, WithRequest' \subseteq WithRequest \union {e},
         \A d \in EasyCurls \ {e} : easy'[d] = easy[d],
         IsInjective(requestQueue'), ToSet(requestQueue') \subseteq ToSet(requestQueue),
         e \in WithRequest' => /\ easy'[e].req = r /\ r \notin ToSet(requestQueue')
                               /\ \A d \in WithRequest \ {e} : easy[d].req # r
  PROVE  /\ HoldersOK'
         /\ \A x \in Open' : \/ x \in Open /\ (e \in WithRequest => x # easy[e].req)
                             \/ e \in WithRequest' /\ x = r
<1>1. \A d \in WithRequest' : d # e => d \in WithRequest /\ easy'[d] = easy[d]
  BY DEF WithRequest
<1>2. \A d, f \in WithRequest' : easy'[d].req = easy'[f].req => d = f
  <2> SUFFICES ASSUME NEW d \in WithRequest', NEW f \in WithRequest',
                      easy'[d].req = easy'[f].req, d # f
               PROVE  FALSE
    OBVIOUS
  <2>1. CASE d # e /\ f # e  BY <1>1, <2>1 DEF HoldersOK
  <2>2. CASE d = e /\ f # e  BY <1>1, <2>2
  <2>3. CASE d # e /\ f = e  BY <1>1, <2>3
  <2> QED  BY <2>1, <2>2, <2>3
<1>3. \A d \in WithRequest' : easy'[d].req \notin ToSet(requestQueue')
  <2> TAKE d \in WithRequest'
  <2>1. CASE d = e  BY <2>1
  <2>2. CASE d # e
    <3>1. easy[d].req \notin ToSet(requestQueue)  BY <1>1, <2>2 DEF HoldersOK
    <3> QED  BY <1>1, <2>2, <3>1
  <2> QED  BY <2>1, <2>2
<1>4. ASSUME NEW x \in Open'
      PROVE  \/ x \in Open /\ (e \in WithRequest => x # easy[e].req)
             \/ e \in WithRequest' /\ x = r
  <2>1. CASE x \in ToSet(requestQueue')
    <3>1. x \in ToSet(requestQueue)  BY <2>1
    <3> QED  BY <3>1 DEF HoldersOK, Open
  <2>2. ASSUME NEW d \in WithRequest', x = easy'[d].req
        PROVE  \/ x \in Open /\ (e \in WithRequest => x # easy[e].req)
               \/ e \in WithRequest' /\ x = r
    <3>1. CASE d = e  BY <2>2, <3>1
    <3>2. CASE d # e
      <4>1. d \in WithRequest /\ x = easy[d].req  BY <1>1, <2>2, <3>2
      <4>2. x \in Open  BY <4>1 DEF Open, Held
      <4>3. e \in WithRequest => x # easy[e].req  BY <3>2, <4>1 DEF HoldersOK
      <4> QED  BY <4>2, <4>3
    <3> QED  BY <3>1, <3>2
  <2> QED  BY <2>1, <2>2 DEF Open, Held
<1> QED  BY <1>2, <1>3, <1>4 DEF HoldersOK

\* The queue without its first k + 1 requests
LEMMA RestOfQueue ==
  ASSUME NEW A, NEW q \in Seq(A), IsInjective(q), NEW k \in 0 .. Len(q) - 1
  PROVE  LET r == SubSeq(q, k + 2, Len(q)) IN
         /\ r \in Seq(A) /\ IsInjective(r) /\ ToSet(r) \subseteq ToSet(q)
         /\ q[k + 1] \in A /\ q[k + 1] \in ToSet(q) /\ q[k + 1] \notin ToSet(r)
<1>1. Len(q) \in Nat /\ DOMAIN q = 1 .. Len(q)  BY LenProperties
<1>2. k \in Nat /\ k + 1 \in 1 .. Len(q) /\ k + 2 \in Nat
  <2>1. k \in Nat /\ k <= Len(q) - 1  BY <1>1
  <2> QED  BY <1>1, <2>1
<1>3. PICK r : r = SubSeq(q, k + 2, Len(q))  OBVIOUS
<1>4. \A i \in k + 2 .. Len(q) : q[i] \in A
  <2> TAKE i \in k + 2 .. Len(q)
  <2>1. i \in 1 .. Len(q)  BY <1>1, <1>2
  <2> QED  BY <2>1, ElementOfSeq
<1>5. /\ r \in Seq(A) /\ Len(r) = IF k + 2 <= Len(q) THEN Len(q) - (k + 2) + 1 ELSE 0
      /\ \A i \in 1 .. Len(q) - (k + 2) + 1 : r[i] = q[k + 2 + i - 1]
  BY <1>1, <1>2, <1>3, <1>4, SubSeqProperties
<1>6. DOMAIN r = 1 .. Len(r) /\ Len(r) \in Nat  BY <1>5, LenProperties
<1>7. \A i \in DOMAIN r : r[i] = q[i + (k + 1)] /\ i + (k + 1) \in DOMAIN q
  <2> TAKE i \in DOMAIN r
  <2>1. i \in 1 .. Len(q) - (k + 2) + 1
    <3>1. PICK n \in Nat : n = Len(q)  BY <1>1
    <3>2. PICK l \in Nat : l = Len(r)  BY <1>6
    <3>3. i \in 1 .. l /\ l = IF k + 2 <= n THEN n - (k + 2) + 1 ELSE 0
      BY <1>5, <1>6, <3>1, <3>2
    <3>4. i \in 1 .. n - (k + 2) + 1  BY <1>2, <3>3
    <3> QED  BY <3>1, <3>4
  <2>2. r[i] = q[k + 2 + i - 1]  BY <1>5, <2>1
  <2>3. k + 2 + i - 1 = i + (k + 1) /\ i + (k + 1) \in 1 .. Len(q)  BY <1>1, <1>2, <2>1
  <2> QED  BY <1>1, <2>2, <2>3
<1>8. \A i \in DOMAIN r : i + (k + 1) # k + 1  BY <1>2, <1>6
<1>9. IsInjective(r)
  <2> SUFFICES ASSUME NEW i \in DOMAIN r, NEW j \in DOMAIN r, r[i] = r[j] PROVE i = j
    BY DEF IsInjective
  <2>1. i + (k + 1) = j + (k + 1)  BY <1>7 DEF IsInjective
  <2> QED  BY <1>2, <1>6, <2>1
<1>10. ToSet(r) \subseteq ToSet(q)  BY <1>7 DEF ToSet
<1>11. q[k + 1] \notin ToSet(r)
  <2> SUFFICES ASSUME NEW i \in DOMAIN r, r[i] = q[k + 1] PROVE FALSE
    BY DEF ToSet
  <2>1. k + 1 \in DOMAIN q  BY <1>1, <1>2
  <2>2. i + (k + 1) = k + 1  BY <1>7, <2>1 DEF IsInjective
  <2> QED  BY <1>8, <2>2
<1>12. q[k + 1] \in A /\ q[k + 1] \in ToSet(q)  BY <1>1, <1>2, ElementOfSeq DEF ToSet
<1> QED  BY <1>3, <1>5, <1>9, <1>10, <1>11, <1>12

\* No answer is made.
LEMMA AnswersKept ==
  ASSUME AnswersOK, answers' = answers, sent \subseteq sent',
         \A x \in Open' : x \in Open \/ x \in sent' \ sent
  PROVE  AnswersOK'
BY DEF AnswersOK, AnsweredOnce

Kinds == {"result", "timeout", "full"}

\* The first answer to r
LEMMA AnswersMade ==
  ASSUME CurlTypeOK, AnswersOK, NEW r \in Requests, answers[r] = <<>>, NEW kind \in Kinds,
         answers' = Answered(r, kind), r \in sent', sent \subseteq sent',
         \A x \in Open' : x # r /\ (x \in Open \/ x \in sent' \ sent)
  PROVE  AnswersOK' /\ answers' \in [Requests -> Seq(Kinds)]
<1>1. answers \in [Requests -> Seq(Kinds)]  BY DEF CurlTypeOK, Kinds
<1>2. PICK a : a = Append(<<>>, kind)  OBVIOUS
<1>3. a \in Seq(Kinds) /\ Len(a) = 1
  <2>1. <<>> \in Seq(Kinds) /\ Len(<<>>) = 0  BY EmptySeq
  <2> QED  BY <1>2, <2>1, AppendProperties
<1>4. answers' = IF r \in Silent THEN answers ELSE [answers EXCEPT ![r] = a]
  BY <1>1, <1>2 DEF Answered
<1>5. answers' \in [Requests -> Seq(Kinds)]  BY <1>1, <1>3, <1>4
<1>6. \A x \in Requests : x # r => answers'[x] = answers[x]  BY <1>1, <1>4
<1>7. answers'[r] = IF r \in Silent THEN <<>> ELSE a  BY <1>1, <1>4
<1>8. Open' \subseteq sent'
  <2>1. Open \subseteq sent  BY DEF AnswersOK
  <2> QED  BY <2>1
<1>9. \A x \in Requests : answers'[x] # <<>> => x \in sent' \ Open'
  <2> TAKE x \in Requests
  <2>1. CASE x = r  BY <2>1
  <2>2. CASE x # r  BY <1>6, <2>2 DEF AnswersOK
  <2> QED  BY <2>1, <2>2
<1>10. AnsweredOnce'
  <2> SUFFICES ASSUME NEW x \in Requests
               PROVE  Len(answers'[x]) <= IF x \in Silent THEN 0 ELSE 1
    BY DEF AnsweredOnce
  <2>1. CASE x = r
    <3>1. CASE r \in Silent
      <4>1. answers'[x] = answers[x]  BY <1>4, <3>1
      <4> QED  BY <4>1 DEF AnswersOK, AnsweredOnce
    <3>2. CASE r \notin Silent
      <4>1. answers'[x] = a  BY <1>7, <2>1, <3>2
      <4>2. Len(a) = 1  BY <1>3
      <4>3. Len(answers'[x]) = 1  BY <4>1, <4>2, Zenon
      <4> QED  BY <2>1, <3>2, <4>3
    <3> QED  BY <3>1, <3>2
  <2>2. CASE x # r  BY <1>6, <2>2 DEF AnswersOK, AnsweredOnce
  <2> QED  BY <2>1, <2>2
<1> QED  BY <1>5, <1>8, <1>9, <1>10 DEF AnswersOK

-----------------------------------------------------------------------------
(***************************************************************************)
(* The http client: one step.                                              *)
(***************************************************************************)

DueRecords == [object : TimerObjects, req : Requests \union {None}]

\* The callback of the first of a batch is over.
LEMMA TailOfBatch ==
  ASSUME dueBatch \in Seq(DueRecords), BatchedOK, dueBatch # <<>>, dueBatch' = Tail(dueBatch)
  PROVE  /\ dueBatch' \in Seq(DueRecords)
         /\ \A i \in DOMAIN dueBatch' : i + 1 \in DOMAIN dueBatch /\ dueBatch'[i] = dueBatch[i + 1]
         /\ IsInjective(Batched') /\ BehindMulti(Batched', used)
         /\ ToSet(Batched') \subseteq ToSet(Batched)
         /\ Head(dueBatch).object \notin ToSet(Batched')
         /\ Head(dueBatch) \in DueRecords /\ Head(dueBatch) = dueBatch[1]
         /\ 1 \in DOMAIN dueBatch
<1>1. /\ Len(dueBatch) \in Nat \ {0} /\ DOMAIN dueBatch = 1 .. Len(dueBatch)
  BY EmptySeq, LenProperties
<1>2. /\ dueBatch' \in Seq(DueRecords) /\ Len(dueBatch') = Len(dueBatch) - 1
      /\ \A i \in 1 .. Len(dueBatch') : dueBatch'[i] = dueBatch[i + 1]
      /\ Head(dueBatch) \in DueRecords
  BY HeadTailProperties
<1>3. DOMAIN dueBatch' = 1 .. Len(dueBatch')  BY <1>2, LenProperties
<1>4. \A i \in DOMAIN dueBatch' : /\ i + 1 \in DOMAIN dueBatch /\ i \in Nat /\ i + 1 # 1
                                  /\ dueBatch'[i] = dueBatch[i + 1]
  BY <1>1, <1>2, <1>3
<1>5. Head(dueBatch) = dueBatch[1] /\ 1 \in DOMAIN dueBatch  BY <1>1
<1>6. PICK b : b = Batched  OBVIOUS
<1>7. PICK c : c = Batched'  OBVIOUS
<1>8. DOMAIN b = DOMAIN dueBatch /\ \A i \in DOMAIN dueBatch : b[i] = dueBatch[i].object
  BY <1>6 DEF Batched
<1>9. DOMAIN c = DOMAIN dueBatch' /\ \A i \in DOMAIN dueBatch' : c[i] = dueBatch'[i].object
  BY <1>7 DEF Batched
<1>10. \A i \in DOMAIN c : i + 1 \in DOMAIN b /\ i \in Nat /\ i + 1 # 1 /\ c[i] = b[i + 1]
  BY <1>4, <1>8, <1>9
<1>11. IsInjective(b) /\ BehindMulti(b, used)  BY <1>6 DEF BatchedOK
<1>12. IsInjective(c)
  <2> SUFFICES ASSUME NEW i \in DOMAIN c, NEW j \in DOMAIN c, c[i] = c[j] PROVE i = j
    BY DEF IsInjective
  <2>1. i + 1 = j + 1  BY <1>10, <1>11 DEF IsInjective
  <2> QED  BY <1>10, <2>1
<1>13. BehindMulti(c, used)
  <2> SUFFICES ASSUME NEW i \in DOMAIN c, NEW j \in DOMAIN c, i < j, c[i] = Multi
               PROVE  c[j] \notin used
    BY DEF BehindMulti
  <2>1. i + 1 < j + 1  BY <1>10
  <2> QED  BY <1>10, <1>11, <2>1 DEF BehindMulti
<1>14. ToSet(c) \subseteq ToSet(b)  BY <1>10 DEF ToSet
<1>15. Head(dueBatch).object \notin ToSet(c)
  <2> SUFFICES ASSUME NEW i \in DOMAIN c, c[i] = b[1] PROVE FALSE
    BY <1>5, <1>8 DEF ToSet
  <2>1. 1 \in DOMAIN b  BY <1>5, <1>8
  <2> QED  BY <1>10, <1>11, <2>1 DEF IsInjective
<1> QED  BY <1>2, <1>4, <1>5, <1>6, <1>7, <1>12, <1>13, <1>14, <1>15

\* While messages are read no object of the batch is in use.
LEMMA ReadingBatch ==
  ASSUME dueBatch \in Seq(DueRecords), BatchedOK, reading # "no", used \subseteq EasyCurls
  PROVE  used \intersect ToSet(Batched) = {}
<1> SUFFICES ASSUME NEW j \in DOMAIN dueBatch, dueBatch[j].object \in used PROVE FALSE
  BY DEF Batched, ToSet
<1>1. dueBatch # <<>> /\ Head(dueBatch).object = Multi  BY DEF BatchedOK
<1>2. Len(dueBatch) \in Nat \ {0} /\ DOMAIN dueBatch = 1 .. Len(dueBatch)
  BY <1>1, EmptySeq, LenProperties
<1>3. dueBatch[1].object = Multi /\ 1 \in DOMAIN dueBatch  BY <1>1, <1>2
<1>4. j # 1  BY <1>3, CurlAssumption
<1>5. 1 < j  BY <1>2, <1>4
<1>6. DOMAIN Batched = DOMAIN dueBatch /\ Batched[1] = Multi
      /\ Batched[j] = dueBatch[j].object
  BY <1>3 DEF Batched
<1> QED  BY <1>3, <1>5, <1>6 DEF BatchedOK, BehindMulti

\* An object with a request holds an open request, which has no answer.
LEMMA HeldIsOpen ==
  ASSUME CurlTypeOK, AnswersOK, NEW e \in WithRequest
  PROVE  /\ e \in EasyCurls /\ easy[e].req \in Requests
         /\ easy[e].req \in Open /\ answers[easy[e].req] = <<>> /\ easy[e].req \in sent
<1>1. e \in EasyCurls /\ easy[e].req \in Requests  BY DEF CurlTypeOK, WithRequest
<1>2. easy[e].req \in Open  BY DEF Open, Held
<1> QED  BY <1>1, <1>2 DEF AnswersOK

\* What removeAndClearEasy and the answer before it leave of the invariant
Removed(e) ==
  /\ easy' \in [EasyCurls -> EasyRecords] /\ \A d \in EasyCurls \ {e} : easy'[d] = easy[d]
  /\ used' \subseteq used /\ idleObjects' \in Seq(EasyCurls)
  /\ requestQueue' \in Seq(Requests) /\ requestCount' \in Int
  /\ answers' \in [Requests -> Seq(Kinds)]
  /\ dropped' \subseteq Requests /\ failures' \in 0 .. MaxFailures
  /\ CurlPoolOK' /\ StaleOK' /\ NoneWaitsInVain' /\ HoldersOK' /\ AnswersOK'
  /\ ArmedOK(armed', used', WithRequest')
  /\ ToSet(armed') \subseteq ToSet(armed) \union {e, Multi}

LEMMA GiveUpTypes ==
  ASSUME CurlTypeOK, NEW k \in 0 .. Len(requestQueue), GiveUp(k)
  PROVE  /\ dropped' \subseteq Requests /\ failures' \in 0 .. MaxFailures
         /\ failures' = failures + k /\ failures \in Nat
<1>1. requestQueue \in Seq(Requests) /\ dropped \subseteq Requests
  BY DEF CurlTypeOK
<1>2. Len(requestQueue) \in Nat  BY <1>1, LenProperties
<1>3. failures \in Nat /\ MaxFailures \in Nat /\ k \in Nat  BY <1>2, CurlFinite
<1>4. \A i \in 1 .. k : requestQueue[i] \in Requests
  <2> TAKE i \in 1 .. k
  <2>1. i \in 1 .. Len(requestQueue)  BY <1>2
  <2> QED  BY <1>1, <2>1, ElementOfSeq
<1> QED  BY <1>1, <1>3, <1>4 DEF GiveUp

LEMMA NextStep ==
  ASSUME CurlIInv, NEW e \in WithRequest, NEW kind \in Kinds, StartNext(e),
         answers' = Answered(easy[e].req, kind), sent' = sent
  PROVE  Removed(e)
<1>1. PICK k \in 0 .. Len(requestQueue) - 1 :
        /\ GiveUp(k)
        /\ easy' = [easy EXCEPT ![e] = TransferOf(requestQueue[k + 1])]
        /\ requestQueue' = SubSeq(requestQueue, k + 2, Len(requestQueue))
        /\ armed' = Started(armed, e)
        /\ UNCHANGED <<requestCount, pool>>
  BY DEF StartNext
<1>2. /\ CurlTypeOK /\ CurlPoolOK /\ StaleOK /\ NoneWaitsInVain /\ HoldersOK /\ AnswersOK
      /\ ArmedOK(armed, used, WithRequest)
  BY DEF CurlIInv
<1>3. requestQueue \in Seq(Requests) /\ IsInjective(requestQueue)
  BY <1>2 DEF CurlTypeOK, HoldersOK
<1>4. PICK r : r = requestQueue[k + 1]  OBVIOUS
<1>5. /\ requestQueue' \in Seq(Requests) /\ IsInjective(requestQueue')
      /\ ToSet(requestQueue') \subseteq ToSet(requestQueue)
      /\ r \in Requests /\ r \in ToSet(requestQueue) /\ r \notin ToSet(requestQueue')
  BY <1>1, <1>3, <1>4, RestOfQueue
<1>6. requestQueue # <<>>  BY <1>5 DEF ToSet
<1>7. e \in used /\ e \in EasyCurls  BY <1>2, <1>6, QueuedNoneStale DEF WithRequest
<1>8. easy' = [easy EXCEPT ![e] = TransferOf(r)]  BY <1>1, <1>4
<1>9. /\ easy' \in [EasyCurls -> EasyRecords] /\ easy'[e].req = r
      /\ \A d \in EasyCurls \ {e} : easy'[d] = easy[d]
      /\ WithRequest' = WithRequest \union {e}
  BY <1>2, <1>5, <1>7, <1>8, EasyStarts
<1>10. Len(requestQueue) \in Nat /\ k \in 0 .. Len(requestQueue)
  BY <1>3, LenProperties
<1>11. /\ dropped' \subseteq Requests /\ failures' \in 0 .. MaxFailures
       /\ failures' \in Nat /\ failures' >= failures
  <2>1. /\ dropped' \subseteq Requests /\ failures' \in 0 .. MaxFailures
        /\ failures' = failures + k /\ failures \in Nat
    BY <1>1, <1>2, <1>10, GiveUpTypes
  <2> QED  BY <1>10, <2>1
<1>12. CurlPoolOK' /\ StaleOK'
  BY <1>1, <1>2, <1>5, <1>7, <1>8, <1>11, PoolNext
<1>13. used' = used /\ idleObjects' = idleObjects /\ requestCount' = requestCount
  BY <1>1 DEF pool
<1>14. NoneWaitsInVain'  BY <1>2, <1>6, <1>13 DEF NoneWaitsInVain
<1>15. /\ HoldersOK'
       /\ \A x \in Open' : (x \in Open /\ x # easy[e].req) \/ x = r
  <2>1. \A d \in WithRequest \ {e} : easy[d].req # r  BY <1>2, <1>5 DEF HoldersOK
  <2>2. WithRequest' \subseteq WithRequest \union {e}  BY <1>9
  <2> QED  BY <1>2, <1>5, <1>7, <1>9, <2>1, <2>2, HoldersChange
<1>16. r \in Open /\ r # easy[e].req
  <2>1. easy[e].req \notin ToSet(requestQueue)  BY <1>2 DEF HoldersOK
  <2> QED  BY <1>5, <2>1 DEF Open
<1>17. AnswersOK' /\ answers' \in [Requests -> Seq(Kinds)]
  <2>1. easy[e].req \in Requests /\ answers[easy[e].req] = <<>> /\ easy[e].req \in sent
    BY <1>2, HeldIsOpen
  <2>2. \A x \in Open' : x # easy[e].req /\ x \in Open  BY <1>15, <1>16
  <2> QED  BY <1>2, <2>1, <2>2, AnswersMade
<1>18. /\ ArmedOK(armed', used', WithRequest')
       /\ ToSet(armed') \subseteq ToSet(armed) \union {e, Multi}
  BY <1>1, <1>2, <1>7, <1>9, StartedOK
<1>19. requestCount' \in Int /\ idleObjects' \in Seq(EasyCurls)
  BY <1>2, <1>13 DEF CurlTypeOK
<1> QED  BY <1>5, <1>9, <1>11, <1>12, <1>13, <1>14, <1>15, <1>17, <1>18, <1>19 DEF Removed

LEMMA LeaveStep ==
  ASSUME CurlIInv, NEW e \in WithRequest, NEW kind \in Kinds, LeaveIdle(e),
         answers' = Answered(easy[e].req, kind), sent' = sent
  PROVE  Removed(e)
<1>1. /\ CurlTypeOK /\ CurlPoolOK /\ StaleOK /\ NoneWaitsInVain /\ HoldersOK /\ AnswersOK
      /\ ArmedOK(armed, used, WithRequest)
  BY DEF CurlIInv
<1>2. PICK q \in TimeoutCallbacks(Disarm(armed, e)) :
        \/ /\ easy' = [easy EXCEPT ![e] = Blank]
           /\ armed' = q
        \/ \E r \in ToSet(requestQueue) :
              /\ easy' = [easy EXCEPT ![e] = [Blank EXCEPT !.req = r]]
              /\ armed' = ArmLast(q, e)
  BY DEF LeaveIdle
<1>3. /\ GiveUp(Len(requestQueue)) /\ requestQueue' = <<>>
      /\ requestCount' = requestCount - 1 /\ RemoveEasyCurl(e)
  BY DEF LeaveIdle
<1>4. e \in EasyCurls /\ Multi \notin EasyCurls /\ WithRequest \subseteq EasyCurls
  BY CurlAssumption DEF WithRequest
<1>5. requestQueue \in Seq(Requests)  BY <1>1 DEF CurlTypeOK
<1>6. Len(requestQueue) \in Nat /\ Len(requestQueue) \in 0 .. Len(requestQueue)
  BY <1>5, LenProperties
<1>7. PICK k \in Nat : k = Len(requestQueue)  BY <1>6
<1>8. /\ dropped' \subseteq Requests /\ failures' \in 0 .. MaxFailures
      /\ failures' = failures + k /\ failures \in Nat
  BY <1>1, <1>3, <1>6, <1>7, GiveUpTypes
<1>9. PICK v \in EasyRecords :
        /\ v.transfer = "none" /\ easy' = [easy EXCEPT ![e] = v]
        /\ v.req = None => armed' = q
        /\ v.req # None => v.req \in ToSet(requestQueue) /\ armed' = ArmLast(q, e)
  <2>1. CASE easy' = [easy EXCEPT ![e] = Blank] /\ armed' = q
    <3>1. Blank \in EasyRecords /\ Blank.req = None /\ Blank.transfer = "none"
      BY DEF Blank, EasyRecords
    <3> QED  BY <2>1, <3>1
  <2>2. ASSUME NEW r \in ToSet(requestQueue),
               easy' = [easy EXCEPT ![e] = [Blank EXCEPT !.req = r]], armed' = ArmLast(q, e)
        PROVE  \E v \in EasyRecords :
                 /\ v.transfer = "none" /\ easy' = [easy EXCEPT ![e] = v]
                 /\ v.req = None => armed' = q
                 /\ v.req # None => v.req \in ToSet(requestQueue) /\ armed' = ArmLast(q, e)
    <3>1. r \in Requests  BY <1>5, ElementOfSeq, LenProperties DEF ToSet
    <3>2. PICK v \in EasyRecords : /\ v = [Blank EXCEPT !.req = r] /\ v.req = r /\ r # None
                                   /\ v.transfer = "none"
      BY <3>1, RequestNotNone
    <3> QED  BY <2>2, <3>2
  <2> QED  BY <1>2, <2>1, <2>2
<1>10. /\ easy' \in [EasyCurls -> EasyRecords]
       /\ easy'[e] = v /\ \A d \in EasyCurls \ {e} : easy'[d] = easy[d]
       /\ v.req = None => WithRequest' = WithRequest \ {e}
       /\ v.req # None => WithRequest' = WithRequest \union {e}
  BY <1>1, <1>4, <1>9, EasyStops
<1>11. /\ failures' \in Nat /\ failures' >= failures
       /\ v.req # None => failures' >= failures + 1
  <2>1. v.req # None => k # 0
    <3>1. v.req # None => Len(requestQueue) # 0
      BY <1>5, <1>9, LenProperties DEF ToSet
    <3> QED  BY <1>7, <3>1
  <2> QED  BY <1>7, <1>8, <2>1
<1>12. /\ used' \subseteq EasyCurls /\ idleObjects' \in Seq(EasyCurls)
       /\ CurlPoolOK' /\ StaleOK' /\ used' = used \ {e}
  BY <1>1, <1>3, <1>9, <1>11, PoolLeaves
<1>13. NoneWaitsInVain'  BY <1>3 DEF NoneWaitsInVain
<1>14. /\ requestQueue' \in Seq(Requests) /\ IsInjective(requestQueue')
       /\ ToSet(requestQueue') = {}
  BY <1>3, EmptySeq DEF IsInjective, ToSet
<1>15. /\ HoldersOK'
       /\ \A x \in Open' : (x \in Open /\ x # easy[e].req) \/ (e \in WithRequest' /\ x = v.req)
  <2>1. e \in WithRequest' => v.req \in ToSet(requestQueue)  BY <1>9, <1>10
  <2>2. e \in WithRequest' => \A d \in WithRequest \ {e} : easy[d].req # v.req
    BY <1>1, <2>1 DEF HoldersOK
  <2>3. WithRequest' \subseteq WithRequest \union {e}  BY <1>10
  <2>4. e \in WithRequest' => easy'[e].req = v.req /\ v.req \notin ToSet(requestQueue')
    BY <1>10, <1>14
  <2> QED  BY <1>1, <1>4, <1>10, <1>14, <2>2, <2>3, <2>4, HoldersChange
<1>16. e \in WithRequest' => v.req \in Open /\ v.req # easy[e].req
  <2>1. easy[e].req \notin ToSet(requestQueue)  BY <1>1 DEF HoldersOK
  <2>2. e \in WithRequest' => v.req \in ToSet(requestQueue)  BY <1>9, <1>10
  <2> QED  BY <2>1, <2>2 DEF Open
<1>17. AnswersOK' /\ answers' \in [Requests -> Seq(Kinds)]
  <2>1. easy[e].req \in Requests /\ answers[easy[e].req] = <<>> /\ easy[e].req \in sent
    BY <1>1, HeldIsOpen
  <2>2. \A x \in Open' : x # easy[e].req /\ x \in Open  BY <1>15, <1>16
  <2> QED  BY <1>1, <2>1, <2>2, AnswersMade
<1>18. /\ ArmedOK(armed', used', WithRequest')
       /\ ToSet(armed') \subseteq ToSet(armed) \union {e, Multi}
  <2>1. PICK p : p = Disarm(armed, e)  OBVIOUS
  <2>2. ArmedOK(p, used, WithRequest \ {e}) /\ ToSet(p) = ToSet(armed) \ {e}
    BY <1>1, <2>1, DisarmOK
  <2>3. ArmedOK(q, used, WithRequest \ {e}) /\ ToSet(q) \subseteq ToSet(p) \union {Multi}
    <3>1. Multi \notin WithRequest \ {e}  BY <1>4
    <3> QED  BY <1>2, <2>1, <2>2, <3>1, CallbackOK
  <2>4. CASE v.req = None
    <3>1. armed' = q /\ WithRequest' = WithRequest \ {e}  BY <1>9, <1>10, <2>4
    <3>2. ArmedOK(q, used', WithRequest')  BY <1>12, <2>3, <3>1, ArmedLess
    <3> QED  BY <2>2, <2>3, <3>1, <3>2
  <2>5. CASE v.req # None
    <3>1. armed' = ArmLast(q, e) /\ WithRequest' = WithRequest \union {e}
      BY <1>9, <1>10, <2>5
    <3>2. ArmedOK(q, used', WithRequest')  BY <1>12, <2>3, <3>1, ArmedLess
    <3>3. e \in TimerObjects /\ e \in WithRequest' \ used'
      BY <1>4, <1>12, <3>1 DEF TimerObjects
    <3>4. ArmedOK(ArmLast(q, e), used', WithRequest') /\ ToSet(ArmLast(q, e)) = ToSet(q) \union {e}
      BY <3>2, <3>3, ArmLastOK
    <3> QED  BY <2>2, <2>3, <3>1, <3>4
  <2> QED  BY <2>4, <2>5
<1>19. requestCount' \in Int  BY <1>1, <1>3, CurlFinite
<1> QED  BY <1>8, <1>10, <1>12, <1>13, <1>14, <1>15, <1>17, <1>18, <1>19 DEF Removed

LEMMA NoBatch ==
  ASSUME dueBatch' = <<>>, reading' = "no", crashed' = FALSE
  PROVE  BatchedOK' /\ LimitsAreOwn'
<1>1. DOMAIN dueBatch' = {}  OBVIOUS
<1>2. DOMAIN Batched' = {}  BY <1>1 DEF Batched
<1>3. BatchedOK'  BY <1>2 DEF BatchedOK, IsInjective, ToSet, BehindMulti
<1> QED  BY <1>1, <1>3 DEF LimitsAreOwn

\* CurlTypeOK by the names used here
LEMMA TypeParts ==
  ASSUME CurlTypeOK
  PROVE  /\ easy \in [EasyCurls -> EasyRecords] /\ used \subseteq EasyCurls
         /\ idleObjects \in Seq(EasyCurls) /\ requestQueue \in Seq(Requests)
         /\ requestCount \in Int /\ stillRunning \in 0 .. Cardinality(EasyCurls)
         /\ armed \in Seq(TimerObjects) /\ dueBatch \in Seq(DueRecords)
         /\ reading \in {"no", "messages", "end"} /\ crashed \in BOOLEAN
         /\ sent \subseteq Requests /\ dropped \subseteq Requests
         /\ answers \in [Requests -> Seq(Kinds)] /\ failures \in 0 .. MaxFailures
BY DEF CurlTypeOK, EasyRecords, DueRecords, Kinds

LEMMA TypeNext ==
  ASSUME /\ easy' \in [EasyCurls -> EasyRecords] /\ used' \subseteq EasyCurls
         /\ idleObjects' \in Seq(EasyCurls) /\ requestQueue' \in Seq(Requests)
         /\ requestCount' \in Int /\ stillRunning' \in 0 .. Cardinality(EasyCurls)
         /\ armed' \in Seq(TimerObjects) /\ dueBatch' \in Seq(DueRecords)
         /\ reading' \in {"no", "messages", "end"} /\ crashed' \in BOOLEAN
         /\ sent' \subseteq Requests /\ dropped' \subseteq Requests
         /\ answers' \in [Requests -> Seq(Kinds)] /\ failures' \in 0 .. MaxFailures
  PROVE  CurlTypeOK'
BY DEF CurlTypeOK, EasyRecords, DueRecords, Kinds

LEMMA ArrivesFacts ==
  ASSUME CurlIInv, NEW r \in Requests, Arrives(r)
  PROVE  /\ dueBatch' = <<>> /\ reading' = "no" /\ crashed' = FALSE
         /\ sent' = sent \union {r} /\ sent' \subseteq Requests /\ r \notin Open
         /\ stillRunning' = stillRunning /\ dropped' = dropped
         /\ answers[r] = <<>> /\ Open \subseteq sent
         /\ dueBatch' = dueBatch /\ reading' = reading
<1>1. CurlTypeOK /\ AnswersOK  BY DEF CurlIInv
<1>2. crashed' = FALSE  BY <1>1 DEF Arrives, Waits, CurlTypeOK
<1> QED  BY <1>1, <1>2 DEF Arrives, Waits, AnswersOK, CurlTypeOK

LEMMA AcceptStep ==
  ASSUME CurlIInv, NEW r \in Requests, AcceptRequest(r)
  PROVE  CurlIInv'
<1>1. /\ CurlTypeOK /\ CurlPoolOK /\ StaleOK /\ NoneWaitsInVain /\ HoldersOK /\ AnswersOK
      /\ ArmedOK(armed, used, WithRequest)
  BY DEF CurlIInv
<1>2. PICK e : e = NextEasyCurl  OBVIOUS
<1>3. /\ Arrives(r) /\ requestCount < MaxPerform
      /\ easy' = [easy EXCEPT ![e] = TransferOf(r)] /\ used' = used \union {e}
      /\ idleObjects' = Front(idleObjects) /\ requestCount' = requestCount + 1
      /\ armed' = Started(armed, e) /\ requestQueue' = requestQueue
      /\ answers' = answers /\ failures' = failures
  BY <1>2 DEF AcceptRequest
<1>4. e \in EasyCurls \ used  BY <1>1, <1>2, <1>3, PoolGives
<1>5. /\ dueBatch' = <<>> /\ reading' = "no" /\ crashed' = FALSE
      /\ sent' = sent \union {r} /\ sent' \subseteq Requests /\ r \notin Open
      /\ stillRunning' = stillRunning /\ dropped' = dropped /\ dueBatch' = dueBatch
      /\ Open \subseteq sent /\ r \notin sent
  BY <1>3, ArrivesFacts DEF Arrives
<1>6. /\ used' \subseteq EasyCurls /\ idleObjects' \in Seq(EasyCurls)
      /\ CurlPoolOK' /\ StaleOK'
  BY <1>1, <1>2, <1>3, PoolAccepts
<1>7. /\ easy' \in [EasyCurls -> EasyRecords] /\ easy'[e].req = r
      /\ \A d \in EasyCurls \ {e} : easy'[d] = easy[d]
      /\ WithRequest' = WithRequest \union {e}
  BY <1>1, <1>3, <1>4, EasyStarts
<1>8. /\ HoldersOK' /\ \A x \in Open' : x \in Open \/ x = r
  <2>1. \A d \in WithRequest \ {e} : easy[d].req # r  BY <1>5 DEF Open, Held
  <2>2. r \notin ToSet(requestQueue')  BY <1>3, <1>5 DEF Open
  <2>3. IsInjective(requestQueue') /\ ToSet(requestQueue') \subseteq ToSet(requestQueue)
    BY <1>1, <1>3 DEF HoldersOK
  <2>4. WithRequest' \subseteq WithRequest \union {e}  BY <1>7
  <2> QED  BY <1>1, <1>4, <1>7, <2>1, <2>2, <2>3, <2>4, HoldersChange
<1>9. AnswersOK'
  <2>1. \A x \in Open' : x \in Open \/ x \in sent' \ sent  BY <1>5, <1>8
  <2> QED  BY <1>1, <1>3, <1>5, <2>1, AnswersKept
<1>10. NoneWaitsInVain'
  <2>1. requestQueue = <<>>
    <3>1. requestQueue # <<>> => requestCount >= MaxPerform  BY <1>1 DEF NoneWaitsInVain
    <3> QED  BY <1>1, <1>3, <3>1, CurlFinite
  <2> QED  BY <1>3, <2>1 DEF NoneWaitsInVain
<1>11. ArmedOK(armed', used', WithRequest')  BY <1>1, <1>3, <1>4, <1>7, StartedOK
<1>12. BatchedOK' /\ LimitsAreOwn'  BY <1>5, NoBatch
<1>13. CurlTypeOK'
  <2>1. requestCount' \in Int
    <3>1. requestCount \in Int  BY <1>1, CurlFinite
    <3> QED  BY <1>3, <3>1
  <2>2. armed' \in Seq(TimerObjects)  BY <1>11 DEF ArmedOK
  <2>3. /\ requestQueue' \in Seq(Requests) /\ answers' \in [Requests -> Seq(Kinds)]
        /\ failures' \in 0 .. MaxFailures /\ stillRunning' \in 0 .. Cardinality(EasyCurls)
        /\ dropped' \subseteq Requests /\ dueBatch' \in Seq(DueRecords)
    BY <1>1, <1>3, <1>5, TypeParts
  <2> QED  BY <1>5, <1>6, <1>7, <2>1, <2>2, <2>3, TypeNext
<1> QED  BY <1>6, <1>8, <1>9, <1>10, <1>11, <1>12, <1>13 DEF CurlIInv

LEMMA FailStep ==
  ASSUME CurlIInv, NEW r \in Requests, StartFails(r)
  PROVE  CurlIInv'
<1>1. /\ CurlTypeOK /\ CurlPoolOK /\ StaleOK /\ NoneWaitsInVain /\ HoldersOK /\ AnswersOK
      /\ ArmedOK(armed, used, WithRequest)
  BY DEF CurlIInv
<1>2. PICK e : e = NextEasyCurl  OBVIOUS
<1>3. /\ Arrives(r) /\ requestCount < MaxPerform
      /\ failures < MaxFailures /\ failures' = failures + 1
      /\ easy' = [easy EXCEPT ![e] = Blank] /\ armed' = Disarm(armed, e)
      /\ answers' = Answered(r, "full") /\ UNCHANGED <<pool, requestCount>>
      /\ requestQueue' = requestQueue /\ requestCount' = requestCount
      /\ used' = used /\ idleObjects' = idleObjects
  BY <1>2 DEF StartFails, pool
<1>4. e \in EasyCurls \ used  BY <1>1, <1>2, <1>3, PoolGives
<1>5. /\ dueBatch' = <<>> /\ reading' = "no" /\ crashed' = FALSE
      /\ sent' = sent \union {r} /\ sent' \subseteq Requests /\ r \notin Open
      /\ stillRunning' = stillRunning /\ dropped' = dropped /\ dueBatch' = dueBatch
      /\ Open \subseteq sent /\ answers[r] = <<>>
  BY <1>3, ArrivesFacts
<1>6. CurlPoolOK' /\ StaleOK'
  BY <1>1, <1>2, <1>3, PoolFails
<1>7. /\ easy' \in [EasyCurls -> EasyRecords]
      /\ \A d \in EasyCurls \ {e} : easy'[d] = easy[d]
      /\ WithRequest' = WithRequest \ {e}
  <2>1. Blank \in EasyRecords /\ Blank.req = None /\ Blank.transfer = "none"
    BY DEF Blank, EasyRecords
  <2> QED  BY <1>1, <1>3, <1>4, <2>1, EasyStops
<1>8. /\ HoldersOK' /\ \A x \in Open' : x \in Open
  <2>1. e \notin WithRequest'  BY <1>7
  <2>2. IsInjective(requestQueue') /\ ToSet(requestQueue') \subseteq ToSet(requestQueue)
    BY <1>1, <1>3 DEF HoldersOK
  <2>3. WithRequest' \subseteq WithRequest \union {e}  BY <1>7
  <2> QED  BY <1>1, <1>4, <1>7, <2>1, <2>2, <2>3, HoldersChange
<1>9. AnswersOK' /\ answers' \in [Requests -> Seq(Kinds)]
  <2>1. \A x \in Open' : x # r /\ x \in Open  BY <1>5, <1>8
  <2>2. "full" \in Kinds  BY DEF Kinds
  <2> QED  BY <1>1, <1>3, <1>5, <2>1, <2>2, AnswersMade
<1>10. NoneWaitsInVain'  BY <1>1, <1>3 DEF NoneWaitsInVain
<1>11. ArmedOK(armed', used', WithRequest')  BY <1>1, <1>3, <1>7, DisarmOK
<1>12. BatchedOK' /\ LimitsAreOwn'  BY <1>5, NoBatch
<1>13. CurlTypeOK'
  <2>1. failures' \in 0 .. MaxFailures
    <3>1. failures \in Nat /\ MaxFailures \in Nat  BY <1>1, CurlFinite
    <3> QED  BY <1>3, <3>1
  <2>2. armed' \in Seq(TimerObjects)  BY <1>11 DEF ArmedOK
  <2>3. /\ used' \subseteq EasyCurls /\ idleObjects' \in Seq(EasyCurls)
        /\ requestQueue' \in Seq(Requests) /\ requestCount' \in Int
        /\ stillRunning' \in 0 .. Cardinality(EasyCurls)
        /\ dropped' \subseteq Requests /\ dueBatch' \in Seq(DueRecords)
    BY <1>1, <1>3, <1>5, TypeParts
  <2> QED  BY <1>5, <1>7, <1>9, <2>1, <2>2, <2>3, TypeNext
<1> QED  BY <1>6, <1>8, <1>9, <1>10, <1>11, <1>12, <1>13 DEF CurlIInv

\* The objects keep their requests and libcurl its transfers.
LEMMA SameObjects ==
  ASSUME easy' = easy
  PROVE  InLibcurl' = InLibcurl /\ WithRequest' = WithRequest /\ Stale' = Stale /\ Held' = Held
BY DEF InLibcurl, InTransfer, WithRequest, Stale, Held

LEMMA QueueStep ==
  ASSUME CurlIInv, NEW r \in Requests, QueueRequest(r)
  PROVE  CurlIInv'
<1>1. /\ CurlTypeOK /\ CurlPoolOK /\ StaleOK /\ NoneWaitsInVain /\ HoldersOK /\ AnswersOK
      /\ ArmedOK(armed, used, WithRequest)
  BY DEF CurlIInv
<1>2. /\ Arrives(r) /\ requestCount >= MaxPerform /\ UNCHANGED <<pool, requestCount, failures>>
      /\ easy' = easy /\ used' = used /\ idleObjects' = idleObjects
      /\ requestCount' = requestCount /\ armed' = armed /\ failures' = failures
  BY DEF QueueRequest, pool
<1>3. /\ dueBatch' = <<>> /\ reading' = "no" /\ crashed' = FALSE
      /\ sent' = sent \union {r} /\ sent' \subseteq Requests /\ r \notin Open
      /\ stillRunning' = stillRunning /\ dropped' = dropped /\ dueBatch' = dueBatch
      /\ Open \subseteq sent /\ answers[r] = <<>> /\ r \notin sent
  BY <1>2, ArrivesFacts DEF Arrives
<1>4. InLibcurl' = InLibcurl /\ WithRequest' = WithRequest /\ Stale' = Stale /\ Held' = Held
  BY <1>2, SameObjects
<1>5. CurlPoolOK' /\ StaleOK'  BY <1>1, <1>2, <1>4, PoolSame
<1>6. NoneWaitsInVain'  BY <1>2 DEF NoneWaitsInVain
<1>7. requestQueue \in Seq(Requests) /\ IsInjective(requestQueue) /\ answers \in [Requests -> Seq(Kinds)]
  BY <1>1, TypeParts DEF HoldersOK
<1>8. ASSUME requestQueue' = Append(requestQueue, r), answers' = answers
      PROVE  /\ requestQueue' \in Seq(Requests) /\ answers' \in [Requests -> Seq(Kinds)]
             /\ HoldersOK' /\ AnswersOK'
  <2>1. /\ requestQueue' \in Seq(Requests) /\ IsInjective(requestQueue')
        /\ ToSet(requestQueue') = ToSet(requestQueue) \union {r}
    <3>1. r \notin ToSet(requestQueue)  BY <1>3 DEF Open
    <3> QED  BY <1>7, <1>8, <3>1, AppendElements
  <2>2. HoldersOK'
    <3>1. \A e \in WithRequest : easy[e].req # r  BY <1>3 DEF Open, Held
    <3> QED  BY <1>1, <1>2, <1>4, <2>1, <3>1 DEF HoldersOK
  <2>3. AnswersOK'
    <3>1. \A x \in Open' : x \in Open \/ x = r  BY <1>4, <2>1 DEF Open
    <3> QED  BY <1>1, <1>3, <1>8, <3>1, AnswersKept
  <2>4. answers' \in [Requests -> Seq(Kinds)]  BY <1>7, <1>8
  <2> QED  BY <2>1, <2>2, <2>3, <2>4
<1>9. ASSUME requestQueue' = requestQueue, answers' = Answered(r, "full")
      PROVE  /\ requestQueue' \in Seq(Requests) /\ answers' \in [Requests -> Seq(Kinds)]
             /\ HoldersOK' /\ AnswersOK'
  <2>1. HoldersOK'  BY <1>1, <1>2, <1>4, <1>9 DEF HoldersOK
  <2>2. Open' = Open  BY <1>4, <1>9 DEF Open
  <2>3. "full" \in Kinds  BY DEF Kinds
  <2>4. AnswersOK' /\ answers' \in [Requests -> Seq(Kinds)]
    <3>1. \A x \in Open' : x # r /\ x \in Open  BY <1>3, <2>2
    <3>2. r \in sent' /\ sent \subseteq sent'  BY <1>3
    <3> QED  BY <1>1, <1>3, <1>9, <2>3, <3>1, <3>2, AnswersMade
  <2>5. requestQueue' \in Seq(Requests)  BY <1>7, <1>9
  <2> QED  BY <2>1, <2>4, <2>5
<1>10. /\ requestQueue' \in Seq(Requests) /\ answers' \in [Requests -> Seq(Kinds)]
       /\ HoldersOK' /\ AnswersOK'
  <2>1. \/ requestQueue' = Append(requestQueue, r) /\ answers' = answers
        \/ requestQueue' = requestQueue /\ answers' = Answered(r, "full")
    BY DEF QueueRequest
  <2> QED  BY <1>8, <1>9, <2>1
<1>11. ArmedOK(armed', used', WithRequest')  BY <1>1, <1>2, <1>4
<1>12. BatchedOK' /\ LimitsAreOwn'  BY <1>3, NoBatch
<1>13. CurlTypeOK'
  <2>1. /\ easy' \in [EasyCurls -> EasyRecords] /\ used' \subseteq EasyCurls
        /\ idleObjects' \in Seq(EasyCurls) /\ requestCount' \in Int
        /\ armed' \in Seq(TimerObjects) /\ failures' \in 0 .. MaxFailures
    BY <1>1, <1>2, TypeParts
  <2>2. /\ stillRunning' \in 0 .. Cardinality(EasyCurls)
        /\ dropped' \subseteq Requests /\ dueBatch' \in Seq(DueRecords)
    BY <1>1, <1>3, TypeParts
  <2> QED  BY <1>3, <1>10, <2>1, <2>2, TypeNext
<1> QED  BY <1>5, <1>6, <1>10, <1>11, <1>12, <1>13 DEF CurlIInv

\* libcurl is called: some transfers end, and its timer may be set or cleared.
LEMMA SocketFacts ==
  ASSUME CurlTypeOK, ArmedOK(armed, used, WithRequest), SocketAction(armed)
  PROVE  /\ easy' \in [EasyCurls -> EasyRecords]
         /\ \A e \in EasyCurls : easy'[e].req = easy[e].req
         /\ stillRunning' \in 0 .. Cardinality(EasyCurls)
         /\ InLibcurl' = InLibcurl /\ WithRequest' = WithRequest /\ Stale' = Stale
         /\ Held' = Held
         /\ ArmedOK(armed', used, WithRequest)
         /\ ToSet(armed') \subseteq ToSet(armed) \union {Multi}
<1>1. PICK ended \in SUBSET InTransfer("running") :
        /\ easy' = [e \in EasyCurls |->
                      IF e \in ended THEN [easy[e] EXCEPT !.transfer = "done"] ELSE easy[e]]
        /\ stillRunning' = Cardinality(InTransfer("running") \ ended)
        /\ armed' \in TimeoutCallbacks(armed)
  BY DEF SocketAction
<1>2. easy \in [EasyCurls -> EasyRecords]  BY TypeParts
<1>3. \A e \in ended : e \in EasyCurls /\ easy[e].transfer = "running"
  BY DEF InTransfer
<1>4. ASSUME NEW e \in EasyCurls
      PROVE  /\ easy'[e] \in EasyRecords /\ easy'[e].req = easy[e].req
             /\ easy'[e].transfer = IF e \in ended THEN "done" ELSE easy[e].transfer
  BY <1>1, <1>2 DEF EasyRecords
<1>5. easy' \in [EasyCurls -> EasyRecords]
  <2>1. easy' = [e \in EasyCurls |-> easy'[e]]  BY <1>1
  <2> QED  BY <1>4, <2>1
<1>6. InLibcurl' = InLibcurl  BY <1>3, <1>4 DEF InLibcurl, InTransfer
<1>7. WithRequest' = WithRequest  BY <1>4 DEF WithRequest
<1>8. Stale' = Stale  BY <1>3, <1>4, <1>7 DEF Stale, WithRequest
<1>9. Held' = Held
  <2>1. \A e \in WithRequest : easy'[e].req = easy[e].req  BY <1>4 DEF WithRequest
  <2> QED  BY <1>7, <2>1 DEF Held
<1>10. stillRunning' \in 0 .. Cardinality(EasyCurls)
  <2>1. InTransfer("running") \ ended \in SUBSET EasyCurls  BY DEF InTransfer
  <2>2. /\ IsFiniteSet(InTransfer("running") \ ended)
        /\ Cardinality(InTransfer("running") \ ended) <= Cardinality(EasyCurls)
    BY <2>1, CurlAssumption, FS_Subset
  <2>3. Cardinality(InTransfer("running") \ ended) \in Nat  BY <2>2, FS_CardinalityType
  <2> QED  BY <1>1, <2>2, <2>3, CurlFinite
<1>11. ArmedOK(armed', used, WithRequest) /\ ToSet(armed') \subseteq ToSet(armed) \union {Multi}
  <2>1. Multi \notin WithRequest  BY CurlAssumption DEF WithRequest
  <2> QED  BY <1>1, <2>1, CallbackOK
<1> QED  BY <1>4, <1>5, <1>6, <1>7, <1>8, <1>9, <1>10, <1>11

\* What a call of libcurl leaves of the invariant, whatever becomes of the batch
LEMMA SocketStep ==
  ASSUME CurlIInv, SocketAction(armed),
         UNCHANGED <<pool, requestQueue, requestCount, dueBatch, crashed, history>>
  PROVE  /\ CurlPoolOK' /\ StaleOK' /\ NoneWaitsInVain' /\ HoldersOK' /\ AnswersOK'
         /\ ArmedOK(armed', used', WithRequest') /\ LimitsAreOwn'
         /\ reading' \in {"no", "messages", "end"} => CurlTypeOK'
         /\ (reading' # "no" => dueBatch # <<>> /\ Head(dueBatch).object = Multi) => BatchedOK'
<1>1. /\ CurlTypeOK /\ CurlPoolOK /\ StaleOK /\ NoneWaitsInVain /\ HoldersOK /\ AnswersOK
      /\ ArmedOK(armed, used, WithRequest) /\ BatchedOK /\ LimitsAreOwn
  BY DEF CurlIInv
<1>2. /\ UNCHANGED <<pool, requestCount, failures>>
      /\ used' = used /\ idleObjects' = idleObjects /\ requestQueue' = requestQueue
      /\ requestCount' = requestCount /\ dueBatch' = dueBatch /\ crashed' = crashed
      /\ sent' = sent /\ answers' = answers /\ dropped' = dropped /\ failures' = failures
  BY DEF pool, history
<1>3. /\ easy' \in [EasyCurls -> EasyRecords]
      /\ \A e \in EasyCurls : easy'[e].req = easy[e].req
      /\ stillRunning' \in 0 .. Cardinality(EasyCurls)
      /\ InLibcurl' = InLibcurl /\ WithRequest' = WithRequest /\ Stale' = Stale /\ Held' = Held
      /\ ArmedOK(armed', used, WithRequest)
      /\ ToSet(armed') \subseteq ToSet(armed) \union {Multi}
  BY <1>1, SocketFacts
<1>4. CurlPoolOK' /\ StaleOK'  BY <1>1, <1>2, <1>3, PoolSame
<1>5. NoneWaitsInVain'  BY <1>1, <1>2 DEF NoneWaitsInVain
<1>6. HoldersOK'
  <2>1. \A e \in WithRequest : easy'[e].req = easy[e].req  BY <1>3 DEF WithRequest
  <2> QED  BY <1>1, <1>2, <1>3, <2>1 DEF HoldersOK
<1>7. AnswersOK'
  <2>1. Open' = Open  BY <1>2, <1>3 DEF Open
  <2> QED  BY <1>1, <1>2, <2>1, AnswersKept
<1>8. ArmedOK(armed', used', WithRequest')  BY <1>2, <1>3
<1>9. dueBatch \in Seq(DueRecords)  BY <1>1, TypeParts
<1>10. LimitsAreOwn'
  <2>1. \A i \in DOMAIN dueBatch : dueBatch[i].object # Multi => dueBatch[i].object \in EasyCurls
    <3> TAKE i \in DOMAIN dueBatch
    <3>1. dueBatch[i] \in DueRecords  BY <1>9, ElementOfSeq, LenProperties
    <3> QED  BY <3>1 DEF DueRecords, TimerObjects
  <2> QED  BY <1>1, <1>2, <1>3, <2>1 DEF LimitsAreOwn
<1>11. ASSUME reading' \in {"no", "messages", "end"} PROVE CurlTypeOK'
  <2>1. /\ used' \subseteq EasyCurls /\ idleObjects' \in Seq(EasyCurls)
        /\ requestQueue' \in Seq(Requests) /\ requestCount' \in Int
        /\ dueBatch' \in Seq(DueRecords) /\ crashed' \in BOOLEAN
        /\ sent' \subseteq Requests /\ dropped' \subseteq Requests
        /\ answers' \in [Requests -> Seq(Kinds)] /\ failures' \in 0 .. MaxFailures
    BY <1>1, <1>2, TypeParts
  <2>2. armed' \in Seq(TimerObjects)  BY <1>8 DEF ArmedOK
  <2> QED  BY <1>3, <1>11, <2>1, <2>2, TypeNext
<1>12. ASSUME reading' # "no" => dueBatch # <<>> /\ Head(dueBatch).object = Multi
       PROVE  BatchedOK'
  <2>1. Batched' = Batched  BY <1>2 DEF Batched
  <2> QED  BY <1>1, <1>2, <1>3, <1>12, <2>1 DEF BatchedOK
<1> QED  BY <1>4, <1>5, <1>6, <1>7, <1>8, <1>10, <1>11, <1>12

LEMMA EpollStep ==
  ASSUME CurlIInv, EpollEvent
  PROVE  CurlIInv'
<1>1. /\ SocketAction(armed) /\ reading' = reading /\ reading = "no"
      /\ UNCHANGED <<pool, requestQueue, requestCount, dueBatch, crashed, history>>
  BY DEF EpollEvent, Waits
<1> QED  BY <1>1, SocketStep DEF CurlIInv

LEMMA MultiTimerStep ==
  ASSUME CurlIInv, MultiTimerCallback
  PROVE  CurlIInv'
<1>1. /\ SocketAction(armed) /\ reading' \in {"messages", "end"}
      /\ dueBatch # <<>> /\ Head(dueBatch).object = Multi
      /\ UNCHANGED <<pool, requestQueue, requestCount, dueBatch, crashed, history>>
  BY DEF MultiTimerCallback
<1> QED  BY <1>1, SocketStep DEF CurlIInv

\* After removeAndClearEasy of an object that is not in what is left of the batch
LEMMA RemovedStep ==
  ASSUME CurlIInv, NEW e \in WithRequest, Removed(e),
         stillRunning' = stillRunning, reading' = reading, crashed' = crashed, sent' = sent,
         dueBatch' \in Seq(DueRecords), IsInjective(Batched'), BehindMulti(Batched', used),
         ToSet(Batched') \subseteq ToSet(Batched) \ {e},
         \A i \in DOMAIN dueBatch' : \E j \in DOMAIN dueBatch : dueBatch'[i] = dueBatch[j],
         reading' # "no" => dueBatch' # <<>> /\ Head(dueBatch').object = Multi
  PROVE  CurlIInv'
<1>1. CurlTypeOK /\ BatchedOK /\ LimitsAreOwn  BY DEF CurlIInv
<1>2. BatchedOK'
  <2>1. BehindMulti(Batched', used')
    <3>1. ToSet(Batched') \intersect used' \subseteq used  BY DEF Removed
    <3> QED  BY <3>1, BehindLess
  <2>2. ToSet(armed') \subseteq ToSet(armed) \union {e, Multi}  BY DEF Removed
  <2>3. ToSet(armed') \intersect ToSet(Batched') \subseteq {Multi}
    BY <1>1, <2>2 DEF BatchedOK
  <2> QED  BY <2>1, <2>3 DEF BatchedOK
<1>3. LimitsAreOwn'
  <2>1. ~ crashed'  BY <1>1 DEF LimitsAreOwn
  <2>2. ASSUME NEW i \in DOMAIN dueBatch', dueBatch'[i].object # Multi
        PROVE  /\ dueBatch'[i].req # None
               /\ easy'[dueBatch'[i].object].req = dueBatch'[i].req
    <3>1. PICK j \in DOMAIN dueBatch : dueBatch'[i] = dueBatch[j]  OBVIOUS
    <3>2. dueBatch'[i] \in DueRecords  BY ElementOfSeq, LenProperties
    <3>3. PICK d : d = dueBatch'[i].object  OBVIOUS
    <3>4. d \in EasyCurls  BY <2>2, <3>2, <3>3 DEF DueRecords, TimerObjects
    <3>5. d # e
      <4>1. d \in ToSet(Batched')  BY <3>3 DEF Batched, ToSet
      <4> QED  BY <4>1
    <3>6. easy'[d] = easy[d]  BY <3>4, <3>5 DEF Removed
    <3>7. dueBatch[j].req # None /\ easy[d].req = dueBatch[j].req
      BY <1>1, <2>2, <3>1, <3>3 DEF LimitsAreOwn
    <3> QED  BY <3>1, <3>3, <3>6, <3>7
  <2> QED  BY <2>1, <2>2 DEF LimitsAreOwn
<1>4. CurlTypeOK'
  <2>1. armed' \in Seq(TimerObjects)  BY DEF Removed, ArmedOK
  <2>2. used' \subseteq EasyCurls  BY <1>1, TypeParts DEF Removed
  <2>3. /\ stillRunning' \in 0 .. Cardinality(EasyCurls)
        /\ reading' \in {"no", "messages", "end"} /\ crashed' \in BOOLEAN
        /\ sent' \subseteq Requests
    BY <1>1, TypeParts
  <2>4. /\ easy' \in [EasyCurls -> EasyRecords] /\ idleObjects' \in Seq(EasyCurls)
        /\ requestQueue' \in Seq(Requests) /\ requestCount' \in Int
        /\ answers' \in [Requests -> Seq(Kinds)]
        /\ dropped' \subseteq Requests /\ failures' \in 0 .. MaxFailures
    BY DEF Removed
  <2> QED  BY <2>1, <2>2, <2>3, <2>4, TypeNext
<1>5. /\ CurlPoolOK' /\ StaleOK' /\ NoneWaitsInVain' /\ HoldersOK' /\ AnswersOK'
      /\ ArmedOK(armed', used', WithRequest')
  BY DEF Removed
<1> QED  BY <1>2, <1>3, <1>4, <1>5 DEF CurlIInv

LEMMA EasyTimerStep ==
  ASSUME CurlIInv, NEW e \in EasyCurls, EasyTimerCallback(e)
  PROVE  CurlIInv'
<1>1. CurlTypeOK /\ BatchedOK /\ LimitsAreOwn /\ dueBatch \in Seq(DueRecords)
  BY TypeParts DEF CurlIInv
<1>2. /\ reading = "no" /\ dueBatch # <<>> /\ Head(dueBatch).object = e
      /\ stillRunning' = stillRunning /\ reading' = reading /\ sent' = sent
  BY DEF EasyTimerCallback
<1>3. e \in WithRequest
  <2>1. Head(dueBatch) = dueBatch[1] /\ 1 \in DOMAIN dueBatch
    BY <1>1, <1>2, EmptySeq, LenProperties
  <2>2. dueBatch[1].object = e /\ e # Multi  BY <1>2, <2>1, CurlAssumption
  <2>3. easy[e].req # None  BY <1>1, <2>1, <2>2 DEF LimitsAreOwn
  <2> QED  BY <2>3 DEF WithRequest
<1>4. /\ answers' = Answered(easy[e].req, "timeout") /\ RemoveAndClearEasy(e)
      /\ dueBatch' = Tail(dueBatch) /\ crashed' = crashed
  BY <1>3 DEF EasyTimerCallback, WithRequest
<1>5. Removed(e)
  <2>1. "timeout" \in Kinds  BY DEF Kinds
  <2> QED  BY <1>2, <1>3, <1>4, <2>1, NextStep, LeaveStep DEF RemoveAndClearEasy
<1>6. /\ dueBatch' \in Seq(DueRecords)
      /\ \A i \in DOMAIN dueBatch' : i + 1 \in DOMAIN dueBatch /\ dueBatch'[i] = dueBatch[i + 1]
      /\ IsInjective(Batched') /\ BehindMulti(Batched', used)
      /\ ToSet(Batched') \subseteq ToSet(Batched) \ {e}
  BY <1>1, <1>2, <1>4, TailOfBatch
<1> QED  BY <1>2, <1>3, <1>4, <1>5, <1>6, RemovedStep

LEMMA ReadStep ==
  ASSUME CurlIInv, NEW e \in EasyCurls, ReadMessage(e)
  PROVE  CurlIInv'
<1>1. /\ CurlTypeOK /\ CurlPoolOK /\ BatchedOK /\ LimitsAreOwn
      /\ dueBatch \in Seq(DueRecords) /\ used \subseteq EasyCurls
  BY TypeParts DEF CurlIInv
<1>2. /\ reading # "no" /\ easy[e].transfer = "done"
      /\ stillRunning' = stillRunning /\ dueBatch' = dueBatch /\ reading' = reading
      /\ sent' = sent
  BY DEF ReadMessage
<1>3. e \in used /\ e \in WithRequest
  <2>1. e \in InLibcurl  BY <1>2 DEF InLibcurl, InTransfer
  <2> QED  BY <1>1, <2>1 DEF CurlPoolOK
<1>4. /\ answers' = Answered(easy[e].req, "result") /\ RemoveAndClearEasy(e)
      /\ crashed' = crashed
  BY <1>3 DEF ReadMessage, WithRequest
<1>5. Removed(e)
  <2>1. "result" \in Kinds  BY DEF Kinds
  <2> QED  BY <1>2, <1>3, <1>4, <2>1, NextStep, LeaveStep DEF RemoveAndClearEasy
<1>6. Batched' = Batched  BY <1>2 DEF Batched
<1>7. ToSet(Batched') \subseteq ToSet(Batched) \ {e}
  <2>1. used \intersect ToSet(Batched) = {}  BY <1>1, <1>2, ReadingBatch
  <2> QED  BY <1>3, <1>6, <2>1
<1>8. IsInjective(Batched') /\ BehindMulti(Batched', used)  BY <1>1, <1>6 DEF BatchedOK
<1>9. reading' # "no" => dueBatch' # <<>> /\ Head(dueBatch').object = Multi
  BY <1>1, <1>2 DEF BatchedOK
<1>10. dueBatch' \in Seq(DueRecords)
       /\ \A i \in DOMAIN dueBatch' : \E j \in DOMAIN dueBatch : dueBatch'[i] = dueBatch[j]
  BY <1>1, <1>2
<1> QED  BY <1>2, <1>3, <1>4, <1>5, <1>7, <1>8, <1>9, <1>10, RemovedStep

\* What only moves timers leaves of the invariant
LEMMA TimersMove ==
  ASSUME CurlIInv, easy' = easy,
         UNCHANGED <<pool, requestQueue, requestCount, stillRunning, crashed, history>>
  PROVE  /\ CurlPoolOK' /\ StaleOK' /\ NoneWaitsInVain' /\ HoldersOK' /\ AnswersOK'
         /\ used' = used /\ WithRequest' = WithRequest /\ crashed' = crashed
         /\ /\ armed' \in Seq(TimerObjects) /\ dueBatch' \in Seq(DueRecords)
            /\ reading' \in {"no", "messages", "end"}
            => CurlTypeOK'
<1>1. /\ CurlTypeOK /\ CurlPoolOK /\ StaleOK /\ NoneWaitsInVain /\ HoldersOK /\ AnswersOK
  BY DEF CurlIInv
<1>2. /\ UNCHANGED <<pool, requestCount, failures>>
      /\ used' = used /\ idleObjects' = idleObjects /\ requestQueue' = requestQueue
      /\ requestCount' = requestCount /\ stillRunning' = stillRunning /\ crashed' = crashed
      /\ sent' = sent /\ answers' = answers /\ dropped' = dropped /\ failures' = failures
  BY DEF pool, history
<1>3. InLibcurl' = InLibcurl /\ WithRequest' = WithRequest /\ Stale' = Stale /\ Held' = Held
  BY SameObjects
<1>4. CurlPoolOK' /\ StaleOK'  BY <1>1, <1>2, <1>3, PoolSame
<1>5. NoneWaitsInVain'  BY <1>1, <1>2 DEF NoneWaitsInVain
<1>6. HoldersOK'  BY <1>1, <1>2, <1>3 DEF HoldersOK
<1>7. AnswersOK'
  <2>1. Open' = Open  BY <1>2, <1>3 DEF Open
  <2> QED  BY <1>1, <1>2, <2>1, AnswersKept
<1>8. ASSUME armed' \in Seq(TimerObjects), dueBatch' \in Seq(DueRecords),
             reading' \in {"no", "messages", "end"}
      PROVE  CurlTypeOK'
  <2>1. /\ easy' \in [EasyCurls -> EasyRecords]
        /\ used' \subseteq EasyCurls /\ idleObjects' \in Seq(EasyCurls)
        /\ requestQueue' \in Seq(Requests) /\ requestCount' \in Int
        /\ stillRunning' \in 0 .. Cardinality(EasyCurls) /\ crashed' \in BOOLEAN
        /\ sent' \subseteq Requests /\ dropped' \subseteq Requests
        /\ answers' \in [Requests -> Seq(Kinds)] /\ failures' \in 0 .. MaxFailures
    BY <1>1, <1>2, TypeParts
  <2> QED  BY <1>8, <2>1, TypeNext
<1> QED  BY <1>2, <1>3, <1>4, <1>5, <1>6, <1>7, <1>8

LEMMA ReturnStep ==
  ASSUME CurlIInv, MultiTimerReturns
  PROVE  CurlIInv'
<1>1. /\ CurlTypeOK /\ BatchedOK /\ LimitsAreOwn /\ ArmedOK(armed, used, WithRequest)
      /\ dueBatch \in Seq(DueRecords) /\ used \subseteq EasyCurls
  BY TypeParts DEF CurlIInv
<1>2. /\ reading # "no" /\ reading' = "no" /\ dueBatch' = Tail(dueBatch) /\ easy' = easy
      /\ \/ armed' = armed
         \/ Multi \notin ToSet(armed) /\ armed' = Append(armed, Multi)
      /\ UNCHANGED <<pool, requestQueue, requestCount, stillRunning, crashed, history>>
  BY DEF MultiTimerReturns
<1>3. dueBatch # <<>> /\ Head(dueBatch).object = Multi  BY <1>1, <1>2 DEF BatchedOK
<1>4. /\ dueBatch' \in Seq(DueRecords)
      /\ \A i \in DOMAIN dueBatch' : i + 1 \in DOMAIN dueBatch /\ dueBatch'[i] = dueBatch[i + 1]
      /\ IsInjective(Batched') /\ BehindMulti(Batched', used)
      /\ ToSet(Batched') \subseteq ToSet(Batched)
  BY <1>1, <1>2, <1>3, TailOfBatch
<1>5. /\ ArmedOK(armed', used, WithRequest)
      /\ ToSet(armed') \subseteq ToSet(armed) \union {Multi}
  <2>1. CASE armed' = armed  BY <1>1, <2>1
  <2>2. CASE Multi \notin ToSet(armed) /\ armed' = Append(armed, Multi)
    <3>1. armed \in Seq(TimerObjects) /\ IsInjective(armed) /\ BehindMulti(armed, used)
      BY <1>1 DEF ArmedOK
    <3>2. Multi \in TimerObjects /\ Multi \notin used
      BY <1>1, CurlAssumption DEF TimerObjects
    <3>3. /\ armed' \in Seq(TimerObjects) /\ IsInjective(armed')
          /\ ToSet(armed') = ToSet(armed) \union {Multi}
      BY <2>2, <3>1, <3>2, AppendElements
    <3>4. BehindMulti(armed', used)  BY <2>2, <3>1, <3>2, AppendBehind
    <3> QED  BY <1>1, <3>3, <3>4 DEF ArmedOK
  <2> QED  BY <1>2, <2>1, <2>2
<1>6. armed' \in Seq(TimerObjects)  BY <1>5 DEF ArmedOK
<1>7. /\ CurlPoolOK' /\ StaleOK' /\ NoneWaitsInVain' /\ HoldersOK' /\ AnswersOK'
      /\ used' = used /\ WithRequest' = WithRequest /\ crashed' = crashed
      /\ CurlTypeOK'
  BY <1>2, <1>4, <1>6, TimersMove
<1>8. ArmedOK(armed', used', WithRequest')  BY <1>5, <1>7
<1>9. BatchedOK'
  <2>1. ToSet(armed') \intersect ToSet(Batched') \subseteq {Multi}
    BY <1>1, <1>4, <1>5 DEF BatchedOK
  <2> QED  BY <1>2, <1>4, <1>7, <2>1 DEF BatchedOK
<1>10. LimitsAreOwn'
  <2>1. \A i \in DOMAIN dueBatch' : \E j \in DOMAIN dueBatch : dueBatch'[i] = dueBatch[j]
    BY <1>4
  <2> QED  BY <1>1, <1>2, <1>7, <2>1 DEF LimitsAreOwn
<1> QED  BY <1>7, <1>8, <1>9, <1>10 DEF CurlIInv

LEMMA TakeStep ==
  ASSUME CurlIInv, NEW due, TakeDue(due)
  PROVE  CurlIInv'
<1>1. /\ CurlTypeOK /\ ArmedOK(armed, used, WithRequest)
      /\ easy \in [EasyCurls -> EasyRecords] /\ reading \in {"no", "messages", "end"}
      /\ used \subseteq EasyCurls
  BY TypeParts DEF CurlIInv
<1>2. PICK objects : objects = Only(armed, due)  OBVIOUS
<1>3. /\ reading = "no" /\ reading' = reading /\ ~ crashed
      /\ dueBatch' = [i \in DOMAIN objects |->
                        [object |-> objects[i],
                         req |-> IF objects[i] = Multi THEN None ELSE easy[objects[i]].req]]
      /\ armed' = Without(armed, due) /\ easy' = easy
      /\ UNCHANGED <<pool, requestQueue, requestCount, stillRunning, crashed, history>>
  BY <1>2 DEF TakeDue, Waits
<1>4. armed \in Seq(TimerObjects) /\ IsInjective(armed) /\ BehindMulti(armed, used)
      /\ ToSet(armed) \ {Multi} \subseteq WithRequest
  BY <1>1 DEF ArmedOK
<1>5. /\ objects \in Seq(TimerObjects) /\ IsInjective(objects) /\ BehindMulti(objects, used)
      /\ ToSet(objects) = ToSet(armed) \intersect due
  BY <1>2, <1>4, OnlyElements, SelectionBehind
<1>6. /\ armed' \in Seq(TimerObjects) /\ IsInjective(armed')
      /\ ToSet(armed') = ToSet(armed) \ due
  BY <1>3, <1>4, WithoutElements
<1>7. BehindMulti(armed', used)
  <2>1. armed' = Only(armed, ToSet(armed) \ due)  BY <1>3 DEF Without
  <2> QED  BY <1>4, <2>1, SelectionBehind
<1>8. ArmedOK(armed', used, WithRequest)  BY <1>4, <1>6, <1>7 DEF ArmedOK
<1>9. Len(objects) \in Nat /\ DOMAIN objects = 1 .. Len(objects)
      /\ objects = [i \in 1 .. Len(objects) |-> objects[i]]
  BY <1>5, LenProperties
<1>10. \A i \in DOMAIN objects :
          /\ objects[i] \in TimerObjects
          /\ objects[i] # Multi => objects[i] \in WithRequest
  <2> TAKE i \in DOMAIN objects
  <2>1. objects[i] \in TimerObjects  BY <1>5, <1>9
  <2>2. objects[i] \in ToSet(armed)  BY <1>5 DEF ToSet
  <2> QED  BY <1>4, <2>1, <2>2
<1>11. /\ DOMAIN dueBatch' = DOMAIN objects
       /\ \A i \in DOMAIN objects :
             /\ dueBatch'[i].object = objects[i]
             /\ objects[i] # Multi => dueBatch'[i].req = easy[objects[i]].req
             /\ dueBatch'[i] \in DueRecords
  <2>1. DOMAIN dueBatch' = DOMAIN objects  BY <1>3
  <2>2. ASSUME NEW i \in DOMAIN objects
        PROVE  /\ dueBatch'[i].object = objects[i]
               /\ objects[i] # Multi => dueBatch'[i].req = easy[objects[i]].req
               /\ dueBatch'[i] \in DueRecords
    <3>1. dueBatch'[i] = [object |-> objects[i],
                          req |-> IF objects[i] = Multi THEN None ELSE easy[objects[i]].req]
      BY <1>3
    <3>2. objects[i] # Multi => easy[objects[i]].req \in Requests \union {None}
      BY <1>1, <1>10 DEF WithRequest, EasyRecords
    <3> QED  BY <1>10, <3>1, <3>2 DEF DueRecords
  <2> QED  BY <2>1, <2>2
<1>12. dueBatch' \in Seq(DueRecords)
  <2>1. dueBatch' \in [1 .. Len(objects) -> DueRecords]  BY <1>3, <1>9, <1>11
  <2> QED  BY <1>9, <2>1, SeqDef
<1>13. Batched' = objects
  <2>1. Batched' = [i \in 1 .. Len(objects) |-> objects[i]]
    BY <1>9, <1>11 DEF Batched
  <2> QED  BY <1>9, <2>1
<1>14. /\ CurlPoolOK' /\ StaleOK' /\ NoneWaitsInVain' /\ HoldersOK' /\ AnswersOK'
       /\ used' = used /\ WithRequest' = WithRequest /\ crashed' = crashed
       /\ CurlTypeOK'
  BY <1>1, <1>3, <1>6, <1>12, TimersMove
<1>15. ArmedOK(armed', used', WithRequest')  BY <1>8, <1>14
<1>16. BatchedOK'
  <2>1. ToSet(armed') \intersect ToSet(objects) = {}  BY <1>5, <1>6
  <2> QED  BY <1>3, <1>5, <1>13, <1>14, <2>1 DEF BatchedOK
<1>17. LimitsAreOwn'
  <2>1. \A i \in DOMAIN objects : objects[i] # Multi => easy[objects[i]].req # None
    BY <1>10 DEF WithRequest
  <2> QED  BY <1>3, <1>11, <1>14, <2>1 DEF LimitsAreOwn
<1> QED  BY <1>14, <1>15, <1>16, <1>17 DEF CurlIInv

\* A sequence of all the objects of the pool
LEMMA AllEasyCurls ==
  /\ SetToSeq(EasyCurls) \in Seq(EasyCurls) /\ IsInjective(SetToSeq(EasyCurls))
  /\ ToSet(SetToSeq(EasyCurls)) = EasyCurls
<1>1. PICK n \in Nat : n = Cardinality(EasyCurls)  BY CurlAssumption, FS_CardinalityType
<1>2. \E f \in [1 .. n -> EasyCurls] : IsInjective(f)
  <2>1. ExistsBijection(1 .. n, EasyCurls)  BY <1>1, CurlAssumption, FS_CardinalityType
  <2> QED  BY <2>1 DEF ExistsBijection, Bijection, Injection, IsInjective
<1>3. PICK q : q = SetToSeq(EasyCurls)  OBVIOUS
<1>4. q \in [1 .. n -> EasyCurls] /\ IsInjective(q)
  <2>1. q = CHOOSE f \in [1 .. n -> EasyCurls] : IsInjective(f)  BY <1>1, <1>3 DEF SetToSeq
  <2> QED  BY <1>2, <2>1
<1>5. q \in Injection(1 .. n, EasyCurls)  BY <1>4 DEF Injection
<1>6. IsFiniteSet(1 .. n) /\ Cardinality(1 .. n) = n  BY <1>1, FS_Interval
<1>7. q \in Surjection(1 .. n, EasyCurls)
  BY <1>1, <1>5, <1>6, CurlAssumption, FS_Injection
<1>8. ToSet(q) = EasyCurls  BY <1>4, <1>7 DEF Surjection, ToSet
<1>9. q \in Seq(EasyCurls)  BY <1>1, <1>4, SeqDef
<1> QED  BY <1>3, <1>4, <1>8, <1>9

LEMMA InitStep == CurlInit => CurlIInv
<1> SUFFICES ASSUME CurlInit PROVE CurlIInv
  OBVIOUS
<1>1. /\ easy = [e \in EasyCurls |-> Blank] /\ used = {}
      /\ idleObjects = SetToSeq(EasyCurls) /\ requestQueue = <<>> /\ requestCount = 0
      /\ stillRunning = 0 /\ armed = <<>> /\ dueBatch = <<>> /\ reading = "no"
      /\ crashed = FALSE /\ sent = {} /\ answers = [r \in Requests |-> <<>>]
      /\ dropped = {} /\ failures = 0
  BY DEF CurlInit
<1>2. Blank \in EasyRecords /\ Blank.req = None /\ Blank.transfer = "none"
  BY DEF Blank, EasyRecords
<1>3. InLibcurl = {} /\ WithRequest = {} /\ Stale = {} /\ Held = {}
  BY <1>1, <1>2 DEF InLibcurl, InTransfer, WithRequest, Stale, Held
<1>4. /\ idleObjects \in Seq(EasyCurls) /\ IsInjective(idleObjects)
      /\ ToSet(idleObjects) = EasyCurls
  BY <1>1, AllEasyCurls
<1>5. Cardinality({}) = 0  BY FS_EmptySet
<1>6. /\ Cardinality(EasyCurls) \in Nat /\ MaxPerform \in Nat /\ MaxFailures \in Nat
  BY CurlAssumption, FS_CardinalityType
<1>7. CurlTypeOK
  <2>1. easy \in [EasyCurls -> EasyRecords]  BY <1>1, <1>2
  <2>2. answers \in [Requests -> Seq(Kinds)]
    <3>1. <<>> \in Seq(Kinds)  BY EmptySeq
    <3> QED  BY <1>1, <3>1
  <2>3. /\ requestQueue \in Seq(Requests) /\ armed \in Seq(TimerObjects)
        /\ dueBatch \in Seq(DueRecords)
    BY <1>1, EmptySeq
  <2>4. /\ requestCount \in Int /\ stillRunning \in 0 .. Cardinality(EasyCurls)
        /\ failures \in 0 .. MaxFailures
    BY <1>1, <1>6
  <2>5. /\ used \subseteq EasyCurls /\ sent \subseteq Requests /\ dropped \subseteq Requests
        /\ reading \in {"no", "messages", "end"} /\ crashed \in BOOLEAN
    BY <1>1
  <2> QED  BY <1>4, <2>1, <2>2, <2>3, <2>4, <2>5 DEF CurlTypeOK, EasyRecords, DueRecords, Kinds
<1>8. CurlPoolOK  BY <1>1, <1>3, <1>4, <1>5 DEF CurlPoolOK
<1>9. StaleOK  BY <1>1, <1>3, <1>6 DEF StaleOK
<1>10. NoneWaitsInVain  BY <1>1 DEF NoneWaitsInVain
<1>11. ToSet(<<>>) = {} /\ IsInjective(<<>>)  BY DEF ToSet, IsInjective
<1>12. HoldersOK  BY <1>1, <1>3, <1>11 DEF HoldersOK
<1>13. AnswersOK
  <2>1. Open = {}  BY <1>1, <1>3, <1>11 DEF Open
  <2>2. \A r \in Requests : answers[r] = <<>> /\ Len(answers[r]) = 0  BY <1>1, EmptySeq
  <2> QED  BY <2>1, <2>2 DEF AnswersOK, AnsweredOnce
<1>14. ArmedOK(armed, used, WithRequest)
  <2>1. BehindMulti(<<>>, used)  BY DEF BehindMulti
  <2> QED  BY <1>1, <1>11, <2>1, EmptySeq DEF ArmedOK
<1>15. BatchedOK /\ LimitsAreOwn
  <2>1. DOMAIN dueBatch = {} /\ DOMAIN Batched = {}  BY <1>1 DEF Batched
  <2>2. BatchedOK  BY <1>1, <2>1 DEF BatchedOK, IsInjective, ToSet, BehindMulti
  <2> QED  BY <1>1, <2>1, <2>2 DEF LimitsAreOwn
<1> QED  BY <1>7, <1>8, <1>9, <1>10, <1>12, <1>13, <1>14, <1>15 DEF CurlIInv

LEMMA StutterStep ==
  ASSUME CurlIInv, UNCHANGED curlVars
  PROVE  CurlIInv'
<1>1. /\ easy' = easy /\ armed' = armed /\ dueBatch' = dueBatch /\ reading' = reading
      /\ UNCHANGED <<pool, requestQueue, requestCount, stillRunning, crashed, history>>
  BY DEF curlVars, timers
<1>2. /\ CurlTypeOK /\ BatchedOK /\ LimitsAreOwn /\ ArmedOK(armed, used, WithRequest)
      /\ armed \in Seq(TimerObjects) /\ dueBatch \in Seq(DueRecords)
      /\ reading \in {"no", "messages", "end"}
  BY TypeParts DEF CurlIInv
<1>3. /\ CurlPoolOK' /\ StaleOK' /\ NoneWaitsInVain' /\ HoldersOK' /\ AnswersOK'
      /\ used' = used /\ WithRequest' = WithRequest /\ crashed' = crashed
      /\ CurlTypeOK'
  BY <1>1, <1>2, TimersMove
<1>4. ArmedOK(armed', used', WithRequest')  BY <1>1, <1>2, <1>3
<1>5. BatchedOK'
  <2>1. Batched' = Batched  BY <1>1 DEF Batched
  <2> QED  BY <1>1, <1>2, <1>3, <2>1 DEF BatchedOK
<1>6. LimitsAreOwn'  BY <1>1, <1>2, <1>3 DEF LimitsAreOwn
<1> QED  BY <1>3, <1>4, <1>5, <1>6 DEF CurlIInv

\* The inductive invariant of the http client of an epoll thread, for any requests,
\* limits and failures
THEOREM CurlInvariant == CurlSpec => []CurlIInv
<1>1. CurlInit => CurlIInv  BY InitStep
<1>2. CurlIInv /\ [CurlNext]_curlVars => CurlIInv'
  <2> SUFFICES ASSUME CurlIInv, [CurlNext]_curlVars PROVE CurlIInv'
    OBVIOUS
  <2>1. ASSUME NEW r \in Requests, AcceptRequest(r) \/ StartFails(r) \/ QueueRequest(r)
        PROVE  CurlIInv'
    BY <2>1, AcceptStep, FailStep, QueueStep
  <2>2. CASE EpollEvent  BY <2>2, EpollStep
  <2>3. ASSUME NEW due \in SUBSET (EasyCurls \union {Multi}), TakeDue(due)
        PROVE  CurlIInv'
    BY <2>3, TakeStep
  <2>4. CASE TimerSteps
    BY <2>4, EasyTimerStep, MultiTimerStep, ReadStep, ReturnStep DEF TimerSteps
  <2>5. CASE UNCHANGED curlVars  BY <2>5, StutterStep
  <2> QED  BY <2>1, <2>2, <2>3, <2>4, <2>5 DEF CurlNext
<1> QED  BY <1>1, <1>2, PTL DEF CurlSpec

\* The objects of the pool, the transfers of libcurl, m_requestCount and the queue agree
\* after every task, event and timer, also after starts that fail (removeAndClearEasy);
\* requests wait only while MaxPerform transfers run.
THEOREM CurlAccounts == CurlSpec => []Inv
<1>1. CurlIInv => Inv
  BY DEF CurlIInv, Inv, Accounted, CurlPoolOK, HoldersOK
<1> QED  BY <1>1, CurlInvariant, PTL

\* The limit of a request never strikes another, although Timer::update takes the
\* due limits before it calls MultiCurl::timerCallback, which may start requests on their
\* objects: no EasyCurl in use is behind the MultiCurl.
THEOREM LimitsStrikeTheirOwn == CurlSpec => []LimitsAreOwn
<1>1. CurlIInv => LimitsAreOwn  BY DEF CurlIInv
<1> QED  BY <1>1, CurlInvariant, PTL

\* responseRequest is called at most once for each request that came.
THEOREM OneAnswer == CurlSpec => []AnsweredOnce
<1>1. CurlIInv => AnsweredOnce  BY DEF CurlIInv, AnswersOK
<1> QED  BY <1>1, CurlInvariant, PTL
=============================================================================
