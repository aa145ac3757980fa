-------------------------- MODULE Connection_proofs --------------------------
(***************************************************************************)
(* Proofs about a connection of an epoll thread (Connection): the bytes    *)
(* written and queued are the packets that sendPacket took, and no edge of *)
(* the socket is lost, for all packets, buffers, interruptions and orders  *)
(* of tasks, timers and events.                                            *)
(***************************************************************************)
EXTENDS Connection, TLAPS, SequenceTheorems, WellFoundedInduction

-----------------------------------------------------------------------------
(***************************************************************************)
(* FlattenSeq.  It is defined by recursion: a fact about all its values is *)
(* proved by the least index it fails for.                                 *)
(***************************************************************************)

\* A set of natural numbers that is not empty has a least element.
LEMMA LeastOf ==
  ASSUME NEW T, T \subseteq Nat, T # {}
  PROVE  \E x \in T : \A y \in T : x <= y
<1>1. PICK R : R = OpToRel(<, Nat)  OBVIOUS
<1>2. IsWellFoundedOn(R, Nat)  BY <1>1, NatLessThanWellFounded
<1>3. PICK x \in T : \A y \in T : ~ (<<y, x>> \in R)  BY <1>2, WFMin
<1>4. \A y \in T : ~ (y < x)  BY <1>1, <1>3 DEF OpToRel
<1> QED  BY <1>4

LEMMA Associative ==
  ASSUME NEW S
  PROVE  \A x, y, z \in Seq(S) : (x \o y) \o z = x \o (y \o z)
BY ConcatAssociative

\* f[i] is what the first i sequences of ss make together.
Joined(ss, n, f) == f = [i \in 1 .. n |-> IF i = 1 THEN ss[i] ELSE f[i - 1] \o ss[i]]

LEMMA JoinedExists ==
  ASSUME NEW S, NEW ss \in Seq(Seq(S)), NEW n \in 1 .. Len(ss)
  PROVE  \E f \in [1 .. n -> Seq(S)] : Joined(ss, n, f)
<1> DEFINE T == {m \in 1 .. Len(ss) : ~ \E f \in [1 .. m -> Seq(S)] : Joined(ss, m, f)}
<1> SUFFICES ASSUME T # {} PROVE FALSE
  OBVIOUS
<1>1. Len(ss) \in Nat /\ T \subseteq Nat  BY LenProperties
<1>2. PICK m \in T : \A k \in T : m <= k
  <2> HIDE DEF T
  <2> QED  BY <1>1, LeastOf
<1>3. ss[m] \in Seq(S)  BY <1>2, ElementOfSeq
<1>4. CASE m = 1
  <2>1. PICK f : f = [i \in 1 .. 1 |-> ss[1]]  OBVIOUS
  <2>2. f \in [1 .. 1 -> Seq(S)]  BY <1>3, <1>4, <2>1
  <2>3. Joined(ss, 1, f)  BY <2>1 DEF Joined
  <2> QED  BY <1>4, <2>2, <2>3
<1>5. CASE m # 1
  <2>1. m \in Nat /\ m - 1 \in 1 .. Len(ss) /\ m \in 2 .. Len(ss)  BY <1>1, <1>5
  <2>2. m - 1 \notin T
    <3> HIDE DEF T
    <3> QED  BY <1>2, <2>1
  <2>3. PICK f \in [1 .. m - 1 -> Seq(S)] : Joined(ss, m - 1, f)  BY <2>1, <2>2
  <2>4. f[m - 1] \in Seq(S)  BY <2>1, <2>3
  <2>5. PICK last \in Seq(S) : last = f[m - 1] \o ss[m]  BY <1>3, <2>4, ConcatProperties
  <2>6. PICK g : g = [i \in 1 .. m |-> IF i = m THEN last ELSE f[i]]  OBVIOUS
  <2>7. g \in [1 .. m -> Seq(S)]  BY <2>1, <2>3, <2>6
  <2>8. ASSUME NEW i \in 1 .. m
        PROVE  g[i] = IF i = 1 THEN ss[i] ELSE g[i - 1] \o ss[i]
    <3>1. CASE i = m
      <4>1. g[i] = last /\ g[i - 1] = f[m - 1] /\ i # 1  BY <2>1, <2>6, <3>1
      <4> QED  BY <2>5, <3>1, <4>1
    <3>2. CASE i # m
      <4>1. i \in 1 .. m - 1  BY <2>1, <3>2
      <4>2. f[i] = IF i = 1 THEN ss[i] ELSE f[i - 1] \o ss[i]  BY <2>3, <4>1 DEF Joined
      <4>3. g[i] = f[i] /\ (i # 1 => g[i - 1] = f[i - 1])  BY <2>1, <2>6, <4>1
      <4> QED  BY <4>2, <4>3
    <3> QED  BY <3>1, <3>2
  <2>9. Joined(ss, m, g)  BY <2>7, <2>8 DEF Joined
  <2> QED  BY <2>7, <2>9
<1> QED  BY <1>4, <1>5

\* The facts of such a function that the other proofs use
LEMMA JoinedFacts ==
  ASSUME NEW S, NEW ss \in Seq(Seq(S)), NEW f, Joined(ss, Len(ss), f), Len(ss) # 0
  PROVE  /\ \A i \in 1 .. Len(ss) : f[i] \in Seq(S)
         /\ f[1] = ss[1]
         /\ \A i \in 2 .. Len(ss) : f[i] = f[i - 1] \o ss[i]
<1>0. PICK n \in Nat : n = Len(ss) /\ n # 0  BY LenProperties
<1>1. f[1] = ss[1]  BY <1>0 DEF Joined
<1>2. \A i \in 2 .. n : f[i] = f[i - 1] \o ss[i]
  <2> TAKE i \in 2 .. n
  <2>1. i \in 1 .. n /\ i # 1  BY <1>0
  <2>2. f[i] = IF i = 1 THEN ss[i] ELSE f[i - 1] \o ss[i]  BY <1>0, <2>1 DEF Joined
  <2> QED  BY <2>1, <2>2
<1>3. \A i \in 1 .. n : f[i] \in Seq(S)
  <2> DEFINE T == {k \in 1 .. n : f[k] \notin Seq(S)}
  <2> SUFFICES ASSUME T # {} PROVE FALSE
    OBVIOUS
  <2>1. T \subseteq Nat  BY <1>0
  <2>2. PICK m \in T : \A k \in T : m <= k
    <3> HIDE DEF T
    <3> QED  BY <2>1, LeastOf
  <2>3. m \in 1 .. n /\ ss[m] \in Seq(S)  BY <1>0, <2>2, ElementOfSeq
  <2>4. m # 1  BY <1>1, <2>2, <2>3
  <2>5. m \in 2 .. n /\ m - 1 \in 1 .. n  BY <1>0, <2>3, <2>4
  <2>6. m - 1 \notin T
    <3> HIDE DEF T
    <3> QED  BY <2>2, <2>5
  <2>7. f[m - 1] \in Seq(S)  BY <2>5, <2>6
  <2>8. f[m] = f[m - 1] \o ss[m]  BY <1>2, <2>5
  <2>9. f[m] \in Seq(S)  BY <2>3, <2>7, <2>8, ConcatProperties
  <2> QED  BY <2>2, <2>9
<1> QED  BY <1>0, <1>1, <1>2, <1>3

LEMMA FlattenIsJoined ==
  ASSUME NEW S, NEW ss \in Seq(Seq(S)), Len(ss) # 0
  PROVE  \E f : /\ Joined(ss, Len(ss), f)
                /\ FlattenSeq(ss) = f[Len(ss)]
<1>1. Len(ss) \in Nat /\ Len(ss) \in 1 .. Len(ss)  BY LenProperties
<1>2. PICK g : Joined(ss, Len(ss), g)  BY <1>1, JoinedExists
<1>3. PICK f : f = CHOOSE h : Joined(ss, Len(ss), h)  OBVIOUS
<1>4. Joined(ss, Len(ss), f)  BY <1>2, <1>3
<1>5. FlattenSeq(ss) = f[Len(ss)]  BY <1>3 DEF FlattenSeq, Joined
<1> QED  BY <1>4, <1>5

LEMMA FlattenEmpty == FlattenSeq(<<>>) = <<>>
BY DEF FlattenSeq

LEMMA FlattenType ==
  ASSUME NEW S, NEW ss \in Seq(Seq(S))
  PROVE  FlattenSeq(ss) \in Seq(S)
<1>1. CASE Len(ss) = 0
  <2>1. ss = <<>>  BY <1>1, EmptySeq
  <2> QED  BY <2>1, FlattenEmpty, EmptySeq
<1>2. CASE Len(ss) # 0
  <2>1. Len(ss) \in 1 .. Len(ss)  BY <1>2, LenProperties
  <2>2. PICK f : Joined(ss, Len(ss), f) /\ FlattenSeq(ss) = f[Len(ss)]
    BY <1>2, FlattenIsJoined
  <2> QED  BY <1>2, <2>1, <2>2, JoinedFacts, ZenonT(60)
<1> QED  BY <1>1, <1>2

Agree(ss, tt, n) == \A i \in 1 .. n : ss[i] = tt[i]

\* A function for a sequence and one for an initial part of it agree there.
LEMMA JoinedUnique ==
  ASSUME NEW S, NEW ss \in Seq(Seq(S)), NEW tt \in Seq(Seq(S)), NEW n \in Nat,
         n # 0, n <= Len(ss), n <= Len(tt), Agree(ss, tt, n),
         NEW f, Joined(ss, Len(ss), f), NEW g, Joined(tt, Len(tt), g)
  PROVE  f[n] = g[n]
<1> DEFINE T == {k \in 1 .. n : f[k] # g[k]}
<1>0. n \in 1 .. n  OBVIOUS
<1> SUFFICES ASSUME T # {} PROVE FALSE
  BY <1>0
<1>1. T \subseteq Nat  OBVIOUS
<1>2. PICK m \in T : \A k \in T : m <= k
  <2> HIDE DEF T
  <2> QED  BY <1>1, LeastOf
<1>3. Len(ss) \in Nat /\ Len(tt) \in Nat /\ Len(ss) # 0 /\ Len(tt) # 0  BY LenProperties
<1>4. m \in 1 .. n /\ ss[m] = tt[m] /\ ss[1] = tt[1]  BY <1>2 DEF Agree
<1>5. f[1] = ss[1] /\ \A i \in 2 .. Len(ss) : f[i] = f[i - 1] \o ss[i]
  BY <1>3, JoinedFacts, ZenonT(60)
<1>51. g[1] = tt[1] /\ \A i \in 2 .. Len(tt) : g[i] = g[i - 1] \o tt[i]
  BY <1>3, JoinedFacts, ZenonT(60)
<1>6. m # 1  BY <1>2, <1>4, <1>5, <1>51
<1>7. m \in 2 .. Len(ss) /\ m \in 2 .. Len(tt) /\ m - 1 \in 1 .. n  BY <1>3, <1>4, <1>6, SMTT(40)
<1>8. m - 1 \notin T
  <2> HIDE DEF T
  <2> QED  BY <1>2, <1>7
<1>9. f[m - 1] = g[m - 1]  BY <1>7, <1>8
<1>10. f[m] = f[m - 1] \o ss[m] /\ g[m] = g[m - 1] \o tt[m]  BY <1>5, <1>51, <1>7
<1>11. f[m] = g[m]  BY <1>4, <1>9, <1>10
<1> QED  BY <1>2, <1>11

\* One sequence more at the end
LEMMA FlattenAppend ==
  ASSUME NEW S, NEW ss \in Seq(Seq(S)), NEW e \in Seq(S)
  PROVE  FlattenSeq(Append(ss, e)) = FlattenSeq(ss) \o e
<1>0. PICK n \in Nat : n = Len(ss)  BY LenProperties
<1>1. PICK tt : tt = Append(ss, e)  OBVIOUS
<1>11. /\ tt \in Seq(Seq(S)) /\ Len(tt) = n + 1 /\ tt[n + 1] = e
       /\ \A i \in 1 .. n : ss[i] = tt[i]
  BY <1>0, <1>1, AppendProperties
<1>12. Len(tt) # 0 /\ n <= Len(ss) /\ n <= Len(tt)  BY <1>0, <1>11
<1>2. PICK g : Joined(tt, Len(tt), g) /\ FlattenSeq(tt) = g[Len(tt)]
  BY <1>11, <1>12, FlattenIsJoined
<1>3. g[1] = tt[1] /\ \A i \in 2 .. Len(tt) : g[i] = g[i - 1] \o tt[i]
  <2>1. tt \in Seq(Seq(S)) /\ Len(tt) # 0 /\ Joined(tt, Len(tt), g)  BY <1>11, <1>12, <1>2
  <2>2. g[1] = tt[1]  BY <2>1, JoinedFacts, Zenon
  <2>3. \A i \in 2 .. Len(tt) : g[i] = g[i - 1] \o tt[i]  BY <2>1, JoinedFacts, ZenonT(40)
  <2> QED  BY <2>2, <2>3
<1>4. CASE n = 0
  <2>1. ss = <<>>  BY <1>0, <1>4, EmptySeq
  <2>2. FlattenSeq(tt) = e  BY <1>11, <1>2, <1>3, <1>4
  <2>3. <<>> \o e = e  BY ConcatEmptySeq
  <2> QED  BY <1>1, <2>1, <2>2, <2>3, FlattenEmpty
<1>5. CASE n # 0
  <2>1. PICK f : Joined(ss, Len(ss), f) /\ FlattenSeq(ss) = f[Len(ss)]
    BY <1>0, <1>5, FlattenIsJoined
  <2>2. tt \in Seq(Seq(S)) /\ Joined(tt, Len(tt), g) /\ Agree(ss, tt, n)
    BY <1>11, <1>2 DEF Agree
  <2>3. f[n] = g[n]  BY <1>12, <1>5, <2>1, <2>2, JoinedUnique
  <2>4. n + 1 \in 2 .. Len(tt) /\ (n + 1) - 1 = n  BY <1>0, <1>11, <1>5
  <2>5. g[n + 1] = g[n] \o e  BY <1>11, <1>3, <2>4
  <2> QED  BY <1>0, <1>1, <1>11, <1>2, <2>1, <2>3, <2>5
<1> QED  BY <1>4, <1>5

\* The first sequence comes first.
LEMMA FlattenTail ==
  ASSUME NEW S, NEW ss \in Seq(Seq(S)), ss # <<>>
  PROVE  FlattenSeq(ss) = Head(ss) \o FlattenSeq(Tail(ss))
<1>0. PICK n \in Nat : n = Len(ss) /\ n # 0  BY EmptySeq
<1>1. PICK h, tt : h = Head(ss) /\ tt = Tail(ss)  OBVIOUS
<1>11. /\ h \in Seq(S) /\ tt \in Seq(Seq(S)) /\ Len(tt) = n - 1
       /\ \A i \in 1 .. Len(tt) : tt[i] = ss[i + 1]
  BY <1>0, <1>1, HeadTailProperties
<1>12. h = ss[1]  BY <1>1
<1>2. PICK f : Joined(ss, Len(ss), f) /\ FlattenSeq(ss) = f[Len(ss)]
  BY <1>0, FlattenIsJoined
<1>3. f[1] = ss[1] /\ \A i \in 2 .. Len(ss) : f[i] = f[i - 1] \o ss[i]
  BY <1>0, <1>2, JoinedFacts, ZenonT(60)
<1>4. CASE n = 1
  <2>1. tt = <<>>  BY <1>11, <1>4, EmptySeq
  <2>2. h \o <<>> = h  BY <1>11, ConcatEmptySeq
  <2> QED  BY <1>0, <1>1, <1>12, <1>2, <1>3, <1>4, <2>1, <2>2, FlattenEmpty
<1>5. CASE n # 1
  <2>1. Len(tt) # 0  BY <1>0, <1>11, <1>5
  <2>2. PICK g : Joined(tt, Len(tt), g) /\ FlattenSeq(tt) = g[Len(tt)]
    BY <1>11, <2>1, FlattenIsJoined
  <2>3. /\ \A i \in 1 .. Len(tt) : g[i] \in Seq(S)
        /\ g[1] = tt[1]
        /\ \A i \in 2 .. Len(tt) : g[i] = g[i - 1] \o tt[i]
    BY <1>11, <2>1, <2>2, JoinedFacts, ZenonT(60)
  <2> DEFINE T == {k \in 1 .. n - 1 : f[k + 1] # h \o g[k]}
  <2>4. T = {}
    <3> SUFFICES ASSUME T # {} PROVE FALSE
      OBVIOUS
    <3>1. T \subseteq Nat  BY <1>0
    <3>2. PICK m \in T : \A k \in T : m <= k
      <4> HIDE DEF T
      <4> QED  BY <3>1, LeastOf
    <3>3. m \in 1 .. n - 1 /\ m + 1 \in 2 .. n /\ (m + 1) - 1 = m  BY <1>0, <3>2
    <3>4. f[m + 1] = f[m] \o ss[m + 1] /\ tt[m] = ss[m + 1]  BY <1>0, <1>11, <1>3, <3>3
    <3>5. CASE m = 1  BY <1>12, <1>3, <2>3, <3>2, <3>4, <3>5
    <3>6. CASE m # 1
      <4>1. m \in 2 .. n - 1 /\ m - 1 \in 1 .. n - 1 /\ (m - 1) + 1 = m  BY <3>3, <3>6
      <4>2. m - 1 \notin T
        <5> HIDE DEF T
        <5> QED  BY <3>2, <4>1
      <4>3. f[m] = h \o g[m - 1]  BY <4>1, <4>2
      <4>4. g[m] = g[m - 1] \o tt[m]  BY <1>11, <2>3, <4>1
      <4>5. g[m - 1] \in Seq(S) /\ tt[m] \in Seq(S)  BY <1>11, <2>3, <3>3, <4>1, ElementOfSeq
      <4>6. (h \o g[m - 1]) \o tt[m] = h \o (g[m - 1] \o tt[m])
        <5> HIDE DEF T
        <5>1. \A x, y, z \in Seq(S) : (x \o y) \o z = x \o (y \o z)  BY Associative, SMTT(40)
        <5>2. h \in Seq(S)  BY <1>11
        <5> QED  BY <4>5, <5>1, <5>2
      <4>7. f[m + 1] = h \o g[m]  BY <3>4, <4>3, <4>4, <4>6
      <4> QED  BY <3>2, <4>7
    <3> QED  BY <3>5, <3>6
  <2>5. n - 1 \in 1 .. n - 1 /\ (n - 1) + 1 = n  BY <1>0, <1>5
  <2>6. f[n] = h \o g[n - 1]  BY <2>4, <2>5
  <2> QED  BY <1>0, <1>1, <1>11, <1>2, <2>2, <2>6
<1> QED  BY <1>4, <1>5

-----------------------------------------------------------------------------
(***************************************************************************)
(* The units of packets                                                    *)
(***************************************************************************)

LEMMA UnitsFacts ==
  ASSUME NEW p \in Nat, NEW a \in Nat, NEW b \in Nat, a <= b
  PROVE  /\ Units(p, a, b) \in Seq(Nat \X Nat)
         /\ Len(Units(p, a, b)) = b - a
         /\ \A i \in 1 .. b - a : Units(p, a, b)[i] = <<p, a + i>>
<1>1. PICK n \in Nat : n = b - a  OBVIOUS
<1>2. Units(p, a, b) = [i \in 1 .. n |-> <<p, a + i>>]  BY <1>1 DEF Units
<1>3. \A i \in 1 .. n : <<p, a + i>> \in Nat \X Nat  OBVIOUS
<1> QED  BY <1>1, <1>2, <1>3

LEMMA NoUnits == ASSUME NEW p \in Nat, NEW a \in Nat PROVE Units(p, a, a) = <<>>
<1>1. Units(p, a, a) \in Seq(Nat \X Nat) /\ Len(Units(p, a, a)) = 0  BY UnitsFacts
<1> QED  BY <1>1, EmptySeq

\* A packet cut in two
LEMMA UnitsJoin ==
  ASSUME NEW p \in Nat, NEW a \in Nat, NEW b \in Nat, NEW c \in Nat, a <= b, b <= c
  PROVE  Units(p, a, b) \o Units(p, b, c) = Units(p, a, c)
<1>0. PICK x, y, z : x = Units(p, a, b) /\ y = Units(p, b, c) /\ z = Units(p, a, c)
  OBVIOUS
<1>1. /\ x \in Seq(Nat \X Nat) /\ Len(x) = b - a /\ \A i \in 1 .. b - a : x[i] = <<p, a + i>>
      /\ y \in Seq(Nat \X Nat) /\ Len(y) = c - b /\ \A i \in 1 .. c - b : y[i] = <<p, b + i>>
      /\ z \in Seq(Nat \X Nat) /\ Len(z) = c - a /\ \A i \in 1 .. c - a : z[i] = <<p, a + i>>
  <2>1. a <= c  OBVIOUS
  <2>2. /\ x \in Seq(Nat \X Nat) /\ Len(x) = b - a
        /\ \A i \in 1 .. b - a : x[i] = <<p, a + i>>
    BY <1>0, UnitsFacts, ZenonT(60)
  <2>3. /\ y \in Seq(Nat \X Nat) /\ Len(y) = c - b
        /\ \A i \in 1 .. c - b : y[i] = <<p, b + i>>
    BY <1>0, UnitsFacts
  <2>4. /\ z \in Seq(Nat \X Nat) /\ Len(z) = c - a
        /\ \A i \in 1 .. c - a : z[i] = <<p, a + i>>
    BY <1>0, <2>1, UnitsFacts, ZenonT(60)
  <2> QED  BY <2>2, <2>3, <2>4
<1>2. x \o y \in Seq(Nat \X Nat) /\ Len(x \o y) = Len(x) + Len(y)
      /\ \A i \in 1 .. Len(x) + Len(y) : (x \o y)[i] = IF i <= Len(x) THEN x[i] ELSE y[i - Len(x)]
  BY <1>1, ConcatProperties
<1>3. Len(x \o y) = Len(z)  BY <1>1, <1>2
<1>4. ASSUME NEW i \in 1 .. c - a
      PROVE  (x \o y)[i] = z[i]
  <2>1. CASE i <= b - a
    <3>0. i \in 1 .. Len(x) + Len(y) /\ i <= Len(x)  BY <1>1, <2>1
    <3>1. (x \o y)[i] = x[i]  BY <1>2, <3>0
    <3>2. x[i] = <<p, a + i>>
      <4>1. i \in 1 .. b - a  BY <2>1
      <4> QED  BY <1>1, <4>1
    <3>3. z[i] = <<p, a + i>>  BY <1>1
    <3> QED  BY <3>1, <3>2, <3>3
  <2>2. CASE ~ (i <= b - a)
    <3>0. i - (b - a) \in 1 .. c - b  BY <2>2
    <3>1. PICK j \in 1 .. c - b : j = i - (b - a)  BY <3>0
    <3>2. (x \o y)[i] = y[j]
      <4>1. i \in 1 .. Len(x) + Len(y) /\ ~ (i <= Len(x)) /\ j = i - Len(x)
        BY <1>1, <2>2, <3>1
      <4> QED  BY <1>2, <4>1
    <3>3. b + j = a + i  BY <3>1
    <3>4. y[j] = <<p, b + j>> /\ z[i] = <<p, a + i>>  BY <1>1
    <3> QED  BY <3>2, <3>3, <3>4
  <2> QED  BY <2>1, <2>2
<1>5. x \o y = z  BY <1>1, <1>2, <1>3, <1>4, SeqEqual
<1> QED  BY <1>0, <1>5

LEMMA AllUnitsFacts ==
  ASSUME NEW lengths \in Seq(Nat)
  PROVE  /\ AllUnits(lengths) \in Seq(Nat \X Nat)
         /\ \A l \in Nat : AllUnits(Append(lengths, l)) =
                              AllUnits(lengths) \o Units(Len(lengths) + 1, 0, l)
<1>1. PICK n \in Nat : n = Len(lengths) /\ DOMAIN lengths = 1 .. n  BY LenProperties
<1>2. \A i \in 1 .. n : lengths[i] \in Nat  BY <1>1, ElementOfSeq
<1>3. PICK ss : ss = [i \in 1 .. n |-> Units(i, 0, lengths[i])]  OBVIOUS
<1>4. \A i \in 1 .. n : Units(i, 0, lengths[i]) \in Seq(Nat \X Nat)
  <2> TAKE i \in 1 .. n
  <2>1. PICK l \in Nat : l = lengths[i] /\ 0 <= l  BY <1>2
  <2>2. i \in Nat  OBVIOUS
  <2>3. Units(i, 0, l) \in Seq(Nat \X Nat)  BY <2>1, <2>2, UnitsFacts
  <2> QED  BY <2>1, <2>3
<1>5. ss \in Seq(Seq(Nat \X Nat)) /\ Len(ss) = n
  <2>1. PICK Q : Q = Seq(Nat \X Nat)  OBVIOUS
  <2>2. ss \in [1 .. n -> Q]  BY <1>3, <1>4, <2>1
  <2>3. ss \in Seq(Q) /\ Len(ss) = n  BY <1>1, <2>2
  <2> QED  BY <2>1, <2>3
<1>6. AllUnits(lengths) = FlattenSeq(ss)  BY <1>1, <1>3 DEF AllUnits
<1>7. AllUnits(lengths) \in Seq(Nat \X Nat)  BY <1>5, <1>6, FlattenType
<1>8. ASSUME NEW l \in Nat
      PROVE  AllUnits(Append(lengths, l)) = AllUnits(lengths) \o Units(Len(lengths) + 1, 0, l)
  <2>1. PICK u \in Seq(Nat \X Nat) : u = Units(n + 1, 0, l)  BY UnitsFacts
  <2>2. PICK more : more = Append(lengths, l)  OBVIOUS
  <2>3. /\ DOMAIN more = 1 .. n + 1 /\ more[n + 1] = l
        /\ \A i \in 1 .. n : more[i] = lengths[i]
    BY <1>1, <2>2, AppendProperties, LenProperties
  <2>4. PICK tt : tt = [i \in 1 .. n + 1 |-> Units(i, 0, more[i])]  OBVIOUS
  <2>5. AllUnits(more) = FlattenSeq(tt)  BY <2>3, <2>4 DEF AllUnits
  <2>6. tt = Append(ss, u)
    <3>1. \A i \in 1 .. n : tt[i] = ss[i]  BY <1>3, <2>3, <2>4
    <3>2. tt[n + 1] = u  BY <2>1, <2>3, <2>4
    <3>3. PICK q : q = Append(ss, u)  OBVIOUS
    <3>4. q \in Seq(Seq(Nat \X Nat)) /\ Len(q) = n + 1 /\ q[n + 1] = u
          /\ \A i \in 1 .. n : q[i] = ss[i]
      BY <1>5, <3>3, AppendProperties
    <3>5. DOMAIN q = 1 .. n + 1 /\ q = [i \in DOMAIN q |-> q[i]]  BY <3>4, LenProperties
    <3>6. \A i \in 1 .. n + 1 : tt[i] = q[i]
      <4>1. \A i \in 1 .. n + 1 : i \in 1 .. n \/ i = n + 1  OBVIOUS
      <4>2. tt[n + 1] = q[n + 1]  BY <3>2, <3>4
      <4>3. \A i \in 1 .. n : tt[i] = q[i]  BY <3>1, <3>4
      <4> QED  BY <4>1, <4>2, <4>3
    <3> QED  BY <2>4, <3>3, <3>5, <3>6
  <2>7. FlattenSeq(tt) = FlattenSeq(ss) \o u
    <3>1. ss \in Seq(Seq(Nat \X Nat))  BY <1>5
    <3> QED  BY <2>6, <3>1, FlattenAppend
  <2> QED  BY <1>1, <1>6, <2>1, <2>2, <2>5, <2>7
<1> QED  BY <1>7, <1>8

LEMMA AllUnitsEmpty == AllUnits(<<>>) = <<>>
<1>1. [i \in DOMAIN <<>> |-> Units(i, 0, <<>>[i])] = <<>>  OBVIOUS
<1> QED  BY <1>1, FlattenEmpty DEF AllUnits

-----------------------------------------------------------------------------
(***************************************************************************)
(* The units that a queue still has to write                               *)
(***************************************************************************)

\* Queued, of a queue and the lengths that were accepted
Rest(q, a) == FlattenSeq([i \in DOMAIN q |-> Units(q[i].id, q[i].cursor, a[q[i].id])])

QueueOK(q, a) ==
    /\ q \in Seq(Waiting) /\ a \in Seq(Nat)
    /\ \A i \in DOMAIN q : q[i].id \in DOMAIN a /\ q[i].cursor <= a[q[i].id]

\* The units of each packet of the queue
Parts(q, a) == [i \in 1 .. Len(q) |-> Units(q[i].id, q[i].cursor, a[q[i].id])]

LEMMA PartsFacts ==
  ASSUME NEW q, NEW a, QueueOK(q, a)
  PROVE  /\ Len(q) \in Nat /\ DOMAIN q = 1 .. Len(q)
         /\ Rest(q, a) = FlattenSeq(Parts(q, a))
         /\ Parts(q, a) \in Seq(Seq(Nat \X Nat)) /\ Len(Parts(q, a)) = Len(q)
         /\ \A i \in 1 .. Len(q) : /\ q[i].id \in Nat /\ q[i].cursor \in Nat
                                   /\ a[q[i].id] \in Nat /\ q[i].cursor <= a[q[i].id]
                                   /\ Parts(q, a)[i] = Units(q[i].id, q[i].cursor, a[q[i].id])
                                   /\ Parts(q, a)[i] \in Seq(Nat \X Nat)
<1>1. q \in Seq(Waiting) /\ a \in Seq(Nat)  BY DEF QueueOK
<1>2. PICK n \in Nat : n = Len(q) /\ DOMAIN q = 1 .. n  BY <1>1, LenProperties
<1>3. ASSUME NEW i \in 1 .. n
      PROVE  /\ q[i].id \in Nat /\ q[i].cursor \in Nat
             /\ a[q[i].id] \in Nat /\ q[i].cursor <= a[q[i].id]
             /\ Units(q[i].id, q[i].cursor, a[q[i].id]) \in Seq(Nat \X Nat)
  <2>1. q[i] \in Waiting  BY <1>1, <1>2, ElementOfSeq
  <2>2. PICK d, c \in Nat : d = q[i].id /\ c = q[i].cursor  BY <2>1 DEF Waiting
  <2>3. d \in DOMAIN a /\ c <= a[d]  BY <1>2, <2>2 DEF QueueOK
  <2>4. d \in 1 .. Len(a)  BY <1>1, <2>3, LenProperties
  <2>5. a[d] \in Nat  BY <1>1, <2>4, ElementOfSeq
  <2>6. Units(d, c, a[d]) \in Seq(Nat \X Nat)  BY <2>2, <2>3, <2>5, UnitsFacts
  <2> QED  BY <2>2, <2>3, <2>5, <2>6
<1>4. PICK ss : ss = Parts(q, a)  OBVIOUS
<1>5. ss = [i \in 1 .. n |-> Units(q[i].id, q[i].cursor, a[q[i].id])]  BY <1>2, <1>4 DEF Parts
<1>6. Rest(q, a) = FlattenSeq(ss)  BY <1>2, <1>5 DEF Rest
<1>7. ss \in Seq(Seq(Nat \X Nat)) /\ Len(ss) = n
  <2>1. PICK Q : Q = Seq(Nat \X Nat)  OBVIOUS
  <2>2. ss \in [1 .. n -> Q]  BY <1>3, <1>5, <2>1
  <2>3. ss \in Seq(Q) /\ Len(ss) = n  BY <1>2, <2>2
  <2> QED  BY <2>1, <2>3
<1>8. \A i \in 1 .. n : ss[i] = Units(q[i].id, q[i].cursor, a[q[i].id])  BY <1>5
<1> QED  BY <1>2, <1>3, <1>4, <1>6, <1>7, <1>8

LEMMA RestType ==
  ASSUME NEW q, NEW a, QueueOK(q, a)
  PROVE  Rest(q, a) \in Seq(Nat \X Nat)
<1>1. PICK ss \in Seq(Seq(Nat \X Nat)) : Rest(q, a) = FlattenSeq(ss)  BY PartsFacts
<1> QED  BY <1>1, FlattenType

LEMMA RestEmpty == \A a : Rest(<<>>, a) = <<>>
<1> TAKE a
<1>1. [i \in DOMAIN <<>> |-> Units(<<>>[i].id, <<>>[i].cursor, a[<<>>[i].id])] = <<>>  OBVIOUS
<1> QED  BY <1>1, FlattenEmpty DEF Rest

\* Another packet is accepted.
LEMMA RestExtend ==
  ASSUME NEW q, NEW a, QueueOK(q, a), NEW l \in Nat
  PROVE  QueueOK(q, Append(a, l)) /\ Rest(q, Append(a, l)) = Rest(q, a)
<1>1. q \in Seq(Waiting) /\ a \in Seq(Nat)  BY DEF QueueOK
<1>2. PICK b : b = Append(a, l)  OBVIOUS
<1>3. PICK m \in Nat : m = Len(a) /\ DOMAIN a = 1 .. m  BY <1>1, LenProperties
<1>4. b \in Seq(Nat) /\ DOMAIN b = 1 .. m + 1 /\ \A i \in 1 .. m : b[i] = a[i]
  BY <1>1, <1>2, <1>3, AppendProperties, LenProperties
<1>5. \A i \in DOMAIN q : q[i].id \in 1 .. m /\ q[i].cursor <= a[q[i].id]
                          /\ b[q[i].id] = a[q[i].id]
  BY <1>3, <1>4 DEF QueueOK
<1>6. 1 .. m \subseteq 1 .. m + 1  OBVIOUS
<1>7. QueueOK(q, b)  BY <1>1, <1>4, <1>5, <1>6 DEF QueueOK
<1>8. [i \in DOMAIN q |-> Units(q[i].id, q[i].cursor, b[q[i].id])]
      = [i \in DOMAIN q |-> Units(q[i].id, q[i].cursor, a[q[i].id])]
  BY <1>5
<1>9. Rest(q, b) = Rest(q, a)  BY <1>8 DEF Rest
<1> QED  BY <1>2, <1>7, <1>9

\* The packet waits behind the others.
LEMMA RestAppend ==
  ASSUME NEW q, NEW a, QueueOK(q, a), NEW d \in DOMAIN a, NEW c \in Nat, c <= a[d]
  PROVE  /\ QueueOK(Append(q, [id |-> d, cursor |-> c]), a)
         /\ Rest(Append(q, [id |-> d, cursor |-> c]), a) = Rest(q, a) \o Units(d, c, a[d])
<1>1. q \in Seq(Waiting) /\ a \in Seq(Nat)  BY DEF QueueOK
<1>2. d \in Nat /\ a[d] \in Nat
  <2>1. d \in 1 .. Len(a) /\ Len(a) \in Nat  BY <1>1, LenProperties
  <2> QED  BY <1>1, <2>1, ElementOfSeq
<1>3. PICK u \in Seq(Nat \X Nat) : u = Units(d, c, a[d])  BY <1>2, UnitsFacts
<1>4. PICK p : p = [id |-> d, cursor |-> c]  OBVIOUS
<1>41. p \in Waiting /\ p.id = d /\ p.cursor = c  BY <1>2, <1>4 DEF Waiting
<1>5. PICK n \in Nat : n = Len(q) /\ DOMAIN q = 1 .. n  BY <1>1, LenProperties
<1>6. PICK r : r = Append(q, p)  OBVIOUS
<1>7. r \in Seq(Waiting) /\ Len(r) = n + 1 /\ DOMAIN r = 1 .. n + 1 /\ r[n + 1] = p
      /\ \A i \in 1 .. n : r[i] = q[i]
  <2>1. r \in Seq(Waiting) /\ Len(r) = n + 1 /\ r[n + 1] = p
        /\ \A i \in 1 .. n : r[i] = q[i]
    BY <1>1, <1>41, <1>5, <1>6, AppendProperties
  <2> QED  BY <2>1, LenProperties
<1>8. QueueOK(r, a)
  <2> SUFFICES ASSUME NEW i \in 1 .. n + 1
               PROVE  r[i].id \in DOMAIN a /\ r[i].cursor <= a[r[i].id]
    BY <1>1, <1>7 DEF QueueOK
  <2>1. CASE i = n + 1  BY <1>41, <1>7, <2>1
  <2>2. CASE i # n + 1
    <3>1. i \in 1 .. n  BY <2>2
    <3>2. q[i].id \in DOMAIN a /\ q[i].cursor <= a[q[i].id]  BY <1>5, <3>1 DEF QueueOK
    <3> QED  BY <1>7, <3>1, <3>2
  <2> QED  BY <2>1, <2>2
<1>9. PICK ss \in Seq(Seq(Nat \X Nat)) :
         ss = Parts(q, a) /\ Len(ss) = n /\ Rest(q, a) = FlattenSeq(ss)
  BY <1>5, PartsFacts
<1>10. PICK tt \in Seq(Seq(Nat \X Nat)) :
         tt = Parts(r, a) /\ Len(tt) = n + 1 /\ Rest(r, a) = FlattenSeq(tt)
  BY <1>7, <1>8, PartsFacts
<1>11. tt = Append(ss, u)
  <2>1. PICK v : v = Append(ss, u)  OBVIOUS
  <2>2. v \in Seq(Seq(Nat \X Nat)) /\ Len(v) = n + 1 /\ v[n + 1] = u
        /\ \A i \in 1 .. n : v[i] = ss[i]
    BY <1>9, <2>1, AppendProperties
  <2>3. \A i \in 1 .. n : tt[i] = ss[i]
    <3> TAKE i \in 1 .. n
    <3>1. ss[i] = Units(q[i].id, q[i].cursor, a[q[i].id])  BY <1>5, <1>9 DEF Parts
    <3>2. tt[i] = Units(r[i].id, r[i].cursor, a[r[i].id])  BY <1>7, <1>10 DEF Parts
    <3> QED  BY <1>7, <3>1, <3>2
  <2>4. tt[n + 1] = u
    <3>1. tt[n + 1] = Units(r[n + 1].id, r[n + 1].cursor, a[r[n + 1].id])
      BY <1>7, <1>10 DEF Parts
    <3> QED  BY <1>3, <1>41, <1>7, <3>1
  <2>5. \A i \in 1 .. n + 1 : tt[i] = v[i]
    <3>1. \A i \in 1 .. n + 1 : i \in 1 .. n \/ i = n + 1  OBVIOUS
    <3>2. \A i \in 1 .. n : tt[i] = v[i]  BY <2>2, <2>3
    <3>3. tt[n + 1] = v[n + 1]  BY <2>2, <2>4
    <3> QED  BY <3>1, <3>2, <3>3
  <2>6. tt = v  BY <1>10, <2>2, <2>5, SeqEqual
  <2> QED  BY <2>1, <2>6
<1>12. FlattenSeq(tt) = FlattenSeq(ss) \o u  BY <1>11, FlattenAppend
<1> QED  BY <1>3, <1>4, <1>6, <1>8, <1>9, <1>10, <1>12

\* The packet at the head is written first.
LEMMA RestHead ==
  ASSUME NEW q, NEW a, QueueOK(q, a), q # <<>>
  PROVE  /\ QueueOK(Tail(q), a)
         /\ q[1].id \in DOMAIN a /\ q[1].id \in Nat /\ q[1].cursor \in Nat
         /\ a[q[1].id] \in Nat /\ q[1].cursor <= a[q[1].id]
         /\ Rest(q, a) = Units(q[1].id, q[1].cursor, a[q[1].id]) \o Rest(Tail(q), a)
<1>1. q \in Seq(Waiting) /\ a \in Seq(Nat)  BY DEF QueueOK
<1>2. PICK n \in Nat : n = Len(q) /\ n # 0 /\ DOMAIN q = 1 .. n
  BY <1>1, EmptySeq, LenProperties
<1>3. PICK t : t = Tail(q)  OBVIOUS
<1>4. t \in Seq(Waiting) /\ Len(t) = n - 1 /\ DOMAIN t = 1 .. n - 1
      /\ \A i \in 1 .. n - 1 : t[i] = q[i + 1]
  <2>1. t \in Seq(Waiting) /\ Len(t) = n - 1 /\ \A i \in 1 .. Len(t) : t[i] = q[i + 1]
    BY <1>1, <1>2, <1>3, HeadTailProperties
  <2> QED  BY <2>1, LenProperties
<1>5. QueueOK(t, a)
  <2> SUFFICES ASSUME NEW i \in 1 .. n - 1
               PROVE  t[i].id \in DOMAIN a /\ t[i].cursor <= a[t[i].id]
    BY <1>1, <1>4 DEF QueueOK
  <2>1. i + 1 \in DOMAIN q /\ t[i] = q[i + 1]  BY <1>2, <1>4
  <2>2. q[i + 1].id \in DOMAIN a /\ q[i + 1].cursor <= a[q[i + 1].id]  BY <2>1 DEF QueueOK
  <2> QED  BY <2>1, <2>2
<1>6. 1 \in 1 .. n  BY <1>2
<1>7. q[1].id \in DOMAIN a  BY <1>2, <1>6 DEF QueueOK
<1>8. PICK ss \in Seq(Seq(Nat \X Nat)) :
         ss = Parts(q, a) /\ Len(ss) = n /\ Rest(q, a) = FlattenSeq(ss)
  BY <1>2, PartsFacts
<1>9. PICK tt \in Seq(Seq(Nat \X Nat)) :
         tt = Parts(t, a) /\ Len(tt) = n - 1 /\ Rest(t, a) = FlattenSeq(tt)
  BY <1>4, <1>5, PartsFacts
<1>10. ss[1] = Units(q[1].id, q[1].cursor, a[q[1].id])  BY <1>2, <1>6, <1>8 DEF Parts
<1>11. ss # <<>> /\ Head(ss) = ss[1]  BY <1>2, <1>8
<1>12. tt = Tail(ss)
  <2>1. PICK v : v = Tail(ss)  OBVIOUS
  <2>2. v \in Seq(Seq(Nat \X Nat)) /\ Len(v) = n - 1
        /\ \A i \in 1 .. n - 1 : v[i] = ss[i + 1]
    BY <1>8, <1>11, <2>1, HeadTailProperties
  <2>3. ASSUME NEW i \in 1 .. n - 1
        PROVE  tt[i] = v[i]
    <3>1. tt[i] = Units(t[i].id, t[i].cursor, a[t[i].id])  BY <1>4, <1>9 DEF Parts
    <3>2. i + 1 \in 1 .. n  BY <1>2
    <3>3. ss[i + 1] = Units(q[i + 1].id, q[i + 1].cursor, a[q[i + 1].id])
      BY <1>2, <1>8, <3>2 DEF Parts
    <3> QED  BY <1>4, <2>2, <3>1, <3>3
  <2>4. tt = v  BY <1>9, <2>2, <2>3, SeqEqual
  <2> QED  BY <2>1, <2>4
<1>13. FlattenSeq(ss) = Head(ss) \o FlattenSeq(tt)  BY <1>11, <1>12, FlattenTail
<1>14. q[1].id \in Nat /\ q[1].cursor \in Nat /\ a[q[1].id] \in Nat /\ q[1].cursor <= a[q[1].id]
  BY <1>2, <1>6, PartsFacts
<1> QED  BY <1>3, <1>5, <1>7, <1>8, <1>9, <1>10, <1>11, <1>13, <1>14

\* A part of the packet at the head has been written.
LEMMA RestCut ==
  ASSUME NEW q, NEW a, QueueOK(q, a), q # <<>>, NEW c \in Nat, c <= a[q[1].id]
  PROVE  /\ QueueOK([q EXCEPT ![1].cursor = c], a)
         /\ Rest([q EXCEPT ![1].cursor = c], a)
              = Units(q[1].id, c, a[q[1].id]) \o Rest(Tail(q), a)
<1>1. q \in Seq(Waiting) /\ a \in Seq(Nat)  BY DEF QueueOK
<1>2. PICK n \in Nat : n = Len(q) /\ n # 0 /\ DOMAIN q = 1 .. n
  BY <1>1, EmptySeq, LenProperties
<1>3. PICK d : d = q[1].id /\ d \in DOMAIN a /\ d \in Nat
  <2>1. q[1].id \in DOMAIN a /\ q[1].id \in Nat  BY RestHead
  <2> QED  BY <2>1
<1>4. PICK p : p = [q[1] EXCEPT !.cursor = c]  OBVIOUS
<1>41. p \in Waiting /\ p.id = d /\ p.cursor = c
  <2>1. q[1] \in Waiting  BY <1>1, <1>2, ElementOfSeq
  <2>2. p \in Waiting /\ p.id = q[1].id /\ p.cursor = c  BY <1>4, <2>1 DEF Waiting
  <2> QED  BY <1>3, <2>2
<1>5. PICK r : r = [q EXCEPT ![1] = p]  OBVIOUS
<1>6. r = [q EXCEPT ![1].cursor = c]  BY <1>4, <1>5
<1>7. r \in Seq(Waiting) /\ Len(r) = n /\ r[1] = p
      /\ \A i \in 2 .. n : r[i] = q[i]
  <2>1. 1 \in 1 .. Len(q)  BY <1>2
  <2> QED  BY <1>1, <1>2, <1>41, <1>5, <2>1, ExceptSeq
<1>8. QueueOK(r, a)
  <2> SUFFICES ASSUME NEW i \in 1 .. n
               PROVE  r[i].id \in DOMAIN a /\ r[i].cursor <= a[r[i].id]
    BY <1>1, <1>7, LenProperties DEF QueueOK
  <2>1. CASE i = 1  BY <1>3, <1>41, <1>7, <2>1
  <2>2. CASE i # 1
    <3>1. i \in 2 .. n /\ i \in DOMAIN q  BY <1>2, <2>2
    <3>2. q[i].id \in DOMAIN a /\ q[i].cursor <= a[q[i].id]  BY <3>1 DEF QueueOK
    <3> QED  BY <1>7, <3>1, <3>2
  <2> QED  BY <2>1, <2>2
<1>9. r # <<>>  BY <1>2, <1>7, EmptySeq
<1>10. Tail(r) = Tail(q)
  <2>1. PICK v, w : v = Tail(r) /\ w = Tail(q)  OBVIOUS
  <2>2. v \in Seq(Waiting) /\ Len(v) = n - 1 /\ \A i \in 1 .. Len(v) : v[i] = r[i + 1]
    BY <1>7, <1>9, <2>1, HeadTailProperties
  <2>3. w \in Seq(Waiting) /\ Len(w) = n - 1 /\ \A i \in 1 .. Len(w) : w[i] = q[i + 1]
    BY <1>1, <1>2, <2>1, HeadTailProperties
  <2>4. \A i \in 1 .. n - 1 : v[i] = w[i]
    <3> TAKE i \in 1 .. n - 1
    <3>1. i + 1 \in 2 .. n  BY <1>2
    <3> QED  BY <1>7, <2>2, <2>3, <3>1
  <2>5. v = w  BY <2>2, <2>3, <2>4, SeqEqual
  <2> QED  BY <2>1, <2>5
<1>11. Rest(r, a) = Units(r[1].id, r[1].cursor, a[r[1].id]) \o Rest(Tail(r), a)
  BY <1>8, <1>9, RestHead
<1> QED  BY <1>3, <1>41, <1>6, <1>7, <1>8, <1>10, <1>11

-----------------------------------------------------------------------------
(***************************************************************************)
(* The functions of the object, on an object c and its socket s            *)
(***************************************************************************)

SocketFields(s) ==
    /\ s.up \in BOOLEAN /\ s.broken \in BOOLEAN /\ s.eof \in BOOLEAN /\ s.noSpace \in BOOLEAN
    /\ s.interest \subseteq {"in", "out"} /\ s.ready \in BOOLEAN
    /\ s.incoming \in Seq({"register", "refused", "ping", "response", "pong"})
    /\ s.received \in Nat /\ s.unread \in 0 .. Capacity
    /\ s.stream \in Seq(Nat \X Nat) /\ s.signals \in 0 .. MaxSignals

LEMMA Fields == \A s \in Sockets : SocketFields(s)
BY DEF Sockets, SocketFields

LEMMA Bounds == Capacity \in Nat \ {0} /\ MaxOpened \in Nat /\ MaxSignals \in Nat
BY ConnectionAssumption

LEMMA NoSocketType == NoSocket \in Sockets
<1>1. /\ NoSocket.up = FALSE /\ NoSocket.broken = FALSE
      /\ <<>> \in Seq({"register", "refused", "ping", "response", "pong"})
      /\ <<>> \in Seq(Nat \X Nat) /\ {} \in SUBSET {"in", "out"}
      /\ 0 \in 0 .. Capacity /\ 0 \in 0 .. MaxSignals
  BY Bounds DEF NoSocket
<1> QED  BY <1>1 DEF NoSocket, Sockets

\* What makes the socket readable, and what the kernel reports of it
LEMMA PollFacts ==
  ASSUME NEW s
  PROVE  /\ "in" \in Poll(s) <=> s.broken \/ s.incoming # <<>> \/ s.eof
         /\ "out" \in Poll(s) <=> s.broken \/ (s.up /\ Space(s) > 0)
         /\ "in" \in s.interest => ("in" \in Reported(s) <=> "in" \in Poll(s))
         /\ "out" \in s.interest => ("out" \in Reported(s) <=> "out" \in Poll(s))
         /\ Reported(s) \subseteq {"in", "out", "err"}
BY DEF Poll, Reported

\* Epoll::objectChange: nothing of the new interest is missed.
LEMMA ObjectChangeFacts ==
  ASSUME NEW s \in Sockets, NEW events, events \subseteq {"in", "out"}, "in" \in events
  PROVE  /\ ObjectChange(s, events) \in Sockets
         /\ ObjectChange(s, events).interest = events
         /\ ObjectChange(s, events).stream = s.stream
         /\ InputIsReady(ObjectChange(s, events))
         /\ "out" \in events => WaitsForOut(ObjectChange(s, events))
<1>1. SocketFields(s)  BY Fields
<1>2. PICK noSpace \in BOOLEAN : noSpace = (s.noSpace \/ (s.up /\ Space(s) = 0))
  <2>1. (s.noSpace \/ (s.up /\ Space(s) = 0)) \in BOOLEAN  OBVIOUS
  <2> QED  BY <2>1
<1>3. PICK t : t = [s EXCEPT !.noSpace = noSpace, !.interest = events]  OBVIOUS
<1>4. t = [Polled(s) EXCEPT !.interest = events]  BY <1>2, <1>3 DEF Polled, Sockets
<1>5. t \in Sockets /\ t.interest = events /\ t.stream = s.stream /\ t.noSpace = noSpace
      /\ t.ready = s.ready /\ t.up = s.up /\ t.unread = s.unread
  BY <1>1, <1>3 DEF Sockets
<1>6. PICK ready \in BOOLEAN : ready = (t.ready \/ Reported(t) # {})
  <2>1. (t.ready \/ Reported(t) # {}) \in BOOLEAN  OBVIOUS
  <2> QED  BY <2>1
<1>7. PICK u : u = ObjectChange(s, events)  OBVIOUS
<1>8. u = [t EXCEPT !.ready = ready]  BY <1>4, <1>6, <1>7 DEF ObjectChange
<1>9. /\ u \in Sockets /\ u.interest = events /\ u.stream = s.stream /\ u.noSpace = noSpace
      /\ u.ready = ready /\ u.up = s.up /\ u.unread = s.unread
      /\ u.broken = t.broken /\ u.incoming = t.incoming /\ u.eof = t.eof
      /\ t.up = u.up /\ t.unread = u.unread
  BY <1>5, <1>6, <1>8 DEF Sockets
<1>10. InputIsReady(u)
  <2>1. "in" \in Poll(u) => "in" \in Poll(t)  BY <1>9, PollFacts
  <2>2. "in" \in Poll(t) => "in" \in Reported(t)  BY <1>5, PollFacts
  <2>3. "in" \in Poll(u) => ready  BY <1>6, <2>1, <2>2
  <2> QED  BY <1>9, <2>3 DEF InputIsReady
<1>11. ASSUME "out" \in events PROVE WaitsForOut(u)
  <2>1. CASE ~ s.up  BY <1>9, <1>11, <2>1 DEF WaitsForOut
  <2>2. CASE s.up /\ Space(s) = 0
    <3>1. noSpace  BY <1>2, <2>2
    <3>2. Space(u) = 0  BY <1>9, <2>2 DEF Space
    <3> QED  BY <1>9, <1>11, <3>1, <3>2 DEF WaitsForOut
  <2>3. CASE s.up /\ Space(s) # 0
    <3>1. s.unread \in 0 .. Capacity  BY <1>1 DEF SocketFields
    <3>2. Space(t) > 0  BY <1>5, <2>3, <3>1, Bounds DEF Space
    <3>3. "out" \in Reported(t)  BY <1>5, <1>11, <2>3, <3>2, PollFacts
    <3>4. ready  BY <1>6, <3>3
    <3> QED  BY <1>9, <1>11, <3>4 DEF WaitsForOut
  <2> QED  BY <2>1, <2>2, <2>3
<1> QED  BY <1>7, <1>9, <1>10, <1>11

\* writeSocket on packet d of a queue, from position k on
LEMMA WriteSocketFacts ==
  ASSUME NEW c, NEW s \in Sockets, c.accepted \in Seq(Nat),
         NEW d \in DOMAIN c.accepted, NEW k \in Nat, k <= c.accepted[d],
         NEW r \in WriteSocket(c, s, [id |-> d, cursor |-> k]), ~ r.failed
  PROVE  /\ r.cursor \in Nat /\ k <= r.cursor /\ r.cursor <= c.accepted[d]
         /\ r.sock \in Sockets
         /\ r.sock.stream = s.stream \o Units(d, k, r.cursor)
         /\ r.sock.interest = s.interest /\ r.sock.ready = s.ready
         /\ InputIsReady(s) => InputIsReady(r.sock)
<1>1. SocketFields(s)  BY Fields
<1>2. d \in Nat /\ c.accepted[d] \in Nat
  <2>1. d \in 1 .. Len(c.accepted) /\ Len(c.accepted) \in Nat  BY LenProperties
  <2> QED  BY <2>1, ElementOfSeq
<1>3. PICK l \in Nat : l = c.accepted[d]  BY <1>2
<1>4. PICK left \in Nat : left = l - k  BY <1>3
<1>5. PICK space \in Nat : space = Space(s) /\ s.unread \in 0 .. Capacity
  <2>1. s.unread \in 0 .. Capacity  BY <1>1 DEF SocketFields
  <2> QED  BY <2>1, Bounds DEF Space
<1>6. PICK n \in Nat : /\ n = IF ~ s.up THEN 0 ELSE IF left < space THEN left ELSE space
                       /\ n <= left /\ n <= space
  <2>1. (IF ~ s.up THEN 0 ELSE IF left < space THEN left ELSE space) \in Nat  OBVIOUS
  <2>2. (IF ~ s.up THEN 0 ELSE IF left < space THEN left ELSE space) <= left  OBVIOUS
  <2>3. (IF ~ s.up THEN 0 ELSE IF left < space THEN left ELSE space) <= space  OBVIOUS
  <2> QED  BY <2>1, <2>2, <2>3
<1>7. PICK noSpace \in BOOLEAN : noSpace = (s.noSpace \/ (s.up /\ n < left))
  <2>1. (s.noSpace \/ (s.up /\ n < left)) \in BOOLEAN  OBVIOUS
  <2> QED  BY <2>1
<1>8. PICK written : written = [s EXCEPT !.unread = @ + n,
                                         !.stream = @ \o Units(d, k, k + n),
                                         !.noSpace = noSpace]
  OBVIOUS
<1>9. PICK all : all = s.stream \o Units(d, k, k + n)  OBVIOUS
<1>10. all \in Seq(Nat \X Nat)
  <2>0. PICK e \in Nat : e = k + n /\ k <= e  OBVIOUS
  <2>1. Units(d, k, e) \in Seq(Nat \X Nat)  BY <1>2, <2>0, UnitsFacts
  <2>2. s.stream \in Seq(Nat \X Nat)  BY <1>1 DEF SocketFields
  <2> QED  BY <1>9, <2>0, <2>1, <2>2, ConcatProperties
<1>11. /\ written \in Sockets /\ written.stream = all /\ written.interest = s.interest
       /\ written.ready = s.ready /\ written.broken = s.broken
       /\ written.incoming = s.incoming /\ written.eof = s.eof
  <2>1. s.unread + n \in 0 .. Capacity  BY <1>5, <1>6, Bounds DEF Space
  <2>2. written = [s EXCEPT !.unread = s.unread + n, !.stream = all, !.noSpace = noSpace]
    BY <1>8, <1>9 DEF Sockets
  <2> QED  BY <1>10, <2>1, <2>2 DEF Sockets
<1>12. \/ r = Result(FALSE, k + n, written)
       \/ /\ s.signals < MaxSignals
          /\ r = Result(FALSE, k, [s EXCEPT !.signals = @ + 1])
  <2>1. r # Result(TRUE, k, s)  BY DEF Result
  <2>2. r \in (IF s.broken THEN {Result(TRUE, k, s)}
               ELSE {Result(FALSE, k + n, written)}
                    \union (IF s.signals < MaxSignals
                            THEN {Result(FALSE, k, [s EXCEPT !.signals = @ + 1])} ELSE {}))
    BY <1>3, <1>4, <1>5, <1>6, <1>7, <1>8 DEF WriteSocket
  <2> QED  BY <2>1, <2>2
<1>13. CASE r = Result(FALSE, k + n, written)
  <2>1. r.cursor = k + n /\ r.sock = written  BY <1>13 DEF Result
  <2>2. k + n <= l  BY <1>4, <1>6
  <2>3. InputIsReady(s) => InputIsReady(written)  BY <1>11, PollFacts DEF InputIsReady
  <2>4. r.cursor \in Nat /\ k <= r.cursor /\ r.cursor <= c.accepted[d]
    BY <1>3, <2>1, <2>2
  <2>5. r.sock.stream = s.stream \o Units(d, k, r.cursor)  BY <1>9, <1>11, <2>1
  <2>6. r.sock \in Sockets /\ r.sock.interest = s.interest /\ r.sock.ready = s.ready
    BY <1>11, <2>1
  <2> QED  BY <2>1, <2>3, <2>4, <2>5, <2>6
<1>14. CASE s.signals < MaxSignals /\ r = Result(FALSE, k, [s EXCEPT !.signals = @ + 1])
  <2>1. PICK u : u = [s EXCEPT !.signals = @ + 1]  OBVIOUS
  <2>2. r.cursor = k /\ r.sock = u  BY <1>14, <2>1 DEF Result
  <2>3. s.signals + 1 \in 0 .. MaxSignals
    <3>1. PICK m \in 0 .. MaxSignals : m = s.signals  BY <1>1 DEF SocketFields
    <3>2. m < MaxSignals  BY <1>14, <3>1
    <3>3. m + 1 \in 0 .. MaxSignals  BY <3>2, Bounds
    <3> QED  BY <3>1, <3>3
  <2>4. /\ u \in Sockets /\ u.stream = s.stream /\ u.interest = s.interest
        /\ u.ready = s.ready /\ u.broken = s.broken /\ u.incoming = s.incoming /\ u.eof = s.eof
    BY <2>1, <2>3 DEF Sockets
  <2>5. InputIsReady(s) => InputIsReady(u)  BY <2>4, PollFacts DEF InputIsReady
  <2>6. Units(d, k, k) = <<>>  BY <1>2, NoUnits
  <2>7. s.stream \o <<>> = s.stream
    <3>1. s.stream \in Seq(Nat \X Nat)  BY <1>1 DEF SocketFields
    <3> QED  BY <3>1, ConcatEmptySeq
  <2>8. r.sock.stream = s.stream \o Units(d, k, r.cursor)  BY <2>2, <2>4, <2>6, <2>7
  <2> QED  BY <2>2, <2>4, <2>5, <2>8
<1> QED  BY <1>12, <1>13, <1>14

\* The write may begin at position k of packet d: r is what has become of it.
CanWrite(c, s, d, k) ==
    s \in Sockets /\ c.accepted \in Seq(Nat) /\ d \in DOMAIN c.accepted
    /\ k \in Nat /\ k <= c.accepted[d]

Written(c, s, d, k, r) ==
    /\ r.cursor \in Nat /\ k <= r.cursor /\ r.cursor <= c.accepted[d]
    /\ r.sock \in Sockets
    /\ r.sock.stream = s.stream \o Units(d, k, r.cursor)
    /\ r.sock.interest = s.interest /\ r.sock.ready = s.ready
    /\ InputIsReady(s) => InputIsReady(r.sock)

LEMMA WriteSocketWrites ==
  ASSUME NEW c, NEW s, NEW d, NEW k, CanWrite(c, s, d, k)
  PROVE  \A r \in WriteSocket(c, s, [id |-> d, cursor |-> k]) :
            r.failed \/ Written(c, s, d, k, r)
<1> TAKE r \in WriteSocket(c, s, [id |-> d, cursor |-> k])
<1>1. s \in Sockets /\ c.accepted \in Seq(Nat) /\ d \in DOMAIN c.accepted
      /\ k \in Nat /\ k <= c.accepted[d]
  BY DEF CanWrite
<1>2. CASE ~ r.failed
  <2>1. /\ r.cursor \in Nat /\ k <= r.cursor /\ r.cursor <= c.accepted[d]
        /\ r.sock \in Sockets
        /\ r.sock.stream = s.stream \o Units(d, k, r.cursor)
        /\ r.sock.interest = s.interest /\ r.sock.ready = s.ready
        /\ InputIsReady(s) => InputIsReady(r.sock)
    BY <1>1, <1>2, WriteSocketFacts
  <2> QED  BY <2>1 DEF Written
<1> QED  BY <1>2

IsUnits(x) == x \in Seq(Nat \X Nat)

LEMMA UnitsAssociative ==
  ASSUME NEW x, NEW y, NEW z, IsUnits(x), IsUnits(y), IsUnits(z)
  PROVE  (x \o y) \o z = x \o (y \o z)
<1>1. PICK S : S = Nat \X Nat  OBVIOUS
<1>2. \A u, v, w \in Seq(S) : (u \o v) \o w = u \o (v \o w)  BY Associative
<1>3. x \in Seq(S) /\ y \in Seq(S) /\ z \in Seq(S)  BY <1>1 DEF IsUnits
<1> QED  BY <1>2, <1>3

-----------------------------------------------------------------------------
(***************************************************************************)
(* What every step does with object and socket                             *)
(***************************************************************************)

WorldOK(c, s) == Consistent(c, s) /\ InOrder(c, s)

InputSeen(c, s) == c.handle # 0 => InputIsReady(s)
SpaceSeen(c, s) == c.queue # <<>> => WaitsForOut(s)

\* Object d and socket t have come of c and s: the connection has been closed, or
\* it goes on and no event of it has been lost.
Keeps(c, s, d, t) ==
    /\ WorldOK(d, t)
    /\ d.handle = 0 \/ (d.handle = c.handle /\ d.skipped = c.skipped)
    /\ InputSeen(c, s) => InputSeen(d, t)
    /\ SpaceSeen(c, s) => SpaceSeen(d, t)

ObjectFields(c) ==
    /\ c.handle \in Nat /\ c.state \in {"disconnect", "start", "ok", "identified"}
    /\ c.online \in BOOLEAN
    /\ c.callback \in {"none", "identify", "checkOnline", "keepOnline"}
    /\ c.timer \in BOOLEAN /\ c.queue \in Seq(Waiting) /\ c.accepted \in Seq(Nat)
    /\ c.skipped \in BOOLEAN

LEMMA ObjectFieldsOK == \A c \in Objects : ObjectFields(c)
BY DEF Objects, ObjectFields

\* The invariant of the pair, with the operators of this module
LEMMA WorldFacts ==
  ASSUME NEW c, NEW s
  PROVE  WorldOK(c, s) <=>
           /\ c \in Objects /\ s \in Sockets
           /\ c.handle = 0 => c.queue = <<>> /\ c.accepted = <<>> /\ s = NoSocket
           /\ c.handle # 0 => /\ "in" \in s.interest
                              /\ s.stream \o Rest(c.queue, c.accepted) = AllUnits(c.accepted)
           /\ QueueOK(c.queue, c.accepted)
<1>1. Queued(c) = Rest(c.queue, c.accepted)  BY DEF Queued, Rest
<1>2. c \in Objects => c.queue \in Seq(Waiting) /\ c.accepted \in Seq(Nat)
  BY ObjectFieldsOK DEF ObjectFields
<1> QED  BY <1>1, <1>2 DEF WorldOK, Consistent, InOrder, QueueOK

\* Closing
LEMMA ClosedKeeps ==
  ASSUME NEW c, NEW s, c \in Objects
  PROVE  Keeps(c, s, Closed(c).conn, Closed(c).sock)
<1>1. PICK d : d = [Idle EXCEPT !.online = c.online, !.callback = c.callback]  OBVIOUS
<1>2. Closed(c).conn = d /\ Closed(c).sock = NoSocket  BY <1>1 DEF Closed, World
<1>3. c.online \in BOOLEAN /\ c.callback \in {"none", "identify", "checkOnline", "keepOnline"}
  BY ObjectFieldsOK DEF ObjectFields
<1>4. d = [handle |-> 0, state |-> "disconnect", online |-> c.online,
           callback |-> c.callback, timer |-> FALSE, queue |-> <<>>, accepted |-> <<>>,
           skipped |-> FALSE]
  BY <1>1 DEF Idle
<1>5. <<>> \in Seq(Waiting) /\ <<>> \in Seq(Nat)  OBVIOUS
<1>6. d \in Objects  BY <1>3, <1>4, <1>5 DEF Objects
<1>7. d.handle = 0 /\ d.queue = <<>> /\ d.accepted = <<>>  BY <1>4
<1>8. QueueOK(d.queue, d.accepted)
  <2>1. DOMAIN <<>> = {}  OBVIOUS
  <2> QED  BY <1>5, <1>7, <2>1 DEF QueueOK
<1>9. WorldOK(d, NoSocket)  BY <1>6, <1>7, <1>8, NoSocketType, WorldFacts
<1> QED  BY <1>2, <1>7, <1>9 DEF Keeps, InputSeen, SpaceSeen

LEMMA KeepsItself ==
  ASSUME NEW c, NEW s, WorldOK(c, s)
  PROVE  Keeps(c, s, c, s)
BY DEF Keeps

LEMMA EpollRemoveKeeps ==
  ASSUME NEW c, NEW s, WorldOK(c, s)
  PROVE  Keeps(c, s, EpollRemove(c, s).conn, EpollRemove(c, s).sock)
<1>1. c \in Objects  BY WorldFacts
<1>2. CASE c.handle = 0
  <2>1. EpollRemove(c, s).conn = c /\ EpollRemove(c, s).sock = s
    BY <1>2 DEF EpollRemove, World
  <2> QED  BY <2>1, KeepsItself
<1>3. CASE c.handle # 0
  <2>1. EpollRemove(c, s) = Closed(c)  BY <1>3 DEF EpollRemove
  <2> QED  BY <1>1, <2>1, ClosedKeeps
<1> QED  BY <1>2, <1>3

\* sendPacket has taken one packet more, of length l.
LEMMA AcceptedFacts ==
  ASSUME NEW a \in Seq(Nat), NEW l \in Nat
  PROVE  /\ Append(a, l) \in Seq(Nat) /\ Len(a) + 1 \in Nat /\ Len(Append(a, l)) = Len(a) + 1
         /\ Len(a) + 1 \in DOMAIN Append(a, l) /\ Append(a, l)[Len(a) + 1] = l
         /\ Units(Len(a) + 1, 0, l) \in Seq(Nat \X Nat)
         /\ AllUnits(a) \in Seq(Nat \X Nat)
         /\ AllUnits(Append(a, l)) = AllUnits(a) \o Units(Len(a) + 1, 0, l)
<1>1. PICK n \in Nat : n = Len(a)  BY LenProperties
<1>2. PICK b : b = Append(a, l)  OBVIOUS
<1>3. b \in Seq(Nat) /\ Len(b) = n + 1 /\ b[n + 1] = l  BY <1>1, <1>2, AppendProperties
<1>4. DOMAIN b = 1 .. n + 1 /\ n + 1 \in 1 .. n + 1  BY <1>1, <1>3, LenProperties
<1>5. PICK e \in Nat : e = n + 1  OBVIOUS
<1>6. Units(e, 0, l) \in Seq(Nat \X Nat)  BY UnitsFacts
<1>7. AllUnits(a) \in Seq(Nat \X Nat) /\ AllUnits(b) = AllUnits(a) \o Units(n + 1, 0, l)
  BY <1>1, <1>2, AllUnitsFacts
<1> QED  BY <1>1, <1>2, <1>3, <1>4, <1>5, <1>6, <1>7

\* The object with the packet, and with the queue q
With(c, l, q) == [c EXCEPT !.accepted = Append(@, l), !.queue = q]

\* The packet is behind the units that were written and those that wait.
Sent(c, s, l, q, t) ==
    /\ QueueOK(q, Append(c.accepted, l)) /\ t \in Sockets /\ "in" \in t.interest
    /\ t.stream \o Rest(q, Append(c.accepted, l))
         = (s.stream \o Rest(c.queue, c.accepted)) \o Units(Len(c.accepted) + 1, 0, l)

LEMMA SentOK ==
  ASSUME NEW c, NEW s, WorldOK(c, s), c.handle # 0, NEW l \in Nat,
         NEW q, NEW t, Sent(c, s, l, q, t)
  PROVE  /\ WorldOK(With(c, l, q), t)
         /\ With(c, l, q).handle = c.handle /\ With(c, l, q).skipped = c.skipped
         /\ With(c, l, q).queue = q /\ With(c, l, q).accepted = Append(c.accepted, l)
<1>1. c \in Objects /\ c.accepted \in Seq(Nat)
      /\ s.stream \o Rest(c.queue, c.accepted) = AllUnits(c.accepted)
  BY WorldFacts, ObjectFieldsOK DEF ObjectFields
<1>2. PICK a \in Seq(Nat) : a = Append(c.accepted, l)  BY <1>1, AcceptedFacts
<1>3. q \in Seq(Waiting)  BY DEF Sent, QueueOK
<1>4. PICK d : d = With(c, l, q)  OBVIOUS
<1>5. d = [c EXCEPT !.accepted = a, !.queue = q]  BY <1>1, <1>2, <1>4 DEF With, Objects
<1>6. d \in Objects /\ d.handle = c.handle /\ d.skipped = c.skipped /\ d.queue = q /\ d.accepted = a
  BY <1>1, <1>3, <1>5 DEF Objects
<1>7. t.stream \o Rest(q, a) = AllUnits(a)
  <2>1. AllUnits(Append(c.accepted, l))
          = AllUnits(c.accepted) \o Units(Len(c.accepted) + 1, 0, l)
    BY <1>1, AcceptedFacts
  <2>2. t.stream \o Rest(q, a)
          = (s.stream \o Rest(c.queue, c.accepted)) \o Units(Len(c.accepted) + 1, 0, l)
    BY <1>2 DEF Sent
  <2> QED  BY <1>1, <1>2, <2>1, <2>2
<1>8. QueueOK(q, a) /\ t \in Sockets /\ "in" \in t.interest  BY <1>2 DEF Sent
<1>9. WorldOK(d, t)  BY <1>6, <1>7, <1>8, WorldFacts
<1> QED  BY <1>2, <1>4, <1>6, <1>9

LEMMA SendPacketKeeps ==
  ASSUME NEW c, NEW s, WorldOK(c, s), NEW l \in Nat, NEW w \in SendPacket(c, s, l)
  PROVE  Keeps(c, s, w.conn, w.sock)
<1>1. CASE c.handle = 0
  <2>1. w.conn = c /\ w.sock = s  BY <1>1 DEF SendPacket, World
  <2> QED  BY <2>1, KeepsItself
<1> SUFFICES ASSUME c.handle # 0 PROVE Keeps(c, s, w.conn, w.sock)
  BY <1>1
<1>2. /\ c \in Objects /\ s \in Sockets /\ "in" \in s.interest
      /\ QueueOK(c.queue, c.accepted)
  BY WorldFacts
<1>3. SocketFields(s) /\ ObjectFields(c)  BY <1>2, Fields, ObjectFieldsOK
<1>4. PICK a : a = Append(c.accepted, l)  OBVIOUS
<1>5. PICK n \in Nat : n = Len(c.accepted) + 1  BY <1>3, AcceptedFacts DEF ObjectFields
<1>6. /\ a \in Seq(Nat) /\ Len(a) = n /\ n \in DOMAIN a /\ a[n] = l
      /\ Units(n, 0, l) \in Seq(Nat \X Nat)
  BY <1>3, <1>4, <1>5, AcceptedFacts DEF ObjectFields
<1>7. PICK str, rest : /\ str = s.stream /\ rest = Rest(c.queue, c.accepted)
                       /\ IsUnits(str) /\ IsUnits(rest)
  <2>1. s.stream \in Seq(Nat \X Nat)  BY <1>3 DEF SocketFields
  <2>2. Rest(c.queue, c.accepted) \in Seq(Nat \X Nat)  BY <1>2, RestType
  <2> QED  BY <2>1, <2>2 DEF IsUnits
<1>8. QueueOK(c.queue, a) /\ Rest(c.queue, a) = rest  BY <1>2, <1>4, <1>7, RestExtend
<1>9. PICK d : d = [c EXCEPT !.accepted = Append(@, l)]  OBVIOUS
<1>10. d \in Objects /\ d.accepted = a /\ d.handle = c.handle /\ d.skipped = c.skipped
       /\ d.queue = c.queue
  BY <1>2, <1>4, <1>6, <1>9 DEF Objects
<1>11. CASE c.queue # <<>>
  <2>1. PICK q : q = Append(c.queue, [id |-> n, cursor |-> 0])  OBVIOUS
  <2>2. QueueOK(q, a) /\ Rest(q, a) = rest \o Units(n, 0, l)
    <3>1. n \in DOMAIN a /\ 0 \in Nat /\ 0 <= a[n]  BY <1>6
    <3>2. QueueOK(c.queue, a)  BY <1>8
    <3>3. QueueOK(q, a) /\ Rest(q, a) = Rest(c.queue, a) \o Units(n, 0, a[n])
      BY <2>1, <3>1, <3>2, RestAppend
    <3> QED  BY <1>6, <1>8, <3>3
  <2>3. w = World(With(c, l, q), s)
    <3>1. w = World([d EXCEPT !.queue = Append(@, [id |-> Len(d.accepted), cursor |-> 0])], s)
      BY <1>9, <1>11 DEF SendPacket
    <3>2. [d EXCEPT !.queue = Append(@, [id |-> Len(d.accepted), cursor |-> 0])] = With(c, l, q)
      BY <1>2, <1>6, <1>9, <1>10, <2>1 DEF With, Objects
    <3> QED  BY <3>1, <3>2
  <2>4. str \o (rest \o Units(n, 0, l)) = (str \o rest) \o Units(n, 0, l)
    <3>1. PICK u : u = Units(n, 0, l) /\ IsUnits(u)  BY <1>6 DEF IsUnits
    <3>2. IsUnits(str) /\ IsUnits(rest) /\ IsUnits(u)  BY <1>7, <3>1
    <3>3. (str \o rest) \o u = str \o (rest \o u)  BY <3>2, UnitsAssociative, SMTT(40)
    <3> QED  BY <3>1, <3>3
  <2>5. s.stream \o Rest(q, Append(c.accepted, l))
          = (s.stream \o Rest(c.queue, c.accepted)) \o Units(Len(c.accepted) + 1, 0, l)
    BY <1>4, <1>5, <1>7, <2>2, <2>4
  <2>6. /\ WorldOK(With(c, l, q), s)
        /\ With(c, l, q).handle = c.handle /\ With(c, l, q).skipped = c.skipped
        /\ With(c, l, q).queue = q
    <3>1. QueueOK(q, Append(c.accepted, l))  BY <1>4, <2>2
    <3>2. s \in Sockets /\ "in" \in s.interest  BY <1>2
    <3>3. Sent(c, s, l, q, s)  BY <2>5, <3>1, <3>2 DEF Sent
    <3> QED  BY <3>3, SentOK
  <2>7. w.conn = With(c, l, q) /\ w.sock = s  BY <2>3 DEF World
  <2> QED  BY <1>11, <2>6, <2>7 DEF Keeps, InputSeen, SpaceSeen
<1>12. CASE c.queue = <<>>
  <2>1. PICK p : p = [id |-> n, cursor |-> 0]  OBVIOUS
  <2>2. PICK r \in WriteSocket(d, s, p) :
           w = IF r.failed THEN EpollRemove(c, s)
               ELSE IF r.cursor = l THEN World(d, r.sock)
               ELSE World([d EXCEPT !.queue = <<[p EXCEPT !.cursor = r.cursor]>>],
                          ObjectChange(r.sock, {"in", "out"}))
    <3>1. p = [id |-> Len(d.accepted), cursor |-> 0]  BY <1>6, <1>10, <2>1
    <3> QED  BY <1>9, <1>12, <3>1 DEF SendPacket
  <2>3. CASE r.failed  BY <2>2, <2>3, EpollRemoveKeeps
  <2>4. CASE ~ r.failed
    <3>1. /\ r.cursor \in Nat /\ 0 <= r.cursor /\ r.cursor <= l
          /\ r.sock \in Sockets
          /\ r.sock.stream = s.stream \o Units(n, 0, r.cursor)
          /\ r.sock.interest = s.interest /\ r.sock.ready = s.ready
          /\ InputIsReady(s) => InputIsReady(r.sock)
      <4>1. CanWrite(d, s, n, 0)  BY <1>2, <1>6, <1>10 DEF CanWrite
      <4>2. r \in WriteSocket(d, s, [id |-> n, cursor |-> 0])  BY <2>1
      <4>3. Written(d, s, n, 0, r)  BY <2>4, <4>1, <4>2, WriteSocketWrites
      <4> QED  BY <1>6, <1>10, <4>3 DEF Written
    <3>2. rest = <<>> /\ str \o rest = str
      BY <1>7, <1>12, RestEmpty, ConcatEmptySeq DEF IsUnits
    <3>3. CASE r.cursor = l
      <4>1. w.conn = d /\ w.sock = r.sock  BY <2>2, <2>4, <3>3 DEF World
      <4>2. d = With(c, l, c.queue)  BY <1>2, <1>9 DEF With, Objects
      <4>3. (str \o Units(n, 0, l)) \o <<>> = str \o Units(n, 0, l)
        <5>1. str \o Units(n, 0, l) \in Seq(Nat \X Nat)  BY <1>6, <1>7, ConcatProperties DEF IsUnits
        <5> QED  BY <5>1, ConcatEmptySeq
      <4>4. r.sock.stream \o Rest(c.queue, Append(c.accepted, l))
              = (s.stream \o Rest(c.queue, c.accepted)) \o Units(Len(c.accepted) + 1, 0, l)
        BY <1>4, <1>5, <1>7, <1>8, <3>1, <3>2, <3>3, <4>3
      <4>5. "in" \in r.sock.interest  BY <1>2, <3>1
      <4>6. WorldOK(d, r.sock)
        <5>1. Sent(c, s, l, c.queue, r.sock)  BY <1>4, <1>8, <3>1, <4>4, <4>5 DEF Sent
        <5> QED  BY <4>2, <5>1, SentOK
      <4> QED  BY <1>10, <1>12, <3>1, <4>1, <4>6 DEF Keeps, InputSeen, SpaceSeen
    <3>4. CASE r.cursor # l
      <4>1. PICK q : q = <<[p EXCEPT !.cursor = r.cursor]>>  OBVIOUS
      <4>2. q = Append(<<>>, [id |-> n, cursor |-> r.cursor])  BY <2>1, <4>1
      <4>3. QueueOK(q, a) /\ Rest(q, a) = rest \o Units(n, r.cursor, l)
        <5>1. n \in DOMAIN a /\ r.cursor \in Nat /\ r.cursor <= a[n]  BY <1>6, <3>1
        <5>2. QueueOK(<<>>, a) /\ Rest(<<>>, a) = rest  BY <1>8, <1>12
        <5>3. QueueOK(q, a) /\ Rest(q, a) = Rest(<<>>, a) \o Units(n, r.cursor, a[n])
          BY <4>2, <5>1, <5>2, RestAppend
        <5> QED  BY <1>6, <5>2, <5>3
      <4>4. PICK t : t = ObjectChange(r.sock, {"in", "out"})  OBVIOUS
      <4>5. /\ t \in Sockets /\ "in" \in t.interest /\ t.stream = r.sock.stream
            /\ InputIsReady(t) /\ WaitsForOut(t)
        <5>1. PICK e : e = {"in", "out"}  OBVIOUS
        <5>2. e \subseteq {"in", "out"} /\ "in" \in e /\ "out" \in e  BY <5>1
        <5>3. r.sock \in Sockets /\ t = ObjectChange(r.sock, e)  BY <3>1, <4>4, <5>1
        <5>4. t.interest = e  BY <5>2, <5>3, ObjectChangeFacts
        <5>5. t \in Sockets /\ t.stream = r.sock.stream /\ InputIsReady(t) /\ WaitsForOut(t)
          BY <5>2, <5>3, ObjectChangeFacts
        <5> QED  BY <5>2, <5>4, <5>5
      <4>6. w.conn = With(c, l, q) /\ w.sock = t
        <5>1. [d EXCEPT !.queue = q] = With(c, l, q)  BY <1>2, <1>9 DEF With, Objects
        <5> QED  BY <2>2, <2>4, <3>4, <4>1, <4>4, <5>1 DEF World
      <4>7. PICK x, y : /\ x = Units(n, 0, r.cursor) /\ y = Units(n, r.cursor, l)
                        /\ x \o y = Units(n, 0, l)
                        /\ IsUnits(x) /\ IsUnits(y)
        <5>1. Units(n, 0, r.cursor) \in Seq(Nat \X Nat)  BY <3>1, UnitsFacts
        <5>2. Units(n, r.cursor, l) \in Seq(Nat \X Nat)  BY <3>1, UnitsFacts
        <5>3. Units(n, 0, r.cursor) \o Units(n, r.cursor, l) = Units(n, 0, l)
          BY <3>1, UnitsJoin
        <5> QED  BY <5>1, <5>2, <5>3 DEF IsUnits
      <4>8. <<>> \o y = y /\ (str \o x) \o y = str \o (x \o y)
        <5>1. <<>> \o y = y  BY <4>7, ConcatEmptySeq DEF IsUnits
        <5>2. IsUnits(str) /\ IsUnits(x) /\ IsUnits(y)  BY <1>7, <4>7
        <5>3. (str \o x) \o y = str \o (x \o y)  BY <5>2, UnitsAssociative, SMTT(40)
        <5> QED  BY <5>1, <5>3
      <4>9. t.stream \o Rest(q, Append(c.accepted, l))
              = (s.stream \o Rest(c.queue, c.accepted)) \o Units(Len(c.accepted) + 1, 0, l)
        <5>1. t.stream = str \o x  BY <1>7, <3>1, <4>5, <4>7
        <5>2. Rest(q, Append(c.accepted, l)) = y  BY <1>4, <3>2, <4>3, <4>7, <4>8
        <5>3. s.stream \o Rest(c.queue, c.accepted) = str  BY <1>7, <3>2
        <5> QED  BY <1>5, <4>7, <4>8, <5>1, <5>2, <5>3
      <4>10. /\ WorldOK(With(c, l, q), t)
             /\ With(c, l, q).handle = c.handle /\ With(c, l, q).skipped = c.skipped
             /\ With(c, l, q).queue = q
        <5>1. QueueOK(q, Append(c.accepted, l))  BY <1>4, <4>3
        <5>2. t \in Sockets /\ "in" \in t.interest  BY <4>5
        <5>3. Sent(c, s, l, q, t)  BY <4>9, <5>1, <5>2 DEF Sent
        <5> QED  BY <5>3, SentOK
      <4> QED  BY <4>5, <4>6, <4>10 DEF Keeps, InputSeen, SpaceSeen
    <3> QED  BY <3>3, <3>4
  <2> QED  BY <2>3, <2>4
<1> QED  BY <1>11, <1>12

\* The same, of a step whose events are looked at later
Goes(c, d, t) == WorldOK(d, t) /\ (d.handle = 0 \/ d.handle = c.handle)

LEMMA KeepsGoes ==
  ASSUME NEW c, NEW s, NEW d, NEW t, Keeps(c, s, d, t)
  PROVE  Goes(c, d, t)
BY DEF Keeps, Goes

\* Fields that say nothing about packets
LEMMA SameObject ==
  ASSUME NEW c, NEW s, WorldOK(c, s), NEW d \in Objects,
         d.handle = c.handle, d.queue = c.queue, d.accepted = c.accepted
  PROVE  WorldOK(d, s)
<1>1. /\ c \in Objects /\ s \in Sockets
      /\ c.handle = 0 => c.queue = <<>> /\ c.accepted = <<>> /\ s = NoSocket
      /\ c.handle # 0 => /\ "in" \in s.interest
                         /\ s.stream \o Rest(c.queue, c.accepted) = AllUnits(c.accepted)
      /\ QueueOK(c.queue, c.accepted)
  BY WorldFacts
<1> QED  BY <1>1, WorldFacts

LEMMA SameSocket ==
  ASSUME NEW c, NEW s, WorldOK(c, s), c.handle # 0, NEW t \in Sockets,
         t.interest = s.interest, t.stream = s.stream
  PROVE  WorldOK(c, t)
<1>1. /\ c \in Objects /\ s \in Sockets
      /\ c.handle # 0 => /\ "in" \in s.interest
                         /\ s.stream \o Rest(c.queue, c.accepted) = AllUnits(c.accepted)
      /\ QueueOK(c.queue, c.accepted)
  BY WorldFacts
<1> QED  BY <1>1, WorldFacts

\* One packet of epollOut
LEMMA EpollOutGoes ==
  ASSUME NEW c, NEW s, WorldOK(c, s), c.handle # 0, c.queue # <<>>, NEW w \in EpollOut(c, s)
  PROVE  Goes(c, w.conn, w.sock)
<1>1. /\ c \in Objects /\ s \in Sockets /\ "in" \in s.interest
      /\ QueueOK(c.queue, c.accepted)
      /\ s.stream \o Rest(c.queue, c.accepted) = AllUnits(c.accepted)
  BY WorldFacts
<1>2. SocketFields(s) /\ ObjectFields(c)  BY <1>1, Fields, ObjectFieldsOK
<1>3. PICK q, a : q = c.queue /\ a = c.accepted  OBVIOUS
<1>31. QueueOK(q, a) /\ q # <<>>  BY <1>1, <1>3
<1>4. PICK d, k, l : /\ d = q[1].id /\ k = q[1].cursor /\ l = a[d]
                     /\ d \in Nat /\ k \in Nat /\ l \in Nat /\ d \in DOMAIN a /\ k <= l
  BY <1>31, RestHead
<1>5. Head(c.queue) = [id |-> d, cursor |-> k]
  <2>1. q \in Seq(Waiting) /\ Len(q) \in Nat /\ Len(q) # 0  BY <1>31, EmptySeq DEF QueueOK
  <2>2. 1 \in 1 .. Len(q)  BY <2>1
  <2>3. q[1] \in Waiting  BY <2>1, <2>2, ElementOfSeq
  <2>4. Head(q) = q[1]  BY <2>1
  <2> QED  BY <1>3, <1>4, <2>3, <2>4 DEF Waiting
<1>6. PICK rest : rest = Rest(Tail(q), a) /\ IsUnits(rest)
  <2>1. QueueOK(Tail(q), a)  BY <1>31, RestHead
  <2> QED  BY <2>1, RestType DEF IsUnits
<1>7. Rest(q, a) = Units(d, k, l) \o rest  BY <1>31, <1>4, <1>6, RestHead
<1>8. PICK str : str = s.stream /\ IsUnits(str)  BY <1>2 DEF SocketFields, IsUnits
<1>9. PICK r \in WriteSocket(c, s, [id |-> d, cursor |-> k]) :
         w = IF r.failed THEN EpollRemove(c, s)
             ELSE IF r.cursor = l THEN World([c EXCEPT !.queue = Tail(@)], r.sock)
             ELSE World([c EXCEPT !.queue[1].cursor = r.cursor], r.sock)
  <2>1. PICK r \in WriteSocket(c, s, Head(c.queue)) :
           w = IF r.failed THEN EpollRemove(c, s)
               ELSE IF r.cursor = c.accepted[Head(c.queue).id]
               THEN World([c EXCEPT !.queue = Tail(@)], r.sock)
               ELSE World([c EXCEPT !.queue[1].cursor = r.cursor], r.sock)
    BY DEF EpollOut
  <2>2. c.accepted[Head(c.queue).id] = l  BY <1>3, <1>4, <1>5
  <2> QED  BY <1>5, <2>1, <2>2
<1>10. CASE r.failed  BY <1>9, <1>10, EpollRemoveKeeps, KeepsGoes
<1>11. CASE ~ r.failed
  <2>1. /\ r.cursor \in Nat /\ k <= r.cursor /\ r.cursor <= l
        /\ r.sock \in Sockets /\ r.sock.stream = str \o Units(d, k, r.cursor)
        /\ "in" \in r.sock.interest
    <3>1. CanWrite(c, s, d, k)  BY <1>1, <1>2, <1>3, <1>4 DEF CanWrite, ObjectFields
    <3>2. Written(c, s, d, k, r)  BY <1>11, <3>1, WriteSocketWrites
    <3> QED  BY <1>1, <1>3, <1>4, <1>8, <3>2 DEF Written
  <2>2. PICK x, y : /\ x = Units(d, k, r.cursor) /\ y = Units(d, r.cursor, l)
                    /\ x \o y = Units(d, k, l)
                    /\ IsUnits(x) /\ IsUnits(y)
    <3>1. Units(d, k, r.cursor) \in Seq(Nat \X Nat)  BY <1>4, <2>1, UnitsFacts
    <3>2. Units(d, r.cursor, l) \in Seq(Nat \X Nat)  BY <1>4, <2>1, UnitsFacts
    <3>3. Units(d, k, r.cursor) \o Units(d, r.cursor, l) = Units(d, k, l)
      <4>1. PICK m : m = r.cursor /\ m \in Nat /\ k <= m /\ m <= l  BY <2>1
      <4>2. Units(d, k, m) \o Units(d, m, l) = Units(d, k, l)
        <5>1. d \in Nat /\ k \in Nat /\ m \in Nat /\ l \in Nat /\ k <= m /\ m <= l
          BY <1>4, <4>1
        <5> QED  BY <5>1, UnitsJoin
      <4> QED  BY <4>1, <4>2
    <3> QED  BY <3>1, <3>2, <3>3 DEF IsUnits
  <2>3. (str \o x) \o (y \o rest) = AllUnits(a)
    <3>0. IsUnits(str) /\ IsUnits(x) /\ IsUnits(y) /\ IsUnits(rest)
      BY <1>6, <1>8, <2>2
    <3>1. (x \o y) \o rest = x \o (y \o rest)  BY <3>0, UnitsAssociative, SMTT(40)
    <3>2. IsUnits(y \o rest)
      <4>1. y \in Seq(Nat \X Nat) /\ rest \in Seq(Nat \X Nat)  BY <3>0 DEF IsUnits
      <4> QED  BY <4>1, ConcatProperties DEF IsUnits
    <3>3. (str \o x) \o (y \o rest) = str \o (x \o (y \o rest))
      <4>1. PICK z : z = y \o rest /\ IsUnits(z)  BY <3>2
      <4>2. (str \o x) \o z = str \o (x \o z)  BY <3>0, <4>1, UnitsAssociative, SMTT(40)
      <4> QED  BY <4>1, <4>2
    <3>4. str \o Rest(q, a) = AllUnits(a)  BY <1>1, <1>3, <1>8
    <3> QED  BY <1>7, <2>2, <3>1, <3>3, <3>4
  <2>4. PICK p, t : p = w.conn.queue /\ t = r.sock  OBVIOUS
  <2>5. /\ w.sock = t /\ w.conn = [c EXCEPT !.queue = p]
        /\ QueueOK(p, a) /\ Rest(p, a) = y \o rest
    <3>1. CASE r.cursor = l
      <4>1. w = World([c EXCEPT !.queue = Tail(@)], r.sock)  BY <1>9, <1>11, <3>1
      <4>2. w.sock = r.sock /\ w.conn = [c EXCEPT !.queue = Tail(@)]  BY <4>1 DEF World
      <4>3. w.conn = [c EXCEPT !.queue = Tail(q)] /\ w.conn.queue = Tail(q)
        BY <1>1, <1>3, <4>2 DEF Objects
      <4>4. QueueOK(Tail(q), a)  BY <1>31, RestHead
      <4>5. y = <<>>  BY <1>4, <2>2, <3>1, NoUnits
      <4>6. y \o rest = rest  BY <1>6, <4>5, ConcatEmptySeq DEF IsUnits
      <4> QED  BY <1>6, <2>4, <4>2, <4>3, <4>4, <4>6
    <3>2. CASE r.cursor # l
      <4>1. w = World([c EXCEPT !.queue[1].cursor = r.cursor], r.sock)  BY <1>9, <1>11, <3>2
      <4>2. w.sock = r.sock /\ w.conn = [c EXCEPT !.queue[1].cursor = r.cursor]
        BY <4>1 DEF World
      <4>3. PICK z : z = [q EXCEPT ![1].cursor = r.cursor]  OBVIOUS
      <4>4. w.conn = [c EXCEPT !.queue = z] /\ w.conn.queue = z
        BY <1>1, <1>3, <4>2, <4>3 DEF Objects
      <4>5. QueueOK(z, a) /\ Rest(z, a) = y \o rest
        <5>1. r.cursor \in Nat /\ r.cursor <= a[q[1].id]  BY <1>4, <2>1
        <5>2. /\ QueueOK([q EXCEPT ![1].cursor = r.cursor], a)
              /\ Rest([q EXCEPT ![1].cursor = r.cursor], a)
                   = Units(q[1].id, r.cursor, a[q[1].id]) \o Rest(Tail(q), a)
          BY <1>31, <5>1, RestCut
        <5> QED  BY <1>4, <1>6, <2>2, <4>3, <5>2
      <4> QED  BY <2>4, <4>2, <4>4, <4>5
    <3> QED  BY <3>1, <3>2
  <2>6. PICK e : e = [c EXCEPT !.queue = p]  OBVIOUS
  <2>7. p \in Seq(Waiting)  BY <2>5 DEF QueueOK
  <2>8. e \in Objects /\ e.handle = c.handle /\ e.queue = p /\ e.accepted = a
    BY <1>1, <1>3, <2>6, <2>7 DEF Objects
  <2>9. t.stream \o Rest(p, a) = AllUnits(a)  BY <2>1, <2>2, <2>3, <2>4, <2>5
  <2>10. t \in Sockets /\ "in" \in t.interest  BY <2>1, <2>4
  <2>11. WorldOK(e, t)  BY <2>5, <2>8, <2>9, <2>10, WorldFacts
  <2> QED  BY <2>5, <2>6, <2>8, <2>11 DEF Goes
<1> QED  BY <1>10, <1>11

LEMMA GoesOn ==
  ASSUME NEW c, NEW d, NEW t, NEW e, NEW u, Goes(c, d, t), Goes(d, e, u)
  PROVE  Goes(c, e, u)
BY DEF Goes

LEMMA KeepsFields ==
  ASSUME NEW c, NEW s, NEW d, NEW t, Keeps(c, s, d, t), NEW e \in Objects,
         e.handle = d.handle, e.queue = d.queue, e.accepted = d.accepted,
         e.skipped = d.skipped
  PROVE  Keeps(c, s, e, t)
<1>1. WorldOK(d, t)  BY DEF Keeps
<1>2. WorldOK(e, t)  BY <1>1, SameObject
<1> QED  BY <1>2 DEF Keeps, InputSeen, SpaceSeen

LEMMA DispatchGoes ==
  ASSUME NEW c, NEW s, WorldOK(c, s), NEW m \in Messages, NEW w \in Dispatch(c, s, m)
  PROVE  Goes(c, w.conn, w.sock)
<1> DEFINE Refuses ==
  kind = "accept" /\ ~ Identified(c) /\ m \notin {"register", "refused"}
<1>9. CASE Refuses
  <2>1. w = EpollRemove(c, s)  BY <1>9 DEF Dispatch
  <2> QED  BY <2>1, EpollRemoveKeeps, KeepsGoes
<1> SUFFICES ASSUME ~ Refuses PROVE Goes(c, w.conn, w.sock)
  BY <1>9
<1>0. c \in Objects /\ HeadLength \in Nat /\ Goes(c, c, s)
  BY WorldFacts DEF HeadLength, Goes
<1>1. CASE m = "register"
  <2>1. PICK v \in SendPacket(c, s, HeadLength) :
           w = World([v.conn EXCEPT !.state = "identified"], v.sock)
    BY <1>1 DEF Dispatch
  <2>2. Goes(c, v.conn, v.sock)  BY <1>0, SendPacketKeeps, KeepsGoes
  <2>3. PICK d : d = v.conn /\ d \in Objects /\ WorldOK(d, v.sock)
    BY <2>2, WorldFacts DEF Goes
  <2>4. PICK e : e = [d EXCEPT !.state = "identified"]  OBVIOUS
  <2>5. e \in Objects /\ e.handle = d.handle /\ e.queue = d.queue /\ e.accepted = d.accepted
    BY <2>3, <2>4 DEF Objects
  <2>6. WorldOK(e, v.sock)  BY <2>3, <2>5, SameObject
  <2>7. w.conn = e /\ w.sock = v.sock  BY <2>1, <2>3, <2>4 DEF World
  <2> QED  BY <2>2, <2>3, <2>5, <2>6, <2>7 DEF Goes
<1>2. CASE m = "refused"
  <2>1. PICK v \in SendPacket(c, s, HeadLength) : w = EpollRemove(v.conn, v.sock)
    BY <1>2 DEF Dispatch
  <2>2. Goes(c, v.conn, v.sock)  BY <1>0, SendPacketKeeps, KeepsGoes
  <2>3. Goes(v.conn, w.conn, w.sock)
    <3>1. WorldOK(v.conn, v.sock)  BY <2>2 DEF Goes
    <3>2. Keeps(v.conn, v.sock, w.conn, w.sock)  BY <2>1, <3>1, EpollRemoveKeeps
    <3> QED  BY <3>2, KeepsGoes
  <2> QED  BY <2>2, <2>3, GoesOn
<1>3. CASE m = "response"
  <2>1. PICK d : d = [c EXCEPT !.state = "identified", !.callback = "keepOnline", !.timer = TRUE]
    OBVIOUS
  <2>2. w = World(d, s)  BY <1>3, <2>1 DEF Dispatch
  <2>3. d \in Objects /\ d.handle = c.handle /\ d.queue = c.queue /\ d.accepted = c.accepted
    BY <1>0, <2>1 DEF Objects
  <2>4. WorldOK(d, s)  BY <2>3, SameObject
  <2> QED  BY <2>2, <2>3, <2>4 DEF Goes, World
<1>4. PICK d : d = [c EXCEPT !.online = TRUE]  OBVIOUS
<1>5. d \in Objects /\ d.handle = c.handle /\ d.queue = c.queue /\ d.accepted = c.accepted
  BY <1>0, <1>4 DEF Objects
<1>6. WorldOK(d, s)  BY <1>5, SameObject
<1>7. CASE m = "pong"
  <2>1. w = World(d, s)  BY <1>4, <1>7 DEF Dispatch
  <2> QED  BY <1>5, <1>6, <2>1 DEF Goes, World
<1>8. CASE m = "ping"
  <2>1. w \in SendPacket(d, s, HeadLength)  BY <1>4, <1>8 DEF Dispatch
  <2>2. Goes(d, w.conn, w.sock)  BY <1>0, <1>6, <2>1, SendPacketKeeps, KeepsGoes
  <2> QED  BY <1>5, <2>2 DEF Goes
<1> QED  BY <1>1, <1>2, <1>3, <1>7, <1>8 DEF Messages

LEMMA CheckConnectIdentifyKeeps ==
  ASSUME NEW c, NEW s, WorldOK(c, s), NEW w \in CheckConnectIdentify(c, s)
  PROVE  Keeps(c, s, w.conn, w.sock)
<1>1. CASE Identified(c)
  <2>1. c \in Objects  BY WorldFacts
  <2>2. PICK d : d = [c EXCEPT !.online = TRUE, !.callback = "checkOnline"]  OBVIOUS
  <2>3. /\ d \in Objects /\ d.handle = c.handle /\ d.queue = c.queue
        /\ d.accepted = c.accepted /\ d.skipped = c.skipped
    BY <2>1, <2>2 DEF Objects
  <2>4. Keeps(c, s, d, s)  BY <2>3, KeepsItself, KeepsFields
  <2>5. w = World(d, s)  BY <1>1, <2>2 DEF CheckConnectIdentify
  <2> QED  BY <2>4, <2>5 DEF World
<1>2. CASE ~ Identified(c)
  <2>1. w = EpollRemove(c, s)  BY <1>2 DEF CheckConnectIdentify
  <2> QED  BY <2>1, EpollRemoveKeeps
<1> QED  BY <1>1, <1>2

LEMMA CheckConnectOnlineKeeps ==
  ASSUME NEW c, NEW s, WorldOK(c, s), NEW w \in CheckConnectOnline(c, s)
  PROVE  Keeps(c, s, w.conn, w.sock)
<1>1. CASE c.online
  <2>1. c \in Objects  BY WorldFacts
  <2>2. PICK d : d = [c EXCEPT !.online = FALSE]  OBVIOUS
  <2>3. /\ d \in Objects /\ d.handle = c.handle /\ d.queue = c.queue
        /\ d.accepted = c.accepted /\ d.skipped = c.skipped
    BY <2>1, <2>2 DEF Objects
  <2>4. Keeps(c, s, d, s)  BY <2>3, KeepsItself, KeepsFields
  <2>5. w = World(d, s)  BY <1>1, <2>2 DEF CheckConnectOnline
  <2> QED  BY <2>4, <2>5 DEF World
<1>2. CASE ~ c.online
  <2>1. w = EpollRemove(c, s)  BY <1>2 DEF CheckConnectOnline
  <2> QED  BY <2>1, EpollRemoveKeeps
<1> QED  BY <1>1, <1>2

LEMMA KeepConnectOnlineKeeps ==
  ASSUME NEW c, NEW s, WorldOK(c, s), NEW w \in KeepConnectOnline(c, s)
  PROVE  Keeps(c, s, w.conn, w.sock)
<1>1. HeadLength \in Nat  BY DEF HeadLength
<1>2. PICK v \in SendPacket(c, s, HeadLength) : w = World([v.conn EXCEPT !.timer = TRUE], v.sock)
  BY DEF KeepConnectOnline
<1>3. PICK d : d = v.conn /\ Keeps(c, s, d, v.sock)  BY <1>1, SendPacketKeeps
<1>4. d \in Objects  BY <1>3, WorldFacts DEF Keeps
<1>5. PICK e : e = [d EXCEPT !.timer = TRUE]  OBVIOUS
<1>6. /\ e \in Objects /\ e.handle = d.handle /\ e.queue = d.queue
      /\ e.accepted = d.accepted /\ e.skipped = d.skipped
  BY <1>4, <1>5 DEF Objects
<1>7. Keeps(c, s, e, v.sock)  BY <1>3, <1>6, KeepsFields
<1>8. w.conn = e /\ w.sock = v.sock  BY <1>2, <1>3, <1>5 DEF World
<1> QED  BY <1>7, <1>8

-----------------------------------------------------------------------------
(***************************************************************************)
(* What peer and kernel do to the socket s of a connected object c         *)
(***************************************************************************)

\* A wakeup only adds to the ready list.
LEMMA WakeFacts ==
  ASSUME NEW s \in Sockets, NEW events
  PROVE  /\ Wake(s, events) \in Sockets
         /\ Wake(s, events).up = s.up /\ Wake(s, events).broken = s.broken
         /\ Wake(s, events).eof = s.eof /\ Wake(s, events).noSpace = s.noSpace
         /\ Wake(s, events).interest = s.interest /\ Wake(s, events).incoming = s.incoming
         /\ Wake(s, events).unread = s.unread /\ Wake(s, events).stream = s.stream
         /\ s.ready => Wake(s, events).ready
         /\ \A e \in events : e \in s.interest \/ e = "err" => Wake(s, events).ready
<1>1. PICK ready \in BOOLEAN :
         ready = (s.ready \/ events \intersect (s.interest \union {"err"}) # {})
  <2>1. (s.ready \/ events \intersect (s.interest \union {"err"}) # {}) \in BOOLEAN  OBVIOUS
  <2> QED  BY <2>1
<1>2. Wake(s, events) = [s EXCEPT !.ready = ready]  BY <1>1 DEF Wake
<1>3. PICK t : t = [s EXCEPT !.ready = ready]  OBVIOUS
<1>4. /\ t \in Sockets /\ t.ready = ready /\ t.up = s.up /\ t.broken = s.broken
      /\ t.eof = s.eof /\ t.noSpace = s.noSpace /\ t.interest = s.interest
      /\ t.incoming = s.incoming /\ t.unread = s.unread /\ t.stream = s.stream
  BY <1>3 DEF Sockets
<1>5. s.ready => ready  BY <1>1
<1>6. \A e \in events : e \in s.interest \/ e = "err" => ready  BY <1>1
<1> QED  BY <1>2, <1>3, <1>4, <1>5, <1>6

\* The socket has changed to t, which is what a wakeup has made of it.  It keeps
\* what the thread relies on if all that is new is in the ready list.
Relies(s, t) ==
    /\ t \in Sockets /\ t.interest = s.interest /\ t.stream = s.stream
    /\ (s.ready => t.ready)
    /\ "in" \in s.interest /\ "in" \in Poll(t) => t.ready \/ "in" \in Poll(s)
    /\ "out" \in s.interest =>
          t.ready \/ (t.up = s.up /\ t.unread = s.unread /\ t.noSpace = s.noSpace)
                  \/ (~ t.up) \/ (~ s.noSpace /\ t.up = s.up)

LEMMA ReliesKeeps ==
  ASSUME NEW c, NEW s, WorldOK(c, s), c.handle # 0, NEW t, Relies(s, t)
  PROVE  Keeps(c, s, c, t)
<1>1. "in" \in s.interest  BY WorldFacts
<1>2. t \in Sockets /\ t.interest = s.interest /\ t.stream = s.stream  BY DEF Relies
<1>3. WorldOK(c, t)  BY <1>2, SameSocket
<1>4. InputSeen(c, s) => InputSeen(c, t)  BY <1>1 DEF Relies, InputSeen, InputIsReady
<1>5. SpaceSeen(c, s) => SpaceSeen(c, t)
  BY <1>2 DEF Relies, SpaceSeen, WaitsForOut, Space
<1> QED  BY <1>3, <1>4, <1>5 DEF Keeps

LEMMA ConnectsRelies ==
  ASSUME NEW s \in Sockets, ~ s.up
  PROVE  Relies(s, Wake([s EXCEPT !.up = TRUE], {"out"}))
<1>1. PICK u : u = [s EXCEPT !.up = TRUE]  OBVIOUS
<1>2. /\ u \in Sockets /\ u.interest = s.interest /\ u.stream = s.stream /\ u.ready = s.ready
      /\ u.broken = s.broken /\ u.incoming = s.incoming /\ u.eof = s.eof
  BY <1>1 DEF Sockets
<1>3. PICK t : t = Wake(u, {"out"})  OBVIOUS
<1>4. /\ t \in Sockets /\ t.interest = s.interest /\ t.stream = s.stream /\ (s.ready => t.ready)
      /\ t.broken = s.broken /\ t.incoming = s.incoming /\ t.eof = s.eof
      /\ "out" \in s.interest => t.ready
  BY <1>2, <1>3, WakeFacts
<1>5. "in" \in Poll(t) => "in" \in Poll(s)  BY <1>4, PollFacts
<1>6. Relies(s, t)  BY <1>4, <1>5 DEF Relies
<1> QED  BY <1>1, <1>3, <1>6

LEMMA PeerSendsRelies ==
  ASSUME NEW s \in Sockets, NEW m \in {"register", "refused", "ping", "response", "pong"}
  PROVE  Relies(s, Wake([s EXCEPT !.incoming = Append(@, m), !.received = @ + 1], {"in"}))
<1>1. PICK u : u = [s EXCEPT !.incoming = Append(@, m), !.received = @ + 1]  OBVIOUS
<1>2. /\ u \in Sockets /\ u.interest = s.interest /\ u.stream = s.stream /\ u.ready = s.ready
      /\ u.up = s.up /\ u.unread = s.unread /\ u.noSpace = s.noSpace
  <2>1. s.incoming \in Seq({"register", "refused", "ping", "response", "pong"})
        /\ s.received \in Nat
    BY Fields DEF SocketFields
  <2>2. Append(s.incoming, m) \in Seq({"register", "refused", "ping", "response", "pong"})
        /\ s.received + 1 \in Nat
    BY <2>1
  <2> QED  BY <1>1, <2>2 DEF Sockets
<1>3. PICK t : t = Wake(u, {"in"})  OBVIOUS
<1>4. /\ t \in Sockets /\ t.interest = s.interest /\ t.stream = s.stream /\ (s.ready => t.ready)
      /\ t.up = s.up /\ t.unread = s.unread /\ t.noSpace = s.noSpace
      /\ "in" \in s.interest => t.ready
  BY <1>2, <1>3, WakeFacts
<1>5. Relies(s, t)  BY <1>4 DEF Relies
<1> QED  BY <1>1, <1>3, <1>5

LEMMA PeerClosesRelies ==
  ASSUME NEW s \in Sockets
  PROVE  Relies(s, Wake([s EXCEPT !.eof = TRUE], {"in"}))
<1>1. PICK u : u = [s EXCEPT !.eof = TRUE]  OBVIOUS
<1>2. /\ u \in Sockets /\ u.interest = s.interest /\ u.stream = s.stream /\ u.ready = s.ready
      /\ u.up = s.up /\ u.unread = s.unread /\ u.noSpace = s.noSpace
  BY <1>1 DEF Sockets
<1>3. PICK t : t = Wake(u, {"in"})  OBVIOUS
<1>4. /\ t \in Sockets /\ t.interest = s.interest /\ t.stream = s.stream /\ (s.ready => t.ready)
      /\ t.up = s.up /\ t.unread = s.unread /\ t.noSpace = s.noSpace
      /\ "in" \in s.interest => t.ready
  BY <1>2, <1>3, WakeFacts
<1>5. Relies(s, t)  BY <1>4 DEF Relies
<1> QED  BY <1>1, <1>3, <1>5

LEMMA PeerResetsRelies ==
  ASSUME NEW s \in Sockets
  PROVE  Relies(s, Wake([s EXCEPT !.broken = TRUE], {"err"}))
<1>1. PICK u : u = [s EXCEPT !.broken = TRUE]  OBVIOUS
<1>2. u \in Sockets /\ u.interest = s.interest /\ u.stream = s.stream /\ u.ready = s.ready
  BY <1>1 DEF Sockets
<1>3. PICK t : t = Wake(u, {"err"})  OBVIOUS
<1>4. t \in Sockets /\ t.interest = s.interest /\ t.stream = s.stream /\ t.ready
  BY <1>2, <1>3, WakeFacts
<1>5. Relies(s, t)  BY <1>4 DEF Relies
<1> QED  BY <1>1, <1>3, <1>5

\* The peer makes space: the socket reports it if a write or a poll has missed it.
LEMMA PeerReadsRelies ==
  ASSUME NEW s \in Sockets, s.unread > 0,
         NEW t, LET u == [s EXCEPT !.unread = @ - 1, !.noSpace = FALSE] IN
                t = IF s.noSpace THEN Wake(u, {"out"}) ELSE u
  PROVE  Relies(s, t)
<1>1. PICK u : u = [s EXCEPT !.unread = @ - 1, !.noSpace = FALSE]  OBVIOUS
<1>2. /\ u \in Sockets /\ u.interest = s.interest /\ u.stream = s.stream /\ u.ready = s.ready
      /\ u.broken = s.broken /\ u.incoming = s.incoming /\ u.eof = s.eof /\ u.up = s.up
  <2>1. PICK n \in 0 .. Capacity : n = s.unread /\ n > 0  BY Fields DEF SocketFields
  <2>2. n - 1 \in 0 .. Capacity  BY <2>1, Bounds
  <2> QED  BY <1>1, <2>1, <2>2 DEF Sockets
<1>3. CASE s.noSpace
  <2>0. PICK v : v = Wake(u, {"out"})  OBVIOUS
  <2>1. t = v  BY <1>1, <1>3, <2>0
  <2>2. /\ v \in Sockets /\ v.interest = s.interest /\ v.stream = s.stream /\ (s.ready => v.ready)
        /\ v.broken = s.broken /\ v.incoming = s.incoming /\ v.eof = s.eof
        /\ "out" \in s.interest => v.ready
    BY <1>2, <2>0, WakeFacts
  <2>3. "in" \in Poll(v) => "in" \in Poll(s)  BY <2>2, PollFacts
  <2>4. Relies(s, v)  BY <2>2, <2>3 DEF Relies
  <2> QED  BY <2>1, <2>4
<1>4. CASE ~ s.noSpace
  <2>1. t = u  BY <1>1, <1>4
  <2>2. "in" \in Poll(t) => "in" \in Poll(s)  BY <1>2, <2>1, PollFacts
  <2> QED  BY <1>2, <1>4, <2>1, <2>2 DEF Relies
<1> QED  BY <1>3, <1>4

-----------------------------------------------------------------------------
(***************************************************************************)
(* The inductive invariant, as a predicate of the values of the variables, *)
(* and what preserves it                                                   *)
(***************************************************************************)

\* The thread is done with the connection: no edge is lost.
Quiet(p, c, s) ==
    p = "wait" /\ c.handle # 0 /\ ~ c.skipped => InputIsReady(s) /\ SpaceSeen(c, s)

Pending(p, e, c, s) == p = "event" /\ c.handle # 0 /\ "in" \notin e => InputIsReady(s)

Holds(k, c, s, n, p, e) ==
    /\ k \in {"accept", "client"} /\ n \in 0 .. MaxOpened /\ c.handle \in {0, n}
    /\ p \in {"wait", "event", "in", "out", "remove", "check"}
    /\ e \subseteq {"in", "out", "err"} /\ (p = "wait" <=> e = {})
    /\ WorldOK(c, s)
    /\ Quiet(p, c, s)
    /\ Pending(p, e, c, s)

LEMMA IInvHolds == IInv <=> Holds(kind, conn, sock, opened, pc, event)
<1>1. ASSUME IInv PROVE Holds(kind, conn, sock, opened, pc, event)
  <2>1. TypeOK /\ WorldOK(conn, sock)  BY <1>1 DEF IInv, WorldOK
  <2>2. Quiet(pc, conn, sock)
    BY <1>1 DEF IInv, NoEventLost, Quiet, InputIsReady, SpaceSeen
  <2>3. Pending(pc, event, conn, sock)  BY <1>1 DEF IInv, Pending
  <2> QED  BY <2>1, <2>2, <2>3 DEF Holds, TypeOK
<1>2. ASSUME Holds(kind, conn, sock, opened, pc, event) PROVE IInv
  <2>1. WorldOK(conn, sock)  BY <1>2 DEF Holds
  <2>2. ObjectFields(conn) /\ SocketFields(sock)
    BY <2>1, WorldFacts, Fields, ObjectFieldsOK
  <2>3. Consistent(conn, sock) /\ InOrder(conn, sock)  BY <2>1 DEF WorldOK
  <2>4. NoEventLost  BY <1>2 DEF Holds, NoEventLost, Quiet, InputIsReady, SpaceSeen
  <2>5. pc = "event" /\ conn.handle # 0 /\ "in" \notin event => InputIsReady(sock)
    BY <1>2 DEF Holds, Pending
  <2>6. TypeOK
    <3>1. kind \in {"accept", "client"} /\ conn.handle \in {0, opened} /\ opened \in 0 .. MaxOpened
      BY <1>2 DEF Holds
    <3>2. conn.state \in {"disconnect", "start", "ok", "identified"}
          /\ conn.callback \in {"none", "identify", "checkOnline", "keepOnline"}
      BY <2>2 DEF ObjectFields
    <3>3. conn.handle = 0 => conn.queue = <<>> /\ sock = NoSocket  BY <2>3 DEF Consistent
    <3>4. \A i \in DOMAIN conn.queue : conn.queue[i].id \in DOMAIN conn.accepted
      BY <2>3 DEF Consistent
    <3>5. sock.unread \in 0 .. Capacity /\ sock.signals \in 0 .. MaxSignals
      BY <2>2 DEF SocketFields
    <3>6. pc \in {"wait", "event", "in", "out", "remove", "check"}
          /\ event \subseteq {"in", "out", "err"} /\ (pc = "wait") = (event = {})
      BY <1>2 DEF Holds
    <3> QED  BY <3>1, <3>2, <3>3, <3>4, <3>5, <3>6 DEF TypeOK
  <2> QED  BY <2>3, <2>4, <2>5, <2>6 DEF IInv
<1> QED  BY <1>1, <1>2

LEMMA IInvHoldsNext == IInv' <=> Holds(kind', conn', sock', opened', pc', event')
<1>1. IInv <=> Holds(kind, conn, sock, opened, pc, event)  BY IInvHolds
<1>2. (IInv <=> Holds(kind, conn, sock, opened, pc, event))'  BY <1>1, PTL
<1> QED  BY <1>2

\* A step that loses no event
LEMMA HoldsKeeps ==
  ASSUME NEW k, NEW c, NEW s, NEW n, NEW p, NEW e, Holds(k, c, s, n, p, e),
         NEW d, NEW t, Keeps(c, s, d, t)
  PROVE  Holds(k, d, t, n, p, e)
<1>1. WorldOK(d, t) /\ d.handle \in {0, n}  BY DEF Holds, Keeps
<1>2. Quiet(p, d, t)  BY DEF Holds, Keeps, Quiet, InputSeen, SpaceSeen
<1>3. Pending(p, e, d, t)  BY DEF Holds, Keeps, Pending, InputSeen
<1> QED  BY <1>1, <1>2, <1>3 DEF Holds

\* A step in the course of an event
LEMMA HoldsGoes ==
  ASSUME NEW k, NEW c, NEW s, NEW n, NEW p, NEW e, Holds(k, c, s, n, p, e), p # "wait",
         NEW d, NEW t, Goes(c, d, t), NEW q \in {"in", "out", "remove", "check"}
  PROVE  Holds(k, d, t, n, q, e)
<1>1. WorldOK(d, t) /\ d.handle \in {0, n}  BY DEF Holds, Goes
<1>2. Quiet(q, d, t) /\ Pending(q, e, d, t)  BY DEF Quiet, Pending
<1> QED  BY <1>1, <1>2 DEF Holds

\* The end of an event
LEMMA HoldsWait ==
  ASSUME NEW k, NEW c, NEW s, NEW n, NEW p, NEW e, Holds(k, c, s, n, p, e),
         NEW d, NEW t, Goes(c, d, t), Quiet("wait", d, t)
  PROVE  Holds(k, d, t, n, "wait", {})
<1>1. WorldOK(d, t) /\ d.handle \in {0, n}  BY DEF Holds, Goes
<1>2. Pending("wait", {}, d, t)  BY DEF Pending
<1> QED  BY <1>1, <1>2 DEF Holds

\* What the invariant says of the current state
Now == Holds(kind, conn, sock, opened, pc, event)
Then == Holds(kind', conn', sock', opened', pc', event')

LEMMA NowFacts ==
  ASSUME Now
  PROVE  /\ WorldOK(conn, sock) /\ conn \in Objects /\ sock \in Sockets
         /\ conn.handle = 0 => conn.queue = <<>> /\ conn.accepted = <<>> /\ sock = NoSocket
         /\ sock.up \/ sock.ready \/ sock.unread > 0 => conn.handle # 0
         /\ conn.handle # 0 => "in" \in sock.interest
<1>1. WorldOK(conn, sock)  BY DEF Now, Holds
<1>2. /\ conn \in Objects /\ sock \in Sockets
      /\ conn.handle = 0 => conn.queue = <<>> /\ conn.accepted = <<>> /\ sock = NoSocket
      /\ conn.handle # 0 => "in" \in sock.interest
  BY <1>1, WorldFacts
<1>3. NoSocket.up = FALSE /\ NoSocket.ready = FALSE /\ NoSocket.unread = 0  BY DEF NoSocket
<1> QED  BY <1>1, <1>2, <1>3

LEMMA InitHolds == ASSUME Init PROVE Now
<1>1. conn = Idle /\ sock = NoSocket /\ opened = 0 /\ pc = "wait" /\ event = {}
      /\ kind \in {"accept", "client"}
  BY DEF Init
<1>2. Idle.handle = 0 /\ Idle.queue = <<>> /\ Idle.accepted = <<>>  BY DEF Idle
<1>3. Idle \in Objects
  <2>1. <<>> \in Seq(Waiting) /\ <<>> \in Seq(Nat)  OBVIOUS
  <2> QED  BY <2>1 DEF Idle, Objects
<1>4. QueueOK(Idle.queue, Idle.accepted)
  <2>1. <<>> \in Seq(Waiting) /\ <<>> \in Seq(Nat) /\ DOMAIN <<>> = {}  OBVIOUS
  <2> QED  BY <1>2, <2>1 DEF QueueOK
<1>5. WorldOK(Idle, NoSocket)  BY <1>2, <1>3, <1>4, NoSocketType, WorldFacts
<1>6. 0 \in 0 .. MaxOpened  BY Bounds
<1>7. Quiet(pc, conn, sock) /\ Pending(pc, event, conn, sock)
  BY <1>1, <1>2 DEF Quiet, Pending
<1> QED  BY <1>1, <1>2, <1>5, <1>6, <1>7 DEF Now, Holds

-----------------------------------------------------------------------------
(***************************************************************************)
(* Every step preserves the invariant.                                     *)
(***************************************************************************)

LEMMA KernelStep == ASSUME Now, Kernel PROVE Then
<1>1. WorldOK(conn, sock) /\ sock \in Sockets  BY NowFacts
<1>2. /\ UNCHANGED <<kind, conn, opened, pc, event>>
      /\ conn.handle # 0
      /\ Relies(sock, sock')
  <2>1. CASE Connects
    <3>1. Relies(sock, Wake([sock EXCEPT !.up = TRUE], {"out"}))
      BY <1>1, <2>1, ConnectsRelies DEF Connects
    <3> QED  BY <2>1, <3>1 DEF Connects
  <2>2. CASE PeerReads
    <3>1. sock.unread > 0  BY <2>2 DEF PeerReads
    <3>2. PICK t : t = sock'  OBVIOUS
    <3>3. LET u == [sock EXCEPT !.unread = @ - 1, !.noSpace = FALSE] IN
          t = IF sock.noSpace THEN Wake(u, {"out"}) ELSE u
      BY <2>2, <3>2 DEF PeerReads
    <3>4. Relies(sock, t)  BY <1>1, <3>1, <3>3, PeerReadsRelies
    <3>5. conn.handle # 0  BY <3>1, NowFacts
    <3> QED  BY <2>2, <3>2, <3>4, <3>5 DEF PeerReads
  <2>3. CASE PeerCloses
    <3>1. Relies(sock, Wake([sock EXCEPT !.eof = TRUE], {"in"}))
      BY <1>1, PeerClosesRelies
    <3>2. conn.handle # 0  BY <2>3, NowFacts DEF PeerCloses
    <3> QED  BY <2>3, <3>1, <3>2 DEF PeerCloses
  <2>4. CASE PeerResets
    <3>1. Relies(sock, Wake([sock EXCEPT !.broken = TRUE], {"err"}))
      BY <1>1, PeerResetsRelies
    <3> QED  BY <2>4, <3>1 DEF PeerResets
  <2>5. ASSUME NEW m \in Messages, PeerSends(m)
        PROVE  /\ UNCHANGED <<kind, conn, opened, pc, event>>
               /\ conn.handle # 0
               /\ Relies(sock, sock')
    <3>1. m \in {"register", "refused", "ping", "response", "pong"}  BY DEF Messages
    <3>2. Relies(sock, Wake([sock EXCEPT !.incoming = Append(@, m), !.received = @ + 1], {"in"}))
      BY <1>1, <3>1, PeerSendsRelies
    <3>3. conn.handle # 0  BY <2>5, NowFacts DEF PeerSends
    <3> QED  BY <2>5, <3>2, <3>3 DEF PeerSends
  <2> QED  BY <2>1, <2>2, <2>3, <2>4, <2>5 DEF Kernel
<1>3. PICK t : t = sock'  OBVIOUS
<1>4. Keeps(conn, sock, conn, t)  BY <1>1, <1>2, <1>3, ReliesKeeps
<1>5. Holds(kind, conn, t, opened, pc, event)  BY <1>4, HoldsKeeps DEF Now
<1> QED  BY <1>2, <1>3, <1>5 DEF Then

\* epoll_wait: what is not reported is not there, and what has no space says so.
LEMMA EpollWaitStep == ASSUME Now, EpollWait PROVE Then
<1>1. WorldOK(conn, sock) /\ conn.handle # 0 /\ sock \in Sockets /\ "in" \in sock.interest
  BY NowFacts DEF EpollWait
<1>2. SocketFields(sock)  BY <1>1, Fields
<1>3. PICK noSpace \in BOOLEAN : noSpace = (sock.noSpace \/ (sock.up /\ Space(sock) = 0))
  <2>1. (sock.noSpace \/ (sock.up /\ Space(sock) = 0)) \in BOOLEAN  OBVIOUS
  <2> QED  BY <2>1
<1>4. PICK t : t = [sock EXCEPT !.noSpace = noSpace, !.ready = FALSE]  OBVIOUS
<1>5. t = sock' /\ event' = Reported(sock) /\ UNCHANGED <<kind, conn, opened>> /\ pc = "wait"
      /\ pc' = IF event' = {} THEN "wait" ELSE "event"
  <2>1. sock' = [Polled(sock) EXCEPT !.ready = FALSE]  BY DEF EpollWait
  <2>2. [Polled(sock) EXCEPT !.ready = FALSE] = t  BY <1>1, <1>3, <1>4 DEF Polled, Sockets
  <2> QED  BY <2>1, <2>2 DEF EpollWait
<1>6. /\ t \in Sockets /\ t.interest = sock.interest /\ t.stream = sock.stream
      /\ t.up = sock.up /\ t.unread = sock.unread /\ t.noSpace = noSpace
      /\ t.broken = sock.broken /\ t.incoming = sock.incoming /\ t.eof = sock.eof
  BY <1>1, <1>4 DEF Sockets
<1>7. WorldOK(conn, t)  BY <1>1, <1>6, SameSocket
<1>8. PICK e : e = Reported(sock) /\ e \subseteq {"in", "out", "err"}  BY PollFacts
<1>9. "in" \notin e => InputIsReady(t)
  BY <1>1, <1>6, <1>8, PollFacts DEF InputIsReady
<1>10. PICK p : p = IF e = {} THEN "wait" ELSE "event"  OBVIOUS
<1>11. Quiet(p, conn, t)
  <2> SUFFICES ASSUME p = "wait", ~ conn.skipped, conn.queue # <<>>
               PROVE  WaitsForOut(t)
    <3>1. p = "wait" => InputIsReady(t)  BY <1>9, <1>10
    <3> QED  BY <3>1 DEF Quiet, SpaceSeen
  <2>1. e = {}  BY <1>10
  <2>2. "out" \in sock.interest
    <3>1. Quiet(pc, conn, sock)  BY DEF Now, Holds
    <3> QED  BY <1>1, <1>5, <3>1 DEF Quiet, SpaceSeen, WaitsForOut
  <2>3. ~ (sock.up /\ Space(sock) > 0)  BY <1>8, <2>1, <2>2, PollFacts
  <2>4. sock.up => Space(sock) = 0 /\ noSpace
    <3>1. sock.unread \in 0 .. Capacity  BY <1>2 DEF SocketFields
    <3>2. sock.up => Space(sock) = 0  BY <2>3, <3>1, Bounds DEF Space
    <3> QED  BY <1>3, <3>2
  <2> QED  BY <1>6, <2>2, <2>4 DEF WaitsForOut, Space
<1>12. Pending(p, e, conn, t)  BY <1>9 DEF Pending
<1>13. p \in {"wait", "event", "in", "out", "remove", "check"} /\ (p = "wait" <=> e = {})
  BY <1>10
<1>14. Holds(kind, conn, t, opened, p, e)
  BY <1>7, <1>8, <1>11, <1>12, <1>13 DEF Now, Holds
<1>15. p = pc' /\ e = event'  BY <1>5, <1>8, <1>10
<1> QED  BY <1>5, <1>14, <1>15 DEF Then

LEMMA AfterInType == AfterIn \in {"out", "remove", "check"}
BY DEF AfterIn

LEMMA ActiveStep == ASSUME Now, Active PROVE Then
<1>1. Goes(conn, conn, sock)  BY NowFacts DEF Goes
<1>2. PICK q \in {"in", "out", "remove", "check"} : q = pc'  BY AfterInType DEF Active
<1>3. pc # "wait" /\ UNCHANGED <<kind, conn, sock, opened, event>>  BY DEF Active
<1>4. Holds(kind, conn, sock, opened, q, event)  BY <1>1, <1>3, HoldsGoes DEF Now
<1> QED  BY <1>2, <1>3, <1>4 DEF Then

\* epollActive of a connecting client: what it has skipped it has noted.
LEMMA ClientActiveStep == ASSUME Now, ClientActive PROVE Then
<1>1. WorldOK(conn, sock) /\ conn \in Objects /\ sock \in Sockets  BY NowFacts
<1>2. pc = "event" /\ pc' = "wait" /\ event' = {} /\ UNCHANGED <<kind, opened>>
  BY DEF ClientActive
<1>3. PICK d, t : d = conn' /\ t = sock'  OBVIOUS
<1>4. Goes(conn, d, t) /\ Quiet("wait", d, t)
  <2>1. CASE conn.handle = 0
    <3>1. d \in {conn, [conn EXCEPT !.state = "ok"]} /\ t = sock
      BY <1>3, <2>1 DEF ClientActive
    <3>2. d \in Objects /\ d.handle = conn.handle /\ d.queue = conn.queue
          /\ d.accepted = conn.accepted
      BY <1>1, <3>1 DEF Objects
    <3>3. WorldOK(d, t)  BY <1>1, <3>1, <3>2, SameObject
    <3> QED  BY <2>1, <3>2, <3>3 DEF Goes, Quiet
  <2>2. CASE conn.handle # 0 /\ sock.broken
    <3>1. d = EpollRemove(conn, sock).conn /\ t = EpollRemove(conn, sock).sock
      BY <1>3, <2>2 DEF ClientActive, Becomes
    <3>2. Goes(conn, d, t)  BY <1>1, <3>1, EpollRemoveKeeps, KeepsGoes
    <3>3. d.handle = 0  BY <2>2, <3>1 DEF EpollRemove, Closed, World, Idle
    <3> QED  BY <3>2, <3>3 DEF Quiet
  <2>3. CASE conn.handle # 0 /\ ~ sock.broken
    <3>1. PICK skipped \in BOOLEAN : skipped = (conn.queue # <<>> \/ "in" \in event)
      <4>1. (conn.queue # <<>> \/ "in" \in event) \in BOOLEAN  OBVIOUS
      <4> QED  BY <4>1
    <3>2. d = [conn EXCEPT !.state = "ok", !.skipped = skipped] /\ t = sock
      BY <1>3, <2>3, <3>1 DEF ClientActive, Becomes, World
    <3>3. d \in Objects /\ d.handle = conn.handle /\ d.queue = conn.queue
          /\ d.accepted = conn.accepted /\ d.skipped = skipped
      BY <1>1, <3>2 DEF Objects
    <3>4. WorldOK(d, t)  BY <1>1, <3>2, <3>3, SameObject
    <3>5. "in" \notin event => InputIsReady(t)
      BY <1>2, <2>3, <3>2 DEF Now, Holds, Pending
    <3> QED  BY <3>1, <3>3, <3>4, <3>5 DEF Goes, Quiet, SpaceSeen
  <2> QED  BY <2>1, <2>2, <2>3
<1>5. Holds(kind, d, t, opened, "wait", {})  BY <1>4, HoldsWait DEF Now
<1> QED  BY <1>2, <1>3, <1>5 DEF Then

LEMMA ReadPacketStep == ASSUME Now, ReadPacket PROVE Then
<1>1. WorldOK(conn, sock) /\ sock \in Sockets  BY NowFacts
<1>2. conn.handle # 0 /\ sock.incoming # <<>> /\ pc = "in" /\ UNCHANGED <<kind, opened, pc, event>>
  BY DEF ReadPacket
<1>3. PICK t : t = [sock EXCEPT !.incoming = Tail(@)]  OBVIOUS
<1>4. t \in Sockets /\ t.interest = sock.interest /\ t.stream = sock.stream
  <2>1. sock.incoming \in Seq({"register", "refused", "ping", "response", "pong"})
    BY <1>1, Fields DEF SocketFields
  <2>2. Tail(sock.incoming) \in Seq({"register", "refused", "ping", "response", "pong"})
    BY <1>2, <2>1, HeadTailProperties
  <2> QED  BY <1>1, <1>3, <2>2 DEF Sockets
<1>5. WorldOK(conn, t)  BY <1>1, <1>2, <1>4, SameSocket
<1>6. PICK w \in Dispatch(conn, t, Head(sock.incoming)) : conn' = w.conn /\ sock' = w.sock
  BY <1>3 DEF ReadPacket, Becomes
<1>7. PICK d, u : d = w.conn /\ u = w.sock  OBVIOUS
<1>8. Goes(conn, d, u)
  <2>1. sock.incoming \in Seq({"register", "refused", "ping", "response", "pong"})
    BY <1>1, Fields DEF SocketFields
  <2>2. Head(sock.incoming) \in Messages  BY <1>2, <2>1, HeadTailProperties DEF Messages
  <2> QED  BY <1>5, <1>7, <2>2, DispatchGoes
<1>9. Holds(kind, d, u, opened, "in", event)  BY <1>2, <1>8, HoldsGoes DEF Now
<1> QED  BY <1>2, <1>6, <1>7, <1>9 DEF Then

LEMMA ReadEndsStep == ASSUME Now, ReadEnds PROVE Then
<1>1. WorldOK(conn, sock) /\ sock \in Sockets  BY NowFacts
<1>2. pc = "in" /\ UNCHANGED <<kind, opened, event>>  BY DEF ReadEnds
<1>3. PICK q \in {"in", "out", "remove", "check"} : q = pc'  BY AfterInType DEF ReadEnds
<1>4. PICK d, t : d = conn' /\ t = sock'  OBVIOUS
<1>5. Goes(conn, d, t)
  <2>1. CASE UNCHANGED <<conn, sock>>  BY <1>1, <1>4, <2>1 DEF Goes
  <2>2. CASE /\ sock.signals < MaxSignals /\ conn.handle # 0
             /\ sock' = [sock EXCEPT !.signals = @ + 1]
             /\ UNCHANGED conn
    <3>1. sock.signals + 1 \in 0 .. MaxSignals
      <4>1. PICK m \in 0 .. MaxSignals : m = sock.signals  BY <1>1, Fields DEF SocketFields
      <4>2. m + 1 \in 0 .. MaxSignals  BY <2>2, <4>1, Bounds
      <4> QED  BY <4>1, <4>2
    <3>2. t \in Sockets /\ t.interest = sock.interest /\ t.stream = sock.stream
      BY <1>1, <1>4, <2>2, <3>1 DEF Sockets
    <3>3. WorldOK(conn, t)  BY <1>1, <2>2, <3>2, SameSocket
    <3> QED  BY <1>4, <2>2, <3>3 DEF Goes
  <2>3. CASE Becomes({EpollRemove(conn, sock)})
    <3>1. d = EpollRemove(conn, sock).conn /\ t = EpollRemove(conn, sock).sock
      BY <1>4, <2>3 DEF Becomes
    <3> QED  BY <1>1, <3>1, EpollRemoveKeeps, KeepsGoes
  <2> QED  BY <2>1, <2>2, <2>3 DEF ReadEnds
<1>6. Holds(kind, d, t, opened, q, event)  BY <1>2, <1>5, HoldsGoes DEF Now
<1> QED  BY <1>2, <1>3, <1>4, <1>6 DEF Then

LEMMA WriteQueueStep == ASSUME Now, WriteQueue PROVE Then
<1>1. WorldOK(conn, sock)  BY NowFacts
<1>2. pc = "out" /\ UNCHANGED <<kind, opened, event>>  BY DEF WriteQueue
<1>3. PICK q \in {"in", "out", "remove", "check"} : q = pc'  BY DEF WriteQueue
<1>4. PICK d, t : d = conn' /\ t = sock'  OBVIOUS
<1>5. Goes(conn, d, t)
  <2>1. CASE conn.queue = <<>>  BY <1>1, <1>4, <2>1 DEF WriteQueue, Goes
  <2>2. CASE conn.queue # <<>>
    <3>1. conn.handle # 0  BY <2>2, NowFacts
    <3>2. PICK w \in EpollOut(conn, sock) : conn' = w.conn /\ sock' = w.sock
      BY <2>2 DEF WriteQueue, Becomes
    <3> QED  BY <1>1, <1>4, <2>2, <3>1, <3>2, EpollOutGoes
  <2> QED  BY <2>1, <2>2
<1>6. Holds(kind, d, t, opened, q, event)  BY <1>2, <1>5, HoldsGoes DEF Now
<1> QED  BY <1>2, <1>3, <1>4, <1>6 DEF Then

LEMMA ErrorEventStep == ASSUME Now, ErrorEvent PROVE Then
<1>1. WorldOK(conn, sock)  BY NowFacts
<1>2. pc' = "wait" /\ event' = {} /\ UNCHANGED <<kind, opened>>  BY DEF ErrorEvent
<1>3. PICK d, t : d = EpollRemove(conn, sock).conn /\ t = EpollRemove(conn, sock).sock
  OBVIOUS
<1>4. d = conn' /\ t = sock'  BY <1>3 DEF ErrorEvent, Becomes
<1>5. Goes(conn, d, t)  BY <1>1, <1>3, EpollRemoveKeeps, KeepsGoes
<1>6. d.handle = 0  BY <1>3 DEF EpollRemove, Closed, World, Idle
<1>7. Holds(kind, d, t, opened, "wait", {})  BY <1>5, <1>6, HoldsWait DEF Now, Quiet
<1> QED  BY <1>2, <1>4, <1>7 DEF Then

\* epollCheck looks at the socket once more: no edge is lost.
LEMMA EpollCheckStep == ASSUME Now, EpollCheck PROVE Then
<1>1. WorldOK(conn, sock) /\ conn \in Objects /\ sock \in Sockets  BY NowFacts
<1>2. pc' = "wait" /\ event' = {} /\ UNCHANGED <<kind, opened>>  BY DEF EpollCheck
<1>3. PICK d, t : d = conn' /\ t = sock'  OBVIOUS
<1>4. d = [conn EXCEPT !.skipped = FALSE]  BY <1>3 DEF EpollCheck
<1>5. d \in Objects /\ d.handle = conn.handle /\ d.queue = conn.queue
      /\ d.accepted = conn.accepted
  BY <1>1, <1>4 DEF Objects
<1>6. CASE conn.handle = 0
  <2>1. t = sock  BY <1>3, <1>6 DEF EpollCheck
  <2>2. WorldOK(d, t)  BY <1>1, <1>5, <2>1, SameObject
  <2>3. Holds(kind, d, t, opened, "wait", {})
    BY <1>5, <1>6, <2>2, HoldsWait DEF Now, Goes, Quiet
  <2> QED  BY <1>2, <1>3, <2>3 DEF Then
<1>7. CASE conn.handle # 0
  <2>1. PICK e : e = IF conn.queue = <<>> THEN {"in"} ELSE {"in", "out"}  OBVIOUS
  <2>2. e \subseteq {"in", "out"} /\ "in" \in e /\ (conn.queue # <<>> => "out" \in e)  BY <2>1
  <2>3. t = ObjectChange(sock, e)  BY <1>3, <1>7, <2>1 DEF EpollCheck
  <2>4. /\ t \in Sockets /\ t.interest = e /\ t.stream = sock.stream /\ InputIsReady(t)
        /\ "out" \in e => WaitsForOut(t)
    BY <1>1, <2>2, <2>3, ObjectChangeFacts
  <2>5. WorldOK(d, sock)  BY <1>1, <1>5, SameObject
  <2>6. WorldOK(d, t)
    <3>1. /\ d \in Objects
          /\ sock.stream \o Rest(d.queue, d.accepted) = AllUnits(d.accepted)
          /\ QueueOK(d.queue, d.accepted)
      BY <1>5, <1>7, <2>5, WorldFacts
    <3>2. d.handle # 0 /\ t \in Sockets /\ "in" \in t.interest /\ t.stream = sock.stream
      BY <1>5, <1>7, <2>2, <2>4
    <3> QED  BY <3>1, <3>2, WorldFacts
  <2>7. Quiet("wait", d, t)  BY <1>5, <2>2, <2>4 DEF Quiet, SpaceSeen
  <2>8. Holds(kind, d, t, opened, "wait", {})
    BY <1>5, <2>6, <2>7, HoldsWait DEF Now, Goes
  <2> QED  BY <1>2, <1>3, <2>8 DEF Then
<1> QED  BY <1>6, <1>7

\* A new connection has nothing to read yet, and nothing to write.
LEMMA NewWorld ==
  ASSUME NEW d \in Objects, NEW t \in Sockets, d.queue = <<>>, d.accepted = <<>>, d.handle # 0,
         "in" \in t.interest, t.stream = <<>>,
         ~ t.broken, ~ t.eof, t.incoming = <<>>
  PROVE  WorldOK(d, t) /\ InputIsReady(t) /\ SpaceSeen(d, t)
<1>1. QueueOK(d.queue, d.accepted)
  <2>1. <<>> \in Seq(Waiting) /\ <<>> \in Seq(Nat) /\ DOMAIN <<>> = {}  OBVIOUS
  <2> QED  BY <2>1 DEF QueueOK
<1>2. t.stream \o Rest(d.queue, d.accepted) = AllUnits(d.accepted)
  <2>1. <<>> \o <<>> = <<>>  OBVIOUS
  <2> QED  BY <2>1, RestEmpty, AllUnitsEmpty
<1>3. WorldOK(d, t)  BY <1>1, <1>2, WorldFacts
<1>4. InputIsReady(t)  BY PollFacts DEF InputIsReady
<1> QED  BY <1>3, <1>4 DEF SpaceSeen

LEMMA OpenStep ==
  ASSUME Now, OpenAccept \/ OpenClient
  PROVE  Then
<1>1. conn \in Objects /\ conn.handle = 0 /\ conn.queue = <<>> /\ conn.accepted = <<>>
  BY NowFacts DEF OpenAccept, OpenClient
<1>2. PICK n \in 1 .. MaxOpened : n = opened + 1 /\ n = opened'
  <2>1. opened \in 0 .. MaxOpened /\ opened < MaxOpened
    BY DEF Now, Holds, OpenAccept, OpenClient
  <2>2. opened + 1 \in 1 .. MaxOpened  BY <2>1, Bounds
  <2> QED  BY <2>2 DEF OpenAccept, OpenClient
<1>3. UNCHANGED <<kind, pc, event>>  BY DEF OpenAccept, OpenClient
<1>4. PICK d, t : d = conn' /\ t = sock'  OBVIOUS
<1>5. d \in Objects /\ d.handle = n /\ d.queue = <<>> /\ d.accepted = <<>>
  <2>0. n \in Nat  BY Bounds
  <2>1. CASE OpenAccept
    <3>1. d = [conn EXCEPT !.handle = n, !.state = "ok", !.callback = "identify", !.timer = TRUE]
      BY <1>2, <1>4, <2>1 DEF OpenAccept
    <3> QED  BY <1>1, <2>0, <3>1 DEF Objects
  <2>2. CASE OpenClient
    <3>1. d = [conn EXCEPT !.handle = n, !.state = "start"]
      BY <1>2, <1>4, <2>2 DEF OpenClient
    <3> QED  BY <1>1, <2>0, <3>1 DEF Objects
  <2> QED  BY <2>1, <2>2
<1>6. /\ t \in Sockets /\ "in" \in t.interest /\ t.stream = <<>>
      /\ ~ t.broken /\ ~ t.eof /\ t.incoming = <<>>
  <2>1. CASE OpenAccept
    <3>1. t = [NoSocket EXCEPT !.up = TRUE, !.interest = {"in"}]
      BY <1>4, <2>1 DEF OpenAccept
    <3>2. t \in Sockets /\ t.interest = {"in"}  BY <3>1, NoSocketType DEF Sockets
    <3> QED  BY <3>1, <3>2 DEF NoSocket
  <2>2. CASE OpenClient
    <3>1. t = [NoSocket EXCEPT !.interest = {"in", "out"}]
      BY <1>4, <2>2 DEF OpenClient
    <3>2. t \in Sockets /\ t.interest = {"in", "out"}  BY <3>1, NoSocketType DEF Sockets
    <3> QED  BY <3>1, <3>2 DEF NoSocket
  <2> QED  BY <2>1, <2>2
<1>7. WorldOK(d, t) /\ InputIsReady(t) /\ SpaceSeen(d, t)
  <2>1. d.handle # 0  BY <1>5
  <2> QED  BY <1>5, <1>6, <2>1, NewWorld
<1>8. Quiet(pc, d, t) /\ Pending(pc, event, d, t)  BY <1>7 DEF Quiet, Pending
<1>9. n \in 0 .. MaxOpened /\ d.handle \in {0, n}  BY <1>5
<1>10. Holds(kind, d, t, n, pc, event)  BY <1>7, <1>8, <1>9 DEF Now, Holds
<1> QED  BY <1>2, <1>3, <1>4, <1>10 DEF Then

\* Tasks and timers on an object that is open, and an open that fails
LEMMA KeepingStep ==
  ASSUME Now, \/ OpenFails \/ CloseConnect \/ TimerFires
              \/ \E length \in Lengths : DispatchToConnect(length)
  PROVE  Then
<1>1. WorldOK(conn, sock) /\ conn \in Objects  BY NowFacts
<1>2. UNCHANGED <<kind, opened, pc, event>>
  BY DEF OpenFails, CloseConnect, TimerFires, DispatchToConnect
<1>3. PICK d, t : d = conn' /\ t = sock'  OBVIOUS
<1>4. Keeps(conn, sock, d, t)
  <2>1. CASE OpenFails \/ CloseConnect
    <3>1. d = Closed(conn).conn /\ t = Closed(conn).sock
      BY <1>3, <2>1 DEF OpenFails, CloseConnect, Becomes
    <3> QED  BY <1>1, <3>1, ClosedKeeps
  <2>2. CASE TimerFires
    <3>1. \/ Becomes(CheckConnectIdentify(conn, sock))
          \/ Becomes(CheckConnectOnline(conn, sock))
          \/ Becomes(KeepConnectOnline(conn, sock))
      BY <2>2 DEF TimerFires
    <3>2. CASE Becomes(CheckConnectIdentify(conn, sock))
      <4>1. PICK w \in CheckConnectIdentify(conn, sock) : d = w.conn /\ t = w.sock
        BY <1>3, <3>2 DEF Becomes
      <4> QED  BY <1>1, <4>1, CheckConnectIdentifyKeeps
    <3>3. CASE Becomes(CheckConnectOnline(conn, sock))
      <4>1. PICK w \in CheckConnectOnline(conn, sock) : d = w.conn /\ t = w.sock
        BY <1>3, <3>3 DEF Becomes
      <4> QED  BY <1>1, <4>1, CheckConnectOnlineKeeps
    <3>4. CASE Becomes(KeepConnectOnline(conn, sock))
      <4>1. PICK w \in KeepConnectOnline(conn, sock) : d = w.conn /\ t = w.sock
        BY <1>3, <3>4 DEF Becomes
      <4> QED  BY <1>1, <4>1, KeepConnectOnlineKeeps
    <3> QED  BY <3>1, <3>2, <3>3, <3>4
  <2>3. ASSUME NEW l \in Lengths, DispatchToConnect(l)
        PROVE  Keeps(conn, sock, d, t)
    <3>1. PICK w \in SendPacket(conn, sock, l) : d = w.conn /\ t = w.sock
      BY <1>3, <2>3 DEF DispatchToConnect, Becomes
    <3>2. l \in Nat  BY ConnectionAssumption
    <3> QED  BY <1>1, <3>1, <3>2, SendPacketKeeps
  <2> QED  BY <2>1, <2>2, <2>3
<1>5. Holds(kind, d, t, opened, pc, event)  BY <1>4, HoldsKeeps DEF Now
<1> QED  BY <1>2, <1>3, <1>5 DEF Then

LEMMA NextKeepsIInv == ASSUME IInv, [Next]_vars PROVE IInv'
<1>1. Now  BY IInvHolds DEF Now
<1> SUFFICES Then
  BY IInvHoldsNext DEF Then
<1>2. CASE Next
  <2>1. CASE Kernel  BY <1>1, <2>1, KernelStep
  <2>2. CASE EpollWait  BY <1>1, <2>2, EpollWaitStep
  <2>3. CASE HandleEvent
    BY <1>1, <2>3, ClientActiveStep, ActiveStep, ReadPacketStep, ReadEndsStep,
       WriteQueueStep, ErrorEventStep, EpollCheckStep DEF HandleEvent
  <2>4. CASE Tasks  BY <1>1, <2>4, OpenStep, KeepingStep DEF Tasks
  <2>5. CASE TimerFires  BY <1>1, <2>5, KeepingStep
  <2> QED  BY <1>2, <2>1, <2>2, <2>3, <2>4, <2>5 DEF Next
<1>3. CASE UNCHANGED vars  BY <1>1, <1>3 DEF Now, Then, vars
<1> QED  BY <1>2, <1>3

-----------------------------------------------------------------------------
(***************************************************************************)
(* The theorems                                                            *)
(***************************************************************************)

\* Object and socket are always consistent: in the pool the object has no packets
\* and no socket, connected it listens, and its queue holds accepted packets.
THEOREM InductiveInvariant == Spec => []IInv
<1>1. Init => IInv  BY InitHolds, IInvHolds DEF Now
<1>2. IInv /\ [Next]_vars => IInv'  BY NextKeepsIInv
<1> QED  BY <1>1, <1>2, PTL DEF Spec

\* No edge of the edge-triggered socket is lost (Epoll::update, objectChange,
\* epollCheck): when the thread is done with the connection, what the peer sent and
\* space for a queued packet are in the ready list or will be reported.
THEOREM NoEdgeIsLost == Spec => []Inv
<1>1. IInv => Inv  BY DEF IInv, Inv
<1> QED  BY <1>1, InductiveInvariant, PTL

\* The bytes in the socket and those in the queue are the packets that sendPacket
\* took, whole, once and in their order, however writeSocket cuts them.
THEOREM PacketsStayInOrder == Spec => []PacketsInOrder
<1>1. IInv => PacketsInOrder  BY DEF IInv, InOrder, PacketsInOrder
<1> QED  BY <1>1, InductiveInvariant, PTL
=============================================================================
