-------------------------- MODULE SubscriptionProofs --------------------------
(***************************************************************************)
(* Proofs about Subscriptions, for any number of subscriptions, changes,   *)
(* bindings and lost connections.                                          *)
(***************************************************************************)
EXTENDS Subscriptions, FiniteSetTheorems, SequenceTheorems, WellFoundedInduction, TLAPS

-----------------------------------------------------------------------------
(* Sequences.                                                              *)

\* Every set of numbers that has an element has a least one.
LEMMA LeastNumber ==
    ASSUME NEW T, T \subseteq Nat, T # {}
    PROVE  \E n \in T : \A m \in T : ~ (m < n)
<1>1. PICK n \in T : \A m \in T : <<m, n>> \notin OpToRel(<, Nat)
  BY WFMin, NatLessThanWellFounded
<1>2. \A m \in T : <<m, n>> \in OpToRel(<, Nat) <=> m < n
  BY DEF OpToRel
<1> QED BY <1>1, <1>2

\* What comes behind a concatenation comes behind its second part.
AppendsBehind(S) == \A p, q \in Seq(S) : \A e \in S : Append(p \o q, e) = p \o Append(q, e)

\* For sequences of any set.
LEMMA AppendConcat == ASSUME NEW S PROVE AppendsBehind(S)
<1> SUFFICES ASSUME NEW p \in Seq(S), NEW q \in Seq(S), NEW e \in S
             PROVE  Append(p \o q, e) = p \o Append(q, e)
  BY DEF AppendsBehind
<1>1. p \o q \in Seq(S) /\ <<e>> \in Seq(S)
  BY ConcatProperties
<1>2. Append(p \o q, e) = (p \o q) \o <<e>> /\ Append(q, e) = q \o <<e>>
  BY <1>1, AppendIsConcat
<1>3. (p \o q) \o <<e>> = p \o (q \o <<e>>)
  BY <1>1, ConcatAssociative
<1> QED BY <1>2, <1>3

\* Concatenation is associative.
Associates(S) == \A a, b, c \in Seq(S) : (a \o b) \o c = a \o (b \o c)

\* For sequences of any set.
LEMMA ConcatAssociates == ASSUME NEW S PROVE Associates(S)
BY ConcatAssociative DEF Associates

\* An element at the end of one part is one at the start of the next.
AppendsBetween(S) ==
    \A k, n, p \in Seq(S) : \A u \in S : Append(k, u) \o (n \o p) = k \o ((<<u>> \o n) \o p)

\* For sequences of any set.
LEMMA AppendBetween == ASSUME NEW S PROVE AppendsBetween(S)
<1> SUFFICES ASSUME NEW k \in Seq(S), NEW n \in Seq(S), NEW p \in Seq(S), NEW u \in S
             PROVE  Append(k, u) \o (n \o p) = k \o ((<<u>> \o n) \o p)
  BY DEF AppendsBetween
<1>1. <<u>> \in Seq(S)
  OBVIOUS
<1>2. PICK x \in Seq(S) : x = <<u>>
  BY <1>1
<1>3. PICK y \in Seq(S) : y = n \o p
  BY ConcatProperties
<1>4. Append(k, u) = k \o x
  BY <1>2, AppendIsConcat
<1>5. Associates(S)
  BY ConcatAssociates
<1>6. (k \o x) \o y = k \o (x \o y)
  BY <1>5, Zenon DEF Associates
<1>7. (x \o n) \o p = x \o (n \o p)
  BY <1>5, Zenon DEF Associates
<1> QED BY <1>2, <1>3, <1>4, <1>6, <1>7

\* A sequence is its head and its tail.
LEMMA HeadAndTail ==
    ASSUME NEW S, NEW p \in Seq(S), p # <<>>
    PROVE  <<Head(p)>> \o Tail(p) = p /\ <<Head(p)>> \in Seq(S) /\ Tail(p) \in Seq(S)
<1>1. Head(p) \in S /\ Tail(p) \in Seq(S) /\ Len(Tail(p)) = Len(p) - 1
      /\ \A i \in 1..Len(Tail(p)) : Tail(p)[i] = p[i + 1]
  BY HeadTailProperties
<1>2. <<Head(p)>> \in Seq(S) /\ Len(<<Head(p)>>) = 1 /\ <<Head(p)>>[1] = p[1]
  BY <1>1
<1>3. PICK h \in Seq(S) : h = <<Head(p)>>
  BY <1>2
<1>4. /\ h \o Tail(p) \in Seq(S) /\ Len(h \o Tail(p)) = Len(h) + Len(Tail(p))
      /\ \A i \in 1..(Len(h) + Len(Tail(p))) :
           (h \o Tail(p))[i] = IF i <= Len(h) THEN h[i] ELSE Tail(p)[i - Len(h)]
  BY <1>1, ConcatProperties
<1>5. Len(h \o Tail(p)) = Len(p) /\ \A i \in 1..Len(p) : (h \o Tail(p))[i] = p[i]
  BY <1>1, <1>2, <1>3, <1>4
<1>6. h \o Tail(p) = p
  BY <1>4, <1>5, SeqEqual
<1> QED BY <1>1, <1>2, <1>3, <1>6

\* The tail of a concatenation.
LEMMA TailConcat ==
    ASSUME NEW S, NEW p \in Seq(S), NEW q \in Seq(S), p # <<>>
    PROVE  p \o q # <<>> /\ Head(p \o q) = Head(p) /\ Tail(p \o q) = Tail(p) \o q
<1>1. <<Head(p)>> \o Tail(p) = p /\ <<Head(p)>> \in Seq(S) /\ Tail(p) \in Seq(S) /\ Head(p) \in S
  BY HeadAndTail, HeadTailProperties
<1>2. /\ p \o q \in Seq(S) /\ Len(p \o q) = Len(p) + Len(q) /\ Len(p) \in Nat /\ Len(q) \in Nat
      /\ \A i \in 1..(Len(p) + Len(q)) : (p \o q)[i] = IF i <= Len(p) THEN p[i] ELSE q[i - Len(p)]
  BY ConcatProperties
<1>3. Len(p) > 0
  OBVIOUS
<1>4. p \o q # <<>> /\ Head(p \o q) = Head(p)
  BY <1>2, <1>3
<1>5. /\ Tail(p \o q) \in Seq(S) /\ Len(Tail(p \o q)) = Len(p \o q) - 1
      /\ \A i \in 1..Len(Tail(p \o q)) : Tail(p \o q)[i] = (p \o q)[i + 1]
  BY <1>2, <1>4, HeadTailProperties
<1>6. /\ Tail(p) \in Seq(S) /\ Len(Tail(p)) = Len(p) - 1
      /\ \A i \in 1..Len(Tail(p)) : Tail(p)[i] = p[i + 1]
  BY HeadTailProperties
<1>7. /\ Tail(p) \o q \in Seq(S) /\ Len(Tail(p) \o q) = Len(Tail(p)) + Len(q)
      /\ \A i \in 1..(Len(Tail(p)) + Len(q)) :
           (Tail(p) \o q)[i] = IF i <= Len(Tail(p)) THEN Tail(p)[i] ELSE q[i - Len(Tail(p))]
  BY <1>6, ConcatProperties
<1>8. Len(Tail(p \o q)) = Len(Tail(p) \o q)
  BY <1>2, <1>5, <1>6, <1>7
<1>9. ASSUME NEW i \in 1..Len(Tail(p \o q))
      PROVE  Tail(p \o q)[i] = (Tail(p) \o q)[i]
  <2>1. i \in 1..(Len(Tail(p)) + Len(q)) /\ i + 1 \in 1..(Len(p) + Len(q)) /\ Len(Tail(p)) = Len(p) - 1
    BY <1>2, <1>3, <1>5, <1>6
  <2>2. CASE i <= Len(Tail(p))
    BY <1>2, <1>5, <1>6, <1>7, <2>1, <2>2
  <2>3. CASE ~ (i <= Len(Tail(p)))
    <3>1. ~ (i + 1 <= Len(p)) /\ (i + 1) - Len(p) = i - Len(Tail(p))
      BY <1>2, <2>1, <2>3
    <3> QED BY <1>2, <1>5, <1>7, <2>1, <2>3, <3>1
  <2> QED BY <2>2, <2>3
<1>10. Tail(p \o q) = Tail(p) \o q
  BY <1>5, <1>7, <1>8, <1>9, SeqEqual
<1> QED BY <1>4, <1>10

\* A sequence made of a set has each element of it once and no other.
LEMMA SetToSeqElements ==
    ASSUME NEW S, IsFiniteSet(S)
    PROVE  /\ SetToSeq(S) \in Seq(S)
           /\ \A e \in S : \E i \in DOMAIN SetToSeq(S) : SetToSeq(S)[i] = e
           /\ \A i, j \in DOMAIN SetToSeq(S) : SetToSeq(S)[i] = SetToSeq(S)[j] => i = j
<1> DEFINE n == Cardinality(S)
           Order(f) == f \in [1..n -> S] /\ IsInjective(f)
<1>1. n \in Nat
  BY FS_CardinalityType
<1>2. \E f : Order(f)
  <2>1. PICK f : f \in Bijection(1..n, S)
    BY FS_CountingElements, FS_NatBijection DEF ExistsBijection
  <2> QED BY <2>1 DEF Bijection, Injection, IsInjective
<1>3. PICK f : f = SetToSeq(S)
  OBVIOUS
<1>4. f \in [1..n -> S] /\ IsInjective(f)
  BY <1>2, <1>3 DEF SetToSeq
<1>5. f \in Seq(S) /\ DOMAIN f = 1..n
  BY <1>1, <1>4
<1>6. \A i, j \in DOMAIN f : f[i] = f[j] => i = j
  BY <1>4 DEF IsInjective
<1>7. \A e \in S : \E i \in DOMAIN f : f[i] = e
  <2> DEFINE T == {f[i] : i \in 1..n}
  <2>1. T \subseteq S
    BY <1>4
  <2>2. IsFiniteSet(1..n) /\ Cardinality(1..n) = n
    BY <1>1, FS_Interval
  <2>3. f \in Bijection(1..n, T)
    <3>1. f \in [1..n -> T]
      BY <1>4
    <3>2. \A i, j \in 1..n : f[i] = f[j] => i = j
      BY <1>5, <1>6
    <3>3. \A t \in T : \E i \in 1..n : f[i] = t
      OBVIOUS
    <3>4. DOMAIN f = 1..n
      BY <1>5
    <3> HIDE DEF T, n
    <3> QED BY <3>1, <3>2, <3>3, <3>4 DEF Bijection, Injection, Surjection, IsInjective
  <2>4. Cardinality(T) = n
    <3> HIDE DEF T, n
    <3> QED BY <2>2, <2>3, FS_Bijection DEF ExistsBijection
  <2>5. T = S
    <3> HIDE DEF T
    <3> QED BY <2>1, <2>4, FS_Subset
  <2> QED BY <1>5, <2>5
<1> QED BY <1>3, <1>5, <1>6, <1>7

-----------------------------------------------------------------------------
(* The updates in a queue.  The library's induction takes an operator, so  *)
(* each induction here is over the least counterexample.                   *)

UpdateAt(queue, n) == [kind |-> queue[n].kind, version |-> queue[n].version]

\* The updates among the first n messages, those among the first n - 1 being u.
Another(queue, s, n, u) ==
    IF n \in Places(queue, "update", s) THEN Append(u, UpdateAt(queue, n)) ELSE u

\* p holds the updates among each of the first n messages.
Gathered(p, queue, s, n) == p = [i \in 0..n |-> IF i = 0 THEN <<>> ELSE Another(queue, s, i, p[i - 1])]

\* They can be gathered however long the queue is.
LEMMA GatheringExists ==
    ASSUME NEW queue, NEW s, NEW n \in Nat
    PROVE  \E p : Gathered(p, queue, s, n)
<1> DEFINE T == {m \in Nat : ~ \E p : Gathered(p, queue, s, m)}
<1> SUFFICES ASSUME T # {}
             PROVE  FALSE
  OBVIOUS
<1>1. PICK m \in T : \A k \in T : ~ (k < m)
  <2>1. T \subseteq Nat
    OBVIOUS
  <2> HIDE DEF T
  <2> QED BY <2>1, LeastNumber
<1>2. CASE m = 0
  <2>1. Gathered([i \in 0..0 |-> <<>>], queue, s, 0)
    BY DEF Gathered
  <2> QED BY <1>1, <1>2, <2>1
<1>3. CASE m # 0
  <2>1. m \in Nat /\ m - 1 \in Nat /\ m - 1 < m
    BY <1>3
  <2>2. PICK p : Gathered(p, queue, s, m - 1)
    BY <1>1, <2>1
  <2>3. PICK q : q = [i \in 0..m |-> IF i = m THEN Another(queue, s, m, p[m - 1]) ELSE p[i]]
    OBVIOUS
  <2>4. ASSUME NEW i \in 0..m
        PROVE  q[i] = IF i = 0 THEN <<>> ELSE Another(queue, s, i, q[i - 1])
    <3>1. CASE i = m
      <4>1. q[m] = Another(queue, s, m, p[m - 1]) /\ q[m - 1] = p[m - 1]
        BY <2>1, <2>3
      <4> QED BY <3>1, <4>1, <1>3
    <3>2. CASE i # m
      <4>1. i \in 0..(m - 1) /\ q[i] = p[i] /\ (i # 0 => q[i - 1] = p[i - 1])
        BY <2>1, <2>3, <3>2
      <4>2. p[i] = IF i = 0 THEN <<>> ELSE Another(queue, s, i, p[i - 1])
        BY <2>2, <4>1 DEF Gathered
      <4> QED BY <4>1, <4>2
    <3> QED BY <3>1, <3>2
  <2>5. Gathered(q, queue, s, m)
    BY <2>3, <2>4 DEF Gathered
  <2> QED BY <1>1, <2>5
<1> QED BY <1>2, <1>3

\* Two queues with the same messages in front have the same updates there.
LEMMA GatheringAgrees ==
    ASSUME NEW queue, NEW other, NEW s, NEW n \in Nat, NEW m \in Nat, n <= m, NEW p, NEW q,
           Gathered(p, queue, s, n), Gathered(q, other, s, m),
           \A i \in 1..n : /\ i \in Places(queue, "update", s) <=> i \in Places(other, "update", s)
                           /\ UpdateAt(queue, i) = UpdateAt(other, i)
    PROVE  \A i \in 0..n : p[i] = q[i]
<1> DEFINE T == {i \in 0..n : p[i] # q[i]}
<1> SUFFICES ASSUME T # {}
             PROVE  FALSE
  OBVIOUS
<1>1. PICK i \in T : \A k \in T : ~ (k < i)
  <2>1. T \subseteq Nat
    OBVIOUS
  <2> HIDE DEF T
  <2> QED BY <2>1, LeastNumber
<1>2. i \in 0..n /\ i \in 0..m /\ p[i] # q[i]
  OBVIOUS
<1>3. /\ p[i] = IF i = 0 THEN <<>> ELSE Another(queue, s, i, p[i - 1])
      /\ q[i] = IF i = 0 THEN <<>> ELSE Another(other, s, i, q[i - 1])
  BY <1>2 DEF Gathered
<1>4. i # 0
  BY <1>2, <1>3
<1>5. i - 1 \in 0..n /\ i - 1 < i /\ i \in 1..n
  BY <1>2, <1>4
<1>6. p[i - 1] = q[i - 1]
  BY <1>1, <1>5
<1>7. Another(queue, s, i, p[i - 1]) = Another(other, s, i, q[i - 1])
  BY <1>5, <1>6 DEF Another
<1> QED BY <1>2, <1>3, <1>4, <1>7

\* However far a queue is gathered, the updates in front are the same.
LEMMA GatheringOnce ==
    ASSUME NEW queue, NEW s, NEW n \in Nat, NEW m \in Nat, n <= m, NEW p, NEW q,
           Gathered(p, queue, s, n), Gathered(q, queue, s, m)
    PROVE  \A i \in 0..n : p[i] = q[i]
<1>1. \A i \in 1..n : /\ i \in Places(queue, "update", s) <=> i \in Places(queue, "update", s)
                     /\ UpdateAt(queue, i) = UpdateAt(queue, i)
  OBVIOUS
<1> QED BY <1>1, GatheringAgrees

\* The updates of a queue are gathered one message at a time.
LEMMA UpdatesGathered ==
    ASSUME NEW queue, NEW s, Len(queue) \in Nat
    PROVE  \E p : Gathered(p, queue, s, Len(queue)) /\ UpdatesIn(queue, s) = p[Len(queue)]
<1> DEFINE P(j) == CHOOSE p : Gathered(p, queue, s, j)
           g == [j \in Nat |-> P(j)[j]]
           IsLoop(b) == b = [i \in Nat |-> IF i = 0 THEN <<>>
                                           ELSE IF i \in Places(queue, "update", s)
                                                THEN Append(b[i - 1], [kind |-> queue[i].kind, version |-> queue[i].version])
                                                ELSE b[i - 1]]
           before == CHOOSE b : IsLoop(b)
<1>1. \A j \in Nat : Gathered(P(j), queue, s, j)
  BY GatheringExists
<1>2. ASSUME NEW j \in Nat
      PROVE  g[j] = IF j = 0 THEN <<>> ELSE Another(queue, s, j, g[j - 1])
  <2> HIDE DEF P
  <2>1. P(j)[j] = IF j = 0 THEN <<>> ELSE Another(queue, s, j, P(j)[j - 1])
    BY <1>1 DEF Gathered
  <2>2. ASSUME j # 0
        PROVE  P(j - 1)[j - 1] = P(j)[j - 1]
    <3>1. j - 1 \in Nat /\ j - 1 <= j /\ j - 1 \in 0..(j - 1)
      BY <2>2
    <3>2. Gathered(P(j - 1), queue, s, j - 1) /\ Gathered(P(j), queue, s, j)
      BY <1>1, <3>1
    <3>3. \A i \in 0..(j - 1) : P(j - 1)[i] = P(j)[i]
      BY <3>1, <3>2, GatheringOnce
    <3> QED BY <3>1, <3>3
  <2>3. j # 0 => g[j - 1] = P(j - 1)[j - 1]
    OBVIOUS
  <2> QED BY <2>1, <2>2, <2>3
<1>3. IsLoop(g)
  <2>1. g = [i \in Nat |-> g[i]]
    OBVIOUS
  <2> HIDE DEF g
  <2> QED BY <1>2, <2>1 DEF Another, UpdateAt
<1>4. IsLoop(before)
  <2> HIDE DEF g, IsLoop
  <2> QED BY <1>3
<1>5. UpdatesIn(queue, s) = before[Len(queue)]
  BY DEF UpdatesIn
<1>6. \A i \in Nat : before[i] = IF i = 0 THEN <<>> ELSE Another(queue, s, i, before[i - 1])
  <2> HIDE DEF before
  <2> QED BY <1>4 DEF Another, UpdateAt
<1>7. Gathered([i \in 0..Len(queue) |-> before[i]], queue, s, Len(queue))
  <2> HIDE DEF before
  <2>1. \A i \in 0..Len(queue) : i \in Nat /\ (i # 0 => i - 1 \in 0..Len(queue))
    OBVIOUS
  <2> QED BY <1>6, <2>1 DEF Gathered
<1> HIDE DEF before
<1> QED BY <1>5, <1>7

\* An update on its way is an update.
LEMMA MessageUpdate ==
    ASSUME NEW m \in Message, m.type = "update"
    PROVE  [kind |-> m.kind, version |-> m.version] \in Update
BY DEF Message, Update

\* p leads to the updates in the queue, one message at a time.
Steps(p, queue, s) ==
    /\ p \in [0..Len(queue) -> Seq(Update)]
    /\ p[0] = <<>> /\ UpdatesIn(queue, s) = p[Len(queue)]
    /\ \A i \in 1..Len(queue) : p[i] = Another(queue, s, i, p[i - 1])

\* The first messages of a queue and what the next one adds.
LEMMA UpdatesSteps ==
    ASSUME NEW queue \in Seq(Message), NEW s
    PROVE  \E p : Steps(p, queue, s)
<1>1. Len(queue) \in Nat
  OBVIOUS
<1>2. PICK p : Gathered(p, queue, s, Len(queue)) /\ UpdatesIn(queue, s) = p[Len(queue)]
  BY <1>1, UpdatesGathered
<1>3. /\ p[0] = <<>> /\ p = [i \in 0..Len(queue) |-> p[i]]
      /\ \A i \in 1..Len(queue) : p[i] = Another(queue, s, i, p[i - 1])
  <2>1. \A i \in 1..Len(queue) : i \in 0..Len(queue) /\ i # 0
    BY <1>1
  <2> QED BY <1>1, <1>2, <2>1 DEF Gathered
<1>4. \A i \in 0..Len(queue) : p[i] \in Seq(Update)
  <2> DEFINE T == {i \in 0..Len(queue) : p[i] \notin Seq(Update)}
  <2> SUFFICES ASSUME T # {}
               PROVE  FALSE
    OBVIOUS
  <2>1. PICK i \in T : \A k \in T : ~ (k < i)
    <3>1. T \subseteq Nat
      BY <1>1
    <3> HIDE DEF T
    <3> QED BY <3>1, LeastNumber
  <2>2. i # 0
    BY <1>3, <2>1
  <2>3. i \in 1..Len(queue) /\ i - 1 \in 0..Len(queue) /\ i - 1 < i
    BY <1>1, <2>1, <2>2
  <2>4. p[i - 1] \in Seq(Update)
    BY <2>1, <2>3
  <2>5. i \in Places(queue, "update", s) => UpdateAt(queue, i) \in Update
    <3>1. i \in Places(queue, "update", s) => queue[i] \in Message /\ queue[i].type = "update"
      BY <2>3 DEF Places
    <3> QED BY <3>1, MessageUpdate DEF UpdateAt
  <2>6. p[i] \in Seq(Update)
    <3>1. \A u \in Seq(Update), e \in Update : Append(u, e) \in Seq(Update)
      OBVIOUS
    <3> HIDE DEF T
    <3> QED BY <1>3, <2>3, <2>4, <2>5, <3>1 DEF Another
  <2> QED BY <2>1, <2>6
<1> QED BY <1>2, <1>3, <1>4 DEF Steps

\* The updates in a queue are updates.
LEMMA UpdatesType ==
    ASSUME NEW queue \in Seq(Message), NEW s
    PROVE  UpdatesIn(queue, s) \in Seq(Update)
<1>1. Len(queue) \in 0..Len(queue)
  OBVIOUS
<1> QED BY <1>1, UpdatesSteps DEF Steps

\* There is no update of a subscription in a stretch of a queue.
Silent(queue, s, k, n) == \A i \in Places(queue, "update", s) : ~ (k < i /\ i <= n)

\* Such a stretch adds none.
LEMMA UpdatesQuiet ==
    ASSUME NEW queue \in Seq(Message), NEW s, NEW p, NEW k \in 0..Len(queue), NEW n \in 0..Len(queue), k <= n,
           Steps(p, queue, s), Silent(queue, s, k, n)
    PROVE  p[n] = p[k]
<1> DEFINE T == {i \in k..n : p[i] # p[k]}
<1> SUFFICES ASSUME T # {}
             PROVE  FALSE
  <2>1. n \in k..n
    OBVIOUS
  <2> QED BY <2>1
<1>1. PICK i \in T : \A j \in T : ~ (j < i)
  <2>1. T \subseteq Nat
    OBVIOUS
  <2> HIDE DEF T
  <2> QED BY <2>1, LeastNumber
<1>2. i \in k..n /\ i # k
  BY <1>1
<1>3. k < i /\ i <= n /\ i - 1 \in k..n /\ i - 1 < i /\ i \in 1..Len(queue)
  BY <1>2
<1>4. p[i - 1] = p[k]
  BY <1>1, <1>3
<1>5. p[i] = p[i - 1]
  BY <1>3 DEF Another, Steps, Silent
<1> QED BY <1>1, <1>4, <1>5

\* A queue without an update of a subscription.
LEMMA UpdatesNone ==
    ASSUME NEW queue \in Seq(Message), NEW s, Places(queue, "update", s) = {}
    PROVE  UpdatesIn(queue, s) = <<>>
<1>1. PICK p : Steps(p, queue, s)
  BY UpdatesSteps
<1>2. 0 \in 0..Len(queue) /\ Len(queue) \in 0..Len(queue)
  OBVIOUS
<1>3. p[Len(queue)] = p[0]
  <2>1. 0 <= Len(queue) /\ Silent(queue, s, 0, Len(queue))
    BY <1>2 DEF Silent
  <2> QED BY <1>1, <1>2, <2>1, UpdatesQuiet
<1> QED BY <1>1, <1>3 DEF Steps

\* A queue with one update of a subscription.
LEMMA UpdatesOne ==
    ASSUME NEW queue \in Seq(Message), NEW s, NEW k, Places(queue, "update", s) = {k}
    PROVE  UpdatesIn(queue, s) = <<UpdateAt(queue, k)>>
<1>1. PICK p : Steps(p, queue, s)
  BY UpdatesSteps
<1>2. k \in 1..Len(queue) /\ k \in Places(queue, "update", s)
  BY DEF Places
<1>3. 0 \in 0..Len(queue) /\ k - 1 \in 0..Len(queue) /\ k \in 0..Len(queue) /\ Len(queue) \in 0..Len(queue)
  BY <1>2
<1>4. p[k - 1] = p[0]
  <2>1. 0 <= k - 1 /\ Silent(queue, s, 0, k - 1)
    BY <1>2 DEF Silent
  <2> QED BY <1>1, <1>3, <2>1, UpdatesQuiet
<1>5. p[Len(queue)] = p[k]
  <2>1. k <= Len(queue) /\ Silent(queue, s, k, Len(queue))
    BY <1>2 DEF Silent
  <2> QED BY <1>1, <1>3, <2>1, UpdatesQuiet
<1>6. p[k] = Append(<<>>, UpdateAt(queue, k))
  BY <1>1, <1>2, <1>4 DEF Another, Steps
<1>7. Append(<<>>, UpdateAt(queue, k)) = <<UpdateAt(queue, k)>>
  OBVIOUS
<1> QED BY <1>1, <1>5, <1>6, <1>7 DEF Steps

\* The updates in one queue behind another come behind the other's.
LEMMA UpdatesConcat ==
    ASSUME NEW queue \in Seq(Message), NEW other \in Seq(Message), NEW s
    PROVE  UpdatesIn(queue \o other, s) = UpdatesIn(queue, s) \o UpdatesIn(other, s)
<1> DEFINE n == Len(queue)
           m == Len(other)
<1>0. PICK both : both = queue \o other
  OBVIOUS
<1>1. /\ both \in Seq(Message) /\ n \in Nat /\ m \in Nat /\ Len(both) = n + m
      /\ \A i \in 1..(n + m) : both[i] = IF i <= n THEN queue[i] ELSE other[i - n]
  BY <1>0, ConcatProperties
<1>2. PICK p : /\ p \in [0..n -> Seq(Update)]
               /\ p[0] = <<>> /\ UpdatesIn(queue, s) = p[n]
               /\ \A i \in 1..n : p[i] = Another(queue, s, i, p[i - 1])
  BY UpdatesSteps DEF Steps
<1>3. PICK q : /\ q \in [0..m -> Seq(Update)]
               /\ q[0] = <<>> /\ UpdatesIn(other, s) = q[m]
               /\ \A i \in 1..m : q[i] = Another(other, s, i, q[i - 1])
  BY UpdatesSteps DEF Steps
<1>4. PICK r : /\ r \in [0..(n + m) -> Seq(Update)]
               /\ r[0] = <<>> /\ UpdatesIn(both, s) = r[n + m]
               /\ \A i \in 1..(n + m) : r[i] = Another(both, s, i, r[i - 1])
  <2>1. both \in Seq(Message) /\ Len(both) = n + m
    BY <1>1
  <2>2. PICK r : Steps(r, both, s)
    BY <2>1, UpdatesSteps
  <2> HIDE DEF n, m
  <2> QED BY <2>1, <2>2 DEF Steps
<1>5. \A i \in 1..n : \A u : Another(both, s, i, u) = Another(queue, s, i, u)
  <2> TAKE i \in 1..n
  <2>1. i \in DOMAIN both /\ i \in DOMAIN queue /\ both[i] = queue[i]
    BY <1>1
  <2> QED BY <2>1 DEF Another, Places, UpdateAt
<1>6. \A i \in 1..m : \A u : Another(both, s, n + i, u) = Another(other, s, i, u)
  <2> TAKE i \in 1..m
  <2>1. n + i \in DOMAIN both /\ i \in DOMAIN other /\ both[n + i] = other[i]
    <3>1. n + i \in 1..(n + m) /\ ~ (n + i <= n) /\ (n + i) - n = i
      BY <1>1
    <3>2. DOMAIN both = 1..(n + m) /\ DOMAIN other = 1..m
      BY <1>1
    <3> QED BY <1>1, <3>1, <3>2
  <2> QED BY <2>1 DEF Another, Places, UpdateAt
<1> HIDE DEF n, m
<1>7. r[n] = p[n]
  <2> DEFINE T == {i \in 0..n : r[i] # p[i]}
  <2> SUFFICES ASSUME T # {}
               PROVE  FALSE
    <3>1. n \in 0..n
      BY <1>1
    <3> QED BY <3>1
  <2>1. PICK i \in T : \A j \in T : ~ (j < i)
    <3>1. T \subseteq Nat
      OBVIOUS
    <3> HIDE DEF T
    <3> QED BY <3>1, LeastNumber
  <2>2. i # 0
    BY <1>2, <1>4, <2>1
  <2>3. i \in 1..n /\ i \in 1..(n + m) /\ i - 1 \in 0..n /\ i - 1 < i
    BY <1>1, <2>1, <2>2
  <2>4. r[i - 1] = p[i - 1]
    BY <2>1, <2>3
  <2>5. r[i] = p[i]
    BY <1>2, <1>4, <1>5, <2>3, <2>4
  <2> QED BY <2>1, <2>5
<1>8. r[n + m] = p[n] \o q[m]
  <2> DEFINE T == {i \in 0..m : r[n + i] # p[n] \o q[i]}
  <2> SUFFICES ASSUME T # {}
               PROVE  FALSE
    <3>1. m \in 0..m
      BY <1>1
    <3> QED BY <3>1
  <2>1. PICK i \in T : \A j \in T : ~ (j < i)
    <3>1. T \subseteq 0..m
      BY Zenon
    <3>2. 0..m \subseteq Nat
      BY <1>1
    <3> HIDE DEF T
    <3>3. T \subseteq Nat
      BY <3>1, <3>2
    <3> QED BY <3>3, LeastNumber
  <2>2. i \in 0..m /\ r[n + i] # p[n] \o q[i] /\ n \in 0..n /\ n + 0 = n
    <3>1. n \in 0..n /\ n + 0 = n
      BY <1>1
    <3> QED BY <2>1, <3>1
  <2>3. p[n] \in Seq(Update) /\ q[i] \in Seq(Update)
    BY <1>2, <1>3, <2>2
  <2>4. p[n] \o <<>> = p[n]
    BY <2>3, ConcatEmptySeq
  <2>5. i # 0
    BY <1>3, <1>7, <2>2, <2>4
  <2>6. i \in 1..m /\ n + i \in 1..(n + m) /\ i - 1 \in 0..m /\ i - 1 < i /\ (n + i) - 1 = n + (i - 1)
    BY <1>1, <2>2, <2>5
  <2>7. r[n + (i - 1)] = p[n] \o q[i - 1]
    BY <2>1, <2>6
  <2>8. r[n + i] = Another(other, s, i, p[n] \o q[i - 1])
    BY <1>4, <1>6, <2>6, <2>7
  <2>9. q[i] = Another(other, s, i, q[i - 1]) /\ q[i - 1] \in Seq(Update)
    BY <1>3, <2>6
  <2>10. CASE i \in Places(other, "update", s)
    <3>1. other[i] \in Message /\ other[i].type = "update"
      BY <2>6, <2>10 DEF Places, m
    <3>2. UpdateAt(other, i) \in Update
      BY <3>1, MessageUpdate DEF UpdateAt
    <3>3. Append(p[n] \o q[i - 1], UpdateAt(other, i)) = p[n] \o Append(q[i - 1], UpdateAt(other, i))
      <4>1. AppendsBehind(Update)
        BY AppendConcat
      <4> QED BY <2>3, <2>9, <3>2, <4>1 DEF AppendsBehind
    <3> QED BY <2>2, <2>8, <2>9, <2>10, <3>3 DEF Another
  <2>11. CASE i \notin Places(other, "update", s)
    BY <2>2, <2>8, <2>9, <2>11 DEF Another
  <2> QED BY <2>10, <2>11
<1>9. UpdatesIn(both, s) = UpdatesIn(queue, s) \o UpdatesIn(other, s)
  BY <1>2, <1>3, <1>4, <1>7, <1>8
<1> QED BY <1>0, <1>9

-----------------------------------------------------------------------------
(* Queues.                                                                 *)

\* Where the messages of two queues are when one comes behind the other.
LEMMA PlacesBehind ==
    ASSUME NEW M, NEW queue \in Seq(M), NEW other \in Seq(M), NEW type, NEW s
    PROVE  Places(queue \o other, type, s)
             = Places(queue, type, s) \cup {Len(queue) + i : i \in Places(other, type, s)}
<1> DEFINE n == Len(queue)
           m == Len(other)
<1>0. PICK both : both = queue \o other
  OBVIOUS
<1>1. /\ both \in Seq(M) /\ n \in Nat /\ m \in Nat /\ Len(both) = n + m
      /\ \A i \in 1..(n + m) : both[i] = IF i <= n THEN queue[i] ELSE other[i - n]
  BY <1>0, ConcatProperties
<1>2. DOMAIN both = 1..(n + m) /\ DOMAIN queue = 1..n /\ DOMAIN other = 1..m
  BY <1>1
<1> HIDE DEF n, m
<1>3. ASSUME NEW i \in Places(both, type, s)
      PROVE  i \in Places(queue, type, s) \cup {n + j : j \in Places(other, type, s)}
  <2>1. CASE i <= n
    <3>1. i \in 1..n /\ both[i] = queue[i]
      BY <1>1, <1>2, <1>3, <2>1 DEF Places
    <3> QED BY <1>2, <1>3, <3>1 DEF Places
  <2>2. CASE ~ (i <= n)
    <3>1. i \in 1..(n + m)
      BY <1>2, <1>3 DEF Places
    <3>2. i - n \in 1..m /\ both[i] = other[i - n] /\ i = n + (i - n)
      BY <1>1, <2>2, <3>1
    <3>3. i - n \in Places(other, type, s)
      BY <1>2, <1>3, <3>2 DEF Places
    <3> QED BY <3>2, <3>3
  <2> QED BY <2>1, <2>2
<1>4. ASSUME NEW i \in Places(queue, type, s)
      PROVE  i \in Places(both, type, s)
  <2>1. i \in 1..n /\ i \in 1..(n + m) /\ i <= n
    BY <1>1, <1>2, <1>4 DEF Places
  <2>2. both[i] = queue[i]
    BY <1>1, <2>1
  <2> QED BY <1>2, <1>4, <2>1, <2>2 DEF Places
<1>5. ASSUME NEW i \in Places(other, type, s)
      PROVE  n + i \in Places(both, type, s)
  <2>1. i \in 1..m /\ n + i \in 1..(n + m) /\ ~ (n + i <= n) /\ (n + i) - n = i
    BY <1>1, <1>2, <1>5 DEF Places
  <2>2. both[n + i] = other[i]
    BY <1>1, <2>1
  <2> QED BY <1>2, <1>5, <2>1, <2>2 DEF Places
<1>6. Places(both, type, s) = Places(queue, type, s) \cup {n + j : j \in Places(other, type, s)}
  BY <1>3, <1>4, <1>5
<1> QED BY <1>0, <1>6 DEF n

\* Where they are when the first is taken.
LEMMA PlacesInTail ==
    ASSUME NEW M, NEW queue \in Seq(M), queue # <<>>, NEW type, NEW s
    PROVE  /\ \A i \in Places(Tail(queue), type, s) : i + 1 \in Places(queue, type, s)
           /\ \A i \in Places(queue, type, s) : i # 1 => i - 1 \in Places(Tail(queue), type, s)
           /\ 1 \in Places(queue, type, s) <=> Head(queue).type = type /\ Head(queue).id = s
<1>1. PICK rest : rest = Tail(queue)
  OBVIOUS
<1>2. /\ rest \in Seq(M) /\ Len(rest) = Len(queue) - 1 /\ Len(queue) \in Nat /\ Len(queue) > 0
      /\ \A i \in 1..Len(rest) : rest[i] = queue[i + 1]
  BY <1>1, HeadTailProperties
<1>3. DOMAIN rest = 1..Len(rest) /\ DOMAIN queue = 1..Len(queue) /\ Head(queue) = queue[1]
  BY <1>2
<1>4. ASSUME NEW i \in Places(rest, type, s)
      PROVE  i + 1 \in Places(queue, type, s)
  <2>1. i \in 1..Len(rest) /\ i + 1 \in 1..Len(queue)
    BY <1>2, <1>3, <1>4 DEF Places
  <2> QED BY <1>2, <1>3, <1>4, <2>1 DEF Places
<1>5. ASSUME NEW i \in Places(queue, type, s), i # 1
      PROVE  i - 1 \in Places(rest, type, s)
  <2>1. i \in 1..Len(queue) /\ i - 1 \in 1..Len(rest) /\ (i - 1) + 1 = i
    BY <1>2, <1>3, <1>5 DEF Places
  <2>2. rest[i - 1] = queue[i]
    BY <1>2, <2>1
  <2> QED BY <1>3, <1>5, <2>1, <2>2 DEF Places
<1>6. 1 \in Places(queue, type, s) <=> Head(queue).type = type /\ Head(queue).id = s
  <2>1. 1 \in DOMAIN queue
    BY <1>2, <1>3
  <2> QED BY <1>3, <2>1 DEF Places
<1> QED BY <1>1, <1>4, <1>5, <1>6

\* A queue of one message.
LEMMA PlacesOfOne ==
    ASSUME NEW M, NEW m \in M, NEW type, NEW s
    PROVE  /\ <<m>> \in Seq(M) /\ DOMAIN <<m>> = {1} /\ <<m>>[1] = m
           /\ Places(<<m>>, type, s) = IF m.type = type /\ m.id = s THEN {1} ELSE {}
BY DEF Places

ImageOf(f, T) == {f[s] : s \in T}

\* The elements of an image of a finite set, as a sequence.
LEMMA ImageSequence ==
    ASSUME NEW M, NEW T, IsFiniteSet(T), NEW f \in [T -> M], NEW S, S = ImageOf(f, T),
           \A s, t \in T : f[s] = f[t] => s = t, NEW q, q = SetToSeq(S)
    PROVE  /\ q \in Seq(M)
           /\ \A i \in DOMAIN q : \E s \in T : q[i] = f[s]
           /\ \A s \in T : \E i \in DOMAIN q : \A j \in DOMAIN q : q[j] = f[s] <=> j = i
<1>1. IsFiniteSet(S)
  <2>1. f \in Surjection(T, S)
    BY DEF Surjection, ImageOf
  <2> QED BY <2>1, FS_Surjection
<1>2. /\ q \in Seq(S)
      /\ \A e \in S : \E i \in DOMAIN q : q[i] = e
      /\ \A i, j \in DOMAIN q : q[i] = q[j] => i = j
  BY <1>1, SetToSeqElements
<1>3. q \in Seq(M)
  <2>1. S \subseteq M
    BY DEF ImageOf
  <2> QED BY <1>2, <2>1, SeqMonotonic
<1>4. ASSUME NEW i \in DOMAIN q
      PROVE  \E s \in T : q[i] = f[s]
  <2>1. \A e \in S : \E s \in T : e = f[s]
    BY DEF ImageOf
  <2>2. q \in Seq(S)
    BY <1>2
  <2>3. q[i] \in S
    BY ONLY <2>2, i \in DOMAIN q
  <2> QED BY ONLY <2>1, <2>3
<1>5. ASSUME NEW s \in T
      PROVE  \E i \in DOMAIN q : \A j \in DOMAIN q : q[j] = f[s] <=> j = i
  <2>1. f[s] \in S
    BY DEF ImageOf
  <2>2. PICK i \in DOMAIN q : q[i] = f[s]
    BY <1>2, <2>1
  <2>3. \A j \in DOMAIN q : q[j] = f[s] <=> j = i
    BY <1>2, <2>2
  <2> QED BY <2>3
<1> QED BY <1>3, <1>4, <1>5

-----------------------------------------------------------------------------
(* Updates that lead from one version to another.                          *)

\* An update to the next version leads on.
LEMMA LeadAppend ==
    ASSUME NEW base, NEW path \in Seq(Update), NEW version, NEW u \in Update, Lead(base, path, version),
           u.kind = "state" => u.version = [version EXCEPT !.sequence = @ + 1]
    PROVE  Lead(base, Append(path, u), u.version)
<1>1. PICK longer : longer = Append(path, u)
  OBVIOUS
<1>2. /\ longer \in Seq(Update) /\ Len(longer) = Len(path) + 1 /\ longer # <<>> /\ Len(path) \in Nat
      /\ \A i \in 1..Len(path) : longer[i] = path[i]
      /\ longer[Len(path) + 1] = u
  BY <1>1, AppendProperties
<1>3. Last(longer) = u
  BY <1>2 DEF Last
<1>4. ASSUME NEW i \in DOMAIN longer, longer[i].kind = "state"
      PROVE  longer[i].version = [(IF i = 1 THEN base ELSE longer[i - 1].version) EXCEPT !.sequence = @ + 1]
  <2>1. CASE i \in 1..Len(path)
    <3>1. longer[i] = path[i] /\ i \in DOMAIN path /\ (i # 1 => longer[i - 1] = path[i - 1])
      <4>1. i # 1 => i - 1 \in 1..Len(path)
        BY <2>1
      <4> QED BY <1>2, <2>1, <4>1
    <3>2. path[i].version = [(IF i = 1 THEN base ELSE path[i - 1].version) EXCEPT !.sequence = @ + 1]
      BY <1>4, <3>1 DEF Lead
    <3> QED BY <3>1, <3>2
  <2>2. CASE i \notin 1..Len(path)
    <3>1. i = Len(path) + 1 /\ longer[i] = u
      BY <1>2, <2>2
    <3>2. u.version = [version EXCEPT !.sequence = @ + 1]
      BY <1>4, <3>1
    <3>3. version = IF i = 1 THEN base ELSE longer[i - 1].version
      <4>1. CASE path = <<>>
        <5>1. Len(path) = 0 /\ i = 1
          BY <3>1, <4>1
        <5>2. base = version
          BY <4>1 DEF Lead
        <5> QED BY <5>1, <5>2
      <4>2. CASE path # <<>>
        <5>1. Len(path) # 0 /\ Len(path) \in 1..Len(path) /\ i # 1 /\ i - 1 = Len(path)
          BY <1>2, <3>1, <4>2
        <5>2. version = path[Len(path)].version
          BY <4>2 DEF Lead, Last
        <5> QED BY <1>2, <5>1, <5>2
      <4> QED BY <4>1, <4>2
    <3> QED BY <3>1, <3>2, <3>3
  <2> QED BY <2>1, <2>2
<1>5. Lead(base, longer, u.version)
  BY <1>2, <1>3, <1>4 DEF Lead
<1> QED BY <1>1, <1>5

\* The first update leads to what the others lead on from.
LEMMA LeadTail ==
    ASSUME NEW base, NEW path \in Seq(Update), NEW version, path # <<>>, Lead(base, path, version)
    PROVE  /\ Lead(Head(path).version, Tail(path), version)
           /\ Head(path).kind = "state" => Head(path).version = [base EXCEPT !.sequence = @ + 1]
<1>1. PICK rest : rest = Tail(path)
  OBVIOUS
<1>2. /\ rest \in Seq(Update) /\ Len(rest) = Len(path) - 1 /\ Len(path) \in Nat /\ Len(path) > 0
      /\ \A i \in 1..Len(rest) : rest[i] = path[i + 1]
  BY <1>1, HeadTailProperties
<1>3. Head(path) = path[1] /\ 1 \in DOMAIN path
  BY <1>2
<1>4. Head(path).kind = "state" => Head(path).version = [base EXCEPT !.sequence = @ + 1]
  BY <1>3 DEF Lead
<1>5. version = path[Len(path)].version
  BY DEF Lead, Last
<1>6. (IF rest = <<>> THEN Head(path).version ELSE Last(rest).version) = version
  <2>1. CASE rest = <<>>
    <3>1. Len(path) = 1
      BY <1>2, <2>1
    <3> QED BY <1>3, <1>5, <2>1, <3>1
  <2>2. CASE rest # <<>>
    <3>1. Len(rest) \in 1..Len(rest) /\ Len(rest) + 1 = Len(path)
      BY <1>2, <2>2
    <3>2. rest[Len(rest)] = path[Len(path)]
      BY <1>2, <3>1
    <3> QED BY <1>5, <2>2, <3>2 DEF Last
  <2> QED BY <2>1, <2>2
<1>7. ASSUME NEW i \in DOMAIN rest, rest[i].kind = "state"
      PROVE  rest[i].version = [(IF i = 1 THEN Head(path).version ELSE rest[i - 1].version) EXCEPT !.sequence = @ + 1]
  <2>1. i \in 1..Len(rest) /\ i + 1 \in DOMAIN path /\ i + 1 # 1 /\ (i + 1) - 1 = i
    BY <1>2
  <2>2. rest[i] = path[i + 1]
    BY <1>2, <2>1
  <2>3. path[i + 1].version = [path[i].version EXCEPT !.sequence = @ + 1]
    BY <1>7, <2>1, <2>2 DEF Lead
  <2>4. path[i] = IF i = 1 THEN Head(path) ELSE rest[i - 1]
    <3>1. i # 1 => i - 1 \in 1..Len(rest) /\ (i - 1) + 1 = i
      BY <2>1
    <3> QED BY <1>2, <1>3, <3>1
  <2> QED BY <2>2, <2>3, <2>4
<1>8. Lead(Head(path).version, rest, version)
  BY <1>6, <1>7 DEF Lead
<1> QED BY <1>1, <1>4, <1>8

-----------------------------------------------------------------------------
(* What is on the way to the client, as messages are sent and received.    *)

\* The snapshot on its way, before everything else to the subscription.
SnapshotSent(s, version) ==
    \E k \in Places(toClient, "snapshot", s) :
        /\ toClient[k].version = version
        /\ \A i \in DOMAIN toClient : toClient[i].id = s => k <= i /\ (toClient[i].type = "snapshot" => k = i)

\* It has a version.
FirstRight ==
    \A s : /\ SnapshotFirst(s) => \E version \in Version : SnapshotSent(s, version)
           /\ \A version : SnapshotSent(s, version) => SnapshotFirst(s)

\* In every state.
LEMMA FirstIsSent == toClient \in Seq(Message) => FirstRight
<1> SUFFICES ASSUME NEW s, toClient \in Seq(Message)
             PROVE  /\ SnapshotFirst(s) => \E version \in Version : SnapshotSent(s, version)
                    /\ \A version : SnapshotSent(s, version) => SnapshotFirst(s)
  BY DEF FirstRight
<1>1. ASSUME NEW k \in Places(toClient, "snapshot", s)
      PROVE  toClient[k].version \in Version
  <2>1. toClient[k] \in Message /\ toClient[k].type = "snapshot"
    BY <1>1 DEF Places
  <2> QED BY <2>1 DEF Message
<1> QED BY <1>1 DEF SnapshotFirst, SnapshotSent

\* And so after a step.
LEMMA FirstIsSentAfter == (toClient \in Seq(Message))' => FirstRight'
BY FirstIsSent, PTL

\* What a subscription starts from until it is answered.
BaseRight ==
    \A s, version :
        /\ listener[s].phase = "started" => Base(s) = facade
        /\ listener[s].phase = "answered" => Base(s) = listener[s].snapshot
        /\ listener[s].phase = "requested" /\ SnapshotSent(s, version) => Base(s) = version
        /\ listener[s].phase = "requested" /\ Unmentioned(s) => Base(s) = served[s].snapshot

\* In every state.
LEMMA BaseIs == toClient \in Seq(Message) => BaseRight
<1> SUFFICES ASSUME NEW s, NEW version, toClient \in Seq(Message)
             PROVE  /\ listener[s].phase = "started" => Base(s) = facade
                    /\ listener[s].phase = "answered" => Base(s) = listener[s].snapshot
                    /\ listener[s].phase = "requested" /\ SnapshotSent(s, version) => Base(s) = version
                    /\ listener[s].phase = "requested" /\ Unmentioned(s) => Base(s) = served[s].snapshot
  BY DEF BaseRight
<1>1. ASSUME listener[s].phase = "requested", SnapshotSent(s, version)
      PROVE  Base(s) = version
  <2>1. PICK k \in Places(toClient, "snapshot", s) :
          /\ toClient[k].version = version
          /\ \A i \in DOMAIN toClient : toClient[i].id = s => k <= i /\ (toClient[i].type = "snapshot" => k = i)
    BY <1>1 DEF SnapshotSent
  <2>2. \A i \in Places(toClient, "snapshot", s) : i = k
    BY <2>1 DEF Places
  <2>3. k \in Nat
    BY DEF Places
  <2>4. PICK sent : sent = Places(toClient, "snapshot", s)
    OBVIOUS
  <2>5. k \in sent /\ sent # {} /\ \A i \in sent : i = k /\ k <= i
    BY <2>2, <2>3, <2>4
  <2>6. (CHOOSE i \in sent : \A j \in sent : i <= j) = k
    <3>1. \E i \in sent : \A j \in sent : i <= j
      BY <2>5
    <3>2. (CHOOSE i \in sent : \A j \in sent : i <= j) \in sent
      BY <3>1
    <3> QED BY <2>5, <3>2
  <2>7. Base(s) = toClient[CHOOSE i \in sent : \A j \in sent : i <= j].version
    BY <1>1, <2>4, <2>5 DEF Base
  <2> QED BY <2>1, <2>6, <2>7
<1>2. ASSUME listener[s].phase = "requested", Unmentioned(s)
      PROVE  Base(s) = served[s].snapshot
  <2>1. Places(toClient, "snapshot", s) = {}
    BY <1>2 DEF Unmentioned, Places
  <2> QED BY <1>2, <2>1 DEF Base
<1> QED BY <1>1, <1>2 DEF Base

\* And so after a step.
LEMMA BaseIsAfter == (toClient \in Seq(Message))' => BaseRight'
BY BaseIs, PTL

\* Nothing to a subscription on the way: no update and no snapshot.
LEMMA UnmentionedNone ==
    ASSUME NEW s, toClient \in Seq(Message), Unmentioned(s)
    PROVE  UpdatesIn(toClient, s) = <<>> /\ ~ Answering(s) /\ ~ SnapshotFirst(s)
<1>1. Places(toClient, "snapshot", s) = {} /\ Places(toClient, "update", s) = {}
  BY DEF Unmentioned, Places
<1> QED BY <1>1, UpdatesNone DEF Answering, SnapshotFirst

\* Messages sent come behind what is on the way.
LEMMA SentBehind ==
    ASSUME toClient \in Seq(Message), NEW other \in Seq(Message), toClient' = toClient \o other, NEW s
    PROVE  /\ toClient' \in Seq(Message)
           /\ UpdatesIn(toClient', s) = UpdatesIn(toClient, s) \o UpdatesIn(other, s)
           /\ Unmentioned(s)' <=> Unmentioned(s) /\ \A i \in DOMAIN other : other[i].id # s
           /\ Answering(s)' <=> Answering(s) \/ Places(other, "snapshot", s) # {}
           /\ \A version : SnapshotSent(s, version) /\ Places(other, "snapshot", s) = {} => SnapshotSent(s, version)'
           /\ \A version : Unmentioned(s) /\ other = <<[type |-> "snapshot", id |-> s, version |-> version]>>
                             => SnapshotSent(s, version)'
<1> DEFINE n == Len(toClient)
           m == Len(other)
<1>1. /\ toClient' \in Seq(Message) /\ n \in Nat /\ m \in Nat /\ Len(toClient') = n + m
      /\ \A i \in 1..(n + m) : toClient'[i] = IF i <= n THEN toClient[i] ELSE other[i - n]
  BY ConcatProperties
<1>2. DOMAIN toClient' = 1..(n + m) /\ DOMAIN toClient = 1..n /\ DOMAIN other = 1..m
  BY <1>1
<1>3. UpdatesIn(toClient', s) = UpdatesIn(toClient, s) \o UpdatesIn(other, s)
  BY UpdatesConcat
<1>4. Places(toClient', "snapshot", s)
        = Places(toClient, "snapshot", s) \cup {n + i : i \in Places(other, "snapshot", s)}
  BY PlacesBehind
<1> HIDE DEF n, m
<1>5. /\ \A i \in DOMAIN toClient : i \in DOMAIN toClient' /\ toClient'[i] = toClient[i]
      /\ \A i \in DOMAIN other : n + i \in DOMAIN toClient' /\ toClient'[n + i] = other[i]
      /\ \A i \in DOMAIN toClient' : i \notin DOMAIN toClient => i - n \in DOMAIN other /\ toClient'[i] = other[i - n]
  <2>1. \A i \in 1..n : i \in 1..(n + m) /\ i <= n
    BY <1>1
  <2>2. \A i \in 1..m : n + i \in 1..(n + m) /\ ~ (n + i <= n) /\ (n + i) - n = i
    BY <1>1
  <2>3. \A i \in 1..(n + m) : i \notin 1..n => i - n \in 1..m /\ ~ (i <= n)
    BY <1>1
  <2> QED BY <1>1, <1>2, <2>1, <2>2, <2>3
<1>6. Unmentioned(s)' <=> Unmentioned(s) /\ \A i \in DOMAIN other : other[i].id # s
  BY <1>5 DEF Unmentioned
<1>7. Answering(s)' <=> Answering(s) \/ Places(other, "snapshot", s) # {}
  BY <1>4 DEF Answering
<1>8. ASSUME NEW version, SnapshotSent(s, version), Places(other, "snapshot", s) = {}
      PROVE  SnapshotSent(s, version)'
  <2>1. PICK k \in Places(toClient, "snapshot", s) :
          /\ toClient[k].version = version
          /\ \A i \in DOMAIN toClient : toClient[i].id = s => k <= i /\ (toClient[i].type = "snapshot" => k = i)
    BY <1>8 DEF SnapshotSent
  <2>2. k \in Places(toClient', "snapshot", s) /\ k \in 1..n /\ toClient'[k].version = version
    BY <1>2, <1>4, <1>5, <2>1 DEF Places
  <2>3. ASSUME NEW i \in DOMAIN toClient', toClient'[i].id = s
        PROVE  k <= i /\ (toClient'[i].type = "snapshot" => k = i)
    <3>1. CASE i \in DOMAIN toClient
      BY <1>5, <2>1, <2>3, <3>1
    <3>2. CASE i \notin DOMAIN toClient
      <4>1. i \in 1..(n + m) /\ ~ (i \in 1..n)
        BY <1>2, <3>2
      <4>2. k <= i
        BY <1>1, <2>2, <4>1
      <4>3. i - n \in DOMAIN other /\ toClient'[i] = other[i - n]
        BY <1>5, <3>2
      <4>4. toClient'[i].type # "snapshot"
        BY <1>8, <2>3, <4>3 DEF Places
      <4> QED BY <4>2, <4>4
    <3> QED BY <3>1, <3>2
  <2> QED BY <2>2, <2>3 DEF SnapshotSent
<1>9. ASSUME NEW version, Unmentioned(s), other = <<[type |-> "snapshot", id |-> s, version |-> version]>>
      PROVE  SnapshotSent(s, version)'
  <2>1. DOMAIN other = {1} /\ other[1].type = "snapshot" /\ other[1].id = s /\ other[1].version = version
    BY <1>9
  <2>2. n + 1 \in Places(toClient', "snapshot", s) /\ toClient'[n + 1].version = version
    BY <1>5, <2>1 DEF Places
  <2>3. ASSUME NEW i \in DOMAIN toClient', toClient'[i].id = s
        PROVE  i = n + 1
    <3>1. i \notin DOMAIN toClient
      BY <1>5, <1>9, <2>3 DEF Unmentioned
    <3>2. i - n = 1 /\ i \in 1..(n + m)
      BY <1>2, <1>5, <2>1, <3>1
    <3> QED BY <1>1, <3>2
  <2>4. PICK k : k = n + 1 /\ k \in Nat
    BY <1>1
  <2>5. k \in Places(toClient', "snapshot", s) /\ toClient'[k].version = version
    BY <2>2, <2>4
  <2>6. \A i \in DOMAIN toClient' : toClient'[i].id = s => k <= i /\ (toClient'[i].type = "snapshot" => k = i)
    BY <2>3, <2>4
  <2> QED BY <2>5, <2>6 DEF SnapshotSent
<1> QED BY <1>1, <1>3, <1>6, <1>7, <1>8, <1>9

\* The updates in a queue of one message.
LEMMA UpdatesOfOne ==
    ASSUME NEW m \in Message, NEW s
    PROVE  UpdatesIn(<<m>>, s) = IF m.type = "update" /\ m.id = s
                                 THEN <<[kind |-> m.kind, version |-> m.version]>> ELSE <<>>
<1>1. PICK queue : queue = <<m>>
  OBVIOUS
<1>2. /\ queue \in Seq(Message) /\ queue[1] = m
      /\ Places(queue, "update", s) = IF m.type = "update" /\ m.id = s THEN {1} ELSE {}
  BY <1>1, PlacesOfOne
<1>3. CASE m.type = "update" /\ m.id = s
  <2>1. Places(queue, "update", s) = {1}
    BY <1>2, <1>3
  <2>2. UpdatesIn(queue, s) = <<UpdateAt(queue, 1)>>
    BY <1>2, <2>1, UpdatesOne
  <2> QED BY <1>1, <1>2, <1>3, <2>2 DEF UpdateAt
<1>4. CASE ~ (m.type = "update" /\ m.id = s)
  <2>1. Places(queue, "update", s) = {}
    BY <1>2, <1>4
  <2>2. UpdatesIn(queue, s) = <<>>
    BY <1>2, <2>1, UpdatesNone
  <2> QED BY <1>1, <1>4, <2>2
<1> QED BY <1>3, <1>4

\* The first message is received.
LEMMA FirstReceived ==
    ASSUME toClient \in Seq(Message), toClient # <<>>, toClient' = Tail(toClient), NEW s
    PROVE  /\ toClient' \in Seq(Message) /\ Head(toClient) \in Message
           /\ UpdatesIn(toClient', s) \in Seq(Update)
           /\ UpdatesIn(toClient, s)
                = (IF Head(toClient).type = "update" /\ Head(toClient).id = s
                   THEN <<[kind |-> Head(toClient).kind, version |-> Head(toClient).version]>> ELSE <<>>)
                    \o UpdatesIn(toClient', s)
           /\ Unmentioned(s) => Unmentioned(s)' /\ Head(toClient).id # s
           /\ Answering(s)' => Answering(s)
           /\ Head(toClient).id = s /\ Head(toClient).type = "snapshot" => Answering(s)
           /\ \A version : SnapshotSent(s, version) =>
                IF Head(toClient).id = s
                THEN Head(toClient).type = "snapshot" /\ Head(toClient).version = version /\ ~ Answering(s)'
                ELSE SnapshotSent(s, version)'
<1>1. /\ toClient' \in Seq(Message) /\ Head(toClient) \in Message /\ <<Head(toClient)>> \in Seq(Message)
      /\ toClient = <<Head(toClient)>> \o toClient'
  BY HeadAndTail, HeadTailProperties
<1>2. UpdatesIn(toClient, s) = UpdatesIn(<<Head(toClient)>>, s) \o UpdatesIn(toClient', s)
  <2>1. UpdatesIn(<<Head(toClient)>> \o toClient', s) = UpdatesIn(<<Head(toClient)>>, s) \o UpdatesIn(toClient', s)
    BY <1>1, UpdatesConcat
  <2> QED BY <1>1, <2>1
<1>3. UpdatesIn(<<Head(toClient)>>, s)
        = IF Head(toClient).type = "update" /\ Head(toClient).id = s
          THEN <<[kind |-> Head(toClient).kind, version |-> Head(toClient).version]>> ELSE <<>>
  BY <1>1, UpdatesOfOne
<1>4. /\ Len(toClient') = Len(toClient) - 1 /\ Len(toClient) \in Nat /\ Len(toClient) > 0
      /\ \A i \in 1..Len(toClient') : toClient'[i] = toClient[i + 1]
      /\ DOMAIN toClient' = 1..Len(toClient') /\ DOMAIN toClient = 1..Len(toClient)
      /\ Head(toClient) = toClient[1] /\ 1 \in DOMAIN toClient
  BY <1>1, HeadTailProperties
<1>5. /\ \A i \in DOMAIN toClient' : i + 1 \in DOMAIN toClient /\ toClient'[i] = toClient[i + 1]
      /\ \A i \in DOMAIN toClient : i # 1 => i - 1 \in DOMAIN toClient' /\ toClient'[i - 1] = toClient[i]
  <2>1. \A i \in 1..Len(toClient') : i + 1 \in 1..Len(toClient)
    BY <1>4
  <2>2. \A i \in 1..Len(toClient) : i # 1 => i - 1 \in 1..Len(toClient') /\ (i - 1) + 1 = i
    BY <1>4
  <2> QED BY <1>4, <2>1, <2>2
<1>6. Unmentioned(s) => Unmentioned(s)' /\ Head(toClient).id # s
  BY <1>4, <1>5 DEF Unmentioned
<1>7. /\ \A i \in Places(toClient', "snapshot", s) : i + 1 \in Places(toClient, "snapshot", s)
      /\ \A i \in Places(toClient, "snapshot", s) : i # 1 => i - 1 \in Places(toClient', "snapshot", s)
      /\ 1 \in Places(toClient, "snapshot", s) <=> Head(toClient).type = "snapshot" /\ Head(toClient).id = s
  BY PlacesInTail
<1>8. /\ Answering(s)' => Answering(s)
      /\ Head(toClient).id = s /\ Head(toClient).type = "snapshot" => Answering(s)
  BY <1>7 DEF Answering
<1>9. ASSUME NEW version, SnapshotSent(s, version)
      PROVE  IF Head(toClient).id = s
             THEN Head(toClient).type = "snapshot" /\ Head(toClient).version = version /\ ~ Answering(s)'
             ELSE SnapshotSent(s, version)'
  <2>1. PICK k \in Places(toClient, "snapshot", s) :
          /\ toClient[k].version = version
          /\ \A i \in DOMAIN toClient : toClient[i].id = s => k <= i /\ (toClient[i].type = "snapshot" => k = i)
    BY <1>9 DEF SnapshotSent
  <2>2. k \in DOMAIN toClient /\ k \in 1..Len(toClient) /\ toClient[k].id = s /\ toClient[k].type = "snapshot"
    BY <1>4 DEF Places
  <2>3. CASE Head(toClient).id = s
    <3>1. k = 1
      <4>1. k <= 1
        BY <1>4, <2>1, <2>3
      <4> QED BY <2>2, <4>1
    <3>2. \A i \in DOMAIN toClient' : toClient'[i].id = s => toClient'[i].type # "snapshot"
      <4> TAKE i \in DOMAIN toClient'
      <4>1. i + 1 \in DOMAIN toClient /\ toClient'[i] = toClient[i + 1] /\ i + 1 # 1
        BY <1>4, <1>5
      <4> QED BY <2>1, <3>1, <4>1
    <3>3. ~ Answering(s)'
      BY <3>2 DEF Answering, Places
    <3> QED BY <1>4, <2>1, <2>2, <2>3, <3>1, <3>3
  <2>4. CASE Head(toClient).id # s
    <3>1. k # 1 /\ k - 1 \in Places(toClient', "snapshot", s) /\ toClient'[k - 1].version = version
      BY <1>4, <1>5, <1>7, <2>1, <2>2, <2>4
    <3>2. PICK j : j = k - 1
      OBVIOUS
    <3>3. ASSUME NEW i \in DOMAIN toClient', toClient'[i].id = s
          PROVE  j <= i /\ (toClient'[i].type = "snapshot" => j = i)
      <4>1. i + 1 \in DOMAIN toClient /\ toClient'[i] = toClient[i + 1] /\ i \in 1..Len(toClient')
        BY <1>4, <1>5
      <4>2. k <= i + 1 /\ (toClient[i + 1].type = "snapshot" => k = i + 1)
        BY <2>1, <3>3, <4>1
      <4> QED BY <1>4, <2>2, <3>2, <4>1, <4>2
    <3>4. SnapshotSent(s, version)'
      BY <3>1, <3>2, <3>3 DEF SnapshotSent
    <3> QED BY <2>4, <3>4
  <2> QED BY <2>3, <2>4
<1>10. UpdatesIn(toClient', s) \in Seq(Update)
  BY <1>1, UpdatesType
<1> QED BY <1>1, <1>2, <1>3, <1>6, <1>8, <1>9, <1>10

-----------------------------------------------------------------------------
(* What is on the way to the server.                                       *)

\* Requests sent come behind what is on the way.
LEMMA RequestsBehind ==
    ASSUME toServer \in Seq(Request), NEW other \in Seq(Request), toServer' = toServer \o other, NEW s
    PROVE  /\ toServer' \in Seq(Request)
           /\ Asked(s)' <=> Asked(s) \/ Places(other, "subscribe", s) # {}
           /\ Leaving(s)' <=> Leaving(s) \/ Places(other, "unsubscribe", s) # {}
<1>1. toServer' \in Seq(Request)
  BY ConcatProperties
<1>2. Places(toServer', "subscribe", s)
        = Places(toServer, "subscribe", s) \cup {Len(toServer) + i : i \in Places(other, "subscribe", s)}
  BY PlacesBehind
<1>3. Places(toServer', "unsubscribe", s)
        = Places(toServer, "unsubscribe", s) \cup {Len(toServer) + i : i \in Places(other, "unsubscribe", s)}
  BY PlacesBehind
<1>4. Asked(s)' <=> Asked(s) \/ Places(other, "subscribe", s) # {}
  BY <1>2 DEF Asked
<1>5. Leaving(s)' <=> Leaving(s) \/ Places(other, "unsubscribe", s) # {}
  BY <1>3 DEF Leaving
<1> QED BY <1>1, <1>4, <1>5

\* They ask for a subscription once if it was not asked for and they ask once.
LEMMA AskedOnceBehind ==
    ASSUME toServer \in Seq(Request), NEW other \in Seq(Request), toServer' = toServer \o other, AskedOnce,
           \A i \in DOMAIN other : other[i].type = "subscribe" => ~ Asked(other[i].id),
           \A i, j \in DOMAIN other : other[i].type = "subscribe" /\ other[j] = other[i] => i = j
    PROVE  AskedOnce'
<1> DEFINE n == Len(toServer)
           m == Len(other)
<1>1. /\ n \in Nat /\ m \in Nat /\ Len(toServer') = n + m /\ toServer' \in Seq(Request)
      /\ \A i \in 1..(n + m) : toServer'[i] = IF i <= n THEN toServer[i] ELSE other[i - n]
  BY ConcatProperties
<1>2. DOMAIN toServer' = 1..(n + m) /\ DOMAIN toServer = 1..n /\ DOMAIN other = 1..m
  BY <1>1
<1> HIDE DEF n, m
<1>3. SUFFICES ASSUME NEW i \in 1..(n + m), NEW j \in 1..(n + m),
                      toServer'[i].type = "subscribe", toServer'[j] = toServer'[i]
               PROVE  i = j
  BY <1>2 DEF AskedOnce
<1>4. ASSUME NEW k \in 1..(n + m)
      PROVE  \/ k <= n /\ k \in DOMAIN toServer /\ toServer'[k] = toServer[k]
             \/ ~ (k <= n) /\ k - n \in DOMAIN other /\ toServer'[k] = other[k - n]
  <2>1. k <= n => k \in 1..n
    BY <1>1
  <2>2. ~ (k <= n) => k - n \in 1..m
    BY <1>1
  <2> QED BY <1>1, <1>2, <2>1, <2>2
<1>5. \A k \in DOMAIN toServer : toServer[k].type = "subscribe" => Asked(toServer[k].id)
  BY DEF Asked, Places
<1>6. CASE i <= n /\ j <= n
  <2>1. i \in DOMAIN toServer /\ j \in DOMAIN toServer /\ toServer'[i] = toServer[i] /\ toServer'[j] = toServer[j]
    BY <1>4, <1>6
  <2> QED BY <1>3, <2>1 DEF AskedOnce
<1>7. CASE ~ (i <= n) /\ ~ (j <= n)
  <2>1. /\ i - n \in DOMAIN other /\ j - n \in DOMAIN other
        /\ toServer'[i] = other[i - n] /\ toServer'[j] = other[j - n]
    BY <1>4, <1>7
  <2>2. i - n = j - n
    BY <1>3, <2>1
  <2> QED BY <1>1, <2>2
<1>8. CASE i <= n /\ ~ (j <= n)
  <2>1. i \in DOMAIN toServer /\ j - n \in DOMAIN other /\ toServer[i] = other[j - n]
    BY <1>3, <1>4, <1>8
  <2>2. toServer[i].type = "subscribe"
    BY <1>3, <1>4, <1>8
  <2>3. Asked(toServer[i].id) /\ ~ Asked(other[j - n].id)
    BY <1>5, <2>1, <2>2
  <2> QED BY <2>1, <2>3
<1>9. CASE ~ (i <= n) /\ j <= n
  <2>1. j \in DOMAIN toServer /\ i - n \in DOMAIN other /\ toServer[j] = other[i - n]
    BY <1>3, <1>4, <1>9
  <2>2. toServer[j].type = "subscribe"
    BY <1>3, <1>4, <1>9
  <2>3. Asked(toServer[j].id) /\ ~ Asked(other[i - n].id)
    BY <1>5, <2>1, <2>2
  <2> QED BY <2>1, <2>3
<1> QED BY <1>6, <1>7, <1>8, <1>9

\* The first request is taken up.
LEMMA FirstTaken ==
    ASSUME toServer \in Seq(Request), toServer # <<>>, toServer' = Tail(toServer), NEW s
    PROVE  /\ toServer' \in Seq(Request) /\ Head(toServer) \in Request
           /\ AskedOnce => AskedOnce'
           /\ Asked(s) <=> Asked(s)' \/ Head(toServer) = [type |-> "subscribe", id |-> s]
           /\ Leaving(s) <=> Leaving(s)' \/ Head(toServer) = [type |-> "unsubscribe", id |-> s]
           /\ AskedOnce /\ Head(toServer) = [type |-> "subscribe", id |-> s] => ~ Asked(s)'
<1>1. toServer' \in Seq(Request) /\ Head(toServer) \in Request
  BY HeadTailProperties
<1>2. \A type : Head(toServer).type = type /\ Head(toServer).id = s <=> Head(toServer) = [type |-> type, id |-> s]
  BY <1>1 DEF Request
<1>3. ASSUME NEW type
      PROVE  Places(toServer, type, s) # {}
               <=> Places(toServer', type, s) # {} \/ Head(toServer) = [type |-> type, id |-> s]
  <2>1. /\ \A i \in Places(toServer', type, s) : i + 1 \in Places(toServer, type, s)
        /\ \A i \in Places(toServer, type, s) : i # 1 => i - 1 \in Places(toServer', type, s)
        /\ 1 \in Places(toServer, type, s) <=> Head(toServer).type = type /\ Head(toServer).id = s
    BY PlacesInTail
  <2> QED BY <1>2, <2>1
<1>4. /\ Asked(s) <=> Asked(s)' \/ Head(toServer) = [type |-> "subscribe", id |-> s]
      /\ Leaving(s) <=> Leaving(s)' \/ Head(toServer) = [type |-> "unsubscribe", id |-> s]
  BY <1>3 DEF Asked, Leaving
<1>5. /\ Len(toServer') = Len(toServer) - 1 /\ Len(toServer) \in Nat /\ Len(toServer) > 0
      /\ \A i \in 1..Len(toServer') : toServer'[i] = toServer[i + 1]
      /\ DOMAIN toServer' = 1..Len(toServer') /\ DOMAIN toServer = 1..Len(toServer)
      /\ Head(toServer) = toServer[1] /\ 1 \in DOMAIN toServer
  BY <1>1, HeadTailProperties
<1>6. \A i \in DOMAIN toServer' : i \in Nat /\ i + 1 # 1 /\ i + 1 \in DOMAIN toServer /\ toServer'[i] = toServer[i + 1]
  <2>1. \A i \in 1..Len(toServer') : i + 1 \in 1..Len(toServer) /\ i \in Nat /\ i + 1 # 1
    BY <1>5
  <2> QED BY <1>5, <2>1
<1>7. AskedOnce => AskedOnce'
  <2>1. \A i, j \in DOMAIN toServer' : i + 1 = j + 1 => i = j
    BY <1>6
  <2> QED BY <1>6, <2>1 DEF AskedOnce
<1>8. ASSUME AskedOnce, Head(toServer) = [type |-> "subscribe", id |-> s]
      PROVE  ~ Asked(s)'
  <2> SUFFICES ASSUME NEW i \in DOMAIN toServer', toServer'[i].type = "subscribe", toServer'[i].id = s
               PROVE  FALSE
    BY DEF Asked, Places
  <2>1. toServer[i + 1] \in Request
    BY <1>6
  <2>2. toServer[i + 1] = toServer[1]
    BY <1>5, <1>6, <1>8, <2>1 DEF Request
  <2>3. toServer[1].type = "subscribe"
    BY <1>5, <1>8
  <2> QED BY <1>5, <1>6, <1>8, <2>2, <2>3 DEF AskedOnce
<1> QED BY <1>1, <1>4, <1>7, <1>8

\* One message is sent.
LEMMA OneSent ==
    ASSUME toClient \in Seq(Message), NEW m \in Message, toClient' = Append(toClient, m), NEW s
    PROVE  /\ toClient' \in Seq(Message)
           /\ UpdatesIn(toClient', s)
                = UpdatesIn(toClient, s) \o (IF m.type = "update" /\ m.id = s
                                             THEN <<[kind |-> m.kind, version |-> m.version]>> ELSE <<>>)
           /\ Unmentioned(s)' <=> Unmentioned(s) /\ m.id # s
           /\ Answering(s)' <=> Answering(s) \/ (m.type = "snapshot" /\ m.id = s)
           /\ \A version : SnapshotSent(s, version) /\ ~ (m.type = "snapshot" /\ m.id = s) => SnapshotSent(s, version)'
           /\ \A version : Unmentioned(s) /\ m = [type |-> "snapshot", id |-> s, version |-> version]
                             => SnapshotSent(s, version)'
<1>1. PICK other : other = <<m>>
  OBVIOUS
<1>2. /\ other \in Seq(Message) /\ DOMAIN other = {1} /\ other[1] = m
      /\ Places(other, "snapshot", s) = IF m.type = "snapshot" /\ m.id = s THEN {1} ELSE {}
  BY <1>1, PlacesOfOne
<1>3. toClient' = toClient \o other
  BY <1>1, AppendIsConcat
<1>4. /\ toClient' \in Seq(Message)
      /\ UpdatesIn(toClient', s) = UpdatesIn(toClient, s) \o UpdatesIn(other, s)
      /\ Unmentioned(s)' <=> Unmentioned(s) /\ \A i \in DOMAIN other : other[i].id # s
      /\ Answering(s)' <=> Answering(s) \/ Places(other, "snapshot", s) # {}
      /\ \A version : SnapshotSent(s, version) /\ Places(other, "snapshot", s) = {} => SnapshotSent(s, version)'
      /\ \A version : Unmentioned(s) /\ other = <<[type |-> "snapshot", id |-> s, version |-> version]>>
                        => SnapshotSent(s, version)'
  BY <1>2, <1>3, SentBehind
<1>5. UpdatesIn(other, s) = IF m.type = "update" /\ m.id = s
                            THEN <<[kind |-> m.kind, version |-> m.version]>> ELSE <<>>
  BY <1>1, UpdatesOfOne
<1>6. Unmentioned(s)' <=> Unmentioned(s) /\ m.id # s
  BY <1>2, <1>4
<1>7. Answering(s)' <=> Answering(s) \/ (m.type = "snapshot" /\ m.id = s)
  BY <1>2, <1>4
<1>8. \A version : SnapshotSent(s, version) /\ ~ (m.type = "snapshot" /\ m.id = s) => SnapshotSent(s, version)'
  BY <1>2, <1>4
<1>9. \A version : Unmentioned(s) /\ m = [type |-> "snapshot", id |-> s, version |-> version]
                     => SnapshotSent(s, version)'
  BY <1>1, <1>4
<1> QED BY <1>4, <1>5, <1>6, <1>7, <1>8, <1>9

\* One request is sent.
LEMMA OneRequested ==
    ASSUME toServer \in Seq(Request), NEW m \in Request, toServer' = Append(toServer, m), NEW s
    PROVE  /\ toServer' \in Seq(Request)
           /\ Asked(s)' <=> Asked(s) \/ (m.type = "subscribe" /\ m.id = s)
           /\ Leaving(s)' <=> Leaving(s) \/ (m.type = "unsubscribe" /\ m.id = s)
           /\ AskedOnce /\ (m.type = "subscribe" => ~ Asked(m.id)) => AskedOnce'
<1>1. PICK other : other = <<m>>
  OBVIOUS
<1>2. /\ other \in Seq(Request) /\ DOMAIN other = {1} /\ other[1] = m
      /\ Places(other, "subscribe", s) = IF m.type = "subscribe" /\ m.id = s THEN {1} ELSE {}
      /\ Places(other, "unsubscribe", s) = IF m.type = "unsubscribe" /\ m.id = s THEN {1} ELSE {}
  BY <1>1, PlacesOfOne
<1>3. toServer' = toServer \o other
  BY <1>1, AppendIsConcat
<1>4. /\ toServer' \in Seq(Request)
      /\ Asked(s)' <=> Asked(s) \/ Places(other, "subscribe", s) # {}
      /\ Leaving(s)' <=> Leaving(s) \/ Places(other, "unsubscribe", s) # {}
  BY <1>2, <1>3, RequestsBehind
<1>5. ASSUME AskedOnce, m.type = "subscribe" => ~ Asked(m.id)
      PROVE  AskedOnce'
  <2>1. \A i \in DOMAIN other : other[i].type = "subscribe" => ~ Asked(other[i].id)
    BY <1>2, <1>5
  <2>2. \A i, j \in DOMAIN other : other[i].type = "subscribe" /\ other[j] = other[i] => i = j
    BY <1>2
  <2> QED BY <1>2, <1>3, <1>5, <2>1, <2>2, AskedOnceBehind
<1> QED BY <1>2, <1>4, <1>5

-----------------------------------------------------------------------------
(* The way from what a subscription shows to the provider.                 *)

\* What a listener keeps for a subscription that has not ended.
Kept(l) == IF l.phase = "started" THEN l.tail ELSE l.queued

\* The ways of a path that is put together.
LEMMA PathIs ==
    ASSUME NEW l \in Listener, NEW u \in Seq(Update), NEW p \in Seq(Update), l.wire = <<>>,
           l.phase # "answered" => l.queued = <<>>, l.phase # "started" => l.tail = <<>>
    PROVE  /\ Kept(l) \in Seq(Update)
           /\ l.tail \o l.queued \o l.wire \o u \o p = Kept(l) \o (u \o p)
<1>1. l.tail \in Seq(Update) /\ l.queued \in Seq(Update)
  BY DEF Listener
<1>2. l.tail \o l.queued = Kept(l) /\ Kept(l) \in Seq(Update)
  BY <1>1, ConcatEmptySeq DEF Kept
<1>3. Kept(l) \o l.wire = Kept(l)
  BY <1>2, ConcatEmptySeq
<1>4. PICK k \in Seq(Update) : k = Kept(l)
  BY <1>2
<1>5. (k \o u) \o p = k \o (u \o p)
  BY ConcatAssociative
<1> QED BY <1>2, <1>3, <1>4, <1>5

\* The path of a subscription that has not ended: what the client keeps, what is
\* on its way and what waits at the server.
PathRight ==
    \A s \in Subs : ListenerAt(s) /\ listener[s].phase # "closed" =>
        /\ UnderWay(s) = Kept(listener[s]) \o (UpdatesIn(toClient, s) \o served[s].pending)
        /\ Kept(listener[s]) \in Seq(Update)

\* What it is made of is typed, in every state.
LEMMA PathTypes ==
    ASSUME TypeOK, NEW s \in Subs
    PROVE  /\ UpdatesIn(toClient, s) \in Seq(Update) /\ served[s].pending \in Seq(Update)
           /\ listener[s] \in Listener /\ served[s] \in Handler
BY UpdatesType DEF TypeOK, Handler

\* It is so in every state.
LEMMA PathsAre == TypeOK => PathRight
<1> SUFFICES ASSUME TypeOK, NEW s \in Subs, ListenerAt(s), listener[s].phase # "closed"
             PROVE  /\ UnderWay(s) = Kept(listener[s]) \o (UpdatesIn(toClient, s) \o served[s].pending)
                    /\ Kept(listener[s]) \in Seq(Update)
  BY DEF PathRight
<1>1. /\ UpdatesIn(toClient, s) \in Seq(Update) /\ served[s].pending \in Seq(Update)
      /\ listener[s] \in Listener
  BY PathTypes
<1>2. /\ listener[s].wire = <<>>
      /\ listener[s].phase # "answered" => listener[s].queued = <<>>
      /\ listener[s].phase # "started" => listener[s].tail = <<>>
  BY <1>1 DEF ListenerAt, Listener
<1>3. PICK l \in Listener, u \in Seq(Update), p \in Seq(Update) :
        l = listener[s] /\ u = UpdatesIn(toClient, s) /\ p = served[s].pending
  BY <1>1
<1>4. /\ Kept(l) \in Seq(Update)
      /\ l.tail \o l.queued \o l.wire \o u \o p = Kept(l) \o (u \o p)
  BY <1>2, <1>3, PathIs
<1> QED BY <1>3, <1>4 DEF UnderWay

\* And so after a step.
LEMMA PathsAreAfter == TypeOK' => PathRight'
BY PathsAre, PTL

\* What a subscription starts from stays what it is.
LEMMA BaseKept ==
    ASSUME TypeOK, TypeOK', NEW s \in Subs, ServedAt(s), s \in subscribed,
           listener[s].phase \in {"requested", "answered", "started"}, listener'[s] = listener[s], facade' = facade,
           listener[s].phase = "requested" /\ Unmentioned(s) =>
             Unmentioned(s)' /\ served'[s].snapshot = served[s].snapshot,
           \A version : SnapshotSent(s, version) => SnapshotSent(s, version)'
    PROVE  Base(s)' = Base(s)
<1>1. BaseRight /\ BaseRight'
  BY BaseIs, BaseIsAfter DEF TypeOK
<1>2. CASE listener[s].phase \in {"answered", "started"}
  BY <1>1, <1>2 DEF BaseRight
<1>3. CASE listener[s].phase = "requested"
  <2>1. Unmentioned(s) \/ SnapshotFirst(s)
    BY <1>3 DEF ServedAt
  <2>2. CASE Unmentioned(s)
    <3>1. Base(s) = served[s].snapshot
      BY <1>1, <1>3, <2>2 DEF BaseRight
    <3>2. Base(s)' = served'[s].snapshot
      BY <1>1, <1>3, <2>2 DEF BaseRight
    <3> QED BY <1>3, <2>2, <3>1, <3>2
  <2>3. CASE SnapshotFirst(s)
    <3>1. PICK version : SnapshotSent(s, version) /\ SnapshotSent(s, version)'
      BY <2>3, FirstIsSent DEF TypeOK, FirstRight
    <3>2. Base(s) = version
      BY <1>1, <1>3, <3>1 DEF BaseRight
    <3>3. Base(s)' = version
      BY <1>1, <1>3, <3>1 DEF BaseRight
    <3> QED BY <3>2, <3>3
  <2> QED BY <2>1, <2>2, <2>3
<1> QED BY <1>2, <1>3

\* A subscription that has not ended, and is held, waits for its snapshot or has it.
LEMMA HeldPhases ==
    ASSUME NEW s \in Subs, ServedAt(s), s \in subscribed, listener[s].phase # "closed"
    PROVE  /\ listener[s].phase \in {"requested", "answered", "started"}
           /\ served[s].phase # "none"
BY DEF ServedAt

\* What is on the way to the server is what it was.
LEMMA SameRequests ==
    ASSUME UNCHANGED toServer, NEW s
    PROVE  /\ Asked(s)' <=> Asked(s)
           /\ Leaving(s)' <=> Leaving(s)
           /\ AskedOnce' <=> AskedOnce
BY DEF Asked, Leaving, AskedOnce

\* What is on the way to the client is what it was.
LEMMA SameMessages ==
    ASSUME UNCHANGED toClient, NEW s
    PROVE  /\ UpdatesIn(toClient', s) = UpdatesIn(toClient, s)
           /\ Unmentioned(s)' <=> Unmentioned(s)
           /\ Answering(s)' <=> Answering(s)
           /\ SnapshotFirst(s)' <=> SnapshotFirst(s)
           /\ \A version : SnapshotSent(s, version)' <=> SnapshotSent(s, version)
BY DEF Unmentioned, Answering, SnapshotFirst, SnapshotSent

\* The snapshot stays the first of a subscription while it stays on its way.
LEMMA FirstKept ==
    ASSUME NEW s, toClient \in Seq(Message), (toClient \in Seq(Message))',
           \A version : SnapshotSent(s, version) => SnapshotSent(s, version)'
    PROVE  SnapshotFirst(s) => SnapshotFirst(s)'
BY FirstIsSent, FirstIsSentAfter DEF FirstRight

\* A path that was followed without a gap is, if neither its ends nor what is on it change.
LEMMA GapKept ==
    ASSUME SubscriptionInv, TypeOK', NEW s \in Subs, ListenerAt(s)',
           s \in subscribed, Wanted(s), listener[s].phase # "closed",
           listener'[s] = listener[s], UNCHANGED <<facade, current>>,
           listener[s].phase = "requested" /\ Unmentioned(s) =>
             Unmentioned(s)' /\ served'[s].snapshot = served[s].snapshot,
           \A version : SnapshotSent(s, version) => SnapshotSent(s, version)',
           UpdatesIn(toClient', s) \o served'[s].pending = UpdatesIn(toClient, s) \o served[s].pending
    PROVE  Lead(Base(s), UnderWay(s), current)'
<1>1. TypeOK /\ ListenerAt(s) /\ ServedAt(s) /\ NoGap
  BY DEF SubscriptionInv
<1>2. Lead(Base(s), UnderWay(s), current)
  BY <1>1 DEF NoGap
<1>3. UnderWay(s)' = UnderWay(s)
  <2>1. UnderWay(s) = Kept(listener[s]) \o (UpdatesIn(toClient, s) \o served[s].pending)
    BY <1>1, PathsAre DEF PathRight
  <2>2. UnderWay(s)' = Kept(listener[s])' \o (UpdatesIn(toClient', s) \o served'[s].pending)
    BY PathsAreAfter DEF PathRight
  <2> QED BY <2>1, <2>2 DEF Kept
<1>4. Base(s)' = Base(s)
  BY <1>1, BaseKept, HeldPhases
<1> QED BY <1>2, <1>3, <1>4

-----------------------------------------------------------------------------
(* The server.                                                             *)

\* A response keeps the invariant.
LEMMA RespondKeeps ==
    ASSUME SubscriptionInv, NEW r \in Subs, Respond(r)
    PROVE  SubscriptionInv'
<1>1. /\ TypeOK /\ RevisionInv /\ LostInv /\ AskedOnce /\ NoGap
      /\ \A s \in Subs : ListenerAt(s) /\ ServedAt(s)
  BY DEF SubscriptionInv
<1>2. /\ served[r].phase = "invoked" /\ served \in [Subs -> Handler]
      /\ served' = [served EXCEPT ![r].phase = "draining", ![r].snapshot = Cold]
      /\ encoders' = encoders \cup {r}
      /\ UNCHANGED <<providerVars, closing, toServer, connected, losses, listener, lastId, bindingVars>>
  BY <1>1 DEF Respond, TypeOK
<1>3. served[r].snapshot \in Version /\ r \in subscribed /\ listener[r].phase = "requested" /\ Unmentioned(r)
  BY <1>1, <1>2 DEF ServedAt
<1>4. PICK v \in Version, m \in Message :
        v = served[r].snapshot /\ m = [type |-> "snapshot", id |-> r, version |-> v]
  BY <1>3 DEF Message
<1>5. toClient' = Append(toClient, m) /\ toClient \in Seq(Message)
  BY <1>1, <1>4 DEF Respond, TypeOK
<1>6. \A s \in Subs :
        /\ toClient' \in Seq(Message)
        /\ UpdatesIn(toClient', s) = UpdatesIn(toClient, s) \o <<>>
        /\ Unmentioned(s)' <=> Unmentioned(s) /\ s # r
        /\ Answering(s)' <=> Answering(s) \/ s = r
        /\ s # r => \A version : SnapshotSent(s, version) => SnapshotSent(s, version)'
        /\ s = r => SnapshotSent(s, v)'
  <2> TAKE s \in Subs
  <2>1. /\ toClient' \in Seq(Message)
        /\ UpdatesIn(toClient', s)
             = UpdatesIn(toClient, s) \o (IF m.type = "update" /\ m.id = s
                                          THEN <<[kind |-> m.kind, version |-> m.version]>> ELSE <<>>)
        /\ Unmentioned(s)' <=> Unmentioned(s) /\ m.id # s
        /\ Answering(s)' <=> Answering(s) \/ (m.type = "snapshot" /\ m.id = s)
        /\ \A version : SnapshotSent(s, version) /\ ~ (m.type = "snapshot" /\ m.id = s) => SnapshotSent(s, version)'
        /\ \A version : Unmentioned(s) /\ m = [type |-> "snapshot", id |-> s, version |-> version]
                          => SnapshotSent(s, version)'
    BY <1>5, OneSent
  <2>2. m.type = "snapshot" /\ m.id = r
    BY <1>4
  <2>3. UpdatesIn(toClient', s) = UpdatesIn(toClient, s) \o <<>>
    BY <2>1, <2>2
  <2>4. Unmentioned(s)' <=> Unmentioned(s) /\ s # r
    BY <2>1, <2>2
  <2>5. Answering(s)' <=> Answering(s) \/ s = r
    BY <2>1, <2>2
  <2>6. s # r => \A version : SnapshotSent(s, version) => SnapshotSent(s, version)'
    BY <2>1, <2>2
  <2>7. s = r => SnapshotSent(s, v)'
    BY <1>3, <1>4, <2>1
  <2> QED BY <2>1, <2>3, <2>4, <2>5, <2>6, <2>7
<1>7. /\ served'[r].phase = "draining" /\ served'[r].snapshot = Cold /\ served'[r].pending = served[r].pending
      /\ \A s \in Subs : s # r => served'[s] = served[s]
  BY <1>2 DEF Handler
<1>8. TypeOK'
  <2>1. served' \in [Subs -> Handler]
    BY <1>2 DEF Handler
  <2> QED BY <1>1, <1>2, <1>6, <2>1 DEF TypeOK, providerVars, bindingVars
<1>9. RevisionInv' /\ AskedOnce' /\ LostInv'
  <2>1. RevisionInv' /\ AskedOnce'
    BY <1>1, <1>2 DEF RevisionInv, AskedOnce, bindingVars
  <2>2. connected /\ connected'
    BY <1>1, <1>2, <1>3 DEF LostInv
  <2> QED BY <2>1, <2>2 DEF LostInv
<1>10. \A s \in Subs : ListenerAt(s)'
  BY <1>1, <1>2 DEF ListenerAt, providerVars, bindingVars
<1>11. \A s \in Subs : ServedAt(s)'
  <2> TAKE s \in Subs
  <2>1. SnapshotFirst(s) /\ s # r => SnapshotFirst(s)'
    BY <1>1, <1>6, FirstIsSent, FirstIsSentAfter DEF TypeOK, FirstRight
  <2>2. SnapshotFirst(r)'
    BY <1>6, FirstIsSentAfter DEF FirstRight
  <2>3. /\ Asked(s)' <=> Asked(s)
        /\ Leaving(s)' <=> Leaving(s)
    BY <1>2 DEF Asked, Leaving
  <2>4. CASE s = r
    BY <1>1, <1>2, <1>3, <1>6, <1>7, <2>2, <2>3, <2>4 DEF ServedAt, providerVars, bindingVars
  <2>5. CASE s # r
    BY <1>1, <1>2, <1>6, <1>7, <2>1, <2>3, <2>5 DEF ServedAt, providerVars, bindingVars
  <2> QED BY <2>4, <2>5
<1>12. NoGap'
  <2> SUFFICES ASSUME NEW s \in Subs, (s \in subscribed /\ Wanted(s) /\ listener[s].phase # "closed")'
               PROVE  Lead(Base(s), UnderWay(s), current)'
    BY <1>8 DEF NoGap, TypeOK
  <2>1. /\ s \in subscribed /\ Wanted(s) /\ listener[s].phase # "closed" /\ ServedAt(s) /\ ListenerAt(s)
        /\ listener'[s] = listener[s] /\ current' = current /\ facade' = facade
    BY <1>1, <1>2 DEF Wanted, providerVars, bindingVars
  <2>2. Lead(Base(s), UnderWay(s), current)
    BY <1>1, <2>1 DEF NoGap
  <2>3. UnderWay(s)' = UnderWay(s)
    <3>1. UnderWay(s) = Kept(listener[s]) \o (UpdatesIn(toClient, s) \o served[s].pending)
      BY <1>1, <2>1, PathsAre DEF PathRight
    <3>2. UnderWay(s)' = Kept(listener[s])' \o (UpdatesIn(toClient', s) \o served'[s].pending)
      BY <1>8, <1>10, <2>1, PathsAreAfter DEF PathRight
    <3>3. UpdatesIn(toClient', s) = UpdatesIn(toClient, s)
      BY <1>1, <1>6, PathTypes, ConcatEmptySeq
    <3>4. served'[s].pending = served[s].pending
      BY <1>7
    <3> QED BY <2>1, <3>1, <3>2, <3>3, <3>4 DEF Kept
  <2>4. Base(s)' = Base(s)
    <3>1. CASE s = r
      <4>1. Base(s) = v
        BY <1>1, <1>3, <1>4, <3>1, BaseIs DEF BaseRight, TypeOK
      <4>2. Base(s)' = v
        <5>1. BaseRight' /\ SnapshotSent(s, v)' /\ (listener[s].phase = "requested")'
          BY <1>3, <1>6, <2>1, <3>1, BaseIsAfter
        <5>2. \A version : SnapshotSent(s, version)' => Base(s)' = version
          BY <5>1 DEF BaseRight
        <5> QED BY <5>1, <5>2
      <4> QED BY <4>1, <4>2
    <3>2. CASE s # r
      BY <1>1, <1>6, <1>7, <1>8, <2>1, <3>2, BaseKept, HeldPhases
    <3> QED BY <3>1, <3>2
  <2> QED BY <2>1, <2>2, <2>3, <2>4
<1> QED BY <1>1, <1>8, <1>9, <1>10, <1>11, <1>12 DEF SubscriptionInv

\* Sending what waited keeps the invariant.
LEMMA DrainKeeps ==
    ASSUME SubscriptionInv, NEW r \in Subs, Drain(r)
    PROVE  SubscriptionInv'
<1>1. /\ TypeOK /\ RevisionInv /\ LostInv /\ AskedOnce /\ NoGap
      /\ \A s \in Subs : ListenerAt(s) /\ ServedAt(s)
  BY DEF SubscriptionInv
<1>2. /\ served[r].phase = "draining" /\ served \in [Subs -> Handler] /\ toClient \in Seq(Message)
      /\ UNCHANGED <<current, changes, subscribed, encoders, closing, toServer, connected, losses, listener, lastId>>
      /\ UNCHANGED <<open, opens, revision, facade>>
  BY <1>1 DEF Drain, TypeOK, providerVars, bindingVars
<1>3. /\ served' \in [Subs -> Handler] /\ toClient' \in Seq(Message)
      /\ \A s \in Subs : s # r => served'[s] = served[s]
      /\ served'[r].phase \in {"draining", "ready"} /\ served'[r].snapshot = served[r].snapshot
      /\ served'[r].phase = "ready" => served'[r].pending = <<>>
      /\ \A s \in Subs :
           /\ s # r => (Unmentioned(s)' <=> Unmentioned(s))
           /\ Answering(s)' <=> Answering(s)
           /\ \A version : SnapshotSent(s, version) => SnapshotSent(s, version)'
           /\ s \in encoders \/ s # r =>
                UpdatesIn(toClient', s) \o served'[s].pending = UpdatesIn(toClient, s) \o served[s].pending
  <2>1. CASE served[r].pending = <<>>
    <3>1. served' = [served EXCEPT ![r].phase = "ready"] /\ toClient' = toClient
      BY <2>1 DEF Drain
    <3>2. /\ served' \in [Subs -> Handler]
          /\ \A s \in Subs : s # r => served'[s] = served[s]
          /\ served'[r].phase = "ready" /\ served'[r].snapshot = served[r].snapshot
          /\ served'[r].pending = served[r].pending
      BY <1>2, <3>1 DEF Handler
    <3>3. \A s \in Subs : served'[s].pending = served[s].pending
      BY <3>2
    <3> QED BY <1>2, <2>1, <3>1, <3>2, <3>3, SameMessages
  <2>2. CASE served[r].pending # <<>>
    <3>1. /\ served' = [served EXCEPT ![r].pending = Tail(@)]
          /\ toClient' = IF r \in encoders
                         THEN Append(toClient, UpdateTo(r, Head(served[r].pending)))
                         ELSE toClient
      BY <2>2 DEF Drain
    <3>2. PICK p \in Seq(Update) : p = served[r].pending /\ p # <<>>
      BY <1>2, <2>2 DEF Handler
    <3>3. /\ Head(p) \in Update /\ Tail(p) \in Seq(Update)
          /\ <<Head(p)>> \in Seq(Update) /\ <<Head(p)>> \o Tail(p) = p
      BY <3>2, HeadTailProperties, HeadAndTail
    <3>4. /\ served' \in [Subs -> Handler]
          /\ \A s \in Subs : s # r => served'[s] = served[s]
          /\ served'[r].phase = "draining" /\ served'[r].snapshot = served[r].snapshot
          /\ served'[r].pending = Tail(p)
      BY <1>2, <3>1, <3>2, <3>3 DEF Handler
    <3>5. CASE r \notin encoders
      BY <1>2, <3>1, <3>4, <3>5, SameMessages
    <3>6. CASE r \in encoders
      <4>1. PICK m \in Message : m = UpdateTo(r, Head(p))
        BY <3>3 DEF UpdateTo, Message, Update
      <4>2. toClient' = Append(toClient, m) /\ m.type = "update" /\ m.id = r
            /\ [kind |-> m.kind, version |-> m.version] = Head(p)
        BY <3>1, <3>2, <3>3, <3>6, <4>1 DEF UpdateTo, Update
      <4>3. ASSUME NEW s \in Subs
            PROVE  /\ toClient' \in Seq(Message)
                   /\ UpdatesIn(toClient', s) = UpdatesIn(toClient, s) \o (IF s = r THEN <<Head(p)>> ELSE <<>>)
                   /\ Unmentioned(s)' <=> Unmentioned(s) /\ s # r
                   /\ Answering(s)' <=> Answering(s)
                   /\ \A version : SnapshotSent(s, version) => SnapshotSent(s, version)'
        <5>1. /\ toClient' \in Seq(Message)
              /\ UpdatesIn(toClient', s)
                   = UpdatesIn(toClient, s) \o (IF m.type = "update" /\ m.id = s
                                                THEN <<[kind |-> m.kind, version |-> m.version]>> ELSE <<>>)
              /\ Unmentioned(s)' <=> Unmentioned(s) /\ m.id # s
              /\ Answering(s)' <=> Answering(s) \/ (m.type = "snapshot" /\ m.id = s)
              /\ \A version : SnapshotSent(s, version) /\ ~ (m.type = "snapshot" /\ m.id = s)
                                => SnapshotSent(s, version)'
          BY <1>2, <4>2, OneSent
        <5>2. UpdatesIn(toClient', s) = UpdatesIn(toClient, s) \o (IF s = r THEN <<Head(p)>> ELSE <<>>)
          BY <4>2, <5>1
        <5>3. Unmentioned(s)' <=> Unmentioned(s) /\ s # r
          BY <4>2, <5>1
        <5>4. /\ Answering(s)' <=> Answering(s)
              /\ \A version : SnapshotSent(s, version) => SnapshotSent(s, version)'
          BY <4>2, <5>1
        <5> QED BY <5>1, <5>2, <5>3, <5>4
      <4>4. ASSUME NEW s \in Subs
            PROVE  UpdatesIn(toClient', s) \o served'[s].pending = UpdatesIn(toClient, s) \o served[s].pending
        <5>1. PICK u \in Seq(Update) : u = UpdatesIn(toClient, s)
          BY <1>1, PathTypes
        <5>2. CASE s = r
          <6>1. (u \o <<Head(p)>>) \o Tail(p) = u \o (<<Head(p)>> \o Tail(p))
            BY <3>3, ConcatAssociative
          <6> QED BY <3>2, <3>3, <3>4, <4>3, <5>1, <5>2, <6>1
        <5>3. CASE s # r
          <6>1. u \o <<>> = u
            BY ConcatEmptySeq
          <6> QED BY <3>4, <4>3, <5>1, <5>3, <6>1
        <5> QED BY <5>2, <5>3
      <4> QED BY <3>4, <4>3, <4>4
    <3> QED BY <3>5, <3>6
  <2> QED BY <2>1, <2>2
<1>4. TypeOK'
  BY <1>1, <1>2, <1>3 DEF TypeOK
<1>5. RevisionInv' /\ AskedOnce' /\ LostInv'
  <2>1. RevisionInv' /\ AskedOnce'
    BY <1>1, <1>2 DEF RevisionInv, AskedOnce
  <2>2. connected /\ connected'
    BY <1>1, <1>2 DEF LostInv
  <2> QED BY <2>1, <2>2 DEF LostInv
<1>6. \A s \in Subs : ListenerAt(s)'
  BY <1>1, <1>2 DEF ListenerAt
<1>7. ASSUME NEW s \in Subs
      PROVE  ServedAt(s)'
  <2>1. SnapshotFirst(s) => SnapshotFirst(s)'
    BY <1>2, <1>3, FirstKept
  <2>2. (Asked(s)' <=> Asked(s)) /\ (Leaving(s)' <=> Leaving(s))
    BY <1>2, SameRequests
  <2>3. CASE s = r
    BY <1>1, <1>2, <1>3, <2>1, <2>2, <2>3 DEF ServedAt
  <2>4. CASE s # r
    BY <1>1, <1>2, <1>3, <2>1, <2>2, <2>4 DEF ServedAt
  <2> QED BY <2>3, <2>4
<1>8. NoGap'
  <2> SUFFICES ASSUME NEW s \in Subs, (s \in subscribed /\ Wanted(s) /\ listener[s].phase # "closed")'
               PROVE  Lead(Base(s), UnderWay(s), current)'
    BY <1>4 DEF NoGap, TypeOK
  <2>1. /\ s \in subscribed /\ Wanted(s) /\ listener[s].phase # "closed" /\ ServedAt(s)
        /\ listener'[s] = listener[s] /\ UNCHANGED <<facade, current>>
    BY <1>1, <1>2 DEF Wanted
  <2>2. s \in encoders \/ s # r
    BY <1>2, <2>1 DEF ServedAt
  <2>3. listener[s].phase = "requested" /\ Unmentioned(s) => Unmentioned(s)' /\ served'[s].snapshot = served[s].snapshot
    <3>1. s = r /\ listener[s].phase = "requested" => SnapshotFirst(s)
      BY <1>2, <2>1 DEF ServedAt
    <3>2. s = r /\ listener[s].phase = "requested" => ~ Unmentioned(s)
      BY <1>2, <3>1, UnmentionedNone
    <3> QED BY <1>3, <3>2
  <2> QED BY <1>3, <1>4, <1>6, <2>1, <2>2, <2>3, GapKept
<1> QED BY <1>1, <1>4, <1>5, <1>6, <1>7, <1>8 DEF SubscriptionInv

\* Answering a request to unsubscribe keeps the invariant.
LEMMA AnswerUnsubscribeKeeps ==
    ASSUME SubscriptionInv, NEW r \in Subs, AnswerUnsubscribe(r)
    PROVE  SubscriptionInv'
<1>1. /\ TypeOK /\ RevisionInv /\ LostInv /\ AskedOnce /\ NoGap
      /\ \A s \in Subs : ListenerAt(s) /\ ServedAt(s)
  BY DEF SubscriptionInv
<1>2. /\ r \in closing /\ closing' = closing \ {r} /\ encoders' = encoders \ {r} /\ toClient \in Seq(Message)
      /\ UNCHANGED <<current, changes, subscribed, served, toServer, connected, losses, listener, lastId>>
      /\ UNCHANGED <<open, opens, revision, facade>>
  BY <1>1 DEF AnswerUnsubscribe, TypeOK, providerVars, bindingVars
<1>3. r \notin subscribed /\ served[r].phase \in {"draining", "ready"} /\ r \in Subs
  BY <1>1, <1>2 DEF ServedAt, TypeOK, Handler
<1>4. PICK m \in Message : m = [type |-> "closed", id |-> r]
  BY DEF Message
<1>5. toClient' = Append(toClient, m) /\ m.type = "closed" /\ m.id = r
  BY <1>4 DEF AnswerUnsubscribe
<1>6. ASSUME NEW s \in Subs
      PROVE  /\ toClient' \in Seq(Message)
             /\ UpdatesIn(toClient', s) = UpdatesIn(toClient, s)
             /\ Unmentioned(s)' <=> Unmentioned(s) /\ s # r
             /\ Answering(s)' <=> Answering(s)
             /\ \A version : SnapshotSent(s, version) => SnapshotSent(s, version)'
  <2>1. /\ toClient' \in Seq(Message)
        /\ UpdatesIn(toClient', s)
             = UpdatesIn(toClient, s) \o (IF m.type = "update" /\ m.id = s
                                          THEN <<[kind |-> m.kind, version |-> m.version]>> ELSE <<>>)
        /\ Unmentioned(s)' <=> Unmentioned(s) /\ m.id # s
        /\ Answering(s)' <=> Answering(s) \/ (m.type = "snapshot" /\ m.id = s)
        /\ \A version : SnapshotSent(s, version) /\ ~ (m.type = "snapshot" /\ m.id = s) => SnapshotSent(s, version)'
    BY <1>2, <1>5, OneSent
  <2>2. UpdatesIn(toClient', s) = UpdatesIn(toClient, s) \o <<>>
    BY <1>5, <2>1
  <2>3. UpdatesIn(toClient', s) = UpdatesIn(toClient, s)
    BY <1>1, <2>2, PathTypes, ConcatEmptySeq
  <2>4. Unmentioned(s)' <=> Unmentioned(s) /\ s # r
    BY <1>5, <2>1
  <2>5. /\ Answering(s)' <=> Answering(s)
        /\ \A version : SnapshotSent(s, version) => SnapshotSent(s, version)'
    BY <1>5, <2>1
  <2> QED BY <2>1, <2>3, <2>4, <2>5
<1>7. TypeOK'
  BY <1>1, <1>2, <1>6 DEF TypeOK
<1>8. RevisionInv' /\ AskedOnce' /\ LostInv'
  <2>1. RevisionInv' /\ AskedOnce'
    BY <1>1, <1>2 DEF RevisionInv, AskedOnce
  <2>2. connected /\ connected'
    BY <1>1, <1>2, <1>3 DEF LostInv
  <2> QED BY <2>1, <2>2 DEF LostInv
<1>9. \A s \in Subs : ListenerAt(s)'
  BY <1>1, <1>2 DEF ListenerAt
<1>10. ASSUME NEW s \in Subs
       PROVE  ServedAt(s)'
  <2>1. SnapshotFirst(s) => SnapshotFirst(s)'
    BY <1>2, <1>6, FirstKept
  <2>2. (Asked(s)' <=> Asked(s)) /\ (Leaving(s)' <=> Leaving(s))
    BY <1>2, SameRequests
  <2>3. CASE s = r
    BY <1>1, <1>2, <1>3, <1>6, <2>1, <2>2, <2>3 DEF ServedAt
  <2>4. CASE s # r
    BY <1>1, <1>2, <1>6, <2>1, <2>2, <2>4 DEF ServedAt
  <2> QED BY <2>3, <2>4
<1>11. NoGap'
  <2> SUFFICES ASSUME NEW s \in Subs, (s \in subscribed /\ Wanted(s) /\ listener[s].phase # "closed")'
               PROVE  Lead(Base(s), UnderWay(s), current)'
    BY <1>7 DEF NoGap, TypeOK
  <2>1. /\ s \in subscribed /\ Wanted(s) /\ listener[s].phase # "closed" /\ s # r
        /\ listener'[s] = listener[s] /\ UNCHANGED <<facade, current>> /\ served'[s] = served[s]
    BY <1>2, <1>3 DEF Wanted
  <2> QED BY <1>6, <1>7, <1>9, <2>1, GapKept
<1> QED BY <1>1, <1>7, <1>8, <1>9, <1>10, <1>11 DEF SubscriptionInv

\* Taking up a request to unsubscribe keeps the invariant.
LEMMA TakeUnsubscribeKeeps ==
    ASSUME SubscriptionInv, TakeUnsubscribe
    PROVE  SubscriptionInv'
<1>1. /\ TypeOK /\ RevisionInv /\ LostInv /\ AskedOnce /\ NoGap
      /\ \A s \in Subs : ListenerAt(s) /\ ServedAt(s)
  BY DEF SubscriptionInv
<1>2. /\ toServer # <<>> /\ toServer \in Seq(Request) /\ toServer' = Tail(toServer)
      /\ Head(toServer).type = "unsubscribe"
      /\ UNCHANGED <<current, changes, encoders, served, toClient, connected, losses, listener, lastId>>
      /\ UNCHANGED <<open, opens, revision, facade>>
  BY <1>1 DEF TakeUnsubscribe, TypeOK, bindingVars
<1>3. toServer' \in Seq(Request) /\ Head(toServer) \in Request /\ AskedOnce'
  BY <1>1, <1>2, FirstTaken
<1>4. PICK r \in Subs : r = Head(toServer).id /\ Head(toServer) = [type |-> "unsubscribe", id |-> r]
  BY <1>2, <1>3 DEF Request
<1>5. subscribed' = subscribed \ {r} /\ closing' = closing \cup {r}
  BY <1>4 DEF TakeUnsubscribe
<1>6. ASSUME NEW s \in Subs
      PROVE  /\ Asked(s)' <=> Asked(s)
             /\ Leaving(s) <=> Leaving(s)' \/ s = r
  <2>1. /\ Asked(s) <=> Asked(s)' \/ Head(toServer) = [type |-> "subscribe", id |-> s]
        /\ Leaving(s) <=> Leaving(s)' \/ Head(toServer) = [type |-> "unsubscribe", id |-> s]
    BY <1>2, FirstTaken
  <2>2. /\ Head(toServer) # [type |-> "subscribe", id |-> s]
        /\ Head(toServer) = [type |-> "unsubscribe", id |-> s] <=> s = r
    BY <1>4
  <2> QED BY <2>1, <2>2
<1>7. listener[r].phase = "closed" /\ served[r].phase \in {"draining", "ready"}
  BY <1>1, <1>6 DEF ServedAt
<1>8. TypeOK'
  BY <1>1, <1>2, <1>3, <1>5 DEF TypeOK
<1>9. RevisionInv' /\ LostInv'
  <2>1. RevisionInv'
    BY <1>1, <1>2 DEF RevisionInv
  <2>2. connected /\ connected'
    BY <1>1, <1>2 DEF LostInv
  <2> QED BY <2>1, <2>2 DEF LostInv
<1>10. \A s \in Subs : ListenerAt(s)'
  BY <1>1, <1>2 DEF ListenerAt
<1>11. ASSUME NEW s \in Subs
       PROVE  ServedAt(s)'
  <2>1. /\ Unmentioned(s)' <=> Unmentioned(s)
        /\ Answering(s)' <=> Answering(s)
        /\ SnapshotFirst(s)' <=> SnapshotFirst(s)
    BY <1>2, SameMessages
  <2>2. CASE s = r
    BY <1>1, <1>2, <1>5, <1>6, <1>7, <2>1, <2>2 DEF ServedAt
  <2>3. CASE s # r
    BY <1>1, <1>2, <1>5, <1>6, <2>1, <2>3 DEF ServedAt
  <2> QED BY <2>2, <2>3
<1>12. NoGap'
  <2> SUFFICES ASSUME NEW s \in Subs, (s \in subscribed /\ Wanted(s) /\ listener[s].phase # "closed")'
               PROVE  Lead(Base(s), UnderWay(s), current)'
    BY <1>8 DEF NoGap, TypeOK
  <2>1. /\ s \in subscribed /\ Wanted(s) /\ listener[s].phase # "closed"
        /\ listener'[s] = listener[s] /\ UNCHANGED <<facade, current>> /\ served'[s] = served[s]
    BY <1>2, <1>5 DEF Wanted
  <2>2. /\ Unmentioned(s)' <=> Unmentioned(s)
        /\ \A version : SnapshotSent(s, version) => SnapshotSent(s, version)'
        /\ UpdatesIn(toClient', s) = UpdatesIn(toClient, s)
    BY <1>2, SameMessages
  <2> QED BY <1>8, <1>10, <2>1, <2>2, GapKept
<1> QED BY <1>1, <1>3, <1>8, <1>9, <1>10, <1>11, <1>12 DEF SubscriptionInv

\* Taking up a request to subscribe keeps the invariant.
LEMMA TakeSubscribeKeeps ==
    ASSUME SubscriptionInv, TakeSubscribe
    PROVE  SubscriptionInv'
<1>1. /\ TypeOK /\ RevisionInv /\ LostInv /\ AskedOnce /\ NoGap
      /\ \A s \in Subs : ListenerAt(s) /\ ServedAt(s)
  BY DEF SubscriptionInv
<1>2. /\ toServer # <<>> /\ toServer \in Seq(Request) /\ toServer' = Tail(toServer)
      /\ Head(toServer).type = "subscribe" /\ served \in [Subs -> Handler] /\ current \in Version
      /\ UNCHANGED <<current, changes, encoders, closing, toClient, connected, losses, listener, lastId>>
      /\ UNCHANGED <<open, opens, revision, facade>>
  BY <1>1 DEF TakeSubscribe, TypeOK, bindingVars
<1>3. toServer' \in Seq(Request) /\ Head(toServer) \in Request /\ AskedOnce'
  BY <1>1, <1>2, FirstTaken
<1>4. PICK r \in Subs : r = Head(toServer).id /\ Head(toServer) = [type |-> "subscribe", id |-> r]
  BY <1>2, <1>3 DEF Request
<1>5. /\ subscribed' = subscribed \cup {r}
      /\ served' = [served EXCEPT ![r] = [phase |-> "invoked", snapshot |-> current, pending |-> <<>>]]
  BY <1>4 DEF TakeSubscribe
<1>6. ASSUME NEW s \in Subs
      PROVE  /\ Asked(s) <=> Asked(s)' \/ s = r
             /\ Leaving(s)' <=> Leaving(s)
             /\ s = r => ~ Asked(s)'
  <2>1. /\ Asked(s) <=> Asked(s)' \/ Head(toServer) = [type |-> "subscribe", id |-> s]
        /\ Leaving(s) <=> Leaving(s)' \/ Head(toServer) = [type |-> "unsubscribe", id |-> s]
        /\ AskedOnce /\ Head(toServer) = [type |-> "subscribe", id |-> s] => ~ Asked(s)'
    BY <1>2, FirstTaken
  <2>2. /\ Head(toServer) # [type |-> "unsubscribe", id |-> s]
        /\ Head(toServer) = [type |-> "subscribe", id |-> s] <=> s = r
    BY <1>4
  <2> QED BY <1>1, <2>1, <2>2
<1>7. listener[r].phase = "requested" /\ served[r].phase = "none" /\ Unmentioned(r) /\ r \notin encoders \cup closing
  BY <1>1, <1>6 DEF ServedAt
<1>8. /\ served'[r].phase = "invoked" /\ served'[r].snapshot = current /\ served'[r].pending = <<>>
      /\ \A s \in Subs : s # r => served'[s] = served[s]
  BY <1>2, <1>5
<1>9. TypeOK'
  <2>1. served' \in [Subs -> Handler]
    BY <1>2, <1>5 DEF Handler
  <2> QED BY <1>1, <1>2, <1>3, <1>5, <2>1 DEF TypeOK
<1>10. RevisionInv' /\ LostInv'
  <2>1. RevisionInv'
    BY <1>1, <1>2 DEF RevisionInv
  <2>2. connected /\ connected'
    BY <1>1, <1>2 DEF LostInv
  <2> QED BY <2>1, <2>2 DEF LostInv
<1>11. \A s \in Subs : ListenerAt(s)'
  BY <1>1, <1>2 DEF ListenerAt
<1>12. ASSUME NEW s \in Subs
       PROVE  /\ Unmentioned(s)' <=> Unmentioned(s)
              /\ Answering(s)' <=> Answering(s)
              /\ SnapshotFirst(s)' <=> SnapshotFirst(s)
              /\ \A version : SnapshotSent(s, version) => SnapshotSent(s, version)'
              /\ UpdatesIn(toClient', s) = UpdatesIn(toClient, s)
  BY <1>2, SameMessages
<1>13. ASSUME NEW s \in Subs
       PROVE  ServedAt(s)'
  <2>1. CASE s = r
    BY <1>1, <1>2, <1>5, <1>6, <1>7, <1>8, <1>12, <2>1 DEF ServedAt
  <2>2. CASE s # r
    BY <1>1, <1>2, <1>5, <1>6, <1>8, <1>12, <2>2 DEF ServedAt
  <2> QED BY <2>1, <2>2
<1>14. NoGap'
  <2> SUFFICES ASSUME NEW s \in Subs, (s \in subscribed /\ Wanted(s) /\ listener[s].phase # "closed")'
               PROVE  Lead(Base(s), UnderWay(s), current)'
    BY <1>9 DEF NoGap, TypeOK
  <2>1. CASE s = r
    <3>1. Base(s)' = current
      <4>1. BaseRight' /\ Unmentioned(s)' /\ listener'[s].phase = "requested" /\ served'[s].snapshot = current
        BY <1>2, <1>7, <1>8, <1>9, <1>12, <2>1, BaseIsAfter DEF TypeOK
      <4> QED BY <4>1 DEF BaseRight
    <3>2. UnderWay(s)' = <<>>
      <4>1. UnderWay(s)' = Kept(listener[s])' \o (UpdatesIn(toClient', s) \o served'[s].pending)
        BY <1>2, <1>7, <1>9, <1>11, <2>1, PathsAreAfter DEF PathRight
      <4>2. UpdatesIn(toClient', s) = <<>>
        BY <1>1, <1>7, <1>12, <2>1, UnmentionedNone DEF TypeOK
      <4>3. Kept(listener[s])' = <<>>
        BY <1>2, <1>7, <1>11, <2>1 DEF Kept, ListenerAt
      <4>4. <<>> \o (<<>> \o <<>>) = <<>>
        OBVIOUS
      <4> QED BY <1>8, <2>1, <4>1, <4>2, <4>3, <4>4
    <3>3. PICK c : c = current
      OBVIOUS
    <3>4. Lead(c, <<>>, c)
      BY DEF Lead
    <3> QED BY <1>2, <3>1, <3>2, <3>3, <3>4
  <2>2. CASE s # r
    <3>1. /\ s \in subscribed /\ Wanted(s) /\ listener[s].phase # "closed"
          /\ listener'[s] = listener[s] /\ UNCHANGED <<facade, current>> /\ served'[s] = served[s]
      BY <1>2, <1>5, <1>8, <2>2 DEF Wanted
    <3> QED BY <1>9, <1>11, <1>12, <3>1, GapKept
  <2> QED BY <2>1, <2>2
<1> QED BY <1>1, <1>3, <1>9, <1>10, <1>11, <1>13, <1>14 DEF SubscriptionInv

-----------------------------------------------------------------------------
(* The provider.                                                           *)

SentTo(T, u) == SetToSeq({UpdateTo(t, u) : t \in T})

\* What a queue holds for a subscription that an update is sent to or not.
OnceIn(other, T, u, s) ==
    /\ other \in Seq(Message)
    /\ UpdatesIn(other, s) = IF s \in T THEN <<u>> ELSE <<>>
    /\ (\A i \in DOMAIN other : other[i].id # s) <=> s \notin T
    /\ Places(other, "snapshot", s) = {}

\* An update is sent once to each subscription that is ready and has an encoder.
LEMMA SentToEach ==
    ASSUME NEW T \in SUBSET Subs, NEW u \in Update, NEW other, other = SentTo(T, u), NEW s \in Subs
    PROVE  OnceIn(other, T, u, s)
<1>1. IsFiniteSet(T)
  <2>1. MaxSubscriptions \in Nat /\ 1 \in Int /\ MaxSubscriptions \in Int
    BY BoundsAssumption
  <2>2. IsFiniteSet(Subs)
    BY <2>1, FS_Interval DEF Subs
  <2> QED BY <2>2, FS_Subset
<1>2. PICK f : f = [t \in T |-> UpdateTo(t, u)]
  OBVIOUS
<1>3. \A t \in T : /\ f[t] \in Message /\ f[t].type = "update" /\ f[t].id = t
                   /\ f[t].kind = u.kind /\ f[t].version = u.version
  <2> TAKE t \in T
  <2>1. f[t] = [type |-> "update", id |-> t, kind |-> u.kind, version |-> u.version]
    BY <1>2 DEF UpdateTo
  <2>2. t \in Subs /\ u.kind \in {"state", "replaced"} /\ u.version \in Version
    BY DEF Update
  <2>3. f[t] \in Message
    BY <2>1, <2>2 DEF Message
  <2> QED BY <2>1, <2>3
<1>4. f \in [T -> Message] /\ \A t, r \in T : f[t] = f[r] => t = r
  <2>1. \A t, r \in T : f[t] = f[r] => t = r
    BY <1>3
  <2> QED BY <1>2, <1>3, <2>1
<1>5. PICK S : S = ImageOf(f, T)
  OBVIOUS
<1>6. {UpdateTo(t, u) : t \in T} = S
  BY <1>2, <1>5 DEF ImageOf
<1>7. /\ other \in Seq(Message)
      /\ \A i \in DOMAIN other : \E t \in T : other[i] = f[t]
      /\ \A t \in T : \E i \in DOMAIN other : \A j \in DOMAIN other : other[j] = f[t] <=> j = i
  <2>1. other = SetToSeq(S)
    BY <1>6 DEF SentTo
  <2> QED BY <1>1, <1>4, <1>5, <2>1, ImageSequence
<1>8. \A i \in DOMAIN other : other[i].type = "update" /\ other[i].id \in T /\ other[i] = f[other[i].id]
  BY <1>3, <1>7
<1>9. Places(other, "snapshot", s) = {}
  BY <1>8 DEF Places
<1>10. CASE s \in T
  <2>1. PICK k \in DOMAIN other : \A j \in DOMAIN other : other[j] = f[s] <=> j = k
    BY <1>7, <1>10
  <2>2. Places(other, "update", s) = {k}
    <3>1. \A i \in DOMAIN other : other[i].id = s => i = k
      BY <1>8, <2>1
    <3>2. other[k].id = s /\ other[k].type = "update"
      BY <1>3, <1>10, <2>1
    <3> QED BY <3>1, <3>2 DEF Places
  <2>3. UpdatesIn(other, s) = <<UpdateAt(other, k)>>
    BY <1>7, <2>2, UpdatesOne
  <2>4. UpdateAt(other, k) = u
    <3>1. other[k].kind = u.kind /\ other[k].version = u.version
      BY <1>3, <1>10, <2>1
    <3> QED BY <3>1 DEF UpdateAt, Update
  <2>5. other[k].id = s
    BY <1>3, <1>10, <2>1
  <2> QED BY <1>7, <1>9, <1>10, <2>3, <2>4, <2>5 DEF OnceIn
<1>11. CASE s \notin T
  <2>1. \A i \in DOMAIN other : other[i].id # s
    BY <1>8, <1>11
  <2>2. Places(other, "update", s) = {}
    BY <2>1 DEF Places
  <2>3. UpdatesIn(other, s) = <<>>
    BY <1>7, <2>2, UpdatesNone
  <2> QED BY <1>7, <1>9, <1>11, <2>1, <2>3 DEF OnceIn
<1> QED BY <1>10, <1>11

\* A change or a replacement keeps the invariant.
LEMMA EmitKeeps ==
    ASSUME SubscriptionInv, NEW u \in Update, Emit(u.kind, u.version),
           u.kind = "state" => u.version = [current EXCEPT !.sequence = @ + 1]
    PROVE  SubscriptionInv'
<1>1. /\ TypeOK /\ RevisionInv /\ LostInv /\ AskedOnce /\ NoGap
      /\ \A s \in Subs : ListenerAt(s) /\ ServedAt(s)
  BY DEF SubscriptionInv
<1>2. [kind |-> u.kind, version |-> u.version] = u /\ u.version \in Version
  BY DEF Update
<1>3. /\ changes' = changes + 1 /\ current' = u.version /\ Publish(u)
      /\ served \in [Subs -> Handler] /\ toClient \in Seq(Message)
      /\ UNCHANGED <<subscribed, encoders, closing, toServer, connected, losses, listener, lastId>>
      /\ UNCHANGED <<open, opens, revision, facade>>
  BY <1>1, <1>2 DEF Emit, TypeOK, bindingVars
<1>4. PICK T \in SUBSET Subs : T = {t \in subscribed \cap encoders : ~ Queues(t)}
  BY <1>1 DEF TypeOK
<1>5. PICK other : other = SentTo(T, u)
  OBVIOUS
<1>6. toClient' = toClient \o other
  BY <1>3, <1>4, <1>5 DEF Publish, SentTo
<1>7. ASSUME NEW s \in Subs
      PROVE  /\ toClient' \in Seq(Message)
             /\ UpdatesIn(toClient', s) = UpdatesIn(toClient, s) \o (IF s \in T THEN <<u>> ELSE <<>>)
             /\ Unmentioned(s)' <=> Unmentioned(s) /\ s \notin T
             /\ Answering(s)' <=> Answering(s)
             /\ \A version : SnapshotSent(s, version) => SnapshotSent(s, version)'
  <2>1. /\ other \in Seq(Message)
        /\ UpdatesIn(other, s) = IF s \in T THEN <<u>> ELSE <<>>
        /\ (\A i \in DOMAIN other : other[i].id # s) <=> s \notin T
        /\ Places(other, "snapshot", s) = {}
    <3>1. OnceIn(other, T, u, s)
      BY <1>5, SentToEach
    <3> QED BY <3>1 DEF OnceIn
  <2>2. /\ toClient' \in Seq(Message)
        /\ UpdatesIn(toClient', s) = UpdatesIn(toClient, s) \o UpdatesIn(other, s)
        /\ Unmentioned(s)' <=> Unmentioned(s) /\ \A i \in DOMAIN other : other[i].id # s
        /\ Answering(s)' <=> Answering(s) \/ Places(other, "snapshot", s) # {}
        /\ \A version : SnapshotSent(s, version) /\ Places(other, "snapshot", s) = {} => SnapshotSent(s, version)'
    BY <1>3, <1>6, <2>1, SentBehind
  <2> QED BY <2>1, <2>2
<1>8. ASSUME NEW s \in Subs
      PROVE  /\ served'[s] \in Handler
             /\ served'[s].phase = served[s].phase /\ served'[s].snapshot = served[s].snapshot
             /\ s \in subscribed /\ Queues(s) => served'[s].pending = Append(served[s].pending, u)
             /\ ~ (s \in subscribed /\ Queues(s)) => served'[s].pending = served[s].pending
  <2>1. served[s] \in Handler
    BY <1>3
  <2>2. CASE s \in subscribed /\ Queues(s)
    <3>1. served'[s] = [served[s] EXCEPT !.pending = Append(@, u)]
      BY <1>3, <2>2 DEF Publish
    <3>2. Append(served[s].pending, u) \in Seq(Update)
      BY <2>1 DEF Handler
    <3> QED BY <2>1, <2>2, <3>1, <3>2 DEF Handler
  <2>3. CASE ~ (s \in subscribed /\ Queues(s))
    <3>1. served'[s] = served[s]
      BY <1>3, <2>3 DEF Publish
    <3> QED BY <2>1, <2>3, <3>1
  <2> QED BY <2>2, <2>3
<1>9. TypeOK'
  <2>1. served' \in [Subs -> Handler]
    <3>1. served' = [s \in Subs |-> served'[s]]
      BY <1>3 DEF Publish
    <3> QED BY <1>8, <3>1
  <2>2. toClient' \in Seq(Message)
    <3>1. CASE Subs = {}
      <4>1. T = {} /\ IsFiniteSet({}) /\ {UpdateTo(t, u) : t \in T} = {}
        BY <3>1, FS_EmptySet
      <4>2. other \in Seq({})
        BY <1>5, <4>1, SetToSeqElements DEF SentTo
      <4>3. other \in Seq(Message)
        BY <4>2, SeqMonotonic
      <4> QED BY <1>3, <1>6, <4>3, ConcatProperties
    <3>2. CASE Subs # {}
      BY <1>7, <3>2
    <3> QED BY <3>1, <3>2
  <2> QED BY <1>1, <1>2, <1>3, <2>1, <2>2 DEF TypeOK
<1>10. RevisionInv' /\ AskedOnce'
  BY <1>1, <1>3 DEF RevisionInv, AskedOnce
<1>11. LostInv'
  <2> SUFFICES ASSUME ~ connected
               PROVE  toServer = <<>> /\ toClient' = <<>>
                      /\ \A s \in Subs : listener[s].phase \in {"none", "closed"} /\ served'[s].phase = "none"
    BY <1>3 DEF LostInv
  <2>1. toServer = <<>> /\ toClient = <<>> /\ \A s \in Subs : listener[s].phase \in {"none", "closed"} /\ served[s].phase = "none"
    BY <1>1 DEF LostInv
  <2>2. T = {}
    <3>1. \A s \in Subs : s \notin subscribed
      BY <1>1, <2>1 DEF ServedAt
    <3> QED BY <1>4, <3>1
  <2>3. toClient' = <<>>
    <3>1. IsFiniteSet({}) /\ {UpdateTo(t, u) : t \in T} = {}
      BY <2>2, FS_EmptySet
    <3>2. other \in Seq({})
      BY <1>5, <3>1, SetToSeqElements DEF SentTo
    <3>3. other = <<>>
      BY <3>2
    <3> QED BY <1>6, <2>1, <3>3
  <2> QED BY <1>8, <2>1, <2>3
<1>12. \A s \in Subs : ListenerAt(s)'
  BY <1>1, <1>3 DEF ListenerAt
<1>13. ASSUME NEW s \in Subs
       PROVE  ServedAt(s)'
  <2>1. SnapshotFirst(s) => SnapshotFirst(s)'
    BY <1>3, <1>7, FirstKept
  <2>2. (Asked(s)' <=> Asked(s)) /\ (Leaving(s)' <=> Leaving(s))
    BY <1>3, SameRequests
  <2>3. s \in T => served[s].phase \in {"draining", "ready"}
    BY <1>1, <1>4 DEF ServedAt, Handler, TypeOK
  <2>4. served[s].phase = "ready" => ~ Queues(s)
    BY DEF Queues
  <2> QED BY <1>1, <1>3, <1>7, <1>8, <2>1, <2>2, <2>3, <2>4 DEF ServedAt
<1>14. NoGap'
  <2> SUFFICES ASSUME NEW s \in Subs, (s \in subscribed /\ Wanted(s) /\ listener[s].phase # "closed")'
               PROVE  Lead(Base(s), UnderWay(s), current)'
    BY <1>9 DEF NoGap, TypeOK
  <2>1. /\ s \in subscribed /\ Wanted(s) /\ listener[s].phase # "closed" /\ ServedAt(s) /\ ListenerAt(s)
        /\ listener'[s] = listener[s] /\ UNCHANGED facade
    BY <1>1, <1>3 DEF Wanted
  <2>2. Lead(Base(s), UnderWay(s), current)
    BY <1>1, <2>1 DEF NoGap
  <2>3. PICK k \in Seq(Update), n \in Seq(Update), p \in Seq(Update) :
          /\ k = Kept(listener[s]) /\ n = UpdatesIn(toClient, s) /\ p = served[s].pending
          /\ UnderWay(s) = k \o (n \o p)
    <3>1. /\ UnderWay(s) = Kept(listener[s]) \o (UpdatesIn(toClient, s) \o served[s].pending)
          /\ Kept(listener[s]) \in Seq(Update)
      BY <1>1, <2>1, PathsAre DEF PathRight
    <3>2. UpdatesIn(toClient, s) \in Seq(Update) /\ served[s].pending \in Seq(Update)
      BY <1>1, PathTypes
    <3> QED BY <3>1, <3>2
  <2>4. UnderWay(s)' = k \o (UpdatesIn(toClient', s) \o served'[s].pending)
    <3>1. UnderWay(s)' = Kept(listener[s])' \o (UpdatesIn(toClient', s) \o served'[s].pending)
      BY <1>9, <1>12, <2>1, PathsAreAfter DEF PathRight
    <3> QED BY <2>1, <2>3, <3>1 DEF Kept
  <2>5. UpdatesIn(toClient', s) \o served'[s].pending = n \o Append(p, u)
    <3>1. CASE Queues(s)
      <4>1. n \o <<>> = n /\ s \notin T
        BY <1>4, <3>1, ConcatEmptySeq
      <4> QED BY <1>7, <1>8, <2>1, <2>3, <3>1, <4>1
    <3>2. CASE ~ Queues(s)
      <4>1. served[s].phase = "ready" /\ s \in T /\ p = <<>>
        <5>1. served[s].phase = "ready"
          BY <1>3, <2>1, <3>2 DEF ServedAt, Queues, Handler
        <5> QED BY <1>4, <2>1, <2>3, <3>2, <5>1 DEF ServedAt
      <4>2. Append(p, u) = <<u>> /\ <<u>> \in Seq(Update)
        BY <4>1
      <4>3. (n \o <<u>>) \o <<>> = n \o <<u>>
        BY <4>2, ConcatProperties, ConcatEmptySeq
      <4> QED BY <1>7, <1>8, <2>1, <2>3, <3>2, <4>1, <4>2, <4>3
    <3> QED BY <3>1, <3>2
  <2>6. k \o (n \o Append(p, u)) = Append(k \o (n \o p), u) /\ k \o (n \o p) \in Seq(Update)
    <3>1. n \o p \in Seq(Update) /\ k \o (n \o p) \in Seq(Update)
      BY ConcatProperties
    <3>2. AppendsBehind(Update)
      BY AppendConcat
    <3>3. Append(n \o p, u) = n \o Append(p, u) /\ Append(k \o (n \o p), u) = k \o Append(n \o p, u)
      BY <3>1, <3>2 DEF AppendsBehind
    <3> QED BY <3>1, <3>3
  <2>7. Base(s)' = Base(s)
    <3>1. listener[s].phase = "requested" /\ Unmentioned(s) => Unmentioned(s)'
      <4>1. listener[s].phase = "requested" /\ Unmentioned(s) => served[s].phase = "invoked"
        BY <1>3, <2>1, UnmentionedNone DEF ServedAt, Handler
      <4>2. served[s].phase = "invoked" => s \notin T
        BY <1>4 DEF Queues
      <4> QED BY <1>7, <4>1, <4>2
    <3> QED BY <1>1, <1>7, <1>8, <1>9, <2>1, <3>1, BaseKept, HeldPhases
  <2>8. PICK b, c : b = Base(s) /\ c = current
    OBVIOUS
  <2>9. Lead(b, Append(k \o (n \o p), u), u.version)
    BY <2>2, <2>3, <2>6, <2>8, LeadAppend
  <2> QED BY <1>3, <2>4, <2>5, <2>6, <2>7, <2>8, <2>9
<1> QED BY <1>1, <1>9, <1>10, <1>11, <1>12, <1>13, <1>14 DEF SubscriptionInv

-----------------------------------------------------------------------------
(* The client.                                                             *)

\* Receiving a message keeps the invariant.
LEMMA ReceiveKeeps ==
    ASSUME SubscriptionInv, Receive
    PROVE  SubscriptionInv'
<1>1. /\ TypeOK /\ RevisionInv /\ LostInv /\ AskedOnce /\ NoGap
      /\ \A s \in Subs : ListenerAt(s) /\ ServedAt(s)
  BY DEF SubscriptionInv
<1>2. /\ toClient # <<>> /\ toClient' = Tail(toClient) /\ toClient \in Seq(Message) /\ listener \in [Subs -> Listener]
      /\ UNCHANGED <<current, changes, subscribed, encoders, served, closing, toServer, connected, losses, lastId>>
      /\ UNCHANGED <<open, opens, revision, facade>>
  BY <1>1 DEF Receive, TypeOK, providerVars, serverVars, bindingVars
<1>3. ASSUME NEW s \in Subs
      PROVE  /\ toClient' \in Seq(Message) /\ Head(toClient) \in Message
             /\ UpdatesIn(toClient', s) \in Seq(Update)
             /\ UpdatesIn(toClient, s)
                  = (IF Head(toClient).type = "update" /\ Head(toClient).id = s
                     THEN <<[kind |-> Head(toClient).kind, version |-> Head(toClient).version]>> ELSE <<>>)
                      \o UpdatesIn(toClient', s)
             /\ Unmentioned(s) => Unmentioned(s)' /\ Head(toClient).id # s
             /\ Answering(s)' => Answering(s)
             /\ Head(toClient).id = s /\ Head(toClient).type = "snapshot" => Answering(s)
             /\ \A version : SnapshotSent(s, version) =>
                  IF Head(toClient).id = s
                  THEN Head(toClient).type = "snapshot" /\ Head(toClient).version = version /\ ~ Answering(s)'
                  ELSE SnapshotSent(s, version)'
  BY <1>2, FirstReceived
<1>4. PICK m \in Message : m = Head(toClient)
  BY <1>2, HeadTailProperties
<1>5. PICK r \in Subs : r = m.id
  BY DEF Message
<1>6. listener' = [listener EXCEPT ![r] =
        CASE m.type = "update" -> Heard(r, [kind |-> m.kind, version |-> m.version])
          [] m.type = "snapshot" -> Hydrated(r, m.version)
          [] OTHER -> @]
  BY <1>4, <1>5 DEF Receive
<1>7. \A s \in Subs : s # r => listener'[s] = listener[s]
  BY <1>2, <1>6
<1>8. /\ served[r].phase \in {"draining", "ready"}
      /\ listener[r].phase \in {"requested", "answered", "started", "closed"}
      /\ ~ Unmentioned(r)
  <2>1. ~ Unmentioned(r)
    BY <1>3, <1>4, <1>5
  <2>2. served[r] \in Handler /\ listener[r] \in Listener
    BY <1>1 DEF TypeOK
  <2> QED BY <1>1, <2>1, <2>2 DEF ServedAt, Handler, Listener
<1>9. listener[r].phase = "requested" =>
        /\ m.type = "snapshot" /\ r \in subscribed
        /\ SnapshotSent(r, m.version) /\ m.version \in Version /\ ~ Answering(r)'
  <2> HAVE listener[r].phase = "requested"
  <2>1. SnapshotFirst(r) /\ r \in subscribed
    BY <1>1, <1>8 DEF ServedAt
  <2>2. PICK v \in Version : SnapshotSent(r, v)
    BY <1>2, <2>1, FirstIsSent DEF FirstRight
  <2>3. m.type = "snapshot" /\ m.version = v /\ ~ Answering(r)'
    BY <1>3, <1>4, <1>5, <2>2
  <2> QED BY <2>1, <2>2, <2>3
<1>10. m.type = "snapshot" => listener[r].phase = "requested"
  BY <1>1, <1>3, <1>4, <1>5 DEF ServedAt
<1>11. m.type = "update" => [kind |-> m.kind, version |-> m.version] \in Update
  BY MessageUpdate
<1>12. \/ /\ m.type = "snapshot"
          /\ listener'[r] = [listener[r] EXCEPT !.phase = "answered", !.snapshot = m.version,
                                                !.queued = listener[r].wire, !.wire = <<>>]
       \/ /\ m.type = "update" /\ listener[r].phase = "answered"
          /\ listener'[r] = [listener[r] EXCEPT !.queued = Append(@, [kind |-> m.kind, version |-> m.version])]
       \/ /\ m.type = "update" /\ listener[r].phase = "started"
          /\ listener'[r] = [listener[r] EXCEPT !.tail = Append(@, [kind |-> m.kind, version |-> m.version])]
       \/ /\ m.type = "closed" \/ (m.type = "update" /\ listener[r].phase = "closed")
          /\ listener[r].phase # "requested" /\ listener'[r] = listener[r]
  <2>1. CASE m.type = "snapshot"
    BY <1>2, <1>6, <1>10, <2>1 DEF Hydrated
  <2>2. CASE m.type = "update"
    BY <1>2, <1>6, <1>8, <1>9, <2>2 DEF Heard
  <2>3. CASE m.type \notin {"snapshot", "update"}
    <3>1. m.type = "closed"
      BY <2>3 DEF Message
    <3> QED BY <1>2, <1>6, <1>9, <2>3, <3>1
  <2> QED BY <2>1, <2>2, <2>3
<1>13. listener'[r].phase # "none" /\ (m.type = "snapshot" => listener'[r].phase = "answered")
  <2>1. listener[r] \in Listener
    BY <1>2
  <2>2. CASE m.type = "snapshot"
    BY <1>12, <2>1, <2>2 DEF Listener
  <2>3. CASE m.type # "snapshot"
    <3>1. listener'[r].phase = listener[r].phase
      BY <1>12, <2>1, <2>3 DEF Listener
    <3> QED BY <1>8, <2>3, <3>1
  <2> QED BY <2>2, <2>3
<1>14. /\ listener'[r] \in Listener /\ listener'[r].revision = listener[r].revision /\ ListenerAt(r)'
       /\ listener'[r].wire = <<>>
  <2>1. listener[r] \in Listener /\ ListenerAt(r)
    BY <1>1, <1>2
  <2>2. CASE m.type = "snapshot"
    <3>1. listener[r].phase = "requested" /\ m.version \in Version
      BY <1>9, <1>10, <2>2
    <3>2. /\ listener'[r].phase = "answered" /\ listener'[r].snapshot = m.version /\ listener'[r] \in Listener
          /\ listener'[r].revision = listener[r].revision /\ listener'[r].tail = listener[r].tail
          /\ listener'[r].wire = <<>> /\ listener'[r].queued = <<>>
      BY <1>12, <2>1, <2>2, <3>1 DEF Listener, ListenerAt
    <3>3. listener'[r] # NoListener /\ listener[r] # NoListener
      BY <3>1, <3>2 DEF NoListener
    <3> QED BY <1>2, <2>1, <3>1, <3>2, <3>3 DEF ListenerAt
  <2>3. CASE m.type = "update" /\ listener[r].phase = "answered"
    <3>1. Append(listener[r].queued, [kind |-> m.kind, version |-> m.version]) \in Seq(Update)
      BY <1>11, <2>1, <2>3 DEF Listener
    <3>2. /\ listener'[r].phase = "answered" /\ listener'[r].snapshot = listener[r].snapshot /\ listener'[r] \in Listener
          /\ listener'[r].revision = listener[r].revision /\ listener'[r].tail = listener[r].tail
          /\ listener'[r].wire = listener[r].wire
      BY <1>12, <2>1, <2>3, <3>1 DEF Listener
    <3>3. listener'[r] # NoListener /\ listener[r] # NoListener
      BY <2>3, <3>2 DEF NoListener
    <3> QED BY <1>2, <2>1, <2>3, <3>2, <3>3 DEF ListenerAt
  <2>4. CASE m.type = "update" /\ listener[r].phase = "started"
    <3>1. Append(listener[r].tail, [kind |-> m.kind, version |-> m.version]) \in Seq(Update)
      BY <1>11, <2>1, <2>4 DEF Listener
    <3>2. /\ listener'[r].phase = "started" /\ listener'[r].snapshot = listener[r].snapshot /\ listener'[r] \in Listener
          /\ listener'[r].revision = listener[r].revision /\ listener'[r].queued = listener[r].queued
          /\ listener'[r].wire = listener[r].wire
      BY <1>12, <2>1, <2>4, <3>1 DEF Listener
    <3>3. listener'[r] # NoListener /\ listener[r] # NoListener
      BY <2>4, <3>2 DEF NoListener
    <3> QED BY <1>2, <2>1, <2>4, <3>2, <3>3 DEF ListenerAt
  <2>5. CASE listener'[r] = listener[r]
    BY <1>2, <2>1, <2>5 DEF ListenerAt
  <2> QED BY <1>12, <2>2, <2>3, <2>4, <2>5
<1>15. TypeOK'
  <2>1. \A s \in Subs : listener'[s] \in Listener
    BY <1>2, <1>7, <1>14
  <2>2. listener' \in [Subs -> Listener]
    <3>1. listener' = [s \in Subs |-> listener'[s]]
      BY <1>2, <1>6
    <3> QED BY <2>1, <3>1
  <2> QED BY <1>1, <1>2, <1>3, <1>5, <2>2 DEF TypeOK
<1>16. \A s \in Subs : ListenerAt(s)'
  <2> SUFFICES ASSUME NEW s \in Subs, s # r
               PROVE  ListenerAt(s)'
    BY <1>14
  <2> QED BY <1>1, <1>2, <1>7 DEF ListenerAt
<1>17. RevisionInv' /\ LostInv' /\ AskedOnce'
  <2>1. \A s \in Subs : listener'[s].revision = listener[s].revision
    BY <1>7, <1>14
  <2>2. \A s \in Subs : listener[s].phase # "none" => listener'[s].phase # "none"
    BY <1>7, <1>13
  <2>3. RevisionInv'
    BY <1>1, <1>2, <2>1, <2>2 DEF RevisionInv
  <2>4. connected /\ connected'
    BY <1>1, <1>2 DEF LostInv
  <2>5. AskedOnce'
    BY <1>1, <1>2 DEF AskedOnce
  <2> QED BY <2>3, <2>4, <2>5 DEF LostInv
<1>18. ASSUME NEW s \in Subs
       PROVE  ServedAt(s)'
  <2>1. (Asked(s)' <=> Asked(s)) /\ (Leaving(s)' <=> Leaving(s))
    BY <1>2, SameRequests
  <2>2. CASE s # r
    <3>1. \A version : SnapshotSent(s, version) => SnapshotSent(s, version)'
      BY <1>3, <1>4, <1>5, <2>2
    <3>2. SnapshotFirst(s) => SnapshotFirst(s)'
      BY <1>2, <1>3, <3>1, FirstKept
    <3> QED BY <1>1, <1>2, <1>3, <1>7, <2>1, <2>2, <3>2 DEF ServedAt
  <2>3. CASE s = r
    <3>1. ServedAt(r) /\ (Answering(r)' => Answering(r)) /\ served'[r] = served[r]
      BY <1>1, <1>2, <1>3
    <3>2. CASE m.type = "snapshot"
      <4>1. listener'[r].phase = "answered" /\ listener[r].phase = "requested" /\ r \in subscribed /\ ~ Answering(r)'
        BY <1>2, <1>9, <1>10, <1>12, <3>2 DEF Listener
      <4> QED BY <1>2, <1>8, <2>1, <2>3, <3>1, <4>1 DEF ServedAt
    <3>3. CASE m.type # "snapshot"
      <4>1. listener'[r].phase = listener[r].phase /\ listener[r].phase # "requested"
        BY <1>2, <1>9, <1>12, <3>3 DEF Listener
      <4> QED BY <1>2, <1>8, <2>1, <2>3, <3>1, <4>1 DEF ServedAt
    <3> QED BY <3>2, <3>3
  <2> QED BY <2>2, <2>3
<1>19. NoGap'
  <2> SUFFICES ASSUME NEW s \in Subs, (s \in subscribed /\ Wanted(s) /\ listener[s].phase # "closed")'
               PROVE  Lead(Base(s), UnderWay(s), current)'
    BY <1>15 DEF NoGap, TypeOK
  <2>1. UpdatesIn(toClient', s) \in Seq(Update) /\ <<>> \o UpdatesIn(toClient', s) = UpdatesIn(toClient', s)
    BY <1>3, ConcatEmptySeq
  <2>2. CASE listener'[s] = listener[s]
    <3>1. m.type = "update" => m.id # s
      <4> SUFFICES ASSUME m.type = "update", s = r
                   PROVE  FALSE
        BY <1>5
      <4>1. listener[r].phase = "closed"
        <5>1. \A q \in Seq(Update) : \A u \in Update : Append(q, u) # q
          <6> TAKE q \in Seq(Update)
          <6> TAKE u \in Update
          <6>1. Len(Append(q, u)) = Len(q) + 1 /\ Len(q) \in Nat
            BY AppendProperties
          <6> QED BY <6>1
        <5>2. listener[r].queued \in Seq(Update) /\ listener[r].tail \in Seq(Update)
          BY <1>2 DEF Listener
        <5> QED BY <1>2, <1>11, <1>12, <2>2, <5>1, <5>2 DEF Listener
      <4> QED BY <2>2, <4>1
    <3>2. UpdatesIn(toClient', s) = UpdatesIn(toClient, s)
      BY <1>3, <1>4, <2>1, <3>1
    <3>3. \A version : SnapshotSent(s, version) => SnapshotSent(s, version)'
      <4>1. s = r => m.type # "snapshot"
        BY <1>10, <1>13, <2>2
      <4> QED BY <1>3, <1>4, <1>5, <4>1
    <3>4. /\ s \in subscribed /\ Wanted(s) /\ listener[s].phase # "closed" /\ UNCHANGED <<facade, current>>
          /\ served' = served /\ (Unmentioned(s) => Unmentioned(s)')
      BY <1>2, <1>3, <2>2 DEF Wanted
    <3> QED BY <1>15, <1>16, <2>2, <3>2, <3>3, <3>4, GapKept
  <2>3. CASE listener'[s] # listener[s]
    <3>1. s = r
      BY <1>7, <2>3
    <3>2. s \in subscribed /\ Wanted(s) /\ listener[s].phase # "closed"
      BY <1>2, <1>12, <1>14, <2>3, <3>1, <1>10 DEF Wanted
    <3>3. Lead(Base(s), UnderWay(s), current)
      BY <1>1, <3>2 DEF NoGap
    <3>4. PICK k, n, p : /\ k = Kept(listener[s]) /\ n = UpdatesIn(toClient', s) /\ p = served[s].pending
                         /\ k \in Seq(Update) /\ n \in Seq(Update) /\ p \in Seq(Update)
      BY <1>1, <2>1, <3>2, PathsAre, PathTypes DEF PathRight
    <3>5. UnderWay(s) = k \o (UpdatesIn(toClient, s) \o p)
      BY <1>1, <3>2, <3>4, PathsAre DEF PathRight
    <3>6. UnderWay(s)' = Kept(listener[s])' \o (n \o p)
      BY <1>2, <1>15, <1>16, <3>4, PathsAreAfter DEF PathRight
    <3>7. CASE m.type = "snapshot"
      <4>1. listener[s].phase = "requested" /\ listener'[s].phase = "answered" /\ SnapshotSent(s, m.version)
        BY <1>2, <1>9, <1>10, <1>12, <3>1, <3>7 DEF Listener
      <4>2. Base(s) = m.version
        BY <1>2, <4>1, BaseIs DEF BaseRight
      <4>3. Base(s)' = m.version
        <5>1. listener'[s].snapshot = m.version
          BY <1>2, <1>12, <3>1, <3>7 DEF Listener
        <5> QED BY <1>15, <4>1, <5>1, BaseIsAfter DEF BaseRight, TypeOK
      <4>4. Kept(listener[s])' = k
        <5>1. k = <<>>
          BY <1>1, <3>4, <4>1 DEF Kept, ListenerAt
        <5>2. listener'[s].queued = <<>>
          BY <1>1, <1>2, <1>12, <3>1, <3>7 DEF ListenerAt, Listener
        <5> QED BY <4>1, <5>1, <5>2 DEF Kept
      <4>5. UpdatesIn(toClient, s) = n
        BY <1>3, <1>4, <2>1, <3>4, <3>7
      <4> QED BY <1>2, <3>3, <3>5, <3>6, <4>2, <4>3, <4>4, <4>5
    <3>8. CASE m.type # "snapshot"
      <4>1. /\ m.type = "update" /\ listener[s].phase \in {"answered", "started"}
            /\ listener'[s].phase = listener[s].phase /\ listener'[s].snapshot = listener[s].snapshot
        BY <1>2, <1>12, <2>3, <3>1, <3>8 DEF Listener
      <4>2. PICK u \in Update : u = [kind |-> m.kind, version |-> m.version]
        BY <1>11, <4>1
      <4>3. Base(s)' = Base(s)
        BY <1>2, <1>15, <4>1, BaseIs, BaseIsAfter DEF BaseRight, TypeOK
      <4>4. Kept(listener[s])' = Append(k, u)
        BY <1>2, <1>12, <3>1, <3>4, <4>1, <4>2 DEF Kept, Listener
      <4>5. UpdatesIn(toClient, s) = <<u>> \o n
        BY <1>3, <1>4, <1>5, <3>1, <3>4, <4>1, <4>2
      <4>6. Append(k, u) \o (n \o p) = k \o ((<<u>> \o n) \o p)
        <5>1. k \in Seq(Update) /\ n \in Seq(Update) /\ p \in Seq(Update)
          BY <3>4
        <5>2. AppendsBetween(Update)
          BY AppendBetween
        <5> QED BY <5>1, <5>2 DEF AppendsBetween
      <4> QED BY <1>2, <3>3, <3>5, <3>6, <4>3, <4>4, <4>5, <4>6
    <3> QED BY <3>7, <3>8
  <2> QED BY <2>2, <2>3
<1> QED BY <1>1, <1>15, <1>16, <1>17, <1>18, <1>19 DEF SubscriptionInv

\* How far a subscription is, when nothing it is told by changes.
LEMMA ServedKept ==
    ASSUME NEW s \in Subs, ServedAt(s), UNCHANGED <<subscribed, encoders, served, closing, toServer, toClient>>,
           listener'[s].phase = listener[s].phase
    PROVE  ServedAt(s)'
<1>1. /\ Asked(s)' <=> Asked(s)
      /\ Leaving(s)' <=> Leaving(s)
      /\ Unmentioned(s)' <=> Unmentioned(s)
      /\ Answering(s)' <=> Answering(s)
      /\ SnapshotFirst(s)' <=> SnapshotFirst(s)
  BY SameRequests, SameMessages
<1> QED BY <1>1 DEF ServedAt

\* There is one subscription of the present revision.
LEMMA OneWanted ==
    ASSUME TypeOK, RevisionInv, NEW s \in Subs, NEW r \in Subs, Wanted(s), Wanted(r), ListenerAt(s),
           listener[s].phase # "none"
    PROVE  s = r
<1>1. listener[s].revision = listener[r].revision /\ listener[s].revision # 0
  BY DEF Wanted, ListenerAt
<1> QED BY <1>1 DEF RevisionInv

\* Installing a subscription keeps the invariant.
LEMMA InstallKeeps ==
    ASSUME SubscriptionInv, NEW r \in Subs, Install(r)
    PROVE  SubscriptionInv'
<1>1. /\ TypeOK /\ RevisionInv /\ LostInv /\ AskedOnce /\ NoGap
      /\ \A s \in Subs : ListenerAt(s) /\ ServedAt(s)
  BY DEF SubscriptionInv
<1>2. /\ listener[r].phase = "answered" /\ Wanted(r) /\ facade' = listener[r].snapshot
      /\ listener \in [Subs -> Listener] /\ toClient \in Seq(Message)
      /\ UNCHANGED <<current, changes, subscribed, encoders, served, closing, toServer, toClient>>
      /\ UNCHANGED <<connected, losses, lastId, open, opens, revision>>
  BY <1>1 DEF Install, TypeOK, providerVars, serverVars, wireVars
<1>3. PICK l \in Listener : l = listener[r]
  BY <1>2
<1>4. /\ listener' = [listener EXCEPT ![r] = [l EXCEPT !.phase = "started", !.snapshot = Cold,
                                                       !.tail = l.queued, !.queued = <<>>]]
      /\ \A s \in Subs : s # r => listener'[s] = listener[s]
  BY <1>2, <1>3 DEF Install
<1>5. facade' \in Version /\ l.wire = <<>> /\ l.phase = "answered" /\ l.revision = revision /\ l.tail = <<>>
  BY <1>1, <1>2, <1>3 DEF ListenerAt, Wanted
<1>6. /\ listener'[r] \in Listener /\ listener'[r].phase = "started" /\ listener'[r].revision = l.revision
      /\ listener'[r].wire = <<>> /\ listener'[r].queued = <<>> /\ listener'[r].tail = l.queued
  <2>1. listener'[r] = [l EXCEPT !.phase = "started", !.snapshot = Cold, !.tail = l.queued, !.queued = <<>>]
    BY <1>2, <1>4
  <2>2. <<>> \in Seq(Update) /\ l.queued \in Seq(Update) /\ Cold \in Version \cup {Cold}
    BY DEF Listener
  <2> QED BY <1>5, <2>1, <2>2 DEF Listener
<1>7. TypeOK'
  <2>1. listener' \in [Subs -> Listener]
    BY <1>2, <1>4, <1>6
  <2> QED BY <1>1, <1>2, <1>5, <2>1 DEF TypeOK
<1>8. ASSUME NEW s \in Subs
      PROVE  ListenerAt(s)'
  <2>1. CASE s = r
    <3>1. ~ (r > lastId) /\ l.revision # 0
      <4>1. l # NoListener
        BY <1>5 DEF NoListener
      <4> QED BY <1>1, <1>3, <1>5, <4>1 DEF ListenerAt
    <3>2. open /\ connected
      BY <1>1, <1>3, <1>5 DEF ListenerAt
    <3> QED BY <1>2, <1>5, <1>6, <2>1, <3>1, <3>2 DEF ListenerAt
  <2>2. CASE s # r
    BY <1>1, <1>2, <1>4, <1>5, <2>2 DEF ListenerAt
  <2> QED BY <2>1, <2>2
<1>9. RevisionInv' /\ LostInv' /\ AskedOnce'
  <2>1. \A s \in Subs : /\ listener'[s].revision = listener[s].revision
                        /\ listener[s].phase # "none" => listener'[s].phase # "none"
    BY <1>3, <1>4, <1>6
  <2>2. RevisionInv'
    BY <1>1, <1>2, <2>1 DEF RevisionInv
  <2>3. connected /\ connected'
    BY <1>1, <1>2 DEF LostInv
  <2>4. AskedOnce'
    BY <1>1, <1>2 DEF AskedOnce
  <2> QED BY <2>2, <2>3, <2>4 DEF LostInv
<1>10. ASSUME NEW s \in Subs
       PROVE  ServedAt(s)'
  <2>1. CASE s = r
    <3>1. /\ Asked(r)' <=> Asked(r)
          /\ Leaving(r)' <=> Leaving(r)
          /\ Unmentioned(r)' <=> Unmentioned(r)
          /\ Answering(r)' <=> Answering(r)
      BY <1>2, SameRequests, SameMessages
    <3> QED BY <1>1, <1>2, <1>6, <2>1, <3>1 DEF ServedAt
  <2>2. CASE s # r
    BY <1>1, <1>2, <1>4, <2>2, ServedKept
  <2> QED BY <2>1, <2>2
<1>11. NoGap'
  <2> SUFFICES ASSUME NEW s \in Subs, (s \in subscribed /\ Wanted(s) /\ listener[s].phase # "closed")'
               PROVE  Lead(Base(s), UnderWay(s), current)'
    BY <1>7 DEF NoGap, TypeOK
  <2>1. s = r
    <3>1. s # r => Wanted(s) /\ listener[s].phase # "none"
      BY <1>1, <1>2, <1>4 DEF Wanted, ServedAt
    <3> QED BY <1>1, <1>2, <3>1, OneWanted
  <2>2. Lead(Base(r), UnderWay(r), current)
    BY <1>1, <1>2, <2>1 DEF NoGap
  <2>3. Base(r) = facade' /\ Base(r)' = facade'
    <3>1. BaseRight /\ BaseRight'
      BY <1>2, BaseIs, BaseIsAfter
    <3> QED BY <1>2, <1>6, <3>1 DEF BaseRight
  <2>4. UnderWay(r)' = UnderWay(r)
    <3>1. UnderWay(r) = Kept(listener[r]) \o (UpdatesIn(toClient, r) \o served[r].pending)
      BY <1>1, <1>2, PathsAre DEF PathRight
    <3>2. UnderWay(r)' = Kept(listener[r])' \o (UpdatesIn(toClient', r) \o served'[r].pending)
      BY <1>6, <1>7, <1>8, PathsAreAfter DEF PathRight
    <3>3. Kept(listener[r])' = Kept(listener[r])
      BY <1>2, <1>3, <1>6 DEF Kept
    <3> QED BY <1>2, <3>1, <3>2, <3>3
  <2> QED BY <1>2, <2>1, <2>2, <2>3, <2>4
<1> QED BY <1>7, <1>8, <1>9, <1>10, <1>11 DEF SubscriptionInv

\* Discarding one keeps the invariant.
LEMMA DiscardKeeps ==
    ASSUME SubscriptionInv, NEW r \in Subs, Discard(r)
    PROVE  SubscriptionInv'
<1>1. /\ TypeOK /\ RevisionInv /\ LostInv /\ AskedOnce /\ NoGap
      /\ \A s \in Subs : ListenerAt(s) /\ ServedAt(s)
  BY DEF SubscriptionInv
<1>2. /\ listener[r].phase = "answered" /\ ~ Wanted(r) /\ listener \in [Subs -> Listener]
      /\ toServer \in Seq(Request) /\ toClient \in Seq(Message)
      /\ UNCHANGED <<current, changes, subscribed, encoders, served, closing, toClient>>
      /\ UNCHANGED <<connected, losses, lastId, open, opens, revision, facade>>
  BY <1>1 DEF Discard, TypeOK, providerVars, serverVars, bindingVars
<1>3. PICK l \in Listener : l = listener[r]
  BY <1>2
<1>4. /\ listener' = [listener EXCEPT ![r] = Ended(l)]
      /\ \A s \in Subs : s # r => listener'[s] = listener[s]
  BY <1>2, <1>3 DEF Discard
<1>5. /\ Ended(l) \in Listener /\ Ended(l).phase = "closed" /\ Ended(l).revision = l.revision
      /\ Ended(l).wire = <<>> /\ Ended(l).queued = <<>>
  <2>1. <<>> \in Seq(Update) /\ Cold \in Version \cup {Cold}
    OBVIOUS
  <2> QED BY <2>1 DEF Ended, Listener
<1>6. listener'[r] = Ended(l)
  BY <1>2, <1>4
<1>7. l.revision # revision /\ l.revision # 0 /\ ~ (r > lastId)
  <2>1. l # NoListener
    BY <1>2, <1>3 DEF NoListener
  <2> QED BY <1>1, <1>2, <1>3, <2>1 DEF ListenerAt, Wanted
<1>8. PICK m : m = Unsubscribe(r)
  OBVIOUS
<1>9. m \in Request /\ m.type = "unsubscribe" /\ m.id = r /\ toServer' = Append(toServer, m)
  BY <1>8 DEF Discard, Unsubscribe, Request
<1>10. /\ toServer' \in Seq(Request) /\ AskedOnce'
       /\ \A s : (Asked(s)' <=> Asked(s)) /\ (Leaving(s)' <=> Leaving(s) \/ s = r)
  BY <1>1, <1>2, <1>9, OneRequested
<1>11. TypeOK'
  <2>1. listener' \in [Subs -> Listener]
    BY <1>2, <1>4, <1>5
  <2> QED BY <1>1, <1>2, <1>10, <2>1 DEF TypeOK
<1>12. ASSUME NEW s \in Subs
       PROVE  ListenerAt(s)'
  <2>1. CASE s = r
    BY <1>2, <1>5, <1>6, <1>7, <2>1 DEF ListenerAt
  <2>2. CASE s # r
    BY <1>1, <1>2, <1>4, <2>2 DEF ListenerAt
  <2> QED BY <2>1, <2>2
<1>13. RevisionInv' /\ LostInv'
  <2>1. \A s \in Subs : /\ listener'[s].revision = listener[s].revision
                        /\ listener[s].phase # "none" => listener'[s].phase # "none"
    BY <1>3, <1>4, <1>5, <1>6
  <2>2. RevisionInv'
    BY <1>1, <1>2, <2>1 DEF RevisionInv
  <2>3. connected /\ connected'
    BY <1>1, <1>2 DEF LostInv
  <2> QED BY <2>2, <2>3 DEF LostInv
<1>14. ASSUME NEW s \in Subs
       PROVE  ServedAt(s)'
  <2>1. /\ Unmentioned(s)' <=> Unmentioned(s)
        /\ Answering(s)' <=> Answering(s)
        /\ SnapshotFirst(s)' <=> SnapshotFirst(s)
    BY <1>2, SameMessages
  <2>2. CASE s = r
    BY <1>1, <1>2, <1>5, <1>6, <1>10, <2>1, <2>2 DEF ServedAt
  <2>3. CASE s # r
    BY <1>1, <1>2, <1>4, <1>10, <2>1, <2>3 DEF ServedAt
  <2> QED BY <2>2, <2>3
<1>15. NoGap'
  <2> SUFFICES ASSUME NEW s \in Subs, (s \in subscribed /\ Wanted(s) /\ listener[s].phase # "closed")'
               PROVE  Lead(Base(s), UnderWay(s), current)'
    BY <1>11 DEF NoGap, TypeOK
  <2>1. s # r
    BY <1>5, <1>6
  <2>2. /\ s \in subscribed /\ Wanted(s) /\ listener[s].phase # "closed"
        /\ listener'[s] = listener[s] /\ UNCHANGED <<facade, current>> /\ served'[s] = served[s]
    BY <1>2, <1>4, <2>1 DEF Wanted
  <2>3. /\ Unmentioned(s)' <=> Unmentioned(s)
        /\ \A version : SnapshotSent(s, version) => SnapshotSent(s, version)'
        /\ UpdatesIn(toClient', s) = UpdatesIn(toClient, s)
    BY <1>2, SameMessages
  <2> QED BY <1>11, <1>12, <2>2, <2>3, GapKept
<1> QED BY <1>10, <1>11, <1>12, <1>13, <1>14, <1>15 DEF SubscriptionInv

\* Delivering an update keeps the invariant.
LEMMA DeliverKeeps ==
    ASSUME SubscriptionInv, NEW r \in Subs, Deliver(r)
    PROVE  SubscriptionInv'
<1>1. /\ TypeOK /\ RevisionInv /\ LostInv /\ AskedOnce /\ NoGap
      /\ \A s \in Subs : ListenerAt(s) /\ ServedAt(s)
  BY DEF SubscriptionInv
<1>2. /\ listener \in [Subs -> Listener] /\ toClient \in Seq(Message)
      /\ facade' = IF Wanted(r) THEN Shown(Head(listener[r].tail)) ELSE facade
      /\ UNCHANGED <<current, changes, subscribed, encoders, served, closing, toServer, toClient>>
      /\ UNCHANGED <<connected, losses, lastId, open, opens, revision>>
  BY <1>1 DEF Deliver, TypeOK, providerVars, serverVars, wireVars
<1>3. PICK l \in Listener : l = listener[r]
  BY <1>2
<1>4. PICK k \in Seq(Update) : k = l.tail
  BY DEF Listener
<1>5. /\ k # <<>> /\ listener' = [listener EXCEPT ![r] = [l EXCEPT !.tail = Tail(k)]]
      /\ \A s \in Subs : s # r => listener'[s] = listener[s]
  BY <1>2, <1>3, <1>4 DEF Deliver
<1>6. PICK u \in Update : u = Head(k)
  BY <1>5, HeadTailProperties
<1>7. PICK rest \in Seq(Update) : rest = Tail(k)
  BY <1>5, HeadTailProperties
<1>8. listener'[r] = [l EXCEPT !.tail = rest] /\ [l EXCEPT !.tail = rest] \in Listener
  BY <1>2, <1>5, <1>7 DEF Listener
<1>9. /\ listener'[r].phase = l.phase /\ listener'[r].revision = l.revision
      /\ listener'[r].wire = l.wire /\ listener'[r].queued = l.queued
      /\ listener'[r].snapshot = l.snapshot /\ listener'[r].tail = rest
  BY <1>8 DEF Listener
<1>10. /\ l.phase \in {"started", "closed"} /\ ~ (r > lastId)
       /\ Wanted(r) => l.phase = "started" /\ facade \in Version /\ r \in subscribed
  <2>1. l.phase \in {"none", "requested", "answered", "started", "closed"}
    BY DEF Listener
  <2>2. l # NoListener
    BY <1>4, <1>5 DEF NoListener
  <2>3. l.phase \in {"started", "closed"}
    BY <1>1, <1>3, <1>4, <1>5, <2>1 DEF ListenerAt
  <2>4. Wanted(r) => l.phase = "started"
    BY <1>1, <1>3, <2>3 DEF ListenerAt, Wanted
  <2>5. Wanted(r) => facade \in Version
    BY <1>1, <1>3, <2>4 DEF ListenerAt, Wanted
  <2>6. l.phase = "started" => r \in subscribed
    BY <1>1, <1>3 DEF ServedAt
  <2> QED BY <1>1, <1>3, <2>2, <2>3, <2>4, <2>5, <2>6 DEF ListenerAt
<1>11. PICK base : base = facade
  OBVIOUS
<1>12. PICK n \in Seq(Update) : n = UpdatesIn(toClient, r) \o served[r].pending
  <2>1. UpdatesIn(toClient, r) \in Seq(Update) /\ served[r].pending \in Seq(Update)
    BY <1>1, PathTypes
  <2> QED BY <2>1, ConcatProperties
<1>13. Wanted(r) => Lead(base, k \o n, current)
  <2> HAVE Wanted(r)
  <2>1. Lead(Base(r), UnderWay(r), current)
    BY <1>1, <1>3, <1>10 DEF NoGap
  <2>2. Base(r) = base
    BY <1>2, <1>3, <1>10, <1>11, BaseIs DEF BaseRight
  <2>3. UnderWay(r) = Kept(listener[r]) \o n
    BY <1>1, <1>3, <1>10, <1>12, PathsAre DEF PathRight
  <2>4. Kept(listener[r]) = k
    BY <1>3, <1>4, <1>10 DEF Kept
  <2> QED BY <2>1, <2>2, <2>3, <2>4
<1>14. Wanted(r) => Lead(u.version, rest \o n, current) /\ facade' = u.version
  <2> HAVE Wanted(r)
  <2>1. PICK path \in Seq(Update) : path = k \o n
    BY ConcatProperties
  <2>2. path # <<>> /\ Head(path) = u /\ Tail(path) = rest \o n
    BY <1>5, <1>6, <1>7, <2>1, TailConcat
  <2>3. PICK c : c = current
    OBVIOUS
  <2>4. Lead(u.version, rest \o n, c) /\ (u.kind = "state" => u.version = [base EXCEPT !.sequence = @ + 1])
    BY <1>13, <2>1, <2>2, <2>3, LeadTail
  <2>5. facade' = Shown(u)
    BY <1>2, <1>3, <1>4, <1>6
  <2>6. Shown(u) = u.version
    <3>1. facade \in Version /\ facade # Cold
      BY <1>10 DEF Version, Cold
    <3>2. u.kind = "state" => u.version.sequence = facade.sequence + 1
      BY <1>11, <2>4, <3>1 DEF Version
    <3>3. u.kind \in {"state", "replaced"}
      BY DEF Update
    <3> QED BY <3>1, <3>2, <3>3 DEF Shown
  <2> QED BY <2>3, <2>4, <2>5, <2>6
<1>15. facade' \in Version \cup {Cold} /\ (facade \in Version => facade' \in Version)
  <2>1. u.version \in Version
    BY DEF Update
  <2> QED BY <1>1, <1>2, <1>14, <2>1 DEF TypeOK
<1>16. TypeOK'
  <2>1. listener' \in [Subs -> Listener]
    BY <1>2, <1>5, <1>7, <1>8
  <2> QED BY <1>1, <1>2, <1>15, <2>1 DEF TypeOK
<1>17. ASSUME NEW s \in Subs
       PROVE  ListenerAt(s)'
  <2>1. CASE s = r
    BY <1>1, <1>2, <1>3, <1>9, <1>10, <1>15, <2>1 DEF ListenerAt
  <2>2. CASE s # r
    BY <1>1, <1>2, <1>5, <1>15, <2>2 DEF ListenerAt
  <2> QED BY <2>1, <2>2
<1>18. \A s \in Subs : listener'[s].revision = listener[s].revision /\ listener'[s].phase = listener[s].phase
  BY <1>3, <1>5, <1>9
<1>19. RevisionInv' /\ LostInv' /\ AskedOnce'
  <2>1. RevisionInv'
    BY <1>1, <1>2, <1>18 DEF RevisionInv
  <2>2. LostInv'
    BY <1>1, <1>2, <1>18 DEF LostInv
  <2> QED BY <1>1, <1>2, <2>1, <2>2 DEF AskedOnce
<1>20. ASSUME NEW s \in Subs
       PROVE  ServedAt(s)'
  BY <1>1, <1>2, <1>18, ServedKept
<1>21. NoGap'
  <2> SUFFICES ASSUME NEW s \in Subs, (s \in subscribed /\ Wanted(s) /\ listener[s].phase # "closed")'
               PROVE  Lead(Base(s), UnderWay(s), current)'
    BY <1>16 DEF NoGap, TypeOK
  <2>1. s \in subscribed /\ Wanted(s) /\ listener[s].phase # "closed"
    BY <1>2, <1>18 DEF Wanted
  <2>2. CASE s = r
    <3>1. Lead(u.version, rest \o n, current') /\ facade' = u.version
      BY <1>2, <1>14, <2>1, <2>2
    <3>2. Base(s)' = facade'
      BY <1>2, <1>9, <1>10, <2>1, <2>2, BaseIsAfter DEF BaseRight
    <3>3. UnderWay(s)' = Kept(listener[s])' \o (UpdatesIn(toClient', s) \o served'[s].pending)
      BY <1>9, <1>10, <1>16, <1>17, <2>1, <2>2, PathsAreAfter DEF PathRight
    <3>4. Kept(listener[s])' = rest
      BY <1>9, <1>10, <2>1, <2>2 DEF Kept
    <3>5. UnderWay(s)' = rest \o n
      BY <1>2, <1>12, <2>2, <3>3, <3>4
    <3> QED BY <3>1, <3>2, <3>5
  <2>3. CASE s # r
    <3>1. ~ Wanted(r)
      <4>1. listener[s].phase # "none"
        BY <1>1, <2>1 DEF ServedAt
      <4> QED BY <1>1, <2>1, <2>3, <4>1, OneWanted
    <3>2. listener'[s] = listener[s] /\ UNCHANGED <<facade, current>> /\ served'[s] = served[s]
      BY <1>2, <1>5, <2>3, <3>1
    <3>3. /\ Unmentioned(s)' <=> Unmentioned(s)
          /\ \A version : SnapshotSent(s, version) => SnapshotSent(s, version)'
          /\ UpdatesIn(toClient', s) = UpdatesIn(toClient, s)
      BY <1>2, SameMessages
    <3> QED BY <1>16, <1>17, <2>1, <3>2, <3>3, GapKept
  <2> QED BY <2>2, <2>3
<1> QED BY <1>16, <1>17, <1>19, <1>20, <1>21 DEF SubscriptionInv

-----------------------------------------------------------------------------
(* The binding and the connection.  Each of these steps moves the revision *)
(* on, so that no subscription there was before it is wanted after it.     *)

\* Nobody wants an old revision.
LEMMA NoneWanted ==
    ASSUME RevisionInv, TypeOK, revision' = revision + 1, NEW s \in Subs, listener'[s].revision = listener[s].revision
    PROVE  listener'[s].revision < revision' /\ ~ Wanted(s)'
<1>1. listener[s].revision <= revision /\ listener[s].revision \in Nat /\ revision \in Nat
  BY DEF RevisionInv, TypeOK, Listener
<1> QED BY <1>1 DEF Wanted

\* What a listener keeps, when it is the same and the revision moves on.
LEMMA ListenerKept ==
    ASSUME RevisionInv, TypeOK, revision' = revision + 1, NEW s \in Subs, ListenerAt(s),
           listener'[s] = listener[s], lastId' \in Nat, lastId' >= lastId
    PROVE  ListenerAt(s)'
<1>1. listener'[s].revision < revision' /\ listener'[s].revision \in Nat /\ revision' \in Nat
  <2>1. listener'[s].revision = listener[s].revision
    OBVIOUS
  <2>2. listener'[s].revision < revision'
    BY <2>1, NoneWanted
  <2>3. listener[s].revision \in Nat /\ revision \in Nat
    BY DEF TypeOK, Listener
  <2> QED BY <2>1, <2>2, <2>3
<1>2. listener'[s].revision # revision'
  BY <1>1
<1>3. s > lastId' => s > lastId
  BY BoundsAssumption DEF Subs, TypeOK
<1> QED BY <1>2, <1>3 DEF ListenerAt

\* Moving the revision on without a subscription keeps the invariant.
LEMMA RebindKeeps ==
    ASSUME SubscriptionInv, revision' = revision + 1, ~ (open' /\ connected'), LostInv',
           open' \in BOOLEAN, connected' \in BOOLEAN, opens' \in Nat,
           UNCHANGED <<current, changes, subscribed, encoders, served, closing, toServer, toClient>>,
           UNCHANGED <<losses, lastId, listener, facade>>
    PROVE  SubscriptionInv'
<1>1. /\ TypeOK /\ RevisionInv /\ LostInv /\ AskedOnce /\ NoGap
      /\ \A s \in Subs : ListenerAt(s) /\ ServedAt(s)
  BY DEF SubscriptionInv
<1>2. TypeOK'
  BY <1>1 DEF TypeOK
<1>3. lastId \in Nat
  BY <1>1, BoundsAssumption DEF TypeOK
<1>4. \A s \in Subs : ListenerAt(s)'
  BY <1>1, <1>3, ListenerKept
<1>5. \A s \in Subs : ServedAt(s)'
  BY <1>1, ServedKept
<1>6. RevisionInv'
  <2>1. \A s \in Subs : listener[s].revision \in Nat /\ revision \in Nat
    BY <1>1 DEF TypeOK, Listener
  <2> QED BY <1>1, <2>1 DEF RevisionInv
<1>7. AskedOnce'
  BY <1>1 DEF AskedOnce
<1>8. NoGap'
  BY <1>1, <1>2, NoneWanted DEF NoGap, TypeOK
<1> QED BY <1>2, <1>4, <1>5, <1>6, <1>7, <1>8 DEF SubscriptionInv

\* Asking for a new subscription keeps the invariant.
LEMMA StartKeeps ==
    ASSUME SubscriptionInv, Start, revision' = revision + 1, open' = TRUE, connected' = TRUE, opens' \in Nat,
           UNCHANGED <<current, changes, subscribed, encoders, served, closing, toClient, losses, facade>>
    PROVE  SubscriptionInv'
<1>1. /\ TypeOK /\ RevisionInv /\ LostInv /\ AskedOnce /\ NoGap
      /\ \A s \in Subs : ListenerAt(s) /\ ServedAt(s)
  BY DEF SubscriptionInv
<1>2. /\ listener \in [Subs -> Listener] /\ revision \in Nat /\ toServer \in Seq(Request)
      /\ toClient \in Seq(Message)
  BY <1>1 DEF TypeOK
<1>3. PICK r \in Subs : r = lastId + 1
  BY <1>1, BoundsAssumption DEF Start, TypeOK, Subs
<1>4. /\ lastId' = r /\ lastId' \in 0..MaxSubscriptions /\ lastId' \in Nat /\ lastId' >= lastId
      /\ lastId \in Nat /\ r > lastId
  BY <1>1, <1>3, BoundsAssumption DEF Start, TypeOK, Subs
<1>5. /\ listener' = [listener EXCEPT ![r] = [NoListener EXCEPT !.phase = "requested", !.revision = revision']]
      /\ \A s \in Subs : s # r => listener'[s] = listener[s]
  BY <1>2, <1>4 DEF Start, Subscribed
<1>6. /\ listener'[r] \in Listener /\ listener'[r].phase = "requested" /\ listener'[r].revision = revision'
      /\ listener'[r].wire = <<>> /\ listener'[r].queued = <<>> /\ listener'[r].tail = <<>>
  <2>1. PICK n \in Nat : n = revision'
    BY <1>2
  <2>2. PICK l : l = [phase |-> "requested", revision |-> n, snapshot |-> Cold,
                      wire |-> <<>>, queued |-> <<>>, tail |-> <<>>]
    OBVIOUS
  <2>3. listener'[r] = l
    BY <1>2, <1>5, <2>1, <2>2 DEF NoListener
  <2>4. l \in Listener
    <3>1. <<>> \in Seq(Update) /\ Cold \in Version \cup {Cold}
      OBVIOUS
    <3> QED BY <2>1, <2>2, <3>1 DEF Listener
  <2> QED BY <2>1, <2>2, <2>3, <2>4
<1>7. listener[r].phase = "none" /\ served[r].phase = "none" /\ ~ Asked(r) /\ ~ Leaving(r)
  <2>1. listener[r] = NoListener
    BY <1>1, <1>4 DEF ListenerAt
  <2>2. listener[r].phase = "none"
    BY <2>1 DEF NoListener
  <2> QED BY <1>1, <2>2 DEF ServedAt
<1>8. PICK m : m = [type |-> "subscribe", id |-> r]
  OBVIOUS
<1>9. m \in Request /\ m.type = "subscribe" /\ m.id = r /\ toServer' = Append(toServer, m)
  BY <1>4, <1>8 DEF Start, Request
<1>10. /\ toServer' \in Seq(Request) /\ AskedOnce'
       /\ \A s : (Asked(s)' <=> Asked(s) \/ s = r) /\ (Leaving(s)' <=> Leaving(s))
  BY <1>1, <1>2, <1>7, <1>9, OneRequested
<1>11. TypeOK'
  <2>1. listener' \in [Subs -> Listener]
    BY <1>2, <1>5, <1>6
  <2> QED BY <1>1, <1>2, <1>4, <1>10, <2>1 DEF TypeOK
<1>12. ASSUME NEW s \in Subs
       PROVE  ListenerAt(s)'
  <2>1. CASE s = r
    <3>1. ~ (r > lastId') /\ revision' # 0
      BY <1>2, <1>3, <1>4
    <3> QED BY <1>6, <2>1, <3>1 DEF ListenerAt
  <2>2. CASE s # r
    BY <1>1, <1>4, <1>5, <2>2, ListenerKept
  <2> QED BY <2>1, <2>2
<1>13. RevisionInv' /\ LostInv'
  <2>1. \A s \in Subs : s # r => listener'[s].revision < revision' /\ listener'[s].revision = listener[s].revision
    BY <1>1, <1>5, NoneWanted
  <2>2. \A s \in Subs : listener'[s].revision \in Nat
    BY <1>11 DEF TypeOK, Listener
  <2>3. \A s, t \in Subs : listener'[s].revision = listener'[t].revision /\ listener'[s].revision # 0 => s = t
    BY <1>1, <1>2, <1>6, <2>1, <2>2 DEF RevisionInv
  <2>4. \A s \in Subs : listener'[s].revision <= revision'
    BY <1>2, <1>6, <2>1, <2>2
  <2> QED BY <1>6, <2>3, <2>4 DEF RevisionInv, LostInv
<1>14. ASSUME NEW s \in Subs
       PROVE  ServedAt(s)'
  <2>1. /\ Unmentioned(s)' <=> Unmentioned(s)
        /\ Answering(s)' <=> Answering(s)
        /\ SnapshotFirst(s)' <=> SnapshotFirst(s)
    BY SameMessages
  <2>2. CASE s = r
    BY <1>1, <1>6, <1>7, <1>10, <2>1, <2>2 DEF ServedAt
  <2>3. CASE s # r
    BY <1>1, <1>5, <1>10, <2>1, <2>3 DEF ServedAt
  <2> QED BY <2>2, <2>3
<1>15. NoGap'
  <2> SUFFICES ASSUME NEW s \in Subs, (s \in subscribed /\ Wanted(s) /\ listener[s].phase # "closed")'
               PROVE  FALSE
    BY <1>11 DEF NoGap, TypeOK
  <2>1. s # r
    BY <1>1, <1>7 DEF ServedAt
  <2> QED BY <1>1, <1>5, <2>1, NoneWanted
<1> QED BY <1>10, <1>11, <1>12, <1>13, <1>14, <1>15 DEF SubscriptionInv

\* Opening a binding keeps the invariant.
LEMMA OpenKeeps ==
    ASSUME SubscriptionInv, Open
    PROVE  SubscriptionInv'
<1>1. /\ TypeOK /\ RevisionInv /\ LostInv /\ AskedOnce /\ NoGap
      /\ \A s \in Subs : ListenerAt(s) /\ ServedAt(s)
  BY DEF SubscriptionInv
<1>2. /\ open' = TRUE /\ opens' \in Nat /\ revision' = revision + 1
      /\ UNCHANGED <<current, changes, subscribed, encoders, served, closing, toClient, connected, losses, facade>>
  BY <1>1 DEF Open, TypeOK, providerVars, serverVars
<1>3. CASE connected
  BY <1>2, <1>3, StartKeeps DEF Open
<1>4. CASE ~ connected
  <2>1. UNCHANGED <<lastId, toServer, listener>>
    BY <1>4 DEF Open
  <2>2. LostInv'
    BY <1>1, <1>2, <2>1 DEF LostInv
  <2> QED BY <1>1, <1>2, <1>4, <2>1, <2>2, RebindKeeps DEF TypeOK
<1> QED BY <1>3, <1>4

\* Making a connection again keeps the invariant.
LEMMA ConnectKeeps ==
    ASSUME SubscriptionInv, Connect
    PROVE  SubscriptionInv'
<1>1. /\ TypeOK /\ RevisionInv /\ LostInv /\ AskedOnce /\ NoGap
      /\ \A s \in Subs : ListenerAt(s) /\ ServedAt(s)
  BY DEF SubscriptionInv
<1>2. /\ connected' = TRUE /\ opens' \in Nat /\ revision' = revision + 1 /\ open \in BOOLEAN
      /\ UNCHANGED <<current, changes, subscribed, encoders, served, closing, toClient, losses, open, opens, facade>>
  BY <1>1 DEF Connect, TypeOK, providerVars, serverVars
<1>3. CASE open
  BY <1>2, <1>3, StartKeeps DEF Connect
<1>4. CASE ~ open
  <2>1. UNCHANGED <<lastId, toServer, listener>>
    BY <1>4 DEF Connect
  <2>2. LostInv'
    BY <1>2 DEF LostInv
  <2> QED BY <1>2, <1>4, <2>1, <2>2, RebindKeeps
<1> QED BY <1>3, <1>4

\* Losing the connection keeps the invariant.
LEMMA LoseKeeps ==
    ASSUME SubscriptionInv, Lose
    PROVE  SubscriptionInv'
<1>1. /\ TypeOK /\ RevisionInv /\ LostInv /\ AskedOnce /\ NoGap
      /\ \A s \in Subs : ListenerAt(s) /\ ServedAt(s)
  BY DEF SubscriptionInv
<1>2. /\ connected' = FALSE /\ losses' \in Nat /\ toServer' = <<>> /\ toClient' = <<>>
      /\ subscribed' = {} /\ encoders' = {} /\ closing' = {} /\ served' = [s \in Subs |-> NotServed]
      /\ listener' = [s \in Subs |-> IF listener[s].phase = "none" THEN NoListener ELSE Ended(listener[s])]
      /\ revision' = revision + 1 /\ facade' = Cold
      /\ UNCHANGED <<current, changes, lastId, open, opens>>
  BY <1>1 DEF Lose, TypeOK
<1>3. ASSUME NEW s \in Subs
      PROVE  /\ listener'[s] \in Listener /\ listener'[s].revision = listener[s].revision
             /\ listener'[s].phase = (IF listener[s].phase = "none" THEN "none" ELSE "closed")
             /\ listener'[s].wire = <<>> /\ listener'[s].queued = <<>>
             /\ listener[s].phase = "none" => listener'[s] = NoListener
             /\ served'[s] = NotServed
  <2>1. PICK l \in Listener : l = listener[s]
    BY <1>1 DEF TypeOK
  <2>2. l.phase = "none" => l.revision = 0
    BY <1>1, <2>1 DEF ListenerAt
  <2>3. <<>> \in Seq(Update) /\ Cold \in Version \cup {Cold}
    OBVIOUS
  <2>4. CASE l.phase = "none"
    <3>1. listener'[s] = NoListener
      BY <1>2, <2>1, <2>4
    <3>2. NoListener \in Listener /\ NoListener.revision = 0 /\ NoListener.phase = "none"
          /\ NoListener.wire = <<>> /\ NoListener.queued = <<>>
      BY <2>3 DEF NoListener, Listener
    <3> QED BY <1>2, <2>1, <2>2, <2>4, <3>1, <3>2
  <2>5. CASE l.phase # "none"
    <3>1. listener'[s] = Ended(l)
      BY <1>2, <2>1, <2>5
    <3>2. Ended(l) \in Listener /\ Ended(l).revision = l.revision /\ Ended(l).phase = "closed"
          /\ Ended(l).wire = <<>> /\ Ended(l).queued = <<>>
      BY <2>3 DEF Ended, Listener
    <3> QED BY <1>2, <2>1, <2>5, <3>1, <3>2
  <2> QED BY <2>4, <2>5
<1>4. TypeOK'
  <2>1. listener' \in [Subs -> Listener]
    BY <1>2, <1>3
  <2>2. served' \in [Subs -> Handler]
    <3>1. <<>> \in Seq(Update) /\ Cold \in Version \cup {Cold}
      OBVIOUS
    <3>2. NotServed \in Handler
      BY <3>1 DEF NotServed, Handler
    <3> QED BY <1>2, <3>2
  <2>3. toServer' \in Seq(Request) /\ toClient' \in Seq(Message)
    BY <1>2
  <2>4. subscribed' \subseteq Subs /\ encoders' \subseteq Subs /\ closing' \subseteq Subs
    BY <1>2
  <2>5. revision' \in Nat /\ facade' \in Version \cup {Cold} /\ connected' \in BOOLEAN
    <3>1. revision \in Nat
      BY <1>1 DEF TypeOK
    <3>2. revision' \in Nat
      BY <1>2, <3>1
    <3>3. connected' \in BOOLEAN
      BY <1>2
    <3> QED BY <1>2, <3>2, <3>3
  <2>6. current' \in Version /\ changes' \in Nat /\ lastId' \in 0..MaxSubscriptions /\ open' \in BOOLEAN /\ opens' \in Nat
    BY <1>1, <1>2 DEF TypeOK
  <2>7. losses' \in Nat
    BY <1>2
  <2> QED BY <2>1, <2>2, <2>3, <2>4, <2>5, <2>6, <2>7 DEF TypeOK
<1>5. \A s \in Subs : listener'[s].revision < revision' /\ ~ Wanted(s)'
  BY <1>1, <1>2, <1>3, NoneWanted
<1>6. RevisionInv' /\ LostInv' /\ AskedOnce'
  <2>1. \A s \in Subs : listener'[s].revision \in Nat /\ revision' \in Nat
    BY <1>4 DEF TypeOK, Listener
  <2>2. RevisionInv'
    BY <1>1, <1>2, <1>3, <1>5, <2>1 DEF RevisionInv
  <2>3. LostInv'
    BY <1>2, <1>3 DEF LostInv, NotServed
  <2>4. AskedOnce'
    BY <1>2 DEF AskedOnce
  <2> QED BY <2>2, <2>3, <2>4
<1>7. ASSUME NEW s \in Subs
      PROVE  ListenerAt(s)'
  <2>1. listener'[s].revision \in Nat /\ revision' \in Nat
    BY <1>4 DEF TypeOK, Listener
  <2>2. listener'[s].revision # revision'
    BY <1>5, <2>1
  <2>3. s > lastId' => listener'[s] = NoListener
    <3>1. listener[s] = NoListener => listener[s].phase = "none"
      BY DEF NoListener
    <3> QED BY <1>1, <1>2, <1>3, <3>1 DEF ListenerAt
  <2>4. listener'[s].phase = "none" <=> listener'[s].revision = 0
    BY <1>1, <1>3 DEF ListenerAt
  <2>5. listener'[s].phase = "none" => listener'[s].tail = <<>>
    BY <1>3 DEF NoListener
  <2> QED BY <1>3, <2>2, <2>3, <2>4, <2>5 DEF ListenerAt
<1>8. ASSUME NEW s \in Subs
      PROVE  ServedAt(s)'
  <2>1. ~ Asked(s)' /\ ~ Leaving(s)' /\ ~ Answering(s)' /\ Unmentioned(s)'
    BY <1>2 DEF Asked, Leaving, Answering, Unmentioned, Places
  <2>2. served'[s].phase = "none"
    BY <1>3 DEF NotServed
  <2> QED BY <1>2, <1>3, <2>1, <2>2 DEF ServedAt
<1>9. NoGap'
  BY <1>2 DEF NoGap
<1> QED BY <1>4, <1>6, <1>7, <1>8, <1>9 DEF SubscriptionInv

\* What closes the subscriptions of a set.
Unsubscribes(T) == SetToSeq({Unsubscribe(s) : s \in T})

\* It closes each of them once, and nothing else.
Closes(other, T) ==
    /\ other \in Seq(Request)
    /\ \A i \in DOMAIN other : other[i].type = "unsubscribe" /\ other[i].id \in T
    /\ \A s \in T : \E i \in DOMAIN other : other[i].type = "unsubscribe" /\ other[i].id = s

\* For any subscriptions.
LEMMA UnsubscribesClose ==
    ASSUME NEW T \in SUBSET Subs, NEW other, other = Unsubscribes(T)
    PROVE  Closes(other, T)
<1>1. IsFiniteSet(T)
  <2>1. MaxSubscriptions \in Nat /\ 1 \in Int /\ MaxSubscriptions \in Int
    BY BoundsAssumption
  <2>2. IsFiniteSet(Subs)
    BY <2>1, FS_Interval DEF Subs
  <2> QED BY <2>2, FS_Subset
<1>2. PICK f : f = [t \in T |-> Unsubscribe(t)]
  OBVIOUS
<1>3. \A t \in T : f[t] \in Request /\ f[t].type = "unsubscribe" /\ f[t].id = t
  <2> TAKE t \in T
  <2>1. f[t] = [type |-> "unsubscribe", id |-> t] /\ t \in Subs
    BY <1>2 DEF Unsubscribe
  <2> QED BY <2>1 DEF Request
<1>4. f \in [T -> Request] /\ \A t, r \in T : f[t] = f[r] => t = r
  <2>1. \A t, r \in T : f[t] = f[r] => t = r
    BY <1>3
  <2> QED BY <1>2, <1>3, <2>1
<1>5. PICK S : S = ImageOf(f, T)
  OBVIOUS
<1>6. {Unsubscribe(t) : t \in T} = S
  BY <1>2, <1>5 DEF ImageOf
<1>7. /\ other \in Seq(Request)
      /\ \A i \in DOMAIN other : \E t \in T : other[i] = f[t]
      /\ \A t \in T : \E i \in DOMAIN other : \A j \in DOMAIN other : other[j] = f[t] <=> j = i
  <2>1. other = SetToSeq(S)
    BY <1>6 DEF Unsubscribes
  <2> QED BY <1>1, <1>4, <1>5, <2>1, ImageSequence
<1>8. \A i \in DOMAIN other : other[i].type = "unsubscribe" /\ other[i].id \in T
  BY <1>3, <1>7
<1>9. \A s \in T : \E i \in DOMAIN other : other[i].type = "unsubscribe" /\ other[i].id = s
  BY <1>3, <1>7
<1> QED BY <1>7, <1>8, <1>9 DEF Closes

\* Disposing a binding keeps the invariant.
LEMMA DisposeKeeps ==
    ASSUME SubscriptionInv, Dispose
    PROVE  SubscriptionInv'
<1>1. /\ TypeOK /\ RevisionInv /\ LostInv /\ AskedOnce /\ NoGap
      /\ \A s \in Subs : ListenerAt(s) /\ ServedAt(s)
  BY DEF SubscriptionInv
<1>2. PICK T \in SUBSET Subs : T = {s \in Subs : Wanted(s) /\ listener[s].phase = "started"}
  OBVIOUS
<1>3. /\ open' = FALSE /\ revision' = revision + 1 /\ facade' = Cold
      /\ listener' = [s \in Subs |-> IF s \in T THEN Ended(listener[s]) ELSE listener[s]]
      /\ UNCHANGED <<current, changes, subscribed, encoders, served, closing, toClient, connected, losses, lastId, opens>>
  BY <1>2 DEF Dispose, providerVars, serverVars
<1>4. PICK other : other = Unsubscribes(T)
  OBVIOUS
<1>5. toServer' = toServer \o other
  BY <1>2, <1>4 DEF Dispose, Unsubscribes
<1>6. Closes(other, T)
  BY <1>4, UnsubscribesClose
<1>7. other \in Seq(Request) /\ toServer \in Seq(Request) /\ lastId \in Nat /\ toClient \in Seq(Message)
  BY <1>1, <1>6, BoundsAssumption DEF Closes, TypeOK
<1>8. ASSUME NEW s \in Subs
      PROVE  /\ Asked(s)' <=> Asked(s)
             /\ Leaving(s)' <=> Leaving(s) \/ s \in T
  <2>1. Places(other, "subscribe", s) = {}
    BY <1>6 DEF Closes, Places
  <2>2. Places(other, "unsubscribe", s) # {} <=> s \in T
    BY <1>6 DEF Closes, Places
  <2>3. /\ Asked(s)' <=> Asked(s) \/ Places(other, "subscribe", s) # {}
        /\ Leaving(s)' <=> Leaving(s) \/ Places(other, "unsubscribe", s) # {}
    BY <1>5, <1>7, RequestsBehind
  <2> QED BY <2>1, <2>2, <2>3
<1>9. AskedOnce'
  <2>1. /\ \A i \in DOMAIN other : other[i].type = "subscribe" => ~ Asked(other[i].id)
        /\ \A i, j \in DOMAIN other : other[i].type = "subscribe" /\ other[j] = other[i] => i = j
    BY <1>6 DEF Closes
  <2> QED BY <1>1, <1>5, <1>7, <2>1, AskedOnceBehind
<1>10. ASSUME NEW s \in Subs
       PROVE  /\ listener'[s] \in Listener /\ listener'[s].revision = listener[s].revision
              /\ s \in T => /\ listener[s].phase = "started" /\ listener'[s].phase = "closed"
                            /\ listener'[s].wire = <<>> /\ listener'[s].queued = <<>>
              /\ s \notin T => listener'[s] = listener[s]
  <2>1. PICK l \in Listener : l = listener[s]
    BY <1>1 DEF TypeOK
  <2>2. CASE s \in T
    <3>1. listener'[s] = Ended(l) /\ l.phase = "started"
      BY <1>2, <1>3, <2>1, <2>2
    <3>2. <<>> \in Seq(Update) /\ Cold \in Version \cup {Cold}
      OBVIOUS
    <3>3. Ended(l) \in Listener /\ Ended(l).revision = l.revision /\ Ended(l).phase = "closed"
          /\ Ended(l).wire = <<>> /\ Ended(l).queued = <<>>
      BY <3>2 DEF Ended, Listener
    <3> QED BY <2>1, <2>2, <3>1, <3>3
  <2>3. CASE s \notin T
    BY <1>3, <2>1, <2>3
  <2> QED BY <2>2, <2>3
<1>11. TypeOK'
  <2>1. listener' \in [Subs -> Listener]
    BY <1>3, <1>10
  <2>2. toServer' \in Seq(Request)
    BY <1>5, <1>7, ConcatProperties
  <2>3. revision' \in Nat
    <3>1. revision \in Nat
      BY <1>1 DEF TypeOK
    <3> QED BY <1>3, <3>1
  <2>4. facade' \in Version \cup {Cold}
    BY <1>3
  <2> QED BY <1>1, <1>3, <2>1, <2>2, <2>3, <2>4 DEF TypeOK
<1>12. \A s \in Subs : listener'[s].revision < revision' /\ ~ Wanted(s)'
  BY <1>1, <1>3, <1>10, NoneWanted
<1>13. ASSUME NEW s \in Subs
       PROVE  ListenerAt(s)'
  <2>1. CASE s \in T
    <3>1. listener'[s].revision \in Nat /\ revision' \in Nat
      BY <1>11 DEF TypeOK, Listener
    <3>2. listener'[s].revision # revision'
      BY <1>12, <3>1
    <3>3. listener[s] # NoListener /\ listener'[s].revision # 0
      BY <1>1, <1>10, <2>1 DEF ListenerAt, NoListener
    <3> QED BY <1>1, <1>3, <1>10, <2>1, <3>2, <3>3 DEF ListenerAt
  <2>2. CASE s \notin T
    BY <1>1, <1>3, <1>7, <1>10, <2>2, ListenerKept
  <2> QED BY <2>1, <2>2
<1>14. RevisionInv'
  <2>1. \A s \in Subs : listener'[s].revision \in Nat /\ revision' \in Nat
    BY <1>11 DEF TypeOK, Listener
  <2> QED BY <1>1, <1>3, <1>10, <1>12, <2>1 DEF RevisionInv
<1>15. LostInv'
  <2> SUFFICES ASSUME ~ connected
               PROVE  /\ toServer' = <<>> /\ toClient' = <<>>
                      /\ \A s \in Subs : listener'[s].phase \in {"none", "closed"} /\ served'[s].phase = "none"
    BY <1>3 DEF LostInv
  <2>1. /\ toServer = <<>> /\ toClient = <<>>
        /\ \A s \in Subs : listener[s].phase \in {"none", "closed"} /\ served[s].phase = "none"
    BY <1>1 DEF LostInv
  <2>2. \A s \in Subs : s \notin T
    BY <1>10, <2>1
  <2>3. other = <<>>
    BY <1>6, <1>7, <2>2 DEF Closes
  <2>4. toServer' = <<>>
    BY <1>5, <2>1, <2>3
  <2> QED BY <1>3, <1>10, <2>1, <2>2, <2>4
<1>16. ASSUME NEW s \in Subs
       PROVE  ServedAt(s)'
  <2>1. /\ Unmentioned(s)' <=> Unmentioned(s)
        /\ Answering(s)' <=> Answering(s)
        /\ SnapshotFirst(s)' <=> SnapshotFirst(s)
    BY <1>3, SameMessages
  <2>2. CASE s \in T
    <3>1. /\ listener[s].phase = "started" /\ listener'[s].phase = "closed" /\ Leaving(s)'
          /\ Asked(s)' <=> Asked(s)
      BY <1>8, <1>10, <2>2
    <3> QED BY <1>1, <1>3, <2>1, <3>1 DEF ServedAt
  <2>3. CASE s \notin T
    BY <1>1, <1>3, <1>8, <1>10, <2>1, <2>3 DEF ServedAt
  <2> QED BY <2>2, <2>3
<1>17. NoGap'
  BY <1>11, <1>12 DEF NoGap, TypeOK
<1> QED BY <1>9, <1>11, <1>13, <1>14, <1>15, <1>16, <1>17 DEF SubscriptionInv

-----------------------------------------------------------------------------
(* Every state.                                                            *)

\* Every step keeps the invariant.
LEMMA NextKeeps == SubscriptionInv /\ [Next]_vars => SubscriptionInv'
<1> SUFFICES ASSUME SubscriptionInv, [Next]_vars
             PROVE  SubscriptionInv'
  OBVIOUS
<1>1. current \in Version
  BY DEF SubscriptionInv, TypeOK
<1>2. CASE Change
  <2>1. PICK u : u = [kind |-> "state", version |-> [current EXCEPT !.sequence = @ + 1]]
    OBVIOUS
  <2>2. u \in Update /\ u.kind = "state" /\ u.version = [current EXCEPT !.sequence = @ + 1]
    BY <1>1, <2>1 DEF Update, Version
  <2>3. Emit(u.kind, u.version)
    BY <1>2, <2>2 DEF Change
  <2> QED BY <2>2, <2>3, EmitKeeps
<1>3. CASE Replace
  <2>1. PICK u : u = [kind |-> "replaced", version |-> [generation |-> current.generation + 1, sequence |-> 0]]
    OBVIOUS
  <2>2. u \in Update /\ u.kind = "replaced"
        /\ u.version = [generation |-> current.generation + 1, sequence |-> 0]
    BY <1>1, <2>1 DEF Update, Version
  <2>3. Emit(u.kind, u.version)
    BY <1>3, <2>2 DEF Replace
  <2> QED BY <2>2, <2>3, EmitKeeps
<1>4. CASE Serve
  BY <1>4, TakeSubscribeKeeps, TakeUnsubscribeKeeps, RespondKeeps, DrainKeeps, AnswerUnsubscribeKeeps DEF Serve
<1>5. CASE Client
  BY <1>5, ReceiveKeeps, InstallKeeps, DiscardKeeps, DeliverKeeps DEF Client
<1>6. CASE Open \/ Dispose \/ Lose \/ Connect
  BY <1>6, OpenKeeps, DisposeKeeps, LoseKeeps, ConnectKeeps
<1>7. CASE UNCHANGED vars
  <2>1. /\ UNCHANGED <<current, changes, subscribed, encoders, served, closing>>
        /\ UNCHANGED <<toServer, toClient, connected, losses, listener, lastId, open, opens, revision, facade>>
    BY <1>7 DEF vars, providerVars, serverVars, wireVars, bindingVars
  <2>2. TypeOK /\ RevisionInv /\ LostInv /\ AskedOnce /\ NoGap /\ \A s \in Subs : ListenerAt(s) /\ ServedAt(s)
    BY DEF SubscriptionInv
  <2>3. TypeOK'
    BY <2>1, <2>2 DEF TypeOK
  <2>4. RevisionInv' /\ LostInv' /\ AskedOnce'
    BY <2>1, <2>2 DEF RevisionInv, LostInv, AskedOnce
  <2>5. \A s \in Subs : ListenerAt(s)'
    BY <2>1, <2>2 DEF ListenerAt
  <2>6. \A s \in Subs : ServedAt(s)'
    BY <2>1, <2>2, ServedKept
  <2>7. NoGap'
    BY <2>1, <2>2 DEF NoGap, Wanted, Base, UnderWay
  <2> QED BY <2>3, <2>4, <2>5, <2>6, <2>7 DEF SubscriptionInv
<1> QED BY <1>2, <1>3, <1>4, <1>5, <1>6, <1>7 DEF Next

\* The first state has it.
LEMMA InitHolds == Init => SubscriptionInv
<1> SUFFICES ASSUME Init
             PROVE  SubscriptionInv
  OBVIOUS
<1>1. \A s \in Subs : listener[s] = NoListener /\ served[s] = NotServed
  BY DEF Init
<1>2. NoListener \in Listener /\ NotServed \in Handler /\ First \in Version
  <2>1. <<>> \in Seq(Update) /\ Cold \in Version \cup {Cold}
    OBVIOUS
  <2> QED BY <2>1 DEF NoListener, NotServed, Listener, Handler, First, Version
<1>3. TypeOK
  <2>1. <<>> \in Seq(Request) /\ <<>> \in Seq(Message)
    OBVIOUS
  <2>2. listener \in [Subs -> Listener] /\ served \in [Subs -> Handler]
    BY <1>2 DEF Init
  <2>3. current \in Version /\ changes \in Nat /\ subscribed \subseteq Subs /\ encoders \subseteq Subs /\ closing \subseteq Subs
    BY <1>2 DEF Init
  <2>4. toServer \in Seq(Request) /\ toClient \in Seq(Message)
    BY <2>1 DEF Init
  <2>5. connected \in BOOLEAN /\ open \in BOOLEAN
    BY DEF Init
  <2>6. lastId \in 0..MaxSubscriptions
    <3>1. MaxSubscriptions \in Nat /\ lastId = 0
      BY BoundsAssumption DEF Init
    <3> QED BY <3>1
  <2>7. losses \in Nat /\ opens \in Nat /\ revision \in Nat /\ facade \in Version \cup {Cold}
    BY DEF Init
  <2> QED BY <2>2, <2>3, <2>4, <2>5, <2>6, <2>7 DEF TypeOK
<1>4. RevisionInv /\ LostInv /\ AskedOnce /\ NoGap
  BY <1>1 DEF RevisionInv, LostInv, AskedOnce, NoGap, NoListener, Init
<1>5. ASSUME NEW s \in Subs
      PROVE  ListenerAt(s) /\ ServedAt(s)
  <2>1. ListenerAt(s)
    BY <1>1 DEF ListenerAt, NoListener, Init
  <2>2. ~ Asked(s) /\ ~ Leaving(s) /\ ~ Answering(s) /\ Unmentioned(s)
    BY DEF Asked, Leaving, Answering, Unmentioned, Places, Init
  <2>3. ServedAt(s)
    BY <1>1, <2>2 DEF ServedAt, NoListener, NotServed, Init
  <2> QED BY <2>1, <2>3
<1> QED BY <1>3, <1>4, <1>5 DEF SubscriptionInv

\* When nothing is under way nothing was left behind.
LEMMA NothingLeft == SubscriptionInv => NoneLeftBehind
<1> SUFFICES ASSUME SubscriptionInv, connected, toServer = <<>>, toClient = <<>>, closing = {},
                    \A s \in Subs : served[s].phase \in {"none", "ready"}
                                    /\ listener[s].phase \notin {"requested", "answered"},
                    NEW shown, shown = {s \in Subs : listener[s].phase = "started"}
             PROVE  subscribed = shown /\ encoders = shown /\ open = (\E s \in shown : Wanted(s))
  BY DEF NoneLeftBehind
<1>1. /\ TypeOK /\ RevisionInv /\ \A s \in Subs : ListenerAt(s) /\ ServedAt(s)
  BY DEF SubscriptionInv
<1>2. \A s \in Subs : ~ Leaving(s)
  BY DEF Leaving, Places
<1>3. \A s \in Subs : s \in subscribed <=> s \in shown
  BY <1>1, <1>2 DEF ServedAt
<1>4. \A s \in Subs : s \in encoders <=> s \in shown
  BY <1>1, <1>3 DEF ServedAt
<1>5. open => \E s \in shown : Wanted(s)
  <2> HAVE open
  <2>1. PICK s \in Subs : listener[s].phase # "none" /\ listener[s].revision = revision
    BY <1>1 DEF RevisionInv
  <2>2. listener[s].phase = "started"
    BY <1>1, <2>1 DEF ListenerAt
  <2> QED BY <2>1, <2>2 DEF Wanted
<1>6. (\E s \in shown : Wanted(s)) => open
  BY DEF Wanted
<1>7. open \in BOOLEAN /\ subscribed \subseteq Subs /\ encoders \subseteq Subs
  BY <1>1 DEF TypeOK
<1>8. subscribed = shown /\ encoders = shown
  BY <1>3, <1>4, <1>7
<1>9. open = (\E s \in shown : Wanted(s))
  BY <1>5, <1>6, <1>7
<1> QED BY <1>8, <1>9

\* In every state each subscription is where ServedAt and ListenerAt say, on the
\* server, on the wire and at the client, and revisions tell them apart.
THEOREM SubscriptionsAlways == Spec => []SubscriptionInv
BY InitHolds, NextKeeps, PTL DEF Spec

\* Between what a subscription shows, or will show when its snapshot arrives, and
\* the provider's state no update is missing, doubled or out of order, for any
\* number of subscriptions, changes, bindings and lost connections.
THEOREM NoGapAlways == Spec => []NoGap
<1>1. SubscriptionInv => NoGap
  BY DEF SubscriptionInv
<1> QED BY <1>1, SubscriptionsAlways, PTL

\* When nothing is under way the server keeps exactly the subscriptions the client
\* shows, and an open binding on a live connection has its own.
THEOREM NoneLeftBehindAlways == Spec => []NoneLeftBehind
BY NothingLeft, SubscriptionsAlways, PTL

\* Nothing is under way: what NoneLeftBehind waits for, and every update delivered.
Quiet ==
    /\ connected /\ toServer = <<>> /\ toClient = <<>> /\ closing = {}
    /\ \A s \in Subs : /\ served[s].phase \in {"none", "ready"}
                       /\ listener[s].phase \notin {"requested", "answered"} /\ listener[s].tail = <<>>

\* An open binding shows the provider's state by then.
ShowsCurrent == Quiet /\ open => facade = current

\* It does where the invariant holds.
LEMMA QuietShows == SubscriptionInv => ShowsCurrent
<1> SUFFICES ASSUME SubscriptionInv, Quiet, open
             PROVE  facade = current
  BY DEF ShowsCurrent
<1>1. TypeOK /\ NoGap /\ \A s \in Subs : ListenerAt(s) /\ ServedAt(s)
  BY DEF SubscriptionInv
<1>2. PICK s \in subscribed : Wanted(s) /\ listener[s].phase = "started" /\ served[s].phase = "ready"
  <2>1. NoneLeftBehind
    BY NothingLeft
  <2>2. subscribed = {s \in Subs : listener[s].phase = "started"}
        /\ open = (\E s \in {t \in Subs : listener[t].phase = "started"} : Wanted(s))
    BY <2>1 DEF NoneLeftBehind, Quiet
  <2>3. PICK s \in Subs : listener[s].phase = "started" /\ Wanted(s)
    BY <2>2
  <2>4. s \in subscribed
    BY <2>2, <2>3
  <2>5. served[s].phase = "ready"
    BY <1>1, <2>3 DEF Quiet, ServedAt
  <2> QED BY <2>3, <2>4, <2>5
<1>3. s \in Subs /\ toClient \in Seq(Message)
  BY <1>1, <1>2 DEF TypeOK
<1>4. Lead(Base(s), UnderWay(s), current)
  BY <1>1, <1>2 DEF NoGap
<1>5. Base(s) = facade
  BY <1>2, <1>3, BaseIs DEF BaseRight
<1>6. UnderWay(s) = <<>>
  <2>1. UnderWay(s) = Kept(listener[s]) \o (UpdatesIn(toClient, s) \o served[s].pending)
    BY <1>1, <1>2, <1>3, PathsAre DEF PathRight
  <2>2. Kept(listener[s]) = <<>> /\ served[s].pending = <<>>
    BY <1>1, <1>2, <1>3 DEF Kept, Quiet, ServedAt
  <2>3. UpdatesIn(toClient, s) = <<>>
    <3>1. Places(toClient, "update", s) = {}
      BY DEF Quiet, Places
    <3> QED BY <1>3, <3>1, UpdatesNone
  <2>4. <<>> \o (<<>> \o <<>>) = <<>>
    OBVIOUS
  <2> QED BY <2>1, <2>2, <2>3, <2>4
<1> QED BY <1>4, <1>5, <1>6 DEF Lead

\* When nothing is under way an open binding shows the provider's state, whatever
\* was lost, disposed, opened again or replaced before: the safety half of
\* catching up.
THEOREM ShowsCurrentAlways == Spec => []ShowsCurrent
BY QuietShows, SubscriptionsAlways, PTL

\* A binding that shows a state goes on showing one until it is bound anew.
NeverCleared == facade # Cold /\ revision' = revision => facade' # Cold

\* No step clears it.
LEMMA StepNeverClears == SubscriptionInv /\ SubscriptionInv' /\ [Next]_vars => NeverCleared
<1> SUFFICES ASSUME SubscriptionInv, SubscriptionInv', [Next]_vars, facade # Cold, revision' = revision, facade' # facade
             PROVE  facade' # Cold
  BY DEF NeverCleared
<1>1. TypeOK /\ (\A s \in Subs : ListenerAt(s)) /\ \A s \in Subs : ListenerAt(s)'
  BY DEF SubscriptionInv
<1>2. revision + 1 # revision /\ revision \in Nat
  BY <1>1 DEF TypeOK
<1>3. PICK s \in Subs : Install(s) \/ Deliver(s)
  <2>1. ~ (Change \/ Replace \/ Serve \/ Receive)
    BY DEF Change, Replace, Emit, Serve, TakeSubscribe, TakeUnsubscribe, Respond, Drain, AnswerUnsubscribe,
           Receive, bindingVars
  <2>2. ~ (Open \/ Dispose \/ Lose \/ Connect)
    BY <1>2 DEF Open, Dispose, Lose, Connect
  <2>3. \A s \in Subs : ~ Discard(s)
    BY DEF Discard, bindingVars
  <2>4. ~ UNCHANGED vars
    BY DEF vars, bindingVars
  <2> QED BY <2>1, <2>2, <2>3, <2>4 DEF Next, Client
<1>4. Wanted(s) /\ listener[s].phase \in {"answered", "started"}
  <2>1. CASE Install(s)
    BY <2>1 DEF Install
  <2>2. CASE Deliver(s)
    <3>1. Wanted(s) /\ listener[s].tail # <<>> /\ listener[s] \in Listener
      BY <1>1, <2>2 DEF Deliver, TypeOK
    <3> QED BY <1>1, <3>1 DEF ListenerAt, Wanted, Listener
  <2> QED BY <1>3, <2>1, <2>2
<1>5. listener'[s].phase = "started" /\ listener'[s].revision = revision'
  <2>1. listener[s] \in Listener /\ listener \in [Subs -> Listener] /\ listener[s].revision = revision
    BY <1>1, <1>4 DEF TypeOK, Wanted
  <2>2. CASE Install(s)
    BY <2>1, <2>2 DEF Install, Listener
  <2>3. CASE Deliver(s)
    <3>1. listener[s].phase = "started"
      BY <1>1, <1>4, <2>3 DEF Deliver, ListenerAt
    <3> QED BY <2>1, <2>3, <3>1 DEF Deliver, Listener
  <2> QED BY <1>3, <2>2, <2>3
<1>6. facade' \in Version
  BY <1>1, <1>5 DEF ListenerAt
<1> QED BY <1>6 DEF Version, Cold

\* The replica never meets a gap: once a binding shows a state it is not cleared
\* until the binding is disposed or bound anew.
THEOREM NeverClearedAlways == Spec => [][NeverCleared]_vars
BY StepNeverClears, SubscriptionsAlways, PTL DEF Spec

=============================================================================
