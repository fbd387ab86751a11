------------------------ MODULE CommandQueue_proofs -------------------------
(***************************************************************************)
(* Proofs about CommandQueue, for every set of lanes, entries, limits and  *)
(* priorities.  All of the invariants are established together: whether a  *)
(* lane keeps its slots busy depends on whether its slots are owned and    *)
(* its queue holds each entry once.                                        *)
(***************************************************************************)
EXTENDS CommandQueue, FiniteSetTheorems, SequenceTheorems, WellFoundedInduction,
        TLAPS

-----------------------------------------------------------------------------
(* One lane: pumping the queue q into the slots a, at most m of them.       *)

Distinct(q) == \A i, j \in 1 .. Len(q) : q[i] = q[j] => i = j

\* The part of a sequence behind its first n elements.
LEMMA Suffix ==
    ASSUME NEW S, NEW q \in Seq(S), NEW n \in 0 .. Len(q)
    PROVE  /\ SubSeq(q, n + 1, Len(q)) \in Seq(S)
           /\ Len(SubSeq(q, n + 1, Len(q))) = Len(q) - n
           /\ \A i \in 1 .. Len(q) - n : SubSeq(q, n + 1, Len(q))[i] = q[n + i]
<1>1. Len(q) \in Nat /\ n \in Nat
  OBVIOUS
<1>2. PICK k \in Int : k = n + 1
  BY <1>1
<1>3. \A i \in k .. Len(q) : q[i] \in S
  BY <1>1, <1>2
<1>4. /\ SubSeq(q, k, Len(q)) \in Seq(S)
      /\ Len(SubSeq(q, k, Len(q))) = IF k <= Len(q) THEN Len(q) - k + 1 ELSE 0
      /\ \A i \in 1 .. Len(q) - k + 1 : SubSeq(q, k, Len(q))[i] = q[k + i - 1]
  <2>1. k \in Int /\ Len(q) \in Int
    BY <1>1, <1>2
  <2> QED
    BY <1>3, <2>1, SubSeqProperties
<1>5. Len(SubSeq(q, k, Len(q))) = Len(q) - n
  BY <1>1, <1>2, <1>4
<1>6. \A i \in 1 .. Len(q) - n : i \in 1 .. Len(q) - k + 1 /\ k + i - 1 = n + i
  BY <1>1, <1>2
<1>7. \A i \in 1 .. Len(q) - n : SubSeq(q, k, Len(q))[i] = q[n + i]
  BY <1>4, <1>6
<1> QED
  BY <1>2, <1>4, <1>5, <1>7

\* How many entries start: no more than wait, no more than fit, and either all
\* that wait or all that fit.
LEMMA StartCountBounds ==
    ASSUME NEW q \in Seq(Entries), NEW a \in SUBSET Entries, NEW m \in Nat
    PROVE  /\ Cardinality(a) \in Nat
           /\ StartCount(q, a, m) \in 0 .. Len(q)
           /\ StartCount(q, a, m) > 0 => Cardinality(a) + StartCount(q, a, m) <= m
           /\ StartCount(q, a, m) < Len(q) => Cardinality(a) + StartCount(q, a, m) >= m
<1>1. Cardinality(a) \in Nat
  BY EntriesAssumption, FS_Subset, FS_CardinalityType
<1>2. Len(q) \in Nat
  OBVIOUS
<1> QED
  BY <1>1, <1>2 DEF StartCount, Min2

\* The entries that start and those that remain partition the queue.
LEMMA StartedRemaining ==
    ASSUME NEW q \in Seq(Entries), NEW a \in SUBSET Entries, NEW m \in Nat
    PROVE  /\ Remaining(q, a, m) \in Seq(Entries)
           /\ Len(Remaining(q, a, m)) = Len(q) - StartCount(q, a, m)
           /\ \A i \in 1 .. Len(Remaining(q, a, m)) :
                 Remaining(q, a, m)[i] = q[StartCount(q, a, m) + i]
           /\ Started(q, a, m) \subseteq ToSet(q)
           /\ ToSet(q) = Started(q, a, m) \cup ToSet(Remaining(q, a, m))
<1> DEFINE n == StartCount(q, a, m)
           r == Remaining(q, a, m)
<1>1. n \in 0 .. Len(q) /\ n \in Int /\ Len(q) \in Nat /\ DOMAIN q = 1 .. Len(q)
  BY StartCountBounds
<1>2. r = SubSeq(q, n + 1, Len(q))
  BY DEF Remaining
<1>3. /\ r \in Seq(Entries)
      /\ Len(r) = Len(q) - n
      /\ \A i \in 1 .. Len(r) : r[i] = q[n + i]
  <2> HIDE DEF n, r
  <2> QED
    BY <1>1, <1>2, Suffix
<1>4. DOMAIN r = 1 .. Len(r)
  BY <1>3
<1>5. \A i \in 1 .. Len(r) : r[i] = q[n + i]
  BY <1>3
<1>6. Started(q, a, m) = {q[i] : i \in 1 .. n}
  BY DEF Started
<1>7. Started(q, a, m) \subseteq ToSet(q)
  BY <1>1, <1>6 DEF ToSet
<1>8. ToSet(q) = Started(q, a, m) \cup ToSet(r)
  <2> HIDE DEF n, r
  <2>1. ToSet(r) = {q[n + i] : i \in 1 .. Len(q) - n}
    BY <1>3, <1>4, <1>5 DEF ToSet
  <2>2. \A i \in 1 .. Len(q) : i \in 1 .. n \/ (i - n \in 1 .. Len(q) - n /\ q[i] = q[n + (i - n)])
    BY <1>1
  <2>3. \A i \in 1 .. n : i \in 1 .. Len(q)
    BY <1>1
  <2>4. \A i \in 1 .. Len(q) - n : n + i \in 1 .. Len(q)
    BY <1>1
  <2>5. ToSet(q) = {q[i] : i \in 1 .. Len(q)}
    BY <1>1 DEF ToSet
  <2> QED
    BY <1>6, <2>1, <2>2, <2>3, <2>4, <2>5
<1> QED
  BY <1>3, <1>4, <1>5, <1>7, <1>8

\* In a queue without repetitions they are disjoint, and each start is counted.
LEMMA StartedDistinct ==
    ASSUME NEW q \in Seq(Entries), NEW a \in SUBSET Entries, NEW m \in Nat, Distinct(q)
    PROVE  /\ Distinct(Remaining(q, a, m))
           /\ Started(q, a, m) \cap ToSet(Remaining(q, a, m)) = {}
           /\ IsFiniteSet(Started(q, a, m))
           /\ Cardinality(Started(q, a, m)) = StartCount(q, a, m)
<1> DEFINE n == StartCount(q, a, m)
           r == Remaining(q, a, m)
<1>1. n \in 0 .. Len(q) /\ n \in Nat /\ Len(q) \in Nat /\ DOMAIN q = 1 .. Len(q)
  <2>1. n \in 0 .. Len(q)
    BY StartCountBounds
  <2> HIDE DEF n
  <2> QED
    BY <2>1
<1>2. /\ r \in Seq(Entries)
      /\ Len(r) = Len(q) - n
      /\ \A i \in 1 .. Len(r) : r[i] = q[n + i]
  BY StartedRemaining
<1>3. DOMAIN r = 1 .. Len(r)
  BY <1>2
<1> HIDE DEF n, r
<1>4. Distinct(r)
  <2> SUFFICES ASSUME NEW i \in 1 .. Len(r), NEW j \in 1 .. Len(r), r[i] = r[j]
               PROVE  i = j
    BY DEF Distinct
  <2>1. n + i \in 1 .. Len(q) /\ n + j \in 1 .. Len(q)
    BY <1>1, <1>2
  <2>2. q[n + i] = q[n + j]
    BY <1>2
  <2> QED
    BY <1>1, <2>1, <2>2 DEF Distinct
<1>5. Started(q, a, m) = {q[i] : i \in 1 .. n}
  BY DEF Started, n
<1>6. Started(q, a, m) \cap ToSet(r) = {}
  <2> SUFFICES ASSUME NEW i \in 1 .. n, NEW j \in 1 .. Len(r), q[i] = r[j]
               PROVE  FALSE
    BY <1>3, <1>5 DEF ToSet
  <2>1. i \in 1 .. Len(q) /\ n + j \in 1 .. Len(q) /\ i # n + j
    BY <1>1, <1>2
  <2> QED
    BY <1>2, <2>1 DEF Distinct
<1>7. IsFiniteSet(1 .. n) /\ Cardinality(1 .. n) = n
  BY <1>1, FS_Interval
<1>8. ExistsBijection(1 .. n, Started(q, a, m))
  <2> DEFINE f == [i \in 1 .. n |-> q[i]]
  <2>1. f \in Injection(1 .. n, Started(q, a, m))
    BY <1>1, <1>5 DEF Injection, IsInjective, Distinct
  <2>2. f \in Surjection(1 .. n, Started(q, a, m))
    BY <1>5 DEF Surjection
  <2> QED
    BY <2>1, <2>2 DEF ExistsBijection, Bijection
<1>9. IsFiniteSet(Started(q, a, m)) /\ Cardinality(Started(q, a, m)) = n
  BY <1>7, <1>8, FS_Bijection
<1> QED
  BY <1>4, <1>6, <1>9 DEF n, r

-----------------------------------------------------------------------------
(* One queue: inserting an entry.                                           *)

InOrder(q, e) == \A i, j \in 1 .. Len(q) : i < j => Behind(e[q[j]], e[q[i]])

\* r is q with x inserted at position k.
Inserted(r, q, k, x) ==
    /\ r \in Seq(Entries)
    /\ Len(r) = Len(q) + 1
    /\ \A i \in 1 .. Len(r) : r[i] = IF i < k THEN q[i] ELSE IF i = k THEN x ELSE q[i - 1]

LEMMA InsertAtInserts ==
    ASSUME NEW q \in Seq(Entries), NEW x \in Entries, NEW k \in 1 .. Len(q)
    PROVE  Inserted(InsertAt(q, k, x), q, k, x)
<1> DEFINE front == SubSeq(q, 1, k - 1)
           back == SubSeq(q, k, Len(q))
<1>1. Len(q) \in Nat /\ k \in Nat /\ k - 1 \in 0 .. Len(q) /\ k >= 1 /\ k <= Len(q)
  OBVIOUS
<1>2. /\ front \in Seq(Entries)
      /\ Len(front) = k - 1
      /\ \A i \in 1 .. k - 1 : front[i] = q[i]
  OBVIOUS
<1>3. /\ back \in Seq(Entries)
      /\ Len(back) = Len(q) - k + 1
      /\ \A i \in 1 .. Len(q) - k + 1 : back[i] = q[k - 1 + i]
  <2> DEFINE n == k - 1
  <2>1. n \in 0 .. Len(q) /\ n + 1 = k /\ Len(q) - n = Len(q) - k + 1
    BY <1>1
  <2> HIDE DEF n
  <2>2. /\ SubSeq(q, n + 1, Len(q)) \in Seq(Entries)
        /\ Len(SubSeq(q, n + 1, Len(q))) = Len(q) - n
        /\ \A i \in 1 .. Len(q) - n : SubSeq(q, n + 1, Len(q))[i] = q[n + i]
    BY <2>1, Suffix
  <2> QED
    BY <2>1, <2>2 DEF n
<1>4. InsertAt(q, k, x) = front \o <<x>> \o back
  BY DEF InsertAt
<1> HIDE DEF front, back
<1>5. /\ front \o <<x>> \in Seq(Entries)
      /\ Len(front \o <<x>>) = k
      /\ \A i \in 1 .. k : (front \o <<x>>)[i] = IF i < k THEN q[i] ELSE x
  BY <1>1, <1>2
<1> DEFINE head == front \o <<x>>
<1>6. /\ head \in Seq(Entries) /\ Len(head) = k
      /\ \A i \in 1 .. k : head[i] = IF i < k THEN q[i] ELSE x
  BY <1>5
<1>7. InsertAt(q, k, x) = head \o back
  BY <1>4
<1> HIDE DEF head
<1>8. /\ head \o back \in Seq(Entries)
      /\ Len(head \o back) = Len(q) + 1
      /\ \A i \in 1 .. Len(q) + 1 :
            (head \o back)[i] = IF i <= k THEN head[i] ELSE back[i - k]
  <2>1. /\ head \o back \in Seq(Entries)
        /\ Len(head \o back) = Len(head) + Len(back)
        /\ \A i \in 1 .. Len(head) + Len(back) :
              (head \o back)[i] = IF i <= Len(head) THEN head[i] ELSE back[i - Len(head)]
    BY <1>3, <1>6, ConcatProperties
  <2>2. Len(head) = k /\ Len(head) + Len(back) = Len(q) + 1
    BY <1>1, <1>3, <1>6
  <2> QED
    BY <2>1, <2>2
<1>9. ASSUME NEW i \in 1 .. Len(q) + 1
      PROVE  (head \o back)[i] = IF i < k THEN q[i] ELSE IF i = k THEN x ELSE q[i - 1]
  <2>1. CASE i <= k
    <3>1. i \in 1 .. k /\ (~(i < k) => i = k)
      BY <1>1, <2>1
    <3>2. (head \o back)[i] = head[i]
      BY <1>8, <2>1
    <3>3. head[i] = IF i < k THEN q[i] ELSE x
      BY <1>6, <3>1
    <3> QED
      BY <3>1, <3>2, <3>3, Zenon
  <2>2. CASE i > k
    <3>1. i - k \in 1 .. Len(q) - k + 1 /\ k - 1 + (i - k) = i - 1
      BY <1>1, <2>2
    <3>2. back[i - k] = q[i - 1]
      BY <1>3, <3>1
    <3> QED
      <4>1. ~(i <= k) /\ ~(i < k) /\ i # k
        BY <1>1, <2>2
      <4>2. (head \o back)[i] = back[i - k]
        BY <1>8, <4>1, Zenon
      <4> QED
        BY <3>2, <4>1, <4>2
  <2>3. i <= k \/ i > k
    BY <1>1
  <2> QED
    BY <2>1, <2>2, <2>3, Zenon
<1> QED
  BY <1>7, <1>8, <1>9 DEF Inserted

LEMMA LeastElement ==
    ASSUME NEW S \in SUBSET Nat, S # {}
    PROVE  \E k \in S : \A i \in S : k <= i
<1>1. PICK k \in S : \A i \in S : ~ (<<i, k>> \in OpToRel(<, Nat))
  BY NatLessThanWellFounded, WFMin
<1>2. \A i \in S : ~ (i < k)
  BY <1>1 DEF OpToRel
<1> QED
  BY <1>2

\* The place an entry takes: everything before it stays ahead of it, and what
\* is at its place belongs behind it.
LEMMA EnqueuedInserts ==
    ASSUME NEW q \in Seq(Entries), NEW x \in Entries, NEW e
    PROVE  \E k \in 1 .. Len(q) + 1 :
              /\ Inserted(Enqueued(q, x, e), q, k, x)
              /\ \A i \in 1 .. Len(q) : i < k => ~Behind(e[q[i]], e[x])
              /\ k \in 1 .. Len(q) => Behind(e[q[k]], e[x])
<1> DEFINE later == {i \in 1 .. Len(q) : Behind(e[q[i]], e[x])}
<1>1. Len(q) \in Nat /\ later \subseteq 1 .. Len(q)
  OBVIOUS
<1>2. Enqueued(q, x, e) = IF later = {} THEN Append(q, x) ELSE InsertAt(q, Min(later), x)
  BY DEF Enqueued
<1>3. CASE later = {}
  <2>1. Inserted(Append(q, x), q, Len(q) + 1, x)
    BY <1>1 DEF Inserted
  <2>2. \A i \in 1 .. Len(q) : ~Behind(e[q[i]], e[x])
    BY <1>3
  <2>3. Len(q) + 1 \in 1 .. Len(q) + 1 /\ Len(q) + 1 \notin 1 .. Len(q)
    BY <1>1
  <2> QED
    BY <1>2, <1>3, <2>1, <2>2, <2>3
<1>4. CASE later # {}
  <2>1. PICK k \in later : \A i \in later : k <= i
    <3>1. later \in SUBSET Nat
      BY <1>1
    <3> HIDE DEF later
    <3> QED
      BY <1>4, <3>1, LeastElement
  <2>2. Min(later) = k
    BY <1>1, <2>1 DEF Min
  <2>3. k \in 1 .. Len(q) /\ Behind(e[q[k]], e[x])
    BY <2>1
  <2>4. \A i \in 1 .. Len(q) : i < k => ~Behind(e[q[i]], e[x])
    BY <1>1, <2>1
  <2>5. Inserted(InsertAt(q, k, x), q, k, x)
    BY <2>3, InsertAtInserts
  <2>6. k \in 1 .. Len(q) + 1
    BY <1>1, <2>3
  <2> QED
    BY <1>2, <1>4, <2>2, <2>3, <2>4, <2>5, <2>6
<1> QED
  BY <1>3, <1>4

\* Inserting a new entry keeps the queue free of repetitions and in order.
LEMMA EnqueuedProperties ==
    ASSUME NEW q \in Seq(Entries), NEW x \in Entries, NEW e \in [Entries -> Entry],
           Distinct(q), x \notin ToSet(q), InOrder(q, e),
           \A y \in ToSet(q) : e[y].sequence < e[x].sequence
    PROVE  /\ Enqueued(q, x, e) \in Seq(Entries)
           /\ Distinct(Enqueued(q, x, e))
           /\ ToSet(Enqueued(q, x, e)) = ToSet(q) \cup {x}
           /\ InOrder(Enqueued(q, x, e), e)
<1> DEFINE r == Enqueued(q, x, e)
<1>1. PICK k \in 1 .. Len(q) + 1 :
         /\ Inserted(r, q, k, x)
         /\ \A i \in 1 .. Len(q) : i < k => ~Behind(e[q[i]], e[x])
         /\ k \in 1 .. Len(q) => Behind(e[q[k]], e[x])
  BY EnqueuedInserts
<1> HIDE DEF r
<1>2. /\ r \in Seq(Entries)
      /\ Len(r) = Len(q) + 1
      /\ \A i \in 1 .. Len(r) : r[i] = IF i < k THEN q[i] ELSE IF i = k THEN x ELSE q[i - 1]
  BY <1>1 DEF Inserted
<1>3. Len(q) \in Nat /\ k \in Nat /\ DOMAIN q = 1 .. Len(q) /\ DOMAIN r = 1 .. Len(r)
  BY <1>2
<1>4. \A i \in 1 .. Len(q) : q[i] # x /\ q[i] \in Entries /\ q[i] \in ToSet(q)
  BY <1>3 DEF ToSet
<1>5. \A i \in 1 .. Len(r) :
         \/ i < k /\ i \in 1 .. Len(q) /\ r[i] = q[i]
         \/ i = k /\ r[i] = x
         \/ k < i /\ i - 1 \in 1 .. Len(q) /\ r[i] = q[i - 1]
  BY <1>2, <1>3
<1>6. Distinct(r)
  <2> SUFFICES ASSUME NEW i \in 1 .. Len(r), NEW j \in 1 .. Len(r), r[i] = r[j]
               PROVE  i = j
    BY DEF Distinct
  <2>1. CASE i = k \/ j = k
    BY <1>3, <1>4, <1>5, <2>1
  <2>2. CASE i # k /\ j # k
    <3> DEFINE place(n) == IF n < k THEN n ELSE n - 1
    <3>1. \A n \in 1 .. Len(r) : n # k => place(n) \in 1 .. Len(q) /\ r[n] = q[place(n)]
      BY <1>3, <1>5
    <3>2. place(i) \in 1 .. Len(q) /\ place(j) \in 1 .. Len(q) /\ q[place(i)] = q[place(j)]
      BY <2>2, <3>1
    <3>3. place(i) = place(j)
      BY <3>2 DEF Distinct
    <3> QED
      BY <1>2, <1>3, <2>2, <3>3
  <2> QED
    BY <2>1, <2>2
<1>7. ToSet(r) = ToSet(q) \cup {x}
  <2>1. ToSet(r) \subseteq ToSet(q) \cup {x}
    BY <1>3, <1>4, <1>5 DEF ToSet
  <2>2. x \in ToSet(r)
    <3>1. k \in 1 .. Len(r) /\ r[k] = x
      BY <1>2, <1>3
    <3> QED
      BY <1>3, <3>1 DEF ToSet
  <2>3. ASSUME NEW i \in 1 .. Len(q) PROVE q[i] \in ToSet(r)
    <3>1. CASE i < k
      <4>1. i \in 1 .. Len(r) /\ r[i] = q[i]
        BY <1>2, <1>3, <3>1
      <4> QED
        BY <1>3, <4>1 DEF ToSet
    <3>2. CASE i >= k
      <4>1. i + 1 \in 1 .. Len(r) /\ ~(i + 1 < k) /\ i + 1 # k /\ (i + 1) - 1 = i
        BY <1>2, <1>3, <3>2
      <4>2. r[i + 1] = q[i]
        BY <1>2, <4>1
      <4> QED
        BY <1>3, <4>1, <4>2 DEF ToSet
    <3> QED
      BY <1>3, <3>1, <3>2
  <2> QED
    BY <1>3, <2>1, <2>2, <2>3 DEF ToSet
<1>8. /\ \A y \in Entries : e[y].priority \in Int /\ e[y].sequence \in Nat
      /\ \A i \in 1 .. Len(q) : e[q[i]].sequence < e[x].sequence
  <2>1. \A y \in Entries : e[y] \in Entry
    OBVIOUS
  <2>2. Priorities \cup {0} \subseteq Int
    BY NumbersAssumption
  <2> QED
    BY <1>4, <2>1, <2>2 DEF Entry
<1>9. \A i \in 1 .. Len(q) : i < k => Behind(e[x], e[q[i]])
  BY <1>1, <1>4, <1>8 DEF Behind
<1>10. \A i \in 1 .. Len(q) : i >= k => Behind(e[q[i]], e[x])
  <2> TAKE i \in 1 .. Len(q)
  <2> HAVE i >= k
  <2>1. k \in 1 .. Len(q) /\ Behind(e[q[k]], e[x])
    BY <1>1, <1>3
  <2>2. i = k \/ Behind(e[q[i]], e[q[k]])
    BY <1>3, <2>1 DEF InOrder
  <2> QED
    BY <1>4, <1>8, <2>1, <2>2 DEF Behind
<1>11. InOrder(r, e)
  <2> SUFFICES ASSUME NEW i \in 1 .. Len(r), NEW j \in 1 .. Len(r), i < j
               PROVE  Behind(e[r[j]], e[r[i]])
    BY DEF InOrder
  <2>1. CASE j < k
    BY <1>3, <1>5, <2>1 DEF InOrder
  <2>2. CASE j = k
    BY <1>3, <1>5, <1>9, <2>2
  <2>3. CASE k < j
    <3>1. j - 1 \in 1 .. Len(q) /\ r[j] = q[j - 1] /\ j - 1 >= k
      BY <1>3, <1>5, <2>3
    <3>2. CASE i < k
      <4>1. i \in 1 .. Len(q) /\ r[i] = q[i] /\ i < j - 1
        BY <1>3, <1>5, <3>1, <3>2
      <4> QED
        BY <3>1, <4>1 DEF InOrder
    <3>3. CASE i = k
      BY <1>3, <1>5, <1>10, <3>1, <3>3
    <3>4. CASE k < i
      <4>1. i - 1 \in 1 .. Len(q) /\ r[i] = q[i - 1] /\ i - 1 < j - 1
        BY <1>3, <1>5, <3>1, <3>4
      <4> QED
        BY <3>1, <4>1 DEF InOrder
    <3> QED
      BY <1>3, <3>2, <3>3, <3>4
  <2> QED
    BY <1>3, <2>1, <2>2, <2>3
<1> QED
  BY <1>2, <1>6, <1>7, <1>11 DEF r

-----------------------------------------------------------------------------
(* All lanes.  The invariants as operators of the queues q, slots a,        *)
(* entries e, generations g and limits m, so that they can be stated of the *)
(* state in which an action calls drainLane.                                *)

Holder(e, g, l, x) ==
    e[x].lane = l /\ e[x].promise = "pending" /\ e[x].body # "none" /\ e[x].generation = g[l]

Owned(a, e, g) == \A l \in Lanes : a[l] = {x \in Entries : Holder(e, g, l, x)}

\* A run belongs to the current generation of its lane or to a past one.
Past(e, g) == \A x \in Entries : e[x].promise = "pending" /\ e[x].body # "none" =>
                                   e[x].generation <= g[e[x].lane]

Waits(e, l, x) == e[x].lane = l /\ e[x].promise = "pending" /\ e[x].body = "none"

Lossless(q, e) ==
    /\ \A l \in Lanes : \A x \in Entries : x \in ToSet(q[l]) <=> Waits(e, l, x)
    /\ \A l \in Lanes : Distinct(q[l])

Sorted(q, e) == \A l \in Lanes : InOrder(q[l], e)

Busy(q, a, m, l) == q[l] # <<>> => Cardinality(a[l]) >= m[l]

\* Every pending entry was given a sequence number already.
SequencesIssued ==
    \A x \in Entries : entry[x].promise = "pending" => entry[x].sequence < nextQueueSequence

\* Nothing runs before it is submitted.
UnsubmittedIdle ==
    \A x \in Entries : entry[x].promise = "unsubmitted" => entry[x].body = "none"

\* The conjunction that is inductive.
IInv == /\ TypeOK
        /\ Owned(active, entry, generation)
        /\ Past(entry, generation)
        /\ Lossless(queue, entry)
        /\ Sorted(queue, entry)
        /\ \A l \in Lanes : Busy(queue, active, maxConcurrent, l)
        /\ SequencesIssued
        /\ UnsubmittedIdle
        /\ NoForgottenWaiter

\* A state in which the lanes ls may be drained: the other lanes are busy.
Consistent(ls, q, a, e, m, g) ==
    /\ ls \in SUBSET Lanes
    /\ q \in [Lanes -> Seq(Entries)]
    /\ a \in [Lanes -> SUBSET Entries]
    /\ e \in [Entries -> Entry]
    /\ m \in [Lanes -> Nat]
    /\ g \in [Lanes -> Nat]
    /\ Owned(a, e, g)
    /\ Past(e, g)
    /\ Lossless(q, e)
    /\ Sorted(q, e)
    /\ \A l \in Lanes \ ls : Busy(q, a, m, l)

\* What the state q2, a2, e2 after the drain has, and how it follows a, e.
Drained(q2, a2, e2, a, e, m, g) ==
    /\ q2 \in [Lanes -> Seq(Entries)]
    /\ a2 \in [Lanes -> SUBSET Entries]
    /\ e2 \in [Entries -> Entry]
    /\ Owned(a2, e2, g)
    /\ Past(e2, g)
    /\ Lossless(q2, e2)
    /\ Sorted(q2, e2)
    /\ \A l \in Lanes : Busy(q2, a2, m, l)
    /\ \A x \in Entries : e2[x].promise = e[x].promise /\ e2[x].sequence = e[x].sequence
    /\ \A l \in Lanes : a[l] \subseteq a2[l]
    /\ \A l \in Lanes : a2[l] = a[l] \/ Cardinality(a2[l]) <= m[l]
    /\ \A x \in Entries : e2[x].body # e[x].body =>
          /\ e[x].promise = "pending"
          /\ \A y \in ToSet(q2[e2[x].lane]) : Behind(e2[y], e2[x])

LEMMA DrainConsistent ==
    ASSUME NEW ls, NEW q, NEW a, NEW e, NEW m, NEW g, Consistent(ls, q, a, e, m, g)
    PROVE  Drained(QueuesAfter(ls, q, a, m), SlotsAfter(ls, q, a, m),
                   EntriesAfter(ls, q, a, m, g, e), a, e, m, g)
<1> DEFINE q2 == QueuesAfter(ls, q, a, m)
           a2 == SlotsAfter(ls, q, a, m)
           e2 == EntriesAfter(ls, q, a, m, g, e)
<1>def. /\ q2 = QueuesAfter(ls, q, a, m)
        /\ a2 = SlotsAfter(ls, q, a, m)
        /\ e2 = EntriesAfter(ls, q, a, m, g, e)
  OBVIOUS
<1>asm. /\ ls \in SUBSET Lanes
        /\ q \in [Lanes -> Seq(Entries)] /\ a \in [Lanes -> SUBSET Entries]
        /\ e \in [Entries -> Entry] /\ m \in [Lanes -> Nat] /\ g \in [Lanes -> Nat]
        /\ Owned(a, e, g) /\ Past(e, g) /\ Lossless(q, e) /\ Sorted(q, e)
        /\ \A l \in Lanes \ ls : Busy(q, a, m, l)
  BY DEF Consistent
<1> HIDE DEF q2, a2, e2
<1> USE <1>def, <1>asm
<1> DEFINE s(l) == Starting(ls, q, a, m, l)
<1>1. ASSUME NEW l \in Lanes
      PROVE  /\ q[l] \in Seq(Entries) /\ a[l] \in SUBSET Entries /\ m[l] \in Nat
             /\ IsFiniteSet(a[l]) /\ Cardinality(a[l]) \in Nat /\ Len(q[l]) \in Nat
             /\ Distinct(q[l])
  BY EntriesAssumption, FS_Subset, FS_CardinalityType DEF Lossless
<1>pump. ASSUME NEW l \in Lanes, l \in ls
         PROVE  LET n == StartCount(q[l], a[l], m[l])
                IN  /\ s(l) = Started(q[l], a[l], m[l])
                    /\ n \in 0 .. Len(q[l])
                    /\ n > 0 => Cardinality(a[l]) + n <= m[l]
                    /\ n < Len(q[l]) => Cardinality(a[l]) + n >= m[l]
                    /\ q2[l] \in Seq(Entries)
                    /\ Len(q2[l]) = Len(q[l]) - n
                    /\ \A i \in 1 .. Len(q2[l]) : q2[l][i] = q[l][n + i]
                    /\ s(l) \subseteq ToSet(q[l])
                    /\ ToSet(q[l]) = s(l) \cup ToSet(q2[l])
                    /\ Distinct(q2[l])
                    /\ s(l) \cap ToSet(q2[l]) = {}
                    /\ IsFiniteSet(s(l)) /\ Cardinality(s(l)) = n
  <2>1. q2[l] = Remaining(q[l], a[l], m[l]) /\ s(l) = Started(q[l], a[l], m[l])
    BY <1>pump DEF QueuesAfter, Starting
  <2>2. q[l] \in Seq(Entries) /\ a[l] \in SUBSET Entries /\ m[l] \in Nat /\ Distinct(q[l])
    BY <1>1
  <2>3. LET n == StartCount(q[l], a[l], m[l])
        IN  /\ n \in 0 .. Len(q[l])
            /\ n > 0 => Cardinality(a[l]) + n <= m[l]
            /\ n < Len(q[l]) => Cardinality(a[l]) + n >= m[l]
    BY <2>2, StartCountBounds
  <2>4. /\ Remaining(q[l], a[l], m[l]) \in Seq(Entries)
        /\ Len(Remaining(q[l], a[l], m[l])) = Len(q[l]) - StartCount(q[l], a[l], m[l])
        /\ \A i \in 1 .. Len(Remaining(q[l], a[l], m[l])) :
              Remaining(q[l], a[l], m[l])[i] = q[l][StartCount(q[l], a[l], m[l]) + i]
        /\ Started(q[l], a[l], m[l]) \subseteq ToSet(q[l])
        /\ ToSet(q[l]) = Started(q[l], a[l], m[l]) \cup ToSet(Remaining(q[l], a[l], m[l]))
    BY <2>2, StartedRemaining
  <2>5. /\ Distinct(Remaining(q[l], a[l], m[l]))
        /\ Started(q[l], a[l], m[l]) \cap ToSet(Remaining(q[l], a[l], m[l])) = {}
        /\ IsFiniteSet(Started(q[l], a[l], m[l]))
        /\ Cardinality(Started(q[l], a[l], m[l])) = StartCount(q[l], a[l], m[l])
    BY <2>2, StartedDistinct
  <2> HIDE DEF s
  <2> QED
    BY <2>1, <2>3, <2>4, <2>5
<1>2. ASSUME NEW l \in Lanes
      PROVE  /\ q2[l] \in Seq(Entries)
             /\ s(l) \subseteq ToSet(q[l])
             /\ ToSet(q[l]) = s(l) \cup ToSet(q2[l])
             /\ s(l) \cap ToSet(q2[l]) = {}
             /\ Distinct(q2[l])
             /\ IsFiniteSet(s(l))
  <2>1. CASE l \in ls
    <3> HIDE DEF s
    <3> QED
      BY <1>pump, <2>1
  <2>2. CASE l \notin ls
    <3>1. q2[l] = q[l] /\ s(l) = {}
      BY <2>2 DEF QueuesAfter, Starting
    <3> QED
      BY <1>1, <3>1, FS_EmptySet
  <2> QED
    BY <2>1, <2>2
<1>3. \A l \in Lanes : a2[l] = a[l] \cup s(l)
  BY DEF SlotsAfter
<1>4. \A l \in Lanes : \A x \in s(l) : x \in Entries /\ Waits(e, l, x)
  <2> TAKE l \in Lanes
  <2>1. \A x \in s(l) : x \in ToSet(q[l])
    BY <1>2
  <2>2. \A x \in ToSet(q[l]) : x \in Entries
    BY <1>1 DEF ToSet
  <2> QED
    BY <2>1, <2>2 DEF Lossless
<1>5. ASSUME NEW x \in Entries
      PROVE  /\ e2[x] \in Entry
             /\ e2[x].promise = e[x].promise /\ e2[x].sequence = e[x].sequence
             /\ e2[x].lane = e[x].lane /\ e2[x].priority = e[x].priority
             /\ x \in s(e[x].lane) =>
                   e2[x].body = "executing" /\ e2[x].generation = g[e[x].lane]
             /\ x \notin s(e[x].lane) => e2[x] = e[x]
  <2>1. e[x] \in Entry /\ e[x].lane \in Lanes
    BY DEF Entry
  <2>2. g[e[x].lane] \in Nat
    BY <2>1
  <2>3. (\E l \in Lanes : x \in s(l)) <=> x \in s(e[x].lane)
    BY <1>4, <2>1 DEF Waits
  <2>4. e2[x] = IF x \in s(e[x].lane)
                THEN [e[x] EXCEPT !.body = "executing", !.generation = g[e[x].lane]]
                ELSE e[x]
    BY <2>3 DEF EntriesAfter
  <2> HIDE DEF s
  <2> QED
    BY <2>1, <2>2, <2>4 DEF Entry
<1> HIDE DEF s
<1>6. /\ q2 \in [Lanes -> Seq(Entries)]
      /\ a2 \in [Lanes -> SUBSET Entries]
      /\ e2 \in [Entries -> Entry]
  <2>1. q2 = [l \in Lanes |-> q2[l]] /\ a2 = [l \in Lanes |-> a2[l]] /\ e2 = [x \in Entries |-> e2[x]]
    BY DEF QueuesAfter, SlotsAfter, EntriesAfter
  <2>2. \A l \in Lanes : q2[l] \in Seq(Entries)
    BY <1>2
  <2>3. \A l \in Lanes : a2[l] \in SUBSET Entries
    BY <1>1, <1>3, <1>4
  <2>4. \A x \in Entries : e2[x] \in Entry
    BY <1>5
  <2> QED
    BY <2>1, <2>2, <2>3, <2>4
<1>7. Owned(a2, e2, g)
  <2> SUFFICES ASSUME NEW l \in Lanes, NEW x \in Entries
               PROVE  x \in a2[l] <=> Holder(e2, g, l, x)
    BY <1>6 DEF Owned
  <2>1. x \in a[l] <=> Holder(e, g, l, x)
    BY DEF Owned
  <2>2. x \in a2[l] <=> x \in a[l] \/ x \in s(l)
    BY <1>3
  <2>3. CASE x \in s(e[x].lane)
    <3>1. e[x].lane \in Lanes
      BY DEF Entry
    <3>2. Waits(e, e[x].lane, x)
      BY <1>4, <2>3, <3>1
    <3>3. x \in s(l) <=> l = e[x].lane
      BY <1>4, <2>3 DEF Waits
    <3> QED
      BY <1>5, <2>1, <2>2, <2>3, <3>2, <3>3 DEF Holder, Waits
  <2>4. CASE x \notin s(e[x].lane)
    <3>1. x \notin s(l)
      BY <1>4, <2>4 DEF Waits
    <3> QED
      BY <1>5, <2>1, <2>2, <2>4, <3>1 DEF Holder
  <2> QED
    BY <2>3, <2>4
<1>8. Lossless(q2, e2)
  <2>1. ASSUME NEW l \in Lanes, NEW x \in Entries
        PROVE  x \in ToSet(q2[l]) <=> Waits(e2, l, x)
    <3>1. x \in ToSet(q[l]) <=> Waits(e, l, x)
      BY DEF Lossless
    <3>2. x \in ToSet(q2[l]) <=> x \in ToSet(q[l]) /\ x \notin s(l)
      BY <1>2
    <3>3. CASE x \in s(e[x].lane)
      BY <1>5, <3>1, <3>2, <3>3 DEF Waits
    <3>4. CASE x \notin s(e[x].lane)
      BY <1>5, <3>1, <3>2, <3>4 DEF Waits
    <3> QED
      BY <3>3, <3>4
  <2> QED
    BY <1>2, <2>1 DEF Lossless
<1>9. Sorted(q2, e2)
  <2> SUFFICES ASSUME NEW l \in Lanes, NEW i \in 1 .. Len(q2[l]), NEW j \in 1 .. Len(q2[l]), i < j
               PROVE  Behind(e2[q2[l][j]], e2[q2[l][i]])
    BY DEF Sorted, InOrder
  <2>1. PICK n \in Nat : \A k \in 1 .. Len(q2[l]) : n + k \in 1 .. Len(q[l]) /\ q2[l][k] = q[l][n + k]
    <3>1. CASE l \in ls
      <4> DEFINE n == StartCount(q[l], a[l], m[l])
      <4>1. /\ n \in 0 .. Len(q[l]) /\ Len(q[l]) \in Nat
            /\ Len(q2[l]) = Len(q[l]) - n
            /\ \A k \in 1 .. Len(q2[l]) : q2[l][k] = q[l][n + k]
        BY <1>1, <1>pump, <3>1
      <4>2. n \in Nat /\ \A k \in 1 .. Len(q2[l]) : n + k \in 1 .. Len(q[l]) /\ q2[l][k] = q[l][n + k]
        <5> HIDE DEF n
        <5>1. n \in Nat /\ Len(q2[l]) \in Nat
          BY <4>1
        <5>2. \A k \in 1 .. Len(q2[l]) : n + k \in 1 .. Len(q[l])
          BY <4>1, <5>1
        <5> QED
          BY <4>1, <5>1, <5>2
      <4> QED
        BY <4>2
    <3>2. CASE l \notin ls
      <4>1. q2[l] = q[l]
        BY <3>2 DEF QueuesAfter
      <4>2. 0 \in Nat /\ \A k \in 1 .. Len(q2[l]) : 0 + k \in 1 .. Len(q[l]) /\ q2[l][k] = q[l][0 + k]
        BY <1>1, <4>1
      <4> QED
        BY <4>2
    <3> QED
      BY <3>1, <3>2
  <2>2. Len(q2[l]) \in Nat /\ n + i < n + j
    BY <1>2, <2>1
  <2>3. Behind(e[q[l][n + j]], e[q[l][n + i]])
    BY <2>1, <2>2 DEF Sorted, InOrder
  <2>4. q2[l][i] \in Entries /\ q2[l][j] \in Entries
    BY <1>2
  <2>5. Behind(e[q2[l][j]], e[q2[l][i]])
    BY <2>1, <2>3
  <2> QED
    BY <1>5, <2>4, <2>5 DEF Behind
<1>10. ASSUME NEW l \in Lanes, l \in ls
       PROVE  /\ Cardinality(a2[l]) = Cardinality(a[l]) + StartCount(q[l], a[l], m[l])
              /\ q2[l] # <<>> => StartCount(q[l], a[l], m[l]) < Len(q[l])
              /\ a2[l] = a[l] \/ StartCount(q[l], a[l], m[l]) > 0
  <2> DEFINE n == StartCount(q[l], a[l], m[l])
  <2>1. n \in 0 .. Len(q[l]) /\ Len(q2[l]) = Len(q[l]) - n
    BY <1>10, <1>pump
  <2>2. Len(q[l]) \in Nat /\ Cardinality(a[l]) \in Nat /\ IsFiniteSet(a[l])
    BY <1>1
  <2>3. IsFiniteSet(s(l)) /\ Cardinality(s(l)) = n
    BY <1>10, <1>pump
  <2>4. a[l] \cap s(l) = {}
    <3>1. \A x \in a[l] : e[x].body # "none"
      BY DEF Owned, Holder
    <3>2. \A x \in s(l) : e[x].body = "none"
      BY <1>4 DEF Waits
    <3> QED
      BY <3>1, <3>2
  <2>5. Cardinality(a2[l]) = Cardinality(a[l]) + Cardinality(s(l)) - Cardinality(a[l] \cap s(l))
    <3>1. a2[l] = a[l] \cup s(l)
      BY <1>3
    <3> QED
      BY <2>2, <2>3, <3>1, FS_Union
  <2>6. Cardinality(a[l] \cap s(l)) = 0
    BY <2>4, FS_EmptySet
  <2> HIDE DEF n
  <2>7. Cardinality(a2[l]) = Cardinality(a[l]) + n
    BY <2>1, <2>2, <2>3, <2>5, <2>6
  <2>8. q2[l] # <<>> => n < Len(q[l])
    <3>1. q2[l] \in Seq(Entries)
      BY <1>2
    <3> QED
      BY <2>1, <2>2, <3>1
  <2>9. n = 0 => s(l) = {}
    BY <2>3, FS_EmptySet
  <2>10. a2[l] = a[l] \/ n > 0
    <3>1. n = 0 \/ n > 0
      BY <2>1, <2>2
    <3>2. n = 0 => a2[l] = a[l]
      BY <1>3, <2>9, Zenon
    <3> QED
      BY <3>1, <3>2
  <2> QED
    BY <2>7, <2>8, <2>10 DEF n
<1>11. \A l \in Lanes : Busy(q2, a2, m, l)
  <2> TAKE l \in Lanes
  <2>1. CASE l \in ls
    BY <1>1, <1>10, <1>pump, <2>1 DEF Busy
  <2>2. CASE l \notin ls
    <3>1. q2[l] = q[l] /\ s(l) = {}
      BY <2>2 DEF QueuesAfter, Starting, s
    <3> QED
      BY <1>3, <2>2, <3>1 DEF Busy
  <2> QED
    BY <2>1, <2>2
<1>12. \A l \in Lanes : a2[l] = a[l] \/ Cardinality(a2[l]) <= m[l]
  <2> TAKE l \in Lanes
  <2>1. CASE l \in ls
    BY <1>1, <1>10, <1>pump, <2>1
  <2>2. CASE l \notin ls
    BY <1>3, <2>2 DEF Starting, s
  <2> QED
    BY <2>1, <2>2
<1>13. ASSUME NEW x \in Entries, e2[x].body # e[x].body
       PROVE  /\ e[x].promise = "pending"
              /\ \A y \in ToSet(q2[e2[x].lane]) : Behind(e2[y], e2[x])
  <2> DEFINE l == e[x].lane
             n == StartCount(q[l], a[l], m[l])
  <2>1. l \in Lanes /\ e2[x].lane = l /\ x \in s(l)
    BY <1>5, <1>13 DEF Entry
  <2> HIDE DEF l
  <2>2. e[x].promise = "pending"
    BY <1>4, <2>1 DEF Waits
  <2>3. l \in ls
    BY <2>1 DEF Starting, s
  <2>4. /\ s(l) = Started(q[l], a[l], m[l])
        /\ n \in 0 .. Len(q[l])
        /\ q2[l] \in Seq(Entries)
        /\ Len(q2[l]) = Len(q[l]) - n
        /\ \A i \in 1 .. Len(q2[l]) : q2[l][i] = q[l][n + i]
    BY <1>pump, <2>1, <2>3
  <2>5. PICK j \in 1 .. n : x = q[l][j]
    BY <2>1, <2>4 DEF Started
  <2>6. InOrder(q[l], e) /\ Len(q[l]) \in Nat
    BY <1>1, <2>1 DEF Sorted
  <2> HIDE DEF n
  <2>7. ASSUME NEW i \in 1 .. Len(q2[l])
        PROVE  Behind(e2[q2[l][i]], e2[x])
    <3>1. n + i \in 1 .. Len(q[l]) /\ j \in 1 .. Len(q[l]) /\ j < n + i
      BY <2>4, <2>6
    <3>2. Behind(e[q[l][n + i]], e[q[l][j]])
      BY <2>6, <3>1 DEF InOrder
    <3>3. q2[l][i] = q[l][n + i] /\ q2[l][i] \in Entries
      BY <2>4
    <3>4. Behind(e[q2[l][i]], e[x])
      BY <2>5, <3>2, <3>3
    <3> QED
      BY <1>5, <3>3, <3>4 DEF Behind
  <2>8. \A y \in ToSet(q2[l]) : \E i \in 1 .. Len(q2[l]) : y = q2[l][i]
    BY <2>4 DEF ToSet
  <2> QED
    BY <2>1, <2>2, <2>7, <2>8
<1>14. Past(e2, g)
  <2> SUFFICES ASSUME NEW x \in Entries, e2[x].promise = "pending", e2[x].body # "none"
               PROVE  e2[x].generation <= g[e2[x].lane]
    BY DEF Past
  <2>1. e[x].lane \in Lanes /\ g[e[x].lane] \in Nat
    BY DEF Entry
  <2>2. CASE x \in s(e[x].lane)
    BY <1>5, <2>1, <2>2
  <2>3. CASE x \notin s(e[x].lane)
    BY <1>5, <2>3 DEF Past
  <2> QED
    BY <2>2, <2>3
<1> QED
  <2>1. Drained(q2, a2, e2, a, e, m, g)
    BY <1>14, <1>3, <1>5, <1>6, <1>7, <1>8, <1>9, <1>11, <1>12, <1>13 DEF Drained
  <2> QED
    BY <2>1, <1>def, Zenon

\* The same of an action that calls drainLane.
LEMMA DrainStep ==
    ASSUME NEW ls, NEW q, NEW a, NEW e,
           Consistent(ls, q, a, e, maxConcurrent', generation'),
           DrainLanes(ls, q, a, e)
    PROVE  Drained(queue', active', entry', a, e, maxConcurrent', generation')
  BY DrainConsistent DEF DrainLanes

\* An action that calls it nowhere.
LEMMA NoDrainStep ==
    ASSUME NEW q, NEW a, NEW e, NEW m, NEW g, Consistent({}, q, a, e, m, g)
    PROVE  Drained(q, a, e, a, e, m, g)
  BY DEF Consistent, Drained

\* What notifying the waiters leaves waiting still has a task among the slots.
LEMMA NotifyStep ==
    ASSUME waiter \in [Waiters -> Waiter], NEW a, NotifyWaiters(a)
    PROVE  /\ waiter' \in [Waiters -> Waiter]
           /\ \A w \in Waiters : waiter'[w].state = "waiting" =>
                 /\ waiter'[w].tasks = waiter[w].tasks
                 /\ HasPendingTask(w, a)
<1>1. \A w \in Waiters : [waiter[w] EXCEPT !.state = "drained"] \in Waiter
                       /\ [waiter[w] EXCEPT !.state = "drained"].state = "drained"
  BY DEF Waiter
<1>2. \A w \in Waiters : waiter'[w] = IF waiter[w].state = "waiting" /\ ~HasPendingTask(w, a)
                                     THEN [waiter[w] EXCEPT !.state = "drained"] ELSE waiter[w]
  BY DEF NotifyWaiters
<1>3. waiter' \in [Waiters -> Waiter]
  BY <1>1 DEF NotifyWaiters
<1> QED
  BY <1>1, <1>2, <1>3

-----------------------------------------------------------------------------
(* The actions.                                                             *)

StepLimit == \A l \in Lanes : active'[l] \subseteq active[l]
                             \/ Cardinality(active'[l]) <= maxConcurrent'[l]

StepOrder == \A x \in Entries : ~HasRun(x) /\ HasRun(x)' =>
                \A y \in ToSet(queue'[entry'[x].lane]) : Behind(entry'[y], entry'[x])

Preserved == IInv' /\ StepLimit /\ StepOrder

\* What is left to show of an action once its lanes are drained.
LEMMA StepPreserves ==
    ASSUME IInv, NEW a, NEW e,
           Drained(queue', active', entry', a, e, maxConcurrent', generation'),
           maxConcurrent' \in [Lanes -> Nat], generation' \in [Lanes -> Nat],
           gatewayDraining' \in BOOLEAN, nextQueueSequence' \in Nat,
           waiter' \in [Waiters -> Waiter],
           \A l \in Lanes : a[l] \subseteq active[l],
           \A x \in Entries : e[x].promise = "pending" => e[x].sequence < nextQueueSequence',
           \A x \in Entries : e[x].promise = "unsubmitted" => e[x].body = "none",
           \A x \in Entries : entry[x].body = "none" => e[x].body = "none",
           \A w \in Waiters : waiter'[w].state = "waiting" =>
                \E l \in Lanes : waiter'[w].tasks \cap active'[l] # {}
    PROVE  Preserved
<1>1. TypeOK'
  BY DEF TypeOK, Drained
<1>2. SequencesIssued'
  <2> SUFFICES ASSUME NEW x \in Entries, entry'[x].promise = "pending"
               PROVE  entry'[x].sequence < nextQueueSequence'
    BY DEF SequencesIssued
  <2>1. entry'[x].promise = e[x].promise /\ entry'[x].sequence = e[x].sequence
    BY DEF Drained
  <2> QED
    BY <2>1
<1>3. UnsubmittedIdle'
  <2> SUFFICES ASSUME NEW x \in Entries, entry'[x].promise = "unsubmitted"
               PROVE  entry'[x].body = "none"
    BY DEF UnsubmittedIdle
  <2>1. e[x].promise = "unsubmitted" /\ entry'[x].body = e[x].body
    BY DEF Drained
  <2> QED
    BY <2>1
<1>4. NoForgottenWaiter'
  BY DEF NoForgottenWaiter, HasPendingTask
<1>5. IInv'
  BY <1>1, <1>2, <1>3, <1>4 DEF IInv, Drained
<1>6. StepLimit
  BY DEF StepLimit, Drained
<1>7. StepOrder
  <2> SUFFICES ASSUME NEW x \in Entries, entry[x].body = "none", entry'[x].body # "none"
               PROVE  \A y \in ToSet(queue'[entry'[x].lane]) : Behind(entry'[y], entry'[x])
    BY DEF StepOrder, HasRun
  <2>1. e[x].body = "none"
    OBVIOUS
  <2> QED
    BY <2>1 DEF Drained
<1> QED
  BY <1>5, <1>6, <1>7 DEF Preserved

\* The facts every action starts from.
LEMMA IInvFacts ==
    ASSUME IInv
    PROVE  /\ queue \in [Lanes -> Seq(Entries)] /\ active \in [Lanes -> SUBSET Entries]
           /\ entry \in [Entries -> Entry] /\ waiter \in [Waiters -> Waiter]
           /\ maxConcurrent \in [Lanes -> Nat] /\ generation \in [Lanes -> Nat]
           /\ gatewayDraining \in BOOLEAN /\ nextQueueSequence \in Nat
           /\ Consistent({}, queue, active, entry, maxConcurrent, generation)
           /\ \A x \in Entries : entry[x].promise = "pending" =>
                                    entry[x].sequence < nextQueueSequence
           /\ \A x \in Entries : entry[x].promise = "unsubmitted" => entry[x].body = "none"
           /\ \A w \in Waiters : waiter[w].state = "waiting" =>
                 \E l \in Lanes : waiter[w].tasks \cap active[l] # {}
  BY DEF IInv, TypeOK, Consistent, SequencesIssued, UnsubmittedIdle, NoForgottenWaiter,
         HasPendingTask

LEMMA InitIInv == Init => IInv
<1> SUFFICES ASSUME Init PROVE IInv
  OBVIOUS
<1>1. Unsubmitted \in Entry /\ Unsubmitted.promise = "unsubmitted" /\ Unsubmitted.body = "none"
  BY LanesAssumption DEF Unsubmitted, Entry
<1>2. \A x \in Entries : entry[x] = Unsubmitted
  BY DEF Init
<1>3. \A l \in Lanes : queue[l] = <<>> /\ active[l] = {}
  BY DEF Init
<1>4. TypeOK
  <2>1. queue \in [Lanes -> Seq(Entries)] /\ active \in [Lanes -> SUBSET Entries]
    BY DEF Init
  <2>2. maxConcurrent \in [Lanes -> Nat] /\ generation \in [Lanes -> Nat]
    BY DEF Init
  <2>3. entry \in [Entries -> Entry]
    BY <1>1 DEF Init
  <2>4. waiter \in [Waiters -> Waiter]
    BY DEF Init, Waiter
  <2>5. gatewayDraining \in BOOLEAN /\ nextQueueSequence \in Nat
    BY DEF Init
  <2> QED
    BY <2>1, <2>2, <2>3, <2>4, <2>5 DEF TypeOK
<1>5. Owned(active, entry, generation)
  BY <1>1, <1>2, <1>3 DEF Owned, Holder
<1>6. Lossless(queue, entry)
  BY <1>1, <1>2, <1>3 DEF Lossless, Waits, Distinct, ToSet
<1>7. Sorted(queue, entry)
  BY <1>3 DEF Sorted, InOrder
<1>8. \A l \in Lanes : Busy(queue, active, maxConcurrent, l)
  BY <1>3 DEF Busy
<1>9. SequencesIssued /\ UnsubmittedIdle /\ Past(entry, generation)
  BY <1>1, <1>2 DEF SequencesIssued, UnsubmittedIdle, Past
<1>10. NoForgottenWaiter
  BY DEF Init, NoForgottenWaiter
<1> QED
  BY <1>4, <1>5, <1>6, <1>7, <1>8, <1>9, <1>10 DEF IInv

LEMMA EnqueueStep ==
    ASSUME IInv, NEW x \in Entries, NEW l \in Lanes, NEW p \in Priorities,
           NEW timed \in BOOLEAN, Enqueue(x, l, p, timed)
    PROVE  Preserved
<1> DEFINE e == [entry EXCEPT ![x] = [@ EXCEPT !.lane = l, !.priority = p,
                    !.sequence = nextQueueSequence, !.timed = timed, !.promise = "pending"]]
           q == [queue EXCEPT ![l] = Enqueued(@, x, e)]
<1>1. /\ TypeOK /\ entry \in [Entries -> Entry] /\ queue \in [Lanes -> Seq(Entries)]
      /\ active \in [Lanes -> SUBSET Entries] /\ nextQueueSequence \in Nat
      /\ entry[x].promise = "unsubmitted" /\ entry[x].body = "none"
      /\ maxConcurrent' = maxConcurrent /\ generation' = generation
      /\ waiter' = waiter /\ gatewayDraining' = gatewayDraining
      /\ nextQueueSequence' = nextQueueSequence + 1
      /\ DrainLanes({l}, q, active, e)
  BY DEF IInv, TypeOK, UnsubmittedIdle, Enqueue
<1>2. /\ e \in [Entries -> Entry]
      /\ e[x].lane = l /\ e[x].promise = "pending" /\ e[x].body = "none"
      /\ e[x].sequence = nextQueueSequence
      /\ \A y \in Entries \ {x} : e[y] = entry[y]
  BY <1>1 DEF Entry
<1> HIDE DEF e
<1>3. /\ \A k \in Lanes : x \notin ToSet(queue[k])
      /\ \A k \in Lanes : \A y \in ToSet(queue[k]) : y \in Entries /\ y # x
            /\ entry[y].sequence < nextQueueSequence
  <2>1. \A k \in Lanes : x \notin ToSet(queue[k])
    BY <1>1 DEF IInv, Lossless, Waits
  <2>2. \A k \in Lanes : \A y \in ToSet(queue[k]) : y \in Entries
    BY <1>1 DEF ToSet
  <2>3. \A k \in Lanes : \A y \in ToSet(queue[k]) : entry[y].promise = "pending"
    BY <2>2 DEF IInv, Lossless, Waits
  <2> QED
    BY <2>1, <2>2, <2>3 DEF IInv, SequencesIssued
<1>4. \A k \in Lanes : InOrder(queue[k], e) /\ Distinct(queue[k])
  <2> TAKE k \in Lanes
  <2>1. \A i \in 1 .. Len(queue[k]) : queue[k][i] \in ToSet(queue[k])
    BY <1>1 DEF ToSet
  <2>2. \A i \in 1 .. Len(queue[k]) : e[queue[k][i]] = entry[queue[k][i]]
    BY <1>2, <1>3, <2>1
  <2>3. InOrder(queue[k], entry) /\ Distinct(queue[k])
    BY DEF IInv, Sorted, Lossless
  <2> QED
    BY <2>2, <2>3 DEF InOrder
<1>5. /\ Enqueued(queue[l], x, e) \in Seq(Entries)
      /\ Distinct(Enqueued(queue[l], x, e))
      /\ ToSet(Enqueued(queue[l], x, e)) = ToSet(queue[l]) \cup {x}
      /\ InOrder(Enqueued(queue[l], x, e), e)
  <2>1. queue[l] \in Seq(Entries) /\ Distinct(queue[l]) /\ InOrder(queue[l], e)
    BY <1>1, <1>4
  <2>2. \A y \in ToSet(queue[l]) : e[y].sequence < e[x].sequence
    BY <1>2, <1>3
  <2> QED
    BY <1>2, <1>3, <2>1, <2>2, EnqueuedProperties
<1>6. q \in [Lanes -> Seq(Entries)] /\ q[l] = Enqueued(queue[l], x, e)
      /\ \A k \in Lanes \ {l} : q[k] = queue[k]
  BY <1>1, <1>5
<1> HIDE DEF q
<1>7. Owned(active, e, generation')
  <2> SUFFICES ASSUME NEW k \in Lanes, NEW y \in Entries
               PROVE  y \in active[k] <=> Holder(e, generation', k, y)
    BY <1>1 DEF Owned
  <2>1. y \in active[k] <=> Holder(entry, generation, k, y)
    BY DEF IInv, Owned
  <2> QED
    BY <1>1, <1>2, <2>1 DEF Holder
<1>past. Past(e, generation')
  BY <1>1, <1>2 DEF IInv, Past
<1>8. Lossless(q, e)
  <2>1. ASSUME NEW k \in Lanes, NEW y \in Entries
        PROVE  y \in ToSet(q[k]) <=> Waits(e, k, y)
    <3>1. y \in ToSet(queue[k]) <=> Waits(entry, k, y)
      BY DEF IInv, Lossless
    <3>2. CASE y = x
      BY <1>2, <1>3, <1>5, <1>6, <3>2 DEF Waits
    <3>3. CASE y # x
      BY <1>2, <1>5, <1>6, <3>1, <3>3 DEF Waits
    <3> QED
      BY <3>2, <3>3
  <2>2. \A k \in Lanes : Distinct(q[k])
    BY <1>4, <1>5, <1>6
  <2> QED
    BY <2>1, <2>2 DEF Lossless
<1>9. Sorted(q, e)
  BY <1>4, <1>5, <1>6 DEF Sorted
<1>10. \A k \in Lanes \ {l} : Busy(q, active, maxConcurrent', k)
  BY <1>1, <1>6 DEF IInv, Busy
<1>11. maxConcurrent' \in [Lanes -> Nat] /\ generation' \in [Lanes -> Nat]
  BY <1>1 DEF TypeOK
<1>12. Drained(queue', active', entry', active, e, maxConcurrent', generation')
  <2>1. Consistent({l}, q, active, e, maxConcurrent', generation')
    BY <1>1, <1>2, <1>6, <1>7, <1>past, <1>8, <1>9, <1>10, <1>11 DEF Consistent
  <2> QED
    BY <1>1, <2>1, DrainStep
<1>13. \A k \in Lanes : active[k] \subseteq active'[k]
  BY <1>12 DEF Drained
<1>14. \A y \in Entries : e[y].promise = "pending" => e[y].sequence < nextQueueSequence'
  <2> SUFFICES ASSUME NEW y \in Entries, e[y].promise = "pending"
               PROVE  e[y].sequence < nextQueueSequence'
    OBVIOUS
  <2>1. CASE y = x
    BY <1>1, <1>2, <2>1
  <2>2. CASE y # x
    <3>1. entry[y].sequence < nextQueueSequence /\ entry[y].sequence \in Nat
      BY <1>1, <1>2, <2>2 DEF IInv, SequencesIssued, Entry
    <3> QED
      BY <1>1, <1>2, <2>2, <3>1
  <2> QED
    BY <2>1, <2>2
<1>15. \A y \in Entries : /\ e[y].promise = "unsubmitted" => e[y].body = "none"
                          /\ entry[y].body = "none" => e[y].body = "none"
  BY <1>1, <1>2 DEF IInv, UnsubmittedIdle
<1>16. /\ waiter' \in [Waiters -> Waiter] /\ gatewayDraining' \in BOOLEAN
       /\ nextQueueSequence' \in Nat
       /\ \A w \in Waiters : waiter'[w].state = "waiting" =>
             \E k \in Lanes : waiter'[w].tasks \cap active'[k] # {}
  <2>1. /\ waiter \in [Waiters -> Waiter] /\ gatewayDraining \in BOOLEAN
        /\ \A w \in Waiters : waiter[w].state = "waiting" =>
              \E k \in Lanes : waiter[w].tasks \cap active[k] # {}
    BY IInvFacts
  <2> QED
    BY <1>1, <1>13, <2>1
<1> QED
  BY <1>11, <1>12, <1>14, <1>15, <1>16, StepPreserves

\* An entry changes and the lanes do not: fine when it neither enters nor
\* leaves the ranks of those that wait or of those that hold a slot.
LEMMA EntryStep ==
    ASSUME IInv, NEW x \in Entries, NEW r \in Entry,
           entry' = [entry EXCEPT ![x] = r],
           r.priority = entry[x].priority, r.sequence = entry[x].sequence,
           r.promise # "unsubmitted", r.promise # "pending",
           entry[x].body = "none" => r.body = "none",
           \A l \in Lanes : ~Holder(entry, generation, l, x) /\ ~Waits(entry, l, x),
           UNCHANGED <<gatewayDraining, laneVars, nextQueueSequence, waiter>>
    PROVE  Preserved
<1>1. /\ queue' = queue /\ active' = active /\ maxConcurrent' = maxConcurrent
      /\ generation' = generation /\ gatewayDraining' = gatewayDraining
      /\ nextQueueSequence' = nextQueueSequence /\ waiter' = waiter
  BY DEF laneVars
<1>2. /\ Consistent({}, queue, active, entry, maxConcurrent, generation)
      /\ waiter \in [Waiters -> Waiter] /\ gatewayDraining \in BOOLEAN
      /\ nextQueueSequence \in Nat
      /\ maxConcurrent \in [Lanes -> Nat] /\ generation \in [Lanes -> Nat]
      /\ \A y \in Entries : entry[y].promise = "pending" => entry[y].sequence < nextQueueSequence
      /\ \A y \in Entries : entry[y].promise = "unsubmitted" => entry[y].body = "none"
      /\ \A w \in Waiters : waiter[w].state = "waiting" =>
            \E l \in Lanes : waiter[w].tasks \cap active[l] # {}
  BY IInvFacts
<1>3. /\ entry \in [Entries -> Entry] /\ queue \in [Lanes -> Seq(Entries)]
      /\ Owned(active, entry, generation) /\ Lossless(queue, entry) /\ Sorted(queue, entry)
      /\ Past(entry, generation)
  BY <1>2 DEF Consistent
<1>4. /\ entry' \in [Entries -> Entry]
      /\ entry'[x] = r
      /\ \A y \in Entries \ {x} : entry'[y] = entry[y]
  BY <1>3
<1>5. \A y \in Entries, l \in Lanes :
         /\ Holder(entry', generation, l, y) <=> Holder(entry, generation, l, y)
         /\ Waits(entry', l, y) <=> Waits(entry, l, y)
  BY <1>4 DEF Holder, Waits
<1>6. Owned(active, entry', generation) /\ Lossless(queue, entry')
  BY <1>3, <1>5 DEF Owned, Lossless
<1>past. Past(entry', generation)
  BY <1>3, <1>4 DEF Past
<1>7. Sorted(queue, entry')
  <2>1. \A y \in Entries : /\ entry'[y].priority = entry[y].priority
                           /\ entry'[y].sequence = entry[y].sequence
    BY <1>4
  <2>2. \A l \in Lanes, i \in Nat : i \in 1 .. Len(queue[l]) => queue[l][i] \in Entries
    BY <1>3
  <2> QED
    BY <1>3, <2>1, <2>2 DEF Sorted, InOrder, Behind
<1>8. Drained(queue', active', entry', active, entry', maxConcurrent', generation')
  <2>1. Consistent({}, queue, active, entry', maxConcurrent, generation)
    BY <1>2, <1>4, <1>6, <1>past, <1>7 DEF Consistent
  <2> QED
    BY <1>1, <2>1, NoDrainStep
<1>9. \A y \in Entries :
         /\ entry'[y].promise = "pending" => entry'[y].sequence < nextQueueSequence'
         /\ entry'[y].promise = "unsubmitted" => entry'[y].body = "none"
         /\ entry[y].body = "none" => entry'[y].body = "none"
  BY <1>1, <1>2, <1>4
<1> QED
  BY <1>1, <1>2, <1>8, <1>9, StepPreserves

LEMMA RefusedStep ==
    ASSUME IInv, NEW x \in Entries, EnqueueRefused(x)
    PROVE  Preserved
<1> DEFINE r == [entry[x] EXCEPT !.promise = "refused"]
<1>1. entry[x].promise = "unsubmitted" /\ entry' = [entry EXCEPT ![x] = r]
      /\ UNCHANGED <<gatewayDraining, laneVars, nextQueueSequence, waiter>>
  BY DEF EnqueueRefused
<1>2. entry[x] \in Entry
  BY IInvFacts
<1>3. /\ r \in Entry /\ r.priority = entry[x].priority /\ r.sequence = entry[x].sequence
      /\ r.promise = "refused" /\ r.body = entry[x].body
  BY <1>2 DEF Entry, Outcomes
<1>4. \A l \in Lanes : ~Holder(entry, generation, l, x) /\ ~Waits(entry, l, x)
  BY <1>1 DEF Holder, Waits
<1> HIDE DEF r
<1> QED
  BY <1>1, <1>3, <1>4, EntryStep

LEMMA LateSettleStep ==
    ASSUME IInv, NEW x \in Entries, LateSettle(x)
    PROVE  Preserved
<1> DEFINE r == [entry[x] EXCEPT !.body = "finished"]
<1>1. entry[x].promise = "timedOut" /\ entry[x].body = "executing"
      /\ entry' = [entry EXCEPT ![x] = r]
      /\ UNCHANGED <<gatewayDraining, laneVars, nextQueueSequence, waiter>>
  BY DEF LateSettle
<1>2. entry[x] \in Entry
  BY IInvFacts
<1>3. /\ r \in Entry /\ r.priority = entry[x].priority /\ r.sequence = entry[x].sequence
      /\ r.promise = "timedOut"
  BY <1>1, <1>2 DEF Entry, Outcomes
<1>4. \A l \in Lanes : ~Holder(entry, generation, l, x) /\ ~Waits(entry, l, x)
  BY <1>1 DEF Holder, Waits
<1> HIDE DEF r
<1> QED
  BY <1>1, <1>3, <1>4, EntryStep

\* An end of a run: in the current generation the slot is freed and the lane
\* pumped, in a past one nothing but the entry changes.
LEMMA EndRunStep ==
    ASSUME IInv, NEW x \in Entries, NEW outcome \in Outcomes,
           NEW body \in {"executing", "finished"},
           Running(x), EndRun(x, outcome, body)
    PROVE  Preserved
<1> DEFINE l == entry[x].lane
           r == [entry[x] EXCEPT !.promise = outcome, !.body = body]
           e == [entry EXCEPT ![x].promise = outcome, ![x].body = body]
           a == [active EXCEPT ![l] = @ \ {x}]
<1>1. /\ entry \in [Entries -> Entry] /\ entry[x] \in Entry /\ l \in Lanes
      /\ entry[x].promise = "pending" /\ entry[x].body # "none"
  BY IInvFacts DEF Running, HasRun, Entry
<1>2. e = [entry EXCEPT ![x] = r]
  BY <1>1
<1>3. /\ r \in Entry /\ r.priority = entry[x].priority /\ r.sequence = entry[x].sequence
      /\ r.promise = outcome /\ r.body = body
      /\ r.promise # "pending" /\ r.promise # "unsubmitted" /\ r.body # "none"
  BY <1>1 DEF Entry, Outcomes
<1>4. /\ e \in [Entries -> Entry] /\ e[x] = r
      /\ \A y \in Entries \ {x} : e[y] = entry[y]
  BY <1>1, <1>2, <1>3
<1> HIDE DEF r, e
<1>5. CASE ~Current(x)
  <2>1. /\ entry' = [entry EXCEPT ![x] = r]
        /\ UNCHANGED <<gatewayDraining, laneVars, nextQueueSequence, waiter>>
    BY <1>2, <1>5 DEF EndRun, laneVars, e
  <2>2. \A k \in Lanes : ~Holder(entry, generation, k, x) /\ ~Waits(entry, k, x)
    BY <1>1, <1>5 DEF Holder, Waits, Current
  <2> QED
    BY <1>1, <1>3, <2>1, <2>2, EntryStep
<1>6. CASE Current(x)
  <2>1. /\ maxConcurrent' = maxConcurrent /\ generation' = generation
        /\ gatewayDraining' = gatewayDraining /\ nextQueueSequence' = nextQueueSequence
        /\ NotifyWaiters(a)
        /\ DrainLanes({l}, queue, a, e)
    BY <1>6 DEF EndRun, e
  <2>2. /\ Consistent({}, queue, active, entry, maxConcurrent, generation)
        /\ waiter \in [Waiters -> Waiter] /\ gatewayDraining \in BOOLEAN
        /\ nextQueueSequence \in Nat
        /\ maxConcurrent \in [Lanes -> Nat] /\ generation \in [Lanes -> Nat]
        /\ \A y \in Entries : entry[y].promise = "pending" => entry[y].sequence < nextQueueSequence
        /\ \A y \in Entries : entry[y].promise = "unsubmitted" => entry[y].body = "none"
    BY IInvFacts
  <2>3. /\ queue \in [Lanes -> Seq(Entries)] /\ active \in [Lanes -> SUBSET Entries]
        /\ Owned(active, entry, generation) /\ Lossless(queue, entry) /\ Sorted(queue, entry)
        /\ Past(entry, generation)
        /\ \A k \in Lanes : Busy(queue, active, maxConcurrent, k)
    BY <2>2 DEF Consistent
  <2>4. /\ a \in [Lanes -> SUBSET Entries]
        /\ a[l] = active[l] \ {x}
        /\ \A k \in Lanes \ {l} : a[k] = active[k]
        /\ \A k \in Lanes : a[k] \subseteq active[k]
    BY <1>1, <2>3
  <2> HIDE DEF a
  <2>5. Owned(a, e, generation)
    <3> SUFFICES ASSUME NEW k \in Lanes, NEW y \in Entries
                 PROVE  y \in a[k] <=> Holder(e, generation, k, y)
      BY <2>4 DEF Owned
    <3>1. y \in active[k] <=> Holder(entry, generation, k, y)
      BY <2>3 DEF Owned
    <3>2. CASE y = x
      <4>1. ~Holder(e, generation, k, x)
        BY <1>3, <1>4 DEF Holder
      <4>2. k # l => x \notin active[k]
        BY <2>3 DEF Owned, Holder
      <4> QED
        BY <2>4, <3>2, <4>1, <4>2
    <3>3. CASE y # x
      <4>1. Holder(e, generation, k, y) <=> Holder(entry, generation, k, y)
        BY <1>4, <3>3 DEF Holder
      <4>2. y \in a[k] <=> y \in active[k]
        BY <2>4, <3>3
      <4> QED
        BY <3>1, <4>1, <4>2
    <3> QED
      BY <3>2, <3>3
  <2>past. Past(e, generation)
    BY <1>3, <1>4, <2>3 DEF Past
  <2>6. Lossless(queue, e)
    <3>1. \A k \in Lanes, y \in Entries : Waits(e, k, y) <=> Waits(entry, k, y)
      BY <1>1, <1>3, <1>4 DEF Waits
    <3> QED
      BY <2>3, <3>1 DEF Lossless
  <2>7. Sorted(queue, e)
    <3>1. \A y \in Entries : e[y].priority = entry[y].priority /\ e[y].sequence = entry[y].sequence
      BY <1>3, <1>4
    <3>2. \A k \in Lanes, i \in Nat : i \in 1 .. Len(queue[k]) => queue[k][i] \in Entries
      BY <2>3
    <3>3. \A y, z \in Entries : Behind(e[y], e[z]) <=> Behind(entry[y], entry[z])
      BY <3>1 DEF Behind
    <3> SUFFICES ASSUME NEW k \in Lanes, NEW i \in 1 .. Len(queue[k]),
                        NEW j \in 1 .. Len(queue[k]), i < j
                 PROVE  Behind(e[queue[k][j]], e[queue[k][i]])
      BY DEF Sorted, InOrder
    <3>4. Behind(entry[queue[k][j]], entry[queue[k][i]])
      BY <2>3 DEF Sorted, InOrder
    <3>5. queue[k][i] \in Entries /\ queue[k][j] \in Entries
      BY <3>2
    <3> QED
      BY <3>3, <3>4, <3>5
  <2>8. \A k \in Lanes \ {l} : Busy(queue, a, maxConcurrent, k)
    BY <2>3, <2>4 DEF Busy
  <2>9. Drained(queue', active', entry', a, e, maxConcurrent', generation')
    <3>1. Consistent({l}, queue, a, e, maxConcurrent', generation')
      BY <1>1, <1>4, <2>1, <2>2, <2>3, <2>4, <2>5, <2>past, <2>6, <2>7, <2>8
      DEF Consistent
    <3> QED
      BY <2>1, <3>1, DrainStep
  <2>10. /\ waiter' \in [Waiters -> Waiter]
         /\ \A w \in Waiters : waiter'[w].state = "waiting" =>
               \E k \in Lanes : waiter'[w].tasks \cap active'[k] # {}
    <3>1. /\ waiter' \in [Waiters -> Waiter]
          /\ \A w \in Waiters : waiter'[w].state = "waiting" =>
                waiter'[w].tasks = waiter[w].tasks /\ HasPendingTask(w, a)
      BY <2>1, <2>2, NotifyStep
    <3>2. \A k \in Lanes : a[k] \subseteq active'[k]
      BY <2>9 DEF Drained
    <3> QED
      BY <3>1, <3>2 DEF HasPendingTask
  <2>11. \A y \in Entries :
           /\ e[y].promise = "pending" => e[y].sequence < nextQueueSequence'
           /\ e[y].promise = "unsubmitted" => e[y].body = "none"
           /\ entry[y].body = "none" => e[y].body = "none"
    BY <1>1, <1>3, <1>4, <2>1, <2>2
  <2> QED
    BY <2>1, <2>2, <2>4, <2>9, <2>10, <2>11, StepPreserves
<1> QED
  BY <1>5, <1>6

LEMMA SetConcurrencyStep ==
    ASSUME IInv, NEW l \in Lanes, NEW n \in Limits, SetConcurrency(l, n)
    PROVE  Preserved
<1> DEFINE ls == {k \in {l} : maxConcurrent'[k] > 0}
<1>1. /\ Consistent({}, queue, active, entry, maxConcurrent, generation)
      /\ waiter \in [Waiters -> Waiter] /\ gatewayDraining \in BOOLEAN
      /\ nextQueueSequence \in Nat
      /\ maxConcurrent \in [Lanes -> Nat] /\ generation \in [Lanes -> Nat]
      /\ \A y \in Entries : entry[y].promise = "pending" => entry[y].sequence < nextQueueSequence
      /\ \A y \in Entries : entry[y].promise = "unsubmitted" => entry[y].body = "none"
      /\ \A w \in Waiters : waiter[w].state = "waiting" =>
            \E k \in Lanes : waiter[w].tasks \cap active[k] # {}
  BY IInvFacts
<1>2. /\ generation' = generation /\ gatewayDraining' = gatewayDraining
      /\ nextQueueSequence' = nextQueueSequence /\ waiter' = waiter
      /\ maxConcurrent' = [maxConcurrent EXCEPT ![l] = EffectiveLimit(l, n)]
      /\ DrainLanes(ls, queue, active, entry)
  BY DEF SetConcurrency
<1>3. /\ maxConcurrent' \in [Lanes -> Nat]
      /\ \A k \in Lanes \ {l} : maxConcurrent'[k] = maxConcurrent[k]
  <2>1. EffectiveLimit(l, n) \in Nat
    BY NumbersAssumption DEF EffectiveLimit
  <2> QED
    BY <1>1, <1>2, <2>1
<1>4. \A k \in Lanes \ ls : Busy(queue, active, maxConcurrent', k)
  <2> TAKE k \in Lanes \ ls
  <2>1. CASE k = l
    <3>1. maxConcurrent'[l] = 0
      BY <1>3, <2>1
    <3>2. Cardinality(active[l]) \in Nat
      BY <1>1, EntriesAssumption, FS_Subset, FS_CardinalityType DEF Consistent
    <3> QED
      BY <2>1, <3>1, <3>2 DEF Busy
  <2>2. CASE k # l
    <3>1. Busy(queue, active, maxConcurrent, k)
      BY <1>1 DEF Consistent
    <3> QED
      BY <1>3, <2>2, <3>1 DEF Busy
  <2> QED
    BY <2>1, <2>2
<1>5. ls \in SUBSET Lanes
  OBVIOUS
<1> HIDE DEF ls
<1>6. Drained(queue', active', entry', active, entry, maxConcurrent', generation')
  <2>1. Consistent(ls, queue, active, entry, maxConcurrent', generation')
    BY <1>1, <1>2, <1>3, <1>4, <1>5 DEF Consistent
  <2> QED
    BY <1>2, <2>1, DrainStep
<1>7. \A w \in Waiters : waiter'[w].state = "waiting" =>
         \E k \in Lanes : waiter'[w].tasks \cap active'[k] # {}
  <2>1. \A k \in Lanes : active[k] \subseteq active'[k]
    BY <1>6 DEF Drained
  <2> QED
    BY <1>1, <1>2, <2>1
<1> QED
  BY <1>1, <1>2, <1>3, <1>6, <1>7, StepPreserves

LEMMA ClearLaneStep ==
    ASSUME IInv, NEW l \in Lanes, ClearLane(l)
    PROVE  Preserved
<1>1. /\ Consistent({}, queue, active, entry, maxConcurrent, generation)
      /\ waiter \in [Waiters -> Waiter] /\ gatewayDraining \in BOOLEAN
      /\ nextQueueSequence \in Nat
      /\ maxConcurrent \in [Lanes -> Nat] /\ generation \in [Lanes -> Nat]
      /\ \A y \in Entries : entry[y].promise = "pending" => entry[y].sequence < nextQueueSequence
      /\ \A y \in Entries : entry[y].promise = "unsubmitted" => entry[y].body = "none"
      /\ \A w \in Waiters : waiter[w].state = "waiting" =>
            \E k \in Lanes : waiter[w].tasks \cap active[k] # {}
  BY IInvFacts
<1>2. /\ maxConcurrent' = maxConcurrent /\ generation' = generation /\ active' = active
      /\ gatewayDraining' = gatewayDraining /\ nextQueueSequence' = nextQueueSequence
      /\ waiter' = waiter
      /\ queue' = [queue EXCEPT ![l] = <<>>]
      /\ entry' = [x \in Entries |-> IF x \in ToSet(queue[l])
                                     THEN [entry[x] EXCEPT !.promise = "cleared"]
                                     ELSE entry[x]]
  BY DEF ClearLane
<1>3. /\ queue \in [Lanes -> Seq(Entries)] /\ entry \in [Entries -> Entry]
      /\ Owned(active, entry, generation) /\ Lossless(queue, entry) /\ Sorted(queue, entry)
      /\ Past(entry, generation)
      /\ \A k \in Lanes : Busy(queue, active, maxConcurrent, k)
  BY <1>1 DEF Consistent
<1>4. /\ queue' \in [Lanes -> Seq(Entries)] /\ queue'[l] = <<>>
      /\ \A k \in Lanes \ {l} : queue'[k] = queue[k]
  BY <1>2, <1>3
<1>5. ASSUME NEW x \in Entries
      PROVE  /\ entry'[x] \in Entry
             /\ x \in ToSet(queue[l]) <=> Waits(entry, l, x)
             /\ x \in ToSet(queue[l]) => entry'[x].promise = "cleared"
             /\ x \notin ToSet(queue[l]) => entry'[x] = entry[x]
             /\ entry'[x].priority = entry[x].priority /\ entry'[x].sequence = entry[x].sequence
             /\ entry'[x].body = entry[x].body /\ entry'[x].lane = entry[x].lane
  <2>1. [entry[x] EXCEPT !.promise = "cleared"] \in Entry
    BY <1>3 DEF Entry, Outcomes
  <2>2. entry'[x] = IF x \in ToSet(queue[l])
                    THEN [entry[x] EXCEPT !.promise = "cleared"] ELSE entry[x]
    BY <1>2
  <2>3. entry[x] \in Entry
    BY <1>3
  <2> QED
    BY <1>3, <2>1, <2>2, <2>3 DEF Entry, Lossless
<1>6. entry' \in [Entries -> Entry]
  <2>1. entry' = [x \in Entries |-> entry'[x]]
    BY <1>2
  <2> QED
    BY <1>5, <2>1
<1>7. Owned(active, entry', generation)
  <2> SUFFICES ASSUME NEW k \in Lanes, NEW x \in Entries
               PROVE  Holder(entry', generation, k, x) <=> Holder(entry, generation, k, x)
    BY <1>3 DEF Owned
  <2>1. CASE x \in ToSet(queue[l])
    BY <1>5, <2>1 DEF Holder, Waits
  <2>2. CASE x \notin ToSet(queue[l])
    BY <1>5, <2>2 DEF Holder
  <2> QED
    BY <2>1, <2>2
<1>past. Past(entry', generation)
  <2> SUFFICES ASSUME NEW x \in Entries, entry'[x].promise = "pending", entry'[x].body # "none"
               PROVE  entry'[x].generation <= generation[entry'[x].lane]
    BY DEF Past
  <2>1. entry'[x] = entry[x]
    BY <1>5
  <2> QED
    BY <1>3, <2>1 DEF Past
<1>8. Lossless(queue', entry')
  <2>1. ASSUME NEW k \in Lanes, NEW x \in Entries
        PROVE  x \in ToSet(queue'[k]) <=> Waits(entry', k, x)
    <3>1. x \in ToSet(queue[k]) <=> Waits(entry, k, x)
      BY <1>3 DEF Lossless
    <3>2. CASE k = l
      <4>1. x \notin ToSet(queue'[k])
        BY <1>4, <3>2 DEF ToSet
      <4>2. ~Waits(entry', k, x)
        BY <1>5, <3>2 DEF Waits
      <4> QED
        BY <4>1, <4>2
    <3>3. CASE k # l
      BY <1>4, <1>5, <3>1, <3>3 DEF Waits
    <3> QED
      BY <3>2, <3>3
  <2>2. \A k \in Lanes : Distinct(queue'[k])
    <3> TAKE k \in Lanes
    <3>1. Distinct(queue[k])
      BY <1>3 DEF Lossless
    <3> QED
      BY <1>4, <3>1 DEF Distinct
  <2> QED
    BY <2>1, <2>2 DEF Lossless
<1>9. Sorted(queue', entry')
  <2> SUFFICES ASSUME NEW k \in Lanes, NEW i \in 1 .. Len(queue'[k]),
                      NEW j \in 1 .. Len(queue'[k]), i < j
               PROVE  Behind(entry'[queue'[k][j]], entry'[queue'[k][i]])
    BY DEF Sorted, InOrder
  <2>1. k # l /\ queue'[k] = queue[k]
    BY <1>4
  <2>2. Behind(entry[queue[k][j]], entry[queue[k][i]])
    BY <1>3, <2>1 DEF Sorted, InOrder
  <2>3. queue[k][i] \in Entries /\ queue[k][j] \in Entries
    BY <1>3, <2>1
  <2> QED
    BY <1>5, <2>1, <2>2, <2>3 DEF Behind
<1>10. \A k \in Lanes : Busy(queue', active, maxConcurrent, k)
  BY <1>3, <1>4 DEF Busy
<1>11. Drained(queue', active', entry', active, entry', maxConcurrent', generation')
  <2>1. Consistent({}, queue', active, entry', maxConcurrent, generation)
    BY <1>1, <1>4, <1>6, <1>7, <1>past, <1>8, <1>9, <1>10 DEF Consistent
  <2> QED
    BY <1>2, <2>1, NoDrainStep
<1>12. \A x \in Entries :
          /\ entry'[x].promise = "pending" => entry'[x].sequence < nextQueueSequence'
          /\ entry'[x].promise = "unsubmitted" => entry'[x].body = "none"
          /\ entry[x].body = "none" => entry'[x].body = "none"
  BY <1>1, <1>2, <1>5
<1> QED
  BY <1>1, <1>2, <1>11, <1>12, StepPreserves

\* A reset moves the lanes ls to a new generation, which none of the past runs
\* belongs to: their slots are free, and their queues are as before.
LEMMA ResetStep ==
    ASSUME IInv, NEW ls \in SUBSET Lanes, Reset(ls), gatewayDraining' \in BOOLEAN
    PROVE  Preserved
<1> DEFINE a == [l \in Lanes |-> IF l \in ls THEN {} ELSE active[l]]
<1>1. /\ Consistent({}, queue, active, entry, maxConcurrent, generation)
      /\ waiter \in [Waiters -> Waiter]
      /\ nextQueueSequence \in Nat
      /\ maxConcurrent \in [Lanes -> Nat] /\ generation \in [Lanes -> Nat]
      /\ \A y \in Entries : entry[y].promise = "pending" => entry[y].sequence < nextQueueSequence
      /\ \A y \in Entries : entry[y].promise = "unsubmitted" => entry[y].body = "none"
  BY IInvFacts
<1>2. /\ maxConcurrent' = maxConcurrent /\ nextQueueSequence' = nextQueueSequence
      /\ generation' = [l \in Lanes |-> generation[l] + (IF l \in ls THEN 1 ELSE 0)]
      /\ DrainLanes(ls, queue, a, entry)
      /\ NotifyWaiters(active')
  BY DEF Reset
<1>3. /\ active \in [Lanes -> SUBSET Entries]
      /\ entry \in [Entries -> Entry]
      /\ Owned(active, entry, generation) /\ Past(entry, generation)
      /\ \A l \in Lanes : Busy(queue, active, maxConcurrent, l)
  BY <1>1 DEF Consistent
<1>4. /\ generation' \in [Lanes -> Nat]
      /\ \A l \in ls : generation'[l] = generation[l] + 1
      /\ \A l \in Lanes \ ls : generation'[l] = generation[l]
  BY <1>1, <1>2
<1>5. /\ a \in [Lanes -> SUBSET Entries]
      /\ \A l \in ls : a[l] = {}
      /\ \A l \in Lanes \ ls : a[l] = active[l]
      /\ \A l \in Lanes : a[l] \subseteq active[l]
  BY <1>3
<1> HIDE DEF a
<1>6. Owned(a, entry, generation')
  <2> SUFFICES ASSUME NEW l \in Lanes, NEW x \in Entries
               PROVE  x \in a[l] <=> Holder(entry, generation', l, x)
    BY <1>5 DEF Owned
  <2>1. x \in active[l] <=> Holder(entry, generation, l, x)
    BY <1>3 DEF Owned
  <2>2. CASE l \notin ls
    BY <1>4, <1>5, <2>1, <2>2 DEF Holder
  <2>3. CASE l \in ls
    <3>1. entry[x].generation \in Nat /\ generation[l] \in Nat
      BY <1>1, <1>3 DEF Entry
    <3>2. Holder(entry, generation', l, x) => entry[x].generation <= generation[l]
      BY <1>3 DEF Holder, Past
    <3>3. ~Holder(entry, generation', l, x)
      BY <1>4, <2>3, <3>1, <3>2 DEF Holder
    <3> QED
      BY <1>5, <2>3, <3>3
  <2> QED
    BY <2>2, <2>3
<1>7. Past(entry, generation')
  <2> SUFFICES ASSUME NEW x \in Entries, entry[x].promise = "pending", entry[x].body # "none"
               PROVE  entry[x].generation <= generation'[entry[x].lane]
    BY DEF Past
  <2>1. /\ entry[x].lane \in Lanes /\ entry[x].generation \in Nat
        /\ entry[x].generation <= generation[entry[x].lane]
    BY <1>3 DEF Past, Entry
  <2>2. generation'[entry[x].lane] \in Nat /\ generation[entry[x].lane] \in Nat
        /\ generation[entry[x].lane] <= generation'[entry[x].lane]
    BY <1>1, <1>4, <2>1
  <2> QED
    BY <2>1, <2>2
<1>8. \A l \in Lanes \ ls : Busy(queue, a, maxConcurrent', l)
  BY <1>2, <1>3, <1>5 DEF Busy
<1>9. Drained(queue', active', entry', a, entry, maxConcurrent', generation')
  <2>1. Consistent(ls, queue, a, entry, maxConcurrent', generation')
    BY <1>1, <1>2, <1>4, <1>5, <1>6, <1>7, <1>8 DEF Consistent
  <2> QED
    BY <1>2, <2>1, DrainStep
<1>10. /\ waiter' \in [Waiters -> Waiter]
       /\ \A w \in Waiters : waiter'[w].state = "waiting" =>
             \E l \in Lanes : waiter'[w].tasks \cap active'[l] # {}
  <2>1. /\ waiter' \in [Waiters -> Waiter]
        /\ \A w \in Waiters : waiter'[w].state = "waiting" =>
              waiter'[w].tasks = waiter[w].tasks /\ HasPendingTask(w, active')
    BY <1>1, <1>2, NotifyStep
  <2> QED
    BY <2>1 DEF HasPendingTask
<1> QED
  BY <1>1, <1>2, <1>4, <1>5, <1>9, <1>10, StepPreserves

\* The actions that leave the lanes and the entries alone.
LEMMA LanesUnchangedStep ==
    ASSUME IInv, UNCHANGED <<laneVars, nextQueueSequence, entry>>,
           gatewayDraining' \in BOOLEAN, waiter' \in [Waiters -> Waiter],
           \A w \in Waiters : waiter'[w].state = "waiting" =>
                \E l \in Lanes : waiter'[w].tasks \cap active[l] # {}
    PROVE  Preserved
<1>1. /\ queue' = queue /\ active' = active /\ maxConcurrent' = maxConcurrent
      /\ generation' = generation /\ nextQueueSequence' = nextQueueSequence /\ entry' = entry
  BY DEF laneVars
<1>2. /\ Consistent({}, queue, active, entry, maxConcurrent, generation)
      /\ nextQueueSequence \in Nat
      /\ maxConcurrent \in [Lanes -> Nat] /\ generation \in [Lanes -> Nat]
      /\ \A y \in Entries : entry[y].promise = "pending" => entry[y].sequence < nextQueueSequence
      /\ \A y \in Entries : entry[y].promise = "unsubmitted" => entry[y].body = "none"
  BY IInvFacts
<1>3. Drained(queue', active', entry', active, entry, maxConcurrent', generation')
  BY <1>1, <1>2, NoDrainStep
<1> QED
  BY <1>1, <1>2, <1>3, StepPreserves

LEMMA WaitStep ==
    ASSUME IInv, NEW w \in Waiters, NEW timeout \in {"none", "zero", "some"},
           WaitForActiveTasks(w, timeout)
    PROVE  Preserved
<1> DEFINE tasks == UNION {active[l] : l \in Lanes}
           state == CASE tasks = {}       -> "drained"
                      [] tasks # {} /\ timeout = "zero" -> "gaveUp"
                      [] OTHER            -> "waiting"
           r == [state |-> state, tasks |-> tasks, timed |-> timeout = "some"]
<1>1. /\ waiter' = [waiter EXCEPT ![w] = r]
      /\ UNCHANGED <<laneVars, nextQueueSequence, entry>> /\ gatewayDraining' = gatewayDraining
  BY DEF WaitForActiveTasks
<1>2. /\ waiter \in [Waiters -> Waiter] /\ gatewayDraining \in BOOLEAN
      /\ active \in [Lanes -> SUBSET Entries]
      /\ \A v \in Waiters : waiter[v].state = "waiting" =>
            \E l \in Lanes : waiter[v].tasks \cap active[l] # {}
  BY IInvFacts
<1>3. /\ state \in {"drained", "gaveUp", "waiting"}
      /\ state = "waiting" => tasks # {}
  BY Zenon
<1>4. tasks \in SUBSET Entries
  BY <1>2
<1>5. tasks # {} => \E l \in Lanes : tasks \cap active[l] # {}
  OBVIOUS
<1> HIDE DEF tasks, state
<1>6. r \in Waiter /\ r.state = state /\ r.tasks = tasks
  BY <1>3, <1>4 DEF Waiter
<1> HIDE DEF r
<1>7. /\ waiter' \in [Waiters -> Waiter]
      /\ waiter'[w] = r
      /\ \A v \in Waiters \ {w} : waiter'[v] = waiter[v]
  BY <1>1, <1>2, <1>6
<1>8. \A v \in Waiters : waiter'[v].state = "waiting" =>
         \E l \in Lanes : waiter'[v].tasks \cap active[l] # {}
  BY <1>2, <1>3, <1>5, <1>6, <1>7
<1> QED
  BY <1>1, <1>2, <1>7, <1>8, LanesUnchangedStep

LEMMA GivesUpStep ==
    ASSUME IInv, NEW w \in Waiters, WaiterGivesUp(w)
    PROVE  Preserved
<1>1. /\ waiter' = [waiter EXCEPT ![w].state = "gaveUp"]
      /\ UNCHANGED <<laneVars, nextQueueSequence, entry>> /\ gatewayDraining' = gatewayDraining
  BY DEF WaiterGivesUp
<1>2. /\ waiter \in [Waiters -> Waiter] /\ gatewayDraining \in BOOLEAN
      /\ \A v \in Waiters : waiter[v].state = "waiting" =>
            \E l \in Lanes : waiter[v].tasks \cap active[l] # {}
  BY IInvFacts
<1>3. /\ waiter' \in [Waiters -> Waiter]
      /\ waiter'[w].state = "gaveUp"
      /\ \A v \in Waiters \ {w} : waiter'[v] = waiter[v]
  BY <1>1, <1>2 DEF Waiter
<1>4. \A v \in Waiters : waiter'[v].state = "waiting" =>
         \E l \in Lanes : waiter'[v].tasks \cap active[l] # {}
  BY <1>2, <1>3
<1> QED
  BY <1>1, <1>2, <1>3, <1>4, LanesUnchangedStep

LEMMA NextStep == IInv /\ Next => Preserved
<1> SUFFICES ASSUME IInv, Next PROVE Preserved
  OBVIOUS
<1>1. ASSUME NEW x \in Entries, NEW l \in Lanes, NEW p \in Priorities, NEW timed \in BOOLEAN,
             Enqueue(x, l, p, timed)
      PROVE  Preserved
  BY <1>1, EnqueueStep
<1>2. ASSUME NEW x \in Entries, EnqueueRefused(x) PROVE Preserved
  BY <1>2, RefusedStep
<1>3. ASSUME NEW x \in Entries, TaskSettles(x) PROVE Preserved
  BY <1>3, EndRunStep DEF TaskSettles, Outcomes
<1>4. ASSUME NEW x \in Entries, TaskTimesOut(x) PROVE Preserved
  BY <1>4, EndRunStep DEF TaskTimesOut, Outcomes
<1>5. ASSUME NEW x \in Entries, LateSettle(x) PROVE Preserved
  BY <1>5, LateSettleStep
<1>6. ASSUME NEW l \in Lanes, NEW n \in Limits, SetConcurrency(l, n) PROVE Preserved
  BY <1>6, SetConcurrencyStep
<1>7. ASSUME NEW l \in Lanes, ClearLane(l) PROVE Preserved
  BY <1>7, ClearLaneStep
<1>8. gatewayDraining \in BOOLEAN
  BY IInvFacts
<1>9. ASSUME NEW l \in Lanes, ResetLane(l) PROVE Preserved
  <2>1. Reset({l}) /\ gatewayDraining' \in BOOLEAN /\ {l} \in SUBSET Lanes
    BY <1>8, <1>9 DEF ResetLane
  <2> QED
    BY <2>1, ResetStep
<1>10. ASSUME ResetAllLanes PROVE Preserved
  <2>1. Reset(Lanes) /\ gatewayDraining' \in BOOLEAN /\ Lanes \in SUBSET Lanes
    BY <1>10 DEF ResetAllLanes
  <2> QED
    BY <2>1, ResetStep
<1>11. ASSUME MarkGatewayDraining PROVE Preserved
  <2>1. /\ waiter \in [Waiters -> Waiter]
        /\ \A w \in Waiters : waiter[w].state = "waiting" =>
              \E l \in Lanes : waiter[w].tasks \cap active[l] # {}
    BY IInvFacts
  <2>2. /\ UNCHANGED <<laneVars, nextQueueSequence, entry>> /\ waiter' = waiter
        /\ gatewayDraining' \in BOOLEAN
    BY <1>11 DEF MarkGatewayDraining
  <2> QED
    BY <2>1, <2>2, LanesUnchangedStep
<1>12. ASSUME NEW w \in Waiters, NEW timeout \in {"none", "zero", "some"},
              WaitForActiveTasks(w, timeout)
       PROVE  Preserved
  BY <1>12, WaitStep
<1>13. ASSUME NEW w \in Waiters, WaiterGivesUp(w) PROVE Preserved
  BY <1>13, GivesUpStep
<1> QED
  BY <1>1, <1>2, <1>3, <1>4, <1>5, <1>6, <1>7, <1>9, <1>10, <1>11, <1>12, <1>13 DEF Next

LEMMA StutterStep == IInv /\ UNCHANGED vars => Preserved
<1> SUFFICES ASSUME IInv, UNCHANGED vars PROVE Preserved
  OBVIOUS
<1>1. /\ UNCHANGED <<laneVars, nextQueueSequence, entry>>
      /\ waiter' = waiter /\ gatewayDraining' = gatewayDraining
  BY DEF vars
<1>2. /\ waiter \in [Waiters -> Waiter] /\ gatewayDraining \in BOOLEAN
      /\ \A w \in Waiters : waiter[w].state = "waiting" =>
            \E l \in Lanes : waiter[w].tasks \cap active[l] # {}
  BY IInvFacts
<1> QED
  BY <1>1, <1>2, LanesUnchangedStep

-----------------------------------------------------------------------------
(* What an operation does to the entries one by one, for those who build on *)
(* the queue.                                                               *)

\* An entry that is e[x] when the lanes are drained starts, or is left alone.
Moved(e, x) ==
    /\ entry'[x].lane = e[x].lane /\ entry'[x].timed = e[x].timed
    /\ entry'[x].promise = e[x].promise
    /\ \/ entry'[x].body = e[x].body /\ entry'[x].generation = e[x].generation
       \/ /\ e[x].promise = "pending" /\ e[x].body = "none"
          /\ entry'[x].body = "executing" /\ entry'[x].generation = generation'[e[x].lane]

\* Waiters are woken only when the tasks they waited for hold no slot any more;
\* what holds one by then has just started.
Woken ==
    \A w \in Waiters :
        \/ waiter'[w] = waiter[w]
        \/ /\ waiter[w].state = "waiting" /\ waiter'[w].state = "drained"
           /\ waiter'[w].tasks = waiter[w].tasks
           /\ \A l \in Lanes : \A x \in waiter[w].tasks \cap active'[l] : entry[x].body = "none"

\* Only what waits is in the queues.
Drainable(q, a, e) ==
    /\ q \in [Lanes -> Seq(Entries)] /\ a \in [Lanes -> SUBSET Entries]
    /\ e \in [Entries -> Entry] /\ maxConcurrent' \in [Lanes -> Nat]
    /\ \A l \in Lanes : \A x \in ToSet(q[l]) : Waits(e, l, x)

\* Draining the lanes starts what waits, and nothing else.
LEMMA DrainMoves ==
    ASSUME NEW ls, NEW q, NEW a, NEW e, Drainable(q, a, e), DrainLanes(ls, q, a, e)
    PROVE  /\ \A x \in Entries : Moved(e, x)
           /\ \A l \in Lanes : \A x \in active'[l] : x \in a[l] \/ e[x].body = "none"
<1>1. /\ \A l \in Lanes : Starting(ls, q, a, maxConcurrent', l) \subseteq ToSet(q[l])
      /\ e \in [Entries -> Entry]
  BY StartedRemaining DEF Starting, Drainable
<1>2. \A l \in Lanes : \A x \in Starting(ls, q, a, maxConcurrent', l) :
          e[x].lane = l /\ e[x].promise = "pending" /\ e[x].body = "none"
  BY <1>1 DEF Waits, Drainable
<1>3. active' = [l \in Lanes |-> a[l] \cup Starting(ls, q, a, maxConcurrent', l)]
  BY DEF DrainLanes, SlotsAfter
<1>4. entry' = [x \in Entries |->
          IF \E l \in Lanes : x \in Starting(ls, q, a, maxConcurrent', l)
          THEN [e[x] EXCEPT !.body = "executing", !.generation = generation'[e[x].lane]]
          ELSE e[x]]
  BY DEF DrainLanes, EntriesAfter
<1>5. \A x \in Entries : Moved(e, x)
  <2> SUFFICES ASSUME NEW x \in Entries PROVE Moved(e, x)
    OBVIOUS
  <2>1. e[x] \in Entry
    BY <1>1
  <2>2. CASE \E l \in Lanes : x \in Starting(ls, q, a, maxConcurrent', l)
    <3>1. entry'[x] = [e[x] EXCEPT !.body = "executing", !.generation = generation'[e[x].lane]]
      BY <1>4, <2>2
    <3>2. e[x].promise = "pending" /\ e[x].body = "none"
      BY <1>2, <2>2
    <3> QED
      BY <2>1, <3>1, <3>2 DEF Moved, Entry
  <2>3. CASE ~\E l \in Lanes : x \in Starting(ls, q, a, maxConcurrent', l)
    <3>1. entry'[x] = e[x]
      BY <1>4, <2>3
    <3> QED
      BY <3>1 DEF Moved
  <2> QED
    BY <2>2, <2>3
<1>6. \A l \in Lanes : \A x \in active'[l] : x \in a[l] \/ e[x].body = "none"
  BY <1>2, <1>3
<1> QED
  BY <1>5, <1>6

\* What waits in the queues, from the invariant.
LEMMA QueuedWait ==
    ASSUME IInv
    PROVE  \A l \in Lanes : \A x \in ToSet(queue[l]) :
               x \in Entries /\ Waits(entry, l, x)
<1>1. queue \in [Lanes -> Seq(Entries)]
  BY IInvFacts
<1>2. \A l \in Lanes : \A x \in ToSet(queue[l]) : x \in Entries
  BY <1>1 DEF ToSet
<1> QED
  BY <1>2 DEF IInv, Lossless

\* A submission: the other entries at most start.
LEMMA EnqueueMoves ==
    ASSUME IInv, NEW x \in Entries, NEW l \in Lanes, NEW p \in Priorities,
           NEW timed \in BOOLEAN, Enqueue(x, l, p, timed)
    PROVE  /\ entry[x].promise = "unsubmitted" /\ entry[x].body = "none" /\ ~gatewayDraining
           /\ entry'[x].promise = "pending" /\ entry'[x].lane = l /\ entry'[x].timed = timed
           /\ \/ entry'[x].body = "none"
              \/ entry'[x].body = "executing" /\ entry'[x].generation = generation'[l]
           /\ \A y \in Entries \ {x} : Moved(entry, y)
           /\ UNCHANGED <<gatewayDraining, maxConcurrent, generation, waiter>>
<1> DEFINE e == [entry EXCEPT ![x] = [@ EXCEPT !.lane = l, !.priority = p,
                    !.sequence = nextQueueSequence, !.timed = timed, !.promise = "pending"]]
           q == [queue EXCEPT ![l] = Enqueued(@, x, e)]
<1>1. /\ entry \in [Entries -> Entry] /\ queue \in [Lanes -> Seq(Entries)]
      /\ active \in [Lanes -> SUBSET Entries] /\ nextQueueSequence \in Nat
      /\ entry[x].promise = "unsubmitted" /\ entry[x].body = "none" /\ ~gatewayDraining
      /\ UNCHANGED <<gatewayDraining, maxConcurrent, generation, waiter>>
      /\ maxConcurrent \in [Lanes -> Nat]
      /\ DrainLanes({l}, q, active, e)
  BY DEF IInv, TypeOK, UnsubmittedIdle, Enqueue
<1>2. /\ e \in [Entries -> Entry]
      /\ e[x].lane = l /\ e[x].promise = "pending" /\ e[x].body = "none" /\ e[x].timed = timed
      /\ \A y \in Entries \ {x} : e[y] = entry[y]
  BY <1>1 DEF Entry
<1> HIDE DEF e
<1>3. \A k \in Lanes : \A y \in ToSet(queue[k]) : y \in Entries \ {x} /\ Waits(e, k, y)
  BY <1>1, <1>2, QueuedWait DEF Waits
<1>4. /\ Enqueued(queue[l], x, e) \in Seq(Entries)
      /\ ToSet(Enqueued(queue[l], x, e)) = ToSet(queue[l]) \cup {x}
  <2>1. \A i, j \in 1 .. Len(queue[l]) : i < j => Behind(entry[queue[l][j]], entry[queue[l][i]])
    BY DEF IInv, Sorted, InOrder
  <2>2. \A i \in 1 .. Len(queue[l]) : queue[l][i] \in ToSet(queue[l])
    BY <1>1 DEF ToSet
  <2>3. \A i \in 1 .. Len(queue[l]) : e[queue[l][i]] = entry[queue[l][i]]
    BY <1>2, <1>3, <2>2
  <2>4. InOrder(queue[l], e)
    BY <2>1, <2>3 DEF InOrder
  <2>5. Distinct(queue[l]) /\ queue[l] \in Seq(Entries) /\ x \notin ToSet(queue[l])
    BY <1>1, <1>3 DEF IInv, Lossless
  <2>6. \A y \in ToSet(queue[l]) : e[y].sequence < e[x].sequence
    <3>1. \A y \in ToSet(queue[l]) : entry[y].sequence < nextQueueSequence
      BY QueuedWait DEF IInv, SequencesIssued, Waits
    <3>2. e[x].sequence = nextQueueSequence
      BY <1>1 DEF e, Entry
    <3> QED
      BY <1>2, <1>3, <3>1, <3>2
  <2> QED
    BY <1>2, <2>4, <2>5, <2>6, EnqueuedProperties
<1>5. q \in [Lanes -> Seq(Entries)] /\ q[l] = Enqueued(queue[l], x, e)
      /\ \A k \in Lanes \ {l} : q[k] = queue[k]
  BY <1>1, <1>4
<1> HIDE DEF q
<1>6. \A k \in Lanes : \A y \in ToSet(q[k]) : Waits(e, k, y)
  BY <1>2, <1>3, <1>4, <1>5 DEF Waits
<1>7. \A y \in Entries : Moved(e, y)
  <2>1. Drainable(q, active, e)
    BY <1>1, <1>2, <1>5, <1>6 DEF Drainable
  <2> QED
    BY <1>1, <2>1, DrainMoves
<1>8. \A y \in Entries \ {x} : Moved(entry, y)
  BY <1>2, <1>7 DEF Moved
<1>9. /\ entry'[x].promise = "pending" /\ entry'[x].lane = l /\ entry'[x].timed = timed
      /\ \/ entry'[x].body = "none"
         \/ entry'[x].body = "executing" /\ entry'[x].generation = generation'[l]
  <2>1. Moved(e, x)
    BY <1>7
  <2> QED
    BY <1>2, <2>1 DEF Moved
<1> QED
  BY <1>1, <1>8, <1>9

\* The end of a run.
LEMMA EndRunMoves ==
    ASSUME IInv, NEW x \in Entries, NEW outcome, NEW body,
           Running(x), EndRun(x, outcome, body), outcome \in Outcomes,
           body \in {"executing", "finished"}
    PROVE  /\ entry'[x].promise = outcome /\ entry'[x].body = body
           /\ entry'[x].lane = entry[x].lane /\ entry'[x].generation = entry[x].generation
           /\ \A y \in Entries \ {x} : Moved(entry, y)
           /\ UNCHANGED <<gatewayDraining, maxConcurrent, generation>>
           /\ Woken
<1> DEFINE l == entry[x].lane
           e == [entry EXCEPT ![x].promise = outcome, ![x].body = body]
           a == [active EXCEPT ![l] = @ \ {x}]
<1>1. /\ entry \in [Entries -> Entry] /\ entry[x] \in Entry /\ l \in Lanes
      /\ queue \in [Lanes -> Seq(Entries)] /\ active \in [Lanes -> SUBSET Entries]
      /\ maxConcurrent \in [Lanes -> Nat] /\ waiter \in [Waiters -> Waiter]
      /\ entry[x].promise = "pending" /\ entry[x].body # "none"
  BY IInvFacts DEF Running, HasRun, Entry
<1>2. UNCHANGED <<gatewayDraining, maxConcurrent, generation>>
  BY DEF EndRun
<1>3. /\ e \in [Entries -> Entry] /\ e[x].promise = outcome /\ e[x].body = body
      /\ e[x].lane = l /\ e[x].generation = entry[x].generation
      /\ \A y \in Entries \ {x} : e[y] = entry[y]
  BY <1>1 DEF Entry
<1>4. CASE ~Current(x)
  <2>1. entry' = e /\ UNCHANGED waiter
    BY <1>4 DEF EndRun
  <2> HIDE DEF e
  <2> QED
    BY <1>2, <1>3, <2>1 DEF Moved, Woken
<1>5. CASE Current(x)
  <2>1. NotifyWaiters(a) /\ DrainLanes({l}, queue, a, e)
    BY <1>5 DEF EndRun
  <2> HIDE DEF e
  <2>2. \A k \in Lanes : \A y \in ToSet(queue[k]) : Waits(e, k, y)
    <3> SUFFICES ASSUME NEW k \in Lanes, NEW y \in ToSet(queue[k])
                 PROVE  Waits(e, k, y)
      OBVIOUS
    <3>1. y \in Entries /\ Waits(entry, k, y)
      BY QueuedWait
    <3>2. y \in Entries \ {x}
      BY <1>1, <3>1 DEF Waits
    <3> QED
      BY <1>3, <3>1, <3>2 DEF Waits
  <2>3. a \in [Lanes -> SUBSET Entries]
    BY <1>1
  <2> HIDE DEF a
  <2>4. /\ \A y \in Entries : Moved(e, y)
        /\ \A k \in Lanes : \A y \in active'[k] : y \in a[k] \/ e[y].body = "none"
    <3>1. Drainable(queue, a, e)
      BY <1>1, <1>2, <1>3, <2>2, <2>3 DEF Drainable
    <3> QED
      BY <2>1, <3>1, DrainMoves
  <2>5. \A w \in Waiters : waiter'[w] =
            IF waiter[w].state = "waiting" /\ ~HasPendingTask(w, a)
            THEN [waiter[w] EXCEPT !.state = "drained"] ELSE waiter[w]
    BY <2>1 DEF NotifyWaiters
  <2>6. \A w \in Waiters : waiter[w] \in Waiter /\ waiter[w].tasks \subseteq Entries
    BY <1>1 DEF Waiter
  <2>7. Woken
    <3>1. \A y \in Entries : e[y].body = "none" => entry[y].body = "none"
      BY <1>3
    <3>2. ASSUME NEW w \in Waiters, waiter'[w] # waiter[w],
                 NEW k \in Lanes, NEW y \in waiter[w].tasks \cap active'[k]
          PROVE  entry[y].body = "none"
      BY <2>4, <2>5, <2>6, <3>1, <3>2 DEF HasPendingTask
    <3> QED
      BY <2>5, <2>6, <3>2 DEF Woken, Waiter
  <2> QED
    BY <1>1, <1>2, <1>3, <2>4, <2>7 DEF Moved
<1> QED
  BY <1>4, <1>5

\* A new limit.
LEMMA SetConcurrencyMoves ==
    ASSUME IInv, NEW l \in Lanes, NEW n \in Limits, SetConcurrency(l, n)
    PROVE  /\ \A y \in Entries : Moved(entry, y)
           /\ \A k \in Lanes \ {l} : maxConcurrent'[k] = maxConcurrent[k]
           /\ UNCHANGED <<gatewayDraining, generation, waiter>>
<1>1. /\ entry \in [Entries -> Entry] /\ queue \in [Lanes -> Seq(Entries)]
      /\ active \in [Lanes -> SUBSET Entries] /\ maxConcurrent \in [Lanes -> Nat]
  BY IInvFacts
<1>2. /\ UNCHANGED <<gatewayDraining, generation, waiter>>
      /\ maxConcurrent' = [maxConcurrent EXCEPT ![l] = EffectiveLimit(l, n)]
      /\ \E ls : DrainLanes(ls, queue, active, entry)
  BY DEF SetConcurrency
<1>3. EffectiveLimit(l, n) \in Nat
  BY NumbersAssumption DEF EffectiveLimit
<1>4. Drainable(queue, active, entry)
  BY <1>1, <1>2, <1>3, QueuedWait DEF Drainable
<1>5. \A y \in Entries : Moved(entry, y)
  BY <1>2, <1>4, DrainMoves
<1> QED
  BY <1>1, <1>2, <1>5

\* What is cleared was waiting.
LEMMA ClearLaneMoves ==
    ASSUME IInv, NEW l \in Lanes, ClearLane(l)
    PROVE  /\ \A y \in Entries :
                 \/ Moved(entry, y)
                 \/ /\ Waits(entry, l, y)
                    /\ entry'[y].promise = "cleared" /\ entry'[y].body = "none"
           /\ UNCHANGED <<gatewayDraining, maxConcurrent, generation, waiter>>
<1>1. /\ entry' = [x \in Entries |-> IF x \in ToSet(queue[l])
                                     THEN [entry[x] EXCEPT !.promise = "cleared"]
                                     ELSE entry[x]]
      /\ UNCHANGED <<gatewayDraining, maxConcurrent, generation, waiter>>
  BY DEF ClearLane
<1>2. \A y \in Entries : entry[y] \in Entry
  BY IInvFacts
<1>3. ASSUME NEW y \in Entries
      PROVE  \/ Moved(entry, y)
             \/ /\ Waits(entry, l, y)
                /\ entry'[y].promise = "cleared" /\ entry'[y].body = "none"
  <2>1. CASE y \in ToSet(queue[l])
    <3>1. Waits(entry, l, y) /\ entry'[y] = [entry[y] EXCEPT !.promise = "cleared"]
      BY <1>1, <2>1, QueuedWait
    <3> QED
      BY <1>2, <3>1 DEF Waits, Entry
  <2>2. CASE y \notin ToSet(queue[l])
    <3>1. entry'[y] = entry[y]
      BY <1>1, <2>2
    <3> QED
      BY <3>1 DEF Moved
  <2> QED
    BY <2>1, <2>2
<1> QED
  BY <1>1, <1>3

\* A reset: generations only grow, and what holds a slot afterwards has just started.
LEMMA ResetMoves ==
    ASSUME IInv, NEW ls \in SUBSET Lanes, Reset(ls)
    PROVE  /\ \A y \in Entries : Moved(entry, y)
           /\ \A l \in Lanes : generation'[l] >= generation[l]
           /\ UNCHANGED maxConcurrent
           /\ Woken
<1> DEFINE a == [l \in Lanes |-> IF l \in ls THEN {} ELSE active[l]]
<1>1. /\ entry \in [Entries -> Entry] /\ queue \in [Lanes -> Seq(Entries)]
      /\ active \in [Lanes -> SUBSET Entries] /\ maxConcurrent \in [Lanes -> Nat]
      /\ generation \in [Lanes -> Nat] /\ waiter \in [Waiters -> Waiter]
  BY IInvFacts
<1>2. /\ maxConcurrent' = maxConcurrent
      /\ generation' = [l \in Lanes |-> generation[l] + (IF l \in ls THEN 1 ELSE 0)]
      /\ DrainLanes(ls, queue, a, entry)
      /\ NotifyWaiters(active')
  BY DEF Reset
<1>3. a \in [Lanes -> SUBSET Entries]
  BY <1>1
<1> HIDE DEF a
<1>4. \A y \in Entries : Moved(entry, y)
  <2>1. Drainable(queue, a, entry)
    BY <1>1, <1>2, <1>3, QueuedWait DEF Drainable
  <2> QED
    BY <1>2, <2>1, DrainMoves
<1>5. \A l \in Lanes : generation'[l] >= generation[l]
  BY <1>1, <1>2
<1>6. Woken
  <2>1. \A w \in Waiters : waiter'[w] =
            IF waiter[w].state = "waiting" /\ ~HasPendingTask(w, active')
            THEN [waiter[w] EXCEPT !.state = "drained"] ELSE waiter[w]
    BY <1>2 DEF NotifyWaiters
  <2>2. \A w \in Waiters : waiter[w] \in Waiter
    BY <1>1
  <2> QED
    BY <2>1, <2>2 DEF Woken, HasPendingTask, Waiter
<1> QED
  BY <1>2, <1>4, <1>5, <1>6

-----------------------------------------------------------------------------
(* The theorems.                                                            *)

LEMMA Inductive == Spec => []IInv
<1>1. IInv /\ [Next]_vars => IInv'
  BY NextStep, StutterStep DEF Preserved
<1> QED
  BY InitIInv, <1>1, PTL DEF Spec

\* Every variable keeps its type through every operation of the queue.
THEOREM TypeCorrect == Spec => []TypeOK
<1>1. IInv => TypeOK
  BY DEF IInv
<1> QED
  BY Inductive, <1>1, PTL

\* No lane ever idles while work waits in it, whatever calls, completions,
\* timeouts, limits and resets come in whatever order.
THEOREM WorkIsConserved == Spec => []WorkConserving
<1>1. IInv => WorkConserving
  BY DEF IInv, WorkConserving, Busy
<1> QED
  BY Inductive, <1>1, PTL

\* The slots of a lane are its unsettled runs of the current generation: a
\* completion from before a reset never frees a slot taken after it.
THEOREM SlotsAreOwned == Spec => []SlotsOwned
<1>1. IInv => SlotsOwned
  <2> SUFFICES ASSUME IInv, NEW l \in Lanes, NEW x \in Entries
               PROVE  x \in active[l] <=> entry[x].lane = l /\ Running(x) /\ Current(x)
    BY DEF SlotsOwned, IInv, TypeOK
  <2> QED
    BY DEF IInv, Owned, Holder, Running, HasRun, Current
<1> QED
  BY Inductive, <1>1, PTL

\* Accepted entries are in their queue once until they start or are cleared;
\* resets lose none of them.
THEOREM NothingIsLost == Spec => []NothingLost
<1>1. IInv => NothingLost
  BY DEF IInv, Lossless, NothingLost, Waits, HasRun, Distinct
<1> QED
  BY Inductive, <1>1, PTL

\* The queues stay ordered by priority and, within one, by submission.
THEOREM QueuesAreOrdered == Spec => []QueueOrdered
<1>1. IInv => QueueOrdered
  BY DEF IInv, Sorted, InOrder, QueueOrdered
<1> QED
  BY Inductive, <1>1, PTL

\* A waiter for active tasks is woken by whatever empties the slots it waits on.
THEOREM NoWaiterIsForgotten == Spec => []NoForgottenWaiter
<1>1. IInv => NoForgottenWaiter
  BY DEF IInv
<1> QED
  BY Inductive, <1>1, PTL

\* A step that starts tasks leaves their lane within its limit.
THEOREM LimitsAreKept == Spec => StartsWithinLimit
<1>1. IInv /\ [Next]_vars => StepLimit
  BY NextStep, StutterStep DEF Preserved
<1>2. StepLimit => [\A l \in Lanes : active'[l] \subseteq active[l]
                        \/ Cardinality(active'[l]) <= maxConcurrent'[l]]_vars
  BY DEF StepLimit
<1> QED
  BY Inductive, <1>1, <1>2, PTL DEF Spec, StartsWithinLimit

\* What starts goes before everything that still waits in its lane.
THEOREM StartsAreInOrder == Spec => StartsInOrder
<1>1. IInv /\ [Next]_vars => StepOrder
  BY NextStep, StutterStep DEF Preserved
<1>2. StepOrder => [\A x \in Entries : ~HasRun(x) /\ HasRun(x)' =>
          \A y \in ToSet(queue'[entry'[x].lane]) : Behind(entry'[y], entry'[x])]_vars
  BY DEF StepOrder
<1> QED
  BY Inductive, <1>1, <1>2, PTL DEF Spec, StartsInOrder
=============================================================================
