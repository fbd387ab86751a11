---------------------- MODULE FollowupMessages_proofs ----------------------
(***************************************************************************)
(* Proofs about the messages of FollowupQueue, for any messages, routes,   *)
(* senders, settings, numbers of clears and failures: what becomes of them *)
(* and in which order.  FollowupQueue_proofs is about the queue objects;   *)
(* here it is about what is in them.                                       *)
(***************************************************************************)
EXTENDS FollowupQueue_proofs, WellFoundedInduction

-----------------------------------------------------------------------------
(* Induction and recursion up to a number.                                  *)

\* A set of natural numbers has a least one.
LEMMA LeastNumber ==
    ASSUME NEW S \in SUBSET Nat, S # {}
    PROVE  \E k \in S : \A i \in S : k <= i
<1>1. PICK k \in S : \A i \in S : ~ (<<i, k>> \in OpToRel(<, Nat))
  BY NatLessThanWellFounded, WFMin
<1>2. \A i \in S : ~ (i < k)
  BY <1>1 DEF OpToRel
<1>. QED
  BY <1>2

\* A set that holds 0 and with each number the next holds all numbers up to N.
LEMMA UpTo ==
    ASSUME NEW N \in Nat, NEW P, 0 \in P, \A n \in 1 .. N : n - 1 \in P => n \in P
    PROVE  \A n \in 0 .. N : n \in P
<1>. DEFINE bad == {n \in 0 .. N : n \notin P}
<1>1. bad = {} => \A n \in 0 .. N : n \in P
  OBVIOUS
<1>2. ASSUME bad # {} PROVE FALSE
  <2>1. bad \in SUBSET Nat
    OBVIOUS
  <2>2. PICK k \in bad : \A i \in bad : k <= i
    <3>. HIDE DEF bad
    <3>. QED
      BY <1>2, <2>1, LeastNumber
  <2>3. k \in 1 .. N /\ k - 1 \in 0 .. N
    OBVIOUS
  <2>4. k - 1 \in P
    BY <2>2, <2>3
  <2>. QED
    BY <2>3, <2>4
<1>. QED
  BY <1>1, <1>2

\* A function is defined by recursion from a first value and a step.
IsStep(step, S, N) == step \in [S \X (1 .. N) -> S]
HasRecursion(S, first, N, step) ==
    \E f \in [0 .. N -> S] :
        f[0] = first /\ \A n \in 1 .. N : f[n] = step[<<f[n - 1], n>>]

LEMMA Recursion ==
    ASSUME NEW S, NEW first \in S, NEW N \in Nat, NEW step, IsStep(step, S, N)
    PROVE  HasRecursion(S, first, N, step)
<1>. DEFINE Defines(f, m) == /\ f \in [0 .. m -> S] /\ f[0] = first
                             /\ \A n \in 1 .. m : f[n] = step[<<f[n - 1], n>>]
            P == {m \in 0 .. N : \E f : Defines(f, m)}
<1>0. step \in [S \X (1 .. N) -> S]
  BY DEF IsStep
<1>1. 0 \in P
  <2>. DEFINE f == [n \in 0 .. 0 |-> first]
  <2>1. Defines(f, 0)
    OBVIOUS
  <2>. HIDE DEF f, Defines
  <2>2. 0 \in 0 .. N
    OBVIOUS
  <2>. QED
    BY <2>1, <2>2
<1>2. ASSUME NEW m \in 1 .. N, m - 1 \in P PROVE m \in P
  <2>0. m \in 0 .. N /\ m - 1 \in 0 .. m - 1
    OBVIOUS
  <2>1. PICK f : Defines(f, m - 1)
    BY <1>2
  <2>. DEFINE last == step[<<f[m - 1], m>>]
              g == [n \in 0 .. m |-> IF n = m THEN last ELSE f[n]]
  <2>2. last \in S
    <3>1. f[m - 1] \in S
      BY <2>0, <2>1
    <3>. QED
      BY <1>0, <3>1
  <2>3. g \in [0 .. m -> S] /\ g[0] = first
    <3>. HIDE DEF last
    <3>. QED
      BY <2>1, <2>2
  <2>4. ASSUME NEW n \in 1 .. m PROVE g[n] = step[<<g[n - 1], n>>]
    <3>1. n - 1 \in 0 .. m /\ n - 1 # m /\ n \in 0 .. m
      OBVIOUS
    <3>2. g[n - 1] = f[n - 1]
      BY <3>1
    <3>3. CASE n = m
      <4>1. g[n] = last
        BY <3>1, <3>3
      <4>. HIDE DEF g
      <4>. QED
        BY <3>2, <3>3, <4>1
    <3>4. CASE n # m
      <4>1. g[n] = f[n] /\ n \in 1 .. m - 1
        BY <3>1, <3>4
      <4>. HIDE DEF g, last
      <4>. QED
        BY <2>1, <3>2, <4>1
    <3>. QED
      BY <3>3, <3>4
  <2>. HIDE DEF g
  <2>5. Defines(g, m)
    BY <2>3, <2>4
  <2>. HIDE DEF Defines
  <2>. QED
    BY <2>0, <2>5
<1>3. N \in P
  <2>. HIDE DEF P
  <2>1. \A n \in 0 .. N : n \in P
    BY <1>1, <1>2, UpTo
  <2>. QED
    BY <2>1
<1>. QED
  BY <1>3 DEF HasRecursion

-----------------------------------------------------------------------------
(* The messages of a sequence.                                              *)

\* s is what the first n elements of t are without those of drop, in their order.
Keeps(s, t, n, drop) ==
    /\ \A i \in 1 .. Len(s) : s[i] \notin drop /\ \E a \in 1 .. n : s[i] = t[a]
    /\ \A a \in 1 .. n : t[a] \notin drop => \E i \in 1 .. Len(s) : s[i] = t[a]
    /\ \A i, j \in 1 .. Len(s) : i < j =>
          \E a, b \in 1 .. n : a < b /\ s[i] = t[a] /\ s[j] = t[b]

LEMMA KeepsOneMore ==
    ASSUME NEW S, NEW s \in Seq(S), NEW t \in Seq(S), NEW n \in 1 .. Len(t), NEW drop,
           Keeps(s, t, n - 1, drop),
           NEW r, r = IF t[n] \in drop THEN s ELSE Append(s, t[n])
    PROVE  r \in Seq(S) /\ Len(r) <= Len(s) + 1 /\ Keeps(r, t, n, drop)
<1>1. CASE t[n] \in drop
  <2>1. r = s
    BY <1>1
  <2>2. \A a \in 1 .. n - 1 : a \in 1 .. n
    OBVIOUS
  <2>3. \A a \in 1 .. n : a \in 1 .. n - 1 \/ a = n
    OBVIOUS
  <2>4. ASSUME NEW i \in 1 .. Len(s), NEW j \in 1 .. Len(s), i < j
        PROVE  \E a, b \in 1 .. n : a < b /\ s[i] = t[a] /\ s[j] = t[b]
    <3>1. PICK a \in 1 .. n - 1, b \in 1 .. n - 1 : a < b /\ s[i] = t[a] /\ s[j] = t[b]
      BY <2>4 DEF Keeps
    <3>. QED
      BY <2>2, <3>1
  <2>5. \A i \in 1 .. Len(s) : s[i] \notin drop /\ \E a \in 1 .. n : s[i] = t[a]
    BY <2>2 DEF Keeps
  <2>6. \A a \in 1 .. n : t[a] \notin drop => \E i \in 1 .. Len(s) : s[i] = t[a]
    BY <1>1, <2>3 DEF Keeps
  <2>. QED
    BY <2>1, <2>4, <2>5, <2>6 DEF Keeps
<1>2. CASE t[n] \notin drop
  <2>1. /\ r \in Seq(S) /\ Len(r) = Len(s) + 1 /\ r[Len(s) + 1] = t[n]
        /\ \A i \in 1 .. Len(s) : r[i] = s[i]
    BY <1>2
  <2>2. \A i \in 1 .. Len(r) : i \in 1 .. Len(s) \/ i = Len(s) + 1
    BY <2>1
  <2>3. \A a \in 1 .. n : a \in 1 .. n - 1 \/ a = n
    OBVIOUS
  <2>4. \A i \in 1 .. Len(r) : r[i] \notin drop /\ \E a \in 1 .. n : r[i] = t[a]
    BY <1>2, <2>1, <2>2 DEF Keeps
  <2>5. \A a \in 1 .. n : t[a] \notin drop => \E i \in 1 .. Len(r) : r[i] = t[a]
    BY <2>1, <2>3 DEF Keeps
  <2>6. ASSUME NEW i \in 1 .. Len(r), NEW j \in 1 .. Len(r), i < j
        PROVE  \E a, b \in 1 .. n : a < b /\ r[i] = t[a] /\ r[j] = t[b]
    <3>1. i \in 1 .. Len(s)
      BY <2>1, <2>6
    <3>2. CASE j = Len(s) + 1
      <4>1. PICK a \in 1 .. n - 1 : s[i] = t[a]
        BY <3>1 DEF Keeps
      <4>2. a \in 1 .. n /\ n \in 1 .. n /\ a < n
        BY <4>1
      <4>3. r[i] = t[a] /\ r[j] = t[n]
        BY <2>1, <3>1, <3>2, <4>1
      <4>. QED
        BY <4>2, <4>3
    <3>3. CASE j \in 1 .. Len(s)
      <4>1. PICK a \in 1 .. n - 1, b \in 1 .. n - 1 : a < b /\ s[i] = t[a] /\ s[j] = t[b]
        BY <2>6, <3>1, <3>3 DEF Keeps
      <4>. QED
        BY <2>1, <3>1, <3>3, <4>1
    <3>. QED
      BY <2>2, <3>2, <3>3
  <2>7. Keeps(r, t, n, drop)
    BY <2>4, <2>5, <2>6 DEF Keeps
  <2>. QED
    BY <2>1, <2>7
<1>. QED
  BY <1>1, <1>2

\* removeQueuedItemsByRef keeps the messages that were not taken, in their order.
LEMMA WithoutKeeps ==
    ASSUME NEW items \in Seq(Messages), NEW taken
    PROVE  /\ Without(items, taken) \in Seq(Messages)
           /\ Len(Without(items, taken)) <= Len(items)
           /\ Keeps(Without(items, taken), items, Len(items), Range(taken))
<1>. DEFINE S == Seq(Messages)
            none == <<>>
            N == Len(items)
            D == Range(taken)
            Next1(p, n) == IF items[n] \in D THEN p ELSE Append(p, items[n])
            Body(g) == [n \in 0 .. N |-> IF n = 0 THEN none ELSE Next1(g[n - 1], n)]
            f == CHOOSE g : g = Body(g)
<1>1. Without(items, taken) = f[N]
  BY DEF Without
<1>2. N \in Nat /\ none \in S
  OBVIOUS
<1>3. \A p \in S, n \in 1 .. N : Next1(p, n) \in S
  OBVIOUS
<1>. HIDE DEF S, none, N, D, Next1
<1>4. PICK g \in [0 .. N -> S] :
          g[0] = none /\ \A n \in 1 .. N : g[n] = Next1(g[n - 1], n)
  <2>. DEFINE step == [p \in S \X (1 .. N) |-> Next1(p[1], p[2])]
  <2>1. IsStep(step, S, N)
    BY <1>3 DEF IsStep
  <2>. HIDE DEF step
  <2>2. PICK g \in [0 .. N -> S] :
            g[0] = none /\ \A n \in 1 .. N : g[n] = step[<<g[n - 1], n>>]
    <3>1. HasRecursion(S, none, N, step)
      BY <1>2, <2>1, Recursion
    <3>. QED
      BY <3>1 DEF HasRecursion
  <2>3. ASSUME NEW n \in 1 .. N PROVE g[n] = Next1(g[n - 1], n)
    <3>1. n - 1 \in 0 .. N
      BY <1>2
    <3>2. g[n - 1] \in S
      BY <2>2, <3>1
    <3>3. step[<<g[n - 1], n>>] = Next1(g[n - 1], n)
      BY <3>2 DEF step
    <3>. QED
      BY <2>2, <3>3
  <2>. QED
    BY <2>2, <2>3
<1>5. g = Body(g)
  <2>1. \A n \in 0 .. N : g[n] = Body(g)[n]
    BY <1>2, <1>4
  <2>. QED
    BY <1>4, <2>1
<1>6. f = Body(f)
  BY <1>5
<1>. HIDE DEF f
<1>7. f[0] = none /\ \A n \in 1 .. N : f[n] = Next1(f[n - 1], n)
  <2>1. \A n \in 0 .. N : f[n] = Body(f)[n]
    BY <1>6
  <2>. HIDE DEF Body
  <2>2. \A n \in 0 .. N : Body(f)[n] = IF n = 0 THEN none ELSE Next1(f[n - 1], n)
    BY DEF Body
  <2>. QED
    BY <1>2, <2>1, <2>2
<1>. HIDE DEF Body
<1>. DEFINE P == {n \in 0 .. N : f[n] \in S /\ Len(f[n]) <= n /\ Keeps(f[n], items, n, D)}
<1>8. 0 \in P
  BY <1>2, <1>7 DEF Keeps, none
<1>9. ASSUME NEW n \in 1 .. N, n - 1 \in P PROVE n \in P
  <2>1. f[n] = Next1(f[n - 1], n)
    BY <1>7
  <2>2. f[n - 1] \in Seq(Messages) /\ Len(f[n - 1]) <= n - 1 /\ Keeps(f[n - 1], items, n - 1, D)
    BY <1>9 DEF S
  <2>3. f[n] = IF items[n] \in D THEN f[n - 1] ELSE Append(f[n - 1], items[n])
    BY <2>1 DEF Next1
  <2>4. n \in 1 .. Len(items)
    BY DEF N
  <2>. HIDE DEF P
  <2>5. f[n] \in Seq(Messages) /\ Len(f[n]) <= Len(f[n - 1]) + 1 /\ Keeps(f[n], items, n, D)
    BY <2>2, <2>3, <2>4, KeepsOneMore
  <2>6. Len(f[n]) <= n /\ n \in 0 .. N
    BY <1>2, <2>2, <2>5
  <2>. QED
    BY <2>5, <2>6 DEF P, S
<1>10. N \in P
  <2>. HIDE DEF P
  <2>1. \A n \in 0 .. N : n \in P
    BY <1>2, <1>8, <1>9, UpTo
  <2>. QED
    BY <1>2, <2>1
<1>. QED
  BY <1>1, <1>10 DEF S, N, D

\* g divides the first n elements of t into groups, in their order.
Divides(g, t, n) ==
    /\ \A k \in 1 .. Len(g) : \A x \in Range(g[k]) : \E a \in 1 .. n : x = t[a]
    /\ \A a \in 1 .. n : \E k \in 1 .. Len(g) : t[a] \in Range(g[k])
    /\ \A k, l \in 1 .. Len(g) : k < l =>
          \A x \in Range(g[k]), y \in Range(g[l]) :
              \E a, b \in 1 .. n : a < b /\ x = t[a] /\ y = t[b]

\* Sequences that grow at their end or lose elements there or at their head.
LEMMA AppendFacts ==
    ASSUME NEW S, NEW s \in Seq(S), NEW x \in S
    PROVE  /\ Append(s, x) \in Seq(S) /\ Len(Append(s, x)) = Len(s) + 1 /\ Len(s) \in Nat
           /\ Append(s, x)[Len(s) + 1] = x /\ \A i \in 1 .. Len(s) : Append(s, x)[i] = s[i]
OBVIOUS

LEMMA SubSeqFacts ==
    ASSUME NEW S, NEW s \in Seq(S), NEW m \in Nat \ {0}, NEW n \in Nat, m <= n + 1, n <= Len(s)
    PROVE  /\ SubSeq(s, m, n) \in Seq(S) /\ Len(SubSeq(s, m, n)) = n - m + 1
           /\ \A i \in 1 .. n - m + 1 : SubSeq(s, m, n)[i] = s[m + i - 1]
OBVIOUS

\* The elements of a sequence that grew.
LEMMA RangeAppend ==
    ASSUME NEW S, NEW s \in Seq(S), NEW x \in S
    PROVE  Append(s, x) \in Seq(S) /\ Range(Append(s, x)) = Range(s) \cup {x}
<1>1. /\ Append(s, x) \in Seq(S) /\ Len(Append(s, x)) = Len(s) + 1 /\ Len(s) \in Nat
      /\ Append(s, x)[Len(s) + 1] = x /\ \A i \in 1 .. Len(s) : Append(s, x)[i] = s[i]
      /\ DOMAIN s = 1 .. Len(s) /\ DOMAIN Append(s, x) = 1 .. Len(s) + 1
  OBVIOUS
<1>. QED
  BY <1>1 DEF Range

LEMMA DividesOneMore ==
    ASSUME NEW S, NEW g \in Seq(Seq(S)), NEW t \in Seq(S), NEW n \in 1 .. Len(t),
           Divides(g, t, n - 1), NEW h \in Seq(Seq(S)),
           Len(h) \in {Len(g), Len(g) + 1}, Len(h) > 0,
           \A k \in 1 .. Len(h) : k < Len(h) => h[k] = g[k],
           Range(h[Len(h)]) = {t[n]} \cup (IF Len(h) = Len(g) THEN Range(g[Len(h)]) ELSE {})
    PROVE  Divides(h, t, n)
<1>. DEFINE K == Len(h)
<1>1. K \in 1 .. K /\ K \in Nat /\ Len(g) \in Nat /\ n \in 1 .. n /\ n \in Nat
      /\ \A a \in 1 .. n - 1 : a \in 1 .. n /\ a < n
  OBVIOUS
<1>2. \A k \in 1 .. K : k < K => k \in 1 .. Len(g) /\ h[k] = g[k]
  OBVIOUS
<1>3. \A x \in Range(h[K]) : x = t[n] \/ (K \in 1 .. Len(g) /\ x \in Range(g[K]))
  OBVIOUS
<1>4. ASSUME NEW k \in 1 .. Len(g)
      PROVE  k \in 1 .. K /\ Range(g[k]) \subseteq Range(h[k])
  <2>1. k \in 1 .. K
    OBVIOUS
  <2>2. CASE k < K
    BY <1>2, <2>1, <2>2
  <2>3. CASE k = K
    <3>1. K = Len(g)
      BY <2>3
    <3>. QED
      BY <2>3, <3>1
  <2>. QED
    BY <2>1, <2>2, <2>3
<1>5. t[n] \in Range(h[K])
  OBVIOUS
<1>. HIDE DEF K
<1>6. ASSUME NEW k \in 1 .. K, NEW x \in Range(h[k])
      PROVE  (x = t[n] /\ k = K) \/ (k \in 1 .. Len(g) /\ x \in Range(g[k]))
  <2>1. k < K \/ k = K
    BY <1>1
  <2>. QED
    BY <1>2, <1>3, <2>1
<1>7. ASSUME NEW k \in 1 .. K, NEW x \in Range(h[k])
      PROVE  \E a \in 1 .. n : x = t[a]
  <2>1. CASE k \in 1 .. Len(g) /\ x \in Range(g[k])
    <3>1. PICK a \in 1 .. n - 1 : x = t[a]
      BY <2>1 DEF Divides
    <3>. QED
      BY <1>1, <3>1
  <2>. QED
    BY <1>1, <1>6, <2>1
<1>8. ASSUME NEW a \in 1 .. n
      PROVE  \E k \in 1 .. K : t[a] \in Range(h[k])
  <2>1. CASE a = n
    BY <1>1, <1>5, <2>1
  <2>2. CASE a # n
    <3>1. a \in 1 .. n - 1
      BY <1>1, <2>2
    <3>2. PICK k \in 1 .. Len(g) : t[a] \in Range(g[k])
      BY <3>1 DEF Divides
    <3>. QED
      BY <1>4, <3>2
  <2>. QED
    BY <2>1, <2>2
<1>9. ASSUME NEW k \in 1 .. K, NEW l \in 1 .. K, k < l,
             NEW x \in Range(h[k]), NEW y \in Range(h[l])
      PROVE  \E a, b \in 1 .. n : a < b /\ x = t[a] /\ y = t[b]
  <2>1. k \in 1 .. Len(g) /\ x \in Range(g[k])
    <3>1. k < K
      BY <1>1, <1>9
    <3>. QED
      BY <1>2, <3>1
  <2>2. CASE y = t[n]
    <3>1. PICK a \in 1 .. n - 1 : x = t[a]
      BY <2>1 DEF Divides
    <3>. QED
      BY <1>1, <2>2, <3>1
  <2>3. CASE l \in 1 .. Len(g) /\ y \in Range(g[l])
    <3>1. PICK a \in 1 .. n - 1, b \in 1 .. n - 1 : a < b /\ x = t[a] /\ y = t[b]
      BY <1>9, <2>1, <2>3 DEF Divides
    <3>. QED
      BY <1>1, <3>1
  <2>. QED
    BY <1>6, <2>2, <2>3
<1>. QED
  BY <1>7, <1>8, <1>9 DEF Divides, K

\* One more message goes to the last group or opens a new one.
LEMMA GroupOneMore ==
    ASSUME NEW S, NEW g \in Seq(Seq(S)), NEW t \in Seq(S), NEW n \in 1 .. Len(t),
           n > 1 => Len(g) > 0,
           NEW same \in BOOLEAN,
           NEW h, h = IF n > 1 /\ same THEN Append(Front(g), Append(Last(g), t[n]))
                      ELSE Append(g, <<t[n]>>)
    PROVE  /\ h \in Seq(Seq(S)) /\ Len(h) > 0
           /\ Divides(g, t, n - 1) => Divides(h, t, n)
<1>1. t[n] \in S /\ Len(g) \in Nat
  OBVIOUS
<1>2. /\ h \in Seq(Seq(S)) /\ Len(h) \in {Len(g), Len(g) + 1} /\ Len(h) > 0
      /\ \A k \in 1 .. Len(h) : k < Len(h) => h[k] = g[k]
      /\ Range(h[Len(h)]) = {t[n]} \cup (IF Len(h) = Len(g) THEN Range(g[Len(h)]) ELSE {})
  <2>. DEFINE T == Seq(S)
              K == Len(g)
  <2>1. CASE n > 1 /\ same
    <3>. DEFINE front == SubSeq(g, 1, K - 1)
                last == Append(g[K], t[n])
    <3>1. h = Append(front, last)
      BY <2>1 DEF Front, Last
    <3>2. K \in Nat /\ K > 0 /\ g[K] \in T /\ g \in Seq(T)
      BY <1>1, <2>1
    <3>3. last \in T /\ Range(last) = Range(g[K]) \cup {t[n]}
      BY <1>1, <3>2, RangeAppend
    <3>. HIDE DEF last, T
    <3>4. /\ front \in Seq(T) /\ Len(front) = K - 1
          /\ \A k \in 1 .. K - 1 : front[k] = g[k]
      <4>. DEFINE J == K - 1
      <4>1. J \in Nat /\ 1 \in Nat \ {0} /\ 1 <= J + 1 /\ J <= Len(g) /\ J = J - 1 + 1
            /\ \A i \in 1 .. J : 1 + i - 1 = i
        BY <3>2
      <4>. HIDE DEF J
      <4>2. /\ SubSeq(g, 1, J) \in Seq(T) /\ Len(SubSeq(g, 1, J)) = J - 1 + 1
            /\ \A i \in 1 .. J - 1 + 1 : SubSeq(g, 1, J)[i] = g[1 + i - 1]
        BY <3>2, <4>1, SubSeqFacts
      <4>. QED
        BY <4>1, <4>2 DEF J
    <3>. HIDE DEF front
    <3>5. /\ h \in Seq(T) /\ Len(h) = K /\ h[K] = last
          /\ \A k \in 1 .. K - 1 : h[k] = g[k]
      <4>1. K - 1 + 1 = K
        BY <3>2
      <4>2. /\ Append(front, last) \in Seq(T) /\ Len(Append(front, last)) = Len(front) + 1
            /\ Append(front, last)[Len(front) + 1] = last
            /\ \A i \in 1 .. Len(front) : Append(front, last)[i] = front[i]
        BY <3>3, <3>4, AppendFacts
      <4>. HIDE DEF K
      <4>. QED
        BY <3>1, <3>4, <4>1, <4>2
    <3>. HIDE DEF K
    <3>6. h \in Seq(T) /\ Len(h) \in {K, K + 1} /\ Len(h) > 0
          /\ \A k \in 1 .. Len(h) : k < Len(h) => h[k] = g[k]
      BY <3>2, <3>5
    <3>7. Range(h[Len(h)]) = {t[n]} \cup (IF Len(h) = K THEN Range(g[Len(h)]) ELSE {})
      BY <3>3, <3>5
    <3>. QED
      BY <3>6, <3>7 DEF K, T
  <2>2. CASE ~ (n > 1 /\ same)
    <3>. DEFINE last == <<t[n]>>
    <3>1. last \in T /\ Range(last) = {t[n]}
      BY <1>1 DEF Range
    <3>2. h = Append(g, last)
      BY <2>2
    <3>. HIDE DEF last, T
    <3>3. /\ h \in Seq(T) /\ Len(h) = K + 1 /\ h[K + 1] = last
          /\ \A k \in 1 .. K : h[k] = g[k]
      <4>1. g \in Seq(T)
        BY DEF T
      <4>2. /\ Append(g, last) \in Seq(T) /\ Len(Append(g, last)) = Len(g) + 1
            /\ Append(g, last)[Len(g) + 1] = last
            /\ \A i \in 1 .. Len(g) : Append(g, last)[i] = g[i]
        BY <3>1, <4>1, AppendFacts
      <4>. QED
        BY <3>2, <4>2
    <3>. HIDE DEF K
    <3>4. K \in Nat
      BY <1>1 DEF K
    <3>5. h \in Seq(T) /\ Len(h) \in {K, K + 1} /\ Len(h) > 0
          /\ \A k \in 1 .. Len(h) : k < Len(h) => h[k] = g[k]
      BY <3>3, <3>4
    <3>6. Range(h[Len(h)]) = {t[n]} \cup (IF Len(h) = K THEN Range(g[Len(h)]) ELSE {})
      <4>1. Len(h) # K
        BY <3>3, <3>4
      <4>2. h[Len(h)] = last
        BY <3>3
      <4>. QED
        BY <3>1, <4>1, <4>2
    <3>. QED
      BY <3>5, <3>6 DEF K, T
  <2>. QED
    BY <2>1, <2>2
<1>. QED
  BY <1>2, DividesOneMore

\* splitCollectItemsByAuthorization divides the items, in their order.
LEMMA AuthGroupsDivide ==
    ASSUME NEW items \in Seq(Messages)
    PROVE  /\ AuthGroups(items) \in Seq(Seq(Messages))
           /\ items # <<>> => AuthGroups(items) # <<>>
           /\ Divides(AuthGroups(items), items, Len(items))
<1>. DEFINE S == Seq(Seq(Messages))
            none == <<>>
            N == Len(items)
            Same(n) == SenderOf[items[n]] = SenderOf[items[n - 1]]
            Next1(g, n) ==
                IF n > 1 /\ Same(n) THEN Append(Front(g), Append(Last(g), items[n]))
                ELSE Append(g, <<items[n]>>)
            Body(g) == [n \in 0 .. N |-> IF n = 0 THEN none ELSE Next1(g[n - 1], n)]
            f == CHOOSE g : g = Body(g)
<1>1. AuthGroups(items) = f[N]
  BY DEF AuthGroups
<1>2. N \in Nat /\ none \in S
  OBVIOUS
<1>. HIDE DEF Same, Next1, Body, f
<1>3. ASSUME NEW g \in S, NEW n \in 1 .. N, n > 1 => Len(g) > 0
      PROVE  /\ Next1(g, n) \in S /\ Len(Next1(g, n)) > 0
             /\ Divides(g, items, n - 1) => Divides(Next1(g, n), items, n)
  <2>1. Same(n) \in BOOLEAN
    BY DEF Same
  <2>. DEFINE same == Same(n)
  <2>2. Next1(g, n) = IF n > 1 /\ same THEN Append(Front(g), Append(Last(g), items[n]))
                      ELSE Append(g, <<items[n]>>)
    BY DEF Next1
  <2>. HIDE DEF same
  <2>3. n \in 1 .. Len(items) /\ same \in BOOLEAN /\ g \in Seq(Seq(Messages))
    BY <2>1 DEF same
  <2>. QED
    BY <1>3, <2>2, <2>3, GroupOneMore
<1>. HIDE DEF S, none, N
<1>4. none \in S /\ Len(none) = 0
  BY DEF S, none
<1>5. \A g \in S : Len(g) \in Nat
  BY DEF S
<1>6. \E g : g = Body(g)
  <2>. DEFINE step == [p \in S \X (1 .. N) |->
                          IF p[2] > 1 => Len(p[1]) > 0 THEN Next1(p[1], p[2]) ELSE none]
  <2>1. IsStep(step, S, N)
    BY <1>3, <1>4 DEF IsStep
  <2>2. ASSUME NEW g \in S, NEW n \in 1 .. N, n > 1 => Len(g) > 0
        PROVE  step[<<g, n>>] = Next1(g, n)
    BY <2>2
  <2>. HIDE DEF step
  <2>3. HasRecursion(S, none, N, step)
    BY <1>2, <2>1, Recursion
  <2>4. PICK g \in [0 .. N -> S] :
            g[0] = none /\ \A n \in 1 .. N : g[n] = step[<<g[n - 1], n>>]
    BY <2>3 DEF HasRecursion
  <2>. DEFINE P == {n \in 0 .. N : n > 0 => Len(g[n]) > 0 /\ g[n] = Next1(g[n - 1], n)}
  <2>5. 0 \in P
    BY <1>2
  <2>6. ASSUME NEW n \in 1 .. N, n - 1 \in P PROVE n \in P
    <3>1. n - 1 \in 0 .. N /\ n \in 0 .. N /\ n > 0
      BY <1>2
    <3>2. g[n - 1] \in S /\ (n > 1 => Len(g[n - 1]) > 0)
      BY <2>4, <2>6, <3>1
    <3>3. g[n] = Next1(g[n - 1], n)
      BY <2>2, <2>4, <3>2
    <3>4. Len(g[n]) > 0
      BY <1>3, <3>2, <3>3
    <3>. QED
      BY <3>1, <3>3, <3>4
  <2>7. \A n \in 0 .. N : n \in P
    <3>. HIDE DEF P
    <3>. QED
      BY <1>2, <2>5, <2>6, UpTo
  <2>8. \A n \in 0 .. N : g[n] = IF n = 0 THEN none ELSE Next1(g[n - 1], n)
    <3>1. ASSUME NEW n \in 0 .. N, n # 0 PROVE g[n] = Next1(g[n - 1], n)
      BY <1>2, <2>7, <3>1
    <3>. QED
      BY <2>4, <3>1
  <2>9. g = Body(g)
    BY <2>4, <2>8 DEF Body
  <2>. QED
    BY <2>9
<1>7. f = Body(f)
  BY <1>6 DEF f
<1>8. f[0] = none /\ \A n \in 1 .. N : f[n] = Next1(f[n - 1], n)
  <2>1. \A n \in 0 .. N : f[n] = Body(f)[n]
    BY <1>7
  <2>2. \A n \in 0 .. N : Body(f)[n] = IF n = 0 THEN none ELSE Next1(f[n - 1], n)
    BY DEF Body
  <2>. QED
    BY <1>2, <2>1, <2>2
<1>. DEFINE P == {n \in 0 .. N : f[n] \in S /\ (n > 0 => Len(f[n]) > 0) /\ Divides(f[n], items, n)}
<1>9. 0 \in P
  BY <1>2, <1>4, <1>8 DEF Divides
<1>10. ASSUME NEW n \in 1 .. N, n - 1 \in P PROVE n \in P
  <2>1. n \in 0 .. N /\ f[n] = Next1(f[n - 1], n)
    BY <1>2, <1>8
  <2>2. f[n - 1] \in S /\ (n > 1 => Len(f[n - 1]) > 0) /\ Divides(f[n - 1], items, n - 1)
    BY <1>10
  <2>3. f[n] \in S /\ Len(f[n]) > 0 /\ Divides(f[n], items, n)
    BY <1>3, <2>1, <2>2
  <2>. QED
    BY <2>1, <2>3
<1>11. N \in P
  <2>. HIDE DEF P
  <2>1. \A n \in 0 .. N : n \in P
    BY <1>2, <1>9, <1>10, UpTo
  <2>. QED
    BY <1>2, <2>1
<1>12. f[N] \in S /\ (N > 0 => Len(f[N]) > 0) /\ Divides(f[N], items, N)
  BY <1>11
<1>13. items # <<>> => N > 0
  BY DEF N
<1>. QED
  BY <1>1, <1>12, <1>13 DEF S, N

-----------------------------------------------------------------------------
(* The inductive invariant.                                                 *)

Accepted == Range(accepted)
Items(q) == queue[q].items
CallsOf(q) == 1 .. Len(drain[q].calls)
Prompts(q, k) == Range(drain[q].calls[k].prompts)

\* x was accepted before y.
InOrder(s, x, y) == \E i, j \in 1 .. Len(s) : i < j /\ s[i] = x /\ s[j] = y
Before(x, y) == InOrder(accepted, x, y)
Sorted(s) == \A i, j \in 1 .. Len(s) : i < j => Before(s[i], s[j])

AcceptedOnce == \A i, j \in 1 .. Len(accepted) : accepted[i] = accepted[j] => i = j

\* A drain has turns to await when it awaits one, and each takes its prompts.
CallsFit ==
    \A q \in Queues :
        /\ drain[q].calls = <<>> <=> drain[q].pc \in {"idle", "loop"}
        /\ \A k \in CallsOf(q) :
              drain[q].calls[k].prompts \in {<<>>, drain[q].calls[k].takes}

OnlyAccepted ==
    /\ \A q \in Queues : Range(Items(q)) \subseteq Accepted
    /\ \A q \in Queues : \A k \in CallsOf(q) : Prompts(q, k) \subseteq Accepted
    /\ started \subseteq Accepted /\ cleared \subseteq Accepted
    /\ \A m \in Messages : completed[m] > 0 => m \in Accepted

\* Only the object in the map has items. They wait, in the order of arrival.
ItemsInMap == \A q \in Queues : Items(q) # <<>> => q = map
ItemsSorted == \A q \in Queues : Sorted(Items(q))
ItemsWait == \A q \in Queues : \A m \in Range(Items(q)) : completed[m] = 0 /\ m \notin cleared

\* A message is in the prompt of one turn at most, of the object that has it.
PromptsWait ==
    \A q \in Queues : \A k \in CallsOf(q) : \A m \in Prompts(q, k) : completed[m] = 0
OneTurnEach ==
    \A p, q \in Queues : \A k \in CallsOf(p), l \in CallsOf(q) :
        Prompts(p, k) \cap Prompts(q, l) # {} => p = q /\ k = l
OwnItems ==
    \A p, q \in Queues : \A k \in CallsOf(p) :
        Prompts(p, k) \cap Range(Items(q)) # {} => p = q

\* No formed turn is ahead of an older message that waits.
RunStarted == \A q \in Queues : drain[q].pc = "run" => Prompts(q, 1) \subseteq started
InTurn ==
    \A q \in Queues : \A k \in CallsOf(q) : \A y \in Prompts(q, k), x \in QueuedItems :
        Before(x, y) => x \in started \/ \E l \in 1 .. k : x \in Prompts(q, l)
StartedInTurn ==
    \A y \in started, x \in QueuedItems : Before(x, y) => x \in started

Order == AcceptedOnce /\ ItemsSorted /\ RunStarted /\ InTurn /\ StartedInTurn
Once == ItemsWait /\ PromptsWait /\ OneTurnEach /\ OwnItems /\ AtMostOneCompletedTurn
MessagesOK == CallsFit /\ OnlyAccepted /\ ItemsInMap /\ NothingLost /\ Once /\ Order

MInv == IInv /\ TypeOK /\ MessagesOK

-----------------------------------------------------------------------------
(* What the operations on one object return.                                *)

LEMMA Records ==
    /\ Created \in Queue /\ Created.items = <<>> /\ Created.droppedCount = 0
    /\ Idle \in Drain /\ Idle.calls = <<>> /\ Idle.pc = "idle"
    /\ Begun \in Drain /\ Begun.calls = <<>> /\ Begun.pc = "loop"
<1>1. (CHOOSE x \in Modes : TRUE) \in Modes /\ (CHOOSE x \in DropPolicies : TRUE) \in DropPolicies
  BY SettingsAssumption
<1>2. Created \in Queue /\ Created.items = <<>> /\ Created.droppedCount = 0
  BY <1>1 DEF Created, Queue
<1>3. NoSummary \in [droppedCount : Nat, summaryLines : Seq(Messages)]
  BY DEF NoSummary
<1>4. Idle \in Drain /\ Idle.calls = <<>> /\ Idle.pc = "idle"
  BY <1>3 DEF Idle, Drain
<1>5. Begun \in Drain /\ Begun.calls = <<>> /\ Begun.pc = "loop"
  <2>. HIDE DEF Idle
  <2>. QED
    BY <1>4 DEF Drain, Begun
<1>. QED
  BY <1>2, <1>4, <1>5

\* The types of the queue objects and of their drains.
QueuesOK(qs) == qs \in [Queues -> Queue] /\ \A q \in Queues : Len(qs[q].items) <= Cap
DrainsOK(dr) == dr \in [Queues -> Drain]

\* Scheduling moves no message.
LEMMA ScheduleKeeps ==
    ASSUME NEW mp \in Queues \cup {NoQueue}, NEW qs, QueuesOK(qs), NEW dr, DrainsOK(dr),
           Schedule(mp, qs, dr)
    PROVE  /\ map' \in {mp, NoQueue} /\ QueuesOK(queue') /\ DrainsOK(drain')
           /\ \A q \in Queues : queue'[q].items = qs[q].items
           /\ \A q \in Queues : drain'[q] \in {dr[q], Begun}
           /\ map' # mp => qs[mp].items = <<>>
<1>. DEFINE idle == mp # NoQueue /\ dr[mp].pc = "idle"
            work == idle /\ Pending(qs[mp])
<1>1. /\ map' = (IF idle /\ ~work THEN NoQueue ELSE mp)
      /\ queue' = (IF idle /\ ~work THEN [qs EXCEPT ![mp] = Created] ELSE qs)
      /\ drain' = (IF work THEN [dr EXCEPT ![mp] = Begun] ELSE dr)
  BY DEF Schedule
<1>2. SettingsAssumption
  BY SettingsAssumption
<1>3. CASE work
  BY <1>1, <1>3, Records DEF QueuesOK, DrainsOK
<1>4. CASE idle /\ ~work
  <2>1. map' = NoQueue /\ queue' = [qs EXCEPT ![mp] = Created] /\ drain' = dr
    BY <1>1, <1>4
  <2>2. mp \in Queues /\ qs[mp].items = <<>>
    BY <1>4 DEF Pending
  <2>3. QueuesOK(queue')
    <3>1. Len(Created.items) <= Cap
      BY Records, SettingsAssumption
    <3>. QED
      BY <2>1, <3>1, Records DEF QueuesOK
  <2>. QED
    BY <2>1, <2>2, <2>3, Records DEF QueuesOK
<1>5. CASE ~idle
  BY <1>1, <1>5
<1>. QED
  BY <1>3, <1>4, <1>5

\* Nor does the end of a drain.
LEMMA FinishKeeps ==
    ASSUME TypeOK, ItemsInMap, NEW q \in Queues, NEW qs, QueuesOK(qs),
           \A p \in Queues : qs[p].items = queue[p].items,
           Finish(q, qs)
    PROVE  /\ map' \in {map, NoQueue} /\ QueuesOK(queue') /\ DrainsOK(drain')
           /\ \A p \in Queues : queue'[p].items = queue[p].items
           /\ \A p \in Queues : drain'[p] \in {drain[p], Idle, Begun}
           /\ map' # map => queue[map].items = <<>>
<1>. DEFINE kept == IF Pending(qs[q]) /\ map = q THEN qs ELSE [qs EXCEPT ![q] = Created]
            ended == [drain EXCEPT ![q] = Idle]
<1>1. map \in Queues \cup {NoQueue} /\ drain \in [Queues -> Drain]
  BY DEF TypeOK
<1>2. QueuesOK(kept)
  BY Records, SettingsAssumption DEF QueuesOK
<1>3. \A p \in Queues : kept[p].items = queue[p].items
  <2>1. ~(Pending(qs[q]) /\ map = q) => queue[q].items = <<>>
    BY DEF Pending, ItemsInMap, Items
  <2>. QED
    BY <2>1, Records DEF QueuesOK
<1>4. DrainsOK(ended) /\ \A p \in Queues : ended[p] \in {drain[p], Idle}
  BY <1>1, Records DEF DrainsOK
<1>5. CASE Pending(qs[q])
  <2>1. Schedule(map, kept, ended)
    BY <1>5 DEF Finish
  <2>. HIDE DEF kept, ended
  <2>2. /\ map' \in {map, NoQueue} /\ QueuesOK(queue') /\ DrainsOK(drain')
        /\ \A p \in Queues : queue'[p].items = kept[p].items
        /\ \A p \in Queues : drain'[p] \in {ended[p], Begun}
        /\ map' # map => kept[map].items = <<>>
    BY <1>1, <1>2, <1>4, <2>1, ScheduleKeeps
  <2>3. map' # map => map \in Queues
    BY <1>1, <2>2
  <2>. QED
    BY <1>3, <1>4, <2>2, <2>3
<1>6. CASE ~Pending(qs[q])
  <2>1. /\ map' = IF map = q THEN NoQueue ELSE map
        /\ queue' = kept /\ drain' = ended
    BY <1>6 DEF Finish
  <2>2. map' # map => queue[map].items = <<>>
    BY <1>6, <2>1 DEF Pending
  <2>. HIDE DEF kept, ended
  <2>. QED
    BY <1>2, <1>3, <1>4, <2>1, <2>2
<1>. QED
  BY <1>5, <1>6

\* The elements of short sequences and of those without their head.
LEMMA RangeFacts ==
    ASSUME NEW S, NEW s \in Seq(S)
    PROVE  /\ Range(s) \subseteq S /\ \A i \in 1 .. Len(s) : s[i] \in Range(s)
           /\ \A x \in Range(s) : \E i \in 1 .. Len(s) : x = s[i]
BY DEF Range

LEMMA RangeEmpty == Range(<<>>) = {}
BY DEF Range

LEMMA RangeOne == \A x : Range(<<x>>) = {x}
BY DEF Range

\* applyQueueDropPolicy takes from the head, and leaves room.
LEMMA MakeRoomFacts ==
    ASSUME NEW q \in Queue, Len(q.items) <= Cap
    PROVE  /\ MakeRoom(q) \in Queue /\ Len(MakeRoom(q).items) < Cap
           /\ Range(Overflow(q)) \subseteq Messages
           /\ \E d \in Nat :
                 /\ Len(MakeRoom(q).items) = Len(q.items) - d
                 /\ \A i \in 1 .. Len(MakeRoom(q).items) : MakeRoom(q).items[i] = q.items[d + i]
                 /\ \A i \in 1 .. d : q.items[i] \in Range(Overflow(q))
<1>. DEFINE L == Len(q.items)
            d == Len(Overflow(q))
            rest == SubSeq(q.items, d + 1, L)
<1>1. q.items \in Seq(Messages) /\ q.summaryLines \in Seq(Messages) /\ q.droppedCount \in Nat
  BY DEF Queue
<1>2. L \in Nat /\ Cap \in Nat \ {0}
  BY <1>1, SettingsAssumption
<1>3. /\ Overflow(q) \in Seq(Messages) /\ d \in Nat /\ d <= L /\ L - d < Cap
      /\ \A i \in 1 .. d : Overflow(q)[i] = q.items[i]
  <2>1. CASE L < Cap
    BY <1>2, <2>1 DEF Overflow
  <2>2. CASE L = Cap
    <3>1. Overflow(q) = SubSeq(q.items, 1, L - Cap + 1) /\ L - Cap + 1 = 1
      BY <1>2, <2>2 DEF Overflow
    <3>2. Overflow(q) = SubSeq(q.items, 1, 1)
      BY <3>1
    <3>. HIDE DEF L
    <3>. QED
      BY <1>1, <1>2, <2>2, <3>2 DEF L
  <2>. QED
    BY <1>2, <2>1, <2>2
<1>4. \A i \in 1 .. d : q.items[i] \in Range(Overflow(q))
  BY <1>3, RangeFacts
<1>5. /\ rest \in Seq(Messages) /\ Len(rest) = L - d
      /\ \A i \in 1 .. Len(rest) : rest[i] = q.items[d + i]
  BY <1>1, <1>2, <1>3
<1>6. LastLines(q.summaryLines \o Overflow(q)) \in Seq(Messages)
  <2>. DEFINE lines == q.summaryLines \o Overflow(q)
  <2>1. lines \in Seq(Messages)
    BY <1>1, <1>3
  <2>. HIDE DEF lines
  <2>2. Len(lines) \in Nat
    BY <2>1
  <2>3. LastLines(lines) \in Seq(Messages)
    <3>1. CASE Len(lines) <= Cap
      BY <2>1, <3>1 DEF LastLines
    <3>2. CASE ~ (Len(lines) <= Cap)
      <4>. DEFINE m == Len(lines) - Cap + 1
      <4>1. m \in Nat \ {0} /\ m <= Len(lines) + 1
        BY <1>2, <2>2, <3>2
      <4>2. LastLines(lines) = SubSeq(lines, m, Len(lines))
        BY <3>2 DEF LastLines
      <4>. HIDE DEF m
      <4>. QED
        BY <2>1, <2>2, <4>1, <4>2, SubSeqFacts
    <3>. QED
      BY <3>1, <3>2
  <2>. QED
    BY <2>3 DEF lines
<1>7. MakeRoom(q) \in Queue /\ MakeRoom(q).items = rest
  <2>. DEFINE kept == [q EXCEPT !.items = rest]
              lines == LastLines(q.summaryLines \o Overflow(q))
  <2>1. kept \in Queue /\ kept.items = rest /\ kept.droppedCount = q.droppedCount
        /\ kept.summaryLines = q.summaryLines
    BY <1>5 DEF Queue
  <2>2. MakeRoom(q) = IF q.dropPolicy # "summarize" THEN kept
                      ELSE [kept EXCEPT !.droppedCount = q.droppedCount + d,
                                        !.summaryLines = lines]
    BY <2>1 DEF MakeRoom
  <2>3. lines \in Seq(Messages) /\ q.droppedCount + d \in Nat
    BY <1>1, <1>3, <1>6
  <2>. HIDE DEF kept, lines, rest, d
  <2>. QED
    BY <2>1, <2>2, <2>3 DEF Queue
<1>8. Range(Overflow(q)) \subseteq Messages
  BY <1>3, RangeFacts
<1>. QED
  <2>. HIDE DEF rest, d, L
  <2>. QED
    BY <1>2, <1>3, <1>4, <1>5, <1>7, <1>8 DEF L

\* restore of previewRestorableQueueSummaryPrompt is about the summary only.
LEMMA RestoredFacts ==
    ASSUME NEW q \in Queue, NEW saved \in [droppedCount : Nat, summaryLines : Seq(Messages)]
    PROVE  Restored(q, saved) \in Queue /\ Restored(q, saved).items = q.items
<1>. DEFINE count == IF q.droppedCount >= saved.droppedCount THEN q.droppedCount
                     ELSE q.droppedCount + saved.droppedCount
            lines == saved.summaryLines \o q.summaryLines
<1>1. count \in Nat /\ lines \in Seq(Messages)
  BY DEF Queue
<1>2. Restored(q, saved) \in {q, [q EXCEPT !.droppedCount = count, !.summaryLines = lines]}
  BY DEF Restored
<1>. HIDE DEF count, lines
<1>. QED
  BY <1>1, <1>2 DEF Queue

\* Turns formed of items: in their order, and no message in the prompts without
\* those before it.
FormedInOrder(turns, items) ==
    \A k, l \in 1 .. Len(turns) : k < l =>
        \A x \in Range(turns[k].prompts), y \in Range(turns[l].prompts) :
            \E a, b \in 1 .. Len(items) : a < b /\ x = items[a] /\ y = items[b]
Covers(turns, items, b) ==
    \A a \in 1 .. b : \E k \in 1 .. Len(turns) : items[a] \in Range(turns[k].prompts)
FormedWhole(turns, items) ==
    \A l \in 1 .. Len(turns) : \A y \in Range(turns[l].prompts) :
        \E b \in 1 .. Len(items) : y = items[b] /\ Covers(turns, items, b)
Formed(turns, items) ==
    /\ turns \in Seq(Call)
    /\ \A k \in 1 .. Len(turns) :
          /\ turns[k].prompts \in {<<>>, turns[k].takes}
          /\ Range(turns[k].prompts) \subseteq Range(items)
    /\ FormedInOrder(turns, items) /\ FormedWhole(turns, items)

\* A single turn, of the summary or of the first item.
LEMMA SummaryTurnFormed ==
    ASSUME NEW items \in Seq(Messages), NEW taken \in Seq(Messages)
    PROVE  Formed(<<SummaryTurn(taken)>>, items)
<1>. DEFINE call == SummaryTurn(taken)
            turns == <<call>>
<1>1. call \in Call /\ call.prompts = <<>>
  BY DEF SummaryTurn, Call
<1>. HIDE DEF call
<1>2. turns \in Seq(Call) /\ Len(turns) = 1 /\ \A k \in 1 .. Len(turns) : turns[k].prompts = <<>>
  BY <1>1
<1>. HIDE DEF turns
<1>3. Formed(turns, items)
  BY <1>2, RangeEmpty DEF Formed, FormedInOrder, FormedWhole, Covers
<1>. QED
  BY <1>3 DEF turns, call

LEMMA ItemTurnFormed ==
    ASSUME NEW items \in Seq(Messages), items # <<>>
    PROVE  Formed(<<ItemTurn(Head(items))>>, items)
<1>. DEFINE m == items[1]
            call == ItemTurn(m)
            turns == <<call>>
<1>1. m = Head(items) /\ m \in Messages /\ m \in Range(items) /\ 1 \in 1 .. Len(items)
  BY DEF Range
<1>2. call \in Call /\ call.prompts = <<m>> /\ call.takes = <<m>>
  <2>. HIDE DEF m
  <2>. QED
    BY <1>1 DEF ItemTurn, Call
<1>. HIDE DEF call
<1>3. /\ turns \in Seq(Call) /\ Len(turns) = 1
      /\ \A k \in 1 .. Len(turns) : k = 1 /\ turns[k].prompts = <<m>> /\ turns[k].takes = <<m>>
  BY <1>2
<1>4. Range(<<m>>) = {m}
  BY RangeOne
<1>. HIDE DEF turns, m
<1>5. \A k \in 1 .. Len(turns) :
          turns[k].prompts = turns[k].takes /\ Range(turns[k].prompts) = {m}
  BY <1>3, <1>4
<1>6. \A k, l \in 1 .. Len(turns) : ~ (k < l)
  BY <1>3
<1>7. ASSUME NEW l \in 1 .. Len(turns), NEW y \in Range(turns[l].prompts)
      PROVE  \E b \in 1 .. Len(items) :
                /\ y = items[b]
                /\ \A a \in 1 .. b : \E k \in 1 .. Len(turns) :
                      items[a] \in Range(turns[k].prompts)
  <2>1. y = items[1]
    BY <1>5 DEF m
  <2>2. \A a \in 1 .. 1 : a = 1
    OBVIOUS
  <2>3. \A a \in 1 .. 1 : \E k \in 1 .. Len(turns) : items[a] \in Range(turns[k].prompts)
    BY <1>7, <2>1, <2>2
  <2>. QED
    BY <1>1, <2>1, <2>3
<1>8. Formed(turns, items)
  BY <1>1, <1>3, <1>5, <1>6, <1>7 DEF Formed, FormedInOrder, FormedWhole, Covers
<1>. QED
  BY <1>1, <1>8 DEF turns, call

\* The turns of the groups.
LEMMA CollectTurnsFormed ==
    ASSUME NEW q, q.items \in Seq(Messages)
    PROVE  Formed(CollectTurns(q), q.items)
<1>. DEFINE items == q.items
            groups == AuthGroups(items)
            G == Len(groups)
            turns == CollectTurns(q)
<1>1. /\ groups \in Seq(Seq(Messages)) /\ G \in Nat /\ Divides(groups, items, Len(items))
      /\ \A k \in 1 .. G : groups[k] \in Seq(Messages)
  <2>. HIDE DEF items
  <2>1. /\ groups \in Seq(Seq(Messages)) /\ Divides(groups, items, Len(items))
    BY AuthGroupsDivide DEF items
  <2>. HIDE DEF groups
  <2>. QED
    BY <2>1
<1>2. turns = [k \in 1 .. G |-> [prompts |-> groups[k],
                                 summary |-> k = 1 /\ HasSummary(q), takes |-> groups[k]]]
  BY DEF CollectTurns
<1>3. \A k \in 1 .. G : (k = 1 /\ HasSummary(q)) \in BOOLEAN
  BY DEF HasSummary
<1>. HIDE DEF turns, groups
<1>4. turns \in Seq(Call) /\ Len(turns) = G
  <2>. DEFINE call(k) == [prompts |-> groups[k], summary |-> k = 1 /\ HasSummary(q),
                          takes |-> groups[k]]
  <2>1. \A k \in 1 .. G : call(k) \in Call
    BY <1>1, <1>3 DEF Call
  <2>2. turns = [k \in 1 .. G |-> call(k)]
    BY <1>2
  <2>. HIDE DEF call, G
  <2>. QED
    BY <1>1, <2>1, <2>2
<1>5. \A k \in 1 .. G : turns[k].prompts = groups[k] /\ turns[k].takes = groups[k]
  BY <1>2
<1>6. ASSUME NEW k \in 1 .. G PROVE Range(groups[k]) \subseteq Range(items)
  <2>1. \A x \in Range(groups[k]) : \E a \in 1 .. Len(items) : x = items[a]
    BY <1>1 DEF Divides
  <2>. QED
    BY <2>1, RangeFacts
<1>7. ASSUME NEW l \in 1 .. G, NEW y \in Range(groups[l])
      PROVE  \E b \in 1 .. Len(items) :
                /\ y = items[b]
                /\ \A a \in 1 .. b : \E k \in 1 .. G : items[a] \in Range(groups[k])
  <2>1. PICK b \in 1 .. Len(items) : y = items[b]
    BY <1>1 DEF Divides
  <2>2. \A a \in 1 .. b : a \in 1 .. Len(items)
    OBVIOUS
  <2>3. \A a \in 1 .. b : \E k \in 1 .. G : items[a] \in Range(groups[k])
    BY <1>1, <2>2 DEF Divides
  <2>. QED
    BY <2>1, <2>3
<1>8. \A k, l \in 1 .. G : k < l =>
          \A x \in Range(groups[k]), y \in Range(groups[l]) :
              \E a, b \in 1 .. Len(items) : a < b /\ x = items[a] /\ y = items[b]
  BY <1>1 DEF Divides
<1>. HIDE DEF items, G
<1>9. Formed(turns, items)
  <2>1. \A k \in 1 .. G : /\ turns[k].prompts \in {<<>>, turns[k].takes}
                          /\ Range(turns[k].prompts) \subseteq Range(items)
    BY <1>5, <1>6
  <2>2. ASSUME NEW k \in 1 .. G, NEW l \in 1 .. G, k < l,
               NEW x \in Range(turns[k].prompts), NEW y \in Range(turns[l].prompts)
        PROVE  \E a, b \in 1 .. Len(items) : a < b /\ x = items[a] /\ y = items[b]
    <3>1. x \in Range(groups[k]) /\ y \in Range(groups[l])
      BY <1>5
    <3>2. \A u \in Range(groups[k]), v \in Range(groups[l]) :
              \E a, b \in 1 .. Len(items) : a < b /\ u = items[a] /\ v = items[b]
      BY <1>8, <2>2
    <3>. QED
      BY <3>1, <3>2
  <2>3. ASSUME NEW l \in 1 .. G, NEW y \in Range(turns[l].prompts)
        PROVE  \E b \in 1 .. Len(items) :
                  /\ y = items[b]
                  /\ \A a \in 1 .. b : \E k \in 1 .. G : items[a] \in Range(turns[k].prompts)
    <3>1. y \in Range(groups[l])
      BY <1>5
    <3>2. PICK b \in 1 .. Len(items) :
              /\ y = items[b]
              /\ \A a \in 1 .. b : \E k \in 1 .. G : items[a] \in Range(groups[k])
      BY <1>7, <3>1
    <3>3. \A k \in 1 .. G : Range(turns[k].prompts) = Range(groups[k])
      BY <1>5
    <3>. QED
      BY <3>2, <3>3
  <2>. QED
    BY <1>4, <2>1, <2>2, <2>3 DEF Formed, FormedInOrder, FormedWhole, Covers
<1>. QED
  BY <1>9 DEF turns, items

\* What one pass of the loop awaits.
LEMMA NextTurnsFormed ==
    ASSUME NEW q \in Queue, NEW individual \in BOOLEAN
    PROVE  Formed(NextTurns(q, individual), q.items)
<1>. DEFINE turns == NextTurns(q, individual)
<1>1. q.items \in Seq(Messages) /\ q.mode \in {"followup", "collect"}
  BY SettingsAssumption DEF Queue
<1>2. Formed(<<>>, q.items)
  BY DEF Formed, FormedInOrder, FormedWhole, Covers
<1>3. CASE q.items = <<>>
  <2>1. turns = <<>> \/ turns = <<SummaryTurn(<<>>)>>
    BY <1>3 DEF NextTurns
  <2>2. <<>> \in Seq(Messages)
    OBVIOUS
  <2>. QED
    BY <1>1, <1>2, <2>1, <2>2, SummaryTurnFormed
<1>4. CASE q.items # <<>> /\ q.mode = "collect" /\ ~individual
  <2>1. turns = CollectTurns(q)
    BY <1>4 DEF NextTurns
  <2>. QED
    BY <1>1, <2>1, CollectTurnsFormed
<1>5. CASE q.items # <<>> /\ q.mode = "followup" /\ HasSummary(q)
  <2>1. turns = <<SummaryTurn(<<Head(q.items)>>)>>
    BY <1>5 DEF NextTurns
  <2>2. <<Head(q.items)>> \in Seq(Messages)
    BY <1>1, <1>5
  <2>. QED
    BY <1>1, <2>1, <2>2, SummaryTurnFormed
<1>6. CASE /\ q.items # <<>> /\ ~ (q.mode = "collect" /\ ~individual)
           /\ ~ (q.mode = "followup" /\ HasSummary(q))
  <2>1. turns = <<ItemTurn(Head(q.items))>>
    BY <1>6 DEF NextTurns
  <2>. QED
    BY <1>1, <1>6, <2>1, ItemTurnFormed
<1>. QED
  BY <1>3, <1>4, <1>5, <1>6

-----------------------------------------------------------------------------
(* The order of arrival.                                                    *)

\* It is one.
LEMMA BeforeFacts ==
    ASSUME accepted \in Seq(Messages), AcceptedOnce, NEW x, NEW y, Before(x, y)
    PROVE  x \in Accepted /\ y \in Accepted /\ x # y /\ ~ Before(y, x)
BY DEF Before, InOrder, AcceptedOnce, Accepted, Range

\* A message that is accepted comes after the others.
LEMMA BeforeGrows ==
    ASSUME accepted \in Seq(Messages), AcceptedOnce, NEW m \in Messages \ Accepted,
           accepted' = Append(accepted, m)
    PROVE  /\ accepted' \in Seq(Messages) /\ AcceptedOnce' /\ Accepted' = Accepted \cup {m}
           /\ \A x, y : Before(x, y) => Before(x, y)'
           /\ \A x, y \in Accepted : Before(x, y)' => Before(x, y)
           /\ \A x \in Accepted : Before(x, m)'
           /\ \A y : ~ Before(m, y)'
<1>. DEFINE L == Len(accepted)
<1>1. /\ accepted' \in Seq(Messages) /\ Len(accepted') = L + 1 /\ L \in Nat
      /\ accepted'[L + 1] = m /\ \A i \in 1 .. L : accepted'[i] = accepted[i]
  BY AppendFacts
<1>2. Accepted' = Accepted \cup {m}
  BY RangeAppend DEF Accepted
<1>3. \A i \in 1 .. L : accepted[i] \in Accepted /\ accepted[i] # m
  BY RangeFacts DEF Accepted
<1>4. \A x \in Accepted : \E i \in 1 .. L : accepted[i] = x
  BY RangeFacts DEF Accepted
<1>5. \A i \in 1 .. L + 1 : i \in 1 .. L \/ i = L + 1
  BY <1>1
<1>6. AcceptedOnce'
  BY <1>1, <1>3, <1>5 DEF AcceptedOnce
<1>7. ASSUME NEW x, NEW y, Before(x, y) PROVE Before(x, y)'
  BY <1>1, <1>7 DEF Before, InOrder
<1>8. ASSUME NEW x \in Accepted, NEW y \in Accepted, Before(x, y)' PROVE Before(x, y)
  <2>1. PICK i \in 1 .. L + 1, j \in 1 .. L + 1 : i < j /\ accepted'[i] = x /\ accepted'[j] = y
    BY <1>1, <1>8 DEF Before, InOrder
  <2>2. i \in 1 .. L /\ j \in 1 .. L
    BY <1>1, <2>1
  <2>. QED
    BY <1>1, <2>1, <2>2 DEF Before, InOrder
<1>9. ASSUME NEW x \in Accepted PROVE Before(x, m)'
  <2>1. PICK i \in 1 .. L : accepted[i] = x
    BY <1>4
  <2>2. i \in 1 .. Len(accepted') /\ L + 1 \in 1 .. Len(accepted') /\ i < L + 1
    BY <1>1
  <2>. QED
    BY <1>1, <2>1, <2>2 DEF Before, InOrder
<1>10. ASSUME NEW y, Before(m, y)' PROVE FALSE
  <2>1. PICK i \in 1 .. L + 1, j \in 1 .. L + 1 : i < j /\ accepted'[i] = m
    BY <1>1, <1>10 DEF Before, InOrder
  <2>2. i \in 1 .. L
    BY <1>1, <2>1
  <2>. QED
    BY <1>1, <1>3, <2>1, <2>2
<1>. QED
  BY <1>1, <1>2, <1>6, <1>7, <1>8, <1>9, <1>10

-----------------------------------------------------------------------------
(* The kinds of steps, by what they do to the messages.                     *)

\* What waits, as the items in the map.
LEMMA QueuedAreItems ==
    ASSUME map \in Queues \cup {NoQueue}
    PROVE  /\ \A x \in QueuedItems : map \in Queues /\ x \in Range(Items(map))
           /\ ItemsInMap => \A q \in Queues : Range(Items(q)) \subseteq QueuedItems
<1>1. NoQueue \notin Queues
  BY QueuesAssumption
<1>2. ASSUME ItemsInMap, NEW q \in Queues, NEW x \in Range(Items(q))
      PROVE  x \in QueuedItems
  <2>1. Items(q) # <<>>
    BY <1>2, RangeEmpty
  <2>2. q = map /\ map # NoQueue
    BY <1>1, <1>2, <2>1 DEF ItemsInMap
  <2>. QED
    BY <1>2, <2>2 DEF QueuedItems, Items
<1>. QED
  BY <1>1, <1>2 DEF QueuedItems, Items

\* A drain begins or ends or goes on as it is, and its items stay or are cleared.
LEMMA QuietStep ==
    ASSUME TypeOK, MessagesOK, map' \in Queues \cup {NoQueue},
           UNCHANGED <<accepted, started, completed>>,
           gone \subseteq gone', cleared \subseteq cleared', cleared' \subseteq Accepted,
           \A q \in Queues : drain'[q] \in {drain[q], Idle, Begun},
           \A q \in Queues : queue'[q].items \in {queue[q].items, <<>>},
           ItemsInMap',
           QueuedItems \subseteq QueuedItems' \cup cleared', QueuedItems' \cap cleared' = {}
    PROVE  MessagesOK'
<1>1. ASSUME NEW q \in Queues, NEW k \in CallsOf(q)'
      PROVE  k \in CallsOf(q) /\ drain'[q] = drain[q] /\ Prompts(q, k)' = Prompts(q, k)
  <2>1. drain'[q] \notin {Idle, Begun}
    <3>1. Len(Idle.calls) = 0 /\ Len(Begun.calls) = 0
      BY Records
    <3>2. k \in 1 .. Len(drain'[q].calls)
      BY DEF CallsOf
    <3>. QED
      BY <3>1, <3>2
  <2>. QED
    BY <2>1 DEF CallsOf, Prompts
<1>2. \A q \in Queues : Range(Items(q)') \subseteq Range(Items(q))
  BY RangeEmpty DEF Items
<1>3. QueuedItems' \subseteq QueuedItems
  <2>1. \A x \in QueuedItems' : map' \in Queues /\ x \in Range(Items(map)')
    BY QueuesAssumption DEF QueuedItems, Items
  <2>2. \A q \in Queues : Range(Items(q)) \subseteq QueuedItems
    BY QueuedAreItems DEF TypeOK, MessagesOK
  <2>3. \A x \in QueuedItems' : x \in Range(Items(map')) 
    BY <1>2, <2>1 DEF Items
  <2>. QED
    BY <2>1, <2>2, <2>3
<1>4. \A x, y : Before(x, y)' <=> Before(x, y)
  BY DEF Before
<1>5. CallsFit'
  <2>1. \A q \in Queues : drain'[q].calls = <<>> <=> drain'[q].pc \in {"idle", "loop"}
    BY Records DEF MessagesOK, CallsFit
  <2>. QED
    BY <1>1, <2>1 DEF MessagesOK, CallsFit
<1>6. OnlyAccepted'
  <2>1. Accepted' = Accepted
    BY DEF Accepted
  <2>. QED
    BY <1>1, <1>2, <2>1 DEF MessagesOK, OnlyAccepted
<1>7. NothingLost'
  BY DEF MessagesOK, NothingLost
<1>8. ItemsWait'
  <2>1. ASSUME NEW q \in Queues, NEW m \in Range(Items(q)')
        PROVE  m \notin cleared'
    <3>1. Items(q)' # <<>>
      BY RangeEmpty
    <3>2. q = map' /\ q # NoQueue
      BY <3>1, QueuesAssumption DEF ItemsInMap
    <3>. QED
      BY <3>2 DEF QueuedItems, Items
  <2>. QED
    BY <1>2, <2>1 DEF MessagesOK, Once, ItemsWait
<1>9. PromptsWait' /\ OneTurnEach' /\ OwnItems' /\ AtMostOneCompletedTurn'
  BY <1>1, <1>2 DEF MessagesOK, Once, PromptsWait, OneTurnEach, OwnItems, AtMostOneCompletedTurn
<1>10. AcceptedOnce' /\ StartedInTurn'
  BY <1>3, <1>4 DEF MessagesOK, Order, AcceptedOnce, StartedInTurn
<1>11. ItemsSorted'
  BY <1>4 DEF MessagesOK, Order, ItemsSorted, Sorted, Items
<1>12. RunStarted'
  BY Records DEF MessagesOK, Order, RunStarted, Prompts
<1>13. InTurn'
  <2>. SUFFICES ASSUME NEW q \in Queues, NEW k \in CallsOf(q)', NEW y \in Prompts(q, k)',
                       NEW x \in QueuedItems', Before(x, y)'
                PROVE  x \in started' \/ \E l \in 1 .. k : x \in Prompts(q, l)'
    BY DEF InTurn
  <2>1. k \in CallsOf(q) /\ drain'[q] = drain[q] /\ y \in Prompts(q, k) /\ x \in QueuedItems
    BY <1>1, <1>3
  <2>2. x \in started \/ \E l \in 1 .. k : x \in Prompts(q, l)
    BY <1>4, <2>1 DEF MessagesOK, Order, InTurn
  <2>3. \A l \in 1 .. k : Prompts(q, l)' = Prompts(q, l)
    BY <2>1 DEF Prompts
  <2>. QED
    BY <2>2, <2>3
<1>. QED
  BY <1>5, <1>6, <1>7, <1>8, <1>9, <1>10, <1>11, <1>12, <1>13 DEF MessagesOK, Once, Order

\* What stays when the head of a sequence is taken.
LEMMA LeftOver ==
    ASSUME NEW s \in Seq(Messages), NEW kept \in Seq(Messages), NEW d \in Nat,
           Len(kept) = Len(s) - d, \A i \in 1 .. Len(kept) : kept[i] = s[d + i],
           NEW dropped, \A i \in 1 .. d : s[i] \in dropped
    PROVE  /\ Range(kept) \subseteq Range(s) /\ Range(s) \subseteq Range(kept) \cup dropped
           /\ Sorted(s) => Sorted(kept)
<1>1. Len(s) \in Nat /\ Len(kept) \in Nat
  OBVIOUS
<1>2. \A i \in 1 .. Len(kept) : d + i \in 1 .. Len(s)
  BY <1>1
<1>3. Range(kept) \subseteq Range(s)
  <2>1. \A x \in Range(kept) : \E i \in 1 .. Len(kept) : x = kept[i]
    BY RangeFacts
  <2>2. \A i \in 1 .. Len(s) : s[i] \in Range(s)
    BY RangeFacts
  <2>. QED
    BY <1>2, <2>1, <2>2
<1>4. ASSUME NEW x \in Range(s) PROVE x \in Range(kept) \cup dropped
  <2>1. PICK i \in 1 .. Len(s) : x = s[i]
    BY RangeFacts
  <2>2. CASE i \in 1 .. d
    BY <2>1, <2>2
  <2>3. CASE i \notin 1 .. d
    <3>1. i - d \in 1 .. Len(kept) /\ d + (i - d) = i
      BY <1>1, <2>3
    <3>2. kept[i - d] = x
      BY <2>1, <3>1
    <3>. QED
      BY <3>1, <3>2, RangeFacts
  <2>. QED
    BY <2>2, <2>3
<1>5. ASSUME Sorted(s), NEW i \in 1 .. Len(kept), NEW j \in 1 .. Len(kept), i < j
      PROVE  Before(kept[i], kept[j])
  <2>1. d + i < d + j
    BY <1>5
  <2>. QED
    BY <1>2, <1>5, <2>1 DEF Sorted
<1>. QED
  BY <1>3, <1>4, <1>5 DEF Sorted

\* A message is accepted: it goes behind the items that are left of the map's.
LEMMA AcceptStep ==
    ASSUME TypeOK, MessagesOK, NEW target \in Queues, map' = target,
           NEW m \in Messages \ Accepted, accepted' = Append(accepted, m),
           UNCHANGED <<started, completed, cleared>>,
           \A q \in Queues : drain'[q] \in {drain[q], Begun},
           \A q \in Queues \ {target} : queue'[q].items = queue[q].items,
           map \in {NoQueue, target},
           NEW kept \in Seq(Messages), Sorted(kept), Range(kept) \subseteq Range(Items(target)),
           NEW dropped, Range(Items(target)) \subseteq Range(kept) \cup dropped,
           queue'[target].items = Append(kept, m), gone' = gone \cup dropped
    PROVE  MessagesOK'
<1>1. /\ accepted \in Seq(Messages) /\ AcceptedOnce /\ map \in Queues \cup {NoQueue}
      /\ queue \in [Queues -> Queue] /\ drain \in [Queues -> Drain]
      /\ completed \in [Messages -> Nat]
  BY DEF TypeOK, MessagesOK, Order
<1>2. /\ accepted' \in Seq(Messages) /\ AcceptedOnce' /\ Accepted' = Accepted \cup {m}
      /\ \A x, y : Before(x, y) => Before(x, y)'
      /\ \A x, y \in Accepted : Before(x, y)' => Before(x, y)
      /\ \A x \in Accepted : Before(x, m)'
      /\ \A y : ~ Before(m, y)'
  BY <1>1, BeforeGrows
<1>3. ASSUME NEW q \in Queues, NEW k \in CallsOf(q)'
      PROVE  k \in CallsOf(q) /\ drain'[q] = drain[q] /\ Prompts(q, k)' = Prompts(q, k)
  <2>1. drain'[q] # Begun
    <3>1. Len(Begun.calls) = 0
      BY Records
    <3>2. k \in 1 .. Len(drain'[q].calls)
      BY DEF CallsOf
    <3>. QED
      BY <3>1, <3>2
  <2>. QED
    BY <2>1 DEF CallsOf, Prompts
<1>5. Items(target)' = Append(kept, m) /\ Range(Items(target)') = Range(kept) \cup {m}
  BY RangeAppend DEF Items
<1>6. \A q \in Queues : Range(Items(q)') \subseteq Range(Items(q)) \cup {m}
  BY <1>5 DEF Items
<1>7. \A q \in Queues \ {target} : Items(q) = <<>> /\ Items(q)' = <<>>
  BY QueuesAssumption DEF Items, MessagesOK, ItemsInMap
<1>8. /\ QueuedItems' = Range(kept) \cup {m}
      /\ Range(kept) \subseteq QueuedItems
      /\ QueuedItems \subseteq Range(kept) \cup dropped
  <2>1. map' # NoQueue
    BY QueuesAssumption
  <2>2. QueuedItems' = Range(kept) \cup {m}
    BY <1>5, <2>1 DEF QueuedItems, Items
  <2>3. Range(Items(target)) \subseteq QueuedItems
    BY <1>1, QueuedAreItems DEF MessagesOK
  <2>5. QueuedItems \subseteq Range(Items(target))
    BY QueuesAssumption DEF QueuedItems, Items
  <2>. QED
    BY <2>2, <2>3, <2>5
<1>9. /\ m \notin QueuedItems /\ QueuedItems \subseteq Accepted
      /\ \A q \in Queues : \A k \in CallsOf(q) : Prompts(q, k) \subseteq Accepted
      /\ started \subseteq Accepted /\ cleared \subseteq Accepted /\ completed[m] = 0
  BY <1>1, QueuedAreItems DEF MessagesOK, OnlyAccepted
<1>10. CallsFit'
  <2>1. \A q \in Queues : drain'[q].calls = <<>> <=> drain'[q].pc \in {"idle", "loop"}
    BY Records DEF MessagesOK, CallsFit
  <2>. QED
    BY <1>3, <2>1 DEF MessagesOK, CallsFit
<1>11. OnlyAccepted'
  BY <1>2, <1>3, <1>6 DEF MessagesOK, OnlyAccepted
<1>12. ItemsInMap'
  BY <1>7 DEF ItemsInMap
<1>13. NothingLost'
  <2>. SUFFICES ASSUME NEW x \in Accepted'
                PROVE  x \in QueuedItems' \/ completed'[x] > 0 \/ x \in (gone \cup cleared)'
    BY DEF NothingLost, Accepted
  <2>1. CASE x = m
    BY <1>8, <2>1
  <2>2. CASE x \in Accepted
    <3>1. x \in QueuedItems \/ completed[x] > 0 \/ x \in gone \cup cleared
      BY <2>2 DEF MessagesOK, NothingLost, Accepted
    <3>. QED
      BY <1>8, <3>1
  <2>3. x = m \/ x \in Accepted
    BY <1>2
  <2>. QED
    BY <2>1, <2>2, <2>3
<1>14. ItemsWait'
  <2>. SUFFICES ASSUME NEW q \in Queues, NEW x \in Range(Items(q)')
                PROVE  completed'[x] = 0 /\ x \notin cleared'
    BY DEF ItemsWait
  <2>1. x \in Range(Items(q)) => completed[x] = 0 /\ x \notin cleared
    BY DEF MessagesOK, Once, ItemsWait
  <2>2. x \in Range(Items(q)) \/ x = m
    BY <1>6
  <2>. QED
    BY <1>9, <2>1, <2>2
<1>15. PromptsWait' /\ OneTurnEach' /\ AtMostOneCompletedTurn'
  BY <1>3 DEF MessagesOK, Once, PromptsWait, OneTurnEach, AtMostOneCompletedTurn
<1>16. OwnItems'
  BY <1>3, <1>6, <1>9 DEF MessagesOK, Once, OwnItems
<1>17. StartedInTurn'
  <2>. SUFFICES ASSUME NEW y \in started, NEW x \in QueuedItems', Before(x, y)'
                PROVE  x \in started
    BY DEF StartedInTurn
  <2>1. y \in Accepted /\ x # m
    <3>1. ASSUME x = m PROVE FALSE
      <4>1. InOrder(accepted', m, y)
        BY <3>1 DEF Before
      <4>2. ~ InOrder(accepted', m, y)
        BY <1>2 DEF Before
      <4>. QED
        BY <4>1, <4>2
    <3>. QED
      BY <1>9, <3>1
  <2>2. x \in QueuedItems
    BY <1>8, <2>1
  <2>3. Before(x, y)
    BY <1>2, <1>9, <2>1, <2>2
  <2>. QED
    BY <2>2, <2>3 DEF MessagesOK, Order, StartedInTurn
<1>18. RunStarted'
  BY Records DEF MessagesOK, Order, RunStarted, Prompts
<1>19. InTurn'
  <2>. SUFFICES ASSUME NEW q \in Queues, NEW k \in CallsOf(q)', NEW y \in Prompts(q, k)',
                       NEW x \in QueuedItems', Before(x, y)'
                PROVE  x \in started' \/ \E l \in 1 .. k : x \in Prompts(q, l)'
    BY DEF InTurn
  <2>1. k \in CallsOf(q) /\ drain'[q] = drain[q] /\ y \in Prompts(q, k)
    BY <1>3
  <2>2. x \in QueuedItems /\ Before(x, y)
    BY <1>2, <1>8, <1>9, <2>1
  <2>3. x \in started \/ \E l \in 1 .. k : x \in Prompts(q, l)
    BY <2>1, <2>2 DEF MessagesOK, Order, InTurn
  <2>4. \A l \in 1 .. k : Prompts(q, l)' = Prompts(q, l)
    BY <2>1 DEF Prompts
  <2>. QED
    BY <2>3, <2>4
<1>20. ItemsSorted'
  <2>. DEFINE items == Append(kept, m)
  <2>2. /\ Len(items) = Len(kept) + 1 /\ Len(kept) \in Nat /\ items[Len(kept) + 1] = m
        /\ \A i \in 1 .. Len(kept) : items[i] = kept[i] /\ kept[i] \in Accepted
    <3>1. \A i \in 1 .. Len(kept) : kept[i] \in Accepted
      <4>1. \A i \in 1 .. Len(kept) : kept[i] \in Range(kept)
        BY RangeFacts
      <4>. QED
        BY <1>8, <1>9, <4>1
    <3>2. m \in Messages
      OBVIOUS
    <3>3. /\ Len(items) = Len(kept) + 1 /\ Len(kept) \in Nat /\ items[Len(kept) + 1] = m
          /\ \A i \in 1 .. Len(kept) : items[i] = kept[i]
      BY <3>2
    <3>. HIDE DEF items
    <3>. QED
      BY <3>1, <3>3
  <2>. HIDE DEF items
  <2>3. ASSUME NEW i \in 1 .. Len(items), NEW j \in 1 .. Len(items), i < j
        PROVE  Before(items[i], items[j])'
    <3>1. i \in 1 .. Len(kept)
      BY <2>2, <2>3
    <3>2. CASE j = Len(kept) + 1
      BY <1>2, <2>2, <3>1, <3>2
    <3>3. CASE j \in 1 .. Len(kept)
      BY <1>2, <2>2, <2>3, <3>1, <3>3 DEF Sorted
    <3>4. j = Len(kept) + 1 \/ j \in 1 .. Len(kept)
      BY <2>2
    <3>. QED
      BY <3>2, <3>3, <3>4
  <2>. QED
    <3>1. \A q \in Queues \ {target} : Len(Items(q)') = 0
      BY <1>7
    <3>2. Sorted(Items(target))'
      BY <1>5, <2>3 DEF Sorted, items
    <3>3. \A q \in Queues \ {target} : Sorted(Items(q))'
      BY <3>1 DEF Sorted
    <3>. QED
      BY <3>2, <3>3 DEF ItemsSorted
<1>. QED
  BY <1>2, <1>10, <1>11, <1>12, <1>13, <1>14, <1>15, <1>16, <1>17, <1>18, <1>19, <1>20
  DEF MessagesOK, Once, Order

\* A pass of the loop forms turns of the items.
LEMMA FormStep ==
    ASSUME TypeOK, MessagesOK, NEW q \in Queues, drain[q].pc = "loop",
           NEW turns, turns # <<>>, Formed(turns, Items(q)),
           drain'[q].calls = turns, drain'[q].pc = "admit",
           \A p \in Queues \ {q} : drain'[p] = drain[p],
           UNCHANGED <<map, queue, accepted, gone, cleared, started, completed>>
    PROVE  MessagesOK'
<1>1. /\ accepted \in Seq(Messages) /\ AcceptedOnce /\ map \in Queues \cup {NoQueue}
      /\ queue \in [Queues -> Queue] /\ Items(q) \in Seq(Messages)
  BY DEF TypeOK, MessagesOK, Order, Items, Queue
<1>2. /\ \A p \in Queues : Items(p)' = Items(p)
      /\ QueuedItems' = QueuedItems /\ Accepted' = Accepted
      /\ \A x, y : Before(x, y)' <=> Before(x, y)
  BY DEF Items, QueuedItems, Accepted, Before
<1>3. \A p \in Queues \ {q} : CallsOf(p)' = CallsOf(p) /\ \A k : Prompts(p, k)' = Prompts(p, k)
  BY DEF CallsOf, Prompts
<1>4. CallsOf(q)' = 1 .. Len(turns) /\ \A k : Prompts(q, k)' = Range(turns[k].prompts)
  BY DEF CallsOf, Prompts
<1>5. \A k \in CallsOf(q)' : /\ turns[k].prompts \in {<<>>, turns[k].takes}
                             /\ Prompts(q, k)' \subseteq Range(Items(q))
  BY <1>4 DEF Formed
<1>6. /\ Range(Items(q)) \subseteq QueuedItems /\ Range(Items(q)) \subseteq Accepted
      /\ \A x \in QueuedItems : map \in Queues /\ x \in Range(Items(map))
      /\ Items(q) # <<>> => QueuedItems = Range(Items(q))
  BY <1>1, QueuedAreItems DEF MessagesOK, OnlyAccepted, ItemsInMap
<1>7. ASSUME NEW a \in 1 .. Len(Items(q)), NEW b \in 1 .. Len(Items(q)), a < b
      PROVE  Before(Items(q)[a], Items(q)[b])
  BY <1>7 DEF MessagesOK, Order, ItemsSorted, Sorted
<1>8. ASSUME NEW k \in CallsOf(q)', NEW l \in CallsOf(q)', k < l,
             NEW x \in Prompts(q, k)', NEW y \in Prompts(q, l)'
      PROVE  Before(x, y)
  <2>1. x \in Range(turns[k].prompts) /\ y \in Range(turns[l].prompts)
    BY <1>4
  <2>2. \A u \in Range(turns[k].prompts), v \in Range(turns[l].prompts) :
            \E a, b \in 1 .. Len(Items(q)) : a < b /\ u = Items(q)[a] /\ v = Items(q)[b]
    <3>1. FormedInOrder(turns, Items(q)) /\ k \in 1 .. Len(turns) /\ l \in 1 .. Len(turns)
      BY <1>4 DEF Formed
    <3>. QED
      BY <1>8, <3>1 DEF FormedInOrder
  <2>3. PICK a \in 1 .. Len(Items(q)), b \in 1 .. Len(Items(q)) :
            a < b /\ x = Items(q)[a] /\ y = Items(q)[b]
    BY <2>1, <2>2
  <2>. QED
    BY <1>7, <2>3
<1>9. \A k, l \in CallsOf(q)' : Prompts(q, k)' \cap Prompts(q, l)' # {} => k = l
  <2>1. ASSUME NEW k \in CallsOf(q)', NEW l \in CallsOf(q)',
               NEW x \in Prompts(q, k)' \cap Prompts(q, l)', k < l
        PROVE  FALSE
    BY <1>1, <1>8, <2>1, BeforeFacts
  <2>2. \A k, l \in CallsOf(q)' : k < l \/ l < k \/ k = l
    BY <1>4
  <2>. QED
    BY <2>1, <2>2
<1>10. CallsFit'
  <2>1. drain'[q].calls # <<>> /\ drain'[q].pc \notin {"idle", "loop"}
    OBVIOUS
  <2>2. \A k \in CallsOf(q)' : drain'[q].calls[k].prompts \in {<<>>, drain'[q].calls[k].takes}
    BY <1>5
  <2>3. \A p \in Queues \ {q} :
            /\ drain'[p].calls = <<>> <=> drain'[p].pc \in {"idle", "loop"}
            /\ \A k \in CallsOf(p)' :
                  drain'[p].calls[k].prompts \in {<<>>, drain'[p].calls[k].takes}
    BY <1>3 DEF MessagesOK, CallsFit
  <2>. QED
    BY <2>1, <2>2, <2>3 DEF CallsFit
<1>11. OnlyAccepted'
  <2>1. \A p \in Queues : \A k \in CallsOf(p)' : Prompts(p, k)' \subseteq Accepted
    BY <1>3, <1>5, <1>6 DEF MessagesOK, OnlyAccepted
  <2>. QED
    BY <1>2, <2>1 DEF MessagesOK, OnlyAccepted
<1>12. ItemsInMap' /\ NothingLost'
  BY <1>2 DEF MessagesOK, ItemsInMap, NothingLost
<1>13. ItemsWait' /\ AtMostOneCompletedTurn'
  BY <1>2 DEF MessagesOK, Once, ItemsWait, AtMostOneCompletedTurn
<1>14. PromptsWait'
  <2>1. \A m \in Range(Items(q)) : completed[m] = 0
    BY DEF MessagesOK, Once, ItemsWait
  <2>. QED
    BY <1>3, <1>5, <2>1 DEF MessagesOK, Once, PromptsWait
<1>15. OneTurnEach'
  <2>. SUFFICES ASSUME NEW p \in Queues, NEW r \in Queues, NEW k \in CallsOf(p)',
                       NEW l \in CallsOf(r)', NEW x \in Prompts(p, k)' \cap Prompts(r, l)'
                PROVE  p = r /\ k = l
    BY DEF OneTurnEach
  <2>1. CASE p # q /\ r # q
    BY <1>3, <2>1 DEF MessagesOK, Once, OneTurnEach
  <2>2. CASE p = q /\ r = q
    BY <1>9, <2>2
  <2>3. CASE p = q /\ r # q
    BY <1>3, <1>5, <2>3 DEF MessagesOK, Once, OwnItems
  <2>4. CASE p # q /\ r = q
    BY <1>3, <1>5, <2>4 DEF MessagesOK, Once, OwnItems
  <2>. QED
    BY <2>1, <2>2, <2>3, <2>4
<1>16. OwnItems'
  <2>. SUFFICES ASSUME NEW p \in Queues, NEW r \in Queues, NEW k \in CallsOf(p)',
                       NEW x \in Prompts(p, k)' \cap Range(Items(r))
                PROVE  p = r
    BY <1>2 DEF OwnItems
  <2>1. CASE p # q
    BY <1>3, <2>1 DEF MessagesOK, Once, OwnItems
  <2>2. CASE p = q
    <3>1. Items(q) # <<>> /\ Items(r) # <<>>
      BY <1>5, <2>2, RangeEmpty
    <3>. QED
      BY <2>2, <3>1 DEF MessagesOK, ItemsInMap
  <2>. QED
    BY <2>1, <2>2
<1>17. AcceptedOnce' /\ StartedInTurn'
  BY <1>2 DEF MessagesOK, Order, AcceptedOnce, StartedInTurn
<1>18. ItemsSorted'
  BY <1>2 DEF MessagesOK, Order, ItemsSorted, Sorted
<1>19. RunStarted'
  BY <1>3 DEF MessagesOK, Order, RunStarted
<1>20. InTurn'
  <2>. SUFFICES ASSUME NEW p \in Queues, NEW k \in CallsOf(p)', NEW y \in Prompts(p, k)',
                       NEW x \in QueuedItems, Before(x, y)
                PROVE  x \in started' \/ \E l \in 1 .. k : x \in Prompts(p, l)'
    BY <1>2 DEF InTurn
  <2>1. CASE p # q
    <3>1. x \in started \/ \E l \in 1 .. k : x \in Prompts(p, l)
      BY <1>3, <2>1 DEF MessagesOK, Order, InTurn
    <3>. QED
      BY <1>3, <2>1, <3>1
  <2>2. CASE p = q
    <3>1. y \in Range(turns[k].prompts) /\ k \in 1 .. Len(turns)
      BY <1>4, <2>2
    <3>2. PICK b \in 1 .. Len(Items(q)) :
              y = Items(q)[b] /\ Covers(turns, Items(q), b)
      <4>1. FormedWhole(turns, Items(q))
        BY DEF Formed
      <4>. QED
        BY <3>1, <4>1 DEF FormedWhole
    <3>3. x \in Range(Items(q))
      BY <1>6, <3>2, RangeFacts
    <3>4. PICK a \in 1 .. Len(Items(q)) : x = Items(q)[a]
      BY <1>1, <3>3, RangeFacts
    <3>5. ~ Before(y, x) /\ x # y
      BY <1>1, BeforeFacts
    <3>6. a \in 1 .. b
      <4>1. ~ (b < a)
        BY <1>7, <3>2, <3>4, <3>5
      <4>. QED
        BY <4>1
    <3>7. PICK l \in 1 .. Len(turns) : x \in Range(turns[l].prompts)
      BY <3>2, <3>4, <3>6 DEF Covers
    <3>8. ~ (k < l)
      BY <1>4, <1>8, <3>1, <3>5, <3>7
    <3>9. l \in 1 .. k
      BY <3>1, <3>8
    <3>. QED
      BY <1>4, <2>2, <3>7, <3>9
  <2>. QED
    BY <2>1, <2>2
<1>. QED
  BY <1>10, <1>11, <1>12, <1>13, <1>14, <1>15, <1>16, <1>17, <1>18, <1>19, <1>20
  DEF MessagesOK, Once, Order

\* A turn gets the slot.
LEMMA SlotStep ==
    ASSUME TypeOK, MessagesOK, NEW q \in Queues, drain[q].pc = "admit",
           \A p \in Queues : drain'[p].calls = drain[p].calls,
           \A p \in Queues \ {q} : drain'[p].pc = drain[p].pc,
           drain'[q].pc = "run", started' = started \cup Prompts(q, 1),
           UNCHANGED <<map, queue, accepted, gone, cleared, completed>>
    PROVE  MessagesOK'
<1>1. /\ \A p \in Queues : Items(p)' = Items(p)
      /\ QueuedItems' = QueuedItems /\ Accepted' = Accepted
      /\ \A x, y : Before(x, y)' <=> Before(x, y)
  BY DEF Items, QueuedItems, Accepted, Before
<1>2. \A p \in Queues : CallsOf(p)' = CallsOf(p) /\ \A k : Prompts(p, k)' = Prompts(p, k)
  BY DEF CallsOf, Prompts
<1>3. 1 \in CallsOf(q)
  <2>1. drain[q].calls # <<>> /\ drain[q].calls \in Seq(Call)
    BY DEF MessagesOK, CallsFit, TypeOK, Drain
  <2>. QED
    BY <2>1 DEF CallsOf
<1>4. CallsFit'
  BY <1>2 DEF MessagesOK, CallsFit
<1>5. OnlyAccepted'
  BY <1>1, <1>2, <1>3 DEF MessagesOK, OnlyAccepted
<1>6. ItemsInMap' /\ NothingLost'
  BY <1>1 DEF MessagesOK, ItemsInMap, NothingLost
<1>7. ItemsWait' /\ PromptsWait' /\ OneTurnEach' /\ OwnItems' /\ AtMostOneCompletedTurn'
  BY <1>1, <1>2 DEF MessagesOK, Once, ItemsWait, PromptsWait, OneTurnEach, OwnItems,
       AtMostOneCompletedTurn
<1>8. AcceptedOnce' /\ ItemsSorted'
  BY <1>1 DEF MessagesOK, Order, AcceptedOnce, ItemsSorted, Sorted
<1>9. RunStarted'
  BY <1>2 DEF MessagesOK, Order, RunStarted
<1>10. InTurn'
  BY <1>1, <1>2 DEF MessagesOK, Order, InTurn
<1>11. StartedInTurn'
  <2>. SUFFICES ASSUME NEW y \in started', NEW x \in QueuedItems, Before(x, y)
                PROVE  x \in started'
    BY <1>1 DEF StartedInTurn
  <2>1. CASE y \in started
    BY <2>1 DEF MessagesOK, Order, StartedInTurn
  <2>2. CASE y \in Prompts(q, 1)
    <3>1. x \in started \/ \E l \in 1 .. 1 : x \in Prompts(q, l)
      BY <1>3, <2>2 DEF MessagesOK, Order, InTurn
    <3>2. \A l \in 1 .. 1 : l = 1
      OBVIOUS
    <3>. QED
      BY <3>1, <3>2
  <2>. QED
    BY <2>1, <2>2
<1>. QED
  BY <1>4, <1>5, <1>6, <1>7, <1>8, <1>9, <1>10, <1>11 DEF MessagesOK, Once, Order

\* A turn is back: its messages leave the queue.
LEMMA BackStep ==
    ASSUME TypeOK, MessagesOK, NEW q \in Queues, drain[q].pc = "run",
           NEW call \in Call, call = drain[q].calls[1],
           queue'[q].items = Without(queue[q].items, call.takes),
           \A p \in Queues \ {q} : queue'[p].items = queue[p].items /\ drain'[p] = drain[p],
           drain'[q].calls = Tail(drain[q].calls),
           drain'[q].pc = (IF Tail(drain[q].calls) = <<>> THEN "loop" ELSE "admit"),
           completed' = [m \in Messages |->
               IF m \in Range(call.prompts) THEN completed[m] + 1 ELSE completed[m]],
           gone' = gone \cup (Range(call.takes) \ Range(call.prompts)),
           UNCHANGED <<map, accepted, cleared, started>>
    PROVE  MessagesOK'
<1>. DEFINE L == Len(drain[q].calls)
            takes == Range(call.takes)
            prompts == Range(call.prompts)
            items == Without(queue[q].items, call.takes)
<1>1. /\ accepted \in Seq(Messages) /\ map \in Queues \cup {NoQueue}
      /\ Items(q) \in Seq(Messages) /\ drain[q].calls \in Seq(Call)
      /\ completed \in [Messages -> Nat] /\ NoQueue \notin Queues
      /\ prompts \subseteq Messages
  BY QueuesAssumption, RangeFacts DEF TypeOK, Items, Queue, Drain, Call
<1>2. L \in Nat /\ L > 0
  <2>1. drain[q].calls # <<>> /\ drain[q].calls \in Seq(Call)
    BY <1>1 DEF MessagesOK, CallsFit
  <2>. QED
    BY <2>1
<1>3. prompts = {} \/ prompts = takes
  <2>1. call.prompts \in {<<>>, call.takes}
    BY <1>2 DEF MessagesOK, CallsFit, CallsOf
  <2>. QED
    BY <2>1, RangeEmpty
<1>4. 1 \in CallsOf(q) /\ Prompts(q, 1) = prompts /\ prompts \subseteq started
  BY <1>2 DEF CallsOf, Prompts, MessagesOK, Order, RunStarted
<1>5. /\ CallsOf(q)' = 1 .. L - 1
      /\ \A k \in 1 .. L - 1 : drain'[q].calls[k] = drain[q].calls[k + 1] /\ k + 1 \in CallsOf(q)
                               /\ Prompts(q, k)' = Prompts(q, k + 1)
  BY <1>1, <1>2 DEF CallsOf, Prompts
<1>6. \A p \in Queues \ {q} : /\ CallsOf(p)' = CallsOf(p) /\ Items(p)' = Items(p)
                              /\ \A k : Prompts(p, k)' = Prompts(p, k)
  BY DEF CallsOf, Prompts, Items
<1>7. /\ items \in Seq(Messages) /\ Keeps(items, Items(q), Len(Items(q)), takes)
      /\ Items(q)' = items /\ Len(items) <= Len(Items(q)) /\ Len(items) \in Nat
  <2>1. /\ items \in Seq(Messages) /\ Keeps(items, Items(q), Len(Items(q)), takes)
        /\ Len(items) <= Len(Items(q))
    BY <1>1, WithoutKeeps DEF Items
  <2>. HIDE DEF items, takes
  <2>2. Len(items) \in Nat
    BY <2>1
  <2>3. Items(q)' = items
    BY DEF Items, items
  <2>. QED
    BY <2>1, <2>2, <2>3
<1>. HIDE DEF items
<1>8. Range(items) = Range(Items(q)) \ takes
  <2>1. \A x \in Range(items) : \E i \in 1 .. Len(items) : x = items[i]
    BY <1>7, RangeFacts
  <2>2. \A x \in Range(Items(q)) : \E i \in 1 .. Len(Items(q)) : x = Items(q)[i]
    BY <1>1, RangeFacts
  <2>3. \A i \in 1 .. Len(items) : items[i] \in Range(items)
    BY <1>7, RangeFacts
  <2>4. \A i \in 1 .. Len(Items(q)) : Items(q)[i] \in Range(Items(q))
    BY <1>1, RangeFacts
  <2>5. ASSUME NEW x \in Range(items) PROVE x \in Range(Items(q)) /\ x \notin takes
    <3>1. PICK i \in 1 .. Len(items) : x = items[i]
      BY <2>1
    <3>2. items[i] \notin takes /\ \E a \in 1 .. Len(Items(q)) : items[i] = Items(q)[a]
      BY <1>7 DEF Keeps
    <3>. QED
      BY <2>4, <3>1, <3>2
  <2>6. ASSUME NEW x \in Range(Items(q)), x \notin takes PROVE x \in Range(items)
    <3>1. PICK i \in 1 .. Len(Items(q)) : x = Items(q)[i]
      BY <2>2
    <3>2. \E a \in 1 .. Len(items) : items[a] = Items(q)[i]
      BY <1>7, <2>6, <3>1 DEF Keeps
    <3>. QED
      BY <2>3, <3>1, <3>2
  <2>. QED
    BY <2>5, <2>6
<1>. HIDE DEF takes, prompts
<1>9. /\ QueuedItems' \subseteq QueuedItems
      /\ \A x \in QueuedItems : x \in QueuedItems' \/ x \in takes
      /\ Accepted' = Accepted
      /\ \A x, y : Before(x, y)' <=> Before(x, y)
  <2>1. CASE map = q
    <3>1. QueuedItems' = Range(Items(q)') /\ QueuedItems = Range(Items(q))
      BY <1>1, <2>1 DEF QueuedItems, Items
    <3>. QED
      BY <1>7, <1>8, <3>1 DEF Accepted, Before
  <2>2. CASE map # q
    <3>1. QueuedItems' = QueuedItems
      BY <1>1, <2>2 DEF QueuedItems
    <3>. QED
      BY <3>1 DEF Accepted, Before
  <2>. QED
    BY <2>1, <2>2
<1>10. \A p \in Queues : Range(Items(p)') \subseteq Range(Items(p))
  BY <1>6, <1>7, <1>8
<1>11. ASSUME NEW p \in Queues, NEW k \in CallsOf(p)'
       PROVE  \E l \in CallsOf(p) :
                  /\ Prompts(p, k)' = Prompts(p, l) /\ drain'[p].calls[k] = drain[p].calls[l]
                  /\ p = q => l = k + 1
  <2>1. CASE p = q
    BY <1>5, <2>1
  <2>2. CASE p # q
    BY <1>6, <2>2
  <2>. QED
    BY <2>1, <2>2
<1>12. ASSUME NEW p \in Queues, NEW k \in CallsOf(p)'
       PROVE  Prompts(p, k)' \cap prompts = {}
  <2>1. PICK l \in CallsOf(p) : Prompts(p, k)' = Prompts(p, l) /\ (p = q => l = k + 1)
    BY <1>11
  <2>2. p = q => l # 1
    BY <1>2, <1>5, <2>1
  <2>3. Prompts(p, l) \cap Prompts(q, 1) # {} => p = q /\ l = 1
    BY <1>4 DEF MessagesOK, Once, OneTurnEach
  <2>. QED
    BY <1>4, <2>1, <2>2, <2>3
<1>13. CallsFit'
  <2>1. drain'[q].calls = <<>> <=> drain'[q].pc \in {"idle", "loop"}
    OBVIOUS
  <2>2. \A p \in Queues \ {q} : drain'[p].calls = <<>> <=> drain'[p].pc \in {"idle", "loop"}
    BY DEF MessagesOK, CallsFit
  <2>3. ASSUME NEW p \in Queues, NEW k \in CallsOf(p)'
        PROVE  drain'[p].calls[k].prompts \in {<<>>, drain'[p].calls[k].takes}
    BY <1>11 DEF MessagesOK, CallsFit
  <2>. QED
    BY <2>1, <2>2, <2>3 DEF CallsFit
<1>14. OnlyAccepted'
  <2>1. \A p \in Queues : \A k \in CallsOf(p)' : Prompts(p, k)' \subseteq Accepted
    BY <1>11 DEF MessagesOK, OnlyAccepted
  <2>2. prompts \subseteq Accepted
    BY <1>4 DEF MessagesOK, OnlyAccepted
  <2>3. \A m \in Messages : completed'[m] > 0 => completed[m] > 0 \/ m \in prompts
    BY <1>1 DEF prompts
  <2>. QED
    BY <1>9, <1>10, <2>1, <2>2, <2>3 DEF MessagesOK, OnlyAccepted
<1>15. ItemsInMap'
  <2>1. \A p \in Queues : Items(p)' # <<>> => Items(p) # <<>>
    <3>1. Items(q) = <<>> => Items(q)' = <<>>
      <4>1. ASSUME Items(q) = <<>> PROVE Len(items) = 0
        BY <1>7, <4>1
      <4>. QED
        BY <1>7, <4>1
    <3>. QED
      BY <1>6, <3>1
  <2>. QED
    BY <2>1 DEF MessagesOK, ItemsInMap
<1>16. NothingLost'
  <2>. SUFFICES ASSUME NEW x \in Accepted
                PROVE  x \in QueuedItems' \/ completed'[x] > 0 \/ x \in gone' \cup cleared'
    BY <1>9 DEF NothingLost, Accepted
  <2>1. x \in QueuedItems \/ completed[x] > 0 \/ x \in gone \cup cleared
    BY DEF MessagesOK, NothingLost, Accepted
  <2>2. x \in Messages
    BY <1>1, RangeFacts DEF Accepted
  <2>3. completed[x] > 0 => completed'[x] > 0
    BY <1>1, <2>2
  <2>4. x \in prompts => completed'[x] > 0
    BY <1>1, <2>2 DEF prompts
  <2>5. gone' = gone \cup (takes \ prompts)
    BY DEF takes, prompts
  <2>. QED
    BY <1>9, <2>1, <2>3, <2>4, <2>5
<1>17. \A m \in Messages \ prompts : completed'[m] = completed[m]
  BY DEF prompts
<1>18. ItemsWait'
  <2>. SUFFICES ASSUME NEW p \in Queues, NEW x \in Range(Items(p)')
                PROVE  completed'[x] = 0 /\ x \notin cleared
    BY DEF ItemsWait
  <2>1. x \in Range(Items(p)) /\ completed[x] = 0 /\ x \notin cleared
    BY <1>10 DEF MessagesOK, Once, ItemsWait
  <2>2. x \notin prompts
    <3>1. CASE p = q
      BY <1>3, <1>7, <1>8, <3>1
    <3>2. CASE p # q
      BY <1>4, <2>1, <3>2 DEF MessagesOK, Once, OwnItems
    <3>. QED
      BY <3>1, <3>2
  <2>3. x \in Messages
    BY <1>1, <2>1, RangeFacts DEF MessagesOK, OnlyAccepted, Accepted
  <2>. QED
    BY <1>17, <2>1, <2>2, <2>3
<1>19. PromptsWait'
  <2>. SUFFICES ASSUME NEW p \in Queues, NEW k \in CallsOf(p)', NEW x \in Prompts(p, k)'
                PROVE  completed'[x] = 0
    BY DEF PromptsWait
  <2>1. PICK l \in CallsOf(p) : x \in Prompts(p, l)
    BY <1>11
  <2>2. completed[x] = 0 /\ x \in Accepted
    BY <2>1 DEF MessagesOK, Once, PromptsWait, OnlyAccepted
  <2>3. x \in Messages
    BY <1>1, <2>2, RangeFacts DEF Accepted
  <2>. QED
    BY <1>12, <1>17, <2>2, <2>3
<1>20. AtMostOneCompletedTurn'
  <2>. SUFFICES ASSUME NEW m \in Messages
                PROVE  completed'[m] <= 1
    BY DEF AtMostOneCompletedTurn
  <2>1. CASE m \in prompts
    <3>1. completed[m] = 0
      BY <1>4, <2>1 DEF MessagesOK, Once, PromptsWait
    <3>. QED
      BY <2>1, <3>1 DEF prompts
  <2>2. CASE m \notin prompts
    BY <1>17, <2>2 DEF MessagesOK, Once, AtMostOneCompletedTurn
  <2>. QED
    BY <2>1, <2>2
<1>21. OneTurnEach'
  <2>. SUFFICES ASSUME NEW p \in Queues, NEW r \in Queues, NEW k \in CallsOf(p)',
                       NEW l \in CallsOf(r)', Prompts(p, k)' \cap Prompts(r, l)' # {}
                PROVE  p = r /\ k = l
    BY DEF OneTurnEach
  <2>1. PICK i \in CallsOf(p) : Prompts(p, k)' = Prompts(p, i) /\ (p = q => i = k + 1)
                                /\ (p # q => i = k)
    BY <1>5, <1>6
  <2>2. PICK j \in CallsOf(r) : Prompts(r, l)' = Prompts(r, j) /\ (r = q => j = l + 1)
                                /\ (r # q => j = l)
    BY <1>5, <1>6
  <2>3. p = r /\ i = j
    BY <2>1, <2>2 DEF MessagesOK, Once, OneTurnEach
  <2>4. p = q => k \in Int /\ l \in Int
    BY <1>5, <2>3
  <2>. QED
    BY <2>1, <2>2, <2>3, <2>4
<1>22. OwnItems'
  BY <1>10, <1>11 DEF MessagesOK, Once, OwnItems
<1>23. AcceptedOnce' /\ StartedInTurn'
  BY <1>9 DEF MessagesOK, Order, AcceptedOnce, StartedInTurn
<1>24. ItemsSorted'
  <2>1. ASSUME NEW i \in 1 .. Len(items), NEW j \in 1 .. Len(items), i < j
        PROVE  Before(items[i], items[j])
    <3>1. PICK a \in 1 .. Len(Items(q)), b \in 1 .. Len(Items(q)) :
              a < b /\ items[i] = Items(q)[a] /\ items[j] = Items(q)[b]
      BY <1>7, <2>1 DEF Keeps
    <3>. QED
      BY <3>1 DEF MessagesOK, Order, ItemsSorted, Sorted
  <2>2. Sorted(Items(q))'
    BY <1>7, <1>9, <2>1 DEF Sorted
  <2>3. \A p \in Queues \ {q} : Sorted(Items(p))'
    BY <1>6, <1>9 DEF MessagesOK, Order, ItemsSorted, Sorted
  <2>. QED
    BY <2>2, <2>3 DEF ItemsSorted
<1>25. RunStarted'
  BY <1>6 DEF MessagesOK, Order, RunStarted
<1>26. InTurn'
  <2>. SUFFICES ASSUME NEW p \in Queues, NEW k \in CallsOf(p)', NEW y \in Prompts(p, k)',
                       NEW x \in QueuedItems', Before(x, y)
                PROVE  x \in started' \/ \E l \in 1 .. k : x \in Prompts(p, l)'
    BY <1>9 DEF InTurn
  <2>1. x \in QueuedItems
    BY <1>9
  <2>2. CASE p # q
    <3>1. x \in started \/ \E l \in 1 .. k : x \in Prompts(p, l)
      BY <1>6, <2>1, <2>2 DEF MessagesOK, Order, InTurn
    <3>. QED
      BY <1>6, <2>2, <3>1
  <2>3. CASE p = q
    <3>1. k \in 1 .. L - 1 /\ y \in Prompts(q, k + 1) /\ k + 1 \in CallsOf(q)
      BY <1>5, <2>3
    <3>2. CASE x \in started
      BY <3>2
    <3>3. ASSUME NEW l \in 1 .. k + 1, x \in Prompts(q, l), x \notin started
          PROVE  \E i \in 1 .. k : x \in Prompts(q, i)'
      <4>1. l # 1
        BY <1>4, <3>3
      <4>2. l - 1 \in 1 .. k /\ l - 1 \in 1 .. L - 1 /\ (l - 1) + 1 = l
        BY <1>2, <3>1, <4>1
      <4>3. Prompts(q, l - 1)' = Prompts(q, (l - 1) + 1)
        BY <1>5, <4>2
      <4>. QED
        BY <3>3, <4>2, <4>3
    <3>. QED
      BY <2>1, <2>3, <3>1, <3>2, <3>3 DEF MessagesOK, Order, InTurn
  <2>. QED
    BY <2>2, <2>3
<1>. QED
  BY <1>13, <1>14, <1>15, <1>16, <1>18, <1>19, <1>20, <1>21, <1>22, <1>23, <1>24, <1>25, <1>26
  DEF MessagesOK, Once, Order

-----------------------------------------------------------------------------
(* The steps.                                                               *)

\* Nothing that waits was cleared.
LEMMA QueuedNotCleared ==
    ASSUME TypeOK, MessagesOK
    PROVE  QueuedItems \cap cleared = {} /\ cleared \subseteq Accepted
<1>1. \A x \in QueuedItems : map \in Queues /\ x \in Range(Items(map))
  BY QueuedAreItems DEF TypeOK
<1>. QED
  BY <1>1 DEF MessagesOK, Once, ItemsWait, OnlyAccepted

\* A step that moves no message.
LEMMA StillStep ==
    ASSUME TypeOK, MessagesOK, map' \in Queues \cup {NoQueue},
           UNCHANGED <<accepted, started, completed, gone, cleared>>,
           \A q \in Queues : drain'[q] \in {drain[q], Idle, Begun},
           \A q \in Queues : queue'[q].items = queue[q].items,
           map' = map \/ map = NoQueue \/ queue[map].items = <<>>
    PROVE  MessagesOK'
<1>1. map \in Queues \cup {NoQueue} /\ NoQueue \notin Queues
  BY QueuesAssumption DEF TypeOK
<1>2. CASE map' = map
  <2>1. QueuedItems' = QueuedItems
    BY <1>1, <1>2 DEF QueuedItems
  <2>2. ItemsInMap'
    BY <1>2 DEF MessagesOK, ItemsInMap, Items
  <2>. QED
    BY <2>1, <2>2, QueuedNotCleared, QuietStep
<1>3. CASE map = NoQueue \/ queue[map].items = <<>>
  <2>1. \A q \in Queues : queue[q].items = <<>>
    BY <1>1, <1>3 DEF MessagesOK, ItemsInMap, Items
  <2>2. QueuedItems = {} /\ QueuedItems' = {}
    BY <1>1, <2>1, RangeEmpty DEF QueuedItems
  <2>3. ItemsInMap'
    BY <2>1 DEF ItemsInMap, Items
  <2>. QED
    BY <2>2, <2>3, QueuedNotCleared, QuietStep
<1>. QED
  BY <1>2, <1>3

\* A turn or an inbound message that changes no queue object.
LEMMA TurnKeeps ==
    ASSUME MInv, NEW m \in Messages,
           Arrive(m) \/ Redeliver(m) \/ StartTurn(m) \/ TurnFails(m)
    PROVE  TypeOK' /\ MessagesOK'
<1>1. /\ UNCHANGED <<map, queue, drain, accepted, gone, cleared, stale, started, completed,
                     clears, failures>>
      /\ \E to \in {"starting", "deciding", "turn", "ending"} :
             inbound' = [inbound EXCEPT ![m] = to]
      /\ slot' \in {slot, m, Free} /\ redelivery' \subseteq redelivery
  BY DEF Arrive, Redeliver, StartTurn, TurnFails, historyVars, counters
<1>2. TypeOK'
  BY <1>1 DEF MInv, TypeOK
<1>3. MessagesOK'
  BY <1>1, <1>2, StillStep DEF MInv, TypeOK
<1>. QED
  BY <1>2, <1>3

\* A turn that ends schedules the drain.
LEMMA TurnEndsKeeps ==
    ASSUME MInv, NEW m \in Messages, TurnEnds(m)
    PROVE  TypeOK' /\ MessagesOK'
<1>1. /\ UNCHANGED <<accepted, redelivery, gone, cleared, stale, started, completed,
                     clears, failures>>
      /\ inbound' = [inbound EXCEPT ![m] = "over"]
      /\ slot' \in {slot, Free} /\ Schedule(map, queue, drain)
  BY DEF TurnEnds, historyVars, counters
<1>2. map \in Queues \cup {NoQueue} /\ QueuesOK(queue) /\ DrainsOK(drain)
  BY DEF MInv, TypeOK, QueuesOK, DrainsOK
<1>3. /\ map' \in {map, NoQueue} /\ QueuesOK(queue') /\ DrainsOK(drain')
      /\ \A q \in Queues : queue'[q].items = queue[q].items
      /\ \A q \in Queues : drain'[q] \in {drain[q], Begun}
      /\ map' # map => queue[map].items = <<>>
  BY <1>1, <1>2, ScheduleKeeps
<1>4. TypeOK'
  BY <1>1, <1>2, <1>3 DEF MInv, TypeOK, QueuesOK, DrainsOK
<1>5. MessagesOK'
  BY <1>1, <1>2, <1>3, StillStep DEF MInv
<1>. QED
  BY <1>4, <1>5

\* The drain of q ends.
LEMMA EndKeeps ==
    ASSUME MInv, NEW q \in Queues, NEW qs, QueuesOK(qs),
           \A p \in Queues : qs[p].items = queue[p].items,
           Finish(q, qs), slot' \in {slot, Free}, failures' \in 0 .. MaxFailures,
           UNCHANGED <<inbound, accepted, redelivery, gone, cleared, stale, started, completed,
                       clears>>
    PROVE  TypeOK' /\ MessagesOK'
<1>1. TypeOK /\ MessagesOK /\ ItemsInMap /\ map \in Queues \cup {NoQueue}
  BY DEF MInv, MessagesOK, TypeOK
<1>2. /\ map' \in {map, NoQueue} /\ QueuesOK(queue') /\ DrainsOK(drain')
      /\ \A p \in Queues : queue'[p].items = queue[p].items
      /\ \A p \in Queues : drain'[p] \in {drain[p], Idle, Begun}
      /\ map' # map => queue[map].items = <<>>
  BY <1>1, FinishKeeps
<1>3. TypeOK'
  BY <1>1, <1>2 DEF TypeOK, QueuesOK, DrainsOK
<1>4. MessagesOK'
  BY <1>1, <1>2, StillStep
<1>. QED
  BY <1>3, <1>4

\* A turn throws, or gets no slot in time.
LEMMA CallFailsKeeps ==
    ASSUME MInv, NEW q \in Queues, CallFails(q)
    PROVE  TypeOK' /\ MessagesOK'
<1>1. /\ failures < MaxFailures /\ failures' = failures + 1
      /\ slot' \in {slot, Free} /\ Finish(q, queue)
      /\ UNCHANGED <<inbound, accepted, redelivery, gone, cleared, stale, started, completed,
                     clears>>
  BY DEF CallFails, historyVars
<1>2. failures' \in 0 .. MaxFailures /\ QueuesOK(queue)
  BY <1>1, BoundsAssumption DEF MInv, TypeOK, QueuesOK
<1>. QED
  BY <1>1, <1>2, EndKeeps

LEMMA CallDefersKeeps ==
    ASSUME MInv, NEW q \in Queues, CallDefers(q)
    PROVE  TypeOK' /\ MessagesOK'
<1>. DEFINE restored == Restored(queue[q], drain[q].saved)
            qs == IF Head(drain[q].calls).summary
                  THEN [queue EXCEPT ![q] = restored] ELSE queue
<1>1. /\ failures < MaxFailures /\ failures' = failures + 1
      /\ slot' \in {slot, Free} /\ Finish(q, qs)
      /\ UNCHANGED <<inbound, accepted, redelivery, gone, cleared, stale, started, completed,
                     clears>>
  BY DEF CallDefers, historyVars
<1>2. failures' \in 0 .. MaxFailures /\ QueuesOK(queue)
  BY <1>1, BoundsAssumption DEF MInv, TypeOK, QueuesOK
<1>3. restored \in Queue /\ restored.items = queue[q].items
  <2>1. queue[q] \in Queue
        /\ drain[q].saved \in [droppedCount : Nat, summaryLines : Seq(Messages)]
    BY DEF MInv, TypeOK, Drain
  <2>. QED
    BY <2>1, RestoredFacts
<1>. HIDE DEF restored
<1>4. QueuesOK(qs) /\ \A p \in Queues : qs[p].items = queue[p].items
  BY <1>2, <1>3 DEF QueuesOK
<1>. HIDE DEF qs
<1>. QED
  BY <1>1, <1>2, <1>4, EndKeeps

\* A message is queued, or refused.
LEMMA EnqueueKeeps ==
    ASSUME MInv, NEW m \in Messages, EnqueueBehind(m)
    PROVE  TypeOK' /\ MessagesOK'
<1>1. PICK mode \in Modes, policy \in DropPolicies :
          LET target == QueueFor
              q == [queue[target] EXCEPT !.mode = mode, !.dropPolicy = policy]
              refused == Known(m, q) \/ (policy = "new" /\ Len(q.items) >= Cap)
              filled == IF refused THEN q ELSE [MakeRoom(q) EXCEPT !.items = Append(@, m)]
              changed == [queue EXCEPT ![target] = filled]
          IN  /\ IF slot = Free
                 THEN Schedule(target, changed, drain)
                 ELSE map' = target /\ queue' = changed /\ drain' = drain
              /\ accepted' = IF refused THEN accepted ELSE Append(accepted, m)
              /\ gone' = IF refused THEN gone ELSE gone \cup Range(Overflow(q))
              /\ stale' = (stale \/ slot \in Queues \ {target})
  BY DEF EnqueueBehind
<1>2. /\ UNCHANGED <<slot, redelivery, cleared, started, completed, clears, failures>>
      /\ inbound' = [inbound EXCEPT ![m] = "queued"]
  BY DEF EnqueueBehind, counters
<1>. DEFINE target == QueueFor
            q == [queue[target] EXCEPT !.mode = mode, !.dropPolicy = policy]
            refused == Known(m, q) \/ (policy = "new" /\ Len(q.items) >= Cap)
            filled == IF refused THEN q ELSE [MakeRoom(q) EXCEPT !.items = Append(@, m)]
            changed == [queue EXCEPT ![target] = filled]
<1>3. /\ target \in Queues /\ map \in {NoQueue, target} /\ TypeOK /\ MessagesOK
      /\ queue \in [Queues -> Queue] /\ drain \in [Queues -> Drain]
      /\ \A p \in Queues : Len(queue[p].items) <= Cap
  <2>1. IInv /\ TypeOK /\ MessagesOK
    BY DEF MInv
  <2>. QED
    BY <2>1, QueueForFacts DEF TypeOK
<1>4. /\ q \in Queue /\ q.items = queue[target].items
      /\ Len(q.items) <= Cap
  <2>. HIDE DEF target
  <2>. QED
    BY <1>3 DEF Queue
<1>5. /\ IF slot = Free
         THEN Schedule(target, changed, drain)
         ELSE map' = target /\ queue' = changed /\ drain' = drain
      /\ accepted' = IF refused THEN accepted ELSE Append(accepted, m)
      /\ gone' = IF refused THEN gone ELSE gone \cup Range(Overflow(q))
      /\ stale' \in BOOLEAN
  BY <1>1
<1>. HIDE DEF target, q, refused, changed
<1>6. QueuesOK(changed) =>
          /\ map' \in {target, NoQueue} /\ QueuesOK(queue') /\ DrainsOK(drain')
          /\ \A p \in Queues : queue'[p].items = changed[p].items
          /\ \A p \in Queues : drain'[p] \in {drain[p], Begun}
          /\ map' # target => changed[target].items = <<>>
  <2>1. CASE slot = Free
    BY <1>3, <1>5, <2>1, ScheduleKeeps DEF DrainsOK
  <2>2. CASE slot # Free
    BY <1>3, <1>5, <2>2 DEF DrainsOK
  <2>. QED
    BY <2>1, <2>2
<1>7. CASE refused
  <2>1. QueuesOK(changed) /\ \A p \in Queues : changed[p].items = queue[p].items
    BY <1>3, <1>4, <1>7 DEF QueuesOK, changed
  <2>2. /\ map' \in {target, NoQueue} /\ QueuesOK(queue') /\ DrainsOK(drain')
        /\ \A p \in Queues : queue'[p].items = queue[p].items
        /\ \A p \in Queues : drain'[p] \in {drain[p], Begun}
        /\ map' # target => queue[target].items = <<>>
    BY <1>3, <1>6, <2>1
  <2>3. UNCHANGED <<accepted, gone>>
    BY <1>5, <1>7
  <2>4. TypeOK'
    BY <1>2, <1>3, <1>5, <2>2, <2>3 DEF TypeOK, QueuesOK, DrainsOK
  <2>5. MessagesOK'
    BY <1>2, <1>3, <2>2, <2>3, StillStep
  <2>. QED
    BY <2>4, <2>5
<1>8. CASE ~refused
  <2>. DEFINE room == MakeRoom(q)
              kept == room.items
              dropped == Range(Overflow(q))
  <2>1. /\ room \in Queue /\ Len(kept) < Cap /\ dropped \subseteq Messages
        /\ \E d \in Nat :
              /\ Len(kept) = Len(q.items) - d
              /\ \A i \in 1 .. Len(kept) : kept[i] = q.items[d + i]
              /\ \A i \in 1 .. d : q.items[i] \in dropped
    BY <1>4, MakeRoomFacts
  <2>2. filled = [room EXCEPT !.items = Append(room.items, m)]
    BY <1>8
  <2>. HIDE DEF room, dropped
  <2>3. kept \in Seq(Messages) /\ q.items \in Seq(Messages)
    BY <1>4, <2>1 DEF Queue
  <2>4. filled \in Queue /\ filled.items = Append(kept, m)
    <3>. DEFINE items == Append(kept, m)
    <3>1. items \in Seq(Messages)
      BY <2>3
    <3>2. filled = [room EXCEPT !.items = items]
      BY <2>2
    <3>. HIDE DEF items, filled, kept
    <3>3. filled \in Queue /\ filled.items = items
      BY <2>1, <3>1, <3>2 DEF Queue
    <3>. QED
      BY <3>3 DEF items
  <2>. HIDE DEF kept, filled
  <2>5. Len(filled.items) = Len(kept) + 1 /\ Len(kept) \in Nat /\ filled.items # <<>>
    BY <2>3, <2>4
  <2>6. /\ QueuesOK(changed) /\ changed[target].items = Append(kept, m)
        /\ \A p \in Queues \ {target} : changed[p].items = queue[p].items
    <3>1. Len(filled.items) <= Cap
      BY <2>1, <2>5, SettingsAssumption DEF kept
    <3>. QED
      BY <1>3, <2>4, <3>1 DEF QueuesOK, changed
  <2>7. /\ map' = target /\ QueuesOK(queue') /\ DrainsOK(drain')
        /\ queue'[target].items = Append(kept, m)
        /\ \A p \in Queues \ {target} : queue'[p].items = queue[p].items
        /\ \A p \in Queues : drain'[p] \in {drain[p], Begun}
    BY <1>3, <1>6, <2>4, <2>5, <2>6
  <2>8. /\ Range(kept) \subseteq Range(q.items) /\ Range(q.items) \subseteq Range(kept) \cup dropped
        /\ Sorted(q.items) => Sorted(kept)
    BY <2>1, <2>3, LeftOver DEF kept
  <2>9. m \notin Accepted
    BY <1>8 DEF refused, Known, Accepted
  <2>10. accepted' = Append(accepted, m) /\ gone' = gone \cup dropped
    BY <1>5, <1>8 DEF dropped
  <2>11. TypeOK'
    <3>1. accepted' \in Seq(Messages) /\ gone' \subseteq Messages
      BY <1>3, <2>1, <2>10 DEF TypeOK
    <3>2. inbound' \in [Messages -> {"new", "deciding", "starting", "turn", "ending",
                                     "over", "queued"}]
      BY <1>2, <1>3 DEF TypeOK
    <3>. QED
      BY <1>2, <1>3, <1>5, <2>7, <3>1, <3>2 DEF TypeOK, QueuesOK, DrainsOK
  <2>12. MessagesOK'
    <3>1. Items(target) = q.items /\ Sorted(Items(target))
      BY <1>3, <1>4 DEF Items, MessagesOK, Order, ItemsSorted
    <3>2. Sorted(kept) /\ Range(kept) \subseteq Range(Items(target))
          /\ Range(Items(target)) \subseteq Range(kept) \cup dropped
      BY <2>8, <3>1
    <3>. QED
      BY <1>2, <1>3, <2>3, <2>7, <2>9, <2>10, <3>2, AcceptStep
  <2>. QED
    BY <2>11, <2>12
<1>. QED
  BY <1>7, <1>8

\* A pass of the loop forms turns, or ends the drain.
LEMMA DrainStepKeeps ==
    ASSUME MInv, NEW q \in Queues, DrainStep(q)
    PROVE  TypeOK' /\ MessagesOK'
<1>. DEFINE Q == queue[q]
            individual == IF Q.mode = "collect"
                          THEN \/ IsCrossChannel(Q.items)
                               \/ drain[q].forceIndividualCollect /\ Len(Q.items) <= 1
                          ELSE drain[q].forceIndividualCollect
            turns == NextTurns(Q, individual)
            saved == [droppedCount |-> Q.droppedCount, summaryLines |-> Q.summaryLines]
<1>1. /\ drain[q].pc = "loop"
      /\ IF turns = <<>>
         THEN Finish(q, queue)
         ELSE /\ drain' = [drain EXCEPT ![q] =
                    [pc |-> "admit", forceIndividualCollect |-> individual, calls |-> turns,
                     saved |-> saved]]
              /\ UNCHANGED <<map, queue>>
      /\ UNCHANGED <<slot, inbound, accepted, redelivery, gone, cleared, stale, started,
                     completed, clears, failures>>
  BY DEF DrainStep, historyVars, counters
<1>2. TypeOK /\ MessagesOK /\ Q \in Queue /\ drain[q] \in Drain /\ QueuesOK(queue)
      /\ drain \in [Queues -> Drain] /\ failures \in 0 .. MaxFailures
  BY DEF MInv, TypeOK, QueuesOK
<1>3. individual \in BOOLEAN
  BY <1>2 DEF IsCrossChannel, Drain
<1>4. saved \in [droppedCount : Nat, summaryLines : Seq(Messages)]
  BY <1>2 DEF Queue
<1>. HIDE DEF individual, saved
<1>5. Formed(turns, Q.items)
  BY <1>2, <1>3, NextTurnsFormed
<1>6. turns \in Seq(Call)
  BY <1>5 DEF Formed
<1>. HIDE DEF turns
<1>7. CASE turns = <<>>
  BY <1>1, <1>2, <1>7, EndKeeps
<1>8. CASE turns # <<>>
  <2>. DEFINE next == [pc |-> "admit", forceIndividualCollect |-> individual, calls |-> turns,
                       saved |-> saved]
  <2>1. drain' = [drain EXCEPT ![q] = next] /\ UNCHANGED <<map, queue>>
    BY <1>1, <1>8
  <2>2. next \in Drain /\ next.calls = turns /\ next.pc = "admit"
    BY <1>3, <1>4, <1>6 DEF Drain
  <2>. HIDE DEF next
  <2>3. /\ drain' \in [Queues -> Drain] /\ drain'[q].calls = turns /\ drain'[q].pc = "admit"
        /\ \A p \in Queues \ {q} : drain'[p] = drain[p]
    BY <1>2, <2>1, <2>2
  <2>4. TypeOK'
    BY <1>1, <1>2, <2>1, <2>3 DEF TypeOK
  <2>5. MessagesOK'
    BY <1>1, <1>2, <1>5, <1>8, <2>1, <2>3, FormStep DEF Items
  <2>. QED
    BY <2>4, <2>5
<1>. QED
  BY <1>7, <1>8

\* The turn that a drain awaits.
LEMMA AwaitedCall ==
    ASSUME TypeOK, MessagesOK, NEW q \in Queues, drain[q].pc \in {"admit", "run"}
    PROVE  /\ Head(drain[q].calls) = drain[q].calls[1] /\ drain[q].calls[1] \in Call
           /\ Tail(drain[q].calls) \in Seq(Call)
<1>1. drain[q].calls # <<>> /\ drain[q].calls \in Seq(Call)
  BY DEF MessagesOK, CallsFit, TypeOK, Drain
<1>. DEFINE S == Call
            calls == drain[q].calls
<1>. HIDE DEF S, calls
<1>2. calls # <<>> /\ calls \in Seq(S)
  BY <1>1 DEF S, calls
<1>3. Head(calls) = calls[1] /\ calls[1] \in S /\ Tail(calls) \in Seq(S)
  BY <1>2
<1>. QED
  BY <1>3 DEF S, calls

\* A turn of a drain gets the slot.
LEMMA AdmitKeeps ==
    ASSUME MInv, NEW q \in Queues, Admit(q)
    PROVE  TypeOK' /\ MessagesOK'
<1>1. /\ drain[q].pc = "admit" /\ slot' = q /\ drain' = [drain EXCEPT ![q].pc = "run"]
      /\ started' = started \cup Range(Head(drain[q].calls).prompts)
      /\ UNCHANGED <<map, queue, inbound, accepted, redelivery, gone, cleared, stale,
                     completed, clears, failures>>
  BY DEF Admit, counters
<1>2. TypeOK /\ MessagesOK /\ drain[q] \in Drain /\ drain \in [Queues -> Drain]
  BY DEF MInv, TypeOK
<1>3. Head(drain[q].calls) = drain[q].calls[1] /\ drain[q].calls[1] \in Call
  BY <1>1, <1>2, AwaitedCall
<1>4. started' = started \cup Prompts(q, 1) /\ Prompts(q, 1) \subseteq Messages
  <2>1. drain[q].calls[1].prompts \in Seq(Messages)
    BY <1>3 DEF Call
  <2>. QED
    BY <1>1, <1>3, <2>1, RangeFacts DEF Prompts
<1>5. /\ drain' \in [Queues -> Drain] /\ drain'[q].pc = "run"
      /\ \A p \in Queues : drain'[p].calls = drain[p].calls
      /\ \A p \in Queues \ {q} : drain'[p].pc = drain[p].pc
  BY <1>1, <1>2 DEF Drain
<1>6. TypeOK'
  BY <1>1, <1>2, <1>4, <1>5 DEF TypeOK
<1>7. MessagesOK'
  BY <1>1, <1>2, <1>4, <1>5, SlotStep
<1>. QED
  BY <1>6, <1>7

\* A turn is back, and the drain goes on.
LEMMA CallCompletesKeeps ==
    ASSUME MInv, NEW q \in Queues, CallCompletes(q)
    PROVE  TypeOK' /\ MessagesOK'
<1>. DEFINE call == drain[q].calls[1]
            rest == Tail(drain[q].calls)
            items == Without(queue[q].items, call.takes)
            kept == [queue[q] EXCEPT !.items = items]
            filled == IF call.summary
                      THEN [kept EXCEPT !.droppedCount = 0, !.summaryLines = <<>>] ELSE kept
            pc == IF rest = <<>> THEN "loop" ELSE "admit"
<1>1. TypeOK /\ MessagesOK /\ queue \in [Queues -> Queue] /\ drain \in [Queues -> Drain]
      /\ \A p \in Queues : Len(queue[p].items) <= Cap
  BY DEF MInv, TypeOK
<1>2. drain[q].pc = "run"
  BY DEF CallCompletes
<1>3. Head(drain[q].calls) = call /\ call \in Call /\ rest \in Seq(Call)
  BY <1>1, <1>2, AwaitedCall
<1>4. /\ queue' = [queue EXCEPT ![q] = filled]
      /\ drain' = [drain EXCEPT ![q].calls = rest, ![q].pc = pc]
      /\ completed' = [m \in Messages |->
             IF m \in Range(call.prompts) THEN completed[m] + 1 ELSE completed[m]]
      /\ gone' = gone \cup (Range(call.takes) \ Range(call.prompts))
      /\ slot' \in {slot, Free}
      /\ UNCHANGED <<map, inbound, accepted, redelivery, cleared, stale, started, clears,
                     failures>>
  BY <1>3 DEF CallCompletes, counters
<1>5. items \in Seq(Messages) /\ Len(items) <= Len(queue[q].items)
  <2>1. queue[q].items \in Seq(Messages)
    BY <1>1 DEF Queue
  <2>. QED
    BY <2>1, WithoutKeeps
<1>. HIDE DEF items
<1>6. kept \in Queue /\ kept.items = items
  BY <1>1, <1>5 DEF Queue
<1>. HIDE DEF kept
<1>7. filled \in Queue /\ filled.items = items
  <2>. DEFINE none == <<>>
  <2>1. none \in Seq(Messages)
    OBVIOUS
  <2>2. filled = IF call.summary
                 THEN [kept EXCEPT !.droppedCount = 0, !.summaryLines = none] ELSE kept
    OBVIOUS
  <2>. HIDE DEF none, filled, call
  <2>. QED
    BY <1>6, <2>1, <2>2 DEF Queue
<1>8. call.takes \in Seq(Messages) /\ call.prompts \in Seq(Messages)
  BY <1>3 DEF Call
<1>. HIDE DEF call, filled, rest
<1>9. /\ queue' \in [Queues -> Queue] /\ queue'[q].items = items
      /\ \A p \in Queues : Len(queue'[p].items) <= Cap
      /\ \A p \in Queues \ {q} : queue'[p] = queue[p]
  <2>1. Len(items) <= Cap
    <3>1. Len(items) \in Nat /\ Len(queue[q].items) \in Nat
      BY <1>1, <1>5 DEF Queue
    <3>. QED
      BY <1>1, <1>5, <3>1, SettingsAssumption
  <2>. QED
    BY <1>1, <1>4, <1>7, <2>1
<1>10. /\ drain' \in [Queues -> Drain] /\ drain'[q].calls = rest /\ drain'[q].pc = pc
       /\ \A p \in Queues \ {q} : drain'[p] = drain[p]
  <2>1. drain[q] \in Drain /\ pc \in {"loop", "admit"}
    BY <1>1
  <2>. HIDE DEF pc
  <2>2. [drain[q] EXCEPT !.calls = rest, !.pc = pc] \in Drain
    BY <1>3, <2>1 DEF Drain
  <2>. QED
    BY <1>1, <1>4, <2>1, <2>2 DEF Drain
<1>11. completed' \in [Messages -> Nat] /\ gone' \subseteq Messages
  <2>1. completed \in [Messages -> Nat] /\ gone \subseteq Messages
    BY <1>1 DEF TypeOK
  <2>2. Range(call.takes) \subseteq Messages
    BY <1>8, RangeFacts
  <2>. QED
    BY <1>4, <2>1, <2>2
<1>12. TypeOK'
  BY <1>1, <1>4, <1>9, <1>10, <1>11 DEF TypeOK
<1>13. MessagesOK'
  <2>1. call = drain[q].calls[1] /\ rest = Tail(drain[q].calls)
        /\ items = Without(queue[q].items, call.takes)
    BY DEF call, rest, items
  <2>2. call \in Call
    BY <1>3
  <2>3. /\ \A p \in Queues \ {q} : queue'[p].items = queue[p].items /\ drain'[p] = drain[p]
        /\ queue'[q].items = Without(queue[q].items, call.takes)
        /\ drain'[q].calls = Tail(drain[q].calls)
        /\ drain'[q].pc = (IF Tail(drain[q].calls) = <<>> THEN "loop" ELSE "admit")
    BY <1>9, <1>10, <2>1
  <2>. QED
    BY <1>1, <1>2, <1>4, <2>1, <2>2, <2>3, BackStep
<1>. QED
  BY <1>12, <1>13

\* /stop clears what waits.
LEMMA StopKeeps ==
    ASSUME MInv, Stop
    PROVE  TypeOK' /\ MessagesOK'
<1>1. /\ clears < MaxClears /\ clears' = clears + 1 /\ slot' \in {slot, Free} /\ map' = NoQueue
      /\ IF map = NoQueue
         THEN UNCHANGED <<queue, cleared>>
         ELSE /\ queue' = [queue EXCEPT ![map] =
                    IF drain[map].pc = "idle" THEN Created ELSE Emptied(@)]
              /\ cleared' = cleared \cup Range(queue[map].items)
      /\ UNCHANGED <<drain, inbound, accepted, redelivery, gone, stale, started, completed,
                     failures>>
  BY DEF Stop
<1>2. TypeOK /\ MessagesOK /\ queue \in [Queues -> Queue] /\ map \in Queues \cup {NoQueue}
      /\ clears' \in 0 .. MaxClears
  BY <1>1, BoundsAssumption DEF MInv, TypeOK
<1>3. CASE map = NoQueue
  <2>1. TypeOK'
    BY <1>1, <1>2, <1>3 DEF TypeOK
  <2>2. MessagesOK'
    BY <1>1, <1>2, <1>3, StillStep
  <2>. QED
    BY <2>1, <2>2
<1>4. CASE map # NoQueue
  <2>1. map \in Queues /\ queue[map] \in Queue
    BY <1>2, <1>4
  <2>. DEFINE emptied == IF drain[map].pc = "idle" THEN Created ELSE Emptied(queue[map])
  <2>2. emptied \in Queue /\ emptied.items = <<>>
    <3>1. Emptied(queue[map]) \in Queue /\ Emptied(queue[map]).items = <<>>
      <4>. DEFINE none == <<>>
      <4>1. none \in Seq(Messages)
        OBVIOUS
      <4>. DEFINE bare == [queue[map] EXCEPT !.items = none]
      <4>2. Emptied(queue[map]) = [bare EXCEPT !.droppedCount = 0, !.summaryLines = none]
        BY <2>1 DEF Emptied, Queue
      <4>. HIDE DEF none
      <4>3. bare \in Queue /\ bare.items = none
        BY <2>1, <4>1 DEF Queue
      <4>. HIDE DEF bare
      <4>. DEFINE result == Emptied(queue[map])
      <4>4. result = [bare EXCEPT !.droppedCount = 0, !.summaryLines = none]
        BY <4>2
      <4>. HIDE DEF result
      <4>5. result.items = none
        BY <4>3, <4>4 DEF Queue
      <4>6. result \in Queue
        BY <4>1, <4>3, <4>4 DEF Queue
      <4>. QED
        BY <4>5, <4>6 DEF none, result
    <3>. QED
      BY <3>1, Records
  <2>3. queue' = [queue EXCEPT ![map] = emptied]
        /\ cleared' = cleared \cup Range(Items(map))
    BY <1>1, <1>4 DEF Items
  <2>. HIDE DEF emptied
  <2>4. /\ queue' \in [Queues -> Queue] /\ queue'[map].items = <<>>
        /\ \A q \in Queues \ {map} : queue'[q] = queue[q]
    BY <1>2, <2>1, <2>2, <2>3
  <2>5. \A q \in Queues : queue'[q].items = <<>>
    <3>1. \A q \in Queues \ {map} : queue[q].items = <<>>
      BY <1>2 DEF MessagesOK, ItemsInMap, Items
    <3>. QED
      BY <2>4, <3>1
  <2>6. \A q \in Queues : Len(queue'[q].items) <= Cap
    BY <2>5, SettingsAssumption
  <2>7. Items(map) \in Seq(Messages) /\ Range(Items(map)) \subseteq Messages
    BY <2>1, RangeFacts DEF Items, Queue
  <2>8. TypeOK'
    BY <1>1, <1>2, <2>3, <2>4, <2>6, <2>7 DEF TypeOK
  <2>9. QueuedItems' = {} /\ QueuedItems = Range(Items(map))
    BY <1>1, <1>4 DEF QueuedItems, Items
  <2>10. ItemsInMap' /\ cleared' \subseteq Accepted
    <3>1. cleared \subseteq Accepted /\ Range(Items(map)) \subseteq Accepted
      BY <1>2, <2>1 DEF MessagesOK, OnlyAccepted
    <3>2. ItemsInMap'
      BY <2>5 DEF ItemsInMap, Items
    <3>. QED
      BY <2>3, <3>1, <3>2
  <2>11. MessagesOK'
    BY <1>1, <1>2, <2>3, <2>5, <2>9, <2>10, QuietStep
  <2>. QED
    BY <2>8, <2>11
<1>. QED
  BY <1>3, <1>4

\* Only a pass of the loop forms turns.
LEMMA OnlyPassesForm ==
    ASSUME TypeOK, Next, NEW q \in Queues, drain[q].pc = "loop", drain'[q].pc = "admit"
    PROVE  DrainStep(q)
<1>1. drain \in [Queues -> Drain]
  BY DEF TypeOK
<1>2. drain'[q] \notin {drain[q], Idle, Begun}
  BY Records
<1>3. ASSUME NEW mp, NEW qs, NEW dr, DrainsOK(dr), dr[q] \in {drain[q], Idle},
             Schedule(mp, qs, dr)
      PROVE  FALSE
  <2>1. drain' = dr \/ drain' = [dr EXCEPT ![mp] = Begun]
    BY <1>3 DEF Schedule
  <2>2. drain'[q] \in {dr[q], Begun}
    BY <1>3, <2>1 DEF DrainsOK
  <2>. QED
    BY <1>2, <1>3, <2>2
<1>4. ASSUME NEW p \in Queues, NEW qs, Finish(p, qs)
      PROVE  FALSE
  <2>. DEFINE ended == [drain EXCEPT ![p] = Idle]
  <2>1. drain' = ended \/ \E kept : Schedule(map, kept, ended)
    BY <1>4 DEF Finish
  <2>2. DrainsOK(ended) /\ ended[q] \in {drain[q], Idle}
    BY <1>1, Records DEF DrainsOK
  <2>. HIDE DEF ended
  <2>. QED
    BY <1>2, <1>3, <2>1, <2>2
<1>5. drain' # drain /\ DrainsOK(drain)
  BY <1>1 DEF DrainsOK
<1>6. ASSUME NEW m \in Messages,
             \/ Arrive(m) \/ Redeliver(m) \/ EnqueueBehind(m)
             \/ StartTurn(m) \/ TurnFails(m) \/ TurnEnds(m)
      PROVE  FALSE
  <2>1. CASE Arrive(m) \/ Redeliver(m) \/ StartTurn(m) \/ TurnFails(m)
    BY <1>5, <2>1 DEF Arrive, Redeliver, StartTurn, TurnFails
  <2>2. CASE TurnEnds(m)
    BY <1>3, <1>5, <2>2 DEF TurnEnds
  <2>3. CASE EnqueueBehind(m)
    <3>1. drain' = drain \/ \E mp, qs : Schedule(mp, qs, drain)
      BY <2>3 DEF EnqueueBehind
    <3>. QED
      BY <1>3, <1>5, <3>1
  <2>. QED
    BY <1>6, <2>1, <2>2, <2>3
<1>7. ASSUME NEW p \in Queues, DrainStep(p), p # q
      PROVE  FALSE
  <2>1. (\E qs : Finish(p, qs)) \/ \E next : drain' = [drain EXCEPT ![p] = next]
    BY <1>7 DEF DrainStep
  <2>. QED
    BY <1>1, <1>2, <1>4, <1>7, <2>1
<1>8. ASSUME NEW p \in Queues, CallFails(p) \/ CallDefers(p)
      PROVE  FALSE
  <2>1. \E qs : Finish(p, qs)
    BY <1>8 DEF CallFails, CallDefers
  <2>. QED
    BY <1>4, <2>1
<1>9. ASSUME NEW p \in Queues, Admit(p) \/ CallCompletes(p)
      PROVE  FALSE
  <2>1. p # q
    BY <1>9 DEF Admit, CallCompletes
  <2>2. drain'[q] = drain[q]
    BY <1>1, <1>9, <2>1 DEF Admit, CallCompletes
  <2>. QED
    BY <1>2, <2>2
<1>10. CASE Stop
  BY <1>5, <1>10 DEF Stop
<1>. QED
  BY <1>6, <1>7, <1>8, <1>9, <1>10 DEF Next

-----------------------------------------------------------------------------
(* The theorems.                                                            *)

\* Nothing has arrived at first,
LEMMA NothingYet == Init => MInv
<1>. SUFFICES ASSUME Init
              PROVE  MInv
  OBVIOUS
<1>1. /\ map = NoQueue /\ accepted = <<>> /\ started = {} /\ cleared = {} /\ gone = {}
      /\ queue = [q \in Queues |-> Created] /\ drain = [q \in Queues |-> Idle]
      /\ completed = [m \in Messages |-> 0]
  BY DEF Init
<1>2. TypeOK
  <2>1. \A q \in Queues : Len(queue[q].items) <= Cap
    BY <1>1, Records, SettingsAssumption
  <2>2. accepted \in Seq(Messages) /\ 0 \in 0 .. MaxClears /\ 0 \in 0 .. MaxFailures
    BY <1>1, BoundsAssumption
  <2>3. queue \in [Queues -> Queue] /\ drain \in [Queues -> Drain]
    BY <1>1, Records
  <2>4. inbound \in [Messages -> {"new", "deciding", "starting", "turn", "ending",
                                  "over", "queued"}]
        /\ completed \in [Messages -> Nat]
    BY <1>1 DEF Init
  <2>5. /\ slot = Free /\ redelivery = Redelivered /\ stale = FALSE
        /\ clears = 0 /\ failures = 0
    BY DEF Init
  <2>. QED
    BY <1>1, <2>1, <2>2, <2>3, <2>4, <2>5 DEF TypeOK
<1>3. /\ \A q \in Queues : Items(q) = <<>> /\ drain[q].calls = <<>> /\ drain[q].pc = "idle"
      /\ \A q \in Queues : CallsOf(q) = {}
      /\ QueuedItems = {} /\ Accepted = {}
  BY <1>1, Records, RangeEmpty DEF Items, CallsOf, QueuedItems, Accepted
<1>4. CallsFit /\ OnlyAccepted /\ ItemsInMap /\ NothingLost
  BY <1>1, <1>3, RangeEmpty DEF CallsFit, OnlyAccepted, ItemsInMap, NothingLost, Accepted
<1>5. Once
  BY <1>1, <1>3, RangeEmpty DEF Once, ItemsWait, PromptsWait, OneTurnEach, OwnItems,
     AtMostOneCompletedTurn
<1>6. Order
  BY <1>1, <1>3 DEF Order, AcceptedOnce, ItemsSorted, Sorted, RunStarted, InTurn, StartedInTurn
<1>. QED
  BY <1>2, <1>4, <1>5, <1>6, InitEstablishes DEF MInv, MessagesOK

\* and every step keeps the messages in order.
LEMMA StepKeeps == MInv /\ [Next]_vars => MInv'
<1>. SUFFICES ASSUME MInv, [Next]_vars
              PROVE  MInv'
  OBVIOUS
<1>1. IInv'
  BY NextPreserves DEF MInv
<1>2. ASSUME NEW m \in Messages,
             \/ Arrive(m) \/ Redeliver(m) \/ EnqueueBehind(m)
             \/ StartTurn(m) \/ TurnFails(m) \/ TurnEnds(m)
      PROVE  TypeOK' /\ MessagesOK'
  BY <1>2, TurnKeeps, TurnEndsKeeps, EnqueueKeeps
<1>3. ASSUME NEW q \in Queues,
             \/ DrainStep(q) \/ Admit(q)
             \/ CallCompletes(q) \/ CallFails(q) \/ CallDefers(q)
      PROVE  TypeOK' /\ MessagesOK'
  BY <1>3, DrainStepKeeps, AdmitKeeps, CallCompletesKeeps, CallFailsKeeps, CallDefersKeeps
<1>4. CASE Stop
  BY <1>1, <1>4, StopKeeps DEF MInv
<1>5. CASE UNCHANGED vars
  <2>1. /\ UNCHANGED <<map, queue, drain, slot, inbound, accepted, redelivery, gone, cleared,
                       stale, started, completed, clears, failures>>
    BY <1>5 DEF vars, historyVars, counters
  <2>2. TypeOK'
    BY <2>1 DEF MInv, TypeOK
  <2>3. MessagesOK'
    BY <2>1, StillStep DEF MInv, TypeOK
  <2>. QED
    BY <1>1, <2>2, <2>3 DEF MInv
<1>. QED
  BY <1>1, <1>2, <1>3, <1>4, <1>5 DEF Next, MInv

\* The objects, their drains and the histories stay what they are declared to be,
\* and no queue holds more items than its cap.
THEOREM MessagesTyped == Spec => []TypeOK
<1>1. MInv => TypeOK
  BY DEF MInv
<1>. QED
  BY <1>1, NothingYet, StepKeeps, PTL DEF Spec

\* A message that enqueueFollowupRun accepted waits in the map's queue, or had a
\* turn that completed, or was taken by the cap, a summary turn or /stop, for any
\* number of failing turns, deferrals and detached queue objects.
THEOREM AcceptedAreAccountedFor == Spec => []NothingLost
<1>1. MInv => NothingLost
  BY DEF MInv, MessagesOK
<1>. QED
  BY <1>1, NothingYet, StepKeeps, PTL DEF Spec

\* No message has its prompt in two turns that completed, though a queue's items
\* stay in it while their turns run and are taken out by reference afterwards.
THEOREM TurnsCompleteOnce == Spec => []AtMostOneCompletedTurn
<1>1. MInv => AtMostOneCompletedTurn
  BY DEF MInv, MessagesOK, Once
<1>. QED
  BY <1>1, NothingYet, StepKeeps, PTL DEF Spec

\* Messages begin their turns in the order in which they were accepted.
THEOREM OrderOfArrivalIsKept == Spec => []NoOvertaking
<1>1. MInv => NoOvertaking
  <2>. SUFFICES ASSUME MInv, NEW i \in DOMAIN accepted, NEW j \in DOMAIN accepted, i < j,
                       accepted[j] \in started, accepted[i] \in QueuedItems
                PROVE  accepted[i] \in started
    BY DEF NoOvertaking
  <2>1. accepted \in Seq(Messages) /\ StartedInTurn
    BY DEF MInv, TypeOK, MessagesOK, Order
  <2>2. Before(accepted[i], accepted[j])
    BY <2>1 DEF Before, InOrder
  <2>. QED
    BY <2>1, <2>2 DEF StartedInTurn
<1>. QED
  BY <1>1, NothingYet, StepKeeps, PTL DEF Spec

\* A drain that goes on after clearFollowupQueue emptied its object forms no turn
\* of a message that was cleared.
THEOREM ClearedAreLeftAlone == Spec => ClearedStaysCleared
<1>. DEFINE FormsNoCleared == \A q \in Queues :
                (drain[q].pc = "loop" /\ drain'[q].pc = "admit")
                    => \A k \in DOMAIN drain'[q].calls :
                           Range(drain'[q].calls[k].prompts) \cap cleared = {}
<1>1. MInv /\ [Next]_vars /\ MInv' => [FormsNoCleared]_vars
  <2>. SUFFICES ASSUME MInv, MInv', Next, NEW q \in Queues,
                       drain[q].pc = "loop", drain'[q].pc = "admit",
                       NEW k \in DOMAIN drain'[q].calls
                PROVE  Range(drain'[q].calls[k].prompts) \cap cleared = {}
    OBVIOUS
  <2>1. TypeOK /\ MessagesOK /\ MessagesOK' /\ TypeOK'
    BY DEF MInv
  <2>2. DrainStep(q)
    BY <2>1, OnlyPassesForm
  <2>. DEFINE Q == queue[q]
              individual == IF Q.mode = "collect"
                            THEN \/ IsCrossChannel(Q.items)
                                 \/ drain[q].forceIndividualCollect /\ Len(Q.items) <= 1
                            ELSE drain[q].forceIndividualCollect
              turns == NextTurns(Q, individual)
  <2>3. Q \in Queue /\ drain[q] \in Drain /\ drain \in [Queues -> Drain]
    BY <2>1 DEF TypeOK
  <2>4. individual \in BOOLEAN
    BY <2>3 DEF IsCrossChannel, Drain
  <2>5. drain'[q].calls = turns
    <3>1. turns # <<>>
      <4>. SUFFICES ASSUME turns = <<>>
                    PROVE  FALSE
        OBVIOUS
      <4>1. Finish(q, queue) /\ QueuesOK(queue) /\ ItemsInMap
        BY <2>1, <2>2 DEF DrainStep, QueuesOK, TypeOK, MessagesOK
      <4>2. drain'[q] \in {drain[q], Idle, Begun}
        BY <2>1, <4>1, FinishKeeps
      <4>. QED
        BY <4>2, Records
    <3>2. \E saved : drain' = [drain EXCEPT ![q] =
              [pc |-> "admit", forceIndividualCollect |-> individual, calls |-> turns,
               saved |-> saved]]
      BY <2>2, <3>1 DEF DrainStep
    <3>. QED
      BY <2>3, <3>2
  <2>. HIDE DEF individual
  <2>6. Formed(turns, Q.items)
    BY <2>3, <2>4, NextTurnsFormed
  <2>7. Range(turns[k].prompts) \subseteq Range(Q.items)
    <3>1. turns \in Seq(Call) /\ DOMAIN turns = 1 .. Len(turns)
      BY <2>6 DEF Formed
    <3>. QED
      BY <2>5, <2>6, <3>1 DEF Formed
  <2>8. \A x \in Range(Q.items) : x \notin cleared
    BY <2>1 DEF MessagesOK, Once, ItemsWait, Items
  <2>. QED
    BY <2>5, <2>7, <2>8
<1>2. [][FormsNoCleared]_vars => ClearedStaysCleared
  BY PTL DEF ClearedStaysCleared
<1>. QED
  BY <1>1, <1>2, NothingYet, StepKeeps, PTL DEF Spec
=============================================================================
