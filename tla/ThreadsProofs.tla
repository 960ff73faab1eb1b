---------------------------- MODULE ThreadsProofs ----------------------------
(***************************************************************************)
(* Proofs about Threads, for any turns, bounds on mishaps and revivals: the *)
(* types and the sequence numbers, the reports, and the mirror of the       *)
(* session in the journal. Conversations are filtered by positions, whose   *)
(* lemmas come first.                                                       *)
(***************************************************************************)
EXTENDS Threads, FiniteSetTheorems, WellFoundedInduction, SequenceTheorems, TLAPS

-----------------------------------------------------------------------------
(* Positions.                                                               *)

\* Some of the numbers up to n: one is the least of them.
LEMMA LeastOf ==
  ASSUME NEW n \in Nat, NEW B \in SUBSET (0..n), B # {}
  PROVE  \E m \in B : \A k \in B : m <= k
<1> DEFINE S == 1..n
           T == {1..m : m \in B}
<1>1. IsFiniteSet(S)
  <2>1. 1 \in Int /\ n \in Int
    OBVIOUS
  <2> QED
    BY <2>1, FS_Interval
<1>2. FiniteSubsetsOf(S) = SUBSET S
  BY <1>1, FS_FiniteSubsetsOfFinite
<1>3. IsWellFoundedOn(StrictSubsetOrdering(S), SUBSET S)
  BY <1>2, FS_StrictSubsetOrderingWellFounded
<1>4. T \subseteq SUBSET S /\ T # {}
  <2>1. PICK b \in B : TRUE
    OBVIOUS
  <2>2. 1..b \in T
    BY <2>1
  <2>3. ASSUME NEW X \in T PROVE X \in SUBSET S
    <3>1. PICK m \in B : X = 1..m
      OBVIOUS
    <3>2. m \in 0..n
      OBVIOUS
    <3> QED
      BY <3>1, <3>2
  <2> QED
    BY <2>2, <2>3
<1> HIDE DEF T
<1>5. PICK X \in T : \A Y \in T : <<Y, X>> \notin StrictSubsetOrdering(S)
  BY <1>3, <1>4, WFMin
<1>6. PICK m \in B : X = 1..m
  BY DEF T
<1>7. ASSUME NEW k \in B PROVE m <= k
  <2> SUFFICES ASSUME k < m PROVE FALSE
    OBVIOUS
  <2>1. 1..k \in T
    BY DEF T
  <2>2. 1..k \subseteq 1..m /\ 1..k # 1..m
    <3>1. m \in 1..m /\ m \notin 1..k
      OBVIOUS
    <3> QED
      BY <3>1
  <2>3. <<1..k, X>> \in StrictSubsetOrdering(S)
    BY <1>4, <1>6, <2>1, <2>2 DEF StrictSubsetOrdering
  <2> QED
    BY <1>5, <2>1, <2>3
<1> QED
  BY <1>7

\* f lists the N numbers of P in their order.
Lists(f, N, P) ==
  /\ N \in Nat /\ f \in [1..N -> P]
  /\ \A i, j \in 1..N : i < j => f[i] < f[j]
  /\ \A p \in P : \E i \in 1..N : f[i] = p

\* Any set of positions has such a list.
LEMMA PositionsListed ==
  ASSUME NEW n \in Nat, NEW P \in SUBSET (1..n)
  PROVE  \E N \in Nat : \E f : Lists(f, N, P)
<1> DEFINE Q(m) == {p \in P : p <= m}
           B == {m \in 0..n : ~ \E N \in Nat : \E f : Lists(f, N, Q(m))}
<1>1. B = {}
  <2> SUFFICES ASSUME B # {} PROVE FALSE
    OBVIOUS
  <2>1. B \in SUBSET (0..n)
    OBVIOUS
  <2> HIDE DEF B
  <2>2. PICK m \in B : \A k \in B : m <= k
    BY <2>1, LeastOf
  <2>3. m \in 0..n
    BY <2>1
  <2>4. CASE m = 0
    <3>1. \A p \in P : p >= 1 /\ p \in Nat
      OBVIOUS
    <3>11. Q(m) = {}
      <4> SUFFICES ASSUME NEW p \in P, p <= m PROVE FALSE
        OBVIOUS
      <4> QED
        BY <2>4, <3>1
    <3>2. Lists([i \in 1..0 |-> 0], 0, {})
      BY DEF Lists
    <3> HIDE DEF Q
    <3> QED
      BY <3>11, <3>2, <2>1 DEF B
  <2>5. CASE m # 0
    <3>1. m - 1 \in 0..n /\ m - 1 \notin B
      BY <2>2, <2>3, <2>5
    <3>2. PICK N \in Nat : \E f : Lists(f, N, Q(m - 1))
      BY <3>1 DEF B
    <3>3. PICK f : Lists(f, N, Q(m - 1))
      BY <3>2
    <3>4. CASE m \notin P
      <4>1. \A p \in P : p \in Nat /\ m \in Nat /\ (p <= m <=> p <= m - 1)
        BY <2>3, <3>4
      <4>2. Q(m) = Q(m - 1)
        BY <4>1
      <4> HIDE DEF Q
      <4> QED
        BY <3>3, <4>2, <2>1 DEF B
    <3>5. CASE m \in P
      <4> DEFINE g == [i \in 1..(N + 1) |-> IF i = N + 1 THEN m ELSE f[i]]
      <4>1. /\ \A p \in Q(m) : p = m \/ p \in Q(m - 1)
            /\ m \in Q(m) /\ \A p \in Q(m - 1) : p \in Q(m) /\ p < m
        BY <2>3, <3>5
      <4>2. /\ f \in [1..N -> Q(m - 1)] /\ \A i, j \in 1..N : i < j => f[i] < f[j]
            /\ \A p \in Q(m - 1) : \E i \in 1..N : f[i] = p
        BY <3>3 DEF Lists
      <4> HIDE DEF Q
      <4>3. g \in [1..(N + 1) -> Q(m)]
        BY <4>1, <4>2
      <4>4. g[N + 1] = m /\ \A i \in 1..N : g[i] = f[i]
        OBVIOUS
      <4> HIDE DEF g
      <4>5. ASSUME NEW i \in 1..(N + 1), NEW j \in 1..(N + 1), i < j PROVE g[i] < g[j]
        <5>1. i \in 1..N
          BY <4>5
        <5>2. CASE j = N + 1
          BY <4>1, <4>2, <4>4, <5>1, <5>2
        <5>3. CASE j \in 1..N
          BY <4>2, <4>4, <4>5, <5>1, <5>3
        <5> QED
          BY <5>2, <5>3
      <4>6. ASSUME NEW p \in Q(m) PROVE \E i \in 1..(N + 1) : g[i] = p
        <5>1. CASE p = m
          BY <4>4, <5>1
        <5>2. CASE p \in Q(m - 1)
          <6>1. PICK i \in 1..N : f[i] = p
            BY <4>2, <5>2
          <6> QED
            BY <4>4, <6>1
        <5> QED
          BY <4>1, <5>1, <5>2
      <4>7. Lists(g, N + 1, Q(m))
        BY <4>3, <4>5, <4>6 DEF Lists
      <4>8. N + 1 \in Nat
        OBVIOUS
      <4> QED
        BY <4>7, <4>8, <2>1 DEF B
    <3> QED
      BY <3>4, <3>5
  <2> QED
    BY <2>4, <2>5
<1>2. Q(n) = P
  <2>1. \A p \in P : p <= n
    OBVIOUS
  <2> QED
    BY <2>1
<1>3. \E N \in Nat : \E f : Lists(f, N, Q(n))
  <2>1. n \in 0..n
    OBVIOUS
  <2> HIDE DEF Q
  <2> QED
    BY <1>1, <2>1
<1> QED
  BY <1>2, <1>3

\* a has the N elements of s that f lists.
Selects(a, s, f, N) == DOMAIN a = 1..N /\ \A i \in 1..N : a[i] = s[f[i]]

\* Which makes it plain what At selects.
LEMMA AtIs ==
  ASSUME NEW P \in SUBSET Nat, NEW s, NEW N, NEW f, Lists(f, N, P)
  PROVE  Cardinality(P) = N /\ Selects(At(s, P), s, f, N)
<1>1. /\ N \in Nat /\ f \in [1..N -> P] /\ \A i, j \in 1..N : i < j => f[i] < f[j]
      /\ \A p \in P : \E i \in 1..N : f[i] = p
  BY DEF Lists
<1>2. ASSUME NEW m \in Nat PROVE IsFiniteSet(1..m) /\ Cardinality(1..m) = m
  <2>1. 1 \in Int /\ m \in Int /\ (1 > m => m = 0) /\ m - 1 + 1 = m
    OBVIOUS
  <2>2. IsFiniteSet(1..m) /\ Cardinality(1..m) = IF 1 > m THEN 0 ELSE m - 1 + 1
    BY <2>1, FS_Interval
  <2> QED
    BY <2>1, <2>2
<1>3. \A i, j \in 1..N : f[i] = f[j] => i = j
  <2> SUFFICES ASSUME NEW i \in 1..N, NEW j \in 1..N, f[i] = f[j] PROVE i = j
    OBVIOUS
  <2>1. f[i] \in Nat /\ f[j] \in Nat
    BY <1>1
  <2> QED
    BY <1>1, <2>1
<1> DEFINE Upto(k) == {j \in P : j <= k}
<1>4. ASSUME NEW i \in 1..N PROVE Cardinality(Upto(f[i])) = i
  <2> DEFINE g == [k \in 1..i |-> f[k]]
             U == Upto(f[i])
  <2>1. \A k \in 1..i : k \in 1..N /\ f[k] \in U
    <3> SUFFICES ASSUME NEW k \in 1..i PROVE k \in 1..N /\ f[k] \in U
      OBVIOUS
    <3>1. k \in 1..N /\ (k < i \/ k = i)
      BY <1>1
    <3>2. f[k] \in P /\ f[k] \in Nat /\ f[i] \in Nat
      BY <1>1, <3>1
    <3>3. f[k] <= f[i]
      BY <1>1, <3>1, <3>2
    <3> QED
      BY <3>1, <3>2, <3>3
  <2>2. \A p \in U : \E k \in 1..i : f[k] = p
    <3> SUFFICES ASSUME NEW p \in U PROVE \E k \in 1..i : f[k] = p
      OBVIOUS
    <3>1. PICK k \in 1..N : f[k] = p
      BY <1>1
    <3>2. f[k] <= f[i] /\ f[k] \in Nat /\ f[i] \in Nat
      BY <1>1, <3>1
    <3>3. ~(i < k)
      BY <1>1, <3>2
    <3> QED
      BY <3>1, <3>3
  <2> HIDE DEF U
  <2>3. g \in Injection(1..i, U) /\ g \in Surjection(1..i, U)
    BY <1>3, <2>1, <2>2 DEF Injection, IsInjective, Surjection
  <2>4. IsFiniteSet(1..i) /\ Cardinality(1..i) = i
    BY <1>2
  <2> HIDE DEF g
  <2>5. IsFiniteSet(U)
    BY <2>3, <2>4, FS_Surjection
  <2>6. Cardinality(1..i) = Cardinality(U)
    BY <2>3, <2>5, FS_Injection
  <2> QED
    BY <2>4, <2>6 DEF U
<1>5. Cardinality(P) = N
  <2>1. f \in Injection(1..N, P) /\ f \in Surjection(1..N, P)
    BY <1>1, <1>3 DEF Injection, IsInjective, Surjection
  <2>2. IsFiniteSet(1..N) /\ Cardinality(1..N) = N
    BY <1>1, <1>2
  <2>3. IsFiniteSet(P)
    BY <2>1, <2>2, FS_Surjection
  <2> QED
    BY <2>1, <2>2, <2>3, FS_Injection
<1> DEFINE Nth(i) == CHOOSE k \in P : Cardinality(Upto(k)) = i
<1>6. ASSUME NEW i \in 1..N PROVE Nth(i) = f[i]
  <2>1. f[i] \in P /\ Cardinality(Upto(f[i])) = i
    BY <1>1, <1>4
  <2>2. ASSUME NEW k \in P, Cardinality(Upto(k)) = i PROVE k = f[i]
    <3>1. PICK j \in 1..N : f[j] = k
      BY <1>1
    <3>2. Cardinality(Upto(f[j])) = j
      BY <1>4
    <3> QED
      BY <2>2, <3>1, <3>2
  <2> HIDE DEF Upto
  <2>3. Nth(i) \in P /\ Cardinality(Upto(Nth(i))) = i
    BY <2>1
  <2> HIDE DEF Nth
  <2> QED
    BY <2>2, <2>3
<1>7. At(s, P) = [i \in 1..N |-> s[Nth(i)]]
  BY <1>5 DEF At
<1> HIDE DEF Nth
<1>8. ASSUME NEW i \in 1..N PROVE At(s, P)[i] = s[f[i]]
  BY <1>6, <1>7
<1>9. DOMAIN At(s, P) = 1..N
  BY <1>7
<1>10. Selects(At(s, P), s, f, N)
  BY <1>8, <1>9 DEF Selects
<1> QED
  BY <1>5, <1>10

\* The selection is a function of its places.
LEMMA AtFunction ==
  ASSUME NEW s, NEW P PROVE At(s, P) = [i \in DOMAIN At(s, P) |-> At(s, P)[i]]
BY DEF At

\* All of a list, and nothing of it.
LEMMA AtAll ==
  ASSUME NEW S, NEW s \in Seq(S)
  PROVE  At(s, DOMAIN s) = s
<1> DEFINE f == [i \in 1..Len(s) |-> i]
<1>1. Len(s) \in Nat /\ DOMAIN s = 1..Len(s) /\ s = [i \in 1..Len(s) |-> s[i]]
  OBVIOUS
<1>2. Lists(f, Len(s), 1..Len(s))
  BY <1>1 DEF Lists
<1>3. \A i \in 1..Len(s) : f[i] = i
  OBVIOUS
<1> HIDE DEF f
<1>4. 1..Len(s) \in SUBSET Nat
  OBVIOUS
<1> DEFINE a == At(s, 1..Len(s))
<1>51. DOMAIN a = 1..Len(s) /\ \A i \in 1..Len(s) : a[i] = s[f[i]]
  <2>1. Selects(a, s, f, Len(s))
    BY <1>2, <1>4, AtIs
  <2> QED
    BY <2>1 DEF Selects
<1>52. a = [i \in DOMAIN a |-> a[i]]
  BY AtFunction
<1> HIDE DEF a
<1>5. a = [i \in 1..Len(s) |-> a[i]] /\ \A i \in 1..Len(s) : a[i] = s[f[i]]
  BY <1>51, <1>52
<1>6. \A i \in 1..Len(s) : a[i] = s[i]
  BY <1>3, <1>5
<1>7. a = s
  BY <1>1, <1>5, <1>6
<1> QED
  BY <1>1, <1>7 DEF a

\* Nothing of a list.
LEMMA AtNone ==
  ASSUME NEW s PROVE At(s, {}) = <<>>
<1>1. Lists([i \in 1..0 |-> 0], 0, {})
  BY DEF Lists
<1>2. 0 \in Nat /\ {} \in SUBSET (1..0)
  OBVIOUS
<1> DEFINE f == [i \in 1..0 |-> 0]
           a == At(s, {})
<1> HIDE DEF f
<1>3. Lists(f, 0, {})
  BY <1>1 DEF f
<1>41. DOMAIN a = 1..0
  BY <1>2, <1>3, AtIs DEF Selects
<1>42. a = [i \in DOMAIN a |-> a[i]]
  BY AtFunction
<1> HIDE DEF a
<1>4. a = [i \in 1..0 |-> a[i]]
  BY <1>41, <1>42
<1>5. a = <<>>
  BY <1>4
<1> QED
  BY <1>5 DEF a

\* What is selected comes from the positions.
LEMMA AtOf ==
  ASSUME NEW S, NEW T, NEW s \in Seq(S), NEW P \in SUBSET (DOMAIN s), \A p \in P : s[p] \in T
  PROVE  At(s, P) \in Seq(T)
<1>1. Len(s) \in Nat /\ P \in SUBSET (1..Len(s))
  OBVIOUS
<1>2. PICK N \in Nat : \E f : Lists(f, N, P)
  BY <1>1, PositionsListed
<1>3. PICK f : Lists(f, N, P)
  BY <1>2
<1> DEFINE a == At(s, P)
<1>41. DOMAIN a = 1..N /\ \A i \in 1..N : a[i] = s[f[i]]
  <2>1. P \in SUBSET Nat
    BY <1>1
  <2> QED
    <3>1. Selects(a, s, f, N)
      BY <1>3, <2>1, AtIs
    <3> QED
      BY <3>1 DEF Selects
<1>42. a = [i \in DOMAIN a |-> a[i]]
  BY AtFunction
<1>4. a = [i \in 1..N |-> a[i]] /\ \A i \in 1..N : a[i] = s[f[i]]
  <2> HIDE DEF a
  <2> QED
    BY <1>41, <1>42
<1>5. \A i \in 1..N : f[i] \in P
  BY <1>3 DEF Lists
<1> HIDE DEF a
<1>6. \A i \in 1..N : a[i] \in T
  BY <1>4, <1>5
<1>7. a \in Seq(T)
  BY <1>4, <1>6
<1> QED
  BY <1>7 DEF a

\* R is the positions P of s and the positions Q of t, in their concatenation.
Joined(R, s, P, t, Q) ==
  /\ P \in SUBSET (DOMAIN s) /\ Q \in SUBSET (DOMAIN t) /\ R \in SUBSET (DOMAIN (s \o t))
  /\ \A k \in DOMAIN s : k \in R <=> k \in P
  /\ \A k \in DOMAIN t : Len(s) + k \in R <=> k \in Q

\* The selection of a concatenation.
LEMMA AtConcat ==
  ASSUME NEW S, NEW s \in Seq(S), NEW t \in Seq(S), NEW P, NEW Q, NEW R, Joined(R, s, P, t, Q)
  PROVE  At(s \o t, R) = At(s, P) \o At(t, Q)
<1> DEFINE m == Len(s)
           n == Len(t)
<1>1. /\ m \in Nat /\ n \in Nat /\ DOMAIN s = 1..m /\ DOMAIN t = 1..n
      /\ DOMAIN (s \o t) = 1..(m + n)
      /\ \A k \in 1..m : (s \o t)[k] = s[k]
      /\ \A k \in 1..n : (s \o t)[m + k] = t[k]
  OBVIOUS
<1> HIDE DEF m, n
<1>2. /\ P \in SUBSET (1..m) /\ Q \in SUBSET (1..n) /\ R \in SUBSET (1..(m + n))
      /\ \A k \in 1..m : k \in R <=> k \in P
      /\ \A k \in 1..n : m + k \in R <=> k \in Q
  BY <1>1 DEF m, Joined
<1>3. PICK M \in Nat : \E f : Lists(f, M, P)
  BY <1>1, <1>2, PositionsListed
<1>4. PICK f : Lists(f, M, P)
  BY <1>3
<1>5. PICK N \in Nat : \E g : Lists(g, N, Q)
  BY <1>1, <1>2, PositionsListed
<1>6. PICK g : Lists(g, N, Q)
  BY <1>5
<1>7. /\ f \in [1..M -> P] /\ \A i, j \in 1..M : i < j => f[i] < f[j]
      /\ \A p \in P : \E i \in 1..M : f[i] = p
  BY <1>4 DEF Lists
<1>8. /\ g \in [1..N -> Q] /\ \A i, j \in 1..N : i < j => g[i] < g[j]
      /\ \A p \in Q : \E i \in 1..N : g[i] = p
  BY <1>6 DEF Lists
<1> DEFINE h == [i \in 1..(M + N) |-> IF i <= M THEN f[i] ELSE m + g[i - M]]
<1>9. ASSUME NEW i \in 1..M PROVE i \in 1..(M + N) /\ h[i] = f[i] /\ f[i] \in P /\ f[i] \in 1..m
  <2>1. i \in 1..(M + N) /\ i <= M
    OBVIOUS
  <2>2. f[i] \in P
    BY <1>7
  <2>3. f[i] \in 1..m
    BY <1>2, <2>2
  <2> QED
    BY <2>1, <2>2, <2>3
<1>10. ASSUME NEW i \in 1..N
       PROVE  M + i \in 1..(M + N) /\ h[M + i] = m + g[i] /\ g[i] \in Q /\ g[i] \in 1..n
  <2>1. M + i \in 1..(M + N) /\ ~(M + i <= M) /\ M + i - M = i
    OBVIOUS
  <2>2. g[i] \in Q /\ g[i] \in 1..n
    BY <1>2, <1>8
  <2> QED
    BY <2>1, <2>2
<1>11. ASSUME NEW i \in 1..(M + N) PROVE i \in 1..M \/ \E k \in 1..N : i = M + k
  <2>1. CASE i <= M
    BY <2>1
  <2>2. CASE i > M
    <3>1. i - M \in 1..N /\ i = M + (i - M)
      BY <2>2
    <3> QED
      BY <3>1
  <2> QED
    BY <2>1, <2>2
<1>12. Lists(h, M + N, R)
  <2>1. h \in [1..(M + N) -> R]
    <3>1. ASSUME NEW i \in 1..(M + N) PROVE h[i] \in R
      <4>1. CASE i \in 1..M
        BY <1>2, <1>9, <4>1
      <4>2. CASE \E k \in 1..N : i = M + k
        <5>1. PICK k \in 1..N : i = M + k
          BY <4>2
        <5>2. h[i] = m + g[k] /\ g[k] \in Q /\ g[k] \in 1..n
          BY <1>10, <5>1
        <5> HIDE DEF h
        <5> QED
          BY <1>2, <5>2
      <4> QED
        BY <1>11, <4>1, <4>2
    <3> QED
      BY <3>1
  <2> HIDE DEF h
  <2>2. ASSUME NEW i \in 1..(M + N), NEW j \in 1..(M + N), i < j PROVE h[i] < h[j]
    <3>1. CASE i \in 1..M /\ j \in 1..M
      BY <1>7, <1>9, <2>2, <3>1
    <3>2. CASE i \in 1..M /\ \E k \in 1..N : j = M + k
      <4>1. PICK k \in 1..N : j = M + k
        BY <3>2
      <4>2. h[i] \in 1..m /\ h[j] = m + g[k] /\ g[k] \in 1..n
        BY <1>9, <1>10, <3>2, <4>1
      <4> QED
        BY <1>1, <4>2
    <3>3. CASE (\E k \in 1..N : i = M + k) /\ j \in 1..M
      BY <2>2, <3>3
    <3>4. CASE (\E k \in 1..N : i = M + k) /\ (\E k \in 1..N : j = M + k)
      <4>1. PICK k \in 1..N : i = M + k
        BY <3>4
      <4>2. PICK l \in 1..N : j = M + l
        BY <3>4
      <4>3. k < l
        BY <2>2, <4>1, <4>2
      <4>4. g[k] < g[l] /\ g[k] \in 1..n /\ g[l] \in 1..n
        BY <1>8, <1>10, <4>3
      <4>5. h[i] = m + g[k] /\ h[j] = m + g[l]
        BY <1>10, <4>1, <4>2
      <4> QED
        BY <1>1, <4>4, <4>5
    <3> QED
      BY <1>11, <3>1, <3>2, <3>3, <3>4
  <2>3. ASSUME NEW p \in R PROVE \E i \in 1..(M + N) : h[i] = p
    <3>0. p \in 1..(m + n)
      BY <1>2
    <3>1. CASE p <= m
      <4>1. p \in P
        BY <1>1, <1>2, <3>0, <3>1
      <4>2. PICK i \in 1..M : f[i] = p
        BY <1>7, <4>1
      <4> QED
        BY <1>9, <4>2
    <3>2. CASE p > m
      <4>1. p - m \in 1..n /\ m + (p - m) = p
        BY <1>1, <3>0, <3>2
      <4>2. p - m \in Q
        BY <1>2, <4>1
      <4>3. PICK i \in 1..N : g[i] = p - m
        BY <1>8, <4>2
      <4> QED
        BY <1>10, <4>1, <4>3
    <3> QED
      BY <1>1, <3>0, <3>1, <3>2
  <2> QED
    BY <2>1, <2>2, <2>3 DEF Lists
<1>121. P \in SUBSET Nat /\ Q \in SUBSET Nat /\ R \in SUBSET Nat
  BY <1>2
<1> DEFINE a == At(s, P)
           b == At(t, Q)
           c == At(s \o t, R)
           st == s \o t
<1>13. a = [i \in 1..M |-> a[i]] /\ \A i \in 1..M : a[i] = s[f[i]]
  <2>1. DOMAIN a = 1..M /\ \A i \in 1..M : a[i] = s[f[i]]
    <3>1. Selects(a, s, f, M)
      BY <1>4, <1>121, AtIs
    <3> QED
      BY <3>1 DEF Selects
  <2>2. a = [i \in DOMAIN a |-> a[i]]
    BY AtFunction
  <2> HIDE DEF a
  <2> QED
    BY <2>1, <2>2
<1>14. b = [i \in 1..N |-> b[i]] /\ \A i \in 1..N : b[i] = t[g[i]]
  <2>1. DOMAIN b = 1..N /\ \A i \in 1..N : b[i] = t[g[i]]
    <3>1. Selects(b, t, g, N)
      BY <1>6, <1>121, AtIs
    <3> QED
      BY <3>1 DEF Selects
  <2>2. b = [i \in DOMAIN b |-> b[i]]
    BY AtFunction
  <2> HIDE DEF b
  <2> QED
    BY <2>1, <2>2
<1>15. c = [i \in 1..(M + N) |-> c[i]] /\ \A i \in 1..(M + N) : c[i] = st[h[i]]
  <2> HIDE DEF h
  <2>2. DOMAIN c = 1..(M + N) /\ \A i \in 1..(M + N) : c[i] = st[h[i]]
    <3>1. Selects(c, st, h, M + N)
      BY <1>12, <1>121, AtIs
    <3> QED
      BY <3>1 DEF Selects
  <2>3. c = [i \in DOMAIN c |-> c[i]]
    BY AtFunction
  <2> HIDE DEF c
  <2> QED
    BY <2>2, <2>3
<1>16. a \in Seq(S) /\ Len(a) = M /\ b \in Seq(S) /\ Len(b) = N
  <2>0. P \in SUBSET (DOMAIN s) /\ Q \in SUBSET (DOMAIN t)
    BY DEF Joined
  <2>1. (\A p \in P : s[p] \in S) /\ \A p \in Q : t[p] \in S
    BY <1>1, <1>2
  <2>2. a \in Seq(S)
    BY <2>0, <2>1, AtOf
  <2>3. b \in Seq(S)
    BY <2>0, <2>1, AtOf
  <2> HIDE DEF a, b
  <2>4. DOMAIN a = 1..M /\ DOMAIN b = 1..N
    BY <1>13, <1>14
  <2>5. Len(a) = M
    BY <2>2, <2>4
  <2>6. Len(b) = N
    BY <2>3, <2>4
  <2> QED
    BY <2>2, <2>3, <2>5, <2>6
<1>17. ASSUME NEW i \in 1..M PROVE c[i] = a[i]
  <2>1. c[i] = st[h[i]] /\ a[i] = s[f[i]] /\ h[i] = f[i] /\ f[i] \in 1..m
    BY <1>9, <1>13, <1>15
  <2> QED
    BY <1>1, <2>1
<1>18. ASSUME NEW i \in 1..N PROVE c[M + i] = b[i]
  <2>1. c[M + i] = st[h[M + i]] /\ b[i] = t[g[i]] /\ h[M + i] = m + g[i] /\ g[i] \in 1..n
    BY <1>10, <1>14, <1>15
  <2> QED
    BY <1>1, <2>1
<1>19. DOMAIN c = 1..(M + N)
  BY <1>15
<1> HIDE DEF a, b, c, h
<1>20. c = [i \in 1..(M + N) |-> c[i]]
  BY <1>15
<1> HIDE DEF st
<1>21. /\ Len(a \o b) = M + N /\ a \o b \in Seq(S)
       /\ \A i \in 1..M : (a \o b)[i] = a[i]
       /\ \A i \in 1..N : (a \o b)[M + i] = b[i]
  <2>1. a \in Seq(S) /\ b \in Seq(S)
    BY <1>16
  <2>2. /\ Len(a \o b) = Len(a) + Len(b) /\ a \o b \in Seq(S)
        /\ \A i \in 1..Len(a) : (a \o b)[i] = a[i]
        /\ \A i \in 1..Len(b) : (a \o b)[Len(a) + i] = b[i]
    BY <2>1
  <2> QED
    BY <1>16, <2>2
<1>22. a \o b = [i \in 1..(M + N) |-> (a \o b)[i]]
  <2> DEFINE ab == a \o b
  <2>1. ab \in Seq(S) /\ Len(ab) = M + N
    BY <1>21
  <2> HIDE DEF ab
  <2>2. ab = [i \in 1..(M + N) |-> ab[i]]
    BY <2>1
  <2> QED
    BY <2>2 DEF ab
<1>23. ASSUME NEW i \in 1..(M + N) PROVE c[i] = (a \o b)[i]
  <2>1. CASE i \in 1..M
    BY <1>17, <1>21, <2>1
  <2>2. CASE \E k \in 1..N : i = M + k
    BY <1>18, <1>21, <2>2
  <2> QED
    BY <1>11, <2>1, <2>2
<1>24. c = a \o b
  BY <1>20, <1>22, <1>23
<1> QED
  BY <1>24 DEF a, b, c

ThreadMsg == {SystemText} \cup [who : Actors, part : {"user", "call", "result", "reply"}]
Shown == [who : Actors, part : {"user", "result", "reply"}]
ThreadReport == Actors \X ReportTypes
LastReports == [type : ReportTypes \cup {"none"}, placed : BOOLEAN]
ActorLine == {IndexLine, Mark} \cup [type : {"message"}, data : Shown]
ReporterLine == [type : {"report", "remedy"}, data : ThreadReport]
ThreadLine == ActorLine \cup ReporterLine
Unended == [type : {"unended"}, data : ThreadLine, seq : Nat]
FileSet == [seqs : Seq(Nat), messages : Seq(Shown), reports : Seq(ThreadReport),
            remedies : Seq(ThreadReport), tail : {NoTail, Torn} \cup Unended]
FilesSet == [file : FileSet, cache : Nat, indexed : BOOLEAN]

\* Nothing of what can be read has changed.
SameLines(f, g) ==
  /\ f.seqs = g.seqs /\ f.messages = g.messages
  /\ f.reports = g.reports /\ f.remedies = g.remedies

\* A line without its newline is neither a piece of one nor the sign that there is none.
LEMMA TailTypes ==
  /\ NoTail # Torn /\ NoTail.type # "unended" /\ Torn.type # "unended"
  /\ \A u \in Unended : u \notin {NoTail, Torn} /\ u.type = "unended"
  /\ Mark # IndexLine /\ Mark.type = "mark" /\ IndexLine.type = "snapshot"
BY DEF NoTail, Torn, Unended, Line, Mark, IndexLine

\* A line that is shown adds its number, and its data to the list of its kind.
LEMMA ShowsFacts ==
  ASSUME NEW f \in FileSet, NEW line \in ThreadLine, NEW seq \in Nat
  PROVE  /\ Shows(f, line, seq) \in FileSet
         /\ Shows(f, line, seq).seqs = Append(f.seqs, seq)
         /\ Shows(f, line, seq).tail = f.tail
         /\ Shows(f, line, seq).messages =
              (IF line.type = "message" THEN Append(f.messages, line.data) ELSE f.messages)
         /\ Shows(f, line, seq).reports =
              (IF line.type = "report" THEN Append(f.reports, line.data) ELSE f.reports)
         /\ Shows(f, line, seq).remedies =
              (IF line.type = "remedy" THEN Append(f.remedies, line.data) ELSE f.remedies)
<1> DEFINE ms == IF line.type = "message" THEN Append(f.messages, line.data) ELSE f.messages
           rs == IF line.type = "report" THEN Append(f.reports, line.data) ELSE f.reports
           cs == IF line.type = "remedy" THEN Append(f.remedies, line.data) ELSE f.remedies
           g == Shows(f, line, seq)
<1>1. g = [f EXCEPT !.seqs = Append(f.seqs, seq), !.messages = ms, !.reports = rs, !.remedies = cs]
  BY DEF Shows
<1>2. /\ line.type = "message" => line.data \in Shown
      /\ line.type = "report" => line.data \in ThreadReport
      /\ line.type = "remedy" => line.data \in ThreadReport
  BY DEF ThreadLine, ActorLine, ReporterLine, IndexLine, Mark, Line
<1>3. ms \in Seq(Shown) /\ rs \in Seq(ThreadReport) /\ cs \in Seq(ThreadReport)
  BY <1>2 DEF FileSet
<1>4. Append(f.seqs, seq) \in Seq(Nat)
  BY DEF FileSet
<1> HIDE DEF ms, rs, cs, g
<1>5. g \in FileSet /\ g.seqs = Append(f.seqs, seq) /\ g.tail = f.tail /\ g.messages = ms
      /\ g.reports = rs /\ g.remedies = cs
  BY <1>1, <1>3, <1>4 DEF FileSet
<1> QED
  BY <1>5 DEF ms, rs, cs, g

\* A write that puts no byte into the file leaves it as it was.
LEMMA WrittenNothing ==
  ASSUME NEW f, NEW line, NEW seq
  PROVE  Written(f, line, seq, "nothing") = f
BY DEF Written

\* What a write does to what can be read, and to the end of the file.
LEMMA WrittenFacts ==
  ASSUME NEW f \in FileSet, NEW line \in ThreadLine, NEW seq \in Nat, NEW how \in Outcomes
  PROVE  /\ Written(f, line, seq, how) \in FileSet
         /\ how = "nothing" => Written(f, line, seq, how) = f
         /\ how = "ok" => Written(f, line, seq, how).tail = NoTail
         /\ how = "ok" /\ f.tail = NoTail => Written(f, line, seq, how) = Shows(f, line, seq)
         /\ ~(how = "ok" /\ f.tail = NoTail) => SameLines(Written(f, line, seq, how), f)
         /\ how \in {"torn", "unended"} =>
              \/ Written(f, line, seq, how).tail = Torn
              \/ /\ f.tail = NoTail /\ Written(f, line, seq, how).tail \in Unended
                 /\ Written(f, line, seq, how).tail.data = line
                 /\ Written(f, line, seq, how).tail.seq = seq
<1> DEFINE g == Written(f, line, seq, how)
           u == [type |-> "unended", data |-> line, seq |-> seq]
<1>1. u \in Unended /\ u.data = line /\ u.seq = seq
  BY DEF Unended
<1>2. CASE how = "nothing"
  <2>1. g = f
    BY <1>2 DEF Written
  <2> QED
    BY <1>2, <2>1 DEF SameLines
<1>3. CASE how = "ok" /\ f.tail = NoTail
  <2>1. g = Shows(f, line, seq)
    BY <1>3 DEF Written
  <2>2. Shows(f, line, seq) \in FileSet /\ Shows(f, line, seq).tail = NoTail
    BY <1>3, ShowsFacts
  <2> QED
    BY <1>3, <2>1, <2>2
<1>4. CASE how = "ok" /\ f.tail # NoTail
  <2>1. g = [f EXCEPT !.tail = NoTail]
    BY <1>4 DEF Written
  <2>2. g \in FileSet /\ g.tail = NoTail /\ SameLines(g, f)
    BY <2>1 DEF FileSet, SameLines
  <2> QED
    BY <1>4, <2>2
<1>5. CASE how \in {"torn", "unended"} /\ (how = "torn" \/ f.tail # NoTail)
  <2>1. g = [f EXCEPT !.tail = Torn]
    BY <1>5 DEF Written
  <2>2. g \in FileSet /\ g.tail = Torn /\ SameLines(g, f)
    BY <2>1 DEF FileSet, SameLines
  <2> QED
    BY <1>5, <2>2
<1>6. CASE how = "unended" /\ f.tail = NoTail
  <2>1. g = [f EXCEPT !.tail = u]
    BY <1>6 DEF Written
  <2> HIDE DEF u
  <2>2. g \in FileSet /\ g.tail = u /\ SameLines(g, f)
    BY <1>1, <2>1 DEF FileSet, SameLines
  <2> QED
    BY <1>1, <1>6, <2>2
<1> QED
  BY <1>2, <1>3, <1>4, <1>5, <1>6 DEF Outcomes

-----------------------------------------------------------------------------
(* The numbers of the lines.                                                *)

\* How far the numbers may have run ahead of what can be read.
Ahead(f, lost) == Len(f.seqs) + (lost + lost) - (IF f.tail = NoTail THEN 0 ELSE 1)

\* The numbers grow along the file, and the next is larger.
SeqInv(f, cache, lost) ==
  /\ \A j, k \in DOMAIN f.seqs : j < k => f.seqs[j] < f.seqs[k]
  /\ f.tail.type = "unended" => \A k \in DOMAIN f.seqs : f.seqs[k] < f.tail.seq
  /\ cache # 0 => \A k \in DOMAIN f.seqs : f.seqs[k] <= cache
  /\ f.tail # NoTail => lost >= 1
  /\ cache <= Ahead(f, lost)
  /\ \A k \in DOMAIN f.seqs : f.seqs[k] <= Ahead(f, lost)
  /\ f.tail.type = "unended" => f.tail.seq <= Ahead(f, lost)

\* SeqInv, of the files and after so many mishaps.
FilesInv(files, lost) ==
  files \in FilesSet /\ lost \in Nat /\ SeqInv(files.file, files.cache, lost)

\* Where the numbers of a sequence and of one appended to it are.
LEMMA AppendedNumbers ==
  ASSUME NEW q \in Seq(Nat), NEW x \in Nat, NEW s, s = Append(q, x)
  PROVE  /\ s \in Seq(Nat) /\ DOMAIN s = 1..(Len(q) + 1) /\ DOMAIN q = 1..Len(q)
         /\ s[Len(q) + 1] = x
         /\ \A k \in 1..Len(q) : s[k] = q[k] /\ s[k] \in Nat
OBVIOUS

\* The number a line is written after.
LEMMA CurrentSeqFacts ==
  ASSUME NEW f \in FileSet, NEW cache \in Nat, NEW lost \in Nat, SeqInv(f, cache, lost)
  PROVE  /\ CurrentSeq(f, cache) \in Nat /\ CurrentSeq(f, cache) <= Ahead(f, lost)
         /\ \A k \in DOMAIN f.seqs : f.seqs[k] <= CurrentSeq(f, cache)
<1>1. CASE cache # 0
  BY <1>1 DEF CurrentSeq, SeqInv
<1>2. CASE cache = 0
  <2> DEFINE s == Read(f).seqs
             S == {0} \cup Range(s)
  <2>1. CurrentSeq(f, cache) = Max(S)
    BY <1>2 DEF CurrentSeq
  <2>2. f.seqs \in Seq(Nat) /\ Len(f.seqs) \in Nat /\ Ahead(f, lost) \in Int
    BY DEF FileSet, Ahead
  <2>3. /\ s \in Seq(Nat)
        /\ \A j, k \in DOMAIN s : j < k => s[j] < s[k]
        /\ \A k \in DOMAIN s : s[k] <= Ahead(f, lost)
        /\ \A k \in DOMAIN f.seqs : k \in DOMAIN s /\ s[k] = f.seqs[k]
    <3>1. CASE Ended(f)
      <4>1. s = f.seqs
        BY <3>1 DEF Read
      <4> QED
        BY <2>2, <4>1 DEF SeqInv
    <3>2. CASE ~Ended(f)
      <4>1. f.tail \in Unended
        BY <3>2 DEF Ended, FileSet
      <4>2. f.tail.type = "unended" /\ f.tail.data \in ThreadLine /\ f.tail.seq \in Nat
        BY <4>1 DEF Unended
      <4>3. s = Append(f.seqs, f.tail.seq)
        BY <3>2, <4>2, ShowsFacts DEF Read
      <4>4. /\ \A k \in DOMAIN f.seqs : f.seqs[k] < f.tail.seq
            /\ f.tail.seq <= Ahead(f, lost)
            /\ \A j, k \in DOMAIN f.seqs : j < k => f.seqs[j] < f.seqs[k]
            /\ \A k \in DOMAIN f.seqs : f.seqs[k] <= Ahead(f, lost)
        BY <4>2 DEF SeqInv
      <4>5. /\ s \in Seq(Nat) /\ DOMAIN s = 1..(Len(f.seqs) + 1)
            /\ s[Len(f.seqs) + 1] = f.tail.seq
            /\ \A k \in 1..Len(f.seqs) : s[k] = f.seqs[k] /\ s[k] \in Nat
            /\ DOMAIN f.seqs = 1..Len(f.seqs)
        BY SMTT(30), <2>2, <4>2, <4>3, AppendedNumbers
      <4> HIDE DEF s
      <4>6. ASSUME NEW j \in DOMAIN s, NEW k \in DOMAIN s, j < k PROVE s[j] < s[k]
        <5>0. j \in 1..(Len(f.seqs) + 1) /\ k \in 1..(Len(f.seqs) + 1)
          BY <4>5
        <5>1. j \in 1..Len(f.seqs) /\ (k \in 1..Len(f.seqs) \/ k = Len(f.seqs) + 1)
          BY <2>2, <5>0, <4>6
        <5> QED
          BY <4>4, <4>5, <4>6, <5>1
      <4>7. ASSUME NEW k \in DOMAIN s PROVE s[k] <= Ahead(f, lost)
        <5>1. k \in 1..Len(f.seqs) \/ k = Len(f.seqs) + 1
          BY <2>2, <4>5
        <5> QED
          BY <4>4, <4>5, <5>1
      <4>8. \A k \in DOMAIN f.seqs : k \in DOMAIN s /\ s[k] = f.seqs[k]
        <5> SUFFICES ASSUME NEW k \in DOMAIN f.seqs PROVE k \in DOMAIN s /\ s[k] = f.seqs[k]
          OBVIOUS
        <5>1. k \in 1..Len(f.seqs)
          BY <4>5
        <5>2. k \in 1..(Len(f.seqs) + 1)
          BY <2>2, <5>1
        <5> QED
          BY <4>5, <5>1, <5>2
      <4> QED
        BY <4>5, <4>6, <4>7, <4>8
    <3> QED
      BY <3>1, <3>2
  <2> HIDE DEF s
  <2>4. S = {0} \cup {s[k] : k \in DOMAIN s}
    BY DEF Range
  <2>5. \E m \in S : m \in Nat /\ \A x \in S : m >= x
    <3>1. CASE s = <<>>
      BY <2>4, <3>1
    <3>2. CASE s # <<>>
      <4>1. Len(s) \in DOMAIN s /\ DOMAIN s = 1..Len(s) /\ Len(s) \in Nat
        BY <2>3, <3>2
      <4>2. \A k \in DOMAIN s : s[k] \in Nat /\ s[k] <= s[Len(s)]
        <5> SUFFICES ASSUME NEW k \in DOMAIN s PROVE s[k] \in Nat /\ s[k] <= s[Len(s)]
          OBVIOUS
        <5>1. s[k] \in Nat /\ (k < Len(s) \/ k = Len(s))
          BY <2>3, <4>1
        <5> QED
          BY <2>3, <4>1, <5>1
      <4>3. s[Len(s)] \in S /\ \A x \in S : x <= s[Len(s)]
        BY <2>4, <4>1, <4>2
      <4> QED
        BY <4>1, <4>2, <4>3
    <3> QED
      BY <3>1, <3>2
  <2> DEFINE m == Max(S)
  <2>6. m \in S /\ \A x \in S : m >= x
    BY <2>5 DEF Max
  <2> HIDE DEF m
  <2>7. m \in Nat
    BY <2>3, <2>4, <2>6
  <2>8. 0 <= Ahead(f, lost)
    BY <1>2 DEF SeqInv
  <2>9. m <= Ahead(f, lost)
    BY <2>3, <2>4, <2>6, <2>8
  <2>10. \A k \in DOMAIN f.seqs : f.seqs[k] <= m
    <3> SUFFICES ASSUME NEW k \in DOMAIN f.seqs PROVE f.seqs[k] <= m
      OBVIOUS
    <3>1. s[k] \in S /\ s[k] = f.seqs[k] /\ s[k] \in Nat
      BY <2>3, <2>4
    <3> QED
      BY <2>6, <2>7, <3>1
  <2> QED
    BY <2>1, <2>7, <2>9, <2>10 DEF m
<1> QED
  BY <1>1, <1>2

Lost(how, lost) == IF how = "ok" THEN lost ELSE lost + 1

\* The files are their three parts.
LEMMA InvNow ==
  ASSUME NEW files \in FilesSet
  PROVE  files = [file |-> files.file, cache |-> files.cache, indexed |-> files.indexed]
BY DEF FilesSet

\* What an append does.
LEMMA PutFacts ==
  ASSUME NEW files, NEW lost, FilesInv(files, lost), NEW line \in ThreadLine, line # IndexLine,
         NEW how \in Outcomes
  PROVE  \E seq \in Nat :
           /\ seq = CurrentSeq(files.file, files.cache) + 1
           /\ Put(files, line, how).file = Written(files.file, line, seq, how)
           /\ Put(files, line, how).cache = (IF how = "ok" THEN seq ELSE files.cache)
           /\ Put(files, line, how).indexed = files.indexed
           /\ Put(files, line, how) \in FilesSet
<1> DEFINE seq == CurrentSeq(files.file, files.cache) + 1
           g == Written(files.file, line, seq, how)
           c == IF how = "ok" THEN seq ELSE files.cache
<1>1. files \in FilesSet /\ files.file \in FileSet /\ files.cache \in Nat /\ lost \in Nat
      /\ SeqInv(files.file, files.cache, lost)
  BY DEF FilesInv, FilesSet
<1>2. CurrentSeq(files.file, files.cache) \in Nat
  BY <1>1, CurrentSeqFacts
<1>3. seq \in Nat
  BY <1>2
<1> HIDE DEF seq
<1>4. g \in FileSet /\ c \in Nat
  BY <1>1, <1>3, WrittenFacts
<1>5. Put(files, line, how) = [files EXCEPT !.file = g, !.cache = c]
  BY DEF Put, seq
<1> HIDE DEF g, c
<1>6. /\ Put(files, line, how).file = g /\ Put(files, line, how).cache = c
      /\ Put(files, line, how).indexed = files.indexed /\ Put(files, line, how) \in FilesSet
  BY <1>1, <1>4, <1>5 DEF FilesSet
<1> QED
  BY <1>3, <1>6 DEF g, c, seq

\* The index is one line or none, and the thread's file is another file.
LEMMA PutIndexFacts ==
  ASSUME NEW files \in FilesSet, NEW how \in Outcomes
  PROVE  /\ Put(files, IndexLine, how) \in FilesSet
         /\ Put(files, IndexLine, how).file = files.file
         /\ Put(files, IndexLine, how).cache = files.cache
BY DEF Put, FilesSet

\* How far ahead the numbers may be, for a number of lines that can be read.
LEMMA AheadFacts ==
  ASSUME NEW f \in FileSet, NEW lost \in Nat, NEW n \in Nat, Len(f.seqs) = n
  PROVE  /\ Ahead(f, lost) \in Int
         /\ f.tail = NoTail => Ahead(f, lost) = n + (lost + lost)
         /\ f.tail # NoTail => Ahead(f, lost) = n + (lost + lost) - 1
<1>2. CASE f.tail = NoTail
  <2>1. Ahead(f, lost) = n + (lost + lost) - 0
    BY <1>2 DEF Ahead
  <2> QED
    BY <1>2, <2>1
<1>3. CASE f.tail # NoTail
  <2>1. Ahead(f, lost) = n + (lost + lost) - 1
    BY <1>3 DEF Ahead
  <2> QED
    BY <1>3, <2>1
<1> QED
  BY <1>2, <1>3

\* The lines that can be read, counted.
LEMMA FileLength ==
  ASSUME NEW f \in FileSet
  PROVE  \E n \in Nat : /\ Len(f.seqs) = n /\ f.seqs \in Seq(Nat) /\ DOMAIN f.seqs = 1..n
                        /\ \A k \in 1..n : f.seqs[k] \in Nat
<1>1. f.seqs \in Seq(Nat) /\ Len(f.seqs) \in Nat
  BY DEF FileSet
<1>2. PICK n \in Nat : Len(f.seqs) = n
  BY <1>1
<1> QED
  BY <1>1, <1>2

\* More mishaps allow more, and so does a cache that a restart empties.
LEMMA SeqInvGrows ==
  ASSUME NEW f \in FileSet, NEW cache \in Nat, NEW lost \in Nat, SeqInv(f, cache, lost)
  PROVE  SeqInv(f, cache, lost + 1) /\ SeqInv(f, 0, lost)
<1>1. PICK n \in Nat : /\ Len(f.seqs) = n /\ DOMAIN f.seqs = 1..n
                       /\ \A k \in 1..n : f.seqs[k] \in Nat
  BY FileLength
<1>2. PICK a \in Int : a = Ahead(f, lost)
  BY <1>1, AheadFacts
<1>3. Ahead(f, lost + 1) = a + 2 /\ 0 <= a
  <2>1. lost + 1 \in Nat
    OBVIOUS
  <2>2. f.tail # NoTail => lost >= 1
    BY DEF SeqInv
  <2>3. CASE f.tail = NoTail
    <3>1. a = n + (lost + lost) /\ Ahead(f, lost + 1) = n + ((lost + 1) + (lost + 1))
      BY <1>1, <1>2, <2>1, <2>3, AheadFacts
    <3> QED
      BY <3>1
  <2>4. CASE f.tail # NoTail
    <3>1. a = n + (lost + lost) - 1 /\ Ahead(f, lost + 1) = n + ((lost + 1) + (lost + 1)) - 1
      BY <1>1, <1>2, <2>1, <2>4, AheadFacts
    <3> QED
      BY <2>2, <2>4, <3>1
  <2> QED
    BY <2>3, <2>4
<1>4. f.tail.type = "unended" => f.tail.seq \in Nat
  BY TailTypes DEF FileSet, Unended
<1>5. /\ \A j, k \in DOMAIN f.seqs : j < k => f.seqs[j] < f.seqs[k]
      /\ f.tail.type = "unended" => \A k \in DOMAIN f.seqs : f.seqs[k] < f.tail.seq
      /\ cache # 0 => \A k \in DOMAIN f.seqs : f.seqs[k] <= cache
      /\ f.tail # NoTail => lost >= 1
      /\ cache <= a
      /\ \A k \in 1..n : f.seqs[k] <= a
      /\ f.tail.type = "unended" => f.tail.seq <= a
  BY <1>1, <1>2 DEF SeqInv
<1>6. cache <= a + 2 /\ (f.tail # NoTail => lost + 1 >= 1)
  BY <1>5
<1>7. \A k \in 1..n : f.seqs[k] <= a + 2
  BY <1>1, <1>5
<1>8. f.tail.type = "unended" => f.tail.seq <= a + 2
  BY <1>4, <1>5
<1>9. SeqInv(f, cache, lost + 1)
  BY <1>1, <1>3, <1>5, <1>6, <1>7, <1>8 DEF SeqInv
<1>10. SeqInv(f, 0, lost)
  BY <1>1, <1>2, <1>3, <1>5 DEF SeqInv
<1> QED
  BY <1>9, <1>10

\* The numbers of a file before and after a line is written to it.
LEMMA WriteKeepsSeqs ==
  ASSUME NEW f \in FileSet, NEW cache \in Nat, NEW lost \in Nat, SeqInv(f, cache, lost),
         NEW line \in ThreadLine, NEW how \in Outcomes, NEW seq \in Nat,
         seq = CurrentSeq(f, cache) + 1
  PROVE  SeqInv(Written(f, line, seq, how), IF how = "ok" THEN seq ELSE cache, Lost(how, lost))
<1> DEFINE g == Written(f, line, seq, how)
<1>0. PICK m \in Nat : /\ Len(f.seqs) = m /\ f.seqs \in Seq(Nat) /\ DOMAIN f.seqs = 1..m
                       /\ \A k \in 1..m : f.seqs[k] \in Nat
  BY FileLength
<1>1. PICK a \in Int : a = Ahead(f, lost)
  BY <1>0, AheadFacts
<1>2. /\ seq <= a + 1
      /\ \A k \in 1..m : f.seqs[k] < seq
  <2>1. PICK c \in Nat : c = CurrentSeq(f, cache)
    BY CurrentSeqFacts
  <2>2. c <= a /\ seq = c + 1 /\ \A k \in 1..m : f.seqs[k] <= c
    BY <1>0, <1>1, <2>1, CurrentSeqFacts
  <2> QED
    BY <1>0, <2>2
<1>3. /\ f.tail = NoTail => a = m + (lost + lost)
      /\ f.tail # NoTail => a = m + (lost + lost) - 1
  BY <1>0, <1>1, AheadFacts
<1>5. /\ \A j, k \in 1..m : j < k => f.seqs[j] < f.seqs[k]
      /\ f.tail # NoTail => lost >= 1
      /\ \A k \in 1..m : f.seqs[k] <= a
  BY <1>0, <1>1 DEF SeqInv
<1>51. g \in FileSet
  BY WrittenFacts
<1>6. CASE how = "nothing"
  <2>1. g = f /\ Lost(how, lost) = lost + 1
    BY <1>6, WrittenFacts DEF Lost
  <2> QED
    BY <1>6, <2>1, SeqInvGrows
<1>7. CASE how = "ok" /\ f.tail = NoTail
  <2>1. g.seqs = Append(f.seqs, seq) /\ g.tail = NoTail
    <3>1. g = Shows(f, line, seq)
      BY <1>7, WrittenFacts
    <3> HIDE DEF g
    <3> QED
      BY <1>7, <3>1, ShowsFacts
  <2> HIDE DEF g
  <2>3. /\ DOMAIN g.seqs = 1..(m + 1) /\ Len(g.seqs) = m + 1 /\ g.seqs[m + 1] = seq
        /\ \A k \in 1..m : g.seqs[k] = f.seqs[k] /\ g.seqs[k] \in Nat
    BY <1>0, <2>1
  <2>4. Ahead(g, lost) = a + 1
    <3>1. m + 1 \in Nat
      OBVIOUS
    <3>2. Ahead(g, lost) = (m + 1) + (lost + lost)
      BY <1>51, <2>1, <2>3, <3>1, AheadFacts
    <3> QED
      BY <1>3, <1>7, <3>2
  <2>5. ASSUME NEW k \in 1..(m + 1) PROVE g.seqs[k] <= seq /\ g.seqs[k] <= a + 1
    <3>1. CASE k \in 1..m
      <4>1. g.seqs[k] = f.seqs[k] /\ f.seqs[k] \in Nat /\ f.seqs[k] < seq /\ f.seqs[k] <= a
        BY <1>0, <1>2, <1>5, <2>3, <3>1
      <4> QED
        BY <4>1
    <3>2. CASE k = m + 1
      BY <1>2, <2>3, <3>2
    <3> QED
      BY <3>1, <3>2
  <2>6. ASSUME NEW j \in 1..(m + 1), NEW k \in 1..(m + 1), j < k PROVE g.seqs[j] < g.seqs[k]
    <3>1. j \in 1..m
      BY <2>6
    <3>2. CASE k \in 1..m
      BY <1>5, <2>3, <2>6, <3>1, <3>2
    <3>3. CASE k = m + 1
      BY <1>2, <2>3, <3>1, <3>3
    <3> QED
      BY <3>2, <3>3
  <2>7. g.tail.type # "unended"
    BY <2>1, TailTypes
  <2>8. SeqInv(g, seq, lost)
    BY <1>2, <2>1, <2>3, <2>4, <2>5, <2>6, <2>7 DEF SeqInv
  <2> QED
    BY <1>7, <2>8 DEF g, Lost
<1>8. CASE how = "ok" /\ f.tail # NoTail
  <2>1. g.seqs = f.seqs /\ g.tail = NoTail
    BY <1>8, WrittenFacts DEF SameLines
  <2> HIDE DEF g
  <2>4. Ahead(g, lost) = a + 1
    <3>1. Ahead(g, lost) = m + (lost + lost)
      BY <1>0, <1>51, <2>1, AheadFacts
    <3> QED
      BY <1>3, <1>8, <3>1
  <2>5. \A k \in 1..m : f.seqs[k] <= a + 1 /\ f.seqs[k] <= seq
    BY <1>0, <1>2, <1>5
  <2>7. g.tail.type # "unended"
    BY <2>1, TailTypes
  <2>8. SeqInv(g, seq, lost)
    BY <1>0, <1>2, <1>5, <2>1, <2>4, <2>5, <2>7 DEF SeqInv
  <2> QED
    BY <1>8, <2>8 DEF g, Lost
<1>9. CASE how \in {"torn", "unended"}
  <2>1. g.seqs = f.seqs
    BY <1>9, WrittenFacts DEF SameLines
  <2>2. \/ g.tail = Torn
        \/ f.tail = NoTail /\ g.tail \in Unended /\ g.tail.seq = seq
    BY <1>9, WrittenFacts
  <2>3. Lost(how, lost) = lost + 1 /\ how # "ok"
    BY <1>9 DEF Lost
  <2> HIDE DEF g
  <2>4. g.tail # NoTail
    BY <2>2, TailTypes
  <2>5. PICK b \in Int : b = Ahead(g, lost + 1) /\ b >= a + 1
    <3>1. PICK l \in Nat : l = lost + 1
      OBVIOUS
    <3>2. Len(g.seqs) = m
      BY <1>0, <2>1
    <3>3. Ahead(g, l) = m + (l + l) - 1
      BY <1>51, <2>4, <3>2, AheadFacts
    <3>4. m + (l + l) - 1 >= a + 1
      BY <1>3, <3>1
    <3> QED
      BY <3>1, <3>3, <3>4
  <2>7. g.tail.type = "unended" => g.tail.seq = seq
    BY <2>2, TailTypes
  <2>8. cache <= a /\ (cache # 0 => \A k \in 1..m : f.seqs[k] <= cache)
    BY <1>0, <1>1 DEF SeqInv
  <2>9. cache <= b /\ seq <= b /\ \A k \in 1..m : f.seqs[k] <= b
    BY <1>0, <1>2, <1>5, <2>5, <2>8
  <2>91. lost + 1 >= 1
    OBVIOUS
  <2>10. SeqInv(g, cache, lost + 1)
    BY <1>0, <1>2, <1>5, <2>1, <2>5, <2>7, <2>8, <2>9, <2>91 DEF SeqInv
  <2> QED
    BY <2>3, <2>10 DEF g
<1> QED
  BY <1>6, <1>7, <1>8, <1>9 DEF Outcomes

\* An append, or a crash in the middle of one.
LEMMA PutKeepsFiles ==
  ASSUME NEW files, NEW lost, FilesInv(files, lost), NEW line \in ThreadLine,
         NEW how \in Outcomes
  PROVE  FilesInv(Put(files, line, how), Lost(how, lost))
<1>1. files \in FilesSet /\ files.file \in FileSet /\ files.cache \in Nat /\ lost \in Nat
      /\ SeqInv(files.file, files.cache, lost)
  BY DEF FilesInv, FilesSet
<1>2. Lost(how, lost) \in Nat
  BY <1>1 DEF Lost
<1>3. CASE line = IndexLine
  <2>1. SeqInv(files.file, files.cache, Lost(how, lost))
    BY <1>1, SeqInvGrows DEF Lost
  <2> QED
    BY <1>1, <1>2, <1>3, <2>1, PutIndexFacts DEF FilesInv
<1>4. CASE line # IndexLine
  <2>1. PICK seq \in Nat :
           /\ seq = CurrentSeq(files.file, files.cache) + 1
           /\ Put(files, line, how).file = Written(files.file, line, seq, how)
           /\ Put(files, line, how).cache = (IF how = "ok" THEN seq ELSE files.cache)
           /\ Put(files, line, how) \in FilesSet
    BY <1>4, PutFacts
  <2>2. SeqInv(Written(files.file, line, seq, how), IF how = "ok" THEN seq ELSE files.cache,
               Lost(how, lost))
    BY <1>1, <2>1, WriteKeepsSeqs
  <2> QED
    BY <1>2, <2>1, <2>2 DEF FilesInv
<1> QED
  BY <1>3, <1>4

\* A restart, and a mishap that writes nothing, keep the numbers growing.
LEMMA RestartKeepsFiles ==
  ASSUME NEW files, NEW lost, FilesInv(files, lost)
  PROVE  /\ FilesInv([files EXCEPT !.cache = 0], lost)
         /\ FilesInv(files, lost + 1)
<1>1. files \in FilesSet /\ files.file \in FileSet /\ files.cache \in Nat /\ lost \in Nat
      /\ SeqInv(files.file, files.cache, lost)
  BY DEF FilesInv, FilesSet
<1>2. SeqInv(files.file, files.cache, lost + 1) /\ SeqInv(files.file, 0, lost)
  BY <1>1, SeqInvGrows
<1>3. [files EXCEPT !.cache = 0] \in FilesSet /\ [files EXCEPT !.cache = 0].file = files.file
      /\ [files EXCEPT !.cache = 0].cache = 0
  BY <1>1 DEF FilesSet
<1> QED
  BY <1>1, <1>2, <1>3 DEF FilesInv

\* The numbers that can be read grow.
LEMMA FilesShowGrowth ==
  ASSUME NEW lost, FilesInv(Files, lost)
  PROVE  SeqsGrow
<1>1. Files.file = file /\ file \in FileSet /\ SeqInv(file, Files.cache, lost)
  BY DEF FilesInv, FilesSet, Files
<1>2. CASE Ended(file)
  BY <1>1, <1>2 DEF SeqsGrow, Read, SeqInv
<1>3. CASE ~Ended(file)
  <2>1. file.tail \in Unended
    BY <1>1, <1>3 DEF Ended, FileSet
  <2>2. file.tail.type = "unended" /\ file.tail.data \in ThreadLine /\ file.tail.seq \in Nat
    BY <2>1 DEF Unended
  <2> DEFINE s == Read(file).seqs
             m == Len(file.seqs)
  <2>3. s = Append(file.seqs, file.tail.seq)
    BY <1>1, <1>3, <2>2, ShowsFacts DEF Read
  <2>4. file.seqs \in Seq(Nat) /\ m \in Nat /\ DOMAIN file.seqs = 1..m
    BY <1>1 DEF FileSet
  <2>5. /\ \A k \in DOMAIN file.seqs : file.seqs[k] < file.tail.seq
        /\ \A j, k \in DOMAIN file.seqs : j < k => file.seqs[j] < file.seqs[k]
    BY <1>1, <2>2 DEF SeqInv
  <2> HIDE DEF s
  <2>6. DOMAIN s = 1..(m + 1) /\ s[m + 1] = file.tail.seq /\ \A k \in 1..m : s[k] = file.seqs[k]
    BY <2>2, <2>3, <2>4
  <2>7. ASSUME NEW j \in DOMAIN s, NEW k \in DOMAIN s, j < k PROVE s[j] < s[k]
    <3>1. j \in 1..(m + 1) /\ k \in 1..(m + 1)
      BY <2>6
    <3>2. j \in 1..m /\ (k \in 1..m \/ k = m + 1)
      BY <2>4, <2>7, <3>1
    <3> QED
      BY <2>5, <2>6, <2>7, <3>2
  <2> QED
    BY <2>7 DEF SeqsGrow, s
<1> QED
  BY <1>2, <1>3

-----------------------------------------------------------------------------
(* Types.                                                                   *)

Entries(n) == [session : 0..n, persisted : Nat]

ActorTypes ==
  /\ tpc \in [Actors -> Places] /\ fate \in [Actors -> {"none", "completed", "failed"}]
  /\ \A t \in Turns : tpc[t] \notin {"creating", "queued"}
  /\ talk \in [Actors -> Seq(ThreadMsg)]
  /\ todoLines \in [Writers -> Seq(ThreadLine)] /\ todoLines[Reporter] \in Seq(ReporterLine)
  /\ \A p \in Actors : todoLines[p] \in Seq(ActorLine)

EntryTypes ==
  /\ sessions \in Seq(Seq(ThreadMsg))
  /\ entry \in Entries(Len(sessions)) /\ (entry # NoEntry => entry.session # 0)
  /\ untabled \in 0..Len(sessions)
  /\ snap \in [Actors -> Entries(Len(sessions))]
  /\ \A p \in Actors :
       tpc[p] \in {"queued", "starting", "saving", "collecting"} => snap[p].session # 0

MiscTypes ==
  /\ inbox \in Seq(ThreadReport) /\ lastReport \in [Actors -> LastReports]
  /\ activeRuns \subseteq Actors /\ indexedRuns \subseteq Actors
  /\ asides \in Nat /\ disturbed \in BOOLEAN

LostInv ==
  /\ faults \in Nat /\ crashes \in Nat /\ faults + crashes <= MaxMishaps
  /\ FilesInv(Files, faults + crashes)

ThreadTypes == ActorTypes /\ EntryTypes /\ MiscTypes /\ LostInv

\* Who writes is an actor or the report worker.
LEMMA WritersAre ==
  /\ Run \in Actors /\ Run \notin Turns /\ Turns \subseteq Actors /\ Reporter \notin Actors
  /\ Writers = Actors \cup {Reporter} /\ Nobody \notin Actors
  /\ \A p \in Actors : p = Run \/ p \in Turns
BY ThreadsAssumption DEF Actors, Writers

\* Messages that are shown are messages.
LEMMA ShownAreMessages ==
  /\ Shown \subseteq ThreadMsg /\ Seq(Shown) \subseteq Seq(ThreadMsg)
  /\ \A p \in Actors : /\ Said(p, "user") \in Shown /\ Said(p, "user") \in ThreadMsg
                       /\ Said(p, "call") \in ThreadMsg /\ Said(p, "result") \in ThreadMsg
                       /\ Said(p, "reply") \in ThreadMsg
  /\ SystemText \in ThreadMsg
<1>1. Shown \subseteq ThreadMsg
  BY DEF Shown, ThreadMsg
<1>2. Seq(Shown) \subseteq Seq(ThreadMsg)
  BY <1>1
<1> QED
  BY <1>1, <1>2 DEF Shown, ThreadMsg, Said

\* A message that is kept is one the journal shows.
LEMMA KeptIsShown ==
  ASSUME NEW c \in Seq(ThreadMsg), NEW k \in DOMAIN c, Kept(c, k) PROVE c[k] \in Shown
<1>1. c[k] \in ThreadMsg
  OBVIOUS
<1>2. c[k].part \in {"user", "result", "reply"}
  BY DEF Kept
<1>3. c[k] # SystemText
  BY <1>2 DEF SystemText, Said
<1>4. c[k] \in [who : Actors, part : {"user", "call", "result", "reply"}]
  BY <1>1, <1>3 DEF ThreadMsg
<1> QED
  BY <1>2, <1>4 DEF Shown

\* What the journal keeps of a conversation is messages that are shown.
LEMMA ProjectType ==
  ASSUME NEW c \in Seq(ThreadMsg) PROVE Project(c) \in Seq(Shown)
<1> DEFINE P == {k \in DOMAIN c : Kept(c, k)}
<1>1. ASSUME NEW k \in P PROVE c[k] \in Shown
  BY KeptIsShown
<1>2. P \in SUBSET (DOMAIN c)
  OBVIOUS
<1> HIDE DEF P
<1>3. At(c, P) \in Seq(Shown)
  BY <1>1, <1>2, AtOf
<1> QED
  BY <1>3 DEF Project, P

\* What a reader makes of a file is a file.
LEMMA ReadType ==
  ASSUME NEW f \in FileSet PROVE Read(f) \in FileSet
<1>1. CASE Ended(f)
  BY <1>1 DEF Read
<1>2. CASE ~Ended(f)
  <2>1. f.tail \in Unended
    BY <1>2 DEF Ended, FileSet
  <2>2. f.tail.data \in ThreadLine /\ f.tail.seq \in Nat
    BY <2>1 DEF Unended
  <2> QED
    BY <1>2, <2>2, ShowsFacts DEF Read
<1> QED
  BY <1>1, <1>2

\* The lines of a turn that are not messages are lines of a turn.
LEMMA WithoutMessagesType ==
  ASSUME NEW todo \in Seq(ActorLine) PROVE WithoutMessages(todo) \in Seq(ActorLine)
<1> DEFINE P == {k \in DOMAIN todo : ~IsMessage(todo[k])}
<1>1. P \in SUBSET (DOMAIN todo) /\ \A k \in P : todo[k] \in ActorLine
  OBVIOUS
<1> HIDE DEF P
<1>2. At(todo, P) \in Seq(ActorLine)
  BY <1>1, AtOf
<1> QED
  BY <1>2 DEF WithoutMessages, P

\* The lines that an actor, or the report worker, appends.
LEMMA LinesAre ==
  /\ IndexLine \in ActorLine /\ Mark \in ActorLine /\ ActorLine \subseteq ThreadLine
  /\ ReporterLine \subseteq ThreadLine /\ "ok" \in Outcomes /\ IndexLine \notin ReporterLine
  /\ Seq(ActorLine) \subseteq Seq(ThreadLine) /\ Seq(ReporterLine) \subseteq Seq(ThreadLine)
  /\ \A m \in Shown : MessageLine(m) \in ActorLine /\ MessageLine(m) # IndexLine
  /\ Mark # IndexLine
<1>1. ActorLine \subseteq ThreadLine /\ ReporterLine \subseteq ThreadLine
  BY DEF ThreadLine
<1>2. Seq(ActorLine) \subseteq Seq(ThreadLine) /\ Seq(ReporterLine) \subseteq Seq(ThreadLine)
  BY <1>1
<1>3. "ok" \in Outcomes /\ IndexLine \in ActorLine /\ Mark \in ActorLine
  BY DEF Outcomes, ActorLine
<1>4. \A m \in Shown : MessageLine(m) \in ActorLine /\ MessageLine(m) # IndexLine
  BY DEF MessageLine, ActorLine, Line, IndexLine
<1>5. IndexLine \notin ReporterLine /\ Mark # IndexLine
  BY DEF ReporterLine, IndexLine, Line, Mark
<1> QED
  BY <1>1, <1>2, <1>3, <1>4, <1>5

\* The three variables become what an append makes of them.
LEMMA FilesNow ==
  ASSUME NEW files \in FilesSet, FilesBecome(files) PROVE Files' = files
<1>1. files = [file |-> files.file, cache |-> files.cache, indexed |-> files.indexed]
  BY InvNow
<1> QED
  BY <1>1 DEF FilesBecome, Files

\* Appends that succeed lose nothing.
LEMMA AppendedFiles ==
  ASSUME NEW lost, FilesInv(Files, lost), NEW line \in ThreadLine, Appended(line)
  PROVE  FilesInv(Files', lost)
<1>1. "ok" \in Outcomes /\ Lost("ok", lost) = lost
  BY LinesAre DEF Lost
<1>2. FilesInv(Put(Files, line, "ok"), lost)
  BY <1>1, PutKeepsFiles
<1>3. Files' = Put(Files, line, "ok")
  BY <1>2, FilesNow DEF FilesInv, Appended
<1> QED
  BY <1>2, <1>3

\* A change of state that is journalled loses nothing.
LEMMA MarkedFiles ==
  ASSUME NEW lost, FilesInv(Files, lost), MarkAppended
  PROVE  FilesInv(Files', lost)
<1>1. /\ "ok" \in Outcomes /\ Lost("ok", lost) = lost
      /\ IndexLine \in ThreadLine /\ Mark \in ThreadLine
  BY LinesAre DEF Lost
<1>2. FilesInv(Put(Files, IndexLine, "ok"), lost)
  BY <1>1, PutKeepsFiles
<1>3. FilesInv(Put(Put(Files, IndexLine, "ok"), Mark, "ok"), lost)
  BY <1>1, <1>2, PutKeepsFiles
<1>4. Files' = Put(Put(Files, IndexLine, "ok"), Mark, "ok")
  BY <1>3, FilesNow DEF FilesInv, MarkAppended
<1> QED
  BY <1>3, <1>4

\* What leaves the files and the counters alone.
LEMMA FilesAlone ==
  ASSUME LostInv, UNCHANGED <<fileVars, faults, crashes>>
  PROVE  LostInv'
<1>1. Files' = Files
  BY DEF Files, fileVars
<1> QED
  BY <1>1 DEF LostInv

\* A session is created at the end, or written in its place.
LEMMA SessionsMany ==
  ASSUME NEW s \in Seq(Seq(ThreadMsg)), NEW x \in Seq(ThreadMsg)
  PROVE  \E n \in Nat : /\ Len(s) = n /\ DOMAIN s = 1..n
                        /\ Append(s, x) \in Seq(Seq(ThreadMsg)) /\ Len(Append(s, x)) = n + 1
                        /\ n + 1 \in 1..(n + 1)
                        /\ Entries(n) \subseteq Entries(n + 1)
                        /\ \A k \in 1..n : [s EXCEPT ![k] = x] \in Seq(Seq(ThreadMsg))
                                           /\ Len([s EXCEPT ![k] = x]) = n /\ s[k] \in Seq(ThreadMsg)
<1>1. PICK n \in Nat : Len(s) = n
  OBVIOUS
<1>2. DOMAIN s = 1..n /\ Append(s, x) \in Seq(Seq(ThreadMsg)) /\ Len(Append(s, x)) = n + 1
  BY <1>1
<1>3. Entries(n) \subseteq Entries(n + 1)
  BY DEF Entries
<1>4. ASSUME NEW k \in 1..n
      PROVE  [s EXCEPT ![k] = x] \in Seq(Seq(ThreadMsg)) /\ Len([s EXCEPT ![k] = x]) = n
             /\ s[k] \in Seq(ThreadMsg)
  BY <1>1, <1>2
<1> QED
  BY <1>1, <1>2, <1>3, <1>4

\* The types at the start.
LEMMA TypesInit == ThreadsInit => ThreadTypes
<1> SUFFICES ASSUME ThreadsInit PROVE ThreadTypes
  OBVIOUS
<1>1. ActorTypes
  <2>1. <<>> \in Seq(ActorLine) /\ <<>> \in Seq(ReporterLine) /\ <<>> \in Seq(ThreadLine)
        /\ <<>> \in Seq(ThreadMsg)
    OBVIOUS
  <2>2. tpc \in [Actors -> Places] /\ fate \in [Actors -> {"none", "completed", "failed"}]
        /\ talk \in [Actors -> Seq(ThreadMsg)] /\ todoLines \in [Writers -> Seq(ThreadLine)]
    BY <2>1 DEF ThreadsInit, Places
  <2>3. \A w \in Writers : todoLines[w] = <<>>
    BY DEF ThreadsInit
  <2>4. \A p \in Actors : tpc[p] = "new"
    BY DEF ThreadsInit
  <2> QED
    BY <2>1, <2>2, <2>3, <2>4, WritersAre DEF ActorTypes
<1>2. EntryTypes
  <2>1. PICK n \in Nat : Len(sessions) = n /\ sessions \in Seq(Seq(ThreadMsg))
    BY DEF ThreadsInit
  <2>2. NoEntry \in Entries(n) /\ 0 \in 0..n
    BY DEF NoEntry, Entries
  <2> QED
    BY <2>1, <2>2 DEF EntryTypes, ThreadsInit
<1>3. MiscTypes
  <2>1. /\ inbox = <<>> /\ lastReport = [p \in Actors |-> NotReported] /\ disturbed = FALSE
        /\ activeRuns = {} /\ indexedRuns = {} /\ asides = 0
    BY DEF ThreadsInit
  <2>2. <<>> \in Seq(ThreadReport) /\ NotReported \in LastReports
    BY DEF NotReported, LastReports
  <2> QED
    BY <2>1, <2>2 DEF MiscTypes
<1>4. LostInv
  <2>1. file \in FileSet /\ file.seqs = <<>> /\ file.tail = NoTail /\ seqCache = 0
    BY DEF ThreadsInit, EmptyFile, FileSet
  <2>11. indexed \in BOOLEAN /\ seqCache \in Nat
    BY DEF ThreadsInit
  <2>2. Files \in FilesSet /\ Files.file = file /\ Files.cache = 0
    BY <2>1, <2>11 DEF Files, FilesSet
  <2>3. 0 \in Nat /\ Len(<<>>) = 0 /\ file.tail.type # "unended" /\ DOMAIN file.seqs = {}
    BY <2>1, TailTypes
  <2>4. Ahead(file, 0) = 0
    BY <2>1, <2>3, AheadFacts
  <2>5. SeqInv(file, 0, 0)
    BY <2>1, <2>3, <2>4 DEF SeqInv
  <2>6. faults = 0 /\ crashes = 0 /\ 0 <= MaxMishaps /\ 0 + 0 = 0
    BY ThreadsAssumption DEF ThreadsInit
  <2> QED
    BY <2>2, <2>3, <2>5, <2>6 DEF LostInv, FilesInv
<1> QED
  BY <1>1, <1>2, <1>3, <1>4 DEF ThreadTypes

\* An action that leaves the sessions and the entry alone, and moves one actor.
LEMMA EntryAlone ==
  ASSUME ThreadTypes, UNCHANGED <<sessions, entry, untabled>>,
         snap' \in [Actors -> Entries(Len(sessions))],
         \A p \in Actors : tpc'[p] \in {"queued", "starting", "saving", "collecting"} =>
                             snap'[p].session # 0
  PROVE  EntryTypes'
BY DEF ThreadTypes, EntryTypes

\* delegate_to_agent keeps the types: the thread's lines are to be appended.
LEMMA TypesCreate == ThreadTypes /\ CreateThread => ThreadTypes'
<1> SUFFICES ASSUME ThreadTypes, CreateThread PROVE ThreadTypes'
  OBVIOUS
<1> DEFINE todo == <<IndexLine, Mark, MessageLine(Said(Run, "user"))>>
<1>1. todo \in Seq(ActorLine) /\ todo \in Seq(ThreadLine)
  <2>1. IndexLine \in ActorLine /\ Mark \in ActorLine
        /\ MessageLine(Said(Run, "user")) \in ActorLine
    BY LinesAre, ShownAreMessages, WritersAre
  <2>2. todo \in Seq(ActorLine)
    BY <2>1
  <2> QED
    BY <2>2, LinesAre
<1> HIDE DEF todo
<1>2. ActorTypes'
  <2>1. tpc' = [tpc EXCEPT ![Run] = "creating"] /\ todoLines' = [todoLines EXCEPT ![Run] = todo]
        /\ fate' = fate /\ talk' = talk
    BY DEF CreateThread, Goes, WillAppend, todo
  <2> QED
    BY <1>1, <2>1, WritersAre DEF ThreadTypes, ActorTypes, Places
<1>3. EntryTypes'
  <2>1. PICK n \in Nat : Len(sessions) = n
    BY DEF ThreadTypes, EntryTypes
  <2>2. snap' = [snap EXCEPT ![Run] = [snap[Run] EXCEPT !.persisted = 1]]
        /\ tpc' = [tpc EXCEPT ![Run] = "creating"]
    BY DEF CreateThread, Goes
  <2>3. snap[Run] \in Entries(n)
    BY <2>1, WritersAre DEF ThreadTypes, EntryTypes
  <2>4. [snap[Run] EXCEPT !.persisted = 1] \in Entries(n)
        /\ [snap[Run] EXCEPT !.persisted = 1].session = snap[Run].session
    BY <2>3 DEF Entries
  <2>5. snap' \in [Actors -> Entries(n)]
    BY <2>1, <2>2, <2>4 DEF ThreadTypes, EntryTypes
  <2>6. \A p \in Actors : tpc'[p] \in {"queued", "starting", "saving", "collecting"} =>
                            snap'[p].session # 0
    BY <2>2, <2>4, WritersAre DEF ThreadTypes, EntryTypes, ActorTypes
  <2> QED
    BY <2>1, <2>5, <2>6, EntryAlone DEF CreateThread
<1>4. MiscTypes'
  BY DEF ThreadTypes, MiscTypes, CreateThread, reportVars, boundVars
<1>5. LostInv'
  BY FilesAlone DEF ThreadTypes, CreateThread, boundVars
<1> QED
  BY <1>2, <1>3, <1>4, <1>5 DEF ThreadTypes

\* An actor is done or gone: what it knew is dropped.
LEMMA Forgotten ==
  ASSUME ThreadTypes, NEW p \in Actors, NEW x \in {"done", "gone"},
         Goes(p, x), Forgets(p), todoLines' \in [Writers -> Seq(ThreadLine)],
         \A q \in Actors : todoLines'[q] \in Seq(ActorLine),
         todoLines'[Reporter] \in Seq(ReporterLine)
  PROVE  /\ ActorTypes'
         /\ snap' \in [Actors -> Entries(Len(sessions))]
         /\ \A q \in Actors : tpc'[q] \in {"queued", "starting", "saving", "collecting"} =>
                                snap'[q].session # 0
<1>1. /\ tpc' = [tpc EXCEPT ![p] = x] /\ snap' = [snap EXCEPT ![p] = NoEntry]
      /\ talk' = [talk EXCEPT ![p] = <<>>] /\ fate' = [fate EXCEPT ![p] = "none"]
  BY DEF Goes, Forgets
<1>2. ActorTypes'
  <2>1. <<>> \in Seq(ThreadMsg)
    OBVIOUS
  <2> QED
    BY <1>1, <2>1, WritersAre DEF ThreadTypes, ActorTypes, Places
<1>3. PICK m \in Nat : Len(sessions) = m
  BY DEF ThreadTypes, EntryTypes
<1>4. NoEntry \in Entries(m)
  BY DEF NoEntry, Entries
<1>5. snap' \in [Actors -> Entries(m)]
  BY <1>1, <1>3, <1>4 DEF ThreadTypes, EntryTypes
<1>6. \A q \in Actors : tpc'[q] \in {"queued", "starting", "saving", "collecting"} =>
                          snap'[q].session # 0
  BY <1>1 DEF ThreadTypes, EntryTypes, ActorTypes
<1> QED
  BY <1>2, <1>3, <1>5, <1>6

\* delegate_to_agent keeps the types: the task is queued, with a session.
LEMMA TypesEnqueue == ThreadTypes /\ Enqueues => ThreadTypes'
<1> SUFFICES ASSUME ThreadTypes, Enqueues PROVE ThreadTypes'
  OBVIOUS
<1>2. ActorTypes'
  <2>1. tpc' = [tpc EXCEPT ![Run] = "queued"] /\ todoLines' = todoLines
        /\ fate' = fate /\ talk' = talk
    BY DEF Enqueues, Goes
  <2> QED
    BY <2>1, WritersAre DEF ThreadTypes, ActorTypes, Places
<1>3. EntryTypes'
  <2>0. <<>> \in Seq(ThreadMsg) /\ sessions \in Seq(Seq(ThreadMsg))
    BY DEF ThreadTypes, EntryTypes
  <2>1. PICK n \in Nat : /\ Len(sessions) = n /\ Append(sessions, <<>>) \in Seq(Seq(ThreadMsg))
                         /\ Len(Append(sessions, <<>>)) = n + 1
                         /\ n + 1 \in 1..(n + 1) /\ Entries(n) \subseteq Entries(n + 1)
    BY <2>0, SessionsMany
  <2>2. /\ sessions' = Append(sessions, <<>>) /\ Len(sessions') = n + 1
        /\ snap' = [snap EXCEPT ![Run] = [snap[Run] EXCEPT !.session = n + 1]]
        /\ tpc' = [tpc EXCEPT ![Run] = "queued"] /\ entry' = entry /\ untabled' = n + 1
    BY <2>1 DEF Enqueues, Goes
  <2>3. snap \in [Actors -> Entries(n)]
    BY <2>1 DEF ThreadTypes, EntryTypes
  <2>4. n + 1 \in 0..(n + 1) /\ n + 1 # 0
    OBVIOUS
  <2>5. [snap[Run] EXCEPT !.session = n + 1] \in Entries(n + 1)
        /\ [snap[Run] EXCEPT !.session = n + 1].session = n + 1
    BY <2>3, <2>4, WritersAre DEF Entries
  <2>6. snap' \in [Actors -> Entries(n + 1)]
    BY <2>1, <2>2, <2>3, <2>5
  <2>7. entry' \in Entries(n + 1) /\ (entry' # NoEntry => entry'.session # 0)
        /\ untabled' \in 0..(n + 1)
    BY <2>1, <2>2, <2>4 DEF ThreadTypes, EntryTypes
  <2>8. \A p \in Actors : tpc'[p] \in {"queued", "starting", "saving", "collecting"} =>
                            snap'[p].session # 0
    BY <2>2, <2>3, <2>4, <2>5 DEF ThreadTypes, EntryTypes, ActorTypes
  <2> QED
    BY <2>1, <2>2, <2>6, <2>7, <2>8 DEF EntryTypes
<1>4. MiscTypes'
  BY DEF ThreadTypes, MiscTypes, Enqueues, reportVars, boundVars
<1>5. LostInv'
  BY FilesAlone DEF ThreadTypes, Enqueues, boundVars
<1> QED
  BY <1>2, <1>3, <1>4, <1>5 DEF ThreadTypes

\* What is dropped before it has begun keeps the types.
LEMMA TypesGone ==
  ASSUME ThreadTypes, Goes(Run, "gone"), Forgets(Run), disturbed' \in BOOLEAN,
         UNCHANGED <<fileVars, entry, untabled, sessions, todoLines, reportVars, boundVars>>
  PROVE  ThreadTypes'
<1>1. /\ ActorTypes'
      /\ snap' \in [Actors -> Entries(Len(sessions))]
      /\ \A q \in Actors : tpc'[q] \in {"queued", "starting", "saving", "collecting"} =>
                             snap'[q].session # 0
  <2>1. /\ todoLines' \in [Writers -> Seq(ThreadLine)]
        /\ \A q \in Actors : todoLines'[q] \in Seq(ActorLine)
        /\ todoLines'[Reporter] \in Seq(ReporterLine)
    BY DEF ThreadTypes, ActorTypes
  <2> QED
    BY <2>1, Forgotten, WritersAre
<1>2. EntryTypes'
  BY <1>1, EntryAlone
<1>3. MiscTypes'
  BY DEF ThreadTypes, MiscTypes, reportVars, boundVars
<1>4. LostInv'
  BY FilesAlone DEF ThreadTypes, boundVars
<1> QED
  BY <1>1, <1>2, <1>3, <1>4 DEF ThreadTypes

\* A task that is refused, or dropped by the worker, keeps the types.
LEMMA TypesDrop == ThreadTypes /\ (IsRefused \/ RunIsDropped) => ThreadTypes'
<1> SUFFICES ASSUME ThreadTypes, IsRefused \/ RunIsDropped PROVE ThreadTypes'
  OBVIOUS
<1>1. disturbed' \in BOOLEAN
  BY DEF ThreadTypes, MiscTypes, IsRefused, RunIsDropped
<1> QED
  BY <1>1, TypesGone DEF IsRefused, RunIsDropped

\* delegate_to_agent keeps the types: the thread and its run enter the tables.
LEMMA TypesInsert == ThreadTypes /\ InsertThread => ThreadTypes'
<1> SUFFICES ASSUME ThreadTypes, InsertThread PROVE ThreadTypes'
  OBVIOUS
<1>1. ActorTypes'
  BY DEF ThreadTypes, ActorTypes, InsertThread, actorVars
<1>2. EntryTypes'
  <2>1. PICK n \in Nat : Len(sessions) = n
    BY DEF ThreadTypes, EntryTypes
  <2>2. /\ entry' = [session |-> untabled, persisted |-> 0] /\ untabled # 0 /\ untabled' = 0
        /\ UNCHANGED <<sessions, snap, tpc>>
    BY DEF InsertThread, actorVars
  <2>3. untabled \in 0..n
    BY <2>1 DEF ThreadTypes, EntryTypes
  <2>4. entry' \in Entries(n) /\ entry'.session # 0 /\ untabled' \in 0..n
    BY <2>2, <2>3 DEF Entries
  <2> QED
    BY <2>1, <2>2, <2>4 DEF ThreadTypes, EntryTypes
<1>3. MiscTypes'
  BY WritersAre DEF ThreadTypes, MiscTypes, InsertThread, boundVars, InTurn
<1>4. LostInv'
  BY FilesAlone DEF ThreadTypes, InsertThread, boundVars
<1> QED
  BY <1>1, <1>2, <1>3, <1>4 DEF ThreadTypes

\* The start of run_delegated_task keeps the types.
LEMMA TypesBegin == ThreadTypes /\ RunBegins => ThreadTypes'
<1> SUFFICES ASSUME ThreadTypes, RunBegins PROVE ThreadTypes'
  OBVIOUS
<1>1. tpc' = [tpc EXCEPT ![Run] = "starting"] /\ tpc[Run] = "queued"
  BY DEF RunBegins, Goes
<1>2. ActorTypes'
  BY <1>1, WritersAre DEF ThreadTypes, ActorTypes, Places, RunBegins
<1>3. EntryTypes'
  BY <1>1, EntryAlone, WritersAre DEF ThreadTypes, ActorTypes, EntryTypes, RunBegins
<1>4. MiscTypes'
  BY DEF ThreadTypes, MiscTypes, RunBegins, reportVars, boundVars, Marks, Disturbs
<1>5. LostInv'
  <2>1. FilesInv(Files, faults + crashes) /\ MarkAppended /\ faults' = faults /\ crashes' = crashes
    BY DEF ThreadTypes, LostInv, RunBegins, Marks, boundVars
  <2>2. FilesInv(Files', faults + crashes)
    BY <2>1, MarkedFiles
  <2> QED
    BY <2>1, <2>2 DEF ThreadTypes, LostInv
<1> QED
  BY <1>2, <1>3, <1>4, <1>5 DEF ThreadTypes

\* The start of subagent_turn keeps the types.
LEMMA TypesRead == ASSUME NEW t \in Turns, ThreadTypes, TurnReads(t) PROVE ThreadTypes'
<1>1. ActorTypes'
  <2>1. \E x \in {"gone", "starting"} : tpc' = [tpc EXCEPT ![t] = x]
    BY DEF TurnReads, Goes
  <2> QED
    BY <2>1, WritersAre DEF ThreadTypes, ActorTypes, TurnReads, Places
<1>2. EntryTypes'
  <2>1. CASE entry = NoEntry
    <3>1. tpc' = [tpc EXCEPT ![t] = "gone"] /\ snap' = snap
      BY <2>1 DEF TurnReads, Goes
    <3> QED
      BY <3>1, EntryAlone, WritersAre DEF ThreadTypes, ActorTypes, EntryTypes, TurnReads
  <2>2. CASE entry # NoEntry
    <3>1. tpc' = [tpc EXCEPT ![t] = "starting"] /\ snap' = [snap EXCEPT ![t] = entry]
      BY <2>2 DEF TurnReads, Goes
    <3> QED
      BY <2>2, <3>1, EntryAlone, WritersAre DEF ThreadTypes, ActorTypes, EntryTypes, TurnReads
  <2> QED
    BY <2>1, <2>2
<1>3. MiscTypes'
  <2>1. activeRuns' \in {activeRuns, activeRuns \cup {t}} /\ disturbed' \in BOOLEAN
    BY WritersAre DEF ThreadTypes, MiscTypes, TurnReads
  <2>2. activeRuns' \subseteq Actors
    BY <2>1, WritersAre DEF ThreadTypes, MiscTypes
  <2> QED
    BY <2>1, <2>2 DEF ThreadTypes, MiscTypes, TurnReads, boundVars
<1>4. LostInv'
  BY FilesAlone DEF ThreadTypes, TurnReads, boundVars
<1> QED
  BY <1>1, <1>2, <1>3, <1>4 DEF ThreadTypes

\* One place of the session store is written, and one actor moves.
LEMMA SessionWritten ==
  ASSUME ThreadTypes, NEW p \in Actors, snap[p].session # 0, NEW c \in Seq(ThreadMsg),
         sessions' = [sessions EXCEPT ![snap[p].session] = c],
         entry' = entry, untabled' = untabled, snap' = snap,
         \A q \in Actors : q # p => tpc'[q] = tpc[q]
  PROVE  EntryTypes' /\ Len(sessions') = Len(sessions)
<1>0. sessions \in Seq(Seq(ThreadMsg))
  BY DEF ThreadTypes, EntryTypes
<1>1. PICK n \in Nat : /\ Len(sessions) = n
                       /\ \A k \in 1..n : /\ [sessions EXCEPT ![k] = c] \in Seq(Seq(ThreadMsg))
                                          /\ Len([sessions EXCEPT ![k] = c]) = n
  BY <1>0, SessionsMany
<1>2. snap[p].session \in 1..n
  <2>1. snap[p].session \in 0..n
    BY <1>1 DEF ThreadTypes, EntryTypes, Entries
  <2> QED
    BY <2>1
<1>3. sessions' \in Seq(Seq(ThreadMsg)) /\ Len(sessions') = n
  BY <1>1, <1>2
<1>4. \A q \in Actors : tpc'[q] \in {"queued", "starting", "saving", "collecting"} =>
                          snap[q].session # 0
  BY DEF ThreadTypes, EntryTypes
<1> QED
  BY <1>1, <1>3, <1>4 DEF ThreadTypes, EntryTypes

\* The session that an actor in its turn has read of is in the store.
LEMMA SessionRead ==
  ASSUME ThreadTypes, NEW p \in Actors, snap[p].session # 0
  PROVE  sessions[snap[p].session] \in Seq(ThreadMsg) /\ snap[p].session \in DOMAIN sessions
<1>0. sessions \in Seq(Seq(ThreadMsg))
  BY DEF ThreadTypes, EntryTypes
<1>1. PICK n \in Nat : Len(sessions) = n /\ DOMAIN sessions = 1..n
  BY <1>0
<1>2. snap[p].session \in 1..n
  <2>1. snap[p].session \in 0..n
    BY <1>1 DEF ThreadTypes, EntryTypes, Entries
  <2> QED
    BY <2>1
<1> QED
  BY <1>0, <1>1, <1>2

\* What a turn says.
TurnOf(p, ok) ==
  <<Said(p, "user"), Said(p, "call"), Said(p, "result")>>
    \o IF ok THEN <<Said(p, "reply")>> ELSE <<>>

\* What a turn says is messages.
LEMMA TurnType ==
  ASSUME NEW p \in Actors, NEW ok \in BOOLEAN PROVE TurnOf(p, ok) \in Seq(ThreadMsg)
<1>1. /\ Said(p, "user") \in ThreadMsg /\ Said(p, "call") \in ThreadMsg /\ Said(p, "result") \in ThreadMsg
      /\ Said(p, "reply") \in ThreadMsg
  BY ShownAreMessages
<1>2. <<Said(p, "user"), Said(p, "call"), Said(p, "result")>> \in Seq(ThreadMsg)
  BY <1>1
<1>3. <<Said(p, "reply")>> \in Seq(ThreadMsg) /\ <<>> \in Seq(ThreadMsg)
  BY <1>1
<1> QED
  BY <1>2, <1>3 DEF TurnOf

\* The session as it is before a turn speaks.
Opened(c) == IF c = <<>> THEN <<SystemText>> ELSE c

\* What execute_turn does to the session and keeps to itself.
LEMMA TalksFacts ==
  ASSUME ThreadTypes, NEW p \in Actors, NEW before \in Seq(Asides), NEW end \in Endings,
         Talks(p, before, end), NEW ok \in BOOLEAN, ok <=> end = "completed"
  PROVE  /\ sessions[snap[p].session] \in Seq(ThreadMsg) /\ snap[p].session \in DOMAIN sessions
         /\ Opened(sessions[snap[p].session]) \in Seq(ThreadMsg)
         /\ sessions' = [sessions EXCEPT ![snap[p].session] = Opened(sessions[snap[p].session])]
         /\ talk' = [talk EXCEPT ![p] = Opened(sessions[snap[p].session]) \o TurnOf(p, ok)]
         /\ Opened(sessions[snap[p].session]) \o TurnOf(p, ok) \in Seq(ThreadMsg)
         /\ tpc[p] = "starting" /\ tpc' = [tpc EXCEPT ![p] = "saving"] /\ snap[p].session # 0
         /\ fate' = [fate EXCEPT ![p] = IF ok THEN "completed" ELSE "failed"]
<1> DEFINE c == sessions[snap[p].session]
           o == Opened(c)
           u == TurnOf(p, ok)
<1>1. tpc[p] = "starting" /\ snap[p].session # 0
  BY DEF Talks, ThreadTypes, EntryTypes
<1>2. c \in Seq(ThreadMsg) /\ snap[p].session \in DOMAIN sessions
  BY <1>1, SessionRead
<1> HIDE DEF c
<1>3. o \in Seq(ThreadMsg) /\ u \in Seq(ThreadMsg)
  <2>1. <<SystemText>> \in Seq(ThreadMsg)
    BY ShownAreMessages
  <2> QED
    BY <1>2, <2>1, TurnType DEF Opened
<1> HIDE DEF o, u
<1>4. o \o u \in Seq(ThreadMsg)
  BY <1>3
<1>5. tpc' = [tpc EXCEPT ![p] = "saving"]
      /\ fate' = [fate EXCEPT ![p] = IF ok THEN "completed" ELSE "failed"]
  BY DEF Talks, Goes
<1>6. sessions' = [sessions EXCEPT ![snap[p].session] = o]
  BY DEF Talks, c, o, Opened
<1>7. talk' = [talk EXCEPT ![p] = o \o u]
  <2> DEFINE w == <<Said(p, "user"), Said(p, "call"), Said(p, "result")>>
             r == IF ok THEN <<Said(p, "reply")>> ELSE <<>>
  <2>1. u = w \o r
    BY DEF u, TurnOf
  <2>0. r = IF end = "completed" THEN <<Said(p, "reply")>> ELSE <<>>
    BY DEF r
  <2>2. talk' = [talk EXCEPT ![p] = (o \o w) \o r]
    BY <2>0 DEF Talks, o, c, Opened
  <2>3. w \in Seq(ThreadMsg) /\ r \in Seq(ThreadMsg)
    BY ShownAreMessages
  <2> HIDE DEF w, r
  <2>4. (o \o w) \o r = o \o (w \o r)
    BY <1>3, <2>3
  <2> QED
    BY <2>1, <2>2, <2>4
<1> QED
  BY <1>1, <1>2, <1>3, <1>4, <1>5, <1>6, <1>7 DEF c, o, u

\* The asides of a turn are a list.
LEMMA AsidesAre ==
  ASSUME NEW before \in BoundedSeq(Asides, MaxMishaps) PROVE before \in Seq(Asides)
<1>1. PICK m \in 0..MaxMishaps : before \in [1..m -> Asides]
  BY DEF BoundedSeq, SeqOf
<1>2. m \in Nat
  BY ThreadsAssumption
<1> QED
  BY <1>1, <1>2

\* The reports of a turn before the save.
LEMMA ReportedType ==
  ASSUME NEW p \in Actors, NEW before \in Seq(Asides), NEW end \in Endings
  PROVE  /\ Reported(p, before, end) \in Seq(ThreadReport)
         /\ \E n \in Nat, m \in Nat :
              /\ n = Len(before) /\ m \in {n, n + 1} /\ Len(Reported(p, before, end)) = m
              /\ \A k \in 1..n : Reported(p, before, end)[k] = ReportOf(p, before[k])
              /\ end = "error" => m = n
              /\ end # "error" => m = n + 1 /\ Reported(p, before, end)[m] = ReportOf(p, end)
<1> DEFINE last == IF end = "error" THEN <<>> ELSE <<end>>
           types == before \o last
           u == Reported(p, before, end)
<1>1. last \in Seq(ReportTypes) /\ before \in Seq(ReportTypes)
  <2>1. end # "error" => end \in ReportTypes
    BY DEF Endings, ReportTypes
  <2>2. last \in Seq(ReportTypes)
    BY <2>1
  <2>3. PICK n \in Nat : before \in [1..n -> Asides]
    OBVIOUS
  <2>4. before \in [1..n -> ReportTypes]
    BY <2>3 DEF ReportTypes
  <2> QED
    BY <2>2, <2>4
<1>2. PICK n \in Nat : n = Len(before)
  OBVIOUS
<1>3. PICK m \in Nat : m = n + Len(last) /\ m \in {n, n + 1} /\ (end = "error" <=> m = n)
  BY <1>2
<1>4. end # "error" => last[1] = end /\ Len(last) = 1
  OBVIOUS
<1> HIDE DEF last
<1>5. /\ types \in Seq(ReportTypes) /\ Len(types) = m /\ DOMAIN types = 1..m
      /\ \A k \in 1..n : types[k] = before[k]
      /\ \A k \in 1..Len(last) : types[n + k] = last[k]
  BY <1>1, <1>2, <1>3
<1>6. end # "error" => types[m] = end
  BY <1>3, <1>4, <1>5
<1>7. u = [k \in 1..m |-> ReportOf(p, types[k])]
  BY <1>5 DEF Reported, last
<1> HIDE DEF types
<1>8. \A k \in 1..m : ReportOf(p, types[k]) \in ThreadReport
  BY <1>5 DEF ReportOf, ThreadReport
<1>9. u \in Seq(ThreadReport) /\ Len(u) = m
  BY <1>7, <1>8
<1>10. \A k \in 1..n : u[k] = ReportOf(p, before[k])
  BY <1>3, <1>5, <1>7
<1>11. end # "error" => m = n + 1 /\ u[m] = ReportOf(p, end)
  BY <1>3, <1>6, <1>7
<1> HIDE DEF u
<1>12. u \in Seq(ThreadReport) /\ Len(u) = m /\ n = Len(before)
  BY <1>2, <1>9
<1> QED
  BY <1>3, <1>10, <1>11, <1>12 DEF u

\* execute_turn keeps the types.
LEMMA TypesTalk ==
  ASSUME ThreadTypes, NEW p \in Actors, NEW before \in Seq(Asides), NEW end \in Endings,
         Talks(p, before, end)
  PROVE  ThreadTypes'
<1>0. PICK ok \in BOOLEAN : ok <=> end = "completed"
  OBVIOUS
<1> DEFINE o == Opened(sessions[snap[p].session])
           w == o \o TurnOf(p, ok)
<1>1. /\ o \in Seq(ThreadMsg) /\ w \in Seq(ThreadMsg) /\ talk' = [talk EXCEPT ![p] = w]
      /\ sessions' = [sessions EXCEPT ![snap[p].session] = o]
      /\ tpc' = [tpc EXCEPT ![p] = "saving"] /\ snap[p].session # 0
      /\ fate' = [fate EXCEPT ![p] = IF ok THEN "completed" ELSE "failed"]
  BY <1>0, TalksFacts
<1> HIDE DEF o, w
<1>2. ActorTypes'
  <2>1. (IF ok THEN "completed" ELSE "failed") \in {"none", "completed", "failed"}
    OBVIOUS
  <2>2. fate' \in [Actors -> {"none", "completed", "failed"}]
    BY <1>1, <2>1 DEF ThreadTypes, ActorTypes
  <2>3. tpc' \in [Actors -> Places] /\ \A t \in Turns : tpc'[t] \notin {"creating", "queued"}
    BY <1>1, WritersAre DEF ThreadTypes, ActorTypes, Places
  <2>4. talk' \in [Actors -> Seq(ThreadMsg)] /\ todoLines' = todoLines
    <3>1. todoLines' = todoLines
      BY DEF Talks
    <3>2. talk \in [Actors -> Seq(ThreadMsg)]
      BY DEF ThreadTypes, ActorTypes
    <3> QED
      BY <1>1, <3>1, <3>2
  <2> QED
    BY <2>2, <2>3, <2>4 DEF ThreadTypes, ActorTypes
<1>3. EntryTypes'
  <2>1. entry' = entry /\ untabled' = untabled /\ snap' = snap /\ \A q \in Actors : q # p => tpc'[q] = tpc[q]
    BY <1>1 DEF Talks, ThreadTypes, ActorTypes
  <2> QED
    BY <1>1, <2>1, SessionWritten
<1>4. MiscTypes'
  <2>1. /\ inbox' = inbox \o Reported(p, before, end) /\ asides' = asides + Len(before)
        /\ UNCHANGED <<lastReport, activeRuns, indexedRuns, disturbed>>
    BY DEF Talks
  <2>2. inbox \in Seq(ThreadReport) /\ asides \in Nat
    BY DEF ThreadTypes, MiscTypes
  <2>3. inbox' \in Seq(ThreadReport)
    BY <2>1, <2>2, ReportedType
  <2>4. asides' \in Nat
    BY <2>1, <2>2
  <2> QED
    BY <2>1, <2>3, <2>4 DEF ThreadTypes, MiscTypes
<1>5. LostInv'
  BY FilesAlone DEF ThreadTypes, Talks
<1> QED
  BY <1>2, <1>3, <1>4, <1>5 DEF ThreadTypes

\* save_conversation keeps the types.
LEMMA TypesSave ==
  ASSUME ThreadTypes, NEW p \in Actors, Saves(p)
  PROVE  ThreadTypes'
<1>1. /\ tpc[p] = "saving" /\ tpc' = [tpc EXCEPT ![p] = "collecting"]
      /\ sessions' = [sessions EXCEPT ![snap[p].session] = talk[p]]
      /\ talk' = [talk EXCEPT ![p] = <<>>]
      /\ inbox' = (IF fate[p] = "failed" THEN Append(inbox, ReportOf(p, "failed")) ELSE inbox)
      /\ UNCHANGED <<fileVars, entry, untabled, snap, fate, todoLines, lastReport, activeRuns,
                     indexedRuns, boundVars, disturbed>>
  BY DEF Saves, Goes
<1>2. ActorTypes'
  <2>1. <<>> \in Seq(ThreadMsg)
    OBVIOUS
  <2> QED
    BY <1>1, <2>1, WritersAre DEF ThreadTypes, ActorTypes, Places
<1>3. EntryTypes'
  <2>1. talk[p] \in Seq(ThreadMsg) /\ snap[p].session # 0 /\ entry' = entry /\ snap' = snap
        /\ untabled' = untabled /\ \A q \in Actors : q # p => tpc'[q] = tpc[q]
    BY <1>1 DEF ThreadTypes, ActorTypes, EntryTypes
  <2> QED
    BY <1>1, <2>1, SessionWritten
<1>4. MiscTypes'
  <2>1. ReportOf(p, "failed") \in ThreadReport
    BY DEF ThreadReport, ReportOf, ReportTypes
  <2>3. inbox \in Seq(ThreadReport)
    BY DEF ThreadTypes, MiscTypes
  <2>4. inbox' \in Seq(ThreadReport)
    BY <1>1, <2>1, <2>3
  <2> QED
    BY <1>1, <2>4 DEF ThreadTypes, MiscTypes, boundVars
<1>5. LostInv'
  BY <1>1, FilesAlone DEF ThreadTypes, boundVars
<1> QED
  BY <1>2, <1>3, <1>4, <1>5 DEF ThreadTypes

\* Only what a writer has to append changes.
LEMMA TodoWritten ==
  ASSUME ThreadTypes, NEW p \in Writers, NEW todo \in Seq(ThreadLine), WillAppend(p, todo),
         p \in Actors => todo \in Seq(ActorLine), p = Reporter => todo \in Seq(ReporterLine)
  PROVE  /\ todoLines' \in [Writers -> Seq(ThreadLine)]
         /\ \A q \in Actors : todoLines'[q] \in Seq(ActorLine)
         /\ todoLines'[Reporter] \in Seq(ReporterLine)
<1>1. todoLines' = [todoLines EXCEPT ![p] = todo]
  BY DEF WillAppend
<1> QED
  BY <1>1, WritersAre DEF ThreadTypes, ActorTypes

\* The messages d as lines.
MessageLines(d) == [k \in DOMAIN d |-> MessageLine(d[k])]

\* What a turn has to append to the journal.
LEMMA CollectsFacts ==
  ASSUME ThreadTypes, NEW p \in Actors, Collects(p)
  PROVE  \E d \in Seq(Shown), n \in Nat :
           /\ tpc[p] = "collecting" /\ tpc' = [tpc EXCEPT ![p] = "journalling"]
           /\ sessions[snap[p].session] \in Seq(ThreadMsg) /\ snap[p].session # 0
           /\ d = (IF p = Run /\ fate[p] = "failed" THEN <<>>
                   ELSE Delta(Project(sessions[snap[p].session]), snap[p].persisted))
           /\ n = (IF p = Run /\ fate[p] = "failed" THEN snap[p].persisted
                   ELSE Len(Project(sessions[snap[p].session])))
           /\ snap' = [snap EXCEPT ![p] = [session |-> 0, persisted |-> n]]
           /\ MessageLines(d) \o ErrorLines(p) \in Seq(ActorLine)
           /\ todoLines' = [todoLines EXCEPT
                ![p] = MessageLines(d) \o ErrorLines(p)]
<1> DEFINE c == sessions[snap[p].session]
           ms == Project(c)
           skipped == p = Run /\ fate[p] = "failed"
           d == IF skipped THEN <<>> ELSE Delta(ms, snap[p].persisted)
           n == IF skipped THEN snap[p].persisted ELSE Len(ms)
           todo == MessageLines(d)
<1>1. tpc[p] = "collecting" /\ tpc' = [tpc EXCEPT ![p] = "journalling"] /\ snap[p].session # 0
  BY DEF Collects, Goes, ThreadTypes, EntryTypes
<1>2. c \in Seq(ThreadMsg)
  BY <1>1, SessionRead
<1> HIDE DEF c
<1>3. ms \in Seq(Shown)
  BY <1>2, ProjectType
<1>4. snap[p].persisted \in Nat
  <2>1. snap[p] \in Entries(Len(sessions))
    BY DEF ThreadTypes, EntryTypes
  <2> QED
    BY <2>1 DEF Entries
<1>5. snap' = [snap EXCEPT ![p] = [session |-> 0, persisted |-> n]]
  <2>1. snap' = [snap EXCEPT ![p] = [session |-> 0,
                   persisted |-> IF skipped THEN snap[p].persisted ELSE Len(ms)]]
    BY DEF Collects, c
  <2> QED
    BY <2>1
<1>6. todoLines' = [todoLines EXCEPT ![p] = todo \o ErrorLines(p)]
  BY DEF Collects, WillAppend, c, MessageLines
<1> HIDE DEF ms
<1>7. n \in Nat
  BY <1>3, <1>4
<1>8. d \in Seq(Shown)
  <2>1. CASE skipped
    BY <2>1
  <2>2. CASE ~skipped
    <3>1. d = SubSeq(ms, snap[p].persisted + 1, Len(ms))
      BY <2>2 DEF Delta
    <3>2. PICK i \in Nat : i = snap[p].persisted + 1 /\ i >= 1
      BY <1>4
    <3>3. PICK l \in Nat : l = Len(ms)
      BY <1>3
    <3>4. \A k \in i..l : ms[k] \in Shown
      BY <1>3, <3>2, <3>3
    <3>5. SubSeq(ms, i, l) \in Seq(Shown)
      BY <1>3, <3>2, <3>3, <3>4
    <3> QED
      BY <3>1, <3>2, <3>3, <3>5
  <2> QED
    BY <2>1, <2>2
<1> HIDE DEF d, n
<1>9. todo \in Seq(ActorLine)
  <2>1. \A k \in DOMAIN d : MessageLine(d[k]) \in ActorLine
    BY <1>8, LinesAre
  <2> QED
    BY <1>8, <2>1 DEF MessageLines
<1>10. ErrorLines(p) \in Seq(ActorLine)
  BY LinesAre DEF ErrorLines
<1> HIDE DEF todo
<1>11. todo \o ErrorLines(p) \in Seq(ActorLine)
  BY <1>9, <1>10
<1> QED
  BY <1>1, <1>2, <1>5, <1>6, <1>7, <1>8, <1>11 DEF c, ms, d, n, todo

\* Collecting what is to be journalled keeps the types.
LEMMA TypesCollect ==
  ASSUME ThreadTypes, NEW p \in Actors, Collects(p)
  PROVE  ThreadTypes'
<1>1. PICK d \in Seq(Shown), n \in Nat :
           /\ tpc' = [tpc EXCEPT ![p] = "journalling"]
           /\ snap' = [snap EXCEPT ![p] = [session |-> 0, persisted |-> n]]
           /\ MessageLines(d) \o ErrorLines(p) \in Seq(ActorLine)
           /\ todoLines' = [todoLines EXCEPT
                ![p] = MessageLines(d) \o ErrorLines(p)]
  BY CollectsFacts
<1> DEFINE todo == MessageLines(d) \o ErrorLines(p)
<1>2. todo \in Seq(ActorLine) /\ todo \in Seq(ThreadLine)
  BY <1>1, LinesAre
<1> HIDE DEF todo
<1>3. todoLines' = [todoLines EXCEPT ![p] = todo]
  BY <1>1 DEF todo
<1>4. ActorTypes'
  <2>1. fate' = fate /\ talk' = talk
    BY DEF Collects
  <2> QED
    <3>1. /\ todoLines' \in [Writers -> Seq(ThreadLine)]
          /\ \A q \in Actors : todoLines'[q] \in Seq(ActorLine)
          /\ todoLines'[Reporter] \in Seq(ReporterLine)
      BY <1>2, <1>3, TodoWritten, WritersAre DEF WillAppend
    <3>2. tpc' \in [Actors -> Places] /\ \A t \in Turns : tpc'[t] \notin {"creating", "queued"}
      BY <1>1, WritersAre DEF ThreadTypes, ActorTypes, Places
    <3> QED
      BY <2>1, <3>1, <3>2 DEF ThreadTypes, ActorTypes
<1>5. EntryTypes'
  <2>1. PICK m \in Nat : Len(sessions) = m
    BY DEF ThreadTypes, EntryTypes
  <2>2. [session |-> 0, persisted |-> n] \in Entries(m)
    BY DEF Entries
  <2>3. snap' \in [Actors -> Entries(m)]
    BY <1>1, <2>1, <2>2 DEF ThreadTypes, EntryTypes
  <2>4. \A q \in Actors : tpc'[q] \in {"queued", "starting", "saving", "collecting"} =>
                            snap'[q].session # 0
    BY <1>1 DEF ThreadTypes, EntryTypes, ActorTypes
  <2> QED
    BY <2>1, <2>3, <2>4, EntryAlone DEF Collects
<1>6. MiscTypes'
  BY DEF ThreadTypes, MiscTypes, Collects, reportVars, boundVars
<1>7. LostInv'
  BY FilesAlone DEF ThreadTypes, Collects, boundVars
<1> QED
  BY <1>4, <1>5, <1>6, <1>7 DEF ThreadTypes

\* The end of a turn keeps the types.
LEMMA TypesRecord ==
  ASSUME ThreadTypes, NEW p \in Actors, Records(p)
  PROVE  ThreadTypes'
<1>1. /\ Goes(p, "done") /\ Forgets(p) /\ todoLines' = todoLines /\ sessions' = sessions
      /\ untabled' = untabled
  BY DEF Records
<1>2. /\ ActorTypes'
      /\ snap' \in [Actors -> Entries(Len(sessions))]
      /\ \A q \in Actors : tpc'[q] \in {"queued", "starting", "saving", "collecting"} =>
                             snap'[q].session # 0
  <2>1. /\ todoLines' \in [Writers -> Seq(ThreadLine)]
        /\ \A q \in Actors : todoLines'[q] \in Seq(ActorLine)
        /\ todoLines'[Reporter] \in Seq(ReporterLine)
    BY <1>1 DEF ThreadTypes, ActorTypes
  <2> QED
    BY <1>1, <2>1, Forgotten
<1>3. EntryTypes'
  <2>1. PICK m \in Nat : Len(sessions) = m
    BY DEF ThreadTypes, EntryTypes
  <2>2. snap[p] \in Entries(m) /\ entry \in Entries(m)
    BY <2>1 DEF ThreadTypes, EntryTypes
  <2>3. entry' = (IF entry = NoEntry THEN entry
                  ELSE [entry EXCEPT !.persisted = snap[p].persisted])
    BY DEF Records
  <2>4. entry' \in Entries(m) /\ (entry # NoEntry => entry'.session = entry.session)
    BY <2>2, <2>3 DEF Entries
  <2>5. entry' # NoEntry => entry'.session # 0
    BY <2>3, <2>4 DEF ThreadTypes, EntryTypes
  <2> QED
    BY <1>1, <1>2, <2>1, <2>4, <2>5 DEF ThreadTypes, EntryTypes
<1>4. MiscTypes'
  BY DEF ThreadTypes, MiscTypes, Records, boundVars, Marks, Disturbs
<1>5. LostInv'
  <2>1. FilesInv(Files, faults + crashes) /\ MarkAppended /\ faults' = faults /\ crashes' = crashes
    BY DEF ThreadTypes, LostInv, Records, Marks, boundVars
  <2>2. FilesInv(Files', faults + crashes)
    BY <2>1, MarkedFiles
  <2> QED
    BY <2>1, <2>2 DEF ThreadTypes, LostInv
<1> QED
  BY <1>2, <1>3, <1>4, <1>5 DEF ThreadTypes

\* The first line of what a writer has to append, and the rest.
LEMMA TodoParts ==
  ASSUME ThreadTypes, NEW p \in Writers, todoLines[p] # <<>>
  PROVE  /\ todoLines[p] \in Seq(ThreadLine)
         /\ Head(todoLines[p]) \in ThreadLine /\ Tail(todoLines[p]) \in Seq(ThreadLine)
         /\ p \in Actors => /\ Head(todoLines[p]) \in ActorLine
                            /\ Tail(todoLines[p]) \in Seq(ActorLine)
         /\ p = Reporter => /\ Head(todoLines[p]) \in ReporterLine
                            /\ Tail(todoLines[p]) \in Seq(ReporterLine)
<1> DEFINE t == todoLines[p]
<1>1. t \in Seq(ThreadLine) /\ (p \in Actors => t \in Seq(ActorLine))
      /\ (p = Reporter => t \in Seq(ReporterLine))
  BY DEF ThreadTypes, ActorTypes
<1> HIDE DEF t
<1>2. t # <<>>
  BY DEF t
<1>3. ASSUME NEW S, t \in Seq(S) PROVE Head(t) \in S /\ Tail(t) \in Seq(S)
  BY <1>2, <1>3
<1> QED
  BY <1>1, <1>3 DEF t

\* An append keeps the types.
LEMMA TypesAppend ==
  ASSUME ThreadTypes, NEW p \in Writers, Appends(p)
  PROVE  ThreadTypes'
<1>1. /\ todoLines[p] # <<>> /\ Appended(Head(todoLines[p]))
      /\ WillAppend(p, Tail(todoLines[p]))
      /\ UNCHANGED <<entry, untabled, sessions, tpc, snap, talk, fate, reportVars, boundVars>>
      /\ disturbed' = (disturbed \/ Disturbs(Head(todoLines[p]), "ok"))
  BY DEF Appends
<1>2. Head(todoLines[p]) \in ThreadLine
  BY <1>1, TodoParts
<1>3. ActorTypes'
  <2>1. /\ todoLines' \in [Writers -> Seq(ThreadLine)]
        /\ \A q \in Actors : todoLines'[q] \in Seq(ActorLine)
        /\ todoLines'[Reporter] \in Seq(ReporterLine)
    BY <1>1, TodoParts, TodoWritten
  <2> QED
    BY <1>1, <2>1 DEF ThreadTypes, ActorTypes
<1>4. EntryTypes'
  BY <1>1, EntryAlone DEF ThreadTypes, EntryTypes
<1>5. MiscTypes'
  BY <1>1 DEF ThreadTypes, MiscTypes, reportVars, boundVars, Disturbs
<1>6. LostInv'
  <2>1. FilesInv(Files, faults + crashes) /\ faults' = faults /\ crashes' = crashes
    BY <1>1 DEF ThreadTypes, LostInv, boundVars
  <2>2. FilesInv(Files', faults + crashes)
    BY <1>1, <1>2, <2>1, AppendedFiles
  <2> QED
    BY <2>1, <2>2 DEF ThreadTypes, LostInv
<1> QED
  BY <1>3, <1>4, <1>5, <1>6 DEF ThreadTypes

\* An append that fails keeps the types.
LEMMA TypesFail ==
  ASSUME ThreadTypes, NEW p \in Writers, NEW how \in Outcomes, AppendFails(p, how)
  PROVE  ThreadTypes'
<1> DEFINE line == Head(todoLines[p])
           rest == Tail(todoLines[p])
           instruction == p = Run /\ tpc[p] = "creating" /\ IsMessage(line)
<1>1. /\ todoLines[p] # <<>> /\ how # "ok" /\ faults + crashes < MaxMishaps
      /\ faults' = faults + 1 /\ crashes' = crashes
      /\ FilesBecome(Put(Files, line, how))
      /\ p = Run => /\ WillAppend(p, IF IsMessage(line) THEN WithoutMessages(rest) ELSE rest)
                    /\ snap' = IF instruction THEN [snap EXCEPT ![p].persisted = 0] ELSE snap
                    /\ UNCHANGED <<tpc, talk, fate>>
      /\ p # Run => /\ WillAppend(p, <<>>)
                    /\ p = Reporter => UNCHANGED <<tpc, snap, talk, fate>>
                    /\ p # Reporter => Goes(p, "gone") /\ Forgets(p)
      /\ UNCHANGED <<entry, untabled, sessions, reportVars, asides>>
  <2>1. faults \in Nat /\ crashes \in Nat /\ asides \in Nat /\ MaxMishaps \in Nat
    BY ThreadsAssumption DEF ThreadTypes, LostInv, MiscTypes
  <2>2. faults + crashes + asides < MaxMishaps
    BY DEF AppendFails
  <2>3. faults + crashes < MaxMishaps
    BY <2>1, <2>2
  <2> QED
    BY <2>3 DEF AppendFails
<1>2. /\ line \in ThreadLine /\ rest \in Seq(ThreadLine)
      /\ p \in Actors => line \in ActorLine /\ rest \in Seq(ActorLine)
      /\ p = Reporter => line \in ReporterLine /\ rest \in Seq(ReporterLine)
  BY <1>1, TodoParts
<1> HIDE DEF line, rest
<1>3. LostInv'
  <2>1. FilesInv(Files, faults + crashes) /\ faults \in Nat /\ crashes \in Nat
    BY DEF ThreadTypes, LostInv
  <2>2. PICK lost \in Nat : lost = faults + crashes
    BY <2>1
  <2>3. FilesInv(Put(Files, line, how), lost + 1)
    BY <1>1, <1>2, <2>1, <2>2, PutKeepsFiles DEF Lost
  <2>4. Files' = Put(Files, line, how)
    BY <1>1, <2>3, FilesNow DEF FilesInv
  <2>5. faults' \in Nat /\ crashes' \in Nat /\ faults' + crashes' = lost + 1
    BY <1>1, <2>1, <2>2
  <2>6. faults' + crashes' <= MaxMishaps
    <3>1. lost < MaxMishaps
      BY <1>1, <2>2
    <3>2. MaxMishaps \in Nat
      BY ThreadsAssumption
    <3>3. lost + 1 <= MaxMishaps
      BY <2>2, <3>1, <3>2
    <3> QED
      BY <2>5, <3>3
  <2> QED
    BY <2>3, <2>4, <2>5, <2>6 DEF LostInv
<1>4. MiscTypes'
  <2>1. disturbed' \in BOOLEAN
    BY DEF AppendFails, ThreadTypes, MiscTypes, Disturbs
  <2> QED
    BY <1>1, <2>1 DEF ThreadTypes, MiscTypes, reportVars
<1>5. CASE p = Run
  <2> DEFINE todo == IF IsMessage(line) THEN WithoutMessages(rest) ELSE rest
  <2>1. todo \in Seq(ActorLine) /\ todo \in Seq(ThreadLine)
    <3>1. rest \in Seq(ActorLine)
      BY <1>2, <1>5, WritersAre
    <3> QED
      BY <3>1, WithoutMessagesType, LinesAre
  <2>2. WillAppend(p, todo)
    BY <1>1, <1>5
  <2> HIDE DEF todo
  <2>3. /\ todoLines' \in [Writers -> Seq(ThreadLine)]
        /\ \A q \in Actors : todoLines'[q] \in Seq(ActorLine)
        /\ todoLines'[Reporter] \in Seq(ReporterLine)
    BY <1>5, <2>1, <2>2, TodoWritten, WritersAre
  <2>4. ActorTypes'
    BY <1>1, <1>5, <2>3 DEF ThreadTypes, ActorTypes
  <2>5. PICK m \in Nat : Len(sessions) = m
    BY DEF ThreadTypes, EntryTypes
  <2>6. snap \in [Actors -> Entries(m)] /\ p \in Actors
    BY <1>5, <2>5, WritersAre DEF ThreadTypes, EntryTypes
  <2>7. [snap[p] EXCEPT !.persisted = 0] \in Entries(m)
        /\ [snap[p] EXCEPT !.persisted = 0].session = snap[p].session
    BY <2>6 DEF Entries
  <2>8. snap' = snap \/ snap' = [snap EXCEPT ![p] = [snap[p] EXCEPT !.persisted = 0]]
    BY <1>1, <1>5
  <2>9. snap' \in [Actors -> Entries(m)] /\ \A q \in Actors : snap'[q].session = snap[q].session
    BY <2>6, <2>7, <2>8
  <2>10. EntryTypes'
    BY <1>1, <1>5, <2>5, <2>9, EntryAlone DEF ThreadTypes, EntryTypes
  <2> QED
    BY <1>3, <1>4, <2>4, <2>10 DEF ThreadTypes
<1>6. CASE p # Run
  <2>1. <<>> \in Seq(ThreadLine) /\ <<>> \in Seq(ActorLine) /\ <<>> \in Seq(ReporterLine)
    OBVIOUS
  <2>2. /\ todoLines' \in [Writers -> Seq(ThreadLine)]
        /\ \A q \in Actors : todoLines'[q] \in Seq(ActorLine)
        /\ todoLines'[Reporter] \in Seq(ReporterLine)
    BY <1>1, <1>6, <2>1, TodoWritten
  <2>3. CASE p = Reporter
    <3>1. UNCHANGED <<tpc, snap, talk, fate>>
      BY <1>1, <1>6, <2>3
    <3>2. ActorTypes'
      BY <2>2, <3>1 DEF ThreadTypes, ActorTypes
    <3>3. EntryTypes'
      BY <1>1, <3>1, EntryAlone DEF ThreadTypes, EntryTypes
    <3> QED
      BY <1>3, <1>4, <3>2, <3>3 DEF ThreadTypes
  <2>4. CASE p # Reporter
    <3>1. p \in Actors /\ Goes(p, "gone") /\ Forgets(p)
      BY <1>1, <1>6, <2>4, WritersAre
    <3>2. /\ ActorTypes'
          /\ snap' \in [Actors -> Entries(Len(sessions))]
          /\ \A q \in Actors : tpc'[q] \in {"queued", "starting", "saving", "collecting"} =>
                                 snap'[q].session # 0
      BY <2>2, <3>1, Forgotten
    <3>3. EntryTypes'
      BY <1>1, <3>2, EntryAlone
    <3> QED
      BY <1>3, <1>4, <3>2, <3>3 DEF ThreadTypes
  <2> QED
    BY <2>3, <2>4
<1> QED
  BY <1>5, <1>6

\* thread_resurrect keeps the types.
LEMMA TypesResurrect == ThreadTypes /\ Resurrect => ThreadTypes'
<1> SUFFICES ASSUME ThreadTypes, Resurrect PROVE ThreadTypes'
  OBVIOUS
<1> DEFINE revived == Reconstructed(Read(file))
<1>1. revived \in Seq(Shown) /\ revived \in Seq(ThreadMsg)
  <2>1. Files \in FilesSet /\ Files.file = file
    BY DEF ThreadTypes, LostInv, FilesInv, Files
  <2>2. file \in FileSet
    BY <2>1 DEF FilesSet
  <2>3. Read(file) \in FileSet
    BY <2>2, ReadType
  <2>4. revived \in Seq(Shown)
    BY <2>3 DEF FileSet, Reconstructed
  <2> QED
    BY <2>4, ShownAreMessages
<1>2. /\ sessions' = Append(sessions, revived)
      /\ entry' = [session |-> Len(sessions'), persisted |-> Len(Project(revived))]
      /\ MarkAppended
      /\ UNCHANGED <<untabled, actorVars, reportVars, faults, crashes, asides>>
      /\ disturbed' = ((InTurns > 0) \/ Disturbs(Mark, "ok"))
  BY DEF Resurrect
<1> HIDE DEF revived
<1>3. PICK l \in Nat : l = Len(Project(revived))
  <2>1. Project(revived) \in Seq(Shown)
    BY <1>1, ProjectType
  <2> QED
    BY <2>1
<1>4. ActorTypes'
  BY <1>2 DEF ThreadTypes, ActorTypes, actorVars
<1>5. EntryTypes'
  <2>0. sessions \in Seq(Seq(ThreadMsg))
    BY DEF ThreadTypes, EntryTypes
  <2>1. PICK n \in Nat : /\ Len(sessions) = n /\ Append(sessions, revived) \in Seq(Seq(ThreadMsg))
                         /\ Len(Append(sessions, revived)) = n + 1
                         /\ n + 1 \in 1..(n + 1) /\ Entries(n) \subseteq Entries(n + 1)
    BY <1>1, <2>0, SessionsMany
  <2>2. Len(sessions') = n + 1 /\ sessions' \in Seq(Seq(ThreadMsg))
    BY <1>2, <2>1
  <2>3. entry' = [session |-> n + 1, persisted |-> l]
    BY <1>2, <1>3, <2>2
  <2>4. n + 1 \in 0..(n + 1) /\ n + 1 # 0
    OBVIOUS
  <2>5. entry' \in Entries(n + 1) /\ entry'.session # 0
    BY <2>3, <2>4 DEF Entries
  <2>6. snap' \in [Actors -> Entries(n + 1)] /\ untabled' \in 0..(n + 1)
    BY <1>2, <2>1 DEF ThreadTypes, EntryTypes, actorVars
  <2> QED
    BY <1>2, <2>2, <2>5, <2>6 DEF ThreadTypes, EntryTypes, actorVars
<1>6. MiscTypes'
  BY <1>2 DEF ThreadTypes, MiscTypes, reportVars, Disturbs
<1>7. LostInv'
  <2>1. FilesInv(Files, faults + crashes) /\ faults' = faults /\ crashes' = crashes
    BY <1>2 DEF ThreadTypes, LostInv
  <2>2. FilesInv(Files', faults + crashes)
    BY <1>2, <2>1, MarkedFiles
  <2> QED
    BY <2>1, <2>2 DEF ThreadTypes, LostInv
<1> QED
  BY <1>4, <1>5, <1>6, <1>7 DEF ThreadTypes

\* The lines of a report, and of its remediation.
LEMMA ReportLinesType ==
  ASSUME NEW r \in ThreadReport PROVE ReportLines(r) \in Seq(ReporterLine)
<1>1. Line("report", r) \in ReporterLine /\ Line("remedy", r) \in ReporterLine
  BY DEF Line, ReporterLine
<1>2. /\ <<Line("report", r)>> \in Seq(ReporterLine) /\ <<Line("remedy", r)>> \in Seq(ReporterLine)
      /\ <<>> \in Seq(ReporterLine)
  BY <1>1
<1>3. RemedyLines(r) \in Seq(ReporterLine)
  BY <1>2 DEF RemedyLines
<1> QED
  BY <1>2, <1>3 DEF ReportLines

\* What becomes of the report at the head of the channel.
IngestsIt(r) ==
  /\ inbox # <<>> /\ r = Head(inbox) /\ inbox' = Tail(inbox) /\ inbox' \in Seq(ThreadReport)
  /\ todoLines[Reporter] = <<>>
  /\ lastReport' = [lastReport EXCEPT ![r[1]] = [type |-> r[2], placed |-> HasContext(r[1])]]
  /\ activeRuns' = IF r[2] \in Closing THEN activeRuns \ {r[1]} ELSE activeRuns
  /\ WillAppend(Reporter, IF HasContext(r[1]) THEN ReportLines(r) ELSE <<>>)
  /\ UNCHANGED <<fileVars, entry, untabled, sessions, tpc, snap, talk, fate, indexedRuns, boundVars,
                 disturbed>>

\* The report is taken off the channel.
LEMMA IngestsFacts ==
  ASSUME ThreadTypes, Ingests PROVE \E r \in ThreadReport : IngestsIt(r)
<1> DEFINE r == Head(inbox)
<1>1. inbox \in Seq(ThreadReport) /\ inbox # <<>>
  BY DEF Ingests, ThreadTypes, MiscTypes
<1>2. r \in ThreadReport /\ Tail(inbox) \in Seq(ThreadReport)
  BY <1>1
<1>3. IngestsIt(r)
  BY <1>2 DEF Ingests, IngestsIt
<1> QED
  BY <1>2, <1>3

\* ingest_subagent_report keeps the types.
LEMMA TypesIngest == ThreadTypes /\ Ingests => ThreadTypes'
<1> SUFFICES ASSUME ThreadTypes, Ingests PROVE ThreadTypes'
  OBVIOUS
<1>1. PICK r \in ThreadReport : IngestsIt(r)
  BY IngestsFacts
<1>2. r[1] \in Actors /\ r[2] \in ReportTypes
  BY DEF ThreadReport
<1>3. /\ (IF HasContext(r[1]) THEN ReportLines(r) ELSE <<>>) \in Seq(ReporterLine)
      /\ (IF HasContext(r[1]) THEN ReportLines(r) ELSE <<>>) \in Seq(ThreadLine)
  <2>1. ReportLines(r) \in Seq(ReporterLine) /\ <<>> \in Seq(ReporterLine)
    BY ReportLinesType
  <2> QED
    BY <2>1, LinesAre
<1>4. ActorTypes'
  <2>1. /\ todoLines' \in [Writers -> Seq(ThreadLine)]
        /\ \A q \in Actors : todoLines'[q] \in Seq(ActorLine)
        /\ todoLines'[Reporter] \in Seq(ReporterLine)
    BY <1>1, <1>3, TodoWritten, WritersAre DEF IngestsIt
  <2> QED
    BY <1>1, <2>1 DEF ThreadTypes, ActorTypes, IngestsIt
<1>5. EntryTypes'
  BY <1>1, EntryAlone DEF ThreadTypes, EntryTypes, IngestsIt
<1>6. MiscTypes'
  <2>1. (HasContext(r[1]) <=> TRUE) \/ (HasContext(r[1]) <=> FALSE)
    OBVIOUS
  <2>2. [type |-> r[2], placed |-> HasContext(r[1])] \in LastReports
    BY <1>2 DEF LastReports, HasContext
  <2> QED
    BY <1>1, <1>2, <2>2 DEF ThreadTypes, MiscTypes, boundVars, IngestsIt
<1>7. LostInv'
  BY <1>1, FilesAlone DEF ThreadTypes, boundVars, IngestsIt
<1> QED
  BY <1>4, <1>5, <1>6, <1>7 DEF ThreadTypes

\* A crash keeps the types.
LEMMA TypesCrash ==
  ASSUME ThreadTypes, NEW todo \in Seq(ThreadLine), NEW how \in Outcomes, CrashesIn(todo, how)
  PROVE  ThreadTypes'
<1>1. /\ entry' = NoEntry /\ untabled' = 0 /\ activeRuns' = {} /\ indexedRuns' = {}
      /\ asides' = asides
      /\ sessions' = [s \in DOMAIN sessions |-> <<>>]
      /\ tpc' = [p \in Actors |-> IF tpc[p] = "new" THEN "new" ELSE "gone"]
      /\ snap' = [p \in Actors |-> NoEntry] /\ fate' = [p \in Actors |-> "none"]
      /\ talk' = [p \in Actors |-> <<>>] /\ todoLines' = [p \in Writers |-> <<>>]
      /\ inbox' = <<>> /\ lastReport' = [p \in Actors |-> NotReported]
      /\ disturbed' = TRUE /\ faults' = faults /\ crashes' = crashes + 1 /\ how # "ok"
      /\ faults + crashes < MaxMishaps
  <2>1. faults \in Nat /\ crashes \in Nat /\ asides \in Nat /\ MaxMishaps \in Nat
    BY ThreadsAssumption DEF ThreadTypes, LostInv, MiscTypes
  <2>2. faults + crashes + asides < MaxMishaps
    BY DEF CrashesIn
  <2>3. faults + crashes < MaxMishaps
    BY <2>1, <2>2
  <2> QED
    BY <2>3 DEF CrashesIn
<1>2. ActorTypes'
  <2>1. <<>> \in Seq(ActorLine) /\ <<>> \in Seq(ReporterLine) /\ <<>> \in Seq(ThreadLine)
        /\ <<>> \in Seq(ThreadMsg)
    OBVIOUS
  <2>2. tpc' \in [Actors -> Places] /\ \A p \in Actors : tpc'[p] \notin {"creating", "queued"}
    BY <1>1 DEF Places
  <2>3. fate' \in [Actors -> {"none", "completed", "failed"}] /\ talk' \in [Actors -> Seq(ThreadMsg)]
    BY <1>1, <2>1
  <2>4. todoLines' \in [Writers -> Seq(ThreadLine)] /\ \A w \in Writers : todoLines'[w] = <<>>
    BY <1>1, <2>1
  <2> QED
    BY <2>1, <2>2, <2>3, <2>4, WritersAre DEF ActorTypes
<1>3. EntryTypes'
  <2>0. sessions \in Seq(Seq(ThreadMsg))
    BY DEF ThreadTypes, EntryTypes
  <2>1. PICK n \in Nat : Len(sessions) = n /\ DOMAIN sessions = 1..n
    BY <2>0
  <2>2. sessions' \in Seq(Seq(ThreadMsg)) /\ Len(sessions') = n
    <3>1. <<>> \in Seq(ThreadMsg)
      OBVIOUS
    <3>2. sessions' = [s \in 1..n |-> <<>>]
      BY <1>1, <2>1
    <3> QED
      BY <3>1, <3>2
  <2>3. NoEntry \in Entries(n) /\ 0 \in 0..n
    BY DEF NoEntry, Entries
  <2>4. \A p \in Actors : tpc'[p] \in {"new", "gone"}
    BY <1>1
  <2> QED
    BY <1>1, <2>2, <2>3, <2>4 DEF EntryTypes
<1>4. MiscTypes'
  <2>1. NotReported \in LastReports /\ <<>> \in Seq(ThreadReport) /\ asides \in Nat
    BY DEF NotReported, LastReports, ThreadTypes, MiscTypes
  <2> QED
    BY <1>1, <2>1 DEF MiscTypes
<1>5. LostInv'
  <2> DEFINE files == IF todo = <<>> THEN Files ELSE Put(Files, Head(todo), how)
  <2>1. FilesInv(Files, faults + crashes) /\ faults \in Nat /\ crashes \in Nat
    BY DEF ThreadTypes, LostInv
  <2>2. PICK lost \in Nat : lost = faults + crashes
    BY <2>1
  <2>3. FilesInv(files, lost + 1)
    <3>1. CASE todo = <<>>
      BY <2>1, <2>2, <3>1, RestartKeepsFiles
    <3>2. CASE todo # <<>>
      <4>1. Head(todo) \in ThreadLine
        BY <3>2
      <4>2. FilesInv(Put(Files, Head(todo), how), Lost(how, lost))
        BY <2>1, <2>2, <4>1, PutKeepsFiles
      <4> QED
        BY <1>1, <3>2, <4>2 DEF Lost
    <3> QED
      BY <3>1, <3>2
  <2> HIDE DEF files
  <2>4. FilesInv([files EXCEPT !.cache = 0], lost + 1)
    BY <2>3, RestartKeepsFiles
  <2>5. FilesBecome([files EXCEPT !.cache = 0])
    BY DEF CrashesIn, files
  <2>6. Files' = [files EXCEPT !.cache = 0]
    BY <2>4, <2>5, FilesNow DEF FilesInv
  <2>7. faults' \in Nat /\ crashes' \in Nat /\ faults' + crashes' = lost + 1
        /\ faults' + crashes' <= MaxMishaps
    BY <1>1, <2>1, <2>2, ThreadsAssumption
  <2> QED
    BY <2>4, <2>6, <2>7 DEF LostInv
<1> QED
  BY <1>2, <1>3, <1>4, <1>5 DEF ThreadTypes

\* A crash falls in the middle of an append, or of none.
LEMMA CrashOf ==
  ASSUME ThreadTypes, Crash
  PROVE  \E todo \in Seq(ThreadLine), how \in Outcomes : CrashesIn(todo, how)
<1>1. PICK how \in Outcomes :
        CrashesIn(<<>>, how) \/ \E p \in Writers : CrashesIn(todoLines[p], how)
  BY DEF Crash
<1>2. <<>> \in Seq(ThreadLine) /\ \A p \in Writers : todoLines[p] \in Seq(ThreadLine)
  BY DEF ThreadTypes, ActorTypes
<1> QED
  BY <1>1, <1>2

\* Every step keeps the types and the numbers growing.
LEMMA ThreadTypesStep == ThreadTypes /\ [ThreadsNext]_threadVars => ThreadTypes'
<1> SUFFICES ASSUME ThreadTypes, [ThreadsNext]_threadVars PROVE ThreadTypes'
  OBVIOUS
<1>1. CASE UNCHANGED threadVars
  <2>1. LostInv'
    BY <1>1, FilesAlone DEF ThreadTypes, threadVars, boundVars
  <2>2. UNCHANGED <<entry, untabled, sessions, tpc, snap, talk, fate, todoLines, inbox, lastReport,
                    activeRuns, indexedRuns, asides, disturbed>>
    BY <1>1 DEF threadVars, actorVars, reportVars, boundVars
  <2>3. ActorTypes'
    BY <2>2 DEF ThreadTypes, ActorTypes
  <2>4. EntryTypes'
    BY <2>2 DEF ThreadTypes, EntryTypes
  <2>5. MiscTypes'
    BY <2>2 DEF ThreadTypes, MiscTypes
  <2> QED
    BY <2>1, <2>3, <2>4, <2>5 DEF ThreadTypes
<1>2. CASE CreateThread \/ InsertThread \/ RunBegins
  BY <1>2, TypesCreate, TypesInsert, TypesBegin
<1>10. CASE Enqueues \/ IsRefused \/ RunIsDropped
  BY <1>10, TypesEnqueue, TypesDrop
<1>3. ASSUME NEW t \in Turns, TurnReads(t) PROVE ThreadTypes'
  BY <1>3, TypesRead
<1>4. ASSUME NEW p \in Actors, Saves(p) \/ Collects(p) \/ Records(p) PROVE ThreadTypes'
  BY <1>4, TypesSave, TypesCollect, TypesRecord
<1>5. ASSUME NEW p \in Actors, NEW before \in BoundedSeq(Asides, MaxMishaps), NEW end \in Endings,
             Talks(p, before, end)
      PROVE  ThreadTypes'
  BY <1>5, TypesTalk, AsidesAre
<1>6. ASSUME NEW p \in Writers, Appends(p) PROVE ThreadTypes'
  BY <1>6, TypesAppend
<1>7. ASSUME NEW p \in Writers, NEW how \in Outcomes, AppendFails(p, how) PROVE ThreadTypes'
  BY <1>7, TypesFail
<1>8. CASE Resurrect \/ Ingests
  BY <1>8, TypesResurrect, TypesIngest
<1>9. CASE Crash
  BY <1>9, CrashOf, TypesCrash
<1> QED
  BY <1>1, <1>2, <1>3, <1>4, <1>5, <1>6, <1>7, <1>8, <1>9, <1>10 DEF ThreadsNext

\* Sequence numbers that can be read grow along the file.
THEOREM SequencesGrow == ThreadsSpec => []SeqsGrow
<1>1. ThreadTypes => SeqsGrow
  BY FilesShowGrowth DEF ThreadTypes, LostInv
<1> QED
  BY <1>1, TypesInit, ThreadTypesStep, PTL DEF ThreadsSpec

\* The variables of the threads keep their types.
THEOREM ThreadsTypeCorrect == ThreadsSpec => []ThreadsTypeOK
<1>1. ThreadTypes => ThreadsTypeOK
  <2> SUFFICES ASSUME ThreadTypes PROVE ThreadsTypeOK
    OBVIOUS
  <2>1. /\ Files \in FilesSet /\ Files.file = file /\ Files.cache = seqCache
        /\ Files.indexed = indexed /\ faults \in Nat /\ crashes \in Nat
        /\ faults + crashes <= MaxMishaps /\ SeqInv(file, seqCache, faults + crashes)
    BY DEF ThreadTypes, LostInv, FilesInv, Files
  <2>2. file \in FileSet /\ seqCache \in Nat /\ indexed \in BOOLEAN
    BY <2>1 DEF FilesSet
  <2>3. PICK n \in Nat : Len(file.seqs) = n
    BY <2>2, FileLength
  <2>4. PICK lost \in Nat : lost = faults + crashes /\ lost <= MaxMishaps
    BY <2>1
  <2>5. seqCache <= n + (lost + lost)
    <3>1. CASE file.tail = NoTail
      <4>1. Ahead(file, lost) = n + (lost + lost)
        BY <2>2, <2>3, <3>1, AheadFacts
      <4> QED
        BY <2>1, <2>4, <4>1 DEF SeqInv
    <3>2. CASE file.tail # NoTail
      <4>1. Ahead(file, lost) = n + (lost + lost) - 1
        BY <2>2, <2>3, <3>2, AheadFacts
      <4>2. seqCache <= n + (lost + lost) - 1
        BY <2>1, <2>4, <4>1 DEF SeqInv
      <4> QED
        BY <2>2, <4>2
    <3> QED
      BY <3>1, <3>2
  <2>6. MaxMishaps \in Nat
    BY ThreadsAssumption
  <2>7. seqCache \in 0..(n + 2 * MaxMishaps)
    <3>1. 2 * MaxMishaps = MaxMishaps + MaxMishaps
      BY <2>6
    <3> QED
      BY <2>2, <2>4, <2>5, <2>6, <3>1
  <2>8. entry.session \in 0..Len(sessions) /\ entry.persisted \in Nat
    BY DEF ThreadTypes, EntryTypes, Entries
  <2>9. untabled \in 0..Len(sessions) /\ activeRuns \cup indexedRuns \subseteq Actors
        /\ lastReport \in [Actors -> [type : ReportTypes \cup {"none"}, placed : BOOLEAN]]
    BY DEF ThreadTypes, EntryTypes, MiscTypes, LastReports
  <2> QED
    BY <2>2, <2>3, <2>7, <2>8, <2>9 DEF ThreadTypes, ActorTypes, MiscTypes, ThreadsTypeOK
<1> QED
  BY <1>1, TypesInit, ThreadTypesStep, PTL DEF ThreadsSpec

-----------------------------------------------------------------------------
(* What a step without mishap adds to the file.                             *)

\* Without a mishap the file ends in a newline.
LEMMA NoMishapNoTail ==
  ASSUME ThreadTypes, faults + crashes = 0 PROVE file.tail = NoTail
<1>1. FilesInv(Files, 0) /\ Files.file = file
  BY DEF ThreadTypes, LostInv, Files
<1>2. SeqInv(file, Files.cache, 0)
  BY <1>1 DEF FilesInv
<1>3. ~(0 >= 1)
  OBVIOUS
<1> QED
  BY <1>2, <1>3 DEF SeqInv

\* A line that succeeds after another is what the file shows next.
LEMMA ShownNext ==
  ASSUME NEW files, NEW lost, FilesInv(files, lost), files.file.tail = NoTail,
         NEW line \in ThreadLine
  PROVE  /\ FilesInv(Put(files, line, "ok"), lost)
         /\ Put(files, line, "ok").file.tail = NoTail
         /\ Put(files, line, "ok").file.messages =
              (IF line.type = "message" THEN Append(files.file.messages, line.data)
               ELSE files.file.messages)
         /\ Put(files, line, "ok").file.reports =
              (IF line.type = "report" THEN Append(files.file.reports, line.data)
               ELSE files.file.reports)
         /\ Put(files, line, "ok").file.remedies =
              (IF line.type = "remedy" THEN Append(files.file.remedies, line.data)
               ELSE files.file.remedies)
<1>1. "ok" \in Outcomes /\ Lost("ok", lost) = lost
  BY DEF Outcomes, Lost
<1>2. FilesInv(Put(files, line, "ok"), lost)
  BY <1>1, PutKeepsFiles
<1>3. files \in FilesSet /\ files.file \in FileSet
  BY DEF FilesInv, FilesSet
<1>4. CASE line = IndexLine
  <2>1. Put(files, line, "ok").file = files.file
    BY <1>1, <1>3, <1>4, PutIndexFacts
  <2>2. line.type \notin {"message", "report", "remedy"}
    BY <1>4, TailTypes
  <2> QED
    BY <1>2, <2>1, <2>2
<1>5. CASE line # IndexLine
  <2>1. PICK seq \in Nat :
           Put(files, line, "ok").file = Written(files.file, line, seq, "ok")
    BY <1>1, <1>5, PutFacts
  <2>2. Written(files.file, line, seq, "ok") = Shows(files.file, line, seq)
    BY <1>1, <1>3, WrittenFacts
  <2>3. Put(files, line, "ok").file = Shows(files.file, line, seq)
    BY <2>1, <2>2
  <2> QED
    BY <1>2, <1>3, <2>3, ShowsFacts
<1> QED
  BY <1>4, <1>5

\* An append adds its line to the list of its kind, while nothing went wrong.
LEMMA AppendedLines ==
  ASSUME ThreadTypes, file.tail = NoTail, NEW line \in ThreadLine, Appended(line)
  PROVE  /\ file'.tail = NoTail
         /\ file'.messages =
              (IF line.type = "message" THEN Append(file.messages, line.data) ELSE file.messages)
         /\ file'.reports =
              (IF line.type = "report" THEN Append(file.reports, line.data) ELSE file.reports)
         /\ file'.remedies =
              (IF line.type = "remedy" THEN Append(file.remedies, line.data) ELSE file.remedies)
<1>1. FilesInv(Files, faults + crashes) /\ Files.file = file
  BY DEF ThreadTypes, LostInv, Files
<1>2. file' = Put(Files, line, "ok").file
  BY DEF Appended, FilesBecome
<1> QED
  BY <1>1, <1>2, ShownNext

\* A change of state that is journalled adds no message, report or remediation.
LEMMA MarkedLines ==
  ASSUME ThreadTypes, file.tail = NoTail, MarkAppended
  PROVE  /\ file'.tail = NoTail /\ file'.messages = file.messages
         /\ file'.reports = file.reports /\ file'.remedies = file.remedies
<1> DEFINE a == Put(Files, IndexLine, "ok")
           b == Put(a, Mark, "ok")
<1>1. FilesInv(Files, faults + crashes) /\ Files.file = file
  BY DEF ThreadTypes, LostInv, Files
<1>2. IndexLine \in ThreadLine /\ Mark \in ThreadLine
      /\ IndexLine.type \notin {"message", "report", "remedy"}
      /\ Mark.type \notin {"message", "report", "remedy"}
  BY LinesAre, TailTypes
<1>3. file' = b.file
  BY DEF MarkAppended, FilesBecome
<1> HIDE DEF b
<1>4. /\ FilesInv(a, faults + crashes) /\ a.file.tail = NoTail
      /\ a.file.messages = file.messages
      /\ a.file.reports = file.reports /\ a.file.remedies = file.remedies
  BY <1>1, <1>2, ShownNext
<1> HIDE DEF a
<1>5. /\ b.file.tail = NoTail /\ b.file.messages = a.file.messages
      /\ b.file.reports = a.file.reports /\ b.file.remedies = a.file.remedies
  BY <1>2, <1>4, ShownNext DEF b
<1> QED
  BY <1>3, <1>4, <1>5

\* A list of two, or of one.
LEMMA PairsAre ==
  ASSUME NEW a, NEW b
  PROVE  /\ <<a>> \o <<b>> = <<a, b>> /\ Head(<<a, b>>) = a /\ Tail(<<a, b>>) = <<b>>
         /\ Head(<<a>>) = a /\ Tail(<<a>>) = <<>>
<1>1. <<a>> \o <<b>> = <<a, b>>
  <2> DEFINE s == <<a>>
             t == <<b>>
             u == s \o t
  <2>1. s \in Seq({a, b}) /\ t \in Seq({a, b})
    OBVIOUS
  <2>2. Len(s) = 1 /\ Len(t) = 1 /\ s[1] = a /\ t[1] = b
    OBVIOUS
  <2> HIDE DEF s, t
  <2>3. /\ u \in Seq({a, b}) /\ Len(u) = Len(s) + Len(t)
        /\ \A k \in 1..Len(s) : u[k] = s[k]
        /\ \A k \in 1..Len(t) : u[Len(s) + k] = t[k]
    BY <2>1
  <2> HIDE DEF u
  <2>4. Len(u) = 2 /\ 1 \in 1..Len(s) /\ 1 \in 1..Len(t) /\ Len(s) + 1 = 2
    BY <2>2, <2>3
  <2>5. u[1] = a /\ u[2] = b
    BY <2>2, <2>3, <2>4
  <2>6. u \in Seq({a, b}) /\ Len(u) = 2
    BY <2>3, <2>4
  <2>7. u = <<a, b>>
    BY <2>5, <2>6
  <2> QED
    BY <2>7 DEF u, s, t
<1>2. Head(<<a, b>>) = a /\ Head(<<a>>) = a
  OBVIOUS
<1>3. Tail(<<a, b>>) = <<b>>
  OBVIOUS
<1>4. Tail(<<a>>) = <<>>
  OBVIOUS
<1> QED
  BY <1>1, <1>2, <1>3, <1>4

\* What an actor has to append says nothing of the report worker's.
LEMMA OthersTodo ==
  ASSUME ThreadTypes, NEW p \in Actors, NEW todo, WillAppend(p, todo)
  PROVE  todoLines'[Reporter] = todoLines[Reporter]
<1>1. todoLines \in [Writers -> Seq(ThreadLine)] /\ p # Reporter /\ Reporter \in Writers
  BY ThreadsAssumption DEF ThreadTypes, ActorTypes, Writers, Actors
<1> QED
  BY <1>1 DEF WillAppend

\* Marks say nothing of reports.
LEMMA MarksSayNothing ==
  ASSUME ThreadTypes, MarkAppended
  PROVE  faults + crashes = 0 => file'.reports = file.reports /\ file'.remedies = file.remedies
BY NoMishapNoTail, MarkedLines

\* What ThreadTypes says that the steps need.
LEMMA KnownTypes ==
  ASSUME ThreadTypes
  PROVE  /\ tpc \in [Actors -> Places] /\ talk \in [Actors -> Seq(ThreadMsg)]
         /\ todoLines \in [Writers -> Seq(ThreadLine)]
         /\ \A p \in Actors : todoLines[p] \in Seq(ActorLine)
         /\ \A t \in Turns : tpc[t] \notin {"creating", "queued"}
         /\ file \in FileSet /\ file.messages \in Seq(Shown)
         /\ \A p \in Actors : snap[p] \in Entries(Len(sessions)) /\ snap[p].persisted \in Nat
         /\ snap \in [Actors -> Entries(Len(sessions))]
         /\ sessions \in Seq(Seq(ThreadMsg)) /\ entry \in Entries(Len(sessions))
         /\ (entry # NoEntry => entry.session # 0)
<1>1. Files \in FilesSet /\ Files.file = file
  BY DEF ThreadTypes, LostInv, FilesInv, Files
<1>2. file \in FileSet
  BY <1>1 DEF FilesSet
<1>3. file.messages \in Seq(Shown)
  BY <1>2 DEF FileSet
<1>4. /\ tpc \in [Actors -> Places] /\ talk \in [Actors -> Seq(ThreadMsg)]
      /\ todoLines \in [Writers -> Seq(ThreadLine)]
      /\ \A p \in Actors : todoLines[p] \in Seq(ActorLine)
      /\ \A t \in Turns : tpc[t] \notin {"creating", "queued"}
  BY DEF ThreadTypes, ActorTypes
<1>5. /\ snap \in [Actors -> Entries(Len(sessions))]
      /\ sessions \in Seq(Seq(ThreadMsg)) /\ entry \in Entries(Len(sessions))
      /\ (entry # NoEntry => entry.session # 0)
  BY DEF ThreadTypes, EntryTypes
<1>6. \A p \in Actors : snap[p] \in Entries(Len(sessions)) /\ snap[p].persisted \in Nat
  BY <1>5 DEF Entries
<1> QED
  BY <1>2, <1>3, <1>4, <1>5, <1>6

-----------------------------------------------------------------------------
(* Reports.                                                                 *)

\* The journal says this of p last.
JournalSays(p, type) ==
  \E k \in DOMAIN file.reports :
    /\ file.reports[k] = ReportOf(p, type)
    /\ \A j \in DOMAIN file.reports : file.reports[j][1] = p => j <= k

\* What the report worker is at.
Telling(r) == todoLines[Reporter] = ReportLines(r)
Remedying(r) == todoLines[Reporter] = <<Line("remedy", r)>>

\* The journal says what memory says, but of those being told.
Says(told) ==
  \A p \in Actors : p \notin told /\ lastReport[p].placed => JournalSays(p, lastReport[p].type)

\* The remediations of the journal are those of its reports.
Helped(remedies) == remedies = CallsForHelp(file.reports)

\* Memory says what the report worker is telling.
BeingTold(r) ==
  Telling(r) /\ lastReport[r[1]].type = r[2] /\ lastReport[r[1]].placed

WorkerInv ==
  \/ todoLines[Reporter] = <<>> /\ Says({}) /\ Helped(file.remedies)
  \/ \E r \in ThreadReport : BeingTold(r) /\ Says({r[1]}) /\ Helped(file.remedies)
  \/ \E r \in ThreadReport : Remedying(r) /\ Says({}) /\ Helped(Append(file.remedies, r))

\* A report that found no thread is of a turn that was stuck before it failed.
Unplaced(t) == lastReport[t].type # "none" /\ ~lastReport[t].placed
UnplacedInv ==
  \A t \in Turns : Unplaced(t) => lastReport[t].type = "failed" /\ JournalSays(t, "stuck")

\* A turn may report b after a.
Precedes(a, b) == a \in Asides \/ (a = "stuck" /\ b = "failed")

\* All that was reported of t may come before this.
MayFollow(t, type) ==
  /\ lastReport[t].type # "none" => Precedes(lastReport[t].type, type)
  /\ \A k \in DOMAIN inbox : inbox[k][1] = t => Precedes(inbox[k][2], type)

\* What is in the channel came in an order a turn may report in.
Ordered(t) ==
  \A k \in DOMAIN inbox : inbox[k][1] = t =>
    /\ lastReport[t].type # "none" => Precedes(lastReport[t].type, inbox[k][2])
    /\ \A j \in DOMAIN inbox : j < k /\ inbox[j][1] = t => Precedes(inbox[j][2], inbox[k][2])

\* Before its turn t has reported nothing.
Unheard(t) == tpc[t] \in {"new", "starting", "gone"}
Nothing(t) == lastReport[t].type = "none" /\ \A k \in DOMAIN inbox : inbox[k][1] # t

\* The turn of t is to report that it failed.
Failing(t) == tpc[t] = "saving" /\ fate[t] = "failed"

\* The thread of a turn is known until the turn is closed by a report.
Begun(t) == tpc[t] \notin {"new", "gone"}
Known(t) == HasContext(t) \/ lastReport[t].type \in Closing

Channel(t) ==
  /\ Ordered(t)
  /\ Unheard(t) => Nothing(t)
  /\ Failing(t) => MayFollow(t, "failed")
  /\ Begun(t) => Known(t)
ChannelInv == \A t \in Turns : Channel(t)

ReportInv == faults + crashes = 0 => WorkerInv /\ UnplacedInv /\ ChannelInv

\* A step that leaves the reports and the report worker alone leaves what they say.
LEMMA ReportsStay ==
  ASSUME UNCHANGED <<lastReport>>, todoLines'[Reporter] = todoLines[Reporter],
         file'.reports = file.reports, file'.remedies = file.remedies, WorkerInv, UnplacedInv
  PROVE  WorkerInv' /\ UnplacedInv'
<1>1. \A p, type : JournalSays(p, type)' <=> JournalSays(p, type)
  BY DEF JournalSays
<1>2. \A S : Says(S)' <=> Says(S)
  BY <1>1 DEF Says
<1>3. \A s : Helped(s)' <=> Helped(s)
  BY DEF Helped
<1>4. \A r : (BeingTold(r)' <=> BeingTold(r)) /\ (Remedying(r)' <=> Remedying(r))
  BY DEF BeingTold, Telling, Remedying
<1>5. WorkerInv'
  BY <1>2, <1>3, <1>4 DEF WorkerInv
<1>6. UnplacedInv'
  BY <1>1 DEF UnplacedInv, Unplaced
<1> QED
  BY <1>5, <1>6

\* Turns that report nothing leave the channel as it is known.
LEMMA ChannelStays ==
  ASSUME ChannelInv, UNCHANGED <<inbox, lastReport>>,
         \A t \in Turns : /\ Unheard(t)' => Unheard(t)
                          /\ Failing(t)' => Failing(t)
                          /\ Begun(t)' => HasContext(t)' \/ (Begun(t) /\ ~HasContext(t))
  PROVE  ChannelInv'
<1> SUFFICES ASSUME NEW t \in Turns PROVE Channel(t)'
  BY DEF ChannelInv
<1>1. Channel(t)
  BY DEF ChannelInv
<1>2. /\ Ordered(t)' <=> Ordered(t)
      /\ Nothing(t)' <=> Nothing(t)
      /\ MayFollow(t, "failed")' <=> MayFollow(t, "failed")
  BY DEF Ordered, Nothing, MayFollow
<1>3. Begun(t)' => Known(t)'
  BY <1>1 DEF Channel, Known
<1> QED
  BY <1>1, <1>2, <1>3 DEF Channel

\* One actor moves and reports nothing.
LEMMA ReportsAlone ==
  ASSUME ThreadTypes, ReportInv, UNCHANGED <<inbox, lastReport, faults, crashes>>,
         todoLines'[Reporter] = todoLines[Reporter],
         faults + crashes = 0 => file'.reports = file.reports /\ file'.remedies = file.remedies,
         \A t \in Turns : /\ Unheard(t)' => Unheard(t)
                          /\ Failing(t)' => Failing(t)
                          /\ Begun(t)' => HasContext(t)' \/ (Begun(t) /\ ~HasContext(t))
  PROVE  ReportInv'
<1> SUFFICES ASSUME faults + crashes = 0 PROVE WorkerInv' /\ UnplacedInv' /\ ChannelInv'
  BY DEF ReportInv
<1>1. WorkerInv /\ UnplacedInv /\ ChannelInv
  BY DEF ReportInv
<1> QED
  BY <1>1, ReportsStay, ChannelStays

\* The run moves: nothing of the turns does.
LEMMA RunMoves ==
  ASSUME ThreadTypes, ReportInv, UNCHANGED <<inbox, lastReport, faults, crashes>>,
         \E x : Goes(Run, x), \A t \in Turns : fate'[t] = fate[t],
         todoLines'[Reporter] = todoLines[Reporter],
         faults + crashes = 0 => file'.reports = file.reports /\ file'.remedies = file.remedies,
         \A t \in Turns : HasContext(t) => HasContext(t)'
  PROVE  ReportInv'
<1>1. \A t \in Turns : tpc'[t] = tpc[t]
  <2>1. tpc \in [Actors -> Places]
    BY KnownTypes
  <2> QED
    BY <2>1, WritersAre DEF Goes
<1>2. \A t \in Turns : /\ Unheard(t)' => Unheard(t)
                       /\ Failing(t)' => Failing(t)
                       /\ Begun(t)' => Begun(t)
  BY <1>1 DEF Unheard, Failing, Begun
<1> QED
  BY <1>2, ReportsAlone

\* delegate_to_agent and the worker report nothing of the turns.
LEMMA ReportDelegates ==
  ASSUME ThreadTypes, ReportInv, CreateThread \/ Enqueues \/ RunBegins PROVE ReportInv'
<1>1. /\ \E x : Goes(Run, x)
      /\ UNCHANGED <<inbox, lastReport, activeRuns, indexedRuns, faults, crashes, fate>>
      /\ todoLines'[Reporter] = todoLines[Reporter]
      /\ MarkAppended \/ UNCHANGED file
  <2>1. CASE CreateThread
    BY <2>1, OthersTodo, WritersAre DEF CreateThread, fileVars, reportVars, boundVars
  <2>2. CASE Enqueues
    BY <2>2 DEF Enqueues, fileVars, reportVars, boundVars
  <2>3. CASE RunBegins
    BY <2>3 DEF RunBegins, Marks, reportVars, boundVars
  <2> QED
    BY <2>1, <2>2, <2>3
<1>2. \A t \in Turns : HasContext(t) => HasContext(t)'
  BY <1>1 DEF HasContext
<1>3. faults + crashes = 0 => file'.reports = file.reports /\ file'.remedies = file.remedies
  BY <1>1, MarksSayNothing
<1> QED
  BY <1>1, <1>2, <1>3, RunMoves

\* A run refused or dropped has nothing more to report.
LEMMA ReportDrops ==
  ASSUME ThreadTypes, ReportInv, IsRefused \/ RunIsDropped PROVE ReportInv'
<1>1. /\ Goes(Run, "gone") /\ Forgets(Run)
      /\ UNCHANGED <<inbox, lastReport, activeRuns, indexedRuns, faults, crashes, todoLines, file>>
  BY DEF IsRefused, RunIsDropped, fileVars, reportVars, boundVars
<1>2. \A t \in Turns : fate'[t] = fate[t]
  BY <1>1, WritersAre DEF Forgets, ThreadTypes, ActorTypes
<1>3. \A t \in Turns : HasContext(t) => HasContext(t)'
  BY <1>1 DEF HasContext
<1> QED
  BY <1>1, <1>2, <1>3, RunMoves

\* The tables of delegate_to_agent only make the run known.
LEMMA ReportInserts ==
  ASSUME ThreadTypes, ReportInv, InsertThread PROVE ReportInv'
<1>1. /\ UNCHANGED <<inbox, lastReport, faults, crashes, fate, tpc, todoLines, file>>
      /\ activeRuns' = activeRuns \cup {Run} /\ indexedRuns' = indexedRuns \cup {Run}
  BY DEF InsertThread, fileVars, actorVars, boundVars
<1>2. \A t \in Turns : /\ Unheard(t)' => Unheard(t)
                       /\ Failing(t)' => Failing(t)
                       /\ Begun(t)' => Begun(t)
                       /\ HasContext(t) => HasContext(t)'
  BY <1>1 DEF Unheard, Failing, Begun, HasContext
<1> QED
  BY <1>1, <1>2, ReportsAlone

\* subagent_turn makes its run known before it begins.
LEMMA ReportReads ==
  ASSUME ThreadTypes, ReportInv, NEW t \in Turns, TurnReads(t) PROVE ReportInv'
<1>1. /\ tpc[t] = "new" /\ t \in Actors
      /\ \/ Goes(t, "gone") /\ activeRuns' = activeRuns
         \/ Goes(t, "starting") /\ activeRuns' = activeRuns \cup {t}
      /\ UNCHANGED <<file, inbox, lastReport, indexedRuns, faults, crashes, fate, todoLines>>
  BY WritersAre DEF TurnReads, fileVars, boundVars
<1>2. ASSUME NEW q \in Turns
      PROVE  /\ Unheard(q)' => Unheard(q)
             /\ Failing(q)' => Failing(q)
             /\ Begun(q)' => HasContext(q)' \/ (Begun(q) /\ ~HasContext(q))
  <2>1. q # t => tpc'[q] = tpc[q]
    BY <1>1, KnownTypes, WritersAre DEF Goes
  <2>2. tpc'[t] \in {"gone", "starting"} /\ (tpc'[t] = "starting" => t \in activeRuns')
    BY <1>1, KnownTypes, WritersAre DEF Goes
  <2>3. HasContext(q) => HasContext(q)'
    BY <1>1 DEF HasContext
  <2>4. CASE q = t
    BY <1>1, <2>2, <2>4 DEF Unheard, Failing, Begun, HasContext
  <2>5. CASE q # t
    BY <1>1, <2>1, <2>3, <2>5 DEF Unheard, Failing, Begun
  <2> QED
    BY <2>4, <2>5
<1> QED
  BY <1>1, <1>2, ReportsAlone

\* Collecting the messages of a turn reports nothing.
LEMMA ReportCollects ==
  ASSUME ThreadTypes, ReportInv, NEW p \in Actors, Collects(p) PROVE ReportInv'
<1>1. /\ tpc[p] = "collecting" /\ Goes(p, "journalling")
      /\ \E todo : WillAppend(p, todo)
      /\ UNCHANGED <<file, fate, inbox, lastReport, activeRuns, indexedRuns, faults, crashes>>
  BY DEF Collects, fileVars, reportVars, boundVars
<1>2. todoLines'[Reporter] = todoLines[Reporter]
  BY <1>1, OthersTodo
<1>3. tpc'[p] = "journalling" /\ \A q \in Actors : q # p => tpc'[q] = tpc[q]
  BY <1>1, KnownTypes DEF Goes
<1>4. \A t \in Turns : /\ Unheard(t)' => Unheard(t)
                       /\ Failing(t)' => Failing(t)
                       /\ Begun(t)' => Begun(t)
                       /\ HasContext(t) => HasContext(t)'
  BY <1>1, <1>3, WritersAre DEF Unheard, Failing, Begun, HasContext
<1> QED
  BY <1>1, <1>2, <1>4, ReportsAlone

\* The end of a turn reports nothing.
LEMMA ReportRecords ==
  ASSUME ThreadTypes, ReportInv, NEW p \in Actors, Records(p) PROVE ReportInv'
<1>1. /\ tpc[p] = "journalling" /\ Goes(p, "done") /\ MarkAppended
      /\ indexedRuns' = indexedRuns \cup {p}
      /\ activeRuns' = (IF p = Run THEN activeRuns \ {p} ELSE activeRuns)
      /\ UNCHANGED <<inbox, lastReport, faults, crashes, todoLines>>
  BY DEF Records, Marks, boundVars
<1>2. tpc'[p] = "done" /\ \A q \in Actors : q # p => tpc'[q] = tpc[q]
  BY <1>1, KnownTypes DEF Goes
<1>3. \A q \in Actors : q # p => fate'[q] = fate[q]
  BY DEF Records, Forgets, ThreadTypes, ActorTypes
<1>4. \A t \in Turns : HasContext(t) => HasContext(t)'
  BY <1>1, WritersAre DEF HasContext
<1>5. \A t \in Turns : /\ Unheard(t)' => Unheard(t)
                       /\ Failing(t)' => Failing(t)
                       /\ Begun(t)' => Begun(t)
  BY <1>1, <1>2, <1>3, WritersAre DEF Unheard, Failing, Begun
<1>6. faults + crashes = 0 => file'.reports = file.reports /\ file'.remedies = file.remedies
  BY <1>1, MarksSayNothing
<1> QED
  BY <1>1, <1>4, <1>5, <1>6, ReportsAlone

\* The lines an actor appends are no reports.
LEMMA ReportAppends ==
  ASSUME ThreadTypes, ReportInv, NEW p \in Actors, Appends(p) PROVE ReportInv'
<1> DEFINE line == Head(todoLines[p])
<1>1. /\ todoLines[p] # <<>> /\ Appended(line) /\ WillAppend(p, Tail(todoLines[p]))
      /\ UNCHANGED <<tpc, fate, inbox, lastReport, activeRuns, indexedRuns, faults, crashes>>
  BY DEF Appends, reportVars, boundVars
<1>2. line \in ThreadLine /\ line \in ActorLine
  BY <1>1, TodoParts, WritersAre
<1> HIDE DEF line
<1>3. line.type \notin {"report", "remedy"}
  BY <1>2, TailTypes DEF ActorLine
<1>4. faults + crashes = 0 => file'.reports = file.reports /\ file'.remedies = file.remedies
  BY <1>1, <1>2, <1>3, NoMishapNoTail, AppendedLines
<1>5. todoLines'[Reporter] = todoLines[Reporter]
  BY <1>1, OthersTodo
<1>6. \A t \in Turns : /\ Unheard(t)' => Unheard(t)
                       /\ Failing(t)' => Failing(t)
                       /\ Begun(t)' => Begun(t)
                       /\ HasContext(t) => HasContext(t)'
  BY <1>1 DEF Unheard, Failing, Begun, HasContext
<1> QED
  BY <1>1, <1>4, <1>5, <1>6, ReportsAlone

\* thread_resurrect reports nothing.
LEMMA ReportRevives ==
  ASSUME ThreadTypes, ReportInv, Resurrect PROVE ReportInv'
<1>1. /\ MarkAppended
      /\ UNCHANGED <<tpc, fate, inbox, lastReport, activeRuns, indexedRuns, faults, crashes,
                     todoLines>>
  BY DEF Resurrect, actorVars, reportVars
<1>2. \A t \in Turns : /\ Unheard(t)' => Unheard(t)
                       /\ Failing(t)' => Failing(t)
                       /\ Begun(t)' => Begun(t)
                       /\ HasContext(t) => HasContext(t)'
  BY <1>1 DEF Unheard, Failing, Begun, HasContext
<1> QED
  BY <1>1, <1>2, MarksSayNothing, ReportsAlone

\* A report sent last may follow all that was reported before it.
LEMMA OrderedNext ==
  ASSUME NEW t, NEW type, NEW p, inbox \in Seq(ThreadReport), Ordered(t),
         inbox' = Append(inbox, ReportOf(p, type)), UNCHANGED lastReport,
         p = t => MayFollow(t, type)
  PROVE  Ordered(t)'
<1>1. PICK n \in Nat : n = Len(inbox) /\ DOMAIN inbox = 1..n
  OBVIOUS
<1>2. /\ Len(inbox') = n + 1 /\ DOMAIN inbox' = 1..(n + 1)
      /\ inbox'[n + 1] = ReportOf(p, type) /\ \A k \in 1..n : inbox'[k] = inbox[k]
  BY <1>1
<1>3. ReportOf(p, type)[1] = p /\ ReportOf(p, type)[2] = type
  BY DEF ReportOf
<1>4. ASSUME NEW k \in 1..(n + 1), inbox'[k][1] = t
      PROVE  /\ lastReport[t].type # "none" => Precedes(lastReport[t].type, inbox'[k][2])
             /\ \A j \in 1..(n + 1) : j < k /\ inbox'[j][1] = t =>
                  Precedes(inbox'[j][2], inbox'[k][2])
  <2>1. CASE k \in 1..n
    <3>1. \A j \in 1..(n + 1) : j < k => j \in 1..n
      BY <1>1, <2>1
    <3> QED
      BY <1>1, <1>2, <1>4, <2>1, <3>1 DEF Ordered
  <2>2. CASE k = n + 1
    <3>1. \A j \in 1..(n + 1) : j < k => j \in 1..n
      BY <1>1, <2>2
    <3>2. MayFollow(t, type) /\ inbox'[k][2] = type
      BY <1>2, <1>3, <1>4, <2>2
    <3> QED
      BY <1>1, <1>2, <3>1, <3>2 DEF MayFollow
  <2> QED
    BY <1>1, <1>4, <2>1, <2>2
<1> QED
  BY <1>2, <1>4 DEF Ordered

\* save_conversation reports a failure, after all that may come before it.
LEMMA ReportSaves ==
  ASSUME ThreadTypes, ReportInv, NEW p \in Actors, Saves(p) PROVE ReportInv'
<1> SUFFICES ASSUME faults + crashes = 0 PROVE WorkerInv' /\ UnplacedInv' /\ ChannelInv'
  BY DEF ReportInv, Saves, boundVars
<1>1. /\ tpc[p] = "saving" /\ Goes(p, "collecting")
      /\ inbox' = (IF fate[p] = "failed" THEN Append(inbox, ReportOf(p, "failed")) ELSE inbox)
      /\ UNCHANGED <<file, fate, todoLines, lastReport, activeRuns, indexedRuns>>
  BY DEF Saves, fileVars
<1>2. WorkerInv /\ UnplacedInv /\ ChannelInv
  BY DEF ReportInv
<1>3. WorkerInv' /\ UnplacedInv'
  BY <1>1, <1>2, ReportsStay
<1>4. tpc'[p] = "collecting" /\ \A q \in Actors : q # p => tpc'[q] = tpc[q]
  BY <1>1, KnownTypes DEF Goes
<1>5. \A t \in Turns : /\ Unheard(t)' => Unheard(t) /\ t # p
                       /\ Failing(t)' => Failing(t) /\ t # p
                       /\ Begun(t)' => Begun(t)
                       /\ HasContext(t)' <=> HasContext(t)
  BY <1>1, <1>4, WritersAre DEF Unheard, Failing, Begun, HasContext
<1>6. CASE fate[p] # "failed"
  <2>1. inbox' = inbox
    BY <1>1, <1>6
  <2> QED
    BY <1>1, <1>2, <1>3, <1>5, <2>1, ChannelStays
<1>7. CASE fate[p] = "failed"
  <2>1. inbox' = Append(inbox, ReportOf(p, "failed")) /\ inbox \in Seq(ThreadReport)
    BY <1>1, <1>7 DEF ThreadTypes, MiscTypes
  <2>2. PICK n \in Nat : /\ DOMAIN inbox = 1..n /\ DOMAIN inbox' = 1..(n + 1)
                         /\ inbox'[n + 1] = ReportOf(p, "failed")
                         /\ \A k \in 1..n : inbox'[k] = inbox[k]
    BY <2>1
  <2>3. \A k \in DOMAIN inbox' : k \in DOMAIN inbox \/ k = n + 1
    BY <2>2
  <2>4. ReportOf(p, "failed")[1] = p
    BY DEF ReportOf
  <2>5. ASSUME NEW t \in Turns PROVE Channel(t)'
    <3>1. Channel(t)
      BY <1>2 DEF ChannelInv
    <3>2. p = t => MayFollow(t, "failed")
      BY <1>1, <1>7, <3>1 DEF Channel, Failing
    <3>3. Ordered(t)'
      BY <1>1, <2>1, <3>1, <3>2, OrderedNext DEF Channel
    <3>4. t # p => /\ Nothing(t) => Nothing(t)'
                   /\ MayFollow(t, "failed") => MayFollow(t, "failed")'
      BY <1>1, <2>2, <2>3, <2>4 DEF Nothing, MayFollow
    <3>5. Known(t)' <=> Known(t)
      BY <1>1, <1>5 DEF Known
    <3> QED
      BY <1>5, <3>1, <3>3, <3>4, <3>5 DEF Channel
  <2> QED
    BY <1>3, <2>5 DEF ChannelInv
<1> QED
  BY <1>6, <1>7

\* The reports of a turn before the save come in an order a turn may report in.
LEMMA ReportedOrder ==
  ASSUME NEW p \in Actors, NEW before \in Seq(Asides), NEW end \in Endings,
         NEW u, u = Reported(p, before, end)
  PROVE  /\ u \in Seq(ThreadReport)
         /\ \A k \in DOMAIN u : u[k][1] = p
         /\ \A j, k \in DOMAIN u : j < k => Precedes(u[j][2], u[k][2])
         /\ end # "completed" => \A k \in DOMAIN u : Precedes(u[k][2], "failed")
<1>1. PICK n \in Nat, m \in Nat :
         /\ n = Len(before) /\ m \in {n, n + 1} /\ Len(u) = m
         /\ \A k \in 1..n : u[k] = ReportOf(p, before[k])
         /\ end = "error" => m = n
         /\ end # "error" => m = n + 1 /\ u[m] = ReportOf(p, end)
  BY ReportedType
<1>2. u \in Seq(ThreadReport)
  BY ReportedType
<1>3. DOMAIN u = 1..m
  BY <1>1, <1>2
<1>4. \A type : ReportOf(p, type)[1] = p /\ ReportOf(p, type)[2] = type
  BY DEF ReportOf
<1>5. \A k \in 1..n : u[k][1] = p /\ u[k][2] \in Asides
  <2>1. \A k \in 1..n : before[k] \in Asides
    BY <1>1
  <2> QED
    BY <1>1, <1>4, <2>1
<1>6. end # "error" => u[m][1] = p /\ u[m][2] = end
  BY <1>1, <1>4
<1>7. \A k \in 1..m : k \in 1..n \/ (k = m /\ end # "error")
  BY <1>1
<1>8. \A j, k \in 1..m : j < k => j \in 1..n
  BY <1>1
<1>9. \A k \in 1..m : u[k][1] = p
  BY <1>5, <1>6, <1>7
<1>10. \A j, k \in 1..m : j < k => Precedes(u[j][2], u[k][2])
  BY <1>5, <1>8 DEF Precedes
<1>11. end # "completed" => \A k \in 1..m : Precedes(u[k][2], "failed")
  BY <1>5, <1>6, <1>7 DEF Precedes, Endings
<1> QED
  BY <1>2, <1>3, <1>9, <1>10, <1>11

\* execute_turn reports in an order a turn may report in.
LEMMA ReportTalks ==
  ASSUME ThreadTypes, ReportInv, NEW p \in Actors, NEW before \in Seq(Asides), NEW end \in Endings,
         Talks(p, before, end)
  PROVE  ReportInv'
<1> SUFFICES ASSUME faults + crashes = 0 PROVE WorkerInv' /\ UnplacedInv' /\ ChannelInv'
  BY DEF ReportInv, Talks
<1> DEFINE u == Reported(p, before, end)
<1>1. /\ tpc[p] = "starting" /\ Goes(p, "saving")
      /\ inbox' = inbox \o u
      /\ fate' = [fate EXCEPT ![p] = IF end = "completed" THEN "completed" ELSE "failed"]
      /\ UNCHANGED <<file, todoLines, lastReport, activeRuns, indexedRuns>>
  BY DEF Talks, fileVars
<1>2. WorkerInv /\ UnplacedInv /\ ChannelInv
  BY DEF ReportInv
<1>3. WorkerInv' /\ UnplacedInv'
  BY <1>1, <1>2, ReportsStay
<1>4. tpc'[p] = "saving" /\ \A q \in Actors : q # p => tpc'[q] = tpc[q] /\ fate'[q] = fate[q]
  BY <1>1, KnownTypes DEF Goes, ThreadTypes, ActorTypes
<1>5. fate'[p] = (IF end = "completed" THEN "completed" ELSE "failed")
  BY <1>1 DEF ThreadTypes, ActorTypes
<1>6. /\ u \in Seq(ThreadReport)
      /\ \A k \in DOMAIN u : u[k][1] = p
      /\ \A j, k \in DOMAIN u : j < k => Precedes(u[j][2], u[k][2])
      /\ end # "completed" => \A k \in DOMAIN u : Precedes(u[k][2], "failed")
  BY ReportedOrder
<1> HIDE DEF u
<1>7. PICK n \in Nat, m \in Nat :
         /\ DOMAIN inbox = 1..n /\ DOMAIN u = 1..m /\ DOMAIN inbox' = 1..(n + m)
         /\ \A k \in 1..n : inbox'[k] = inbox[k]
         /\ \A k \in 1..m : inbox'[n + k] = u[k]
  <2>1. inbox \in Seq(ThreadReport)
    BY DEF ThreadTypes, MiscTypes
  <2>2. PICK n \in Nat, m \in Nat : n = Len(inbox) /\ m = Len(u)
    BY <1>6, <2>1
  <2> DEFINE w == inbox \o u
  <2>3. /\ DOMAIN inbox = 1..n /\ DOMAIN u = 1..m /\ DOMAIN w = 1..(n + m)
        /\ \A k \in 1..n : w[k] = inbox[k]
        /\ \A k \in 1..m : w[n + k] = u[k]
    BY <1>6, <2>1, <2>2
  <2>4. inbox' = w
    BY <1>1
  <2> HIDE DEF w
  <2> QED
    BY <2>3, <2>4
<1>8. \A k \in 1..(n + m) : k \in 1..n \/ (k - n \in 1..m /\ k = n + (k - n))
  BY <1>7
<1>9. \A k \in 1..(n + m) : k \in 1..n \/ (k - n \in 1..m /\ inbox'[k] = u[k - n])
  BY <1>7, <1>8
<1>10. ASSUME NEW t \in Turns, t # p PROVE Channel(t)'
  <2>1. Channel(t)
    BY <1>2 DEF ChannelInv
  <2>2. \A k \in 1..(n + m) : inbox'[k][1] = t => k \in 1..n
    BY <1>6, <1>7, <1>9, <1>10
  <2>3. /\ Ordered(t) => Ordered(t)'
        /\ Nothing(t) => Nothing(t)'
        /\ MayFollow(t, "failed") => MayFollow(t, "failed")'
    <3>0. 1..n \subseteq 1..(n + m)
      BY <1>7
    <3>1. Nothing(t) => Nothing(t)'
      BY <1>1, <1>7, <2>2, <3>0 DEF Nothing
    <3>2. MayFollow(t, "failed") => MayFollow(t, "failed")'
      BY <1>1, <1>7, <2>2, <3>0 DEF MayFollow
    <3>3. Ordered(t) => Ordered(t)'
      BY <1>1, <1>7, <2>2, <3>0 DEF Ordered
    <3> QED
      BY <3>1, <3>2, <3>3
  <2>4. /\ Unheard(t)' => Unheard(t)
        /\ Failing(t)' => Failing(t)
        /\ Begun(t)' => Begun(t)
        /\ Known(t)' <=> Known(t)
    BY <1>1, <1>4, <1>10, WritersAre DEF Unheard, Failing, Begun, Known, HasContext
  <2> QED
    BY <2>1, <2>3, <2>4 DEF Channel
<1>11. ASSUME p \in Turns PROVE Channel(p)'
  <2>1. Channel(p) /\ Unheard(p) /\ Begun(p)
    BY <1>1, <1>2, <1>11 DEF ChannelInv, Unheard, Begun
  <2>2. Nothing(p) /\ Known(p)
    BY <2>1 DEF Channel
  <2>3. lastReport'[p].type = "none" /\ \A k \in 1..n : inbox'[k][1] # p
    BY <1>1, <1>7, <2>2 DEF Nothing
  <2>4. \A k \in 1..(n + m) : inbox'[k][1] = p => k - n \in 1..m /\ inbox'[k] = u[k - n]
    BY <1>9, <2>3
  <2>5. ASSUME NEW j \in 1..(n + m), NEW k \in 1..(n + m), j < k,
               inbox'[j][1] = p, inbox'[k][1] = p
        PROVE  Precedes(inbox'[j][2], inbox'[k][2])
    <3>1. j - n < k - n
      BY <2>5
    <3>2. /\ j - n \in 1..m /\ inbox'[j] = u[j - n]
          /\ k - n \in 1..m /\ inbox'[k] = u[k - n]
      BY <2>4, <2>5
    <3> HIDE DEF Precedes
    <3>3. Precedes(u[j - n][2], u[k - n][2])
      BY <1>6, <1>7, <3>1, <3>2
    <3> QED
      BY <3>2, <3>3
  <2>6. Ordered(p)'
    BY <1>7, <2>3, <2>5 DEF Ordered
  <2>7. Failing(p)' => MayFollow(p, "failed")'
    <3> SUFFICES ASSUME Failing(p)' PROVE MayFollow(p, "failed")'
      OBVIOUS
    <3>1. end # "completed"
      BY <1>5 DEF Failing
    <3>2. \A k \in 1..(n + m) : inbox'[k][1] = p => Precedes(inbox'[k][2], "failed")
      BY <1>6, <1>7, <2>4, <3>1
    <3> QED
      BY <1>7, <2>3, <3>2 DEF MayFollow
  <2>8. Known(p)' /\ ~Unheard(p)'
    BY <1>1, <1>4, <2>2 DEF Known, HasContext, Unheard
  <2> QED
    BY <2>6, <2>7, <2>8 DEF Channel
<1> QED
  BY <1>3, <1>10, <1>11 DEF ChannelInv

\* One report more calls for help, or does not.
LEMMA HelpedGrows ==
  ASSUME NEW rs \in Seq(ThreadReport), NEW r \in ThreadReport
  PROVE  /\ CallsForHelp(rs) \in Seq(ThreadReport)
         /\ r[2] \in CallForHelp => CallsForHelp(Append(rs, r)) = Append(CallsForHelp(rs), r)
         /\ r[2] \notin CallForHelp => CallsForHelp(Append(rs, r)) = CallsForHelp(rs)
<1> DEFINE t == <<r>>
           w == rs \o t
           P == {k \in DOMAIN rs : rs[k][2] \in CallForHelp}
           Q == {k \in DOMAIN t : t[k][2] \in CallForHelp}
           R == {k \in DOMAIN w : w[k][2] \in CallForHelp}
<1>1. /\ t \in Seq(ThreadReport) /\ DOMAIN t = 1..1 /\ t[1] = r
      /\ DOMAIN rs = 1..Len(rs) /\ Len(rs) \in Nat /\ DOMAIN w = 1..(Len(rs) + 1)
      /\ \A k \in 1..Len(rs) : w[k] = rs[k]
      /\ w[Len(rs) + 1] = r
  OBVIOUS
<1>2. w = Append(rs, r)
  BY AppendIsConcat
<1> HIDE DEF w
<1>3. P \in SUBSET (DOMAIN rs) /\ Q \in SUBSET (DOMAIN t) /\ R \in SUBSET (DOMAIN (rs \o t))
  BY DEF w
<1>4. \A k \in DOMAIN rs : k \in R <=> k \in P
  BY <1>1
<1>5. \A k \in DOMAIN t : Len(rs) + k \in R <=> k \in Q
  BY <1>1
<1>6. \A p \in P : rs[p] \in ThreadReport
  OBVIOUS
<1>7. (r[2] \in CallForHelp => Q = DOMAIN t) /\ (r[2] \notin CallForHelp => Q = {})
  BY <1>1
<1>8. CallsForHelp(rs) = At(rs, P) /\ CallsForHelp(w) = At(w, R)
  BY DEF CallsForHelp
<1> HIDE DEF P, Q, R, t
<1>9. Joined(R, rs, P, t, Q)
  BY <1>3, <1>4, <1>5 DEF Joined
<1>10. At(rs \o t, R) = At(rs, P) \o At(t, Q)
  BY <1>1, <1>9, AtConcat
<1>11. At(rs, P) \in Seq(ThreadReport)
  BY <1>3, <1>6, AtOf
<1>12. CallsForHelp(w) = CallsForHelp(rs) \o At(t, Q)
  BY <1>8, <1>10 DEF w
<1>13. CASE r[2] \in CallForHelp
  <2>1. At(t, Q) = t
    BY <1>1, <1>7, <1>13, AtAll
  <2>2. CallsForHelp(rs) \o t = Append(CallsForHelp(rs), r)
    BY <1>8, <1>11, AppendIsConcat DEF t
  <2> QED
    BY <1>2, <1>8, <1>11, <1>12, <1>13, <2>1, <2>2
<1>14. CASE r[2] \notin CallForHelp
  <2>1. At(t, Q) = <<>>
    BY <1>7, <1>14, AtNone
  <2>2. CallsForHelp(rs) \o <<>> = CallsForHelp(rs)
    BY <1>8, <1>11, ConcatEmptySeq
  <2> QED
    BY <1>2, <1>8, <1>11, <1>12, <1>14, <2>1, <2>2
<1> QED
  BY <1>13, <1>14

\* The lines of a report, one by one.
LEMMA ReportLinesAre ==
  ASSUME NEW r \in ThreadReport
  PROVE  /\ ReportLines(r) # <<>> /\ Head(ReportLines(r)) = Line("report", r)
         /\ r[2] \in CallForHelp => Tail(ReportLines(r)) = <<Line("remedy", r)>>
         /\ r[2] \notin CallForHelp => Tail(ReportLines(r)) = <<>>
<1> DEFINE a == Line("report", r)
           b == Line("remedy", r)
<1>1. ReportLines(r) = <<a>> \o RemedyLines(r)
  BY DEF ReportLines
<1>2. RemedyLines(r) = IF r[2] \in CallForHelp THEN <<b>> ELSE <<>>
  BY DEF RemedyLines
<1> HIDE DEF a, b
<1>3. <<a>> \o <<b>> = <<a, b>> /\ Head(<<a, b>>) = a /\ Tail(<<a, b>>) = <<b>>
      /\ Head(<<a>>) = a /\ Tail(<<a>>) = <<>>
  BY PairsAre
<1>4. <<a>> \o <<>> = <<a>>
  <2> DEFINE s == <<a>>
  <2>1. s \in Seq({a})
    OBVIOUS
  <2> HIDE DEF s
  <2>2. s \o <<>> = s
    BY <2>1, ConcatEmptySeq
  <2> QED
    BY <2>2 DEF s
<1>5. <<a, b>> # <<>> /\ <<a>> # <<>>
  OBVIOUS
<1>6. ReportLines(r) = IF r[2] \in CallForHelp THEN <<a, b>> ELSE <<a>>
  BY <1>1, <1>2, <1>3, <1>4
<1>7. CASE r[2] \in CallForHelp
  BY <1>3, <1>5, <1>6, <1>7 DEF a, b
<1>8. CASE r[2] \notin CallForHelp
  BY <1>3, <1>5, <1>6, <1>8 DEF a, b
<1> QED
  BY <1>7, <1>8

\* A report more in the journal leaves what it says of other runs.
LEMMA SaysOfOthers ==
  ASSUME NEW r \in ThreadReport, file.reports \in Seq(ThreadReport),
         file'.reports = Append(file.reports, r)
  PROVE  /\ JournalSays(r[1], r[2])'
         /\ \A p, type : p # r[1] /\ JournalSays(p, type) => JournalSays(p, type)'
<1>1. PICK n \in Nat : DOMAIN file.reports = 1..n /\ DOMAIN file'.reports = 1..(n + 1)
         /\ file'.reports[n + 1] = r /\ \A k \in 1..n : file'.reports[k] = file.reports[k]
  <2>1. PICK n \in Nat : Len(file.reports) = n /\ DOMAIN file.reports = 1..n
    OBVIOUS
  <2> QED
    BY <2>1
<1>2. \A j \in 1..(n + 1) : j <= n + 1 /\ (j \in 1..n \/ j = n + 1)
  BY <1>1
<1>3. r = ReportOf(r[1], r[2])
  BY DEF ReportOf, ThreadReport
<1>4. JournalSays(r[1], r[2])'
  <2>1. n + 1 \in DOMAIN file'.reports
    BY <1>1
  <2> QED
    BY <1>1, <1>2, <1>3, <2>1 DEF JournalSays
<1>5. ASSUME NEW p, NEW type, p # r[1], JournalSays(p, type) PROVE JournalSays(p, type)'
  <2>1. PICK k \in 1..n : /\ file.reports[k] = ReportOf(p, type)
                          /\ \A j \in 1..n : file.reports[j][1] = p => j <= k
    BY <1>1, <1>5 DEF JournalSays
  <2>2. k \in 1..(n + 1) /\ file'.reports[k] = ReportOf(p, type)
    BY <1>1, <2>1
  <2>3. \A j \in 1..(n + 1) : file'.reports[j][1] = p => j <= k
    BY <1>1, <1>2, <1>5, <2>1
  <2> QED
    BY <1>1, <2>2, <2>3 DEF JournalSays
<1> QED
  BY <1>4, <1>5

\* The report worker has a report or a remediation to append.
LEMMA ReportTold ==
  ASSUME ThreadTypes, ReportInv, Appends(Reporter) PROVE ReportInv'
<1> SUFFICES ASSUME faults + crashes = 0 PROVE WorkerInv' /\ UnplacedInv' /\ ChannelInv'
  BY DEF ReportInv, Appends, boundVars
<1> DEFINE line == Head(todoLines[Reporter])
           rest == Tail(todoLines[Reporter])
<1>1. /\ todoLines[Reporter] # <<>> /\ Appended(line) /\ WillAppend(Reporter, rest)
      /\ UNCHANGED <<tpc, fate, inbox, lastReport, activeRuns, indexedRuns>>
  BY DEF Appends, reportVars
<1>2. WorkerInv /\ UnplacedInv /\ ChannelInv /\ file.tail = NoTail
  BY NoMishapNoTail DEF ReportInv
<1>3. ChannelInv'
  <2>1. \A t \in Turns : /\ Unheard(t)' => Unheard(t)
                         /\ Failing(t)' => Failing(t)
                         /\ Begun(t)' => HasContext(t)' \/ (Begun(t) /\ ~HasContext(t))
    BY <1>1 DEF Unheard, Failing, Begun, HasContext
  <2> QED
    BY <1>1, <1>2, <2>1, ChannelStays
<1>4. line \in ThreadLine /\ todoLines'[Reporter] = rest
  <2>1. line \in ThreadLine
    BY <1>1, TodoParts, WritersAre
  <2>2. todoLines \in [Writers -> Seq(ThreadLine)] /\ Reporter \in Writers
    BY KnownTypes, WritersAre
  <2> QED
    BY <1>1, <2>1, <2>2 DEF WillAppend
<1>5. /\ file'.reports =
           (IF line.type = "report" THEN Append(file.reports, line.data) ELSE file.reports)
      /\ file'.remedies =
           (IF line.type = "remedy" THEN Append(file.remedies, line.data) ELSE file.remedies)
  <2> HIDE DEF line
  <2> QED
    BY <1>1, <1>2, <1>4, AppendedLines
<1>6. file.reports \in Seq(ThreadReport) /\ file.remedies \in Seq(ThreadReport)
  BY KnownTypes DEF FileSet
<1>7. \A r : /\ Line("report", r).type = "report" /\ Line("report", r).data = r
             /\ Line("remedy", r).type = "remedy" /\ Line("remedy", r).data = r
  BY DEF Line
<1>8. CASE \E r \in ThreadReport : BeingTold(r) /\ Says({r[1]}) /\ Helped(file.remedies)
  <2>1. PICK r \in ThreadReport : BeingTold(r) /\ Says({r[1]}) /\ Helped(file.remedies)
    BY <1>8
  <2>2. /\ todoLines[Reporter] = ReportLines(r)
        /\ lastReport[r[1]].type = r[2] /\ lastReport[r[1]].placed
    BY <2>1 DEF BeingTold, Telling
  <2>3. line = Line("report", r)
    BY <2>2, ReportLinesAre
  <2>4. file'.reports = Append(file.reports, r) /\ file'.remedies = file.remedies
    <3> HIDE DEF line
    <3> QED
      BY <1>5, <1>7, <2>3
  <2>5. /\ JournalSays(r[1], r[2])'
        /\ \A p, type : p # r[1] /\ JournalSays(p, type) => JournalSays(p, type)'
    BY <1>6, <2>4, SaysOfOthers
  <2>6. Says({})'
    BY <1>1, <2>1, <2>2, <2>5 DEF Says
  <2>7. UnplacedInv'
    <3> SUFFICES ASSUME NEW t \in Turns, Unplaced(t)'
                 PROVE  lastReport'[t].type = "failed" /\ JournalSays(t, "stuck")'
      BY DEF UnplacedInv
    <3>1. Unplaced(t) /\ t # r[1]
      BY <1>1, <2>2 DEF Unplaced
    <3> QED
      BY <1>1, <1>2, <2>5, <3>1 DEF UnplacedInv
  <2>8. CASE r[2] \in CallForHelp
    <3>1. todoLines'[Reporter] = <<Line("remedy", r)>>
      BY <1>4, <2>2, <2>8, ReportLinesAre
    <3>2. Helped(Append(file.remedies, r))'
      BY <1>6, <2>1, <2>4, <2>8, HelpedGrows DEF Helped
    <3> QED
      BY <1>3, <2>6, <2>7, <3>1, <3>2 DEF WorkerInv, Remedying
  <2>9. CASE r[2] \notin CallForHelp
    <3>1. todoLines'[Reporter] = <<>>
      BY <1>4, <2>2, <2>9, ReportLinesAre
    <3>2. Helped(file.remedies)'
      BY <1>6, <2>1, <2>4, <2>9, HelpedGrows DEF Helped
    <3> QED
      BY <1>3, <2>6, <2>7, <3>1, <3>2 DEF WorkerInv
  <2> QED
    BY <2>8, <2>9
<1>9. CASE \E r \in ThreadReport : Remedying(r) /\ Says({}) /\ Helped(Append(file.remedies, r))
  <2>1. PICK r \in ThreadReport : Remedying(r) /\ Says({}) /\ Helped(Append(file.remedies, r))
    BY <1>9
  <2>2. line = Line("remedy", r) /\ rest = <<>>
    <3> DEFINE b == Line("remedy", r)
    <3>1. todoLines[Reporter] = <<b>>
      BY <2>1 DEF Remedying
    <3> HIDE DEF b
    <3>2. Head(<<b>>) = b /\ Tail(<<b>>) = <<>>
      BY PairsAre
    <3> QED
      BY <3>1, <3>2 DEF b
  <2>3. file'.reports = file.reports /\ file'.remedies = Append(file.remedies, r)
    <3> HIDE DEF line
    <3> QED
      BY <1>5, <1>7, <2>2
  <2>4. \A p, type : JournalSays(p, type)' <=> JournalSays(p, type)
    BY <2>3 DEF JournalSays
  <2>5. Says({})' /\ UnplacedInv'
    BY <1>1, <1>2, <2>1, <2>4 DEF Says, UnplacedInv, Unplaced
  <2>6. Helped(file.remedies)'
    BY <2>1, <2>3 DEF Helped
  <2>7. todoLines'[Reporter] = <<>>
    BY <1>4, <2>2
  <2> QED
    BY <1>3, <2>5, <2>6, <2>7 DEF WorkerInv
<1> QED
  BY <1>1, <1>2, <1>8, <1>9 DEF WorkerInv

\* What ingest_subagent_report does to what memory says.
LEMMA IngestedReport ==
  ASSUME ThreadTypes, NEW r \in ThreadReport, IngestsIt(r)
  PROVE  /\ r[1] \in Actors /\ lastReport'[r[1]].type = r[2]
         /\ lastReport'[r[1]].placed <=> HasContext(r[1])
         /\ \A p \in Actors : p # r[1] => lastReport'[p] = lastReport[p]
         /\ todoLines'[Reporter] = (IF HasContext(r[1]) THEN ReportLines(r) ELSE <<>>)
<1>1. r[1] \in Actors /\ lastReport \in [Actors -> LastReports]
  BY DEF ThreadReport, ThreadTypes, MiscTypes
<1>2. lastReport'[r[1]] = [type |-> r[2], placed |-> HasContext(r[1])]
      /\ \A p \in Actors : p # r[1] => lastReport'[p] = lastReport[p]
  BY <1>1 DEF IngestsIt
<1>3. lastReport'[r[1]].type = r[2] /\ (lastReport'[r[1]].placed <=> HasContext(r[1]))
  BY <1>2
<1>4. todoLines'[Reporter] = (IF HasContext(r[1]) THEN ReportLines(r) ELSE <<>>)
  BY KnownTypes, WritersAre DEF IngestsIt, WillAppend
<1> QED
  BY <1>1, <1>2, <1>3, <1>4

\* The first of the channel, and the rest of it.
LEMMA InboxParts ==
  ASSUME ThreadTypes, NEW r \in ThreadReport, IngestsIt(r)
  PROVE  /\ 1 \in DOMAIN inbox /\ inbox[1] = r
         /\ \A k \in DOMAIN inbox' : k \in Nat /\ k + 1 > 1 /\ k + 1 \in DOMAIN inbox
                                     /\ inbox'[k] = inbox[k + 1]
<1>1. inbox \in Seq(ThreadReport) /\ inbox # <<>> /\ r = Head(inbox) /\ inbox' = Tail(inbox)
  BY DEF ThreadTypes, MiscTypes, IngestsIt
<1>2. PICK n \in Nat : Len(inbox) = n /\ DOMAIN inbox = 1..n /\ n # 0
  BY <1>1
<1>3. DOMAIN Tail(inbox) = 1..(n - 1) /\ \A k \in 1..(n - 1) : Tail(inbox)[k] = inbox[k + 1]
  BY <1>1, <1>2
<1>4. 1 \in 1..n /\ inbox[1] = r
  BY <1>1, <1>2
<1>5. \A k \in 1..(n - 1) : k \in Nat /\ k + 1 > 1 /\ k + 1 \in 1..n
  BY <1>2
<1> QED
  BY <1>1, <1>2, <1>3, <1>4, <1>5

\* A report of a turn that finds no thread is the failure that follows being stuck.
LEMMA UnplacedIsFailed ==
  ASSUME ThreadTypes, NEW r \in ThreadReport, IngestsIt(r), r[1] \in Turns, ~HasContext(r[1]),
         WorkerInv, UnplacedInv, ChannelInv
  PROVE  r[2] = "failed" /\ JournalSays(r[1], "stuck")
<1> DEFINE t == r[1]
<1>1. 1 \in DOMAIN inbox /\ inbox[1] = r
  BY InboxParts
<1>2. Channel(t) /\ t \in Actors
  BY WritersAre DEF ChannelInv
<1>3. ~Unheard(t)
  BY <1>1, <1>2 DEF Channel, Nothing
<1>4. lastReport[t].type \in Closing
  BY <1>2, <1>3 DEF Channel, Unheard, Begun, Known
<1>5. Precedes(lastReport[t].type, r[2])
  BY <1>1, <1>2, <1>4 DEF Channel, Ordered, Closing
<1>6. lastReport[t].type = "stuck" /\ r[2] = "failed"
  BY <1>4, <1>5 DEF Precedes, Closing, Asides
<1>7. lastReport[t].placed
  BY <1>6 DEF UnplacedInv, Unplaced
<1>8. Says({})
  <2>1. todoLines[Reporter] = <<>>
    BY DEF IngestsIt
  <2>2. \A q \in ThreadReport : ~Telling(q) /\ ~Remedying(q)
    BY <2>1, ReportLinesAre DEF Telling, Remedying
  <2> QED
    BY <2>2 DEF WorkerInv, BeingTold
<1> QED
  BY <1>2, <1>6, <1>7, <1>8 DEF Says

\* ingest_subagent_report puts the report in the tables, and tells it if its thread is known.
LEMMA ReportIngested ==
  ASSUME ThreadTypes, ReportInv, Ingests PROVE ReportInv'
<1>0. PICK r \in ThreadReport : IngestsIt(r)
  BY IngestsFacts
<1>1. /\ todoLines[Reporter] = <<>>
      /\ activeRuns' = IF r[2] \in Closing THEN activeRuns \ {r[1]} ELSE activeRuns
      /\ UNCHANGED <<file, tpc, fate, indexedRuns, faults, crashes>>
  BY <1>0 DEF IngestsIt, fileVars, boundVars
<1> SUFFICES ASSUME faults + crashes = 0 PROVE WorkerInv' /\ UnplacedInv' /\ ChannelInv'
  BY <1>1 DEF ReportInv
<1>2. WorkerInv /\ UnplacedInv /\ ChannelInv
  BY DEF ReportInv
<1>3. /\ r[1] \in Actors /\ lastReport'[r[1]].type = r[2]
      /\ lastReport'[r[1]].placed <=> HasContext(r[1])
      /\ \A p \in Actors : p # r[1] => lastReport'[p] = lastReport[p]
      /\ todoLines'[Reporter] = (IF HasContext(r[1]) THEN ReportLines(r) ELSE <<>>)
  BY <1>0, IngestedReport
<1>4. Says({}) /\ Helped(file.remedies)
  <2>1. \A q \in ThreadReport : ~Telling(q) /\ ~Remedying(q)
    BY <1>1, ReportLinesAre DEF Telling, Remedying
  <2> QED
    BY <1>2, <2>1 DEF WorkerInv, BeingTold
<1>5. \A p, type : JournalSays(p, type)' <=> JournalSays(p, type)
  BY <1>1 DEF JournalSays
<1>6. Helped(file.remedies)' /\ Says({r[1]})'
  BY <1>1, <1>3, <1>4, <1>5 DEF Helped, Says
<1>7. WorkerInv'
  <2>1. CASE HasContext(r[1])
    <3>1. BeingTold(r)'
      BY <1>3, <2>1 DEF BeingTold, Telling
    <3> QED
      BY <1>6, <3>1 DEF WorkerInv
  <2>2. CASE ~HasContext(r[1])
    <3>1. Says({})'
      BY <1>3, <1>6, <2>2 DEF Says
    <3> QED
      BY <1>3, <1>6, <2>2, <3>1 DEF WorkerInv
  <2> QED
    BY <2>1, <2>2
<1>8. UnplacedInv'
  <2> SUFFICES ASSUME NEW t \in Turns, Unplaced(t)'
               PROVE  lastReport'[t].type = "failed" /\ JournalSays(t, "stuck")'
    BY DEF UnplacedInv
  <2>1. CASE t = r[1]
    <3>1. ~HasContext(r[1])
      BY <1>3, <2>1 DEF Unplaced
    <3>2. r[2] = "failed" /\ JournalSays(r[1], "stuck")
      BY <1>0, <1>2, <2>1, <3>1, UnplacedIsFailed
    <3> QED
      BY <1>3, <1>5, <2>1, <3>2
  <2>2. CASE t # r[1]
    <3>1. lastReport'[t] = lastReport[t]
      BY <1>3, <2>2, WritersAre
    <3> QED
      BY <1>2, <1>5, <3>1 DEF UnplacedInv, Unplaced
  <2> QED
    BY <2>1, <2>2
<1>9. /\ 1 \in DOMAIN inbox /\ inbox[1] = r
      /\ \A k \in DOMAIN inbox' : k \in Nat /\ k + 1 > 1 /\ k + 1 \in DOMAIN inbox
                                  /\ inbox'[k] = inbox[k + 1]
  BY <1>0, InboxParts
<1>10. ASSUME NEW t \in Turns PROVE Channel(t)'
  <2>1. Channel(t) /\ t \in Actors
    BY <1>2, WritersAre DEF ChannelInv
  <2>2. /\ Unheard(t)' <=> Unheard(t)
        /\ Failing(t)' <=> Failing(t)
        /\ Begun(t)' <=> Begun(t)
    BY <1>1 DEF Unheard, Failing, Begun
  <2>3. ASSUME NEW j \in DOMAIN inbox', NEW k \in DOMAIN inbox', j < k, inbox'[j][1] = t,
               inbox'[k][1] = t
        PROVE  Precedes(inbox'[j][2], inbox'[k][2])
    <3>1. j + 1 < k + 1
      BY <1>9, <2>3
    <3> QED
      BY <1>9, <2>1, <2>3, <3>1 DEF Channel, Ordered
  <2>4. CASE t # r[1]
    <3>1. lastReport'[t] = lastReport[t] /\ (HasContext(t)' <=> HasContext(t))
      BY <1>1, <1>3, <2>1, <2>4 DEF HasContext
    <3>2. Ordered(t)'
      BY <1>9, <2>1, <2>3, <3>1 DEF Channel, Ordered
    <3>3. /\ Nothing(t) => Nothing(t)'
          /\ MayFollow(t, "failed") => MayFollow(t, "failed")'
      BY <1>9, <3>1 DEF Nothing, MayFollow
    <3>4. Known(t) => Known(t)'
      BY <3>1 DEF Known
    <3> QED
      BY <2>1, <2>2, <3>2, <3>3, <3>4 DEF Channel
  <2>5. CASE t = r[1]
    <3>1. lastReport'[t].type = r[2] /\ inbox[1][1] = t
      BY <1>3, <1>9, <2>5
    <3>2. \A k \in DOMAIN inbox' : inbox'[k][1] = t => Precedes(r[2], inbox'[k][2])
      BY <1>9, <2>1, <3>1 DEF Channel, Ordered
    <3>3. Ordered(t)'
      BY <2>3, <3>1, <3>2 DEF Ordered
    <3>4. ~Unheard(t)
      BY <1>9, <2>1, <3>1 DEF Channel, Nothing
    <3>5. MayFollow(t, "failed") => MayFollow(t, "failed")'
      BY <1>9, <3>1 DEF MayFollow
    <3>6. Known(t)'
      <4>1. CASE r[2] \in Closing
        BY <3>1, <4>1 DEF Known
      <4>2. CASE r[2] \notin Closing
        <5>1. HasContext(t)
          BY <1>0, <1>2, <2>5, <4>2, UnplacedIsFailed DEF Closing
        <5> QED
          BY <1>1, <4>2, <5>1 DEF Known, HasContext
      <4> QED
        BY <4>1, <4>2
    <3> QED
      BY <2>1, <2>2, <3>3, <3>4, <3>5, <3>6 DEF Channel
  <2> QED
    BY <2>4, <2>5
<1> QED
  BY <1>7, <1>8, <1>10 DEF ChannelInv

\* After a mishap nothing is claimed.
LEMMA ReportMishap ==
  ASSUME ThreadTypes,
         Crash \/ \E p \in Writers, how \in Outcomes : AppendFails(p, how)
  PROVE  ReportInv'
<1>1. faults \in Nat /\ crashes \in Nat
  BY DEF ThreadTypes, LostInv
<1>2. (faults' = faults + 1 /\ crashes' = crashes) \/ (crashes' = crashes + 1 /\ faults' = faults)
  BY DEF Crash, CrashesIn, AppendFails
<1>3. faults' + crashes' # 0
  BY <1>1, <1>2
<1> QED
  BY <1>3 DEF ReportInv

\* Every step keeps what is known of reports.
LEMMA ReportInvStep ==
  ASSUME ThreadTypes, ReportInv, [ThreadsNext]_threadVars PROVE ReportInv'
<1>1. CASE UNCHANGED threadVars
  <2>1. UNCHANGED <<tpc, fate, inbox, lastReport, activeRuns, indexedRuns, faults, crashes,
                    todoLines, file>>
    BY <1>1 DEF threadVars, fileVars, actorVars, reportVars, boundVars
  <2>2. \A t \in Turns : /\ Unheard(t)' => Unheard(t)
                         /\ Failing(t)' => Failing(t)
                         /\ Begun(t)' => HasContext(t)' \/ (Begun(t) /\ ~HasContext(t))
    BY <2>1 DEF Unheard, Failing, Begun, HasContext
  <2> QED
    BY <2>1, <2>2, ReportsAlone
<1>2. CASE \/ CreateThread \/ Enqueues \/ RunBegins \/ IsRefused \/ RunIsDropped \/ InsertThread
  BY <1>2, ReportDelegates, ReportDrops, ReportInserts
<1>3. CASE \E t \in Turns : TurnReads(t)
  BY <1>3, ReportReads
<1>4. CASE \E p \in Actors : Saves(p) \/ Collects(p) \/ Records(p)
  BY <1>4, ReportSaves, ReportCollects, ReportRecords
<1>5. CASE \E p \in Actors, before \in BoundedSeq(Asides, MaxMishaps), end \in Endings :
             Talks(p, before, end)
  BY <1>5, AsidesAre, ReportTalks
<1>6. CASE \E p \in Writers : Appends(p)
  <2>1. PICK p \in Writers : Appends(p)
    BY <1>6
  <2>2. p \in Actors \/ p = Reporter
    BY DEF Writers
  <2> QED
    BY <2>1, <2>2, ReportAppends, ReportTold
<1>7. CASE Resurrect \/ Ingests
  BY <1>7, ReportRevives, ReportIngested
<1>8. CASE Crash \/ \E p \in Writers, how \in Outcomes : AppendFails(p, how)
  BY <1>8, ReportMishap
<1> QED
  BY <1>1, <1>2, <1>3, <1>4, <1>5, <1>6, <1>7, <1>8 DEF ThreadsNext

\* At the start nothing is reported.
LEMMA ReportInvInit ==
  ASSUME ThreadsInit PROVE ReportInv
<1>1. /\ inbox = <<>> /\ todoLines[Reporter] = <<>>
      /\ file.reports = <<>> /\ file.remedies = <<>>
  BY DEF ThreadsInit, Writers, EmptyFile
<1>2. \A p \in Actors : /\ lastReport[p].type = "none" /\ ~lastReport[p].placed
                        /\ tpc[p] = "new"
  BY DEF ThreadsInit, NotReported
<1>3. Says({}) /\ UnplacedInv
  BY <1>2, WritersAre DEF Says, UnplacedInv, Unplaced
<1>4. Helped(file.remedies)
  <2>1. {k \in DOMAIN <<>> : <<>>[k][2] \in CallForHelp} = {}
    OBVIOUS
  <2>2. CallsForHelp(<<>>) = <<>>
    BY <2>1, AtNone DEF CallsForHelp
  <2> QED
    BY <1>1, <2>2 DEF Helped
<1>5. ChannelInv
  BY <1>1, <1>2, WritersAre DEF ChannelInv, Channel, Ordered, Unheard, Nothing, Failing, Begun
<1> QED
  BY <1>1, <1>3, <1>4, <1>5 DEF ReportInv, WorkerInv

\* What the invariant says when the report worker has nothing left to do.
LEMMA ReportsTold ==
  ASSUME ThreadTypes, ReportInv PROVE ReportsReachJournal
<1> SUFFICES ASSUME faults + crashes = 0, todoLines[Reporter] = <<>>
             PROVE  /\ \A p \in Actors :
                         lastReport[p].placed => LastJournalled(p, lastReport[p].type)
                    /\ Read(file).remedies = CallsForHelp(Read(file).reports)
                    /\ \A t \in Turns : lastReport[t].type # "none" /\ ~lastReport[t].placed =>
                         lastReport[t].type = "failed" /\ LastJournalled(t, "stuck")
  BY DEF ReportsReachJournal
<1>1. Read(file) = file
  BY NoMishapNoTail DEF Read, Ended
<1>2. WorkerInv /\ UnplacedInv
  BY DEF ReportInv
<1>3. \A r \in ThreadReport : ~Telling(r) /\ ~Remedying(r)
  BY ReportLinesAre DEF Telling, Remedying
<1>4. Says({}) /\ Helped(file.remedies)
  BY <1>2, <1>3 DEF WorkerInv, BeingTold
<1>5. \A p, type : LastJournalled(p, type) <=> JournalSays(p, type)
  BY <1>1 DEF LastJournalled, JournalSays
<1>6. \A p \in Actors : lastReport[p].placed => LastJournalled(p, lastReport[p].type)
  BY <1>4, <1>5 DEF Says
<1>7. Read(file).remedies = CallsForHelp(Read(file).reports)
  BY <1>1, <1>4 DEF Helped
<1>8. \A t \in Turns : lastReport[t].type # "none" /\ ~lastReport[t].placed =>
        lastReport[t].type = "failed" /\ LastJournalled(t, "stuck")
  BY <1>2, <1>5 DEF UnplacedInv, Unplaced
<1> QED
  BY <1>6, <1>7, <1>8

\* Reports reach the journal, for any turns and bounds: without a mishap, what memory says
\* last of a run whose thread was known is what its journal says last when the report worker
\* is idle, the remediations are those of the reports that call for one, and a turn's
\* report that found no thread is the failure after being stuck (ingest_subagent_report,
\* recommend).
THEOREM ReportsAreJournalled == ThreadsSpec => []ReportsReachJournal
<1>1. ThreadsInit => ThreadTypes /\ ReportInv
  BY TypesInit, ReportInvInit
<1>2. ThreadTypes /\ ReportInv /\ [ThreadsNext]_threadVars => (ThreadTypes /\ ReportInv)'
  BY ThreadTypesStep, ReportInvStep
<1>3. ThreadTypes /\ ReportInv => ReportsReachJournal
  BY ReportsTold
<1> QED
  BY <1>1, <1>2, <1>3, PTL DEF ThreadsSpec

-----------------------------------------------------------------------------
(* Conversations.                                                           *)

\* The texts of two lists, one after the other.
LEMMA TextsConcat ==
  ASSUME NEW s \in Seq(ThreadMsg), NEW t \in Seq(ThreadMsg)
  PROVE  OnlyTexts(s \o t) = OnlyTexts(s) \o OnlyTexts(t)
<1> DEFINE P == {k \in DOMAIN s : s[k].part # "result"}
           Q == {k \in DOMAIN t : t[k].part # "result"}
           R == {k \in DOMAIN (s \o t) : (s \o t)[k].part # "result"}
<1>1. /\ s \o t \in Seq(ThreadMsg) /\ Len(s) \in Nat /\ Len(t) \in Nat
      /\ DOMAIN s = 1..Len(s) /\ DOMAIN t = 1..Len(t)
      /\ DOMAIN (s \o t) = 1..(Len(s) + Len(t))
      /\ \A k \in 1..Len(s) : (s \o t)[k] = s[k]
      /\ \A k \in 1..Len(t) : (s \o t)[Len(s) + k] = t[k]
  OBVIOUS
<1>2. \A k \in DOMAIN s : k \in R <=> k \in P
  BY <1>1
<1>3. \A k \in DOMAIN t : Len(s) + k \in R <=> k \in Q
  BY <1>1
<1>4. P \in SUBSET (DOMAIN s) /\ Q \in SUBSET (DOMAIN t) /\ R \in SUBSET (DOMAIN (s \o t))
  OBVIOUS
<1> HIDE DEF P, Q, R
<1>5. Joined(R, s, P, t, Q)
  BY <1>2, <1>3, <1>4 DEF Joined
<1>6. At(s \o t, R) = At(s, P) \o At(t, Q)
  BY <1>5, AtConcat
<1> QED
  BY <1>6 DEF OnlyTexts, P, Q, R

\* The texts of texts are the texts.
LEMMA TextsOfTexts ==
  ASSUME NEW s \in Seq(Shown)
  PROVE  OnlyTexts(s) \in Seq(Shown) /\ OnlyTexts(OnlyTexts(s)) = OnlyTexts(s)
<1> DEFINE T == {m \in Shown : m.part # "result"}
           P == {k \in DOMAIN s : s[k].part # "result"}
           o == OnlyTexts(s)
<1>1. P \in SUBSET (DOMAIN s) /\ \A k \in P : s[k] \in T
  OBVIOUS
<1> HIDE DEF P
<1>2. At(s, P) \in Seq(T)
  BY <1>1, AtOf
<1>3. o \in Seq(T)
  BY <1>2 DEF OnlyTexts, P
<1> HIDE DEF o
<1>4. T \subseteq Shown /\ \A m \in T : m.part # "result"
  OBVIOUS
<1> HIDE DEF T
<1>5. o \in Seq(Shown)
  BY <1>3, <1>4
<1>60. \A k \in DOMAIN o : o[k] \in T
  BY <1>3
<1>6. {k \in DOMAIN o : o[k].part # "result"} = DOMAIN o
  BY <1>4, <1>60
<1>7. At(o, DOMAIN o) = o
  BY <1>3, AtAll
<1>8. OnlyTexts(o) = o
  BY <1>6, <1>7 DEF OnlyTexts
<1> QED
  BY <1>5, <1>8 DEF o

\* Nothing has no texts.
LEMMA TextsOfNone == OnlyTexts(<<>>) = <<>>
<1>1. {k \in DOMAIN <<>> : <<>>[k].part # "result"} = {}
  OBVIOUS
<1> QED
  BY <1>1, AtNone DEF OnlyTexts

\* A conversation that grows shows what it showed, and more.
LEMMA ProjectGrows ==
  ASSUME NEW c \in Seq(ThreadMsg), NEW t \in Seq(ThreadMsg)
  PROVE  \E x \in Seq(Shown) : Project(c \o t) = Project(c) \o x
<1> DEFINE w == c \o t
           P == {k \in DOMAIN c : Kept(c, k)}
           R == {k \in DOMAIN w : Kept(w, k)}
           Q == {k \in DOMAIN t : Kept(w, Len(c) + k)}
<1>1. /\ w \in Seq(ThreadMsg) /\ Len(c) \in Nat /\ Len(t) \in Nat
      /\ DOMAIN c = 1..Len(c) /\ DOMAIN t = 1..Len(t)
      /\ DOMAIN w = 1..(Len(c) + Len(t))
      /\ \A k \in 1..Len(c) : w[k] = c[k]
      /\ \A k \in 1..Len(t) : w[Len(c) + k] = t[k]
  OBVIOUS
<1> HIDE DEF w
<1>2. \A k \in DOMAIN c : k \in R <=> k \in P
  <2> TAKE k \in DOMAIN c
  <2>1. k \in DOMAIN w /\ w[k] = c[k] /\ \A j \in 1..(k - 1) : w[j] = c[j]
    BY <1>1
  <2>2. Kept(w, k) <=> Kept(c, k)
    BY <2>1 DEF Kept
  <2> QED
    BY <2>1, <2>2
<1>3. \A k \in DOMAIN t : Len(c) + k \in DOMAIN w
  BY <1>1
<1>4. \A k \in DOMAIN t : Len(c) + k \in R <=> k \in Q
  BY <1>3
<1>5. \A k \in Q : t[k] \in Shown
  BY <1>1, <1>3, KeptIsShown
<1>6. P \in SUBSET (DOMAIN c) /\ Q \in SUBSET (DOMAIN t) /\ R \in SUBSET (DOMAIN (c \o t))
  BY DEF w
<1> HIDE DEF P, Q, R
<1>61. Joined(R, c, P, t, Q)
  BY <1>2, <1>4, <1>6 DEF Joined
<1>7. At(c \o t, R) = At(c, P) \o At(t, Q)
  BY <1>61, AtConcat
<1>8. At(t, Q) \in Seq(Shown)
  BY <1>5, <1>6, AtOf
<1>9. Project(c \o t) = At(c \o t, R) /\ Project(c) = At(c, P)
  BY DEF Project, P, R, w
<1> QED
  BY <1>7, <1>8, <1>9

\* A conversation that opens shows nothing of it.
LEMMA ProjectOpened ==
  ASSUME NEW c PROVE Project(Opened(c)) = Project(c)
<1>1. CASE c = <<>>
  <2> DEFINE o == <<SystemText>>
  <2>1. o[1] = SystemText /\ DOMAIN o = {1} /\ Opened(c) = o
    BY <1>1 DEF Opened
  <2> HIDE DEF o
  <2>2. SystemText.part = "system"
    BY DEF SystemText, Said
  <2>3. {k \in DOMAIN o : Kept(o, k)} = {}
    BY <2>1, <2>2 DEF Kept
  <2>4. {k \in DOMAIN c : Kept(c, k)} = {}
    BY <1>1
  <2> QED
    BY <2>1, <2>3, <2>4, AtNone DEF Project
<1>2. CASE c # <<>>
  BY <1>2 DEF Opened
<1> QED
  BY <1>1, <1>2

\* The first that a conversation shows.
LEMMA ProjectTold ==
  ASSUME NEW p \in Actors
  PROVE  Project(<<SystemText>> \o <<Said(p, "user")>>) = <<Said(p, "user")>>
<1> DEFINE o == <<SystemText>>
           u == <<Said(p, "user")>>
           w == o \o u
<1>1. o \in Seq(ThreadMsg) /\ u \in Seq(ThreadMsg) /\ Len(o) = 1 /\ Len(u) = 1 /\ o[1] = SystemText
      /\ u[1] = Said(p, "user")
  BY ShownAreMessages
<1> HIDE DEF o, u
<1>2. /\ w \in Seq(ThreadMsg) /\ DOMAIN o = 1..Len(o) /\ DOMAIN u = 1..Len(u)
      /\ DOMAIN w = 1..(Len(o) + Len(u))
      /\ \A k \in 1..Len(o) : w[k] = o[k]
      /\ \A k \in 1..Len(u) : w[Len(o) + k] = u[k]
  <2> o \in Seq(ThreadMsg) /\ u \in Seq(ThreadMsg)
    BY <1>1
  <2> QED
    OBVIOUS
<1> HIDE DEF w
<1>3. DOMAIN o = {1} /\ DOMAIN u = {1} /\ DOMAIN w = {1, 2} /\ Len(o) + 1 = 2
      /\ 1 \in 1..Len(o) /\ 1 \in 1..Len(u)
  BY <1>1, <1>2
<1>4. w[1] = SystemText /\ w[2] = Said(p, "user")
  BY <1>1, <1>2, <1>3
<1>5. ~Kept(w, 1) /\ Kept(w, 2)
  BY <1>4 DEF Kept, SystemText, Said
<1> DEFINE R == {k \in DOMAIN w : Kept(w, k)}
<1>6. R = {2}
  BY <1>3, <1>5
<1> HIDE DEF R
<1>7. Joined(R, o, {}, u, DOMAIN u)
  BY <1>1, <1>3, <1>6 DEF w, Joined
<1>8. At(o \o u, R) = At(o, {}) \o At(u, DOMAIN u)
  BY <1>1, <1>7, AtConcat
<1>9. At(o, {}) = <<>> /\ At(u, DOMAIN u) = u
  BY <1>1, AtNone, AtAll
<1>10. <<>> \o u = u
  BY <1>1, ConcatEmptySeq
<1>11. Project(w) = u
  BY <1>8, <1>9, <1>10 DEF Project, R, w
<1> QED
  BY <1>11 DEF w, o, u

\* Of messages that are shown the texts are kept, and no result without its call.
LEMMA ProjectShown ==
  ASSUME NEW c \in Seq(Shown) PROVE Project(c) = OnlyTexts(c)
<1>1. \A k \in DOMAIN c : c[k] \in Shown
  OBVIOUS
<1>2. ASSUME NEW k \in DOMAIN c PROVE Kept(c, k) <=> c[k].part # "result"
  <2>1. c[k].part \in {"user", "result", "reply"}
    BY <1>1 DEF Shown
  <2>2. \A j \in 1..(k - 1) : j \in DOMAIN c
    <3>1. Len(c) \in Nat /\ DOMAIN c = 1..Len(c)
      OBVIOUS
    <3> QED
      BY <3>1
  <2>3. \A j \in DOMAIN c : c[j].part # "call"
    BY <1>1 DEF Shown
  <2>4. \A j \in 1..(k - 1) : c[j] # Said(c[k].who, "call")
    BY <2>2, <2>3 DEF Said
  <2> QED
    BY <2>1, <2>4 DEF Kept
<1>3. {k \in DOMAIN c : Kept(c, k)} = {k \in DOMAIN c : c[k].part # "result"}
  BY <1>2
<1> QED
  BY <1>3 DEF Project, OnlyTexts

\* The texts of ms are those of the first n messages of c.
Mirrors(ms, c, n) ==
  n <= Len(Project(c)) /\ OnlyTexts(ms) = OnlyTexts(SubSeq(Project(c), 1, n))

\* What is said more does not change what was said first.
LEMMA MirrorsGrow ==
  ASSUME NEW ms, NEW c \in Seq(ThreadMsg), NEW t \in Seq(ThreadMsg), NEW n \in Nat, Mirrors(ms, c, n)
  PROVE  Mirrors(ms, c \o t, n)
<1> DEFINE a == Project(c)
           b == Project(c \o t)
<1>1. a \in Seq(Shown)
  BY ProjectType
<1>2. PICK x \in Seq(Shown) : b = a \o x
  BY ProjectGrows
<1>3. n <= Len(a) /\ OnlyTexts(ms) = OnlyTexts(SubSeq(a, 1, n))
  BY DEF Mirrors
<1> HIDE DEF a
<1>4. Len(b) = Len(a) + Len(x) /\ Len(a) \in Nat /\ Len(x) \in Nat
  BY <1>1, <1>2, ConcatProperties
<1>5. SubSeq(b, 1, n) = SubSeq(a, 1, n)
  <2>1. CASE n = 0
    <3>1. SubSeq(b, 1, 0) = <<>> /\ SubSeq(a, 1, 0) = <<>>
      BY SubSeqEmpty
    <3> QED
      BY <2>1, <3>1
  <2>2. CASE n # 0
    <3>1. 1 \in 1..Len(a) /\ n \in 1..Len(a)
      BY <1>3, <1>4, <2>2
    <3> QED
      BY <1>1, <1>2, <3>1, SubSeqOfConcat1
  <2> QED
    BY <2>1, <2>2
<1> HIDE DEF b
<1>6. n <= Len(b)
  BY <1>3, <1>4
<1>7. OnlyTexts(ms) = OnlyTexts(SubSeq(b, 1, n))
  BY <1>3, <1>5
<1> QED
  BY <1>6, <1>7 DEF Mirrors, b

\* Nothing mirrors nothing.
LEMMA MirrorsNothing ==
  ASSUME NEW c \in Seq(ThreadMsg) PROVE Mirrors(<<>>, c, 0)
<1>1. Project(c) \in Seq(Shown)
  BY ProjectType
<1>2. 0 <= Len(Project(c))
  BY <1>1
<1>3. SubSeq(Project(c), 1, 0) = <<>>
  BY SubSeqEmpty
<1> QED
  BY <1>2, <1>3, TextsOfNone DEF Mirrors

\* A list that is not empty is its first and the rest.
LEMMA FirstAndRest ==
  ASSUME NEW S, NEW s \in Seq(S), s # <<>>
  PROVE  SubSeq(s, 2, Len(s)) \in Seq(S) /\ s = <<s[1]>> \o SubSeq(s, 2, Len(s))
<1>1. Len(s) \in Nat /\ 1 \in 1..Len(s) /\ Len(s) \in 1..Len(s)
  OBVIOUS
<1>2. \A i \in 2..Len(s) : s[i] \in S
  OBVIOUS
<1>3. SubSeq(s, 2, Len(s)) \in Seq(S)
  BY <1>1, <1>2, SubSeqProperties
<1>4. SubSeq(s, 1, Len(s)) = <<s[1]>> \o SubSeq(s, 1 + 1, Len(s))
  BY <1>1, SubSeqRecursiveFirst
<1>5. SubSeq(s, 1, Len(s)) = s
  BY SubSeqFull
<1>6. 1 + 1 = 2
  OBVIOUS
<1> QED
  BY <1>3, <1>4, <1>5, <1>6

\* A run's instruction is the first message of its turn.
LEMMA MirrorsTold ==
  ASSUME NEW p \in Actors, NEW ok \in BOOLEAN
  PROVE  Mirrors(<<Said(p, "user")>>, <<SystemText>> \o TurnOf(p, ok), 1)
<1> DEFINE o == <<SystemText>>
           u == <<Said(p, "user")>>
           T == TurnOf(p, ok)
           R == SubSeq(T, 2, Len(T))
<1>0. Len(u) = 1
  OBVIOUS
<1>1. o \in Seq(ThreadMsg) /\ u \in Seq(ThreadMsg) /\ T \in Seq(ThreadMsg)
  BY ShownAreMessages, TurnType
<1>2. T # <<>> /\ T[1] = Said(p, "user")
  <2> DEFINE v == <<Said(p, "user"), Said(p, "call"), Said(p, "result")>>
             r == IF ok THEN <<Said(p, "reply")>> ELSE <<>>
  <2>0. v \in Seq(ThreadMsg) /\ r \in Seq(ThreadMsg)
    BY ShownAreMessages
  <2>1. v[1] = Said(p, "user") /\ Len(v) = 3
    OBVIOUS
  <2>2. T = v \o r
    BY DEF TurnOf
  <2> HIDE DEF v, r, T
  <2>3. /\ Len(T) = Len(v) + Len(r) /\ T \in Seq(ThreadMsg) /\ Len(r) \in Nat
        /\ \A i \in 1..Len(v) + Len(r) : T[i] = IF i <= Len(v) THEN v[i] ELSE r[i - Len(v)]
    BY <2>0, <2>2, ConcatProperties
  <2>4. 1 \in 1..Len(v) + Len(r) /\ 1 <= Len(v) /\ Len(T) # 0
    BY <2>1, <2>3
  <2> QED
    BY <2>1, <2>3, <2>4
<1>3. Project(o \o u) = u
  BY ProjectTold
<1> HIDE DEF T
<1>4. R \in Seq(ThreadMsg) /\ T = <<T[1]>> \o R
  BY <1>1, <1>2, FirstAndRest
<1>5. T = u \o R
  BY <1>2, <1>4
<1> HIDE DEF o, u, R
<1>6. o \o u \in Seq(ThreadMsg) /\ (o \o u) \o R = o \o (u \o R)
  <2>1. o \o u \in Seq(ThreadMsg)
    BY <1>1, ConcatProperties
  <2>2. (o \o u) \o R = o \o (u \o R)
    <3>1. o \in Seq(ThreadMsg) /\ u \in Seq(ThreadMsg) /\ R \in Seq(ThreadMsg)
      BY <1>1, <1>4
    <3> QED
      BY <3>1, ConcatAssociative
  <2> QED
    BY <2>1, <2>2
<1>7. Mirrors(u, o \o u, 1)
  <2>1. SubSeq(u, 1, 1) = u
    BY <1>0, <1>1, SubSeqFull
  <2>2. 1 <= Len(u)
    BY <1>0
  <2> DEFINE w == o \o u
  <2>3. Project(w) = u
    BY <1>3
  <2> HIDE DEF w
  <2>4. Mirrors(u, w, 1)
    BY <2>1, <2>2, <2>3 DEF Mirrors
  <2> QED
    BY <2>4 DEF w
<1>8. Mirrors(u, (o \o u) \o R, 1)
  BY <1>4, <1>6, <1>7, MirrorsGrow
<1> QED
  BY <1>5, <1>6, <1>8 DEF o, u, T

\* With the messages it was thought not to have the journal mirrors them all.
LEMMA MirrorsCollected ==
  ASSUME NEW ms \in Seq(Shown), NEW c \in Seq(ThreadMsg), NEW n \in Nat, Mirrors(ms, c, n)
  PROVE  Mirrors(ms \o Delta(Project(c), n), c, Len(Project(c)))
<1> DEFINE m == Project(c)
           a == SubSeq(m, 1, n)
           b == SubSeq(m, n + 1, Len(m))
<1>1. m \in Seq(Shown)
  BY ProjectType
<1>2. n <= Len(m) /\ OnlyTexts(ms) = OnlyTexts(a)
  BY DEF Mirrors
<1> HIDE DEF m
<1>3. Len(m) \in Nat /\ 1 \in 1..Len(m) + 1 /\ n \in 1 - 1..Len(m) /\ Len(m) \in n..Len(m)
  BY <1>1, <1>2
<1>4. a \o b = SubSeq(m, 1, Len(m))
  BY <1>1, <1>3, ConcatAdjacentSubSeq
<1>5. a \in Seq(Shown) /\ b \in Seq(Shown)
  <2>1. (\A i \in 1..n : m[i] \in Shown) /\ \A i \in (n + 1)..Len(m) : m[i] \in Shown
    BY <1>1, <1>2, <1>3
  <2>2. n + 1 \in Int /\ 1 \in Int /\ n \in Int /\ Len(m) \in Int
    BY <1>3
  <2> QED
    BY <2>1, <2>2, SubSeqProperties
<1> HIDE DEF a, b
<1>6. a \in Seq(ThreadMsg) /\ b \in Seq(ThreadMsg) /\ ms \in Seq(ThreadMsg)
  BY <1>5, ShownAreMessages
<1>7. OnlyTexts(ms \o b) = OnlyTexts(ms) \o OnlyTexts(b)
  BY <1>6, TextsConcat
<1>8. OnlyTexts(a \o b) = OnlyTexts(a) \o OnlyTexts(b)
  BY <1>6, TextsConcat
<1>9. OnlyTexts(ms \o b) = OnlyTexts(SubSeq(m, 1, Len(m)))
  BY <1>2, <1>4, <1>7, <1>8
<1>10. Delta(m, n) = b
  BY DEF Delta, b
<1>11. Len(m) <= Len(m)
  BY <1>3
<1> QED
  BY <1>9, <1>10, <1>11 DEF Mirrors, m

\* A session built out of the journal is mirrored by it.
LEMMA MirrorsRevived ==
  ASSUME NEW c \in Seq(Shown) PROVE Mirrors(c, c, Len(Project(c)))
<1> DEFINE m == Project(c)
<1>1. m = OnlyTexts(c) /\ m \in Seq(Shown)
  BY ProjectShown, TextsOfTexts
<1>2. OnlyTexts(m) = OnlyTexts(c)
  BY <1>1, TextsOfTexts
<1> HIDE DEF m
<1>3. SubSeq(m, 1, Len(m)) = m /\ Len(m) <= Len(m)
  BY <1>1, SubSeqFull
<1> QED
  BY <1>2, <1>3 DEF Mirrors, m

-----------------------------------------------------------------------------
(* The journal and the session.                                             *)

Instruction == MessageLine(Said(Run, "user"))
CreationLines == {<<IndexLine, Mark, Instruction>>, <<Mark, Instruction>>, <<Instruction>>}

\* The instruction is in the journal and counted, or neither.
Instructed ==
  \/ file.messages = <<Said(Run, "user")>> /\ snap[Run].persisted = 1
  \/ file.messages = <<>> /\ snap[Run].persisted = 0

\* The thread is journalled, its run not queued and the thread in no table yet.
Creating ==
  /\ entry = NoEntry /\ untabled = 0
  /\ \/ /\ todoLines[Run] \in CreationLines
        /\ file.messages = <<>> /\ snap[Run].persisted = 1
     \/ todoLines[Run] = <<>> /\ Instructed

\* The run is on its way, and its thread in no table yet.
Untabled(p) == p = Run /\ untabled # 0

\* The session of the thread p is a turn of.
SessionOf(p) == IF Untabled(p) THEN untabled ELSE entry.session

\* p has still the messages d to append.
Journalling(p) ==
  \E d \in Seq(Shown), e \in {<<>>, <<Mark>>} :
    /\ todoLines[p] = MessageLines(d) \o e
    /\ Mirrors(file.messages \o d, sessions[SessionOf(p)], snap[p].persisted)

\* What the turn of p has come to.
InPlace(p) ==
  /\ tpc[p] = "creating" => Creating
  /\ tpc[p] # "creating" => (entry = NoEntry <=> Untabled(p))
  /\ tpc[p] \in {"queued", "starting", "saving", "collecting"} => SessionOf(p) = snap[p].session
  /\ tpc[p] = "queued" \/ (tpc[p] = "starting" /\ p = Run) =>
       sessions[snap[p].session] = <<>> /\ Instructed
  /\ tpc[p] = "starting" /\ p # Run =>
       Mirrors(file.messages, sessions[snap[p].session], snap[p].persisted)
  /\ tpc[p] = "saving" => Mirrors(file.messages, talk[p], snap[p].persisted)
  /\ tpc[p] = "collecting" =>
       Mirrors(file.messages, sessions[snap[p].session], snap[p].persisted)
  /\ tpc[p] = "journalling" => Journalling(p)

\* Only a turn that creates its thread or journals has lines to append.
IdleTodo ==
  \A p \in Actors : tpc[p] \notin {"creating", "journalling"} => todoLines[p] = <<>>

\* Nothing happens before the thread is created.
FreshRun ==
  tpc[Run] = "new" =>
    /\ file = EmptyFile /\ ~indexed /\ entry = NoEntry /\ untabled = 0 /\ inbox = <<>>
    /\ todoLines[Reporter] = <<>> /\ \A t \in Turns : ~InTurn(t)

OneTurn == \A p, q \in Actors : InTurn(p) /\ InTurn(q) => p = q

Settled ==
  entry # NoEntry /\ (\A p \in Actors : ~InTurn(p)) =>
    Mirrors(file.messages, sessions[entry.session], entry.persisted)

Undisturbed ==
  /\ file.tail = NoTail /\ OneTurn /\ Settled
  /\ \A p \in Actors : InTurn(p) => InPlace(p)

MirrorInv == IdleTodo /\ FreshRun /\ (~disturbed => Undisturbed)

\* At the start there is nothing to mirror.
LEMMA MirrorInit ==
  ASSUME ThreadsInit PROVE MirrorInv
<1>1. \A p \in Actors : tpc[p] = "new" /\ todoLines[p] = <<>> /\ ~InTurn(p)
  BY DEF ThreadsInit, InTurn, Writers
<1>2. todoLines[Reporter] = <<>> /\ inbox = <<>> /\ entry = NoEntry /\ ~indexed
      /\ untabled = 0 /\ file = EmptyFile /\ file.tail = NoTail
  BY DEF ThreadsInit, Writers, EmptyFile
<1>3. IdleTodo /\ FreshRun
  BY <1>1, <1>2, WritersAre DEF IdleTodo, FreshRun
<1>4. Undisturbed
  BY <1>1, <1>2 DEF Undisturbed, OneTurn, Settled
<1> QED
  BY <1>3, <1>4 DEF MirrorInv

\* One actor moves, and has nothing to append unless it creates or journals.
LEMMA IdleMoves ==
  ASSUME ThreadTypes, IdleTodo, NEW p \in Actors, NEW x, Goes(p, x),
         \A q \in Actors : q # p => todoLines'[q] = todoLines[q],
         x \in {"creating", "journalling"} \/ todoLines'[p] = <<>>
  PROVE  IdleTodo'
<1>1. tpc'[p] = x /\ \A q \in Actors : q # p => tpc'[q] = tpc[q]
  BY KnownTypes DEF Goes
<1> QED
  BY <1>1 DEF IdleTodo

\* While an actor is in a turn the thread is no longer new.
LEMMA FreshMoves ==
  ASSUME ThreadTypes, FreshRun, NEW p \in Actors, NEW x, Goes(p, x), InTurn(p), x # "new"
  PROVE  FreshRun'
<1>1. tpc[Run] # "new"
  <2>1. CASE p = Run
    BY <2>1 DEF InTurn
  <2>2. CASE p # Run
    BY <2>2, WritersAre DEF FreshRun
  <2> QED
    BY <2>1, <2>2
<1>2. tpc'[Run] # "new"
  BY <1>1, KnownTypes, WritersAre DEF Goes
<1> QED
  BY <1>2 DEF FreshRun

\* One actor moves in its turn while no other is in one.
LEMMA TurnMoves ==
  ASSUME ThreadTypes, NEW p \in Actors, NEW x, Goes(p, x), x \notin {"new", "done", "gone"},
         \A q \in Actors : q # p => ~InTurn(q), InPlace(p)', file'.tail = NoTail
  PROVE  Undisturbed'
<1>1. InTurn(p)' /\ \A q \in Actors : q # p => ~InTurn(q)'
  BY KnownTypes DEF Goes, InTurn
<1>2. OneTurn'
  BY <1>1 DEF OneTurn
<1>3. Settled'
  BY <1>1 DEF Settled
<1> QED
  BY <1>1, <1>2, <1>3 DEF Undisturbed

\* In a turn that nothing has disturbed nobody else is.
LEMMA AloneInTurn ==
  ASSUME Undisturbed, NEW p \in Actors, InTurn(p)
  PROVE  (\A q \in Actors : q # p => ~InTurn(q)) /\ InPlace(p) /\ file.tail = NoTail
BY DEF Undisturbed, OneTurn

\* delegate_to_agent has the instruction to append, and nothing is in the file.
LEMMA MirrorCreates ==
  ASSUME ThreadTypes, MirrorInv, CreateThread PROVE MirrorInv'
<1>0. /\ tpc[Run] = "new" /\ Goes(Run, "creating") /\ Run \in Actors
      /\ todoLines' = [todoLines EXCEPT ![Run] = <<IndexLine, Mark, Instruction>>]
      /\ snap' = [snap EXCEPT ![Run].persisted = 1]
      /\ UNCHANGED <<file, entry, untabled, disturbed>>
  BY WritersAre DEF CreateThread, WillAppend, Instruction, fileVars
<1>1. /\ file = EmptyFile /\ entry = NoEntry /\ untabled = 0 /\ \A q \in Actors : ~InTurn(q)
  BY <1>0, WritersAre DEF MirrorInv, FreshRun, InTurn
<1>2. IdleTodo'
  <2>1. \A q \in Actors : q # Run => todoLines'[q] = todoLines[q]
    BY <1>0, KnownTypes, WritersAre
  <2> QED
    BY <1>0, <2>1, IdleMoves DEF MirrorInv
<1>3. tpc'[Run] = "creating"
  BY <1>0, KnownTypes DEF Goes
<1>4. FreshRun'
  BY <1>3 DEF FreshRun
<1>5. Creating'
  <2>1. todoLines'[Run] = <<IndexLine, Mark, Instruction>>
    BY <1>0, KnownTypes, WritersAre
  <2>2. snap'[Run].persisted = 1
    <3>1. snap[Run] \in Entries(Len(sessions)) /\ snap \in [Actors -> Entries(Len(sessions))]
      BY <1>0, KnownTypes
    <3> QED
      BY <1>0, <3>1 DEF Entries
  <2>3. file'.messages = <<>>
    BY <1>0, <1>1 DEF EmptyFile
  <2>4. Instruction' = Instruction /\ IndexLine' = IndexLine /\ Mark' = Mark /\ NoEntry' = NoEntry
    OBVIOUS
  <2> QED
    BY <1>0, <1>1, <2>1, <2>2, <2>3 DEF Creating, CreationLines
<1>6. InPlace(Run)'
  BY <1>3, <1>5 DEF InPlace
<1>7. file'.tail = NoTail
  BY <1>0, <1>1 DEF EmptyFile
<1>8. Undisturbed'
  BY <1>0, <1>1, <1>6, <1>7, TurnMoves
<1> QED
  BY <1>2, <1>4, <1>8 DEF MirrorInv

\* The run is queued with an empty session, and the instruction journalled, or lost.
LEMMA MirrorEnqueues ==
  ASSUME ThreadTypes, MirrorInv, Enqueues PROVE MirrorInv'
<1>0. /\ tpc[Run] = "creating" /\ todoLines[Run] = <<>> /\ Goes(Run, "queued") /\ Run \in Actors
      /\ InTurn(Run)
      /\ sessions' = Append(sessions, <<>>)
      /\ snap' = [snap EXCEPT ![Run].session = Len(sessions')]
      /\ untabled' = Len(sessions')
      /\ UNCHANGED <<file, entry, todoLines, disturbed>>
  BY WritersAre DEF Enqueues, fileVars, InTurn
<1>1. IdleTodo' /\ FreshRun'
  <2>1. IdleTodo'
    BY <1>0, IdleMoves DEF MirrorInv
  <2>2. FreshRun'
    BY <1>0, FreshMoves DEF MirrorInv
  <2> QED
    BY <2>1, <2>2
<1>2. SUFFICES ASSUME ~disturbed PROVE Undisturbed'
  BY <1>0, <1>1 DEF MirrorInv
<1>3. (\A q \in Actors : q # Run => ~InTurn(q)) /\ InPlace(Run) /\ file.tail = NoTail
  BY <1>0, <1>2, AloneInTurn DEF MirrorInv
<1>4. Instructed /\ entry = NoEntry
  <2>1. <<>> \notin CreationLines
    BY DEF CreationLines
  <2> QED
    BY <1>0, <1>3, <2>1 DEF InPlace, Creating
<1>5. PICK n \in Nat : Len(sessions') = n + 1 /\ sessions'[n + 1] = <<>>
  <2>1. sessions \in Seq(Seq(ThreadMsg)) /\ <<>> \in Seq(ThreadMsg)
    BY KnownTypes
  <2>2. PICK n \in Nat : Len(sessions) = n
    BY <2>1
  <2> DEFINE a == Append(sessions, <<>>)
  <2>3. Len(a) = Len(sessions) + 1 /\ a[Len(sessions) + 1] = <<>>
    BY <2>1, AppendProperties
  <2> HIDE DEF a
  <2>4. Len(a) = n + 1 /\ a[n + 1] = <<>>
    BY <2>2, <2>3
  <2> QED
    BY <1>0, <2>4 DEF a
<1>6. /\ snap'[Run].session = n + 1 /\ snap'[Run].persisted = snap[Run].persisted
      /\ untabled' = n + 1 /\ untabled' # 0
  <2>1. snap[Run] \in Entries(Len(sessions)) /\ snap \in [Actors -> Entries(Len(sessions))]
    BY <1>0, KnownTypes
  <2>2. snap'[Run].session = n + 1 /\ snap'[Run].persisted = snap[Run].persisted
    BY <1>0, <1>5, <2>1 DEF Entries
  <2>3. untabled' = n + 1 /\ untabled' # 0
    BY <1>0, <1>5
  <2> QED
    BY <2>2, <2>3
<1>7. Instructed' /\ Untabled(Run)' /\ SessionOf(Run)' = n + 1
  BY <1>0, <1>4, <1>6 DEF Instructed, Untabled, SessionOf
<1>8. tpc'[Run] = "queued" /\ entry' = NoEntry
  BY <1>0, <1>4, KnownTypes DEF Goes
<1>9. InPlace(Run)'
  BY <1>5, <1>6, <1>7, <1>8 DEF InPlace
<1> QED
  BY <1>0, <1>3, <1>9, TurnMoves

\* A run refused leaves no thread in the table, and one dropped disturbs the mirror.
LEMMA MirrorDrops ==
  ASSUME ThreadTypes, MirrorInv, IsRefused \/ RunIsDropped PROVE MirrorInv'
<1>0. /\ tpc[Run] \in {"creating", "queued"} /\ Goes(Run, "gone") /\ Run \in Actors
      /\ InTurn(Run) /\ todoLines[Run] = <<>>
      /\ (~disturbed' => ~disturbed /\ tpc[Run] = "creating")
      /\ UNCHANGED <<file, entry, untabled, sessions, todoLines>>
  <2>1. CASE IsRefused
    BY <2>1, WritersAre DEF IsRefused, fileVars, InTurn
  <2>2. CASE RunIsDropped
    BY <2>2, WritersAre DEF RunIsDropped, fileVars, InTurn, MirrorInv, IdleTodo
  <2> QED
    BY <2>1, <2>2
<1>1. IdleTodo' /\ FreshRun'
  <2>1. IdleTodo'
    BY <1>0, IdleMoves DEF MirrorInv
  <2>2. FreshRun'
    BY <1>0, FreshMoves DEF MirrorInv
  <2> QED
    BY <2>1, <2>2
<1>2. SUFFICES ASSUME ~disturbed, tpc[Run] = "creating" PROVE Undisturbed'
  BY <1>0, <1>1 DEF MirrorInv
<1>3. (\A q \in Actors : q # Run => ~InTurn(q)) /\ InPlace(Run) /\ file.tail = NoTail
  BY <1>0, <1>2, AloneInTurn DEF MirrorInv
<1>4. entry = NoEntry
  BY <1>2, <1>3 DEF InPlace, Creating
<1>5. \A q \in Actors : ~InTurn(q)'
  BY <1>0, <1>3, KnownTypes DEF Goes, InTurn
<1> QED
  BY <1>0, <1>3, <1>4, <1>5 DEF Undisturbed, OneTurn, Settled

\* The thread enters the table while its run is on the way, or the mirror is disturbed.
LEMMA MirrorInserts ==
  ASSUME ThreadTypes, MirrorInv, InsertThread PROVE MirrorInv'
<1>0. /\ untabled # 0 /\ untabled' = 0 /\ Run \in Actors
      /\ entry' = [session |-> untabled, persisted |-> 0]
      /\ disturbed' = (disturbed \/ ~InTurn(Run))
      /\ UNCHANGED <<file, sessions, tpc, snap, talk, todoLines, inbox>>
  BY WritersAre DEF InsertThread, fileVars, actorVars
<1>1. IdleTodo' /\ FreshRun'
  <2>1. IdleTodo'
    BY <1>0 DEF MirrorInv, IdleTodo
  <2>2. tpc[Run] # "new"
    BY <1>0 DEF MirrorInv, FreshRun
  <2> QED
    BY <1>0, <2>1, <2>2 DEF FreshRun
<1>2. SUFFICES ASSUME ~disturbed, InTurn(Run) PROVE Undisturbed'
  BY <1>0, <1>1 DEF MirrorInv
<1>3. (\A q \in Actors : q # Run => ~InTurn(q)) /\ InPlace(Run) /\ file.tail = NoTail
  BY <1>0, <1>2, AloneInTurn DEF MirrorInv
<1>4. tpc[Run] # "creating" /\ SessionOf(Run) = untabled
  BY <1>0, <1>3 DEF InPlace, Creating, SessionOf, Untabled
<1>5. entry'.session = untabled /\ entry' # NoEntry
  BY <1>0 DEF NoEntry
<1>6. SessionOf(Run)' = SessionOf(Run) /\ ~Untabled(Run)'
  BY <1>0, <1>4, <1>5 DEF SessionOf, Untabled
<1>7. (Instructed' <=> Instructed) /\ (Journalling(Run)' <=> Journalling(Run))
  BY <1>0, <1>6 DEF Instructed, Journalling
<1>8. InPlace(Run)'
  BY <1>0, <1>3, <1>4, <1>5, <1>6, <1>7 DEF InPlace
<1>9. Goes(Run, tpc[Run]) /\ tpc[Run] \notin {"new", "done", "gone"}
  BY <1>0, <1>2, KnownTypes DEF Goes, InTurn
<1> QED
  BY <1>0, <1>3, <1>8, <1>9, TurnMoves

\* The run starts with an empty session and the instruction journalled, or lost.
LEMMA MirrorBegins ==
  ASSUME ThreadTypes, MirrorInv, RunBegins PROVE MirrorInv'
<1>0. /\ tpc[Run] = "queued" /\ Goes(Run, "starting") /\ Run \in Actors /\ InTurn(Run)
      /\ MarkAppended /\ (~disturbed' => ~disturbed)
      /\ UNCHANGED <<entry, untabled, sessions, snap, talk, todoLines>>
  BY WritersAre DEF RunBegins, Marks, InTurn
<1>1. IdleTodo' /\ FreshRun'
  <2>1. IdleTodo'
    <3>1. todoLines'[Run] = <<>>
      BY <1>0 DEF MirrorInv, IdleTodo
    <3> QED
      BY <1>0, <3>1, IdleMoves DEF MirrorInv
  <2>2. FreshRun'
    BY <1>0, FreshMoves DEF MirrorInv
  <2> QED
    BY <2>1, <2>2
<1>2. SUFFICES ASSUME ~disturbed PROVE Undisturbed'
  BY <1>0, <1>1 DEF MirrorInv
<1>3. (\A q \in Actors : q # Run => ~InTurn(q)) /\ InPlace(Run) /\ file.tail = NoTail
  BY <1>0, <1>2, AloneInTurn DEF MirrorInv
<1>4. file'.tail = NoTail /\ file'.messages = file.messages
  BY <1>0, <1>3, MarkedLines
<1>5. tpc'[Run] = "starting"
  BY <1>0, KnownTypes DEF Goes
<1>6. Instructed' /\ SessionOf(Run)' = SessionOf(Run) /\ (Untabled(Run)' <=> Untabled(Run))
  BY <1>0, <1>3, <1>4 DEF InPlace, Instructed, SessionOf, Untabled
<1>7. InPlace(Run)'
  BY <1>0, <1>3, <1>5, <1>6 DEF InPlace
<1> QED
  BY <1>0, <1>3, <1>4, <1>7, TurnMoves

\* No turn is counted exactly when nobody is in one.
LEMMA NoTurns ==
  ASSUME InTurns = 0 PROVE \A p \in Actors : ~InTurn(p)
<1> DEFINE B == {p \in Actors : InTurn(p)}
<1>1. IsFiniteSet(Actors)
  BY ThreadsAssumption, FS_AddElement DEF Actors
<1>2. IsFiniteSet(B)
  BY <1>1, FS_Subset
<1>3. Cardinality(B) = 0
  BY DEF InTurns
<1>4. B = {}
  BY <1>2, <1>3, FS_EmptySet
<1> QED
  BY <1>4

\* A count of turns that is not positive is zero.
LEMMA TurnsCounted == ~(InTurns > 0) => InTurns = 0
<1> DEFINE B == {p \in Actors : InTurn(p)}
<1>1. IsFiniteSet(Actors)
  BY ThreadsAssumption, FS_AddElement DEF Actors
<1>2. Cardinality(B) \in Nat
  BY <1>1, FS_Subset, FS_CardinalityType
<1>3. InTurns = Cardinality(B)
  BY DEF InTurns
<1> QED
  BY <1>2, <1>3

\* subagent_turn, alone, reads an entry that the journal mirrors.
LEMMA MirrorReads ==
  ASSUME ThreadTypes, MirrorInv, NEW t \in Turns, TurnReads(t) PROVE MirrorInv'
<1>0. /\ tpc[t] = "new" /\ t \in Actors /\ t # Run /\ ~InTurn(t)
      /\ UNCHANGED <<file, indexed, entry, untabled, sessions, talk, todoLines, inbox>>
  BY WritersAre DEF TurnReads, InTurn, fileVars, reportVars
<1>1. todoLines'[t] = <<>>
  BY <1>0 DEF MirrorInv, IdleTodo
<1>2. CASE entry = NoEntry
  <2>1. Goes(t, "gone") /\ UNCHANGED <<snap, disturbed>>
    BY <1>2 DEF TurnReads
  <2>2. tpc'[t] = "gone" /\ \A q \in Actors : q # t => tpc'[q] = tpc[q]
    BY <1>0, <2>1, KnownTypes DEF Goes
  <2>3. \A q \in Actors : InTurn(q)' <=> InTurn(q)
    BY <1>0, <2>2 DEF InTurn
  <2>4. IdleTodo'
    BY <1>0, <1>1, <2>1, IdleMoves DEF MirrorInv
  <2>5. FreshRun'
    BY <1>0, <2>2, <2>3, WritersAre DEF MirrorInv, FreshRun
  <2>6. ASSUME ~disturbed PROVE Undisturbed'
    <3>1. Undisturbed
      BY <2>6 DEF MirrorInv
    <3>2. OneTurn' /\ Settled'
      BY <1>0, <2>3, <3>1, <1>2 DEF Undisturbed, OneTurn, Settled
    <3>3. ASSUME NEW p \in Actors, InTurn(p)' PROVE InPlace(p)'
      <4>1. InTurn(p) /\ p # t
        BY <1>0, <2>3, <3>3
      <4>2. InPlace(p) /\ tpc'[p] = tpc[p]
        BY <2>2, <3>1, <4>1 DEF Undisturbed
      <4>3. Instructed' <=> Instructed
        BY <1>0, <2>1 DEF Instructed
      <4>4. Creating' <=> Creating
        BY <1>0, <2>1, <4>3 DEF Creating
      <4>6. SessionOf(p)' = SessionOf(p) /\ (Untabled(p)' <=> Untabled(p))
        BY <1>0 DEF SessionOf, Untabled
      <4>5. Journalling(p)' <=> Journalling(p)
        BY <1>0, <2>1, <4>6 DEF Journalling
      <4> QED
        BY <1>0, <2>1, <4>2, <4>3, <4>4, <4>5, <4>6 DEF InPlace
    <3> QED
      BY <1>0, <3>1, <3>2, <3>3 DEF Undisturbed
  <2> QED
    BY <2>1, <2>4, <2>5, <2>6 DEF MirrorInv
<1>3. CASE entry # NoEntry
  <2>1. /\ Goes(t, "starting") /\ snap' = [snap EXCEPT ![t] = entry]
        /\ (~disturbed' => ~disturbed /\ ~(InTurns > 0))
    BY <1>3 DEF TurnReads
  <2>2. tpc'[t] = "starting" /\ \A q \in Actors : q # t => tpc'[q] = tpc[q]
    BY <1>0, <2>1, KnownTypes DEF Goes
  <2>3. IdleTodo'
    BY <1>0, <1>1, <2>1, IdleMoves DEF MirrorInv
  <2>4. FreshRun'
    BY <1>0, <1>3, <2>2, WritersAre DEF MirrorInv, FreshRun
  <2>5. ASSUME ~disturbed' PROVE Undisturbed'
    <3>1. Undisturbed /\ \A q \in Actors : ~InTurn(q)
      BY <2>1, <2>5, NoTurns, TurnsCounted DEF MirrorInv
    <3>2. Mirrors(file.messages, sessions[entry.session], entry.persisted)
      BY <1>3, <3>1 DEF Undisturbed, Settled
    <3>3. snap'[t] = entry
      BY <1>0, <2>1, KnownTypes
    <3>4. Mirrors(file.messages, sessions[entry.session], entry.persisted)'
      BY <1>0, <3>2
    <3>7. SessionOf(t)' = entry.session /\ ~Untabled(t)'
      BY <1>0 DEF SessionOf, Untabled
    <3>5. InPlace(t)'
      BY <1>0, <1>3, <2>2, <3>3, <3>4, <3>7 DEF InPlace
    <3>6. file'.tail = NoTail
      BY <1>0, <3>1 DEF Undisturbed
    <3> QED
      BY <1>0, <2>1, <3>1, <3>5, <3>6, TurnMoves
  <2> QED
    BY <2>3, <2>4, <2>5 DEF MirrorInv
<1> QED
  BY <1>2, <1>3

\* execute_turn adds to the conversation behind what is journalled.
LEMMA MirrorTalks ==
  ASSUME ThreadTypes, MirrorInv, NEW p \in Actors, NEW before \in Seq(Asides),
         NEW end \in Endings, Talks(p, before, end), NEW ok \in BOOLEAN, ok <=> end = "completed"
  PROVE  MirrorInv'
<1> DEFINE s == snap[p].session
           c == sessions[s]
           w == Opened(c) \o TurnOf(p, ok)
<1>0. /\ tpc[p] = "starting" /\ Goes(p, "saving") /\ InTurn(p)
      /\ UNCHANGED <<file, entry, untabled, snap, todoLines, disturbed>>
  BY DEF Talks, InTurn, fileVars
<1>1. /\ c \in Seq(ThreadMsg) /\ Opened(c) \in Seq(ThreadMsg) /\ talk' = [talk EXCEPT ![p] = w]
  BY TalksFacts
<1>2. IdleTodo' /\ FreshRun'
  <2>1. IdleTodo'
    <3>1. todoLines'[p] = <<>>
      BY <1>0 DEF MirrorInv, IdleTodo
    <3> QED
      BY <1>0, <3>1, IdleMoves DEF MirrorInv
  <2>2. FreshRun'
    BY <1>0, FreshMoves DEF MirrorInv
  <2> QED
    BY <2>1, <2>2
<1>3. SUFFICES ASSUME ~disturbed PROVE Undisturbed'
  BY <1>0, <1>2 DEF MirrorInv
<1>4. (\A q \in Actors : q # p => ~InTurn(q)) /\ InPlace(p) /\ file.tail = NoTail
  BY <1>0, <1>3, AloneInTurn DEF MirrorInv
<1>5. tpc'[p] = "saving" /\ talk'[p] = w
  BY <1>0, <1>1, KnownTypes DEF Goes
<1>6. snap[p].persisted \in Nat /\ TurnOf(p, ok) \in Seq(ThreadMsg)
  BY KnownTypes, TurnType
<1>7. Mirrors(file.messages, w, snap[p].persisted)
  <2>1. CASE p # Run
    <3>1. Mirrors(file.messages, c, snap[p].persisted)
      BY <1>0, <1>4, <2>1 DEF InPlace
    <3>2. Mirrors(file.messages, Opened(c), snap[p].persisted)
      BY <3>1, ProjectOpened DEF Mirrors
    <3> QED
      BY <1>1, <1>6, <3>2, MirrorsGrow
  <2>2. CASE p = Run
    <3>1. c = <<>> /\ Instructed
      BY <1>0, <1>4, <2>2 DEF InPlace
    <3>2. w = <<SystemText>> \o TurnOf(p, ok)
      BY <3>1 DEF Opened
    <3>3. CASE file.messages = <<Said(Run, "user")>> /\ snap[Run].persisted = 1
      <4>1. Mirrors(<<Said(p, "user")>>, <<SystemText>> \o TurnOf(p, ok), 1)
        BY MirrorsTold
      <4> QED
        BY <2>2, <3>2, <3>3, <4>1
    <3>4. CASE file.messages = <<>> /\ snap[Run].persisted = 0
      <4>1. w \in Seq(ThreadMsg)
        BY <1>1, <1>6, ConcatProperties
      <4>2. Mirrors(<<>>, w, 0)
        BY <4>1, MirrorsNothing
      <4> QED
        BY <2>2, <3>4, <4>2
    <3> QED
      BY <3>1, <3>3, <3>4 DEF Instructed
  <2> QED
    BY <2>1, <2>2
<1>10. SessionOf(p)' = SessionOf(p) /\ (Untabled(p)' <=> Untabled(p))
  BY <1>0 DEF SessionOf, Untabled
<1> HIDE DEF w
<1>8. Mirrors(file.messages, talk[p], snap[p].persisted)'
  BY <1>0, <1>5, <1>7
<1>9. InPlace(p)'
  BY <1>0, <1>4, <1>5, <1>8, <1>10 DEF InPlace
<1> QED
  BY <1>0, <1>4, <1>9, TurnMoves

\* The conversation saved is the one that was mirrored.
LEMMA MirrorSaves ==
  ASSUME ThreadTypes, MirrorInv, NEW p \in Actors, Saves(p) PROVE MirrorInv'
<1> DEFINE s == snap[p].session
<1>0. /\ tpc[p] = "saving" /\ Goes(p, "collecting") /\ InTurn(p)
      /\ sessions' = [sessions EXCEPT ![s] = talk[p]]
      /\ UNCHANGED <<file, entry, untabled, snap, todoLines, disturbed>>
  BY DEF Saves, InTurn, fileVars
<1>2. IdleTodo' /\ FreshRun'
  <2>1. IdleTodo'
    <3>1. todoLines'[p] = <<>>
      BY <1>0 DEF MirrorInv, IdleTodo
    <3> QED
      BY <1>0, <3>1, IdleMoves DEF MirrorInv
  <2>2. FreshRun'
    BY <1>0, FreshMoves DEF MirrorInv
  <2> QED
    BY <2>1, <2>2
<1>3. SUFFICES ASSUME ~disturbed PROVE Undisturbed'
  BY <1>0, <1>2 DEF MirrorInv
<1>4. (\A q \in Actors : q # p => ~InTurn(q)) /\ InPlace(p) /\ file.tail = NoTail
  BY <1>0, <1>3, AloneInTurn DEF MirrorInv
<1>5. tpc'[p] = "collecting"
  BY <1>0, KnownTypes DEF Goes
<1>6. s \in DOMAIN sessions
  <2>1. s # 0
    BY <1>0 DEF ThreadTypes, EntryTypes
  <2> QED
    BY <2>1, SessionRead
<1>7. sessions'[s] = talk[p]
  BY <1>0, <1>6
<1>8. Mirrors(file.messages, talk[p], snap[p].persisted)
  BY <1>0, <1>4 DEF InPlace
<1>9. Mirrors(file.messages, sessions[snap[p].session], snap[p].persisted)'
  BY <1>0, <1>7, <1>8
<1>11. SessionOf(p)' = SessionOf(p) /\ (Untabled(p)' <=> Untabled(p))
  BY <1>0 DEF SessionOf, Untabled
<1>10. InPlace(p)'
  BY <1>0, <1>4, <1>5, <1>9, <1>11 DEF InPlace
<1> QED
  BY <1>0, <1>4, <1>10, TurnMoves

\* What is to be appended and what is in the file are the whole session.
LEMMA MirrorCollects ==
  ASSUME ThreadTypes, MirrorInv, NEW p \in Actors, Collects(p) PROVE MirrorInv'
<1> DEFINE c == sessions[snap[p].session]
           k == snap[p].persisted
<1>1. PICK d \in Seq(Shown), n \in Nat :
           /\ tpc[p] = "collecting" /\ tpc' = [tpc EXCEPT ![p] = "journalling"]
           /\ c \in Seq(ThreadMsg)
           /\ d = (IF p = Run /\ fate[p] = "failed" THEN <<>> ELSE Delta(Project(c), k))
           /\ n = (IF p = Run /\ fate[p] = "failed" THEN k ELSE Len(Project(c)))
           /\ snap' = [snap EXCEPT ![p] = [session |-> 0, persisted |-> n]]
           /\ todoLines' = [todoLines EXCEPT ![p] = MessageLines(d) \o ErrorLines(p)]
  BY CollectsFacts
<1>0. /\ Goes(p, "journalling") /\ InTurn(p)
      /\ UNCHANGED <<file, entry, untabled, sessions, disturbed>>
  BY <1>1 DEF Collects, InTurn, fileVars, Goes
<1>2. IdleTodo' /\ FreshRun'
  <2>1. IdleTodo'
    <3>1. \A q \in Actors : q # p => todoLines'[q] = todoLines[q]
      BY <1>1, KnownTypes, WritersAre
    <3> QED
      BY <1>0, <3>1, IdleMoves DEF MirrorInv
  <2>2. FreshRun'
    BY <1>0, FreshMoves DEF MirrorInv
  <2> QED
    BY <2>1, <2>2
<1>3. SUFFICES ASSUME ~disturbed PROVE Undisturbed'
  BY <1>0, <1>2 DEF MirrorInv
<1>4. (\A q \in Actors : q # p => ~InTurn(q)) /\ InPlace(p) /\ file.tail = NoTail
  BY <1>0, <1>3, AloneInTurn DEF MirrorInv
<1>5. tpc'[p] = "journalling" /\ snap'[p].persisted = n
      /\ todoLines'[p] = MessageLines(d) \o ErrorLines(p)
  BY <1>1, KnownTypes, WritersAre
<1>6. Mirrors(file.messages, c, k) /\ (entry = NoEntry <=> Untabled(p))
      /\ SessionOf(p) = snap[p].session
  BY <1>1, <1>4 DEF InPlace
<1>11. SessionOf(p)' = SessionOf(p) /\ (Untabled(p)' <=> Untabled(p))
  BY <1>0 DEF SessionOf, Untabled
<1>7. Mirrors(file.messages \o d, c, n)
  <2>0. file.messages \in Seq(Shown) /\ k \in Nat
    BY KnownTypes
  <2>1. CASE p = Run /\ fate[p] = "failed"
    <3>1. d = <<>> /\ n = k
      BY <1>1, <2>1
    <3>2. file.messages \o <<>> = file.messages
      BY <2>0, ConcatEmptySeq
    <3> QED
      BY <1>6, <3>1, <3>2
  <2>2. CASE ~(p = Run /\ fate[p] = "failed")
    <3>1. d = Delta(Project(c), k) /\ n = Len(Project(c)) /\ c \in Seq(ThreadMsg)
      BY <1>1, <2>2
    <3> HIDE DEF c, k
    <3>2. Mirrors(file.messages \o Delta(Project(c), k), c, Len(Project(c)))
      BY <1>6, <2>0, <3>1, MirrorsCollected
    <3> QED
      BY <3>1, <3>2
  <2> QED
    BY <2>1, <2>2
<1>8. ErrorLines(p) \in {<<>>, <<Mark>>}
  BY DEF ErrorLines
<1>9. Mirrors(file'.messages \o d, sessions'[SessionOf(p)'], snap'[p].persisted)
  BY <1>0, <1>5, <1>6, <1>7, <1>11
<1>10. Journalling(p)'
  BY <1>5, <1>8, <1>9 DEF Journalling
<1>12. InPlace(p)'
  BY <1>0, <1>5, <1>6, <1>10, <1>11 DEF InPlace
<1> QED
  BY <1>0, <1>4, <1>12, TurnMoves

\* The first and the rest of a list made of them.
LEMMA ConsIs ==
  ASSUME NEW S, NEW x \in Seq(S), NEW h \in S
  PROVE  /\ <<h>> \o x \in Seq(S) /\ <<h>> \o x # <<>>
         /\ Head(<<h>> \o x) = h /\ Tail(<<h>> \o x) = x
<1> DEFINE u == <<h>>
           w == u \o x
<1>1. u \in Seq(S) /\ Len(u) = 1 /\ u[1] = h
  OBVIOUS
<1> HIDE DEF u
<1>2. u \in Seq(S) /\ Len(x) \in Nat
  BY <1>1
<1>3. /\ w \in Seq(S) /\ Len(w) = Len(u) + Len(x)
      /\ \A i \in 1..Len(u) + Len(x) : w[i] = IF i <= Len(u) THEN u[i] ELSE x[i - Len(u)]
  BY <1>2, ConcatProperties
<1> HIDE DEF w
<1>4. /\ Len(w) = Len(x) + 1 /\ 1 \in 1..Len(u) + Len(x) /\ 1 <= Len(u)
      /\ \A i \in 1..Len(x) : /\ i + 1 \in 1..Len(u) + Len(x) /\ ~(i + 1 <= Len(u))
                              /\ i + 1 - Len(u) = i
  BY <1>1, <1>2, <1>3
<1>5. w # <<>> /\ w[1] = h /\ \A i \in 1..Len(x) : w[i + 1] = x[i]
  BY <1>1, <1>2, <1>3, <1>4
<1>6. /\ Tail(w) \in Seq(S) /\ Len(Tail(w)) = Len(w) - 1
      /\ \A i \in 1..Len(Tail(w)) : Tail(w)[i] = w[i + 1]
  BY <1>3, <1>5, HeadTailProperties
<1>7. Len(Tail(w)) = Len(x)
  BY <1>2, <1>4, <1>6
<1>8. Tail(w) = x
  BY <1>5, <1>6, <1>7, SeqEqual
<1>9. Head(w) = h
  BY <1>3, <1>5
<1> QED
  BY <1>3, <1>5, <1>8, <1>9 DEF w, u

\* The messages of a turn as lines.
LEMMA MessageLinesAre ==
  ASSUME NEW d \in Seq(Shown)
  PROVE  /\ MessageLines(d) \in Seq(ThreadLine) /\ Len(MessageLines(d)) = Len(d)
         /\ \A i \in 1..Len(d) : MessageLines(d)[i] = MessageLine(d[i])
<1>1. \A k \in DOMAIN d : MessageLine(d[k]) \in ThreadLine
  BY LinesAre
<1>2. Len(d) \in Nat /\ DOMAIN d = 1..Len(d)
  OBVIOUS
<1>3. MessageLines(d) \in Seq(ThreadLine)
  BY <1>1, <1>2 DEF MessageLines
<1>4. DOMAIN MessageLines(d) = 1..Len(d)
  BY <1>2 DEF MessageLines
<1>5. Len(MessageLines(d)) = Len(d)
  BY <1>2, <1>3, <1>4
<1> QED
  BY <1>2, <1>3, <1>5 DEF MessageLines

\* The first of the messages as a line, and the others.
LEMMA MessageLinesOf ==
  ASSUME NEW d \in Seq(Shown), d # <<>>
  PROVE  /\ d[1] \in Shown /\ Tail(d) \in Seq(Shown)
         /\ d = <<d[1]>> \o Tail(d)
         /\ MessageLines(d) = <<MessageLine(d[1])>> \o MessageLines(Tail(d))
<1> DEFINE t == Tail(d)
           a == MessageLines(d)
           b == MessageLines(t)
           r == SubSeq(a, 2, Len(a))
<1>1. d[1] \in Shown /\ t \in Seq(Shown) /\ d = <<d[1]>> \o t
  <2>1. d = <<d[1]>> \o SubSeq(d, 2, Len(d)) /\ t = SubSeq(d, 2, Len(d))
    BY FirstAndRest, TailIsSubSeq
  <2>2. t \in Seq(Shown) /\ d[1] \in Shown
    BY HeadTailProperties
  <2> HIDE DEF t
  <2> QED
    BY <2>1, <2>2
<1>2. Len(t) = Len(d) - 1 /\ \A i \in 1..Len(t) : t[i] = d[i + 1]
  BY HeadTailProperties
<1> HIDE DEF t
<1>3. /\ a \in Seq(ThreadLine) /\ Len(a) = Len(d)
      /\ \A i \in 1..Len(d) : a[i] = MessageLine(d[i])
  BY MessageLinesAre
<1>4. /\ b \in Seq(ThreadLine) /\ Len(b) = Len(t)
      /\ \A i \in 1..Len(t) : b[i] = MessageLine(t[i])
  BY <1>1, MessageLinesAre
<1>5. Len(d) \in Nat /\ Len(d) # 0 /\ Len(t) \in Nat
  BY <1>1
<1> HIDE DEF a, b
<1>6. a # <<>>
  BY <1>3, <1>5
<1>7. r \in Seq(ThreadLine) /\ a = <<a[1]>> \o r
  BY <1>3, <1>6, FirstAndRest
<1>8. Len(r) = Len(t) /\ \A i \in 1..Len(t) : r[i] = b[i]
  <2>1. r = Tail(a)
    BY <1>3, <1>6, TailIsSubSeq
  <2> HIDE DEF r
  <2>2. Len(r) = Len(a) - 1 /\ \A i \in 1..Len(r) : r[i] = a[i + 1]
    BY <1>3, <1>6, <2>1, HeadTailProperties
  <2>3. Len(r) = Len(t)
    BY <1>2, <1>3, <2>2
  <2>4. ASSUME NEW i \in 1..Len(t) PROVE r[i] = b[i]
    <3>1. i + 1 \in 1..Len(d)
      BY <1>2, <1>5
    <3> QED
      BY <1>2, <1>3, <1>4, <2>2, <2>3, <3>1
  <2> QED
    BY <2>3, <2>4
<1> HIDE DEF r
<1>9. r = b
  BY <1>4, <1>7, <1>8, SeqEqual
<1>10. a[1] = MessageLine(d[1])
  <2>1. 1 \in 1..Len(d)
    BY <1>5
  <2> QED
    BY <1>3, <2>1
<1> QED
  BY <1>1, <1>7, <1>9, <1>10 DEF t, a, b

\* The first of the lines todo, which are the messages d and what follows them, and the rest.
JournalStarts(d, e, todo) ==
  \/ d = <<>> /\ Head(todo) = Mark /\ Tail(todo) = <<>>
  \/ /\ d # <<>> /\ Head(todo) = MessageLine(d[1])
     /\ Tail(todo) = MessageLines(Tail(d)) \o e

\* What is left to append, line by line.
LEMMA JournalHead ==
  ASSUME NEW d \in Seq(Shown), NEW e \in {<<>>, <<Mark>>}, NEW todo,
         todo = MessageLines(d) \o e
  PROVE  /\ todo = <<>> => d = <<>>
         /\ todo # <<>> => JournalStarts(d, e, todo)
<1>1. e \in Seq(ThreadLine) /\ MessageLines(d) \in Seq(ThreadLine)
  <2>1. Mark \in ThreadLine
    BY LinesAre
  <2>2. <<Mark>> \in Seq(ThreadLine) /\ <<>> \in Seq(ThreadLine)
    BY <2>1
  <2>3. MessageLines(d) \in Seq(ThreadLine)
    BY MessageLinesAre
  <2> QED
    BY <2>2, <2>3
<1>2. CASE d = <<>>
  <2>1. MessageLines(d) = <<>>
    BY <1>2 DEF MessageLines
  <2>2. todo = e
    BY <1>1, <2>1, ConcatEmptySeq
  <2> QED
    BY <1>2, <2>2, PairsAre DEF JournalStarts
<1>3. CASE d # <<>>
  <2> DEFINE h == MessageLine(d[1])
             x == MessageLines(Tail(d))
  <2>1. MessageLines(d) = <<h>> \o x /\ h \in ThreadLine /\ x \in Seq(ThreadLine)
    BY <1>3, MessageLinesOf, MessageLinesAre, LinesAre
  <2> HIDE DEF h, x
  <2>2. <<h>> \in Seq(ThreadLine)
    BY <2>1
  <2>3. todo = <<h>> \o (x \o e) /\ x \o e \in Seq(ThreadLine)
    BY <1>1, <2>1, <2>2, ConcatAssociative, ConcatProperties
  <2> DEFINE y == x \o e
  <2>4. y \in Seq(ThreadLine) /\ h \in ThreadLine
    BY <2>1, <2>3
  <2> HIDE DEF y
  <2>5. <<h>> \o y # <<>> /\ Head(<<h>> \o y) = h /\ Tail(<<h>> \o y) = y
    BY <2>4, ConsIs
  <2>6. todo # <<>> /\ Head(todo) = h /\ Tail(todo) = y
    BY <2>3, <2>5 DEF y
  <2> QED
    BY <1>3, <2>6 DEF h, x, y, JournalStarts
<1> QED
  BY <1>2, <1>3

\* A message appended is one fewer to append.
LEMMA AppendedMessage ==
  ASSUME NEW ms \in Seq(Shown), NEW d \in Seq(Shown), d # <<>>
  PROVE  Append(ms, d[1]) \o Tail(d) = ms \o d
<1> DEFINE u == <<d[1]>>
           t == Tail(d)
<1>1. d[1] \in Shown /\ t \in Seq(Shown) /\ d = u \o t
  BY MessageLinesOf
<1>2. u \in Seq(Shown) /\ Append(ms, d[1]) = ms \o u
  BY <1>1, AppendIsConcat
<1> HIDE DEF u, t
<1>3. ms \in Seq(Shown) /\ u \in Seq(Shown) /\ t \in Seq(Shown)
  BY <1>1, <1>2
<1>4. (ms \o u) \o t = ms \o (u \o t)
  BY SMTT(30), <1>3, ConcatAssociative
<1> QED
  BY <1>1, <1>2, <1>4 DEF t

\* With nothing left to append the entry counts what the journal has.
LEMMA MirrorRecords ==
  ASSUME ThreadTypes, MirrorInv, NEW p \in Actors, Records(p) PROVE MirrorInv'
<1>0. /\ tpc[p] = "journalling" /\ todoLines[p] = <<>> /\ Goes(p, "done") /\ InTurn(p)
      /\ entry' = IF entry = NoEntry THEN entry
                  ELSE [entry EXCEPT !.persisted = snap[p].persisted]
      /\ MarkAppended /\ (~disturbed' => ~disturbed)
      /\ UNCHANGED <<untabled, sessions, todoLines>>
  BY DEF Records, Marks, InTurn
<1>1. IdleTodo' /\ FreshRun'
  <2>1. IdleTodo'
    BY <1>0, IdleMoves DEF MirrorInv
  <2>2. FreshRun'
    BY <1>0, FreshMoves DEF MirrorInv
  <2> QED
    BY <2>1, <2>2
<1>2. SUFFICES ASSUME ~disturbed PROVE Undisturbed'
  BY <1>0, <1>1 DEF MirrorInv
<1>3. (\A q \in Actors : q # p => ~InTurn(q)) /\ InPlace(p) /\ file.tail = NoTail
  BY <1>0, <1>2, AloneInTurn DEF MirrorInv
<1>4. file'.tail = NoTail /\ file'.messages = file.messages
  BY <1>0, <1>3, MarkedLines
<1>5. \A q \in Actors : ~InTurn(q)'
  BY <1>0, <1>3, KnownTypes DEF Goes, InTurn
<1>14. OneTurn'
  BY <1>5 DEF OneTurn
<1>15. CASE entry = NoEntry
  <2>1. Settled'
    BY <1>0, <1>15 DEF Settled, NoEntry
  <2> QED
    BY <1>4, <1>5, <1>14, <2>1 DEF Undisturbed
<1>16. SUFFICES ASSUME entry # NoEntry PROVE Undisturbed'
  BY <1>15
<1>6. Journalling(p) /\ SessionOf(p) = entry.session
  BY <1>0, <1>3, <1>16 DEF InPlace, SessionOf
<1>7. PICK d \in Seq(Shown), e \in {<<>>, <<Mark>>} :
         /\ todoLines[p] = MessageLines(d) \o e
         /\ Mirrors(file.messages \o d, sessions[SessionOf(p)], snap[p].persisted)
  BY <1>6 DEF Journalling
<1>8. d = <<>>
  BY <1>0, <1>7, JournalHead
<1>9. file.messages \o <<>> = file.messages
  BY KnownTypes, ConcatEmptySeq
<1>10. Mirrors(file.messages, sessions[entry.session], snap[p].persisted)
  BY <1>6, <1>7, <1>8, <1>9
<1>11. entry'.session = entry.session /\ entry'.persisted = snap[p].persisted
  <2>1. entry \in Entries(Len(sessions))
    BY KnownTypes
  <2> QED
    BY <1>0, <1>16, <2>1 DEF Entries
<1>12. Mirrors(file'.messages, sessions'[entry'.session], entry'.persisted)
  BY <1>0, <1>4, <1>10, <1>11
<1>13. Settled'
  BY <1>12 DEF Settled
<1> QED
  BY <1>4, <1>5, <1>13, <1>14 DEF Undisturbed

\* Nobody moves, and the messages in the file stay.
LEMMA StandsStill ==
  ASSUME ThreadTypes, Undisturbed, UNCHANGED <<entry, untabled, sessions, tpc, snap, talk>>,
         \A p \in Actors : todoLines'[p] = todoLines[p],
         file'.messages = file.messages, file'.tail = NoTail
  PROVE  Undisturbed'
<1>1. \A p \in Actors : InTurn(p)' <=> InTurn(p)
  BY DEF InTurn
<1>2. OneTurn' /\ Settled'
  BY <1>1 DEF Undisturbed, OneTurn, Settled
<1>3. ASSUME NEW p \in Actors, InTurn(p)' PROVE InPlace(p)'
  <2>1. InPlace(p)
    BY <1>1, <1>3 DEF Undisturbed
  <2>2. Instructed' <=> Instructed
    BY DEF Instructed
  <2>3. Creating' <=> Creating
    BY <2>2, WritersAre DEF Creating
  <2>5. SessionOf(p)' = SessionOf(p) /\ (Untabled(p)' <=> Untabled(p))
    BY DEF SessionOf, Untabled
  <2>4. Journalling(p)' <=> Journalling(p)
    BY <2>5 DEF Journalling
  <2> QED
    BY <2>1, <2>2, <2>3, <2>4, <2>5 DEF InPlace
<1> QED
  BY <1>2, <1>3 DEF Undisturbed

\* Before the thread is created nobody has anything to append.
LEMMA FreshSilence ==
  ASSUME IdleTodo, FreshRun, tpc[Run] = "new"
  PROVE  \A p \in Writers : todoLines[p] = <<>>
<1>1. \A t \in Turns : todoLines[t] = <<>>
  BY WritersAre DEF FreshRun, IdleTodo, InTurn
<1>2. todoLines[Run] = <<>> /\ todoLines[Reporter] = <<>>
  BY WritersAre DEF FreshRun, IdleTodo
<1> QED
  BY <1>1, <1>2, WritersAre

\* The lines of the thread's creation, one by one.
LEMMA CreationHead ==
  ASSUME NEW todo \in CreationLines
  PROVE  /\ todo # <<>>
         /\ \/ Head(todo) \in {IndexLine, Mark} /\ Tail(todo) \in CreationLines
            \/ Head(todo) = Instruction /\ Tail(todo) = <<>>
<1> DEFINE i == IndexLine
           m == Mark
           n == Instruction
<1>1. todo \in {<<i, m, n>>, <<m, n>>, <<n>>}
  BY DEF CreationLines
<1> HIDE DEF i, m, n
<1>2. Head(<<i, m, n>>) = i /\ Tail(<<i, m, n>>) = <<m, n>>
  OBVIOUS
<1>3. /\ Head(<<m, n>>) = m /\ Tail(<<m, n>>) = <<n>>
      /\ Head(<<n>>) = n /\ Tail(<<n>>) = <<>>
  BY PairsAre
<1>4. <<i, m, n>> # <<>> /\ <<m, n>> # <<>> /\ <<n>> # <<>>
  OBVIOUS
<1>5. /\ todo # <<>>
      /\ \/ Head(todo) \in {i, m} /\ Tail(todo) \in {<<m, n>>, <<n>>}
         \/ Head(todo) = n /\ Tail(todo) = <<>>
  BY <1>1, <1>2, <1>3, <1>4
<1> QED
  BY <1>5 DEF i, m, n, CreationLines

\* Only one writer's lines change.
LEMMA TodoMoves ==
  ASSUME ThreadTypes, NEW p \in Writers, NEW todo, WillAppend(p, todo)
  PROVE  todoLines'[p] = todo /\ \A q \in Writers : q # p => todoLines'[q] = todoLines[q]
BY KnownTypes DEF WillAppend

\* An actor that has something to append creates its thread or journals.
LEMMA IdleAppends ==
  ASSUME ThreadTypes, IdleTodo, NEW p \in Writers, todoLines[p] # <<>>, UNCHANGED tpc,
         \A q \in Writers : q # p => todoLines'[q] = todoLines[q]
  PROVE  IdleTodo'
<1>1. ASSUME NEW q \in Actors, tpc'[q] \notin {"creating", "journalling"}
      PROVE  todoLines'[q] = <<>>
  <2>1. todoLines[q] = <<>> /\ q # p
    BY <1>1 DEF IdleTodo
  <2> QED
    BY <2>1, WritersAre
<1> QED
  BY <1>1 DEF IdleTodo

\* The report worker's lines are no messages.
LEMMA MirrorReported ==
  ASSUME ThreadTypes, MirrorInv, Appends(Reporter) PROVE MirrorInv'
<1> DEFINE line == Head(todoLines[Reporter])
<1>0. /\ todoLines[Reporter] # <<>> /\ Appended(line) /\ Reporter \in Writers
      /\ WillAppend(Reporter, Tail(todoLines[Reporter])) /\ (~disturbed' => ~disturbed)
      /\ UNCHANGED <<entry, untabled, sessions, tpc, snap, talk>>
  BY WritersAre DEF Appends
<1>1. line \in ThreadLine /\ line \in ReporterLine
  BY <1>0, TodoParts, WritersAre
<1>2. \A q \in Writers : q # Reporter => todoLines'[q] = todoLines[q]
  BY <1>0, TodoMoves
<1>3. IdleTodo'
  BY <1>0, <1>2, IdleAppends DEF MirrorInv
<1>4. FreshRun'
  BY <1>0 DEF MirrorInv, FreshRun
<1>5. ASSUME ~disturbed PROVE Undisturbed'
  <2>1. Undisturbed /\ file.tail = NoTail
    BY <1>5 DEF MirrorInv, Undisturbed
  <2>2. line.type # "message"
    BY <1>1 DEF ReporterLine
  <2> HIDE DEF line
  <2>3. file'.tail = NoTail /\ file'.messages = file.messages
    BY <1>0, <1>1, <2>1, <2>2, AppendedLines
  <2>4. \A q \in Actors : todoLines'[q] = todoLines[q]
    BY <1>2, WritersAre
  <2> QED
    BY <1>0, <2>1, <2>3, <2>4, StandsStill
<1> QED
  BY <1>0, <1>3, <1>4, <1>5 DEF MirrorInv

\* A message that is appended is in the file and no longer to be appended.
LEMMA MirrorAppends ==
  ASSUME ThreadTypes, MirrorInv, NEW p \in Actors, Appends(p) PROVE MirrorInv'
<1> DEFINE line == Head(todoLines[p])
           rest == Tail(todoLines[p])
<1>0. /\ todoLines[p] # <<>> /\ Appended(line) /\ p \in Writers
      /\ WillAppend(p, rest) /\ (~disturbed' => ~disturbed)
      /\ UNCHANGED <<entry, untabled, sessions, tpc, snap, talk>>
  BY WritersAre DEF Appends
<1>1. line \in ThreadLine
  BY <1>0, TodoParts
<1>2. todoLines'[p] = rest /\ \A q \in Writers : q # p => todoLines'[q] = todoLines[q]
  BY <1>0, TodoMoves
<1>3. IdleTodo'
  BY <1>0, <1>2, IdleAppends DEF MirrorInv
<1>4. FreshRun'
  <2>1. tpc[Run] # "new"
    BY <1>0, FreshSilence DEF MirrorInv
  <2> QED
    BY <1>0, <2>1 DEF FreshRun
<1>5. tpc[p] \in {"creating", "journalling"} /\ InTurn(p)
  BY <1>0 DEF MirrorInv, IdleTodo, InTurn
<1>6. SUFFICES ASSUME ~disturbed PROVE Undisturbed'
  BY <1>0, <1>3, <1>4 DEF MirrorInv
<1>7. (\A q \in Actors : q # p => ~InTurn(q)) /\ InPlace(p) /\ file.tail = NoTail
  BY <1>5, <1>6, AloneInTurn DEF MirrorInv
<1> HIDE DEF line, rest
<1>8. /\ file'.tail = NoTail
      /\ file'.messages =
           (IF line.type = "message" THEN Append(file.messages, line.data) ELSE file.messages)
  BY <1>0, <1>1, <1>7, AppendedLines
<1>9. /\ IndexLine.type # "message" /\ Mark.type # "message"
      /\ \A m : MessageLine(m).type = "message" /\ MessageLine(m).data = m
  BY DEF IndexLine, Mark, MessageLine, Line
<1>10. InPlace(p)'
  <2>1. CASE tpc[p] = "creating"
    <3>1. p = Run
      BY <2>1, KnownTypes, WritersAre
    <3>2. Creating /\ todoLines[Run] # <<>>
      BY <1>0, <1>7, <2>1, <3>1 DEF InPlace
    <3>3. /\ entry = NoEntry /\ untabled = 0 /\ todoLines[Run] \in CreationLines
          /\ file.messages = <<>>
          /\ snap[Run].persisted = 1
      BY <3>2 DEF Creating
    <3>4. \/ line \in {IndexLine, Mark} /\ rest \in CreationLines
          \/ line = Instruction /\ rest = <<>>
      BY <3>1, <3>3, CreationHead DEF line, rest
    <3>5. Creating'
      <4>1. CASE line \in {IndexLine, Mark} /\ rest \in CreationLines
        <5>1. file'.messages = <<>>
          BY <1>8, <1>9, <3>3, <4>1
        <5>2. CreationLines' = CreationLines /\ todoLines'[Run] \in CreationLines
          BY <1>2, <3>1, <4>1 DEF CreationLines
        <5> QED
          BY <1>0, <3>3, <5>1, <5>2 DEF Creating
      <4>2. CASE line = Instruction /\ rest = <<>>
        <5>1. line.type = "message" /\ line.data = Said(Run, "user")
          BY <1>9, <4>2 DEF Instruction
        <5>2. file'.messages = Append(<<>>, Said(Run, "user"))
          BY <1>8, <3>3, <5>1
        <5>3. Append(<<>>, Said(Run, "user")) = <<Said(Run, "user")>>
          OBVIOUS
        <5>4. todoLines'[Run] = <<>>
          BY <1>2, <3>1, <4>2
        <5> QED
          BY <1>0, <3>3, <5>2, <5>3, <5>4 DEF Creating, Instructed
      <4> QED
        BY <3>4, <4>1, <4>2
    <3>6. tpc'[p] = "creating"
      BY <1>0, <2>1
    <3> QED
      BY <3>5, <3>6 DEF InPlace
  <2>2. CASE tpc[p] = "journalling"
    <3>1. Journalling(p) /\ (entry = NoEntry <=> Untabled(p))
      BY <1>7, <2>2 DEF InPlace
    <3>0. SessionOf(p)' = SessionOf(p) /\ (Untabled(p)' <=> Untabled(p))
      BY <1>0 DEF SessionOf, Untabled
    <3>2. PICK d \in Seq(Shown), e \in {<<>>, <<Mark>>} :
             /\ todoLines[p] = MessageLines(d) \o e
             /\ Mirrors(file.messages \o d, sessions[SessionOf(p)], snap[p].persisted)
      BY <3>1 DEF Journalling
    <3>3. \/ d = <<>> /\ line = Mark /\ rest = <<>>
          \/ d # <<>> /\ line = MessageLine(d[1]) /\ rest = MessageLines(Tail(d)) \o e
      <4> DEFINE todo == todoLines[p]
      <4>1. todo = MessageLines(d) \o e /\ todo # <<>> /\ line = Head(todo) /\ rest = Tail(todo)
        BY <1>0, <3>2 DEF line, rest
      <4> HIDE DEF todo
      <4>2. JournalStarts(d, e, todo)
        BY <4>1, JournalHead
      <4> QED
        BY <4>1, <4>2 DEF JournalStarts
    <3>4. Journalling(p)'
      <4>1. CASE d = <<>> /\ line = Mark /\ rest = <<>>
        <5>1. file'.messages = file.messages
          BY <1>8, <1>9, <4>1
        <5>2. Mirrors(file'.messages \o <<>>, sessions'[SessionOf(p)'], snap'[p].persisted)
          BY <1>0, <3>0, <3>2, <4>1, <5>1
        <5>3. MessageLines(<<>>) \o <<>> = <<>> /\ <<>> \in Seq(Shown)
          BY DEF MessageLines
        <5>4. todoLines'[p] = MessageLines(<<>>) \o <<>>
          BY <1>2, <4>1, <5>3
        <5> QED
          BY <5>2, <5>3, <5>4 DEF Journalling
      <4>2. CASE d # <<>> /\ line = MessageLine(d[1]) /\ rest = MessageLines(Tail(d)) \o e
        <5>1. file'.messages = Append(file.messages, d[1])
          BY <1>8, <1>9, <4>2
        <5>2. file'.messages \o Tail(d) = file.messages \o d
          BY <4>2, <5>1, KnownTypes, AppendedMessage
        <5>3. Mirrors(file'.messages \o Tail(d), sessions'[SessionOf(p)'], snap'[p].persisted)
          BY <1>0, <3>0, <3>2, <5>2
        <5>4. todoLines'[p] = MessageLines(Tail(d)) \o e /\ Tail(d) \in Seq(Shown)
          BY <1>2, <4>2, MessageLinesOf
        <5> QED
          BY <5>3, <5>4 DEF Journalling
      <4> QED
        BY <3>3, <4>1, <4>2
    <3>5. tpc'[p] = "journalling" /\ (entry' = NoEntry <=> Untabled(p)')
      BY <1>0, <2>2, <3>0, <3>1
    <3> QED
      BY <3>4, <3>5 DEF InPlace
  <2> QED
    BY <1>5, <2>1, <2>2
<1>11. Goes(p, tpc[p])
  BY <1>0, KnownTypes DEF Goes
<1>12. tpc[p] \notin {"new", "done", "gone"}
  BY <1>5
<1> QED
  BY <1>7, <1>8, <1>10, <1>11, <1>12, TurnMoves

\* ingest_subagent_report leaves the session and the file alone.
LEMMA MirrorIngests ==
  ASSUME ThreadTypes, MirrorInv, Ingests PROVE MirrorInv'
<1>0. /\ inbox # <<>> /\ (\E todo : WillAppend(Reporter, todo)) /\ Reporter \in Writers
      /\ UNCHANGED <<file, entry, untabled, sessions, tpc, snap, talk, disturbed>>
  BY WritersAre DEF Ingests, fileVars
<1>1. \A q \in Actors : todoLines'[q] = todoLines[q]
  BY <1>0, TodoMoves, WritersAre
<1>2. IdleTodo'
  BY <1>0, <1>1 DEF MirrorInv, IdleTodo
<1>3. FreshRun'
  BY <1>0 DEF MirrorInv, FreshRun
<1>4. ASSUME ~disturbed PROVE Undisturbed'
  BY <1>0, <1>1, <1>4, StandsStill DEF MirrorInv, Undisturbed
<1> QED
  BY <1>0, <1>2, <1>3, <1>4 DEF MirrorInv

\* thread_resurrect makes a session that the journal mirrors, whatever went wrong before.
LEMMA MirrorRevives ==
  ASSUME ThreadTypes, MirrorInv, Resurrect PROVE MirrorInv'
<1> DEFINE revived == Reconstructed(Read(file))
<1>0. /\ HasSummary /\ sessions' = Append(sessions, revived)
      /\ entry' = [session |-> Len(sessions'), persisted |-> Len(Project(revived))]
      /\ MarkAppended
      /\ disturbed' = ((InTurns > 0) \/ Disturbs(Mark, "ok"))
      /\ UNCHANGED <<tpc, snap, talk, todoLines>>
  BY DEF Resurrect, actorVars
<1>1. IdleTodo'
  BY <1>0 DEF MirrorInv, IdleTodo
<1>2. FreshRun'
  <2>1. ASSUME tpc[Run] = "new" PROVE FALSE
    <3>1. file = EmptyFile /\ ~indexed
      BY <2>1 DEF MirrorInv, FreshRun
    <3>2. Read(file).seqs = <<>>
      BY <3>1 DEF Read, Ended, EmptyFile
    <3> QED
      BY <1>0, <3>1, <3>2 DEF HasSummary
  <2> QED
    BY <1>0, <2>1 DEF FreshRun
<1>3. ASSUME ~disturbed' PROVE Undisturbed'
  <2>1. ~(InTurns > 0) /\ ~Disturbs(Mark, "ok")
    BY <1>0, <1>3
  <2>2. \A q \in Actors : ~InTurn(q)
    BY <2>1, NoTurns, TurnsCounted
  <2>3. file.tail = NoTail
    BY <2>1, TailTypes DEF Disturbs
  <2>4. revived = file.messages
    BY <2>3 DEF Reconstructed, Read, Ended
  <2>5. file'.tail = NoTail /\ file'.messages = file.messages
    BY <1>0, <2>3, MarkedLines
  <2> DEFINE ms == file.messages
  <2>6. ms \in Seq(Shown) /\ ms \in Seq(ThreadMsg) /\ sessions \in Seq(Seq(ThreadMsg))
    BY KnownTypes, ShownAreMessages
  <2>7. Mirrors(ms, ms, Len(Project(ms)))
    BY <2>6, MirrorsRevived
  <2>8. sessions' = Append(sessions, ms) /\ entry'.persisted = Len(Project(ms))
        /\ entry'.session = Len(sessions')
    BY <1>0, <2>4
  <2>81. file'.messages = ms
    BY <2>5
  <2> HIDE DEF ms
  <2>9. sessions'[Len(sessions')] = ms
    <3>1. Len(sessions') = Len(sessions) + 1 /\ sessions'[Len(sessions) + 1] = ms
      BY <2>6, <2>8, AppendProperties
    <3> QED
      BY <3>1
  <2>10. Mirrors(file'.messages, sessions'[entry'.session], entry'.persisted)
    BY <2>7, <2>8, <2>81, <2>9
  <2>11. \A q \in Actors : ~InTurn(q)'
    BY <1>0, <2>2 DEF InTurn
  <2>12. Settled' /\ OneTurn'
    BY <2>10, <2>11 DEF Settled, OneTurn
  <2> QED
    BY <2>5, <2>11, <2>12 DEF Undisturbed
<1> QED
  BY <1>1, <1>2, <1>3 DEF MirrorInv

\* An append that fails disturbs the mirror, unless its line was of the index, or was the
\* instruction and left nothing in the file: then it counts as not persisted.
LEMMA MirrorFails ==
  ASSUME ThreadTypes, MirrorInv, NEW p \in Writers, NEW how \in Outcomes, AppendFails(p, how)
  PROVE  MirrorInv'
<1> DEFINE line == Head(todoLines[p])
           rest == Tail(todoLines[p])
           instruction == p = Run /\ tpc[p] = "creating" /\ IsMessage(line)
           todo == IF IsMessage(line) THEN WithoutMessages(rest) ELSE rest
<1>0. /\ todoLines[p] # <<>> /\ how # "ok"
      /\ FilesBecome(Put(Files, line, how))
      /\ p = Run => /\ WillAppend(p, todo)
                    /\ snap' = IF instruction THEN [snap EXCEPT ![p].persisted = 0] ELSE snap
                    /\ UNCHANGED <<tpc, talk, fate>>
      /\ p # Run => /\ WillAppend(p, <<>>)
                    /\ p = Reporter => UNCHANGED <<tpc, snap, talk, fate>>
                    /\ p # Reporter => Goes(p, "gone")
      /\ disturbed' = (disturbed \/ (Disturbs(line, how) /\ ~(instruction /\ how = "nothing")))
      /\ UNCHANGED <<entry, untabled, sessions>>
  BY DEF AppendFails
<1>1. /\ line \in ThreadLine /\ (p = Reporter => line \in ReporterLine)
  BY <1>0, TodoParts
<1>2. tpc[Run] # "new"
  BY <1>0, FreshSilence DEF MirrorInv
<1>3. \A q \in Writers : q # p => todoLines'[q] = todoLines[q]
  <2>1. \E x : WillAppend(p, x)
    BY <1>0
  <2> QED
    BY <2>1, TodoMoves
<1>4. IdleTodo'
  <2>1. CASE p = Run \/ p = Reporter
    <3>1. UNCHANGED tpc
      BY <1>0, <2>1
    <3> QED
      BY <1>0, <1>3, <3>1, IdleAppends DEF MirrorInv
  <2>2. CASE p # Run /\ p # Reporter
    <3>1. p \in Actors /\ Goes(p, "gone") /\ todoLines'[p] = <<>>
      BY <1>0, <2>2, TodoMoves, WritersAre
    <3>2. \A q \in Actors : q # p => todoLines'[q] = todoLines[q]
      BY <1>3, WritersAre
    <3> QED
      BY <3>1, <3>2, IdleMoves DEF MirrorInv
  <2> QED
    BY <2>1, <2>2
<1>5. FreshRun'
  <2>1. CASE p = Run \/ p = Reporter
    <3>1. UNCHANGED tpc
      BY <1>0, <2>1
    <3> QED
      BY <1>2, <3>1 DEF FreshRun
  <2>2. CASE p # Run /\ p # Reporter
    <3>1. tpc'[Run] = tpc[Run]
      BY <1>0, <2>2, KnownTypes, WritersAre DEF Goes
    <3> QED
      BY <1>2, <3>1 DEF FreshRun
  <2> QED
    BY <2>1, <2>2
<1>6. SUFFICES ASSUME ~disturbed' PROVE Undisturbed'
  BY <1>4, <1>5 DEF MirrorInv
<1>7. ~disturbed /\ (line = IndexLine \/ (instruction /\ how = "nothing"))
  <2>1. ~Disturbs(line, how) \/ (instruction /\ how = "nothing")
    BY <1>0, <1>6
  <2>2. ~Disturbs(line, how) => line = IndexLine
    BY <1>0 DEF Disturbs
  <2> QED
    BY <1>0, <1>6, <2>1, <2>2
<1>8. p \in Actors /\ p \in Writers
  <2>1. IndexLine \notin ReporterLine
    BY LinesAre
  <2>2. p # Reporter
    BY <1>1, <1>7, <2>1, WritersAre
  <2> QED
    BY <2>2, WritersAre
<1>9. tpc[p] \in {"creating", "journalling"} /\ InTurn(p)
  BY <1>0, <1>8 DEF MirrorInv, IdleTodo, InTurn
<1>10. (\A q \in Actors : q # p => ~InTurn(q)) /\ InPlace(p) /\ file.tail = NoTail
  BY <1>7, <1>8, <1>9, AloneInTurn DEF MirrorInv
<1>11. tpc[p] = "creating"
  <2> SUFFICES ASSUME tpc[p] = "journalling" PROVE FALSE
    BY <1>9
  <2>1. PICK d \in Seq(Shown), e \in {<<>>, <<Mark>>} : todoLines[p] = MessageLines(d) \o e
    BY <1>10 DEF InPlace, Journalling
  <2>2. line = Mark \/ (d # <<>> /\ line = MessageLine(d[1]))
    BY <1>0, <2>1, JournalHead DEF JournalStarts
  <2>3. line # IndexLine
    BY <2>2, LinesAre, MessageLinesOf
  <2> QED
    BY <1>7, <2>3
<1>12. p = Run
  BY <1>8, <1>11, KnownTypes, WritersAre
<1>13. /\ entry = NoEntry /\ untabled = 0 /\ todoLines[Run] \in CreationLines /\ file.messages = <<>>
       /\ snap[Run].persisted = 1
  BY <1>0, <1>10, <1>11, <1>12 DEF InPlace, Creating
<1>14. \/ line \in {IndexLine, Mark} /\ rest \in CreationLines
       \/ line = Instruction /\ rest = <<>>
  BY <1>12, <1>13, CreationHead
<1>15. ~IsMessage(IndexLine) /\ ~IsMessage(Mark) /\ IsMessage(Instruction)
       /\ Instruction # IndexLine
  BY DEF IsMessage, IndexLine, Mark, Instruction, MessageLine, Line
<1>16. WillAppend(p, todo) /\ UNCHANGED tpc
       /\ snap' = IF instruction THEN [snap EXCEPT ![p].persisted = 0] ELSE snap
  BY <1>0, <1>12
<1>17. file' = Put(Files, line, how).file
  BY <1>0 DEF FilesBecome
<1>18. FilesInv(Files, faults + crashes) /\ Files \in FilesSet /\ Files.file = file
  BY DEF ThreadTypes, LostInv, FilesInv, Files
<1> HIDE DEF line, rest
<1>19. CASE line = IndexLine
  <2>1. file' = file
    BY <1>17, <1>18, <1>19, PutIndexFacts
  <2>2. rest \in CreationLines /\ todo = rest /\ snap' = snap
    BY <1>14, <1>15, <1>16, <1>19
  <2>3. todoLines'[Run] = rest
    BY <1>8, <1>12, <1>16, <2>2, TodoMoves
  <2>4. CreationLines' = CreationLines
    BY DEF CreationLines
  <2>5. Creating'
    BY <1>0, <1>13, <2>1, <2>2, <2>3, <2>4 DEF Creating
  <2>6. InPlace(p)'
    BY <1>11, <1>16, <2>5 DEF InPlace
  <2>7. Goes(p, tpc[p]) /\ tpc[p] \notin {"new", "done", "gone"}
    BY <1>9, <1>16, KnownTypes DEF Goes
  <2> QED
    BY <1>8, <1>10, <2>1, <2>6, <2>7, TurnMoves
<1>20. CASE instruction /\ how = "nothing"
  <2>1. line = Instruction /\ rest = <<>>
    BY <1>14, <1>15, <1>20
  <2>2. file' = file
    <3>1. PICK seq \in Nat : Put(Files, line, how).file = Written(Files.file, line, seq, how)
      BY <1>1, <1>15, <1>18, <2>1, PutFacts
    <3>2. how = "nothing"
      BY <1>20
    <3>3. Written(Files.file, line, seq, how) = Files.file
      BY <3>2, WrittenNothing
    <3> QED
      BY <1>17, <1>18, <3>1, <3>3
  <2>3. todo = <<>>
    <3>1. {k \in DOMAIN <<>> : ~IsMessage(<<>>[k])} = {}
      OBVIOUS
    <3>2. WithoutMessages(<<>>) = <<>>
      BY <3>1, AtNone DEF WithoutMessages
    <3> QED
      BY <1>15, <2>1, <3>2
  <2>4. todoLines'[Run] = <<>>
    BY <1>8, <1>12, <1>16, <2>3, TodoMoves
  <2>5. snap'[Run].persisted = 0
    <3>1. snap' = [snap EXCEPT ![Run].persisted = 0]
      BY <1>12, <1>16, <1>20
    <3>2. snap[Run] \in Entries(Len(sessions)) /\ snap \in [Actors -> Entries(Len(sessions))]
      BY KnownTypes, WritersAre
    <3> QED
      BY <3>1, <3>2, WritersAre DEF Entries
  <2>6. Creating'
    BY <1>0, <1>13, <2>2, <2>4, <2>5 DEF Creating, Instructed
  <2>7. InPlace(p)'
    BY <1>11, <1>16, <2>6 DEF InPlace
  <2>8. Goes(p, tpc[p]) /\ tpc[p] \notin {"new", "done", "gone"}
    BY <1>9, <1>16, KnownTypes DEF Goes
  <2> QED
    BY <1>8, <1>10, <2>2, <2>7, <2>8, TurnMoves
<1> QED
  BY <1>7, <1>19, <1>20

\* A crash disturbs the mirror.
LEMMA MirrorCrashes ==
  ASSUME ThreadTypes, MirrorInv, Crash PROVE MirrorInv'
<1>0. /\ tpc' = [p \in Actors |-> IF tpc[p] = "new" THEN "new" ELSE "gone"]
      /\ todoLines' = [p \in Writers |-> <<>>] /\ inbox' = <<>> /\ entry' = NoEntry
      /\ untabled' = 0 /\ disturbed' = TRUE
  BY DEF Crash, CrashesIn
<1>1. PICK todo : /\ todo = <<>> \/ \E p \in Writers : todo = todoLines[p]
                  /\ \E how \in Outcomes : CrashesIn(todo, how)
  BY DEF Crash
<1>2. IdleTodo'
  BY <1>0, WritersAre DEF IdleTodo
<1>3. FreshRun'
  <2> SUFFICES ASSUME tpc'[Run] = "new" PROVE FreshRun'
    BY DEF FreshRun
  <2>1. tpc[Run] = "new"
    BY <1>0, WritersAre
  <2>2. todo = <<>>
    BY <1>1, <2>1, FreshSilence DEF MirrorInv
  <2>3. file' = file /\ indexed' = indexed
    BY <1>1, <2>2 DEF CrashesIn, FilesBecome, Files
  <2>4. file = EmptyFile /\ ~indexed
    BY <2>1 DEF MirrorInv, FreshRun
  <2>5. \A t \in Turns : ~InTurn(t)'
    BY <1>0, WritersAre DEF InTurn
  <2>6. todoLines'[Reporter] = <<>>
    BY <1>0, WritersAre
  <2> QED
    BY <1>0, <2>3, <2>4, <2>5, <2>6 DEF FreshRun
<1> QED
  BY <1>0, <1>2, <1>3 DEF MirrorInv

\* Every step keeps what is known of the journal and the session.
LEMMA MirrorInvStep ==
  ASSUME ThreadTypes, MirrorInv, [ThreadsNext]_threadVars PROVE MirrorInv'
<1>1. CASE UNCHANGED threadVars
  <2>1. UNCHANGED <<file, indexed, entry, untabled, sessions, tpc, snap, talk, todoLines, inbox,
                  disturbed>>
    BY <1>1 DEF threadVars, fileVars, actorVars, reportVars
  <2>2. IdleTodo'
    BY <2>1 DEF MirrorInv, IdleTodo
  <2>3. FreshRun'
    BY <2>1 DEF MirrorInv, FreshRun, InTurn
  <2>4. ASSUME ~disturbed PROVE Undisturbed'
    BY <2>1, <2>4, StandsStill DEF MirrorInv, Undisturbed
  <2> QED
    BY <2>1, <2>2, <2>3, <2>4 DEF MirrorInv
<1>2. CASE CreateThread \/ Enqueues \/ InsertThread \/ RunBegins
  BY <1>2, MirrorCreates, MirrorEnqueues, MirrorInserts, MirrorBegins
<1>8. CASE IsRefused \/ RunIsDropped
  BY <1>8, MirrorDrops
<1>3. CASE \E t \in Turns : TurnReads(t)
  BY <1>3, MirrorReads
<1>4. CASE \E p \in Actors : \/ Saves(p) \/ Collects(p) \/ Records(p)
                            \/ \E before \in BoundedSeq(Asides, MaxMishaps), end \in Endings :
                                 Talks(p, before, end)
  <2>1. ASSUME NEW p \in Actors, NEW before \in BoundedSeq(Asides, MaxMishaps), NEW end \in Endings,
               Talks(p, before, end)
        PROVE  MirrorInv'
    <3>1. before \in Seq(Asides) /\ \E ok \in BOOLEAN : ok <=> end = "completed"
      BY AsidesAre
    <3> QED
      BY <2>1, <3>1, MirrorTalks
  <2> QED
    BY <1>4, <2>1, MirrorSaves, MirrorCollects, MirrorRecords
<1>5. CASE \E p \in Writers : Appends(p)
  <2>1. PICK p \in Writers : Appends(p)
    BY <1>5
  <2>2. p \in Actors \/ p = Reporter
    BY WritersAre
  <2> QED
    BY <2>1, <2>2, MirrorAppends, MirrorReported
<1>6. CASE \E p \in Writers, how \in Outcomes : AppendFails(p, how)
  BY <1>6, MirrorFails
<1>7. CASE Resurrect \/ Ingests \/ Crash
  BY <1>7, MirrorRevives, MirrorIngests, MirrorCrashes
<1> QED
  BY <1>1, <1>2, <1>3, <1>4, <1>5, <1>6, <1>7, <1>8 DEF ThreadsNext

\* What is known of the journal and the session, when nobody is in a turn.
LEMMA MirrorHolds ==
  ASSUME MirrorInv PROVE JournalMirrorsSession
<1> SUFFICES ASSUME entry # NoEntry, ~disturbed, InTurns = 0
             PROVE  OnlyTexts(JournalledMessages)
                      = OnlyTexts(SubSeq(Project(sessions[entry.session]), 1, entry.persisted))
  BY DEF JournalMirrorsSession
<1>1. \A p \in Actors : ~InTurn(p)
  BY NoTurns
<1>2. Mirrors(file.messages, sessions[entry.session], entry.persisted) /\ file.tail = NoTail
  BY <1>1 DEF MirrorInv, Undisturbed, Settled
<1>3. JournalledMessages = file.messages
  BY <1>2 DEF JournalledMessages, Read, Ended
<1> QED
  BY <1>2, <1>3 DEF Mirrors

\* The journal mirrors the session, for any turns and bounds: while no turn is on the way
\* and none overlapped another or lost a line since the session was built, the texts in the
\* journal are those of the messages the entry counts as persisted (persisted_message_count).
THEOREM JournalsMirrorSessions == ThreadsSpec => []JournalMirrorsSession
<1>1. ThreadsInit => ThreadTypes /\ MirrorInv
  BY TypesInit, MirrorInit
<1>2. ThreadTypes /\ MirrorInv /\ [ThreadsNext]_threadVars => (ThreadTypes /\ MirrorInv)'
  BY ThreadTypesStep, MirrorInvStep
<1>3. MirrorInv => JournalMirrorsSession
  BY MirrorHolds
<1> QED
  BY <1>1, <1>2, <1>3, PTL DEF ThreadsSpec
==============================================================================
