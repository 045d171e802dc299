----------------------------- MODULE NumberFacts -----------------------------
(***************************************************************************)
(* Numbers, for the proofs about sids and timestamps: induction as a fact  *)
(* about sets of numbers, and the greatest of finitely many.               *)
(***************************************************************************)
EXTENDS Naturals, FiniteSetsExt, FiniteSetTheorems, TLAPS

\* A set of numbers has a least one.
LEMMA LeastNumber ==
  ASSUME NEW S \in SUBSET Nat, S # {}
  PROVE  \E m \in S : \A k \in S : m <= k
<1> DEFINE T == {0..n : n \in S}
<1>1. \A n \in Nat : 0..n \in FiniteSubsetsOf(Nat)
  <2> SUFFICES ASSUME NEW n \in Nat PROVE 0..n \in FiniteSubsetsOf(Nat)
    OBVIOUS
  <2>1. IsFiniteSet(0..n)
    BY FS_Interval
  <2> QED BY <2>1 DEF FiniteSubsetsOf
<1>2. T \subseteq FiniteSubsetsOf(Nat) /\ T # {}
  BY <1>1
<1>3. \E x \in T : \A y \in T : ~ (<<y, x>> \in StrictSubsetOrdering(Nat))
  <2> HIDE DEF T
  <2> QED BY <1>2, WFMin, FS_StrictSubsetOrderingWellFounded
<1>4. PICK m \in S : \A k \in S : ~ (<<0..k, 0..m>> \in StrictSubsetOrdering(Nat))
  BY <1>3
<1>5. ASSUME NEW k \in S, k < m PROVE FALSE
  <2>1. 0..k \subseteq 0..m /\ 0..k # 0..m /\ 0..k \subseteq Nat /\ 0..m \subseteq Nat
    <3>1. m \in 0..m /\ m \notin 0..k
      BY <1>5
    <3> QED BY <1>5, <3>1
  <2> QED BY <1>4, <2>1 DEF StrictSubsetOrdering
<1> QED BY <1>5

\* Induction, over a set of numbers.
LEMMA NumberInduction ==
  ASSUME NEW S \in SUBSET Nat, 0 \in S, \A n \in S : n + 1 \in S
  PROVE  S = Nat
<1> SUFFICES ASSUME Nat \ S # {} PROVE FALSE
  OBVIOUS
<1>1. PICK m \in Nat \ S : \A k \in Nat \ S : m <= k
  BY LeastNumber
<1>2. m # 0 /\ m - 1 \in S
  BY <1>1
<1> QED BY <1>1, <1>2

\* A finite set of numbers has a greatest one.
LEMMA GreatestNumber ==
  ASSUME NEW S \in SUBSET Nat, S # {}, IsFiniteSet(S)
  PROVE  Max(S) \in S /\ \A k \in S : k <= Max(S)
<1> DEFINE n == Cardinality(S)
<1>1. PICK f \in [1..n -> S] : \A k \in S : \E i \in 1..n : f[i] = k
  BY FS_CardinalityType DEF ExistsBijection, Bijection, Surjection
<1>2. n \in Nat
  BY FS_CardinalityType
<1> DEFINE B == {m \in Nat : \E b \in Nat : \A i \in 1..n : i <= m => f[i] <= b}
<1>3. B = Nat
  <2>1. 0 \in B
    OBVIOUS
  <2>2. ASSUME NEW m \in B PROVE m + 1 \in B
    <3>1. PICK b \in Nat : \A i \in 1..n : i <= m => f[i] <= b
      OBVIOUS
    <3>2. CASE m + 1 \in 1..n
      <4>1. \E c \in Nat : b <= c /\ f[m + 1] <= c
        <5>1. f[m + 1] \in Nat
          BY <1>1, <3>2
        <5> QED BY <5>1
      <4>2. PICK c \in Nat : b <= c /\ f[m + 1] <= c
        BY <4>1
      <4>3. \A i \in 1..n : i <= m + 1 => f[i] <= c
        <5> SUFFICES ASSUME NEW i \in 1..n, i <= m + 1 PROVE f[i] <= c
          OBVIOUS
        <5>1. f[i] \in Nat
          BY <1>1
        <5>2. CASE i <= m
          BY <5>1, <5>2, <3>1, <4>2
        <5>3. CASE i = m + 1
          BY <5>3, <4>2
        <5> QED BY <5>2, <5>3, <1>2
      <4> QED BY <4>3
    <3>3. CASE m + 1 \notin 1..n
      <4>1. \A i \in 1..n : i <= m + 1 => i <= m
        BY <3>3, <1>2
      <4> QED BY <3>1, <4>1
    <3> QED BY <3>2, <3>3
  <2> HIDE DEF B
  <2>3. B \subseteq Nat
    BY DEF B
  <2> QED BY <2>1, <2>2, <2>3, NumberInduction
<1>4. PICK b \in Nat : \A k \in S : k <= b
  <2>1. n \in B
    BY <1>2, <1>3
  <2>2. PICK b \in Nat : \A i \in 1..n : i <= n => f[i] <= b
    BY <2>1
  <2>3. ASSUME NEW k \in S PROVE k <= b
    <3>1. PICK i \in 1..n : f[i] = k
      BY <1>1
    <3>2. i <= n
      BY <1>2
    <3> QED BY <3>1, <3>2, <2>2
  <2> QED BY <2>3
<1> DEFINE U == {c \in Nat : \A k \in S : k <= c}
<1>5. PICK m \in U : \A c \in U : m <= c
  <2>1. U # {} /\ U \subseteq Nat
    BY <1>4
  <2> HIDE DEF U
  <2> QED BY <2>1, LeastNumber
<1>6. m \in S
  <2> SUFFICES ASSUME m \notin S PROVE FALSE
    OBVIOUS
  <2>1. m # 0
    <3>1. PICK k \in S : TRUE
      OBVIOUS
    <3>2. k <= m /\ k \in Nat /\ k # m
      BY <1>5
    <3> QED BY <3>2
  <2>2. m - 1 \in U
    BY <2>1, <1>5
  <2> QED BY <2>2, <1>5
<1>7. \A k \in S : m >= k
  BY <1>5
<1>8. Max(S) \in S /\ \A k \in S : Max(S) >= k
  BY <1>6, <1>7 DEF Max
<1> QED BY <1>8

\* What a function builds from a first value, one application after another.
LEMMA Iterates ==
  ASSUME NEW D, NEW F \in [D -> D], NEW b \in D
  PROVE  \E g \in [Nat -> D] : g = [n \in Nat |-> IF n = 0 THEN b ELSE F[g[n - 1]]]
<1> DEFINE Upto(n, g) == g \in [0..n -> D] /\ g[0] = b /\ \A i \in 1..n : g[i] = F[g[i - 1]]
           Built == {n \in Nat : \E g : Upto(n, g)}
<1>1. 0 \in Built
  <2>1. Upto(0, [i \in 0..0 |-> b])
    OBVIOUS
  <2> QED BY <2>1
<1>2. ASSUME NEW n \in Built PROVE n + 1 \in Built
  <2>1. PICK g : Upto(n, g)
    OBVIOUS
  <2>2. n \in Nat /\ n + 1 \in Nat /\ n \in 0..n
    OBVIOUS
  <2> DEFINE h == [i \in 0..(n + 1) |-> IF i = n + 1 THEN F[g[n]] ELSE g[i]]
  <2>3. h[n + 1] = F[g[n]] /\ \A i \in 0..n : h[i] = g[i]
    BY <2>2
  <2>4. h \in [0..(n + 1) -> D]
    <3>1. F[g[n]] \in D
      BY <2>1, <2>2
    <3>2. \A i \in 0..(n + 1) : i = n + 1 \/ i \in 0..n
      BY <2>2
    <3> QED BY <2>1, <3>1, <3>2
  <2> HIDE DEF h
  <2>5. h[0] = b
    BY <2>1, <2>2, <2>3
  <2>6. ASSUME NEW i \in 1..(n + 1) PROVE h[i] = F[h[i - 1]]
    <3>1. CASE i = n + 1
      <4>1. i - 1 = n
        BY <2>2, <3>1
      <4> QED BY <2>2, <2>3, <3>1, <4>1
    <3>2. CASE i # n + 1
      <4>1. i \in 1..n /\ i \in 0..n /\ i - 1 \in 0..n
        BY <2>2, <3>2
      <4> QED BY <2>1, <2>3, <4>1
    <3> QED BY <3>1, <3>2
  <2>7. Upto(n + 1, h)
    BY <2>4, <2>5, <2>6
  <2> QED BY <2>2, <2>7
<1>3. Built = Nat
  <2>1. Built \subseteq Nat
    OBVIOUS
  <2> HIDE DEF Built
  <2> QED BY <1>1, <1>2, <2>1, NumberInduction
<1> DEFINE part == [n \in Nat |-> CHOOSE g : Upto(n, g)]
           whole == [n \in Nat |-> part[n][n]]
<1>4. \A n \in Nat : Upto(n, part[n])
  <2> SUFFICES ASSUME NEW n \in Nat PROVE Upto(n, part[n])
    OBVIOUS
  <2>1. \E g : Upto(n, g)
    BY <1>3
  <2> HIDE DEF Upto
  <2>2. Upto(n, CHOOSE g : Upto(n, g))
    BY <2>1
  <2> QED BY <2>2
<1> HIDE DEF part, Built
<1> DEFINE Same == {i \in Nat : \A m, n \in Nat : i <= m /\ i <= n => part[m][i] = part[n][i]}
<1>5. Same = Nat
  <2>1. 0 \in Same
    BY <1>4
  <2>2. ASSUME NEW i \in Same PROVE i + 1 \in Same
    <3>1. ASSUME NEW m \in Nat, NEW n \in Nat, i + 1 <= m, i + 1 <= n
          PROVE  part[m][i + 1] = part[n][i + 1]
      <4>1. i + 1 \in 1..m /\ i + 1 \in 1..n /\ (i + 1) - 1 = i
        BY <3>1
      <4>2. part[m][i + 1] = F[part[m][i]] /\ part[n][i + 1] = F[part[n][i]]
        BY <4>1, <1>4
      <4>3. part[m][i] = part[n][i]
        BY <3>1
      <4> QED BY <4>2, <4>3
    <3> QED BY <3>1
  <2>3. Same \subseteq Nat
    OBVIOUS
  <2> HIDE DEF Same
  <2> QED BY <2>1, <2>2, <2>3, NumberInduction
<1>6. \A n \in Nat : whole[n] \in D
  BY <1>4
<1>7. \A n \in Nat : whole[n] = IF n = 0 THEN b ELSE F[whole[n - 1]]
  <2> SUFFICES ASSUME NEW n \in Nat PROVE whole[n] = IF n = 0 THEN b ELSE F[whole[n - 1]]
    OBVIOUS
  <2>1. CASE n = 0
    BY <1>4, <2>1
  <2>2. CASE n # 0
    <3>1. n \in 1..n /\ n - 1 \in Nat
      BY <2>2
    <3>2. part[n][n] = F[part[n][n - 1]]
      BY <3>1, <1>4
    <3>3. n - 1 \in Same
      BY <1>5, <3>1
    <3>4. part[n][n - 1] = part[n - 1][n - 1]
      BY <3>1, <3>3
    <3> QED BY <2>2, <3>1, <3>2, <3>4
  <2> QED BY <2>1, <2>2
<1>8. whole = [n \in Nat |-> whole[n]]
  OBVIOUS
<1> HIDE DEF whole
<1>9. whole \in [Nat -> D] /\ whole = [n \in Nat |-> IF n = 0 THEN b ELSE F[whole[n - 1]]]
  BY <1>6, <1>7, <1>8
<1> QED BY <1>9
=============================================================================
