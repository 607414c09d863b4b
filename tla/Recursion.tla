----------------------------- MODULE Recursion -----------------------------
(***************************************************************************)
(* Induction on the natural numbers and the existence of functions that    *)
(* are defined by recursion on them, stated about sets and functions.      *)
(***************************************************************************)
EXTENDS WellFoundedInduction, SequenceTheorems, Integers, TLAPS

\* A set of natural numbers that is not empty has a least element.
LEMMA LeastElement ==
  ASSUME NEW T \in SUBSET Nat, T # {}
  PROVE  \E m \in T : \A n \in T : m <= n
  <1> DEFINE R == OpToRel(<, Nat)
  <1>1. IsWellFoundedOn(R, Nat)
    BY NatLessThanWellFounded
  <1>2. \A n, m \in Nat : n < m => <<n, m>> \in R
    BY DEF OpToRel
  <1> HIDE DEF R
  <1>3. PICK m \in T : \A n \in T : ~(<<n, m>> \in R)
    <2>1. T \subseteq Nat /\ T # {}
      OBVIOUS
    <2> QED
      BY ONLY <1>1, <2>1, WFMin
  <1>4. m \in Nat
    OBVIOUS
  <1>5. ASSUME NEW n \in T PROVE m <= n
    <2>1. n \in Nat /\ ~(<<n, m>> \in R)
      BY <1>3
    <2>2. ~(n < m)
      BY <1>2, <1>4, <2>1
    <2> QED
      BY <1>4, <2>1, <2>2
  <1> QED
    BY <1>5

\* A set that has 0, and n + 1 with n, has all natural numbers.
LEMMA Induction ==
  ASSUME NEW T \in SUBSET Nat, 0 \in T, \A n \in T : n + 1 \in T
  PROVE  \A n \in Nat : n \in T
  <1> DEFINE U == {n \in Nat : n \notin T}
  <1>1. CASE U = {}
    BY <1>1
  <1>2. CASE U # {}
    <2>1. U \in SUBSET Nat
      OBVIOUS
    <2> HIDE DEF U
    <2>2. PICK m \in U : \A n \in U : m <= n
      BY <1>2, <2>1, LeastElement
    <2>3. m \in Nat /\ m \notin T /\ m # 0
      BY DEF U
    <2>4. PICK k \in Nat : k + 1 = m
      <3>1. m - 1 \in Nat /\ (m - 1) + 1 = m
        BY <2>3
      <3> QED
        BY <3>1
    <2>5. k \in T
      <3>1. ~(m <= k)
        BY <2>3, <2>4
      <3>2. k \notin U
        BY <2>2, <3>1
      <3> QED
        BY <3>2 DEF U
    <2>6. k + 1 \in T
      BY <2>5
    <2> QED
      BY <2>3, <2>4, <2>6
  <1> QED
    BY <1>1, <1>2

\* Induction on the numbers from 0 to n.
LEMMA BoundedInduction ==
  ASSUME NEW n \in Nat, NEW G, 0 \in G, \A i \in 1 .. n : i - 1 \in G => i \in G
  PROVE  \A i \in 0 .. n : i \in G
  <1> DEFINE T == {m \in Nat : m <= n => m \in G}
  <1>1. T \in SUBSET Nat /\ 0 \in T
    OBVIOUS
  <1>2. ASSUME NEW m \in T PROVE m + 1 \in T
    <2>1. m \in Nat /\ m + 1 \in Nat /\ (m <= n => m \in G)
      OBVIOUS
    <2>2. ASSUME m + 1 <= n PROVE m + 1 \in G
      <3>1. m + 1 \in 1 .. n /\ (m + 1) - 1 = m /\ m <= n
        BY <2>1, <2>2
      <3> QED
        BY <2>1, <3>1
    <2> QED
      BY <2>1, <2>2
  <1>3. \A m \in Nat : m \in T
    <2> HIDE DEF T
    <2> QED
      BY <1>1, <1>2, Induction
  <1> QED
    BY <1>3

\* Induction on sequences that grow at their end.
LEMMA SequenceInduction ==
  ASSUME NEW S, NEW G, <<>> \in G,
         \A s \in Seq(S), e \in S : s \in G => Append(s, e) \in G
  PROVE  \A s \in Seq(S) : s \in G
  <1> DEFINE T == {n \in Nat : \A s \in Seq(S) : Len(s) = n => s \in G}
  <1>1. T \in SUBSET Nat
    OBVIOUS
  <1>2. 0 \in T
    <2>1. \A s \in Seq(S) : Len(s) = 0 => s = <<>>
      BY EmptySeq
    <2> QED
      BY <2>1
  <1>3. ASSUME NEW n \in T PROVE n + 1 \in T
    <2>1. n \in Nat /\ \A s \in Seq(S) : Len(s) = n => s \in G
      OBVIOUS
    <2>2. ASSUME NEW s \in Seq(S), Len(s) = n + 1 PROVE s \in G
      <3>1. s # <<>>
        BY <2>1, <2>2, EmptySeq
      <3>2. PICK r \in Seq(S), e \in S : s = Append(r, e)
        BY <3>1, SequenceEmptyOrAppend
      <3>3. Len(r) = n
        BY <2>1, <2>2, <3>2, AppendProperties, LenProperties
      <3> QED
        BY <2>1, <3>2, <3>3
    <2> QED
      BY <2>1, <2>2
  <1>4. \A n \in Nat : n \in T
    <2> HIDE DEF T
    <2> QED
      BY <1>1, <1>2, <1>3, Induction
  <1>5. ASSUME NEW s \in Seq(S) PROVE s \in G
    <2>1. Len(s) \in T
      BY <1>4, LenProperties
    <2> QED
      BY <2>1
  <1> QED
    BY <1>5

\* A walk of n steps from a, of which the i-th is what F says.
IsWalk(h, a, n, F, S) ==
    /\ h \in [0 .. n -> S]
    /\ h[0] = a
    /\ \A i \in 1 .. n : h[i] = F[<<i, h[i - 1]>>]

\* There is such a walk, if no step leaves S.
LEMMA WalkExists ==
  ASSUME NEW S, NEW a \in S, NEW n \in Nat, NEW F \in [(1 .. n) \X S -> S]
  PROVE  \E h : IsWalk(h, a, n, F, S)
  <1> DEFINE Walk(h, m) == /\ h \in [0 .. m -> S]
                           /\ h[0] = a
                           /\ \A i \in 1 .. m : h[i] = F[<<i, h[i - 1]>>]
             T == {m \in Nat : m <= n => \E h : Walk(h, m)}
  <1>1. 0 \in T
    <2> DEFINE h == [i \in 0 .. 0 |-> a]
    <2>1. h \in [0 .. 0 -> S] /\ h[0] = a
      OBVIOUS
    <2>2. \A i \in 1 .. 0 : h[i] = F[<<i, h[i - 1]>>]
      OBVIOUS
    <2>3. Walk(h, 0)
      BY <2>1, <2>2
    <2> QED
      BY <2>3
  <1>2. ASSUME NEW m \in Nat, m + 1 <= n, NEW h, Walk(h, m)
        PROVE  \E g : Walk(g, m + 1)
    <2> DEFINE g == [i \in 0 .. m + 1 |-> IF i <= m THEN h[i] ELSE F[<<m + 1, h[m]>>]]
    <2>1. h[m] \in S /\ m + 1 \in 1 .. n
      BY <1>2
    <2>2. <<m + 1, h[m]>> \in (1 .. n) \X S
      BY <2>1
    <2>3. F[<<m + 1, h[m]>>] \in S
      BY <2>2
    <2>4. \A i \in 0 .. m + 1 : i <= m => i \in 0 .. m
      OBVIOUS
    <2>5. g \in [0 .. m + 1 -> S]
      BY <1>2, <2>3, <2>4
    <2>6. g[0] = a
      BY <1>2
    <2>7. ASSUME NEW i \in 1 .. m + 1 PROVE g[i] = F[<<i, g[i - 1]>>]
      <3>1. i \in 0 .. m + 1 /\ i - 1 \in 0 .. m + 1 /\ i - 1 <= m
        OBVIOUS
      <3>2. g[i - 1] = h[i - 1]
        BY <3>1
      <3>3. CASE i <= m
        <4>1. i \in 1 .. m
          BY <3>3
        <4>2. h[i] = F[<<i, h[i - 1]>>]
          BY <1>2, <4>1
        <4> QED
          BY <3>1, <3>2, <3>3, <4>2
      <3>4. CASE ~(i <= m)
        <4>1. i = m + 1 /\ i - 1 = m
          BY <3>4
        <4>2. g[i] = F[<<m + 1, h[m]>>]
          BY <3>1, <3>4
        <4> QED
          BY <3>2, <4>1, <4>2
      <3> QED
        BY <3>3, <3>4
    <2>8. Walk(g, m + 1)
      BY <2>5, <2>6, <2>7
    <2> QED
      BY <2>8
  <1>3. ASSUME NEW m \in T PROVE m + 1 \in T
    <2>1. m \in Nat /\ m + 1 \in Nat /\ (m <= n => \E h : Walk(h, m))
      OBVIOUS
    <2>2. ASSUME m + 1 <= n PROVE \E g : Walk(g, m + 1)
      <3>1. m <= n
        BY <2>1, <2>2
      <3> HIDE DEF Walk
      <3>2. PICK h : Walk(h, m)
        BY <2>1, <3>1
      <3> QED
        BY <1>2, <2>1, <2>2, <3>2
    <2> HIDE DEF Walk
    <2> QED
      BY <2>1, <2>2
  <1>4. n \in T
    <2>1. T \in SUBSET Nat
      OBVIOUS
    <2> HIDE DEF T
    <2> QED
      BY <1>1, <1>3, <2>1, Induction
  <1>5. PICK h : Walk(h, n)
    <2> HIDE DEF Walk
    <2> QED
      BY <1>4
  <1> QED
    BY <1>5 DEF IsWalk
=============================================================================
