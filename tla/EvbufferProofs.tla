--------------------------- MODULE EvbufferProofs ---------------------------
(***************************************************************************)
(* Proofs about Evbuffer, for buffers of any number of extents of any      *)
(* length: bytes are neither lost nor doubled nor reordered, copyout and   *)
(* remove return exactly the first bytes, and readln exactly a line.       *)
(*                                                                         *)
(* What the walks over the extents compute is proved by induction on the   *)
(* number of extents, with the lemmas of Recursion.                        *)
(***************************************************************************)
EXTENDS Evbuffer, SequenceTheorems, Recursion

\* Concatenation that the provers do not look into.
Cat(s, t) == s \o t

\* The first n bytes, or all there are, and those behind them.
First(s, n) == SubSeq(s, 1, Least(n, Len(s)))
Rest(s, n) == SubSeq(s, n + 1, Len(s))
-----------------------------------------------------------------------------
(***************************************************************************)
(* Sequences cut in two.                                                   *)
(***************************************************************************)

\* The type and the length of a concatenation.
LEMMA CatFacts ==
  ASSUME NEW S, NEW s \in Seq(S), NEW t \in Seq(S)
  PROVE  Cat(s, t) \in Seq(S) /\ Len(Cat(s, t)) = Len(s) + Len(t)
  BY ConcatProperties DEF Cat

\* Where one concatenates first does not matter.
LEMMA CatAssociative ==
  ASSUME NEW S, NEW s \in Seq(S), NEW t \in Seq(S), NEW u \in Seq(S)
  PROVE  Cat(Cat(s, t), u) = Cat(s, Cat(t, u))
  BY ConcatAssociative DEF Cat

\* The empty sequence adds nothing.
LEMMA CatEmpty ==
  ASSUME NEW S, NEW s \in Seq(S)
  PROVE  Cat(s, <<>>) = s /\ Cat(<<>>, s) = s
  BY ConcatEmptySeq DEF Cat

\* What a sequence is cut into makes it up.
LEMMA FirstRest ==
  ASSUME NEW S, NEW s \in Seq(S), NEW n \in Nat
  PROVE  /\ First(s, n) \in Seq(S) /\ Rest(s, n) \in Seq(S)
         /\ Len(First(s, n)) = Least(n, Len(s))
         /\ Cat(First(s, n), Rest(s, n)) = s
         /\ n >= Len(s) => Rest(s, n) = <<>> /\ First(s, n) = s
  <1> DEFINE k == Least(n, Len(s))
  <1>1. Len(s) \in Nat /\ k \in Nat /\ k <= Len(s) /\ (n >= Len(s) => k = Len(s))
        /\ (n < Len(s) => k = n)
    BY LenProperties DEF Least
  <1>2. \A i \in 1 .. Len(s) : s[i] \in S
    BY ElementOfSeq
  <1>3. SubSeq(s, 1, k) \in Seq(S) /\ Len(SubSeq(s, 1, k)) = k
    <2>1. \A i \in 1 .. k : s[i] \in S
      BY <1>1, <1>2
    <2>2. /\ SubSeq(s, 1, k) \in Seq(S)
          /\ Len(SubSeq(s, 1, k)) = IF 1 <= k THEN k - 1 + 1 ELSE 0
      BY <1>1, <2>1, SubSeqProperties
    <2> QED
      BY <1>1, <2>2
  <1>4. Rest(s, n) \in Seq(S)
    <2>1. \A i \in n + 1 .. Len(s) : s[i] \in S
      BY <1>2
    <2>2. n + 1 \in Int /\ Len(s) \in Int
      BY <1>1
    <2> QED
      BY <2>1, <2>2, SubSeqProperties DEF Rest
  <1>5. n >= Len(s) => Rest(s, n) = <<>>
    BY <1>1, SubSeqEmpty DEF Rest
  <1>6. n >= Len(s) => First(s, n) = s
    BY <1>1, SubSeqFull DEF First
  <1>7. Cat(First(s, n), Rest(s, n)) = s
    <2>1. CASE n >= Len(s)
      BY <1>5, <1>6, <2>1, CatEmpty
    <2>2. CASE n < Len(s)
      <3>1. /\ 1 \in 1 .. Len(s) + 1 /\ n \in 1 - 1 .. Len(s)
            /\ Len(s) \in n .. Len(s)
        BY <1>1, <2>2
      <3>2. SubSeq(s, 1, n) \o SubSeq(s, n + 1, Len(s)) = SubSeq(s, 1, Len(s))
        BY <3>1, ConcatAdjacentSubSeq
      <3> QED
        BY <1>1, <2>2, <3>2, SubSeqFull DEF Cat, First, Rest
    <2> QED
      BY <1>1, <2>1, <2>2
  <1> QED
    BY <1>3, <1>4, <1>5, <1>6, <1>7 DEF First

\* There is only one way to cut a sequence behind the n-th byte.
LEMMA CutOnce ==
  ASSUME NEW S, NEW a \in Seq(S), NEW b \in Seq(S), NEW n \in Nat,
         Len(a) = n \/ (Len(a) <= n /\ b = <<>>)
  PROVE  First(Cat(a, b), n) = a /\ Rest(Cat(a, b), n) = b
  <1> DEFINE c == Cat(a, b)
  <1>1. Len(a) \in Nat /\ Len(b) \in Nat
    BY LenProperties
  <1>2. /\ c \in Seq(S) /\ Len(c) = Len(a) + Len(b)
        /\ \A i \in 1 .. Len(a) + Len(b) :
             c[i] = IF i <= Len(a) THEN a[i] ELSE b[i - Len(a)]
    BY ConcatProperties DEF Cat
  <1> HIDE DEF c
  <1>3. /\ First(c, n) \in Seq(S) /\ Rest(c, n) \in Seq(S)
        /\ Len(First(c, n)) = Least(n, Len(c))
        /\ n >= Len(c) => Rest(c, n) = <<>> /\ First(c, n) = c
    BY <1>2, FirstRest
  <1>4. CASE b = <<>>
    <2>1. c = a /\ Len(b) = 0
      BY <1>4, CatEmpty DEF c
    <2> QED
      BY <1>1, <1>2, <1>3, <1>4, <2>1 DEF c
  <1>5. CASE b # <<>>
    <2>1. Len(a) = n /\ Least(n, Len(c)) = n /\ n + 1 \in Int /\ Len(c) \in Int
      BY <1>1, <1>2, <1>5 DEF Least
    <2>2. \A i \in 1 .. Len(c) : c[i] \in S
      BY <1>2, ElementOfSeq
    <2>3. /\ Len(Rest(c, n)) = IF n + 1 <= Len(c) THEN Len(c) - (n + 1) + 1 ELSE 0
          /\ \A i \in 1 .. Len(c) - (n + 1) + 1 : Rest(c, n)[i] = c[(n + 1) + i - 1]
      <3>1. \A i \in n + 1 .. Len(c) : c[i] \in S
        BY <2>2
      <3> QED
        BY <2>1, <3>1, SubSeqProperties DEF Rest
    <2>4. \A i \in 1 .. n - 1 + 1 : First(c, n)[i] = c[1 + i - 1]
      <3>1. \A i \in 1 .. n : c[i] \in S
        BY <1>1, <1>2, <2>1, <2>2
      <3> QED
        BY <2>1, <3>1, SubSeqProperties DEF First
    <2>5. First(c, n) = a
      <3>1. ASSUME NEW i \in 1 .. n PROVE First(c, n)[i] = a[i]
        <4>1. i \in 1 .. n - 1 + 1 /\ 1 + i - 1 = i /\ i \in 1 .. Len(a) + Len(b)
              /\ i <= Len(a)
          BY <1>1, <2>1
        <4> QED
          BY <1>2, <2>4, <4>1
      <3>2. Len(First(c, n)) = Len(a)
        BY <1>3, <2>1
      <3> QED
        BY <1>3, <2>1, <3>1, <3>2, SeqEqual
    <2>6. Rest(c, n) = b
      <3>1. Len(c) - (n + 1) + 1 = Len(b) /\ Len(Rest(c, n)) = Len(b)
        BY <1>1, <1>2, <2>1, <2>3
      <3>2. ASSUME NEW i \in 1 .. Len(b) PROVE Rest(c, n)[i] = b[i]
        <4>1. /\ i \in 1 .. Len(c) - (n + 1) + 1 /\ (n + 1) + i - 1 = n + i
              /\ n + i \in 1 .. Len(a) + Len(b) /\ ~(n + i <= Len(a))
              /\ (n + i) - Len(a) = i
          BY <1>1, <2>1, <3>1
        <4>2. Rest(c, n)[i] = c[n + i]
          BY <2>3, <4>1
        <4> QED
          BY <1>2, <4>1, <4>2
      <3> QED
        BY <1>3, <3>1, <3>2, SeqEqual
    <2> QED
      BY <2>5, <2>6 DEF c
  <1> QED
    BY <1>4, <1>5

\* Cutting a sequence behind which another one is put.
LEMMA CutCat ==
  ASSUME NEW S, NEW u \in Seq(S), NEW e \in Seq(S), NEW n \in Nat
  PROVE  /\ n <= Len(u) => /\ First(Cat(u, e), n) = First(u, n)
                           /\ Rest(Cat(u, e), n) = Cat(Rest(u, n), e)
         /\ n >= Len(u) => /\ First(Cat(u, e), n) = Cat(u, First(e, n - Len(u)))
                           /\ Rest(Cat(u, e), n) = Rest(e, n - Len(u))
  <1>1. Len(u) \in Nat /\ Len(e) \in Nat
    BY LenProperties
  <1>2. ASSUME n <= Len(u)
        PROVE  /\ First(Cat(u, e), n) = First(u, n)
               /\ Rest(Cat(u, e), n) = Cat(Rest(u, n), e)
    <2> DEFINE a == First(u, n)
               b == Cat(Rest(u, n), e)
    <2>1. /\ First(u, n) \in Seq(S) /\ Rest(u, n) \in Seq(S)
          /\ Len(First(u, n)) = Least(n, Len(u))
          /\ Cat(First(u, n), Rest(u, n)) = u
      BY FirstRest
    <2>2. Len(a) = n
      BY <1>1, <1>2, <2>1 DEF Least
    <2>3. b \in Seq(S)
      BY <2>1, CatFacts
    <2>4. Cat(a, b) = Cat(u, e)
      BY <2>1, CatAssociative
    <2> HIDE DEF a, b
    <2>5. a \in Seq(S)
      BY <2>1 DEF a
    <2>6. First(Cat(a, b), n) = a /\ Rest(Cat(a, b), n) = b
      BY <2>2, <2>3, <2>5, CutOnce
    <2> QED
      BY <2>4, <2>6 DEF a, b
  <1>3. ASSUME n >= Len(u)
        PROVE  /\ First(Cat(u, e), n) = Cat(u, First(e, n - Len(u)))
               /\ Rest(Cat(u, e), n) = Rest(e, n - Len(u))
    <2>1. PICK k \in Nat : k = n - Len(u)
      BY <1>1, <1>3
    <2> DEFINE a == Cat(u, First(e, k))
               b == Rest(e, k)
    <2>2. /\ First(e, k) \in Seq(S) /\ Rest(e, k) \in Seq(S)
          /\ Len(First(e, k)) = Least(k, Len(e))
          /\ Cat(First(e, k), Rest(e, k)) = e
          /\ k >= Len(e) => Rest(e, k) = <<>>
      BY FirstRest
    <2>3. a \in Seq(S) /\ Len(a) = Len(u) + Least(k, Len(e))
      BY <2>2, CatFacts
    <2>4. Cat(a, b) = Cat(u, e)
      BY <2>2, CatAssociative
    <2>5. Len(a) = n \/ (Len(a) <= n /\ b = <<>>)
      BY <1>1, <2>1, <2>2, <2>3 DEF Least
    <2> HIDE DEF a, b
    <2>6. b \in Seq(S)
      BY <2>2 DEF b
    <2>7. First(Cat(a, b), n) = a /\ Rest(Cat(a, b), n) = b
      BY <2>3, <2>5, <2>6, CutOnce
    <2> QED
      BY <2>1, <2>4, <2>7 DEF a, b
  <1> QED
    BY <1>2, <1>3
-----------------------------------------------------------------------------
(***************************************************************************)
(* The bytes in the extents of a buffer.                                   *)
(***************************************************************************)

\* The function that Content computes: the bytes in the first i extents.
Upto(s) ==
    LET upto[i \in 0 .. Len(s)] ==
          IF i = 0 THEN <<>> ELSE upto[i - 1] \o s[i]
    IN upto

\* All bytes are those in all extents.
LEMMA ContentIsUpto ==
  ASSUME NEW s
  PROVE  Content(s) = Upto(s)[Len(s)]
  BY DEF Content, Upto

\* The recursion of Content does what it says, and its values have their types.
LEMMA UptoFacts ==
  ASSUME NEW S, NEW s \in Seq(Seq(S))
  PROVE  /\ Len(s) \in Nat
         /\ \A i \in 1 .. Len(s) : s[i] \in Seq(S)
         /\ Upto(s)[0] = <<>>
         /\ \A i \in 1 .. Len(s) : Upto(s)[i] = Cat(Upto(s)[i - 1], s[i])
         /\ \A i \in 0 .. Len(s) : Upto(s)[i] \in Seq(S)
  <1> DEFINE F == [p \in (1 .. Len(s)) \X Seq(S) |-> p[2] \o s[p[1]]]
  <1>1. Len(s) \in Nat /\ \A i \in 1 .. Len(s) : s[i] \in Seq(S)
    BY LenProperties, ElementOfSeq
  <1>2. <<>> \in Seq(S)
    BY EmptySeq
  <1>3. F \in [(1 .. Len(s)) \X Seq(S) -> Seq(S)]
    <2>1. ASSUME NEW p \in (1 .. Len(s)) \X Seq(S)
          PROVE  p[2] \o s[p[1]] \in Seq(S)
      <3>1. p[1] \in 1 .. Len(s) /\ p[2] \in Seq(S)
        OBVIOUS
      <3>2. s[p[1]] \in Seq(S)
        BY <1>1, <3>1
      <3> QED
        BY <3>1, <3>2, ConcatProperties
    <2> QED
      BY <2>1
  <1>4. PICK h \in [0 .. Len(s) -> Seq(S)] :
          h[0] = <<>> /\ \A i \in 1 .. Len(s) : h[i] = F[<<i, h[i - 1]>>]
    <2> DEFINE n == Len(s)
               T == Seq(S)
               a == <<>>
    <2>1. n \in Nat /\ a \in T /\ F \in [(1 .. n) \X T -> T]
      BY <1>1, <1>2, <1>3
    <2> HIDE DEF F, n, T, a
    <2>2. \E h : IsWalk(h, a, n, F, T)
      BY ONLY <2>1, WalkExists
    <2> QED
      BY <2>2 DEF n, T, a, IsWalk
  <1>5. \A i \in 1 .. Len(s) : h[i] = h[i - 1] \o s[i]
    <2>1. ASSUME NEW i \in 1 .. Len(s) PROVE h[i] = h[i - 1] \o s[i]
      <3>1. <<i, h[i - 1]>> \in (1 .. Len(s)) \X Seq(S)
        <4>1. i - 1 \in 0 .. Len(s)
          BY <1>1
        <4> QED
          BY <1>4, <4>1
      <3>2. F[<<i, h[i - 1]>>] = h[i - 1] \o s[i]
        BY <3>1
      <3> QED
        BY <1>4, <3>2
    <2> QED
      BY <2>1
  <1>6. h = [i \in 0 .. Len(s) |-> IF i = 0 THEN <<>> ELSE h[i - 1] \o s[i]]
    <2>1. ASSUME NEW i \in 0 .. Len(s)
          PROVE  h[i] = IF i = 0 THEN <<>> ELSE h[i - 1] \o s[i]
      <3>1. i # 0 => i \in 1 .. Len(s)
        BY <1>1
      <3> QED
        BY <1>4, <1>5, <3>1
    <2> QED
      BY <1>4, <2>1
  <1>7. Upto(s) = [i \in 0 .. Len(s) |->
                     IF i = 0 THEN <<>> ELSE Upto(s)[i - 1] \o s[i]]
    BY <1>6 DEF Upto
  <1>8. /\ Upto(s)[0] = <<>>
        /\ \A i \in 1 .. Len(s) : Upto(s)[i] = Cat(Upto(s)[i - 1], s[i])
    <2> DEFINE u == Upto(s)
    <2> HIDE DEF u
    <2>1. u = [i \in 0 .. Len(s) |-> IF i = 0 THEN <<>> ELSE u[i - 1] \o s[i]]
      BY <1>7 DEF u
    <2>2. 0 \in 0 .. Len(s) /\ \A i \in 1 .. Len(s) : i \in 0 .. Len(s) /\ i # 0
      BY <1>1
    <2>3. u[0] = <<>> /\ \A i \in 1 .. Len(s) : u[i] = u[i - 1] \o s[i]
      BY <2>1, <2>2
    <2> QED
      BY <2>3 DEF u, Cat
  <1>9. \A i \in 0 .. Len(s) : Upto(s)[i] \in Seq(S)
    <2> DEFINE G == {i \in 0 .. Len(s) : Upto(s)[i] \in Seq(S)}
    <2>1. 0 \in G
      <3>1. 0 \in 0 .. Len(s)
        BY <1>1
      <3>2. Upto(s)[0] \in Seq(S)
        BY <1>2, <1>8
      <3> QED
        BY <3>1, <3>2
    <2>2. ASSUME NEW i \in 1 .. Len(s), i - 1 \in G PROVE i \in G
      <3>1. i \in 0 .. Len(s)
        BY <1>1
      <3>2. Upto(s)[i - 1] \in Seq(S) /\ s[i] \in Seq(S)
        BY <1>1, <2>2
      <3>3. Upto(s)[i] \in Seq(S)
        BY <1>8, <3>2, CatFacts
      <3> QED
        BY <3>1, <3>3
    <2>3. \A i \in 0 .. Len(s) : i \in G
      <3> HIDE DEF G
      <3> QED
        BY <1>1, <2>1, <2>2, BoundedInduction
    <2> QED
      BY <2>3
  <1> QED
    BY <1>1, <1>8, <1>9

\* Buffers that agree on their first k extents agree on the bytes in them.
LEMMA UptoSame ==
  ASSUME NEW S, NEW s \in Seq(Seq(S)), NEW t \in Seq(Seq(S)),
         NEW k \in Nat, k <= Len(s), k <= Len(t), \A i \in 1 .. k : s[i] = t[i]
  PROVE  Upto(s)[k] = Upto(t)[k]
  <1> DEFINE G == {i \in 0 .. k : Upto(s)[i] = Upto(t)[i]}
  <1>1. /\ Len(s) \in Nat /\ Upto(s)[0] = <<>>
        /\ \A i \in 1 .. Len(s) : Upto(s)[i] = Cat(Upto(s)[i - 1], s[i])
    BY UptoFacts
  <1>2. /\ Len(t) \in Nat /\ Upto(t)[0] = <<>>
        /\ \A i \in 1 .. Len(t) : Upto(t)[i] = Cat(Upto(t)[i - 1], t[i])
    BY UptoFacts
  <1>3. 0 \in G
    BY <1>1, <1>2
  <1>4. ASSUME NEW i \in 1 .. k, i - 1 \in G PROVE i \in G
    <2>1. i \in 1 .. Len(s) /\ i \in 1 .. Len(t) /\ i \in 0 .. k
      BY <1>1, <1>2
    <2>2. Upto(s)[i - 1] = Upto(t)[i - 1]
      BY <1>4
    <2> QED
      BY <1>1, <1>2, <2>1, <2>2
  <1>5. k \in G
    <2>1. k \in 0 .. k
      OBVIOUS
    <2> HIDE DEF G
    <2> QED
      BY <1>3, <1>4, <2>1, BoundedInduction
  <1> QED
    BY <1>5

\* The bytes in extents of S are of S.
LEMMA ContentTyped ==
  ASSUME NEW S, NEW s \in Seq(Seq(S))
  PROVE  Content(s) \in Seq(S)
  <1>1. Len(s) \in 0 .. Len(s)
    BY UptoFacts
  <1> QED
    BY <1>1, UptoFacts, ContentIsUpto

\* There is nothing in a buffer without extents.
LEMMA ContentEmpty == Content(<<>>) = <<>>
  <1>1. <<>> \in Seq(Seq(Nat)) /\ Len(<<>>) = 0
    BY EmptySeq
  <1>2. Upto(<<>>)[0] = <<>>
    BY <1>1, UptoFacts
  <1> QED
    BY <1>1, <1>2, ContentIsUpto

\* One extent more.
LEMMA ContentAppend ==
  ASSUME NEW S, NEW s \in Seq(Seq(S)), NEW e \in Seq(S)
  PROVE  Content(Append(s, e)) = Cat(Content(s), e)
  <1> DEFINE t == Append(s, e)
             k == Len(s)
  <1>1. /\ t \in Seq(Seq(S)) /\ Len(t) = k + 1 /\ k \in Nat
        /\ \A i \in 1 .. k : t[i] = s[i]
        /\ t[k + 1] = e
    BY AppendProperties, LenProperties
  <1> HIDE DEF t
  <1>2. Upto(t)[k] = Upto(s)[k]
    <2>1. k <= Len(t) /\ k <= Len(s) /\ \A i \in 1 .. k : t[i] = s[i]
      BY <1>1
    <2> QED
      BY <1>1, <2>1, UptoSame
  <1>3. Upto(t)[k + 1] = Cat(Upto(t)[k], e)
    <2>1. k + 1 \in 1 .. Len(t) /\ (k + 1) - 1 = k
      BY <1>1
    <2>2. Upto(t)[k + 1] = Cat(Upto(t)[(k + 1) - 1], t[k + 1])
      BY <1>1, <2>1, UptoFacts
    <2> QED
      BY <1>1, <2>1, <2>2
  <1>4. Content(t) = Upto(t)[k + 1] /\ Content(s) = Upto(s)[k]
    BY <1>1, ContentIsUpto
  <1> QED
    BY <1>2, <1>3, <1>4 DEF t

\* More bytes in the last extent.
LEMMA ContentExtend ==
  ASSUME NEW S, NEW s \in Seq(Seq(S)), s # <<>>, NEW b \in Seq(S)
  PROVE  Content([s EXCEPT ![Len(s)] = @ \o b]) = Cat(Content(s), b)
  <1> DEFINE n == Len(s)
             e == s[n] \o b
             t == [s EXCEPT ![n] = e]
  <1>1. n \in Nat /\ n # 0 /\ n \in 1 .. n
    BY LenProperties, EmptySeq
  <1>2. s[n] \in Seq(S) /\ e \in Seq(S)
    BY <1>1, UptoFacts, ConcatProperties
  <1>3. t = [s EXCEPT ![Len(s)] = @ \o b]
    OBVIOUS
  <1> HIDE DEF e
  <1>4. /\ t \in Seq(Seq(S)) /\ Len(t) = n
        /\ \A i \in 1 .. n : t[i] = IF i = n THEN e ELSE s[i]
    BY <1>1, <1>2, ExceptSeq
  <1> HIDE DEF t
  <1>5. PICK k \in Nat : k + 1 = n
    <2>1. n - 1 \in Nat /\ (n - 1) + 1 = n
      BY <1>1
    <2> QED
      BY <2>1
  <1>6. Upto(t)[k] = Upto(s)[k]
    <2>1. \A i \in 1 .. k : i \in 1 .. n /\ i # n
      BY <1>5
    <2>2. k <= Len(s) /\ k <= Len(t) /\ \A i \in 1 .. k : s[i] = t[i]
      BY <1>4, <1>5, <2>1
    <2> QED
      BY <1>4, <2>2, UptoSame
  <1>7. n - 1 = k
    BY <1>5
  <1>8. Content(s) = Cat(Upto(s)[k], s[n])
    <2>1. Upto(s)[n] = Cat(Upto(s)[n - 1], s[n])
      BY <1>1, UptoFacts
    <2> QED
      BY <1>7, <2>1, ContentIsUpto
  <1>9. Content(t) = Cat(Upto(s)[k], e)
    <2>1. Upto(t)[n] = Cat(Upto(t)[n - 1], t[n])
      BY <1>1, <1>4, UptoFacts
    <2> QED
      BY <1>1, <1>4, <1>6, <1>7, <2>1, ContentIsUpto
  <1>10. Cat(Upto(s)[k], Cat(s[n], b)) = Cat(Cat(Upto(s)[k], s[n]), b)
    <2>1. k \in 0 .. Len(s)
      BY <1>5
    <2>2. Upto(s)[k] \in Seq(S)
      BY <2>1, UptoFacts
    <2> QED
      BY <1>2, <2>2, CatAssociative
  <1> QED
    BY <1>3, <1>8, <1>9, <1>10 DEF e, Cat

\* Two buffers, one behind the other.
LEMMA ContentCat ==
  ASSUME NEW S, NEW s \in Seq(Seq(S)), NEW t \in Seq(Seq(S))
  PROVE  Content(s \o t) = Cat(Content(s), Content(t))
  <1> DEFINE u == s \o t
             m == Len(s)
             n == Len(t)
             G == {j \in 0 .. n : Upto(u)[m + j] = Cat(Content(s), Upto(t)[j])}
  <1>1. m \in Nat /\ n \in Nat
    BY LenProperties
  <1>2. /\ u \in Seq(Seq(S)) /\ Len(u) = m + n
        /\ \A i \in 1 .. m + n : u[i] = IF i <= m THEN s[i] ELSE t[i - m]
    BY ConcatProperties
  <1> HIDE DEF u
  <1>3. Content(s) \in Seq(S) /\ Content(s) = Upto(s)[m]
    BY ContentTyped, ContentIsUpto
  <1>4. 0 \in G
    <2>1. \A i \in 1 .. m : i \in 1 .. m + n /\ i <= m
      BY <1>1
    <2>2. Upto(u)[m] = Upto(s)[m]
      <3>1. m <= Len(u) /\ m <= Len(s) /\ \A i \in 1 .. m : u[i] = s[i]
        BY <1>1, <1>2, <2>1
      <3> QED
        BY <1>1, <1>2, <3>1, UptoSame
    <2>3. Upto(t)[0] = <<>>
      BY UptoFacts
    <2> QED
      BY <1>1, <1>3, <2>2, <2>3, CatEmpty
  <1>5. ASSUME NEW j \in 1 .. n, j - 1 \in G PROVE j \in G
    <2>1. /\ m + j \in 1 .. m + n /\ ~(m + j <= m) /\ (m + j) - m = j
          /\ (m + j) - 1 = m + (j - 1) /\ j \in 0 .. n /\ j - 1 \in 0 .. n
      BY <1>1
    <2>2. Upto(u)[m + j] = Cat(Upto(u)[(m + j) - 1], u[m + j])
      BY <1>2, <2>1, UptoFacts
    <2>3. u[m + j] = t[j]
      BY <1>2, <2>1
    <2>4. Upto(u)[m + (j - 1)] = Cat(Content(s), Upto(t)[j - 1])
      BY <1>5
    <2>5. /\ Upto(t)[j] = Cat(Upto(t)[j - 1], t[j])
          /\ Upto(t)[j - 1] \in Seq(S) /\ t[j] \in Seq(S)
      BY <2>1, UptoFacts
    <2>6. Cat(Cat(Content(s), Upto(t)[j - 1]), t[j])
            = Cat(Content(s), Cat(Upto(t)[j - 1], t[j]))
      BY <1>3, <2>5, CatAssociative
    <2> QED
      BY <2>1, <2>2, <2>3, <2>4, <2>5, <2>6
  <1>6. n \in G
    <2>1. n \in 0 .. n
      BY <1>1
    <2> HIDE DEF G
    <2> QED
      BY <1>1, <1>4, <1>5, <2>1, BoundedInduction
  <1> QED
    BY <1>2, <1>6, ContentIsUpto DEF u
-----------------------------------------------------------------------------
(***************************************************************************)
(* Buffers cut behind the first bytes.                                     *)
(***************************************************************************)

\* The extents there may be: none is empty.
Extents(S) == Seq(S) \ {<<>>}

CutType(S) ==
    [left : Nat, moved : Seq(Extents(S)), rest : Seq(Extents(S))]

NoCut(n) == [left |-> n, moved |-> <<>>, rest |-> <<>>]

\* The function that Cut computes: the cut of the first i extents.
Cuts(s, n) ==
    LET upto[i \in 0 .. Len(s)] ==
          IF i = 0 THEN [left |-> n, moved |-> <<>>, rest |-> <<>>]
          ELSE CutMore(upto[i - 1], s[i])
    IN upto

\* The cut of a buffer is that of all its extents.
LEMMA CutIsCuts ==
  ASSUME NEW s, NEW n
  PROVE  Cut(s, n) = Cuts(s, n)[Len(s)]
  BY DEF Cut, Cuts

\* An extent has a length.
LEMMA ExtentFacts ==
  ASSUME NEW S, NEW e \in Extents(S)
  PROVE  e \in Seq(S) /\ Len(e) \in Nat /\ Len(e) > 0
  BY EmptySeq DEF Extents

\* A buffer is a sequence of extents.
LEMMA ExtentsFacts ==
  ASSUME NEW S, NEW s \in Seq(Extents(S))
  PROVE  /\ s \in Seq(Seq(S)) /\ Len(s) \in Nat
         /\ \A i \in 1 .. Len(s) : s[i] \in Extents(S)
  <1>1. Extents(S) \subseteq Seq(S)
    BY DEF Extents
  <1> QED
    BY <1>1, SeqMonotonic, LenProperties, ElementOfSeq

\* A piece of an extent that has a length is an extent.
LEMMA PieceIsExtent ==
  ASSUME NEW S, NEW e \in Seq(S), Len(e) > 0
  PROVE  e \in Extents(S)
  BY EmptySeq DEF Extents

\* The fields of the cut of one extent more.
LEMMA CutMoreFields ==
  ASSUME NEW S, NEW c \in CutType(S), NEW e \in Extents(S)
  PROVE  /\ c.left \in Nat
         /\ c.moved \in Seq(Extents(S)) /\ c.rest \in Seq(Extents(S))
         /\ CutMore(c, e).left = c.left - Least(c.left, Len(e))
         /\ CutMore(c, e).moved =
              IF c.left = 0 THEN c.moved ELSE Append(c.moved, First(e, c.left))
         /\ CutMore(c, e).rest =
              IF c.left >= Len(e) THEN c.rest ELSE Append(c.rest, Rest(e, c.left))
         /\ CutMore(c, e) \in CutType(S)
  <1>1. Len(e) \in Nat /\ Len(e) > 0 /\ e \in Seq(S)
    BY ExtentFacts
  <1>2. /\ c.left \in Nat
        /\ c.moved \in Seq(Extents(S)) /\ c.rest \in Seq(Extents(S))
    BY DEF CutType
  <1> DEFINE n == Least(c.left, Len(e))
  <1>3. /\ n \in Nat /\ c.left - n \in Nat
        /\ n = 0 <=> c.left = 0
        /\ n = Len(e) <=> c.left >= Len(e)
        /\ c.left < Len(e) => n = c.left
    BY <1>1, <1>2 DEF Least
  <1>4. /\ CutMore(c, e).left = c.left - n
        /\ CutMore(c, e).moved =
             IF n = 0 THEN c.moved ELSE Append(c.moved, SubSeq(e, 1, n))
        /\ CutMore(c, e).rest =
             IF n = Len(e) THEN c.rest ELSE Append(c.rest, SubSeq(e, n + 1, Len(e)))
    BY DEF CutMore
  <1>5. CutMore(c, e).moved =
          IF c.left = 0 THEN c.moved ELSE Append(c.moved, First(e, c.left))
    BY <1>3, <1>4 DEF First
  <1>6. CutMore(c, e).rest =
          IF c.left >= Len(e) THEN c.rest ELSE Append(c.rest, Rest(e, c.left))
    BY <1>1, <1>2, <1>3, <1>4 DEF Rest
  <1>7. CutMore(c, e) = [left |-> CutMore(c, e).left,
                         moved |-> CutMore(c, e).moved,
                         rest |-> CutMore(c, e).rest]
    BY DEF CutMore
  <1> HIDE DEF n
  <1>8. CutMore(c, e).moved \in Seq(Extents(S))
    <2>1. ASSUME c.left # 0 PROVE First(e, c.left) \in Extents(S)
      <3>1. First(e, c.left) \in Seq(S) /\ Len(First(e, c.left)) = Least(c.left, Len(e))
        BY <1>1, <1>2, FirstRest
      <3>2. Least(c.left, Len(e)) > 0
        BY <1>1, <1>2, <2>1 DEF Least
      <3> QED
        BY <3>1, <3>2, PieceIsExtent
    <2> QED
      BY <1>2, <1>5, <2>1, AppendProperties
  <1>9. CutMore(c, e).rest \in Seq(Extents(S))
    <2>1. ASSUME ~(c.left >= Len(e)) PROVE Rest(e, c.left) \in Extents(S)
      <3> DEFINE r == Rest(e, c.left)
                 f == First(e, c.left)
      <3>1. /\ f \in Seq(S) /\ r \in Seq(S) /\ Len(f) = Least(c.left, Len(e))
            /\ Cat(f, r) = e
        BY <1>1, <1>2, FirstRest
      <3> HIDE DEF r, f
      <3>2. Len(f) + Len(r) = Len(e) /\ Len(r) \in Nat
        BY <3>1, CatFacts, LenProperties
      <3>3. Len(r) > 0
        BY <1>1, <1>2, <2>1, <3>1, <3>2 DEF Least
      <3> QED
        BY <3>1, <3>3, PieceIsExtent DEF r
    <2> QED
      BY <1>2, <1>6, <2>1, AppendProperties
  <1>10. CutMore(c, e) \in CutType(S)
    <2> DEFINE l == CutMore(c, e).left
               m == CutMore(c, e).moved
               r == CutMore(c, e).rest
    <2>1. l \in Nat /\ m \in Seq(Extents(S)) /\ r \in Seq(Extents(S))
      BY <1>3, <1>4, <1>8, <1>9 DEF n
    <2> HIDE DEF l, m, r
    <2>2. [left |-> l, moved |-> m, rest |-> r] \in CutType(S)
      BY <2>1 DEF CutType
    <2> QED
      BY <1>7, <2>2 DEF l, m, r
  <1> QED
    BY <1>2, <1>4, <1>5, <1>6, <1>10 DEF n

\* The recursion of Cut does what it says, and its values have their types.
LEMMA CutsFacts ==
  ASSUME NEW S, NEW s \in Seq(Extents(S)), NEW n \in Nat
  PROVE  /\ Cuts(s, n)[0] = NoCut(n)
         /\ \A i \in 1 .. Len(s) : Cuts(s, n)[i] = CutMore(Cuts(s, n)[i - 1], s[i])
         /\ \A i \in 0 .. Len(s) : Cuts(s, n)[i] \in CutType(S)
  <1> DEFINE F == [p \in (1 .. Len(s)) \X CutType(S) |-> CutMore(p[2], s[p[1]])]
  <1>1. Len(s) \in Nat /\ \A i \in 1 .. Len(s) : s[i] \in Extents(S)
    BY ExtentsFacts
  <1>2. NoCut(n) \in CutType(S)
    BY EmptySeq DEF NoCut, CutType
  <1>3. F \in [(1 .. Len(s)) \X CutType(S) -> CutType(S)]
    <2>1. ASSUME NEW p \in (1 .. Len(s)) \X CutType(S)
          PROVE  CutMore(p[2], s[p[1]]) \in CutType(S)
      <3>1. p[1] \in 1 .. Len(s) /\ p[2] \in CutType(S)
        OBVIOUS
      <3> QED
        BY <1>1, <3>1, CutMoreFields
    <2> QED
      BY <2>1
  <1>4. PICK h \in [0 .. Len(s) -> CutType(S)] :
          h[0] = NoCut(n) /\ \A i \in 1 .. Len(s) : h[i] = F[<<i, h[i - 1]>>]
    <2> DEFINE k == Len(s)
               T == CutType(S)
               a == NoCut(n)
    <2>1. k \in Nat /\ a \in T /\ F \in [(1 .. k) \X T -> T]
      BY <1>1, <1>2, <1>3
    <2> HIDE DEF F, k, T, a
    <2>2. \E h : IsWalk(h, a, k, F, T)
      BY ONLY <2>1, WalkExists
    <2> QED
      BY <2>2 DEF k, T, a, IsWalk
  <1>5. \A i \in 1 .. Len(s) : h[i] = CutMore(h[i - 1], s[i])
    <2>1. ASSUME NEW i \in 1 .. Len(s) PROVE h[i] = CutMore(h[i - 1], s[i])
      <3>1. <<i, h[i - 1]>> \in (1 .. Len(s)) \X CutType(S)
        <4>1. i - 1 \in 0 .. Len(s)
          BY <1>1
        <4> QED
          BY <1>4, <4>1
      <3>2. F[<<i, h[i - 1]>>] = CutMore(h[i - 1], s[i])
        BY <3>1
      <3> QED
        BY <1>4, <3>2
    <2> QED
      BY <2>1
  <1>6. h = [i \in 0 .. Len(s) |-> IF i = 0 THEN [left |-> n, moved |-> <<>>, rest |-> <<>>]
                                   ELSE CutMore(h[i - 1], s[i])]
    <2>1. ASSUME NEW i \in 0 .. Len(s)
          PROVE  h[i] = IF i = 0 THEN NoCut(n) ELSE CutMore(h[i - 1], s[i])
      <3>1. i # 0 => i \in 1 .. Len(s)
        BY <1>1
      <3> QED
        BY <1>4, <1>5, <3>1
    <2>2. h = [i \in 0 .. Len(s) |-> IF i = 0 THEN NoCut(n) ELSE CutMore(h[i - 1], s[i])]
      BY <1>4, <2>1
    <2> QED
      BY <2>2 DEF NoCut
  <1>7. Cuts(s, n) = [i \in 0 .. Len(s) |->
                        IF i = 0 THEN [left |-> n, moved |-> <<>>, rest |-> <<>>]
                        ELSE CutMore(Cuts(s, n)[i - 1], s[i])]
    BY <1>6 DEF Cuts
  <1>8. /\ Cuts(s, n)[0] = NoCut(n)
        /\ \A i \in 1 .. Len(s) : Cuts(s, n)[i] = CutMore(Cuts(s, n)[i - 1], s[i])
    <2> DEFINE u == Cuts(s, n)
    <2> HIDE DEF u
    <2>1. u = [i \in 0 .. Len(s) |-> IF i = 0 THEN NoCut(n) ELSE CutMore(u[i - 1], s[i])]
      BY <1>7 DEF u, NoCut
    <2>2. 0 \in 0 .. Len(s) /\ \A i \in 1 .. Len(s) : i \in 0 .. Len(s) /\ i # 0
      BY <1>1
    <2>3. u[0] = NoCut(n) /\ \A i \in 1 .. Len(s) : u[i] = CutMore(u[i - 1], s[i])
      BY <2>1, <2>2
    <2> QED
      BY <2>3 DEF u
  <1>9. \A i \in 0 .. Len(s) : Cuts(s, n)[i] \in CutType(S)
    <2> DEFINE G == {i \in 0 .. Len(s) : Cuts(s, n)[i] \in CutType(S)}
    <2>1. 0 \in G
      <3>1. 0 \in 0 .. Len(s)
        BY <1>1
      <3> QED
        BY <1>2, <1>8, <3>1
    <2>2. ASSUME NEW i \in 1 .. Len(s), i - 1 \in G PROVE i \in G
      <3>1. i \in 0 .. Len(s)
        BY <1>1
      <3>2. Cuts(s, n)[i - 1] \in CutType(S) /\ s[i] \in Extents(S)
        BY <1>1, <2>2
      <3>3. Cuts(s, n)[i] \in CutType(S)
        BY <1>8, <3>2, CutMoreFields
      <3> QED
        BY <3>1, <3>3
    <2>3. \A i \in 0 .. Len(s) : i \in G
      <3> HIDE DEF G
      <3> QED
        BY <1>1, <2>1, <2>2, BoundedInduction
    <2> QED
      BY <2>3
  <1> QED
    BY <1>8, <1>9

\* One extent more, cut where the bytes so far were cut.
LEMMA CutMoreContent ==
  ASSUME NEW S, NEW c \in CutType(S), NEW e \in Extents(S), NEW u \in Seq(S),
         NEW n \in Nat,
         c.left = IF Len(u) <= n THEN n - Len(u) ELSE 0,
         Content(c.moved) = First(u, n), Content(c.rest) = Rest(u, n)
  PROVE  LET d == CutMore(c, e) IN
         /\ d.left = IF Len(Cat(u, e)) <= n THEN n - Len(Cat(u, e)) ELSE 0
         /\ Content(d.moved) = First(Cat(u, e), n)
         /\ Content(d.rest) = Rest(Cat(u, e), n)
  <1> DEFINE d == CutMore(c, e)
             l == c.left
             v == Cat(u, e)
  <1>1. /\ l \in Nat
        /\ c.moved \in Seq(Extents(S)) /\ c.rest \in Seq(Extents(S))
        /\ d.left = l - Least(l, Len(e))
        /\ d.moved = IF l = 0 THEN c.moved ELSE Append(c.moved, First(e, l))
        /\ d.rest = IF l >= Len(e) THEN c.rest ELSE Append(c.rest, Rest(e, l))
    BY CutMoreFields
  <1>2. e \in Seq(S) /\ Len(e) \in Nat /\ Len(e) > 0 /\ Len(u) \in Nat
    BY ExtentFacts, LenProperties
  <1>3. /\ First(u, n) \in Seq(S) /\ Rest(u, n) \in Seq(S)
        /\ n >= Len(u) => Rest(u, n) = <<>> /\ First(u, n) = u
    BY FirstRest
  <1>4. /\ First(e, l) \in Seq(S) /\ Rest(e, l) \in Seq(S)
        /\ l >= Len(e) => Rest(e, l) = <<>>
    BY <1>1, <1>2, FirstRest
  <1>5. Len(v) = Len(u) + Len(e)
    BY <1>2, CatFacts
  <1>6. c.moved \in Seq(Seq(S)) /\ c.rest \in Seq(Seq(S))
    BY <1>1, ExtentsFacts
  <1>7. /\ Content(Append(c.moved, First(e, l))) = Cat(First(u, n), First(e, l))
        /\ Content(Append(c.rest, Rest(e, l))) = Cat(Rest(u, n), Rest(e, l))
    BY <1>4, <1>6, ContentAppend
  <1>8. /\ n <= Len(u) => First(v, n) = First(u, n) /\ Rest(v, n) = Cat(Rest(u, n), e)
        /\ n >= Len(u) => /\ First(v, n) = Cat(u, First(e, n - Len(u)))
                          /\ Rest(v, n) = Rest(e, n - Len(u))
    BY <1>2, CutCat
  <1>9. l = IF Len(u) <= n THEN n - Len(u) ELSE 0
    OBVIOUS
  <1> HIDE DEF d, l, v
  <1>10. d.left = IF Len(v) <= n THEN n - Len(v) ELSE 0
    <2>1. PICK p \in Nat, q \in Nat, k \in Nat : p = Len(u) /\ q = Len(e) /\ k = l
      BY <1>1, <1>2
    <2>2. d.left = k - Least(k, q) /\ Len(v) = p + q
      BY <1>1, <1>5, <2>1
    <2>3. k = IF p <= n THEN n - p ELSE 0
      BY <1>9, <2>1
    <2>4. k - Least(k, q) = IF p + q <= n THEN n - (p + q) ELSE 0
      BY ONLY <2>3, k \in Nat, q \in Nat, p \in Nat, n \in Nat DEF Least
    <2> QED
      BY <2>2, <2>4
  <1>11. Content(d.moved) = First(v, n)
    <2>1. CASE l = 0
      <3>1. n <= Len(u)
        BY <1>2, <1>9, <2>1
      <3>2. d.moved = c.moved
        BY <1>1, <2>1
      <3> QED
        BY <1>8, <3>1, <3>2
    <2>2. CASE l # 0
      <3>1. n >= Len(u) /\ n - Len(u) = l
        BY <1>2, <1>9, <2>2
      <3>2. Content(d.moved) = Cat(First(u, n), First(e, l))
        BY <1>1, <1>7, <2>2
      <3> QED
        BY <1>3, <1>8, <3>1, <3>2
    <2> QED
      BY <2>1, <2>2
  <1>12. Content(d.rest) = Rest(v, n)
    <2>1. CASE l >= Len(e)
      <3>1. n >= Len(u) /\ n - Len(u) = l
        BY <1>1, <1>2, <1>9, <2>1
      <3>2. Content(d.rest) = Rest(u, n)
        BY <1>1, <2>1
      <3> QED
        BY <1>3, <1>4, <1>8, <2>1, <3>1, <3>2
    <2>2. CASE ~(l >= Len(e)) /\ n >= Len(u)
      <3>1. n - Len(u) = l
        BY <1>2, <1>9, <2>2
      <3>2. Content(d.rest) = Cat(Rest(u, n), Rest(e, l))
        BY <1>1, <1>7, <2>2
      <3>3. Cat(<<>>, Rest(e, l)) = Rest(e, l)
        BY <1>4, CatEmpty
      <3> QED
        BY <1>3, <1>8, <2>2, <3>1, <3>2, <3>3
    <2>3. CASE ~(l >= Len(e)) /\ ~(n >= Len(u))
      <3>1. n <= Len(u) /\ l = 0
        BY <1>2, <1>9, <2>3
      <3>2. Content(d.rest) = Cat(Rest(u, n), Rest(e, l))
        BY <1>1, <1>7, <2>3
      <3>3. Rest(e, 0) = e
        BY <1>2, SubSeqFull DEF Rest
      <3> QED
        BY <1>8, <3>1, <3>2, <3>3
    <2> QED
      BY <2>1, <2>2, <2>3
  <1> QED
    BY <1>10, <1>11, <1>12 DEF d, v

\* Cutting a buffer cuts the bytes in it.
LEMMA CutContent ==
  ASSUME NEW S, NEW s \in Seq(Extents(S)), NEW n \in Nat
  PROVE  /\ Moved(s, n) \in Seq(Extents(S)) /\ Drained(s, n) \in Seq(Extents(S))
         /\ Content(Moved(s, n)) = First(Content(s), n)
         /\ Content(Drained(s, n)) = Rest(Content(s), n)
  <1> DEFINE C(i) == Cuts(s, n)[i]
             U(i) == Upto(s)[i]
             Good(i) == /\ C(i).left = IF Len(U(i)) <= n THEN n - Len(U(i)) ELSE 0
                        /\ Content(C(i).moved) = First(U(i), n)
                        /\ Content(C(i).rest) = Rest(U(i), n)
             G == {i \in 0 .. Len(s) : Good(i)}
  <1>1. /\ s \in Seq(Seq(S)) /\ Len(s) \in Nat
        /\ \A i \in 1 .. Len(s) : s[i] \in Extents(S)
    BY ExtentsFacts
  <1>2. /\ U(0) = <<>>
        /\ \A i \in 1 .. Len(s) : U(i) = Cat(U(i - 1), s[i])
        /\ \A i \in 0 .. Len(s) : U(i) \in Seq(S)
    BY <1>1, UptoFacts
  <1>3. /\ C(0) = NoCut(n)
        /\ \A i \in 1 .. Len(s) : C(i) = CutMore(C(i - 1), s[i])
        /\ \A i \in 0 .. Len(s) : C(i) \in CutType(S)
    BY CutsFacts
  <1>4. 0 \in G
    <2>1. Len(<<>>) = 0 /\ <<>> \in Seq(S)
      BY EmptySeq
    <2>2. First(<<>>, n) = <<>> /\ Rest(<<>>, n) = <<>>
      <3>1. n >= Len(<<>>)
        BY <2>1
      <3> QED
        BY <2>1, <3>1, FirstRest
    <2>3. C(0).left = n /\ C(0).moved = <<>> /\ C(0).rest = <<>>
      BY <1>3 DEF NoCut
    <2>4. n - 0 = n /\ 0 <= n
      OBVIOUS
    <2>5. Good(0)
      BY <1>2, <2>1, <2>2, <2>3, <2>4, ContentEmpty
    <2> QED
      BY <1>1, <2>5
  <1>5. ASSUME NEW i \in 1 .. Len(s), i - 1 \in G PROVE i \in G
    <2>1. i \in 0 .. Len(s) /\ i - 1 \in 0 .. Len(s)
      BY <1>1
    <2>2. PICK c, u, e : c = C(i - 1) /\ u = U(i - 1) /\ e = s[i]
      OBVIOUS
    <2>3. /\ c.left = IF Len(u) <= n THEN n - Len(u) ELSE 0
          /\ Content(c.moved) = First(u, n) /\ Content(c.rest) = Rest(u, n)
      BY <1>5, <2>2
    <2>4. c \in CutType(S) /\ u \in Seq(S) /\ e \in Extents(S)
      BY <1>1, <1>2, <1>3, <2>1, <2>2
    <2>5. /\ CutMore(c, e).left = IF Len(Cat(u, e)) <= n THEN n - Len(Cat(u, e)) ELSE 0
          /\ Content(CutMore(c, e).moved) = First(Cat(u, e), n)
          /\ Content(CutMore(c, e).rest) = Rest(Cat(u, e), n)
      BY <2>3, <2>4, CutMoreContent
    <2>6. C(i) = CutMore(c, e) /\ U(i) = Cat(u, e)
      BY <1>2, <1>3, <2>2
    <2>7. Good(i)
      <3> HIDE DEF C, U
      <3> QED
        BY <2>5, <2>6
    <2> HIDE DEF Good
    <2> QED
      BY <2>1, <2>7
  <1>6. Good(Len(s))
    <2>1. Len(s) \in G
      <3>1. Len(s) \in 0 .. Len(s)
        BY <1>1
      <3> HIDE DEF G
      <3> QED
        BY <1>1, <1>4, <1>5, <3>1, BoundedInduction
    <2> HIDE DEF Good
    <2> QED
      BY <2>1
  <1>7. C(Len(s)) \in CutType(S)
    BY <1>1, <1>3
  <1>8. C(Len(s)) = Cut(s, n) /\ U(Len(s)) = Content(s)
    BY CutIsCuts, ContentIsUpto
  <1> HIDE DEF C, U
  <1>9. Cut(s, n).moved \in Seq(Extents(S)) /\ Cut(s, n).rest \in Seq(Extents(S))
    BY <1>7, <1>8 DEF CutType
  <1> QED
    BY <1>6, <1>8, <1>9 DEF Moved, Drained
-----------------------------------------------------------------------------
(***************************************************************************)
(* What copyout and remove return.                                         *)
(***************************************************************************)

CopyType(S) == [out : Seq(S), upto : Nat, more : BOOLEAN]

NothingCopied(n) == [out |-> <<>>, upto |-> n, more |-> TRUE]

\* for_each_ goes on with the next extent only as long as it is told to.
CopyNext(acc, e) == IF acc.more THEN Copy(acc, e) ELSE acc

\* The function that Copyout computes: what was copied after i extents.
Copies(s, n) ==
    LET after[i \in 0 .. Len(s)] ==
          IF i = 0 THEN [out |-> <<>>, upto |-> n, more |-> TRUE]
          ELSE LET acc == after[i - 1] IN
               IF acc.more THEN Copy(acc, s[i]) ELSE acc
    IN after

\* What copyout returns is what was copied after the last extent.
LEMMA CopyoutIsCopies ==
  ASSUME NEW s, NEW n
  PROVE  Copyout(s, n) = Copies(s, n)[Len(s)].out
  BY DEF Copyout, Copies

\* The fields of what was copied after one extent more.
LEMMA CopyFields ==
  ASSUME NEW S, NEW c \in CopyType(S), NEW e \in Seq(S)
  PROVE  /\ c.out \in Seq(S) /\ c.upto \in Nat /\ c.more \in BOOLEAN
         /\ Copy(c, e).out = Cat(c.out, First(e, c.upto))
         /\ Copy(c, e).upto = c.upto - Least(c.upto, Len(e))
         /\ Copy(c, e).more = (c.upto - Least(c.upto, Len(e)) > 0)
         /\ CopyNext(c, e) \in CopyType(S)
  <1>1. c.out \in Seq(S) /\ c.upto \in Nat /\ c.more \in BOOLEAN
    BY DEF CopyType
  <1> DEFINE n == Least(c.upto, Len(e))
             d == Copy(c, e)
  <1>2. Len(e) \in Nat
    BY LenProperties
  <1>3. n \in Nat /\ c.upto - n \in Nat
    BY <1>1, <1>2 DEF Least
  <1>4. /\ d.out = Cat(c.out, First(e, c.upto))
        /\ d.upto = c.upto - n /\ d.more = (c.upto - n > 0)
    BY DEF Copy, Cat, First
  <1>5. d.out \in Seq(S)
    <2>1. First(e, c.upto) \in Seq(S)
      BY <1>1, FirstRest
    <2> QED
      BY <1>1, <1>4, <2>1, CatFacts
  <1>6. d.upto \in Nat /\ d.more \in BOOLEAN
    BY <1>3, <1>4
  <1>7. d = [out |-> d.out, upto |-> d.upto, more |-> d.more]
    BY DEF Copy
  <1>8. d \in CopyType(S)
    <2> DEFINE o == d.out
               p == d.upto
               m == d.more
    <2>1. o \in Seq(S) /\ p \in Nat /\ m \in BOOLEAN
      BY <1>5, <1>6
    <2>2. d = [out |-> o, upto |-> p, more |-> m]
      BY <1>7
    <2> HIDE DEF o, p, m, d
    <2> QED
      BY <2>1, <2>2 DEF CopyType
  <1>9. CopyNext(c, e) \in CopyType(S)
    <2> HIDE DEF d
    <2>1. CopyNext(c, e) = IF c.more THEN d ELSE c
      BY DEF CopyNext, d
    <2> QED
      BY <1>8, <2>1
  <1> QED
    BY <1>1, <1>4, <1>9

\* The recursion of Copyout does what it says, and its values have their types.
LEMMA CopiesFacts ==
  ASSUME NEW S, NEW s \in Seq(Seq(S)), NEW n \in Nat
  PROVE  /\ Copies(s, n)[0] = NothingCopied(n)
         /\ \A i \in 1 .. Len(s) : Copies(s, n)[i] = CopyNext(Copies(s, n)[i - 1], s[i])
         /\ \A i \in 0 .. Len(s) : Copies(s, n)[i] \in CopyType(S)
  <1> DEFINE F == [p \in (1 .. Len(s)) \X CopyType(S) |-> CopyNext(p[2], s[p[1]])]
  <1>1. Len(s) \in Nat /\ \A i \in 1 .. Len(s) : s[i] \in Seq(S)
    BY LenProperties, ElementOfSeq
  <1>2. NothingCopied(n) \in CopyType(S)
    BY EmptySeq DEF NothingCopied, CopyType
  <1>3. F \in [(1 .. Len(s)) \X CopyType(S) -> CopyType(S)]
    <2>1. ASSUME NEW p \in (1 .. Len(s)) \X CopyType(S)
          PROVE  CopyNext(p[2], s[p[1]]) \in CopyType(S)
      <3>1. p[1] \in 1 .. Len(s) /\ p[2] \in CopyType(S)
        OBVIOUS
      <3> QED
        BY <1>1, <3>1, CopyFields
    <2> QED
      BY <2>1
  <1>4. PICK h \in [0 .. Len(s) -> CopyType(S)] :
          h[0] = NothingCopied(n) /\ \A i \in 1 .. Len(s) : h[i] = F[<<i, h[i - 1]>>]
    <2> DEFINE k == Len(s)
               T == CopyType(S)
               a == NothingCopied(n)
    <2>1. k \in Nat /\ a \in T /\ F \in [(1 .. k) \X T -> T]
      BY <1>1, <1>2, <1>3
    <2> HIDE DEF F, k, T, a
    <2>2. \E h : IsWalk(h, a, k, F, T)
      BY ONLY <2>1, WalkExists
    <2> QED
      BY <2>2 DEF k, T, a, IsWalk
  <1>5. \A i \in 1 .. Len(s) : h[i] = CopyNext(h[i - 1], s[i])
    <2>1. ASSUME NEW i \in 1 .. Len(s) PROVE h[i] = CopyNext(h[i - 1], s[i])
      <3>1. <<i, h[i - 1]>> \in (1 .. Len(s)) \X CopyType(S)
        <4>1. i - 1 \in 0 .. Len(s)
          BY <1>1
        <4> QED
          BY <1>4, <4>1
      <3>2. F[<<i, h[i - 1]>>] = CopyNext(h[i - 1], s[i])
        BY <3>1
      <3> QED
        BY <1>4, <3>2
    <2> QED
      BY <2>1
  <1>6. h = [i \in 0 .. Len(s) |-> IF i = 0 THEN NothingCopied(n)
                                   ELSE CopyNext(h[i - 1], s[i])]
    <2>1. ASSUME NEW i \in 0 .. Len(s)
          PROVE  h[i] = IF i = 0 THEN NothingCopied(n) ELSE CopyNext(h[i - 1], s[i])
      <3>1. i # 0 => i \in 1 .. Len(s)
        BY <1>1
      <3> QED
        BY <1>4, <1>5, <3>1
    <2> QED
      BY <1>4, <2>1
  <1>7. Copies(s, n) = [i \in 0 .. Len(s) |-> IF i = 0 THEN NothingCopied(n)
                                              ELSE CopyNext(Copies(s, n)[i - 1], s[i])]
    BY <1>6 DEF Copies, NothingCopied, CopyNext
  <1>8. /\ Copies(s, n)[0] = NothingCopied(n)
        /\ \A i \in 1 .. Len(s) : Copies(s, n)[i] = CopyNext(Copies(s, n)[i - 1], s[i])
    <2> DEFINE u == Copies(s, n)
    <2> HIDE DEF u
    <2>1. u = [i \in 0 .. Len(s) |-> IF i = 0 THEN NothingCopied(n)
                                     ELSE CopyNext(u[i - 1], s[i])]
      BY <1>7 DEF u
    <2>2. 0 \in 0 .. Len(s) /\ \A i \in 1 .. Len(s) : i \in 0 .. Len(s) /\ i # 0
      BY <1>1
    <2>3. u[0] = NothingCopied(n) /\ \A i \in 1 .. Len(s) : u[i] = CopyNext(u[i - 1], s[i])
      BY <2>1, <2>2
    <2> QED
      BY <2>3 DEF u
  <1>9. \A i \in 0 .. Len(s) : Copies(s, n)[i] \in CopyType(S)
    <2> DEFINE G == {i \in 0 .. Len(s) : Copies(s, n)[i] \in CopyType(S)}
    <2>1. 0 \in G
      <3>1. 0 \in 0 .. Len(s)
        BY <1>1
      <3> QED
        BY <1>2, <1>8, <3>1
    <2>2. ASSUME NEW i \in 1 .. Len(s), i - 1 \in G PROVE i \in G
      <3>1. i \in 0 .. Len(s)
        BY <1>1
      <3>2. Copies(s, n)[i - 1] \in CopyType(S) /\ s[i] \in Seq(S)
        BY <1>1, <2>2
      <3>3. Copies(s, n)[i] \in CopyType(S)
        BY <1>8, <3>2, CopyFields
      <3> QED
        BY <3>1, <3>3
    <2>3. \A i \in 0 .. Len(s) : i \in G
      <3> HIDE DEF G
      <3> QED
        BY <1>1, <2>1, <2>2, BoundedInduction
    <2> QED
      BY <2>3
  <1> QED
    BY <1>8, <1>9

\* One extent more, of which is copied what may still be.
LEMMA CopyNextContent ==
  ASSUME NEW S, NEW c \in CopyType(S), NEW e \in Seq(S), NEW u \in Seq(S),
         NEW n \in Nat,
         c.out = First(u, n),
         c.more => Len(u) <= n /\ c.upto = n - Len(u),
         ~c.more => n <= Len(u)
  PROVE  LET d == CopyNext(c, e) IN
         /\ d.out = First(Cat(u, e), n)
         /\ d.more => Len(Cat(u, e)) <= n /\ d.upto = n - Len(Cat(u, e))
         /\ ~d.more => n <= Len(Cat(u, e))
  <1> DEFINE d == CopyNext(c, e)
             v == Cat(u, e)
  <1>1. /\ c.upto \in Nat
        /\ Copy(c, e).out = Cat(c.out, First(e, c.upto))
        /\ Copy(c, e).upto = c.upto - Least(c.upto, Len(e))
        /\ Copy(c, e).more = (c.upto - Least(c.upto, Len(e)) > 0)
    BY CopyFields
  <1>2. Len(u) \in Nat /\ Len(e) \in Nat /\ Len(v) = Len(u) + Len(e)
    BY LenProperties, CatFacts
  <1>3. /\ n <= Len(u) => First(v, n) = First(u, n)
        /\ n >= Len(u) => First(v, n) = Cat(u, First(e, n - Len(u)))
    BY CutCat
  <1>4. n >= Len(u) => First(u, n) = u
    BY FirstRest
  <1>5. CASE ~c.more
    <2>1. d = c
      BY <1>5 DEF CopyNext
    <2>2. n <= Len(u)
      BY <1>5
    <2> HIDE DEF d, v
    <2>3. n <= Len(v)
      BY <1>2, <2>2
    <2>4. d.out = First(v, n)
      BY <1>3, <2>1, <2>2
    <2> QED
      BY <1>5, <2>1, <2>3, <2>4 DEF d, v
  <1>6. CASE c.more
    <2>1. d = Copy(c, e)
      BY <1>6 DEF CopyNext
    <2>2. PICK p \in Nat, q \in Nat, k \in Nat :
            p = Len(u) /\ q = Len(e) /\ k = c.upto
      BY <1>1, <1>2
    <2>3. p <= n /\ k = n - p
      BY <1>6, <2>2
    <2> HIDE DEF d, v
    <2>4. d.out = First(v, n)
      <3>1. n >= Len(u) /\ c.upto = n - Len(u)
        BY <2>2, <2>3
      <3>2. d.out = Cat(First(u, n), First(e, c.upto))
        BY <1>1, <2>1
      <3> QED
        BY <1>3, <1>4, <3>1, <3>2
    <2>5. d.upto = k - Least(k, q) /\ d.more = (k - Least(k, q) > 0) /\ Len(v) = p + q
      BY <1>1, <1>2, <2>1, <2>2
    <2>6. /\ k - Least(k, q) > 0 => p + q <= n /\ k - Least(k, q) = n - (p + q)
          /\ ~(k - Least(k, q) > 0) => n <= p + q
      BY ONLY <2>3, k \in Nat, q \in Nat, p \in Nat, n \in Nat DEF Least
    <2>7. (d.more => Len(v) <= n /\ d.upto = n - Len(v)) /\ (~d.more => n <= Len(v))
      BY <2>5, <2>6
    <2> QED
      BY <2>4, <2>7 DEF d, v
  <1>7. c.more \in BOOLEAN
    BY CopyFields
  <1> QED
    BY <1>5, <1>6, <1>7

\* copyout returns the first bytes.
LEMMA CopyoutContent ==
  ASSUME NEW S, NEW s \in Seq(Seq(S)), NEW n \in Nat
  PROVE  Copyout(s, n) = First(Content(s), n)
  <1> DEFINE C(i) == Copies(s, n)[i]
             U(i) == Upto(s)[i]
             Good(i) == /\ C(i).out = First(U(i), n)
                        /\ C(i).more => Len(U(i)) <= n /\ C(i).upto = n - Len(U(i))
                        /\ ~C(i).more => n <= Len(U(i))
             G == {i \in 0 .. Len(s) : Good(i)}
  <1>1. Len(s) \in Nat /\ \A i \in 1 .. Len(s) : s[i] \in Seq(S)
    BY UptoFacts
  <1>2. /\ U(0) = <<>>
        /\ \A i \in 1 .. Len(s) : U(i) = Cat(U(i - 1), s[i])
        /\ \A i \in 0 .. Len(s) : U(i) \in Seq(S)
    BY UptoFacts
  <1>3. /\ C(0) = NothingCopied(n)
        /\ \A i \in 1 .. Len(s) : C(i) = CopyNext(C(i - 1), s[i])
        /\ \A i \in 0 .. Len(s) : C(i) \in CopyType(S)
    BY CopiesFacts
  <1>4. 0 \in G
    <2>1. Len(<<>>) = 0 /\ <<>> \in Seq(S)
      BY EmptySeq
    <2>2. First(<<>>, n) = <<>>
      <3>1. n >= Len(<<>>)
        BY <2>1
      <3> QED
        BY <2>1, <3>1, FirstRest
    <2>3. C(0).out = <<>> /\ C(0).more = TRUE /\ C(0).upto = n
      BY <1>3 DEF NothingCopied
    <2>4. n - 0 = n /\ 0 <= n
      OBVIOUS
    <2>5. Good(0)
      BY <1>2, <2>1, <2>2, <2>3, <2>4
    <2> QED
      BY <1>1, <2>5
  <1>5. ASSUME NEW i \in 1 .. Len(s), i - 1 \in G PROVE i \in G
    <2>1. i \in 0 .. Len(s) /\ i - 1 \in 0 .. Len(s)
      BY <1>1
    <2>2. PICK c, u, e : c = C(i - 1) /\ u = U(i - 1) /\ e = s[i]
      OBVIOUS
    <2>3. /\ c.out = First(u, n)
          /\ c.more => Len(u) <= n /\ c.upto = n - Len(u)
          /\ ~c.more => n <= Len(u)
      BY <1>5, <2>2
    <2>4. c \in CopyType(S) /\ u \in Seq(S) /\ e \in Seq(S)
      BY <1>1, <1>2, <1>3, <2>1, <2>2
    <2>5. /\ CopyNext(c, e).out = First(Cat(u, e), n)
          /\ CopyNext(c, e).more => /\ Len(Cat(u, e)) <= n
                                    /\ CopyNext(c, e).upto = n - Len(Cat(u, e))
          /\ ~CopyNext(c, e).more => n <= Len(Cat(u, e))
      BY <2>3, <2>4, CopyNextContent
    <2>6. C(i) = CopyNext(c, e) /\ U(i) = Cat(u, e)
      BY <1>2, <1>3, <2>2
    <2>7. Good(i)
      <3> HIDE DEF C, U
      <3> QED
        BY <2>5, <2>6
    <2> HIDE DEF Good
    <2> QED
      BY <2>1, <2>7
  <1>6. Good(Len(s))
    <2>1. Len(s) \in G
      <3>1. Len(s) \in 0 .. Len(s)
        BY <1>1
      <3> HIDE DEF G
      <3> QED
        BY <1>1, <1>4, <1>5, <3>1, BoundedInduction
    <2> HIDE DEF Good
    <2> QED
      BY <2>1
  <1>7. C(Len(s)).out = Copyout(s, n) /\ U(Len(s)) = Content(s)
    BY CopyoutIsCopies, ContentIsUpto
  <1> HIDE DEF C, U
  <1> QED
    BY <1>6, <1>7

\* remove returns the first bytes and leaves the others.
LEMMA RemovedContent ==
  ASSUME NEW S, NEW s \in Seq(Extents(S)), NEW n \in Nat
  PROVE  /\ Removed(s, n).out = First(Content(s), n)
         /\ Removed(s, n).rest \in Seq(Extents(S))
         /\ Content(Removed(s, n).rest) = Rest(Content(s), n)
  <1> DEFINE c == Content(s)
             f == First(c, n)
  <1>1. s \in Seq(Seq(S)) /\ c \in Seq(S)
    BY ExtentsFacts, ContentTyped
  <1>2. Copyout(s, n) = f
    BY <1>1, CopyoutContent
  <1>3. /\ Removed(s, n).out = f
        /\ Removed(s, n).rest = IF f # <<>> THEN Drained(s, Len(f)) ELSE s
    BY <1>2 DEF Removed
  <1> HIDE DEF c
  <1>4. Len(c) \in Nat /\ f \in Seq(S) /\ Len(f) = Least(n, Len(c))
        /\ Cat(f, Rest(c, n)) = c
    BY <1>1, FirstRest, LenProperties
  <1>5. Rest(c, n) \in Seq(S)
    BY <1>1, FirstRest
  <1> HIDE DEF f
  <1>6. CASE f = <<>>
    <2>1. Rest(c, n) = c
      BY <1>4, <1>5, <1>6, CatEmpty
    <2> QED
      BY <1>3, <1>6, <2>1 DEF c, f
  <1>7. CASE f # <<>>
    <2>1. PICK k \in Nat : k = Len(f)
      BY <1>4, LenProperties
    <2>2. /\ Drained(s, k) \in Seq(Extents(S))
          /\ Content(Drained(s, k)) = Rest(c, k)
      BY CutContent DEF c
    <2>3. Rest(c, k) = Rest(c, n)
      <3>1. First(Cat(f, Rest(c, n)), k) = f /\ Rest(Cat(f, Rest(c, n)), k) = Rest(c, n)
        BY <1>4, <1>5, <2>1, CutOnce
      <3> QED
        BY <1>4, <3>1
    <2> QED
      BY <1>3, <1>7, <2>1, <2>2, <2>3 DEF c, f
  <1> QED
    BY <1>6, <1>7
-----------------------------------------------------------------------------
(***************************************************************************)
(* Where a line ends, and what readln takes.                               *)
(***************************************************************************)

Byte == 0 .. 255

\* The positions of the bytes that end lines.
Ends(c) == {i \in DOMAIN c : c[i] = LF}

\* The end of the first line, if one has ended: the byte before it belongs to
\* it if it is a CR.
LEMMA SearchEolFacts ==
  ASSUME NEW s, NEW c \in Seq(Byte), Content(s) = c
  PROVE  /\ Ends(c) = {} => SearchEol(s).pos = -1
         /\ Ends(c) # {} =>
              \E p \in Nat, l \in {1, 2} :
                /\ SearchEol(s).pos = p /\ SearchEol(s).length = l
                /\ p + l \in 1 .. Len(c) /\ c[p + l] = LF
                /\ \A j \in 1 .. Len(c) : c[j] = LF => p + l <= j
                /\ l = 2 => c[p + 1] = CR
                /\ l = 1 /\ p # 0 => c[p] # CR
  <1>1. Len(c) \in Nat /\ DOMAIN c = 1 .. Len(c)
    BY LenProperties
  <1>2. Ends(c) \in SUBSET Nat
    BY <1>1 DEF Ends
  <1> DEFINE e == CHOOSE i \in Ends(c) : \A j \in Ends(c) : i <= j
             cr == e > 1 /\ c[e - 1] = CR
  <1>3. SearchEol(s) = IF Ends(c) = {} THEN [pos |-> -1, length |-> 0]
                       ELSE IF cr THEN [pos |-> e - 2, length |-> 2]
                                  ELSE [pos |-> e - 1, length |-> 1]
    BY DEF SearchEol, Ends
  <1>4. ASSUME Ends(c) # {}
        PROVE  \E p \in Nat, l \in {1, 2} :
                 /\ SearchEol(s).pos = p /\ SearchEol(s).length = l
                 /\ p + l \in 1 .. Len(c) /\ c[p + l] = LF
                 /\ \A j \in 1 .. Len(c) : c[j] = LF => p + l <= j
                 /\ l = 2 => c[p + 1] = CR
                 /\ l = 1 /\ p # 0 => c[p] # CR
    <2>1. \E i \in Ends(c) : \A j \in Ends(c) : i <= j
      BY <1>2, <1>4, LeastElement
    <2>2. e \in Ends(c) /\ \A j \in Ends(c) : e <= j
      BY <2>1
    <2> HIDE DEF e
    <2>3. e \in 1 .. Len(c) /\ c[e] = LF
      BY <1>1, <2>2 DEF Ends
    <2>4. \A j \in 1 .. Len(c) : c[j] = LF => e <= j
      BY <1>1, <2>2 DEF Ends
    <2>5. CASE cr
      <3>1. /\ e - 2 \in Nat /\ (e - 2) + 2 = e /\ (e - 2) + 1 = e - 1
            /\ c[e - 1] = CR
        BY <2>3, <2>5
      <3>2. SearchEol(s).pos = e - 2 /\ SearchEol(s).length = 2
        BY <1>3, <1>4, <2>5
      <3> HIDE DEF cr
      <3>3. PICK p \in Nat : p = e - 2 /\ p + 2 = e /\ p + 1 = e - 1
        BY <3>1
      <3> QED
        BY <2>3, <2>4, <3>1, <3>2, <3>3
    <2>6. CASE ~cr
      <3>1. e - 1 \in Nat /\ (e - 1) + 1 = e
        BY <2>3
      <3>2. SearchEol(s).pos = e - 1 /\ SearchEol(s).length = 1
        BY <1>3, <1>4, <2>6
      <3>3. e - 1 # 0 => c[e - 1] # CR
        BY <2>3, <2>6
      <3> HIDE DEF cr
      <3>4. PICK p \in Nat : p = e - 1 /\ p + 1 = e
        BY <3>1
      <3> QED
        BY <2>3, <2>4, <3>2, <3>3, <3>4
    <2> QED
      BY <2>5, <2>6
  <1>5. ASSUME Ends(c) = {} PROVE SearchEol(s).pos = -1
    BY <1>3, <1>5
  <1> HIDE DEF e, cr
  <1> QED
    BY <1>4, <1>5

\* What readln returns, the end of the line, and what it leaves make up the
\* buffer; if a line has ended, it is that line.
LEMMA ReadLineFacts ==
  ASSUME NEW s \in Seq(Extents(Byte))
  PROVE  LET r == ReadLine(s)
             c == Content(s)
         IN /\ r.out \in Seq(Byte) /\ r.eol \in Seq(Byte)
            /\ r.rest \in Seq(Extents(Byte))
            /\ Cat(Cat(r.out, r.eol), Content(r.rest)) = c
            /\ Ends(c) = {} => r.out = <<>> /\ r.rest = s
            /\ Ends(c) # {} => /\ r.eol \in {<<LF>>, <<CR, LF>>}
                               /\ LF \notin Range(r.out)
                               /\ r.eol = <<LF>> /\ r.out # <<>> => Last(r.out) # CR
  <1> DEFINE r == ReadLine(s)
             c == Content(s)
  <1>1. s \in Seq(Seq(Byte)) /\ c \in Seq(Byte)
    BY ExtentsFacts, ContentTyped
  <1>2. CASE Ends(c) = {}
    <2>1. SearchEol(s).pos = -1
      BY <1>1, <1>2, SearchEolFacts
    <2>2. r = [out |-> <<>>, eol |-> <<>>, rest |-> s]
      BY <2>1 DEF ReadLine
    <2>3. Cat(Cat(<<>>, <<>>), c) = c /\ <<>> \in Seq(Byte)
      BY <1>1, CatEmpty, EmptySeq
    <2> HIDE DEF c, r
    <2> QED
      BY <1>2, <2>2, <2>3 DEF c, r
  <1>3. CASE Ends(c) # {}
    <2> HIDE DEF c, r
    <2>1. PICK p \in Nat, l \in {1, 2} :
            /\ SearchEol(s).pos = p /\ SearchEol(s).length = l
            /\ p + l \in 1 .. Len(c) /\ c[p + l] = LF
            /\ \A j \in 1 .. Len(c) : c[j] = LF => p + l <= j
            /\ l = 2 => c[p + 1] = CR
            /\ l = 1 /\ p # 0 => c[p] # CR
      BY <1>1, <1>3, SearchEolFacts DEF c
    <2>2. l \in Nat
      OBVIOUS
    <2>3. PICK t : t = Removed(s, p).rest
      OBVIOUS
    <2>4. /\ r.out = Removed(s, p).out
          /\ r.eol = Copyout(t, l)
          /\ r.rest = Drained(t, l)
      BY <2>1, <2>3 DEF ReadLine, r
    <2>5. /\ r.out = First(c, p) /\ t \in Seq(Extents(Byte))
          /\ Content(t) = Rest(c, p)
      BY <2>3, <2>4, RemovedContent DEF c
    <2> DEFINE f == First(c, p)
               d == Rest(c, p)
    <2>6. /\ f \in Seq(Byte) /\ d \in Seq(Byte) /\ Len(f) = Least(p, Len(c))
          /\ Cat(f, d) = c
      BY <1>1, FirstRest
    <2>7. /\ Len(c) \in Nat /\ Len(d) \in Nat /\ Len(f) = p
          /\ Len(c) = p + Len(d) /\ p <= Len(c) /\ l <= Len(d)
      <3>1. Len(Cat(f, d)) = Len(f) + Len(d)
        BY <2>6, CatFacts
      <3> QED
        BY <1>1, <2>1, <2>6, <3>1, LenProperties DEF Least
    <2> HIDE DEF f, d
    <2>8. /\ \A i \in 1 .. p : f[i] = c[i]
          /\ \A i \in 1 .. Len(d) : d[i] = c[p + i]
      <3>1. \A i \in 1 .. Len(f) + Len(d) :
              Cat(f, d)[i] = IF i <= Len(f) THEN f[i] ELSE d[i - Len(f)]
        BY <2>6, ConcatProperties DEF Cat
      <3>2. \A i \in 1 .. p : i \in 1 .. p + Len(d) /\ i <= p
        BY <2>7
      <3>3. \A i \in 1 .. Len(d) :
              p + i \in 1 .. p + Len(d) /\ ~(p + i <= p) /\ (p + i) - p = i
        BY <2>7
      <3> QED
        BY <2>6, <2>7, <3>1, <3>2, <3>3
    <2>9. t \in Seq(Seq(Byte)) /\ Content(t) = d /\ r.out = f
      BY <2>5, ExtentsFacts DEF f, d
    <2>10. r.eol = First(d, l)
      BY <2>4, <2>9, <2>2, CopyoutContent
    <2>11. r.rest \in Seq(Extents(Byte)) /\ Content(r.rest) = Rest(d, l)
      BY <2>4, <2>5, <2>9, <2>2, CutContent
    <2>12. /\ First(d, l) \in Seq(Byte) /\ Rest(d, l) \in Seq(Byte)
           /\ Len(First(d, l)) = l /\ Cat(First(d, l), Rest(d, l)) = d
      <3>1. /\ First(d, l) \in Seq(Byte) /\ Rest(d, l) \in Seq(Byte)
            /\ Len(First(d, l)) = Least(l, Len(d))
            /\ Cat(First(d, l), Rest(d, l)) = d
        BY <2>6, <2>2, FirstRest
      <3> QED
        BY <2>7, <3>1 DEF Least
    <2>13. Cat(Cat(r.out, r.eol), Content(r.rest)) = c
      BY <2>6, <2>9, <2>10, <2>11, <2>12, CatAssociative
    <2>14. r.eol \in {<<LF>>, <<CR, LF>>} /\ (r.eol = <<LF>> => l = 1)
      <3>1. \A i \in 1 .. l : First(d, l)[i] = d[i]
        <4>1. \A i \in 1 .. Len(First(d, l)) + Len(Rest(d, l)) :
                Cat(First(d, l), Rest(d, l))[i] =
                  IF i <= Len(First(d, l)) THEN First(d, l)[i]
                  ELSE Rest(d, l)[i - Len(First(d, l))]
          BY <2>12, ConcatProperties DEF Cat
        <4>2. Len(Rest(d, l)) \in Nat
          BY <2>12, LenProperties
        <4>3. \A i \in 1 .. l : i \in 1 .. l + Len(Rest(d, l)) /\ i <= l
          BY <4>2
        <4> QED
          BY <2>12, <4>1, <4>3
      <3>2. l \in 1 .. Len(d) /\ 1 \in 1 .. Len(d) /\ l \in 1 .. l /\ 1 \in 1 .. l
        BY <2>7
      <3>3. First(d, l)[l] = LF /\ First(d, l)[1] = c[p + 1]
        BY <2>1, <2>8, <3>1, <3>2
      <3> DEFINE g == First(d, l)
      <3>4. g \in Seq(Byte) /\ Len(g) = l /\ g[l] = LF /\ (l = 2 => g[1] = CR)
        BY <2>1, <2>12, <3>3
      <3> HIDE DEF g
      <3>5. CASE l = 1
        <4>1. g = <<LF>>
          <5>1. <<LF>> \in Seq(Byte) /\ Len(<<LF>>) = 1 /\ <<LF>>[1] = LF
            BY DEF LF, Byte
          <5>2. \A i \in 1 .. Len(g) : g[i] = <<LF>>[i]
            BY <3>4, <3>5, <5>1
          <5> QED
            BY <3>4, <3>5, <5>1, <5>2, SeqEqual
        <4> QED
          BY <2>10, <3>5, <4>1 DEF g
      <3>6. CASE l = 2
        <4>1. g = <<CR, LF>>
          <5>1. /\ <<CR, LF>> \in Seq(Byte) /\ Len(<<CR, LF>>) = 2
                /\ <<CR, LF>>[1] = CR /\ <<CR, LF>>[2] = LF
            BY DEF LF, CR, Byte
          <5>2. \A i \in 1 .. Len(g) : g[i] = <<CR, LF>>[i]
            BY <3>4, <3>6, <5>1
          <5> QED
            BY <3>4, <3>6, <5>1, <5>2, SeqEqual
        <4>2. r.eol # <<LF>>
          <5>1. Len(r.eol) = 2
            BY <2>10, <3>4, <3>6 DEF g
          <5> QED
            BY <5>1
        <4> QED
          BY <2>10, <4>1, <4>2 DEF g
      <3> QED
        BY <3>5, <3>6
    <2>15. LF \notin Range(r.out)
      <3>1. DOMAIN f = 1 .. p
        BY <2>6, <2>7, LenProperties
      <3>2. ASSUME NEW i \in 1 .. p PROVE f[i] # LF
        <4>1. i \in 1 .. Len(c) /\ ~(p + l <= i)
          BY <2>7
        <4> QED
          BY <2>1, <2>8, <4>1
      <3> QED
        BY <2>9, <3>1, <3>2 DEF Range
    <2>16. r.eol = <<LF>> /\ r.out # <<>> => Last(r.out) # CR
      <3>1. ASSUME r.eol = <<LF>>, r.out # <<>> PROVE Last(r.out) # CR
        <4>1. l = 1 /\ p # 0
          BY <2>6, <2>7, <2>9, <2>14, <3>1, EmptySeq
        <4>2. p \in 1 .. p
          BY <4>1
        <4>3. Last(r.out) = f[p]
          BY <2>7, <2>9 DEF Last
        <4> QED
          BY <2>1, <2>8, <4>1, <4>2, <4>3
      <3> QED
        BY <3>1
    <2> QED
      BY <1>3, <2>6, <2>9, <2>10, <2>11, <2>12, <2>13, <2>14, <2>15, <2>16 DEF c, r
  <1> QED
    BY <1>2, <1>3
-----------------------------------------------------------------------------
(***************************************************************************)
(* The inductive invariant: the types, and that every byte is in its       *)
(* place.  No extent being empty is what makes the cuts behind the first   *)
(* bytes buffers again.                                                    *)
(***************************************************************************)

IInv == TypeOK /\ Conserved

\* The bytes of the whole, in order.
Whole == Cat(Cat(taken, Content(dst)), Content(src))

\* The type invariant with the names used here.
LEMMA TypeFacts ==
  TypeOK <=> /\ src \in Seq(Extents(Byte)) /\ dst \in Seq(Extents(Byte))
             /\ added \in Seq(Byte) /\ taken \in Seq(Byte) /\ line \in Seq(Byte)
  BY DEF TypeOK, Extents, Byte

\* Conserved says that the bytes of the whole are those added.
LEMMA WholeFacts == Conserved <=> Whole = added
  BY DEF Conserved, Whole, Cat

\* A buffer with its types and the bytes in it.
LEMMA BufferFacts ==
  ASSUME NEW s \in Seq(Extents(Byte))
  PROVE  s \in Seq(Seq(Byte)) /\ Content(s) \in Seq(Byte)
  BY ExtentsFacts, ContentTyped

\* It holds at first, when all is empty.
LEMMA InitInvariant == Init => IInv
  <1> SUFFICES ASSUME Init PROVE IInv
    OBVIOUS
  <1>1. /\ src = <<>> /\ dst = <<>> /\ added = <<>> /\ taken = <<>> /\ line = <<>>
    BY DEF Init
  <1>2. <<>> \in Seq(Extents(Byte)) /\ <<>> \in Seq(Byte)
    BY EmptySeq
  <1>3. TypeOK
    BY <1>1, <1>2, TypeFacts
  <1>4. Cat(Cat(<<>>, <<>>), <<>>) = <<>>
    BY <1>2, CatEmpty
  <1>5. Conserved
    BY <1>1, <1>4, ContentEmpty, WholeFacts DEF Whole
  <1> QED
    BY <1>3, <1>5 DEF IInv

\* The extents that are added.
LEMMA ChunkIsExtent ==
  ASSUME NEW b \in Chunks
  PROVE  b \in Extents(Byte)
  <1>1. PICK n \in 1 .. MaxChunk : b \in [1 .. n -> Bytes]
    BY DEF Chunks
  <1>2. n \in Nat /\ n > 0
    BY MaxAssumption
  <1>3. b \in [1 .. n -> Byte]
    BY <1>1, BytesAssumption DEF Byte
  <1>4. b \in Seq(Byte) /\ Len(b) = n
    BY <1>2, <1>3, SeqDef, LenProperties
  <1> QED
    BY <1>2, <1>4, PieceIsExtent

\* The numbers of 16 bits are numbers.
LEMMA ShortModulusIsNat == ShortModulus \in Nat
  BY DEF ShortModulus

\* The first of its two bytes.
LEMMA HighByte ==
  ASSUME NEW num \in Nat, num < ShortModulus
  PROVE  num \div 256 \in 0 .. 255
  <1>1. num < 65536
    BY DEF ShortModulus
  <1> QED
    BY ONLY <1>1, num \in Nat

\* What add_uint16 adds.
LEMMA NumberIsExtent ==
  ASSUME NEW num \in Shorts
  PROVE  <<num \div 256, num % 256>> \in Extents(Byte)
  <1>1. num \in Nat /\ num < ShortModulus
    BY ShortsAssumption, ShortModulusIsNat
  <1>2. num % 256 \in 0 .. 255
    BY <1>1
  <1>3. num \div 256 \in 0 .. 255
    BY <1>1, HighByte
  <1>4. PICK a \in Byte, b \in Byte : a = num \div 256 /\ b = num % 256
    BY <1>2, <1>3 DEF Byte
  <1>5. PICK e : e = <<a, b>>
    OBVIOUS
  <1>6. e \in Seq(Byte) /\ Len(e) = 2
    BY <1>5
  <1>7. e \in Extents(Byte)
    <2>1. Len(e) > 0
      BY <1>6
    <2> QED
      BY <1>6, <2>1, PieceIsExtent
  <1> QED
    BY <1>4, <1>5, <1>7

\* Adding bytes, into the last extent or into a new one.
LEMMA AddInvariant ==
  ASSUME IInv, NEW b \in Extents(Byte), AddBytes(b)
  PROVE  IInv'
  <1>1. /\ src \in Seq(Extents(Byte)) /\ dst \in Seq(Extents(Byte))
        /\ added \in Seq(Byte) /\ taken \in Seq(Byte) /\ line \in Seq(Byte)
        /\ Whole = added
    BY TypeFacts, WholeFacts DEF IInv
  <1>2. b \in Seq(Byte) /\ Len(b) \in Nat /\ Len(b) > 0
    BY ExtentFacts
  <1>3. /\ added' = Cat(added, b)
        /\ dst' = dst /\ taken' = taken /\ line' = line
    BY DEF AddBytes, Cat
  <1>4. src' \in Seq(Extents(Byte)) /\ Content(src') = Cat(Content(src), b)
    <2>1. CASE src' = Append(src, b)
      BY <1>1, <1>2, <2>1, BufferFacts, ContentAppend, AppendProperties
    <2>2. CASE src # <<>> /\ src' = [src EXCEPT ![Len(src)] = @ \o b]
      <3>1. Len(src) \in 1 .. Len(src)
        BY <1>1, <2>2, LenProperties, EmptySeq
      <3>2. src[Len(src)] \in Seq(Byte)
        BY <1>1, <3>1, BufferFacts, UptoFacts
      <3>3. src[Len(src)] \o b \in Extents(Byte)
        <4>1. /\ Cat(src[Len(src)], b) \in Seq(Byte)
              /\ Len(Cat(src[Len(src)], b)) = Len(src[Len(src)]) + Len(b)
          BY <1>2, <3>2, CatFacts
        <4>2. Len(src[Len(src)]) \in Nat
          BY <3>2, LenProperties
        <4>3. Len(Cat(src[Len(src)], b)) > 0
          BY <1>2, <4>1, <4>2
        <4> QED
          BY <4>1, <4>3, PieceIsExtent DEF Cat
      <3>4. src' \in Seq(Extents(Byte))
        BY <1>1, <2>2, <3>1, <3>3, ExceptSeq
      <3>5. Content(src') = Cat(Content(src), b)
        BY <1>1, <1>2, <2>2, BufferFacts, ContentExtend
      <3> QED
        BY <3>4, <3>5
    <2> QED
      BY <2>1, <2>2 DEF AddBytes
  <1>5. added' \in Seq(Byte)
    BY <1>1, <1>2, <1>3, CatFacts
  <1>6. TypeOK'
    <2>1. /\ src' \in Seq(Extents(Byte)) /\ dst' \in Seq(Extents(Byte))
          /\ added' \in Seq(Byte) /\ taken' \in Seq(Byte) /\ line' \in Seq(Byte)
      BY <1>1, <1>3, <1>4, <1>5
    <2> QED
      BY <2>1 DEF TypeOK, Extents, Byte
  <1>7. Whole' = Cat(Whole, b)
    <2>1. Cat(taken, Content(dst)) \in Seq(Byte) /\ Content(src) \in Seq(Byte)
      BY <1>1, BufferFacts, CatFacts
    <2>2. Cat(Cat(taken, Content(dst)), Cat(Content(src), b)) =
            Cat(Cat(Cat(taken, Content(dst)), Content(src)), b)
      BY <1>2, <2>1, CatAssociative
    <2> QED
      BY <1>3, <1>4, <2>2 DEF Whole
  <1>8. Conserved'
    <2>1. Whole' = added'
      BY <1>1, <1>3, <1>7
    <2> QED
      BY <2>1 DEF Whole, Conserved, Cat
  <1> QED
    BY <1>6, <1>8 DEF IInv

\* Moving bytes from src to dst.
LEMMA MoveInvariant ==
  ASSUME IInv, NEW m \in Seq(Extents(Byte)), NEW r \in Seq(Extents(Byte)),
         Cat(Content(m), Content(r)) = Content(src),
         dst' = dst \o m, src' = r, UNCHANGED <<added, taken, line>>
  PROVE  IInv'
  <1>1. /\ src \in Seq(Extents(Byte)) /\ dst \in Seq(Extents(Byte))
        /\ added \in Seq(Byte) /\ taken \in Seq(Byte) /\ line \in Seq(Byte)
        /\ Whole = added
    BY TypeFacts, WholeFacts DEF IInv
  <1>2. added' = added /\ taken' = taken /\ line' = line
    OBVIOUS
  <1>3. dst' \in Seq(Extents(Byte))
    BY <1>1, ConcatProperties
  <1>4. TypeOK'
    <2>1. /\ src' \in Seq(Extents(Byte)) /\ dst' \in Seq(Extents(Byte))
          /\ added' \in Seq(Byte) /\ taken' \in Seq(Byte) /\ line' \in Seq(Byte)
      BY <1>1, <1>2, <1>3
    <2> QED
      BY <2>1 DEF TypeOK, Extents, Byte
  <1>5. Content(dst') = Cat(Content(dst), Content(m))
    BY <1>1, BufferFacts, ContentCat
  <1>6. Whole' = Whole
    <2> DEFINE d == Content(dst)
               cm == Content(m)
               cr == Content(r)
    <2>1. d \in Seq(Byte) /\ cm \in Seq(Byte) /\ cr \in Seq(Byte)
      BY <1>1, BufferFacts
    <2>2. Whole' = Cat(Cat(taken, Cat(d, cm)), cr)
      BY <1>2, <1>5 DEF Whole
    <2>3. Whole = Cat(Cat(taken, d), Cat(cm, cr))
      BY DEF Whole
    <2> HIDE DEF d, cm, cr
    <2>4. Cat(taken, Cat(d, cm)) = Cat(Cat(taken, d), cm)
      BY <1>1, <2>1, CatAssociative
    <2>5. Cat(taken, d) \in Seq(Byte)
      BY <1>1, <2>1, CatFacts
    <2>6. Cat(Cat(Cat(taken, d), cm), cr) = Cat(Cat(taken, d), Cat(cm, cr))
      BY <2>1, <2>5, CatAssociative
    <2> QED
      BY <2>2, <2>3, <2>4, <2>6
  <1>7. Conserved'
    <2>1. Whole' = added'
      BY <1>1, <1>2, <1>6
    <2> QED
      BY <2>1 DEF Whole, Conserved, Cat
  <1> QED
    BY <1>4, <1>7 DEF IInv

\* Taking bytes from dst.
LEMMA TakeInvariant ==
  ASSUME IInv, NEW b \in Seq(Byte), NEW r \in Seq(Extents(Byte)), Take(b, r),
         Cat(b, Content(r)) = Content(dst), line' \in Seq(Byte)
  PROVE  IInv'
  <1>1. /\ src \in Seq(Extents(Byte)) /\ dst \in Seq(Extents(Byte))
        /\ added \in Seq(Byte) /\ taken \in Seq(Byte)
        /\ Whole = added
    BY TypeFacts, WholeFacts DEF IInv
  <1>2. dst' = r /\ taken' = Cat(taken, b) /\ src' = src /\ added' = added
    BY DEF Take, Cat
  <1>3. taken' \in Seq(Byte)
    BY <1>1, <1>2, CatFacts
  <1>4. TypeOK'
    <2>1. /\ src' \in Seq(Extents(Byte)) /\ dst' \in Seq(Extents(Byte))
          /\ added' \in Seq(Byte) /\ taken' \in Seq(Byte) /\ line' \in Seq(Byte)
      BY <1>1, <1>2, <1>3
    <2> QED
      BY <2>1 DEF TypeOK, Extents, Byte
  <1>5. Cat(Cat(taken, b), Content(r)) = Cat(taken, Content(dst))
    BY <1>1, BufferFacts, CatAssociative
  <1>6. Whole' = added'
    BY <1>1, <1>2, <1>5 DEF Whole
  <1>7. Conserved'
    BY <1>6 DEF Whole, Conserved, Cat
  <1> QED
    BY <1>4, <1>7 DEF IInv
-----------------------------------------------------------------------------
(***************************************************************************)
(* The steps.                                                              *)
(***************************************************************************)

\* add_buffer moves everything.
LEMMA AddBufferInvariant ==
  ASSUME IInv, AddBuffer
  PROVE  IInv'
  <1>1. src \in Seq(Extents(Byte)) /\ <<>> \in Seq(Extents(Byte))
    BY TypeFacts, EmptySeq DEF IInv
  <1>2. Cat(Content(src), Content(<<>>)) = Content(src)
    BY <1>1, BufferFacts, ContentEmpty, CatEmpty
  <1>3. dst' = dst \o src /\ src' = <<>> /\ UNCHANGED <<added, taken, line>>
    BY DEF AddBuffer
  <1> QED
    BY <1>1, <1>2, <1>3, MoveInvariant

\* remove_buffer cuts src, and moves the first part.
LEMMA RemoveBufferInvariant ==
  ASSUME IInv, RemoveBuffer
  PROVE  IInv'
  <1>1. PICK count \in 1 .. MaxChunk :
          /\ dst' = dst \o Moved(src, count)
          /\ src' = Drained(src, count)
          /\ UNCHANGED <<added, taken, line>>
    BY DEF RemoveBuffer
  <1>2. count \in Nat /\ src \in Seq(Extents(Byte))
    BY MaxAssumption, TypeFacts DEF IInv
  <1>3. /\ Moved(src, count) \in Seq(Extents(Byte))
        /\ Drained(src, count) \in Seq(Extents(Byte))
        /\ Content(Moved(src, count)) = First(Content(src), count)
        /\ Content(Drained(src, count)) = Rest(Content(src), count)
    BY <1>2, CutContent
  <1>4. Cat(Content(Moved(src, count)), Content(Drained(src, count))) = Content(src)
    BY <1>2, <1>3, BufferFacts, FirstRest
  <1> QED
    BY <1>1, <1>3, <1>4, MoveInvariant

\* remove takes what it returns, and leaves the rest.
LEMMA RemoveBytesInvariant ==
  ASSUME IInv, RemoveBytes
  PROVE  IInv'
  <1>1. PICK upto \in 0 .. MaxChunk :
          Take(Removed(dst, upto).out, Removed(dst, upto).rest) /\ line' = line
    BY DEF RemoveBytes
  <1>2. upto \in Nat /\ dst \in Seq(Extents(Byte)) /\ line \in Seq(Byte)
    BY MaxAssumption, TypeFacts DEF IInv
  <1>3. /\ Removed(dst, upto).out = First(Content(dst), upto)
        /\ Removed(dst, upto).rest \in Seq(Extents(Byte))
        /\ Content(Removed(dst, upto).rest) = Rest(Content(dst), upto)
    BY <1>2, RemovedContent
  <1>4. /\ First(Content(dst), upto) \in Seq(Byte)
        /\ Cat(First(Content(dst), upto), Rest(Content(dst), upto)) = Content(dst)
    BY <1>2, BufferFacts, FirstRest
  <1> QED
    BY <1>1, <1>2, <1>3, <1>4, TakeInvariant

\* drain leaves the bytes behind the first n.
LEMMA DrainInvariant ==
  ASSUME IInv, Drain
  PROVE  IInv'
  <1>1. PICK n \in 0 .. MaxChunk :
          Take(First(Content(dst), n), Drained(dst, n)) /\ line' = line
    BY DEF Drain, First, Length
  <1>2. n \in Nat /\ dst \in Seq(Extents(Byte)) /\ line \in Seq(Byte)
    BY MaxAssumption, TypeFacts DEF IInv
  <1>3. /\ Drained(dst, n) \in Seq(Extents(Byte))
        /\ Content(Drained(dst, n)) = Rest(Content(dst), n)
    BY <1>2, CutContent
  <1>4. /\ First(Content(dst), n) \in Seq(Byte)
        /\ Cat(First(Content(dst), n), Rest(Content(dst), n)) = Content(dst)
    BY <1>2, BufferFacts, FirstRest
  <1> QED
    BY <1>1, <1>2, <1>3, <1>4, TakeInvariant

\* readln takes a line and its end, or nothing.
LEMMA ReadlnInvariant ==
  ASSUME IInv, Readln
  PROVE  IInv'
  <1> DEFINE r == ReadLine(dst)
  <1>1. line' = r.out /\ Take(Cat(r.out, r.eol), r.rest)
    BY DEF Readln, Cat
  <1>2. dst \in Seq(Extents(Byte))
    BY TypeFacts DEF IInv
  <1>3. /\ r.out \in Seq(Byte) /\ r.eol \in Seq(Byte)
        /\ r.rest \in Seq(Extents(Byte))
        /\ Cat(Cat(r.out, r.eol), Content(r.rest)) = Content(dst)
    BY <1>2, ReadLineFacts
  <1> HIDE DEF r
  <1>4. Cat(r.out, r.eol) \in Seq(Byte)
    BY <1>3, CatFacts
  <1> QED
    BY <1>1, <1>3, <1>4, TakeInvariant

\* Every step preserves it.
LEMMA StepInvariant ==
  ASSUME IInv, [Next]_vars
  PROVE  IInv'
  <1>1. CASE Add
    <2>1. PICK bytes \in Chunks : AddBytes(bytes)
      BY <1>1 DEF Add
    <2> QED
      BY <2>1, ChunkIsExtent, AddInvariant
  <1>2. CASE AddUint16
    <2>1. PICK num \in Shorts : AddBytes(<<num \div 256, num % 256>>)
      BY <1>2 DEF AddUint16
    <2>2. PICK e : e = <<num \div 256, num % 256>>
      OBVIOUS
    <2>3. AddBytes(e) /\ e \in Extents(Byte)
      BY <2>1, <2>2, NumberIsExtent
    <2> QED
      BY <2>3, AddInvariant
  <1>3. CASE AddBuffer
    BY <1>3, AddBufferInvariant
  <1>4. CASE RemoveBuffer
    BY <1>4, RemoveBufferInvariant
  <1>5. CASE RemoveBytes
    BY <1>5, RemoveBytesInvariant
  <1>6. CASE Drain
    BY <1>6, DrainInvariant
  <1>7. CASE Readln
    BY <1>7, ReadlnInvariant
  <1>8. CASE UNCHANGED vars
    BY <1>8 DEF vars, IInv, TypeOK, Conserved
  <1> QED
    BY <1>1, <1>2, <1>3, <1>4, <1>5, <1>6, <1>7, <1>8 DEF Next

\* The inductive invariant holds in every state.
THEOREM Invariant == Spec => []IInv
  <1>1. IInv /\ [Next]_vars => IInv'
    BY StepInvariant
  <1> QED
    BY InitInvariant, <1>1, PTL DEF Spec

\* The variables have their types, and no extent is ever empty, whatever is
\* added, moved and taken.
THEOREM TypeCorrect == Spec => []TypeOK
  <1>1. IInv => TypeOK
    BY DEF IInv
  <1> QED
    BY Invariant, <1>1, PTL

\* What was taken, what is in dst and what is in src is what was added, in that
\* order (libevent.hpp:178-197, 249-265).
THEOREM Conserves == Spec => []Conserved
  <1>1. IInv => Conserved
    BY DEF IInv
  <1> QED
    BY Invariant, <1>1, PTL

\* That copyout is exact needs no more than the types.
LEMMA TypedCopies == TypeOK => CopyoutExact
  <1> SUFFICES ASSUME TypeOK, NEW upto \in 0 .. MaxBytes
               PROVE  LET c == Content(dst)
                          n == Least(upto, Len(c))
                      IN /\ Copyout(dst, upto) = SubSeq(c, 1, n)
                         /\ Removed(dst, upto).out = SubSeq(c, 1, n)
                         /\ Content(Removed(dst, upto).rest) = SubSeq(c, n + 1, Len(c))
    BY DEF CopyoutExact
  <1> DEFINE c == Content(dst)
             n == Least(upto, Len(c))
  <1>1. upto \in Nat /\ dst \in Seq(Extents(Byte))
    BY MaxAssumption, TypeFacts
  <1>2. dst \in Seq(Seq(Byte)) /\ c \in Seq(Byte)
    BY <1>1, BufferFacts
  <1>3. Copyout(dst, upto) = First(c, upto)
    BY <1>1, <1>2, CopyoutContent
  <1>4. /\ Removed(dst, upto).out = First(c, upto)
        /\ Content(Removed(dst, upto).rest) = Rest(c, upto)
    BY <1>1, RemovedContent
  <1> HIDE DEF c
  <1>5. First(c, upto) = SubSeq(c, 1, n)
    BY DEF First
  <1>6. Rest(c, upto) = SubSeq(c, n + 1, Len(c))
    <2>1. Len(c) \in Nat /\ (upto >= Len(c) => n = Len(c)) /\ (upto < Len(c) => n = upto)
      BY <1>1, <1>2, LenProperties DEF Least
    <2>2. CASE upto >= Len(c)
      <3>1. Rest(c, upto) = <<>>
        BY <1>1, <1>2, <2>2, FirstRest
      <3>2. Rest(c, n) = <<>>
        BY <1>2, <2>1, <2>2, FirstRest
      <3> QED
        BY <3>1, <3>2 DEF Rest
    <2>3. CASE upto < Len(c)
      BY <2>1, <2>3 DEF Rest
    <2> QED
      BY <1>1, <2>1, <2>2, <2>3
  <1> QED
    BY <1>3, <1>4, <1>5, <1>6 DEF c

\* copyout and remove return the first bytes of the buffer, however they are
\* spread over extents, and remove leaves the others (libevent.hpp:223-255).
THEOREM CopiesExactly == Spec => []CopyoutExact
  BY TypeCorrect, TypedCopies, PTL

\* So does that readln is.
LEMMA TypedLines ==
  ASSUME TypeOK, Readln
  PROVE  LET c == Content(dst) IN
         IF LF \in Range(c)
           THEN \E eol \in {<<LF>>, <<CR, LF>>} :
                  /\ c = line' \o eol \o Content(dst')
                  /\ LF \notin Range(line')
                  /\ eol = <<LF>> /\ line' # <<>> => Last(line') # CR
           ELSE line' = <<>> /\ dst' = dst
  <1> DEFINE r == ReadLine(dst)
             c == Content(dst)
  <1>1. line' = r.out /\ dst' = r.rest
    BY DEF Readln, Take
  <1>2. dst \in Seq(Extents(Byte))
    BY TypeFacts
  <1>3. /\ Cat(Cat(r.out, r.eol), Content(r.rest)) = c
        /\ Ends(c) = {} => r.out = <<>> /\ r.rest = dst
        /\ Ends(c) # {} => /\ r.eol \in {<<LF>>, <<CR, LF>>}
                           /\ LF \notin Range(r.out)
                           /\ r.eol = <<LF>> /\ r.out # <<>> => Last(r.out) # CR
    BY <1>2, ReadLineFacts
  <1> HIDE DEF r, c
  <1>4. LF \in Range(c) <=> Ends(c) # {}
    BY DEF Range, Ends
  <1>5. CASE Ends(c) = {}
    BY <1>1, <1>3, <1>4, <1>5 DEF c
  <1>6. CASE Ends(c) # {}
    <2>1. c = line' \o r.eol \o Content(dst')
      BY <1>1, <1>3 DEF Cat
    <2> QED
      BY <1>1, <1>3, <1>4, <1>6, <2>1 DEF c
  <1> QED
    BY <1>5, <1>6

\* readln takes a whole line with its end, be it split over extents, and returns
\* the line without its end; if no line has ended it takes nothing
\* (libevent.hpp:267-279).
THEOREM ReadsLines == Spec => ReadlnExact
  <1>1. TypeOK /\ [Next]_vars =>
          [Readln =>
             LET c == Content(dst) IN
             IF LF \in Range(c)
               THEN \E eol \in {<<LF>>, <<CR, LF>>} :
                      /\ c = line' \o eol \o Content(dst')
                      /\ LF \notin Range(line')
                      /\ eol = <<LF>> /\ line' # <<>> => Last(line') # CR
               ELSE line' = <<>> /\ dst' = dst]_vars
    BY TypedLines
  <1> QED
    BY TypeCorrect, <1>1, PTL DEF Spec, ReadlnExact
=============================================================================
