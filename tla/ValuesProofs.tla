---------------------------- MODULE ValuesProofs ----------------------------
(***************************************************************************)
(* Proofs about ReplyParsers and about Objects, the parts without events.  *)
(*                                                                         *)
(* ReplyParsers, for texts of any length and any symbols: the tokens of a  *)
(* text are its runs of symbols, what tor writes is read as what it means, *)
(* and only a bootstrap that says 100 is taken for done.  The recursive    *)
(* definitions are turned into equations about a text that grows at its    *)
(* end; the rest is by induction on that, with the lemmas of Recursion.    *)
(*                                                                         *)
(* Objects: operator< is an order, however deep the Objects are, and so    *)
(* the Dict that rests on it is a map.  The order of lists and dicts is    *)
(* proved from that of what is in them, level by level.                    *)
(***************************************************************************)
EXTENDS Objects, ReplyParsers, SequenceTheorems, FiniteSetTheorems, Recursion

\* Concatenation that the provers do not look into.
Cat(s, t) == s \o t

Text == Seq(Alphabet)
-----------------------------------------------------------------------------
(***************************************************************************)
(* The recursion of tokenize.                                              *)
(***************************************************************************)

\* What tokenize has after some characters.
Progress(S) == [tokens : Seq(Seq(S)), cur : Seq(S)]

NoTokens == [tokens |-> <<>>, cur |-> <<>>]

\* The function that Tokenized computes.
After(s) ==
    LET upto[i \in 0 .. Len(s)] ==
          IF i = 0 THEN [tokens |-> <<>>, cur |-> <<>>]
          ELSE TokenizeNext(upto[i - 1], s[i])
    IN upto

LEMMA TokenizedIsAfter ==
  ASSUME NEW s
  PROVE  Tokenized(s) = After(s)[Len(s)]
  BY DEF Tokenized, After

\* What a step makes of what there is.
LEMMA ProgressFacts ==
  ASSUME NEW S, NEW a \in Progress(S), NEW c \in S
  PROVE  /\ a.tokens \in Seq(Seq(S)) /\ a.cur \in Seq(S)
         /\ a = [tokens |-> a.tokens, cur |-> a.cur]
         /\ Flush(a) \in Progress(S)
         /\ TokenizeNext(a, c) \in Progress(S)
  <1>1. /\ a.tokens \in Seq(Seq(S)) /\ a.cur \in Seq(S)
        /\ a = [tokens |-> a.tokens, cur |-> a.cur]
    BY DEF Progress
  <1>2. <<>> \in Seq(S)
    BY EmptySeq
  <1> DEFINE t == Append(a.tokens, a.cur)
             u == Append(a.cur, c)
             k == a.tokens
  <1>3. t \in Seq(Seq(S)) /\ u \in Seq(S) /\ k \in Seq(Seq(S))
    BY <1>1, AppendProperties
  <1>4. Flush(a) = IF a.cur = <<>> THEN a ELSE [tokens |-> t, cur |-> <<>>]
    BY DEF Flush
  <1>5. TokenizeNext(a, c) = IF c = Space THEN Flush(a) ELSE [tokens |-> k, cur |-> u]
    BY DEF TokenizeNext
  <1> HIDE DEF t, u, k
  <1>6. /\ [tokens |-> t, cur |-> <<>>] \in Progress(S)
        /\ [tokens |-> k, cur |-> u] \in Progress(S)
    BY <1>2, <1>3 DEF Progress
  <1> QED
    BY <1>1, <1>4, <1>5, <1>6

LEMMA AfterFacts ==
  ASSUME NEW S, NEW s \in Seq(S)
  PROVE  /\ Len(s) \in Nat
         /\ After(s)[0] = NoTokens
         /\ \A i \in 1 .. Len(s) : After(s)[i] = TokenizeNext(After(s)[i - 1], s[i])
         /\ \A i \in 0 .. Len(s) : After(s)[i] \in Progress(S)
  <1> DEFINE F == [p \in (1 .. Len(s)) \X Progress(S) |-> TokenizeNext(p[2], s[p[1]])]
  <1>1. Len(s) \in Nat /\ \A i \in 1 .. Len(s) : s[i] \in S
    BY LenProperties, ElementOfSeq
  <1>2. NoTokens \in Progress(S)
    BY EmptySeq DEF NoTokens, Progress
  <1>3. F \in [(1 .. Len(s)) \X Progress(S) -> Progress(S)]
    <2>1. ASSUME NEW p \in (1 .. Len(s)) \X Progress(S)
          PROVE  TokenizeNext(p[2], s[p[1]]) \in Progress(S)
      <3>1. p[1] \in 1 .. Len(s) /\ p[2] \in Progress(S)
        OBVIOUS
      <3> QED
        BY <1>1, <3>1, ProgressFacts
    <2> QED
      BY <2>1
  <1>4. PICK h \in [0 .. Len(s) -> Progress(S)] :
          h[0] = NoTokens /\ \A i \in 1 .. Len(s) : h[i] = F[<<i, h[i - 1]>>]
    <2> DEFINE k == Len(s)
               T == Progress(S)
               a == NoTokens
    <2>1. k \in Nat /\ a \in T /\ F \in [(1 .. k) \X T -> T]
      BY <1>1, <1>2, <1>3
    <2> HIDE DEF F, k, T, a
    <2>2. \E h : IsWalk(h, a, k, F, T)
      BY ONLY <2>1, WalkExists
    <2> QED
      BY <2>2 DEF k, T, a, IsWalk
  <1>5. \A i \in 1 .. Len(s) : h[i] = TokenizeNext(h[i - 1], s[i])
    <2>1. ASSUME NEW i \in 1 .. Len(s) PROVE h[i] = TokenizeNext(h[i - 1], s[i])
      <3>1. <<i, h[i - 1]>> \in (1 .. Len(s)) \X Progress(S)
        <4>1. i - 1 \in 0 .. Len(s)
          BY <1>1
        <4> QED
          BY <1>4, <4>1
      <3>2. F[<<i, h[i - 1]>>] = TokenizeNext(h[i - 1], s[i])
        BY <3>1
      <3> QED
        BY <1>4, <3>2
    <2> QED
      BY <2>1
  <1>6. h = [i \in 0 .. Len(s) |-> IF i = 0 THEN NoTokens ELSE TokenizeNext(h[i - 1], s[i])]
    <2>1. ASSUME NEW i \in 0 .. Len(s)
          PROVE  h[i] = IF i = 0 THEN NoTokens ELSE TokenizeNext(h[i - 1], s[i])
      <3>1. i # 0 => i \in 1 .. Len(s)
        BY <1>1
      <3> QED
        BY <1>4, <1>5, <3>1
    <2> QED
      BY <1>4, <2>1
  <1>7. After(s) = [i \in 0 .. Len(s) |-> IF i = 0 THEN NoTokens
                                          ELSE TokenizeNext(After(s)[i - 1], s[i])]
    BY <1>6 DEF After, NoTokens
  <1>8. /\ After(s)[0] = NoTokens
        /\ \A i \in 1 .. Len(s) : After(s)[i] = TokenizeNext(After(s)[i - 1], s[i])
    <2> DEFINE u == After(s)
    <2> HIDE DEF u
    <2>1. u = [i \in 0 .. Len(s) |-> IF i = 0 THEN NoTokens ELSE TokenizeNext(u[i - 1], s[i])]
      BY <1>7 DEF u
    <2>2. 0 \in 0 .. Len(s) /\ \A i \in 1 .. Len(s) : i \in 0 .. Len(s) /\ i # 0
      BY <1>1
    <2>3. u[0] = NoTokens /\ \A i \in 1 .. Len(s) : u[i] = TokenizeNext(u[i - 1], s[i])
      BY <2>1, <2>2
    <2> QED
      BY <2>3 DEF u
  <1>9. \A i \in 0 .. Len(s) : After(s)[i] \in Progress(S)
    <2> DEFINE G == {i \in 0 .. Len(s) : After(s)[i] \in Progress(S)}
    <2>1. 0 \in G
      <3>1. 0 \in 0 .. Len(s)
        BY <1>1
      <3> QED
        BY <1>2, <1>8, <3>1
    <2>2. ASSUME NEW i \in 1 .. Len(s), i - 1 \in G PROVE i \in G
      <3>1. i \in 0 .. Len(s)
        BY <1>1
      <3>2. PICK a \in Progress(S), c \in S : a = After(s)[i - 1] /\ c = s[i]
        BY <1>1, <2>2
      <3>3. TokenizeNext(a, c) \in Progress(S)
        BY <3>2, ProgressFacts
      <3> QED
        BY <1>8, <3>1, <3>2, <3>3
    <2>3. \A i \in 0 .. Len(s) : i \in G
      <3> HIDE DEF G
      <3> QED
        BY <1>1, <2>1, <2>2, BoundedInduction
    <2> QED
      BY <2>3
  <1> QED
    BY <1>1, <1>8, <1>9

\* One character more.
LEMMA TokenizedFacts ==
  ASSUME NEW S
  PROVE  /\ Tokenized(<<>>) = NoTokens
         /\ \A s \in Seq(S) : Tokenized(s) \in Progress(S)
         /\ \A s \in Seq(S), c \in S :
              Tokenized(Append(s, c)) = TokenizeNext(Tokenized(s), c)
  <1>1. Tokenized(<<>>) = NoTokens
    <2>1. <<>> \in Seq(S) /\ Len(<<>>) = 0
      BY EmptySeq
    <2>2. After(<<>>)[0] = NoTokens
      BY <2>1, AfterFacts
    <2> QED
      BY <2>1, <2>2, TokenizedIsAfter
  <1>2. ASSUME NEW s \in Seq(S) PROVE Tokenized(s) \in Progress(S)
    <2>1. Len(s) \in Nat
      BY LenProperties
    <2>2. Len(s) \in 0 .. Len(s)
      BY <2>1
    <2> QED
      BY <2>2, AfterFacts, TokenizedIsAfter
  <1>3. ASSUME NEW s \in Seq(S), NEW c \in S
        PROVE  Tokenized(Append(s, c)) = TokenizeNext(Tokenized(s), c)
    <2> DEFINE t == Append(s, c)
               n == Len(s)
               G == {i \in 0 .. n : After(t)[i] = After(s)[i]}
    <2>1. /\ t \in Seq(S) /\ Len(t) = n + 1 /\ n \in Nat
          /\ \A i \in 1 .. n : t[i] = s[i]
          /\ t[n + 1] = c
      BY AppendProperties, LenProperties
    <2> HIDE DEF t
    <2>2. /\ After(s)[0] = NoTokens
          /\ \A i \in 1 .. n : After(s)[i] = TokenizeNext(After(s)[i - 1], s[i])
      BY AfterFacts
    <2>3. /\ After(t)[0] = NoTokens
          /\ \A i \in 1 .. n + 1 : After(t)[i] = TokenizeNext(After(t)[i - 1], t[i])
      BY <2>1, AfterFacts
    <2>4. 0 \in G
      BY <2>1, <2>2, <2>3
    <2>5. ASSUME NEW i \in 1 .. n, i - 1 \in G PROVE i \in G
      <3>1. i \in 0 .. n /\ i \in 1 .. n + 1
        BY <2>1
      <3>2. After(t)[i - 1] = After(s)[i - 1]
        BY <2>5
      <3> QED
        BY <2>1, <2>2, <2>3, <3>1, <3>2
    <2>6. n \in G
      <3>1. n \in 0 .. n
        BY <2>1
      <3> HIDE DEF G
      <3> QED
        BY <2>1, <2>4, <2>5, <3>1, BoundedInduction
    <2>7. After(t)[n + 1] = TokenizeNext(After(t)[n], c)
      <3>1. n + 1 \in 1 .. n + 1 /\ (n + 1) - 1 = n
        BY <2>1
      <3>2. After(t)[n + 1] = TokenizeNext(After(t)[(n + 1) - 1], t[n + 1])
        BY <2>3, <3>1
      <3> QED
        BY <2>1, <3>1, <3>2
    <2>8. Tokenized(t) = After(t)[n + 1] /\ Tokenized(s) = After(s)[n]
      BY <2>1, TokenizedIsAfter
    <2> QED
      BY <2>6, <2>7, <2>8 DEF t
  <1> QED
    BY <1>1, <1>2, <1>3
-----------------------------------------------------------------------------
(***************************************************************************)
(* The tokens of a text are its runs of symbols.                           *)
(***************************************************************************)

\* The runs that end before there is a blank at i or before.
RunsBefore(i) ==
    {r \in (1 .. Len(text)) \X (1 .. Len(text)) :
       /\ r[1] <= r[2] /\ \A j \in r[1] .. r[2] : ~Blank(j)
       /\ Blank(r[1] - 1) /\ Blank(r[2] + 1) /\ r[2] + 1 <= i}

\* The place of a run among the runs.
Place(R, run) == Cardinality({r \in R : r[1] <= run[1]})

\* The tokens are the runs in R, in order.
Listed(tokens, R) ==
    /\ IsFiniteSet(R)
    /\ Len(tokens) = Cardinality(R)
    /\ \A run \in R : tokens[Place(R, run)] = SubSeq(text, run[1], run[2])

\* What there is after i characters: the runs that have ended, and the symbols
\* since b, where the last blank was.
Good(a, i, b) ==
    /\ Listed(a.tokens, RunsBefore(i))
    /\ b \in 0 .. i /\ Blank(b) /\ \A j \in b + 1 .. i : ~Blank(j)
    /\ a.cur = SubSeq(text, b + 1, i)

\* One run more, behind all others.
LEMMA ListedAppend ==
  ASSUME text \in Text, NEW tokens \in Seq(Text), NEW R, Listed(tokens, R),
         \A r \in R : r[1] \in Int,
         NEW p \in Nat, NEW q \in Nat, NEW t \in Text, t = SubSeq(text, p, q),
         \A r \in R : r[1] < p
  PROVE  Listed(Append(tokens, t), R \cup {<<p, q>>})
  <1> DEFINE Q == R \cup {<<p, q>>}
             n == Cardinality(R)
  <1>1. IsFiniteSet(R) /\ Len(tokens) = n
        /\ \A run \in R : tokens[Place(R, run)] = SubSeq(text, run[1], run[2])
    BY DEF Listed
  <1>2. n \in Nat
    BY <1>1, FS_CardinalityType
  <1>3. <<p, q>> \notin R
    <2>1. ASSUME <<p, q>> \in R PROVE FALSE
      <3>1. <<p, q>>[1] < p
        BY <2>1
      <3>2. <<p, q>>[1] = p
        OBVIOUS
      <3> QED
        BY <3>1, <3>2
    <2> QED
      BY <2>1
  <1>4. IsFiniteSet(Q) /\ Cardinality(Q) = n + 1
    BY <1>1, <1>3, FS_AddElement
  <1>5. /\ Len(Append(tokens, t)) = n + 1
        /\ \A i \in 1 .. n : Append(tokens, t)[i] = tokens[i]
        /\ Append(tokens, t)[n + 1] = t
    BY <1>1, AppendProperties
  <1>6. ASSUME NEW run \in R
        PROVE  Append(tokens, t)[Place(Q, run)] = SubSeq(text, run[1], run[2])
    <2> DEFINE P == {r \in R : r[1] <= run[1]}
    <2>1. {r \in Q : r[1] <= run[1]} = P
      <3>1. ~(<<p, q>>[1] <= run[1])
        <4>1. run[1] < p /\ run[1] \in Int /\ <<p, q>>[1] = p
          OBVIOUS
        <4> QED
          BY <4>1
      <3> QED
        BY <3>1
    <2>2. P \in SUBSET R /\ run \in P
      <3>1. run[1] <= run[1]
        OBVIOUS
      <3> QED
        BY <3>1
    <2> HIDE DEF P
    <2>3. IsFiniteSet(P) /\ Cardinality(P) <= n
      BY <1>1, <2>2, FS_Subset
    <2>4. Cardinality(P) \in Nat /\ Cardinality(P) # 0
      BY <2>2, <2>3, FS_CardinalityType, FS_EmptySet
    <2>5. Cardinality(P) \in 1 .. n
      BY <1>2, <2>3, <2>4
    <2>6. Place(Q, run) = Cardinality(P) /\ Place(R, run) = Cardinality(P)
      BY <2>1 DEF Place, P
    <2> QED
      BY <1>1, <1>5, <2>5, <2>6
  <1>7. Place(Q, <<p, q>>) = n + 1
    <2>1. \A r \in Q : r[1] <= <<p, q>>[1]
      <3>1. <<p, q>>[1] = p
        OBVIOUS
      <3>2. \A r \in R : r[1] <= p
        OBVIOUS
      <3> QED
        BY <3>1, <3>2
    <2>2. {r \in Q : r[1] <= <<p, q>>[1]} = Q
      BY <2>1
    <2> QED
      BY <1>4, <2>2 DEF Place
  <1>8. ASSUME NEW run \in Q
        PROVE  Append(tokens, t)[Place(Q, run)] = SubSeq(text, run[1], run[2])
    <2>1. CASE run \in R
      BY <1>6, <2>1
    <2>2. CASE run = <<p, q>>
      <3>1. run[1] = p /\ run[2] = q
        BY <2>2
      <3> HIDE DEF Q
      <3>2. Append(tokens, t)[Place(Q, run)] = t
        BY <1>5, <1>7, <2>2
      <3> QED
        BY <3>1, <3>2
    <2> QED
      BY <2>1, <2>2
  <1> HIDE DEF Q
  <1>9. Listed(Append(tokens, t), Q)
    BY <1>4, <1>5, <1>8 DEF Listed
  <1> QED
    BY <1>9 DEF Q

\* Blank positions.
LEMMA BlankFacts ==
  ASSUME text \in Text
  PROVE  /\ Len(text) \in Nat
         /\ Blank(0) /\ Blank(Len(text) + 1)
         /\ \A i \in 1 .. Len(text) : Blank(i) <=> text[i] = Space
  <1>1. Len(text) \in Nat /\ DOMAIN text = 1 .. Len(text)
    BY LenProperties DEF Text
  <1> QED
    BY <1>1 DEF Blank

\* A blank ends the run of symbols before it, if there is one.
LEMMA RunEnds ==
  ASSUME text \in Text, NEW i \in 0 .. Len(text), Blank(i + 1),
         NEW b \in 0 .. i, Blank(b), \A j \in b + 1 .. i : ~Blank(j)
  PROVE  /\ b = i => RunsBefore(i + 1) = RunsBefore(i)
         /\ b # i => /\ RunsBefore(i + 1) = RunsBefore(i) \cup {<<b + 1, i>>}
                     /\ \A r \in RunsBefore(i) : r[1] < b + 1
  <1> DEFINE n == Len(text)
  <1>1. n \in Nat
    BY BlankFacts
  <1>2. RunsBefore(i) \subseteq RunsBefore(i + 1)
    BY <1>1 DEF RunsBefore
  <1>3. ASSUME NEW r \in RunsBefore(i + 1), r \notin RunsBefore(i)
        PROVE  b # i /\ r = <<b + 1, i>>
    <2>1. PICK p \in 1 .. n, q \in 1 .. n : r = <<p, q>>
      BY DEF RunsBefore
    <2>2. /\ p <= q /\ (\A j \in p .. q : ~Blank(j))
          /\ Blank(p - 1) /\ Blank(q + 1) /\ q + 1 <= i + 1
          /\ ~(q + 1 <= i)
      BY <1>3, <2>1 DEF RunsBefore
    <2>3. q = i
      BY <1>1, <2>2
    <2>4. b # i
      <3>1. q \in p .. q
        BY <2>2
      <3> QED
        BY <2>2, <2>3, <3>1
    <2>5. ~(p <= b)
      <3>1. ASSUME p <= b PROVE FALSE
        <4>1. b \in p .. q
          BY <2>3, <3>1
        <4> QED
          BY <2>2, <4>1
      <3> QED
        BY <3>1
    <2>6. ~(p > b + 1)
      <3>1. ASSUME p > b + 1 PROVE FALSE
        <4>1. p - 1 \in b + 1 .. i
          BY <2>2, <2>3, <3>1
        <4> QED
          BY <2>2, <4>1
      <3> QED
        BY <3>1
    <2>7. p = b + 1
      BY <2>5, <2>6
    <2> QED
      BY <2>1, <2>3, <2>4, <2>7
  <1>4. ASSUME b # i PROVE <<b + 1, i>> \in RunsBefore(i + 1)
    <2>1. PICK p, q : p = b + 1 /\ q = i
      OBVIOUS
    <2>2. /\ p \in 1 .. n /\ q \in 1 .. n /\ p <= q /\ (\A j \in p .. q : ~Blank(j))
          /\ Blank(p - 1) /\ Blank(q + 1) /\ q + 1 <= i + 1
      BY <1>1, <1>4, <2>1
    <2>3. <<p, q>> \in RunsBefore(i + 1)
      BY <2>2 DEF RunsBefore
    <2> QED
      BY <2>1, <2>3
  <1>5. ASSUME b # i, NEW r \in RunsBefore(i) PROVE r[1] < b + 1
    <2>1. /\ r[1] \in 1 .. n /\ r[2] \in 1 .. n /\ r[1] <= r[2]
          /\ Blank(r[2] + 1) /\ r[2] + 1 <= i
      BY DEF RunsBefore
    <2>2. ~(r[2] + 1 >= b + 1)
      <3>1. ASSUME r[2] + 1 >= b + 1 PROVE FALSE
        <4>1. r[2] + 1 \in b + 1 .. i
          BY <2>1, <3>1
        <4> QED
          BY <2>1, <4>1
      <3> QED
        BY <3>1
    <2> QED
      BY <2>1, <2>2
  <1> QED
    BY <1>2, <1>3, <1>4, <1>5

\* A flush adds the run that ends there.
LEMMA FlushGood ==
  ASSUME text \in Text, NEW i \in 0 .. Len(text), Blank(i + 1), NEW b \in Nat,
         NEW a \in Progress(Alphabet), Good(a, i, b)
  PROVE  /\ Listed(Flush(a).tokens, RunsBefore(i + 1))
         /\ Flush(a).cur = <<>>
  <1>1. /\ Listed(a.tokens, RunsBefore(i)) /\ b \in 0 .. i /\ Blank(b)
        /\ \A j \in b + 1 .. i : ~Blank(j)
        /\ a.cur = SubSeq(text, b + 1, i)
    BY DEF Good
  <1>2. Len(text) \in Nat
    BY BlankFacts
  <1>3. a.tokens \in Seq(Text) /\ a.cur \in Text
    BY DEF Progress, Text
  <1>4. Len(a.cur) = i - b
    <2>1. \A j \in b + 1 .. i : text[j] \in Alphabet
      BY <1>1, <1>2, ElementOfSeq DEF Text
    <2>2. b + 1 \in Int /\ i \in Int
      BY <1>1
    <2>3. Len(a.cur) = IF b + 1 <= i THEN i - (b + 1) + 1 ELSE 0
      BY <1>1, <2>1, <2>2, SubSeqProperties
    <2> QED
      BY <1>1, <2>3
  <1>5. CASE b = i
    <2>1. a.cur = <<>>
      BY <1>1, <1>5, SubSeqEmpty
    <2>2. Flush(a) = a
      BY <2>1 DEF Flush
    <2>3. RunsBefore(i + 1) = RunsBefore(i)
      BY <1>1, <1>5, RunEnds
    <2> QED
      BY <1>1, <2>1, <2>2, <2>3
  <1>6. CASE b # i
    <2>1. a.cur # <<>>
      <3>1. Len(a.cur) # 0
        BY <1>1, <1>4, <1>6
      <3> QED
        BY <3>1, EmptySeq
    <2>2. Flush(a).tokens = Append(a.tokens, a.cur) /\ Flush(a).cur = <<>>
      BY <2>1 DEF Flush
    <2>3. /\ RunsBefore(i + 1) = RunsBefore(i) \cup {<<b + 1, i>>}
          /\ \A r \in RunsBefore(i) : r[1] < b + 1
      BY <1>1, <1>6, RunEnds
    <2>4. \A r \in RunsBefore(i) : r[1] \in Int
      BY <1>2 DEF RunsBefore
    <2>5. Listed(Append(a.tokens, a.cur), RunsBefore(i) \cup {<<b + 1, i>>})
      <3>1. PICK p, R, k, t : /\ p = b + 1 /\ R = RunsBefore(i)
                              /\ k = a.tokens /\ t = a.cur
        OBVIOUS
      <3>5. p \in Nat
        BY <3>1
      <3>2. /\ k \in Seq(Text) /\ Listed(k, R) /\ t \in Text
            /\ t = SubSeq(text, p, i)
        BY <1>1, <1>3, <3>1
      <3>3. (\A r \in R : r[1] \in Int) /\ (\A r \in R : r[1] < p) /\ i \in Nat
        BY <2>3, <2>4, <3>1
      <3>4. Listed(Append(k, t), R \cup {<<p, i>>})
        BY <3>2, <3>3, <3>5, ListedAppend
      <3> QED
        BY <3>1, <3>4
    <2> QED
      BY <2>2, <2>3, <2>5
  <1> QED
    BY <1>5, <1>6

\* The tokens of the text are its runs.
LEMMA TokensAreRuns ==
  ASSUME text \in Text
  PROVE  Listed(Tokenize(text), Runs)
  <1> DEFINE n == Len(text)
             A(i) == After(text)[i]
             Fine(i) == \E b \in Nat : Good(A(i), i, b)
             G == {i \in 0 .. n : Fine(i)}
  <1>1. /\ n \in Nat /\ A(0) = NoTokens
        /\ \A i \in 1 .. n : A(i) = TokenizeNext(A(i - 1), text[i])
        /\ \A i \in 0 .. n : A(i) \in Progress(Alphabet)
    BY AfterFacts DEF Text
  <1>2. Blank(0) /\ Blank(n + 1) /\ \A i \in 1 .. n : Blank(i) <=> text[i] = Space
    BY BlankFacts
  <1>3. 0 \in G
    <2>1. RunsBefore(0) = {}
      BY <1>1 DEF RunsBefore
    <2>2. Listed(<<>>, {})
      <3>1. Len(<<>>) = 0
        OBVIOUS
      <3> QED
        BY <3>1, FS_EmptySet DEF Listed
    <2>3. SubSeq(text, 0 + 1, 0) = <<>>
      BY SubSeqEmpty
    <2>4. 0 \in 0 .. 0 /\ \A j \in 0 + 1 .. 0 : ~Blank(j)
      OBVIOUS
    <2>5. A(0).tokens = <<>> /\ A(0).cur = <<>>
      BY <1>1 DEF NoTokens
    <2> HIDE DEF A
    <2>6. Good(A(0), 0, 0)
      BY <1>2, <2>1, <2>2, <2>3, <2>4, <2>5 DEF Good
    <2> QED
      BY <1>1, <2>6
  <1>4. ASSUME NEW i \in 1 .. n, i - 1 \in G PROVE i \in G
    <2>1. PICK k, a, c : k = i - 1 /\ a = A(k) /\ c = text[i]
      OBVIOUS
    <2>2. k \in 0 .. n /\ k + 1 = i /\ k + 1 \in 1 .. n /\ i \in 0 .. n
      BY <1>1, <2>1
    <2>3. PICK b \in Nat : Good(a, k, b)
      BY <1>4, <2>1
    <2>4. a \in Progress(Alphabet) /\ A(i) = TokenizeNext(a, c)
      BY <1>1, <2>1
    <2>5. /\ Listed(a.tokens, RunsBefore(k)) /\ b \in 0 .. k /\ Blank(b)
          /\ \A j \in b + 1 .. k : ~Blank(j)
          /\ a.cur = SubSeq(text, b + 1, k)
      BY <2>3 DEF Good
    <2> HIDE DEF A
    <2>6. CASE c = Space
      <3>1. Blank(k + 1)
        BY <1>2, <2>1, <2>2, <2>6
      <3>2. /\ Listed(Flush(a).tokens, RunsBefore(k + 1))
            /\ Flush(a).cur = <<>>
        BY <2>2, <2>3, <2>4, <3>1, FlushGood
      <3>3. A(i) = Flush(a)
        BY <2>4, <2>6 DEF TokenizeNext
      <3>4. SubSeq(text, i + 1, i) = <<>>
        BY SubSeqEmpty
      <3>5. (\A j \in i + 1 .. i : ~Blank(j)) /\ i \in Nat /\ i \in 0 .. i
        OBVIOUS
      <3>6. Good(A(i), i, i)
        BY <2>2, <3>1, <3>2, <3>3, <3>4, <3>5 DEF Good
      <3> QED
        BY <2>2, <3>5, <3>6
    <2>7. CASE c # Space
      <3>1. ~Blank(k + 1)
        BY <1>2, <2>1, <2>2, <2>7
      <3>2. A(i).tokens = a.tokens /\ A(i).cur = Append(a.cur, c)
        BY <2>4, <2>7 DEF TokenizeNext
      <3>3. RunsBefore(i) = RunsBefore(k)
        <4>1. \A r \in RunsBefore(i) : r[2] + 1 # k + 1
          BY <3>1 DEF RunsBefore
        <4>2. \A r \in (1 .. n) \X (1 .. n) :
                r[2] + 1 # k + 1 => (r[2] + 1 <= i <=> r[2] + 1 <= k)
          <5>1. ASSUME NEW q \in 1 .. n, q + 1 # k + 1
                PROVE  q + 1 <= i <=> q + 1 <= k
            BY <2>2, <5>1
          <5> QED
            BY <5>1
        <4>3. \A r \in RunsBefore(k) : r[2] + 1 # k + 1
          <5>1. ASSUME NEW r \in RunsBefore(k) PROVE r[2] + 1 # k + 1
            <6>1. r[2] \in 1 .. n /\ r[2] + 1 <= k
              BY DEF RunsBefore
            <6> QED
              BY <1>1, <2>2, <6>1
          <5> QED
            BY <5>1
        <4>4. RunsBefore(i) \subseteq RunsBefore(k)
          BY <4>1, <4>2 DEF RunsBefore
        <4>5. RunsBefore(k) \subseteq RunsBefore(i)
          BY <4>2, <4>3 DEF RunsBefore
        <4> QED
          BY <4>4, <4>5
      <3>4. Append(a.cur, c) = SubSeq(text, b + 1, i)
        <4>1. /\ b + 1 \in 1 .. n /\ i \in b + 1 .. n /\ i - 1 = k /\ c = text[i]
          BY <1>1, <2>1, <2>2, <2>5
        <4>2. SubSeq(text, b + 1, i) = SubSeq(text, b + 1, i - 1) \o <<text[i]>>
          BY <4>1, SubSeqRecursiveSecond DEF Text
        <4>3. a.cur \in Seq(Alphabet) /\ c \in Alphabet
          BY <2>4, <4>1, ElementOfSeq DEF Progress, Text
        <4> QED
          BY <2>5, <4>1, <4>2, <4>3, AppendIsConcat
      <3>5. \A j \in b + 1 .. i : ~Blank(j)
        <4>1. \A j \in b + 1 .. i : j \in b + 1 .. k \/ j = k + 1
          BY <2>2, <2>5
        <4> QED
          BY <2>5, <3>1, <4>1
      <3>6. b \in 0 .. i
        BY <2>2, <2>5
      <3>7. Good(A(i), i, b)
        BY <2>5, <3>2, <3>3, <3>4, <3>5, <3>6 DEF Good
      <3> QED
        BY <2>2, <3>7
    <2> QED
      BY <2>6, <2>7
  <1>5. Fine(n)
    <2>1. n \in G
      <3>1. n \in 0 .. n
        BY <1>1
      <3> HIDE DEF G
      <3> QED
        BY <1>1, <1>3, <1>4, <3>1, BoundedInduction
    <2> HIDE DEF Fine
    <2> QED
      BY <2>1
  <1>6. Listed(Flush(A(n)).tokens, RunsBefore(n + 1))
    <2>1. PICK b \in Nat : Good(A(n), n, b)
      BY <1>5
    <2>2. n \in 0 .. n /\ A(n) \in Progress(Alphabet)
      BY <1>1
    <2> HIDE DEF A
    <2> QED
      BY <1>2, <2>1, <2>2, FlushGood
  <1>7. RunsBefore(n + 1) = Runs
    <2>1. DOMAIN text = 1 .. n
      BY LenProperties DEF Text
    <2>2. \A r \in (1 .. n) \X (1 .. n) : r[2] + 1 <= n + 1
      BY <1>1
    <2> QED
      BY <2>1, <2>2 DEF RunsBefore, Runs
  <1>8. Tokenize(text) = Flush(A(n)).tokens
    BY TokenizedIsAfter DEF Tokenize
  <1> QED
    BY <1>6, <1>7, <1>8
-----------------------------------------------------------------------------
(***************************************************************************)
(* Tokens that are written with white space before each of them are read   *)
(* as they are.                                                            *)
(***************************************************************************)

LEMMA CatFacts ==
  ASSUME NEW S, NEW s \in Seq(S)
  PROVE  /\ Cat(s, <<>>) = s /\ Cat(<<>>, s) = s
         /\ \A t \in Seq(S) : Cat(s, t) \in Seq(S)
         /\ \A t \in Seq(S), e \in S : Cat(s, Append(t, e)) = Append(Cat(s, t), e)
  <1>1. Cat(s, <<>>) = s /\ Cat(<<>>, s) = s
    BY ConcatEmptySeq DEF Cat
  <1>2. \A t \in Seq(S) : Cat(s, t) \in Seq(S)
    BY ConcatProperties DEF Cat
  <1>3. ASSUME NEW t \in Seq(S), NEW e \in S
        PROVE  Cat(s, Append(t, e)) = Append(Cat(s, t), e)
    <2>1. <<e>> \in Seq(S)
      OBVIOUS
    <2>2. Append(t, e) = t \o <<e>> /\ Append(s \o t, e) = (s \o t) \o <<e>>
      BY AppendIsConcat, ConcatProperties
    <2>3. s \o (t \o <<e>>) = (s \o t) \o <<e>>
      BY <2>1, ConcatAssociative
    <2> QED
      BY <2>2, <2>3 DEF Cat
  <1> QED
    BY <1>1, <1>2, <1>3

\* The white spaces before a token.
Gap(k) == [i \in 1 .. k |-> Space]

\* The function that Spaced computes.
Written(ts, k) ==
    LET gap == [i \in 1 .. k |-> Space]
        upto[i \in 0 .. Len(ts)] ==
          IF i = 0 THEN <<>> ELSE upto[i - 1] \o gap \o ts[i]
    IN upto

LEMMA SpacedIsWritten ==
  ASSUME NEW ts, NEW k
  PROVE  Spaced(ts, k) = Written(ts, k)[Len(ts)]
  BY DEF Spaced, Written

LEMMA WrittenFacts ==
  ASSUME NEW ts \in Seq(Text), NEW k, Gap(k) \in Text
  PROVE  /\ Len(ts) \in Nat
         /\ Written(ts, k)[0] = <<>>
         /\ \A i \in 1 .. Len(ts) :
              Written(ts, k)[i] = Cat(Cat(Written(ts, k)[i - 1], Gap(k)), ts[i])
         /\ \A i \in 0 .. Len(ts) : Written(ts, k)[i] \in Text
  <1> DEFINE n == Len(ts)
             g == Gap(k)
             F == [p \in (1 .. n) \X Text |-> Cat(Cat(p[2], g), ts[p[1]])]
  <1>1. n \in Nat /\ \A i \in 1 .. n : ts[i] \in Text
    BY LenProperties, ElementOfSeq
  <1>2. <<>> \in Text
    BY EmptySeq DEF Text
  <1>3. \A s \in Text, t \in Text : Cat(Cat(s, g), t) \in Text
    <2> HIDE DEF g
    <2>1. g \in Text
      BY DEF g
    <2> QED
      BY <2>1, CatFacts DEF Text
  <1> HIDE DEF g
  <1>4. F \in [(1 .. n) \X Text -> Text]
    <2>1. ASSUME NEW p \in (1 .. n) \X Text PROVE Cat(Cat(p[2], g), ts[p[1]]) \in Text
      <3>1. p[1] \in 1 .. n /\ p[2] \in Text
        OBVIOUS
      <3> QED
        BY <1>1, <1>3, <3>1
    <2> QED
      BY <2>1
  <1>5. PICK h \in [0 .. n -> Text] :
          h[0] = <<>> /\ \A i \in 1 .. n : h[i] = F[<<i, h[i - 1]>>]
    <2> DEFINE m == n
               a == <<>>
    <2>1. m \in Nat /\ a \in Text /\ F \in [(1 .. m) \X Text -> Text]
      BY <1>1, <1>2, <1>4
    <2> HIDE DEF F, m, a, Text
    <2>2. \E h : IsWalk(h, a, m, F, Text)
      BY ONLY <2>1, WalkExists
    <2> QED
      BY <2>2 DEF m, a, IsWalk
  <1>6. \A i \in 1 .. n : h[i] = Cat(Cat(h[i - 1], g), ts[i])
    <2>1. ASSUME NEW i \in 1 .. n PROVE h[i] = Cat(Cat(h[i - 1], g), ts[i])
      <3>1. <<i, h[i - 1]>> \in (1 .. n) \X Text
        <4>1. i - 1 \in 0 .. n
          BY <1>1
        <4> QED
          BY <1>5, <4>1
      <3>2. F[<<i, h[i - 1]>>] = Cat(Cat(h[i - 1], g), ts[i])
        BY <3>1
      <3> QED
        BY <1>5, <3>2
    <2> QED
      BY <2>1
  <1>7. h = [i \in 0 .. n |-> IF i = 0 THEN <<>> ELSE Cat(Cat(h[i - 1], g), ts[i])]
    <2>1. ASSUME NEW i \in 0 .. n
          PROVE  h[i] = IF i = 0 THEN <<>> ELSE Cat(Cat(h[i - 1], g), ts[i])
      <3>1. i # 0 => i \in 1 .. n
        BY <1>1
      <3> QED
        BY <1>5, <1>6, <3>1
    <2> QED
      BY <1>5, <2>1
  <1>8. Written(ts, k) = [i \in 0 .. n |-> IF i = 0 THEN <<>>
                                           ELSE Cat(Cat(Written(ts, k)[i - 1], g), ts[i])]
    BY <1>7 DEF Written, Cat, g, Gap
  <1>9. /\ Written(ts, k)[0] = <<>>
        /\ \A i \in 1 .. n :
             Written(ts, k)[i] = Cat(Cat(Written(ts, k)[i - 1], g), ts[i])
    <2> DEFINE u == Written(ts, k)
    <2> HIDE DEF u
    <2>1. u = [i \in 0 .. n |-> IF i = 0 THEN <<>> ELSE Cat(Cat(u[i - 1], g), ts[i])]
      BY <1>8 DEF u
    <2>2. 0 \in 0 .. n /\ \A i \in 1 .. n : i \in 0 .. n /\ i # 0
      BY <1>1
    <2>3. u[0] = <<>> /\ \A i \in 1 .. n : u[i] = Cat(Cat(u[i - 1], g), ts[i])
      BY <2>1, <2>2
    <2> QED
      BY <2>3 DEF u
  <1>10. \A i \in 0 .. n : Written(ts, k)[i] \in Text
    <2> DEFINE G == {i \in 0 .. n : Written(ts, k)[i] \in Text}
    <2>1. 0 \in G
      <3>1. 0 \in 0 .. n
        BY <1>1
      <3> QED
        BY <1>2, <1>9, <3>1
    <2>2. ASSUME NEW i \in 1 .. n, i - 1 \in G PROVE i \in G
      <3>1. i \in 0 .. n
        BY <1>1
      <3>2. PICK a \in Text, c \in Text : a = Written(ts, k)[i - 1] /\ c = ts[i]
        BY <1>1, <2>2
      <3>3. Cat(Cat(a, g), c) \in Text
        BY <1>3, <3>2
      <3> QED
        BY <1>9, <3>1, <3>2, <3>3
    <2>3. \A i \in 0 .. n : i \in G
      <3> HIDE DEF G
      <3> QED
        BY <1>1, <2>1, <2>2, BoundedInduction
    <2> QED
      BY <2>3
  <1> QED
    BY <1>1, <1>9, <1>10 DEF g

\* One token more.
LEMMA SpacedFacts ==
  ASSUME NEW k, Gap(k) \in Text
  PROVE  /\ Spaced(<<>>, k) = <<>>
         /\ \A ts \in Seq(Text) : Spaced(ts, k) \in Text
         /\ \A ts \in Seq(Text), t \in Text :
              Spaced(Append(ts, t), k) = Cat(Cat(Spaced(ts, k), Gap(k)), t)
  <1>1. Spaced(<<>>, k) = <<>>
    <2>1. <<>> \in Seq(Text) /\ Len(<<>>) = 0
      BY EmptySeq
    <2>2. Written(<<>>, k)[0] = <<>>
      BY <2>1, WrittenFacts
    <2> QED
      BY <2>1, <2>2, SpacedIsWritten
  <1>2. ASSUME NEW ts \in Seq(Text) PROVE Spaced(ts, k) \in Text
    <2>1. Len(ts) \in Nat
      BY LenProperties
    <2>2. Len(ts) \in 0 .. Len(ts)
      BY <2>1
    <2> QED
      BY <2>2, WrittenFacts, SpacedIsWritten
  <1>3. ASSUME NEW ts \in Seq(Text), NEW t \in Text
        PROVE  Spaced(Append(ts, t), k) = Cat(Cat(Spaced(ts, k), Gap(k)), t)
    <2> DEFINE us == Append(ts, t)
               n == Len(ts)
               G == {i \in 0 .. n : Written(us, k)[i] = Written(ts, k)[i]}
    <2>1. /\ us \in Seq(Text) /\ Len(us) = n + 1 /\ n \in Nat
          /\ \A i \in 1 .. n : us[i] = ts[i]
          /\ us[n + 1] = t
      BY AppendProperties, LenProperties
    <2> HIDE DEF us
    <2>2. /\ Written(ts, k)[0] = <<>>
          /\ \A i \in 1 .. n :
               Written(ts, k)[i] = Cat(Cat(Written(ts, k)[i - 1], Gap(k)), ts[i])
      BY WrittenFacts
    <2>3. /\ Written(us, k)[0] = <<>>
          /\ \A i \in 1 .. n + 1 :
               Written(us, k)[i] = Cat(Cat(Written(us, k)[i - 1], Gap(k)), us[i])
      BY <2>1, WrittenFacts
    <2>4. 0 \in G
      BY <2>1, <2>2, <2>3
    <2>5. ASSUME NEW i \in 1 .. n, i - 1 \in G PROVE i \in G
      <3>1. i \in 0 .. n /\ i \in 1 .. n + 1
        BY <2>1
      <3>2. Written(us, k)[i - 1] = Written(ts, k)[i - 1]
        BY <2>5
      <3> QED
        BY <2>1, <2>2, <2>3, <3>1, <3>2
    <2>6. n \in G
      <3>1. n \in 0 .. n
        BY <2>1
      <3> HIDE DEF G
      <3> QED
        BY <2>1, <2>4, <2>5, <3>1, BoundedInduction
    <2>7. Written(us, k)[n + 1] = Cat(Cat(Written(us, k)[n], Gap(k)), t)
      <3>1. n + 1 \in 1 .. n + 1 /\ (n + 1) - 1 = n
        BY <2>1
      <3>2. Written(us, k)[n + 1]
              = Cat(Cat(Written(us, k)[(n + 1) - 1], Gap(k)), us[n + 1])
        BY <2>3, <3>1
      <3> QED
        BY <2>1, <3>1, <3>2
    <2>8. Spaced(us, k) = Written(us, k)[n + 1] /\ Spaced(ts, k) = Written(ts, k)[n]
      BY <2>1, SpacedIsWritten
    <2> QED
      BY <2>6, <2>7, <2>8 DEF us
  <1> QED
    BY <1>1, <1>2, <1>3

\* A token that goes on.
LEMMA TokenizedToken ==
  ASSUME NEW s \in Text, NEW t \in Token
  PROVE  Tokenized(Cat(s, t))
           = [tokens |-> Tokenized(s).tokens, cur |-> Cat(Tokenized(s).cur, t)]
  <1> DEFINE S == Alphabet \ {Space}
             a == Tokenized(s)
             Fine(u) == Tokenized(Cat(s, u)) = [tokens |-> a.tokens, cur |-> Cat(a.cur, u)]
             G == {u \in Seq(S) : Fine(u)}
  <1>1. a \in Progress(Alphabet)
    BY TokenizedFacts DEF Text
  <1>2. a.cur \in Text /\ a = [tokens |-> a.tokens, cur |-> a.cur]
    BY <1>1 DEF Progress, Text
  <1>3. Fine(<<>>)
    BY <1>2, CatFacts DEF Text
  <1>4. ASSUME NEW u \in Seq(S), NEW e \in S, Fine(u) PROVE Fine(Append(u, e))
    <2>1. u \in Text /\ e \in Alphabet /\ e # Space
      BY DEF Text
    <2>2. Cat(s, u) \in Text /\ Cat(s, Append(u, e)) = Append(Cat(s, u), e)
      BY <2>1, CatFacts DEF Text
    <2>3. Tokenized(Append(Cat(s, u), e)) = TokenizeNext(Tokenized(Cat(s, u)), e)
      BY <2>1, <2>2, TokenizedFacts DEF Text
    <2>4. PICK b : b = Tokenized(Cat(s, u))
      OBVIOUS
    <2>5. b.tokens = a.tokens /\ b.cur = Cat(a.cur, u)
      BY <1>4, <2>4
    <2>6. TokenizeNext(b, e) = [tokens |-> b.tokens, cur |-> Append(b.cur, e)]
      BY <2>1 DEF TokenizeNext
    <2>7. Cat(a.cur, Append(u, e)) = Append(Cat(a.cur, u), e)
      BY <1>2, <2>1, CatFacts DEF Text
    <2> HIDE DEF a
    <2> QED
      BY <2>2, <2>3, <2>4, <2>5, <2>6, <2>7
  <1>5. \A u \in Seq(S) : u \in G
    <2>1. <<>> \in G
      BY <1>3, EmptySeq
    <2>2. ASSUME NEW u \in Seq(S), NEW e \in S, u \in G PROVE Append(u, e) \in G
      <3>1. Append(u, e) \in Seq(S)
        BY AppendProperties
      <3>2. Fine(u)
        BY <2>2
      <3> HIDE DEF Fine
      <3> QED
        BY <1>4, <3>1, <3>2
    <2> HIDE DEF G, S
    <2> QED
      BY <2>1, <2>2, SequenceInduction
  <1>6. t \in Seq(S)
    <2>1. t \in Seq(Alphabet) /\ \A i \in DOMAIN t : t[i] # Space
      BY DEF Token
    <2>2. DOMAIN t = 1 .. Len(t) /\ Len(t) \in Nat /\ \A i \in 1 .. Len(t) : t[i] \in S
      BY <2>1, LenProperties, ElementOfSeq
    <2>3. t = [i \in 1 .. Len(t) |-> t[i]]
      BY <2>1
    <2> HIDE DEF S
    <2> QED
      BY <2>2, <2>3, IsASeq
  <1>7. t \in G
    BY <1>5, <1>6
  <1> QED
    BY <1>7

\* White space ends a token.
LEMMA TokenizedGap ==
  ASSUME NEW s \in Text, NEW k \in {1, 2}
  PROVE  /\ Gap(k) \in Text /\ Cat(s, Gap(k)) \in Text
         /\ Tokenized(Cat(s, Gap(k))) = Flush(Tokenized(s))
  <1> DEFINE a == Tokenized(s)
  <1>1. a \in Progress(Alphabet)
    BY TokenizedFacts DEF Text
  <1>2. Space \in Alphabet
    BY DEF Alphabet
  <1>3. TokenizeNext(a, Space) = Flush(a) /\ TokenizeNext(Flush(a), Space) = Flush(Flush(a))
    BY DEF TokenizeNext
  <1>4. Flush(Flush(a)) = Flush(a)
    BY DEF Flush
  <1>5. CASE k = 1
    <2>1. PICK c : c = Space
      OBVIOUS
    <2>2. Gap(k) = Append(<<>>, c)
      BY <1>5, <2>1 DEF Gap
    <2>3. Gap(k) \in Text /\ Cat(s, Gap(k)) = Append(s, c) /\ Append(s, c) \in Text
      <3>1. c \in Alphabet /\ <<>> \in Text /\ Cat(s, <<>>) = s
        BY <1>2, <2>1, EmptySeq, CatFacts DEF Text
      <3>4. PICK z : z = <<>>
        OBVIOUS
      <3>2. Append(<<>>, c) \in Text /\ Append(s, c) \in Text
        BY <3>1, AppendProperties DEF Text
      <3>10. c \in Alphabet /\ z \in Text
        BY <3>1, <3>4
      <3>3. Cat(s, Append(z, c)) = Append(Cat(s, z), c)
        BY <3>10, CatFacts DEF Text
      <3> QED
        BY <2>2, <3>1, <3>2, <3>3, <3>4
    <2>4. Tokenized(Append(s, c)) = TokenizeNext(a, c)
      BY <1>2, <2>1, TokenizedFacts DEF Text
    <2> QED
      BY <1>3, <2>1, <2>3, <2>4
  <1>6. CASE k = 2
    <2>1. PICK c : c = Space
      OBVIOUS
    <2>2. Gap(k) = Append(Append(<<>>, c), c)
      BY <1>6, <2>1 DEF Gap
    <2>3. /\ Gap(k) \in Text /\ Append(s, c) \in Text
          /\ Cat(s, Gap(k)) = Append(Append(s, c), c)
          /\ Append(Append(s, c), c) \in Text
      <3>1. c \in Alphabet /\ <<>> \in Text /\ Cat(s, <<>>) = s
        BY <1>2, <2>1, EmptySeq, CatFacts DEF Text
      <3>2. PICK u, v : u = Append(<<>>, c) /\ v = Append(s, c)
        OBVIOUS
      <3>3. u \in Text /\ v \in Text
        BY <3>1, <3>2, AppendProperties DEF Text
      <3>4. Append(u, c) \in Text /\ Append(v, c) \in Text
        BY <3>1, <3>3, AppendProperties DEF Text
      <3>9. PICK z : z = <<>>
        OBVIOUS
      <3>10. c \in Alphabet /\ z \in Text
        BY <3>1, <3>9
      <3>5. Cat(s, Append(z, c)) = Append(Cat(s, z), c)
        BY <3>10, CatFacts DEF Text
      <3>6. Cat(s, Append(u, c)) = Append(Cat(s, u), c)
        BY <3>1, <3>3, CatFacts DEF Text
      <3>7. Cat(s, u) = v
        BY <3>1, <3>2, <3>5, <3>9
      <3>8. Gap(k) = Append(u, c)
        BY <2>2, <3>2
      <3> QED
        BY <3>2, <3>3, <3>4, <3>6, <3>7, <3>8
    <2>4. /\ Tokenized(Append(s, c)) = TokenizeNext(a, c)
          /\ Tokenized(Append(Append(s, c), c)) = TokenizeNext(Tokenized(Append(s, c)), c)
      BY <1>2, <2>1, <2>3, TokenizedFacts DEF Text
    <2> QED
      BY <1>3, <1>4, <2>1, <2>3, <2>4
  <1> QED
    BY <1>5, <1>6

\* What is written is read.
LEMMA TokenizeSpaced ==
  ASSUME NEW ts \in Seq(Token), NEW k \in {1, 2}
  PROVE  Spaced(ts, k) \in Text /\ Tokenize(Spaced(ts, k)) = ts
  <1> DEFINE g == Gap(k)
             Fine(us) == Flush(Tokenized(Spaced(us, k))) = [tokens |-> us, cur |-> <<>>]
             G == {us \in Seq(Token) : Fine(us)}
  <1>1. g \in Text
    <2>1. <<>> \in Text
      BY EmptySeq DEF Text
    <2> QED
      BY <2>1, TokenizedGap
  <1>2. Token \subseteq Text /\ \A us \in Seq(Token) : us \in Seq(Text)
    BY DEF Token, Text
  <1>3. Fine(<<>>)
    <2>1. Spaced(<<>>, k) = <<>>
      BY <1>1, SpacedFacts
    <2>2. Tokenized(<<>>) = NoTokens
      BY TokenizedFacts
    <2> QED
      BY <2>1, <2>2 DEF NoTokens, Flush
  <1>4. ASSUME NEW us \in Seq(Token), NEW t \in Token, Fine(us) PROVE Fine(Append(us, t))
    <2>1. PICK s : s = Spaced(us, k)
      OBVIOUS
    <2>2. s \in Text /\ Spaced(Append(us, t), k) = Cat(Cat(s, g), t)
      BY <1>1, <1>2, <2>1, SpacedFacts
    <2>3. Cat(s, g) \in Text /\ Tokenized(Cat(s, g)) = Flush(Tokenized(s))
      BY <2>2, TokenizedGap
    <2>4. Tokenized(Cat(s, g)).tokens = us /\ Tokenized(Cat(s, g)).cur = <<>>
      BY <1>4, <2>1, <2>3
    <2>5. Cat(<<>>, t) = t /\ t # <<>>
      BY CatFacts DEF Token
    <2> HIDE DEF g
    <2>6. Tokenized(Cat(Cat(s, g), t)) = [tokens |-> us, cur |-> t]
      BY <2>3, <2>4, <2>5, TokenizedToken
    <2>7. Flush([tokens |-> us, cur |-> t]) = [tokens |-> Append(us, t), cur |-> <<>>]
      BY <2>5 DEF Flush
    <2> QED
      BY <2>2, <2>6, <2>7
  <1>5. \A us \in Seq(Token) : us \in G
    <2>1. <<>> \in G
      BY <1>3, EmptySeq
    <2>2. ASSUME NEW us \in Seq(Token), NEW t \in Token, us \in G PROVE Append(us, t) \in G
      <3>1. Append(us, t) \in Seq(Token)
        BY AppendProperties
      <3>2. Fine(us)
        BY <2>2
      <3> HIDE DEF Fine
      <3> QED
        BY <1>4, <3>1, <3>2
    <2> HIDE DEF G
    <2> QED
      BY <2>1, <2>2, SequenceInduction
  <1>6. ts \in G
    BY <1>5
  <1>7. Spaced(ts, k) \in Text
    BY <1>1, <1>2, SpacedFacts
  <1> QED
    BY <1>6, <1>7 DEF Tokenize
-----------------------------------------------------------------------------
(***************************************************************************)
(* Numbers.                                                                *)
(***************************************************************************)

Digit == {Digits[d + 1] : d \in 0 .. 9}

LEMMA DigitFacts ==
  /\ \A d \in 0 .. 9 : Digits[d + 1] \in Digit /\ DigitOf(Digits[d + 1]) = d
  /\ \A c \in Digit : /\ DigitOf(c) \in 0 .. 9 /\ c = Digits[DigitOf(c) + 1]
                      /\ c \in Alphabet /\ c # Space /\ c \notin Words /\ IsDigit(c)
  /\ \A c : IsDigit(c) => c \in Digit
  <1>1. \A d \in 0 .. 9, e \in 0 .. 9 : Digits[d + 1] = Digits[e + 1] => d = e
    BY DEF Digits
  <1>2. ASSUME NEW d \in 0 .. 9 PROVE DigitOf(Digits[d + 1]) = d
    BY <1>1 DEF DigitOf
  <1>3. \A c : IsDigit(c) <=> c \in Digit
    BY DEF IsDigit, Digit
  <1>4. ASSUME NEW d \in 0 .. 9
        PROVE  /\ Digits[d + 1] \in Alphabet /\ Digits[d + 1] # Space
               /\ Digits[d + 1] \notin Words
    <2>1. d + 1 \in 1 .. 10
      OBVIOUS
    <2>2. Digits[d + 1] \in Alphabet
      BY <2>1 DEF Alphabet
    <2>3. Digits[d + 1] \in {"0", "1", "2", "3", "4", "5", "6", "7", "8", "9"}
      BY DEF Digits
    <2>4. \A s \in {"0", "1", "2", "3", "4", "5", "6", "7", "8", "9"} :
            s # Space /\ s \notin Words
      BY Zenon DEF Space, Words
    <2> QED
      BY <2>2, <2>3, <2>4
  <1>5. ASSUME NEW c \in Digit
        PROVE  /\ DigitOf(c) \in 0 .. 9 /\ c = Digits[DigitOf(c) + 1]
               /\ c \in Alphabet /\ c # Space /\ c \notin Words
    <2>1. PICK d \in 0 .. 9 : c = Digits[d + 1]
      BY DEF Digit
    <2>2. DigitOf(c) = d
      BY <1>2, <2>1
    <2> QED
      BY <1>4, <2>1, <2>2
  <1>6. \A d \in 0 .. 9 : Digits[d + 1] \in Digit
    BY DEF Digit
  <1> QED
    BY <1>2, <1>3, <1>5, <1>6

\* The function that Atoi computes.
Counted(s) ==
    LET upto[i \in 0 .. Len(s)] ==
          IF i = 0 THEN 0 ELSE 10 * upto[i - 1] + DigitOf(s[i])
    IN upto

LEMMA AtoiIsCounted ==
  ASSUME NEW s
  PROVE  Atoi(s) = Counted(s)[Len(s)]
  BY DEF Atoi, Counted

\* One digit more.
More(a, c) == 10 * a + DigitOf(c)

LEMMA MoreFacts ==
  ASSUME NEW a \in Nat, NEW c \in Digit
  PROVE  More(a, c) \in Nat
  <1>1. DigitOf(c) \in 0 .. 9
    BY DigitFacts
  <1> QED
    BY <1>1 DEF More

LEMMA CountedFacts ==
  ASSUME NEW s \in Seq(Digit)
  PROVE  /\ Len(s) \in Nat
         /\ Counted(s)[0] = 0
         /\ \A i \in 1 .. Len(s) : Counted(s)[i] = More(Counted(s)[i - 1], s[i])
         /\ \A i \in 0 .. Len(s) : Counted(s)[i] \in Nat
  <1> DEFINE n == Len(s)
             F == [p \in (1 .. n) \X Nat |-> More(p[2], s[p[1]])]
  <1>1. n \in Nat /\ \A i \in 1 .. n : s[i] \in Digit
    BY LenProperties, ElementOfSeq
  <1>2. F \in [(1 .. n) \X Nat -> Nat]
    <2>1. ASSUME NEW p \in (1 .. n) \X Nat PROVE More(p[2], s[p[1]]) \in Nat
      <3>1. p[1] \in 1 .. n /\ p[2] \in Nat
        OBVIOUS
      <3> QED
        BY <1>1, <3>1, MoreFacts
    <2> QED
      BY <2>1
  <1>3. PICK h \in [0 .. n -> Nat] :
          h[0] = 0 /\ \A i \in 1 .. n : h[i] = F[<<i, h[i - 1]>>]
    <2> DEFINE m == n
               T == Nat
               a == 0
    <2>1. m \in Nat /\ a \in T /\ F \in [(1 .. m) \X T -> T]
      BY <1>1, <1>2
    <2> HIDE DEF F, m, a, T
    <2>2. \E h : IsWalk(h, a, m, F, T)
      BY ONLY <2>1, WalkExists
    <2> QED
      BY <2>2 DEF m, a, T, IsWalk
  <1>4. \A i \in 1 .. n : h[i] = More(h[i - 1], s[i])
    <2>1. ASSUME NEW i \in 1 .. n PROVE h[i] = More(h[i - 1], s[i])
      <3>1. <<i, h[i - 1]>> \in (1 .. n) \X Nat
        <4>1. i - 1 \in 0 .. n
          BY <1>1
        <4> QED
          BY <1>3, <4>1
      <3>2. F[<<i, h[i - 1]>>] = More(h[i - 1], s[i])
        BY <3>1
      <3> QED
        BY <1>3, <3>2
    <2> QED
      BY <2>1
  <1>5. h = [i \in 0 .. n |-> IF i = 0 THEN 0 ELSE More(h[i - 1], s[i])]
    <2>1. ASSUME NEW i \in 0 .. n
          PROVE  h[i] = IF i = 0 THEN 0 ELSE More(h[i - 1], s[i])
      <3>1. i # 0 => i \in 1 .. n
        BY <1>1
      <3> QED
        BY <1>3, <1>4, <3>1
    <2> QED
      BY <1>3, <2>1
  <1>6. Counted(s) = [i \in 0 .. n |-> IF i = 0 THEN 0 ELSE More(Counted(s)[i - 1], s[i])]
    BY <1>5 DEF Counted, More
  <1>7. /\ Counted(s)[0] = 0
        /\ \A i \in 1 .. n : Counted(s)[i] = More(Counted(s)[i - 1], s[i])
    <2> DEFINE u == Counted(s)
    <2> HIDE DEF u
    <2>1. u = [i \in 0 .. n |-> IF i = 0 THEN 0 ELSE More(u[i - 1], s[i])]
      BY <1>6 DEF u
    <2>2. 0 \in 0 .. n /\ \A i \in 1 .. n : i \in 0 .. n /\ i # 0
      BY <1>1
    <2>3. u[0] = 0 /\ \A i \in 1 .. n : u[i] = More(u[i - 1], s[i])
      BY <2>1, <2>2
    <2> QED
      BY <2>3 DEF u
  <1>8. \A i \in 0 .. n : Counted(s)[i] \in Nat
    <2> DEFINE G == {i \in 0 .. n : Counted(s)[i] \in Nat}
    <2>1. 0 \in G
      <3>1. 0 \in 0 .. n
        BY <1>1
      <3> QED
        BY <1>7, <3>1
    <2>2. ASSUME NEW i \in 1 .. n, i - 1 \in G PROVE i \in G
      <3>1. i \in 0 .. n
        BY <1>1
      <3>2. PICK a \in Nat, c \in Digit : a = Counted(s)[i - 1] /\ c = s[i]
        BY <1>1, <2>2
      <3>3. More(a, c) \in Nat
        BY <3>2, MoreFacts
      <3> QED
        BY <1>7, <3>1, <3>2, <3>3
    <2>3. \A i \in 0 .. n : i \in G
      <3> HIDE DEF G
      <3> QED
        BY <1>1, <2>1, <2>2, BoundedInduction
    <2> QED
      BY <2>3
  <1> QED
    BY <1>1, <1>7, <1>8

LEMMA AtoiFacts ==
  /\ Atoi(<<>>) = 0
  /\ \A s \in Seq(Digit) : Atoi(s) \in Nat
  /\ \A s \in Seq(Digit), c \in Digit : Atoi(Append(s, c)) = 10 * Atoi(s) + DigitOf(c)
  <1>1. Atoi(<<>>) = 0
    <2>1. <<>> \in Seq(Digit) /\ Len(<<>>) = 0
      BY EmptySeq
    <2>2. Counted(<<>>)[0] = 0
      BY <2>1, CountedFacts
    <2> QED
      BY <2>1, <2>2, AtoiIsCounted
  <1>2. ASSUME NEW s \in Seq(Digit) PROVE Atoi(s) \in Nat
    <2>1. Len(s) \in Nat
      BY LenProperties
    <2>2. Len(s) \in 0 .. Len(s)
      BY <2>1
    <2> QED
      BY <2>2, CountedFacts, AtoiIsCounted
  <1>3. ASSUME NEW s \in Seq(Digit), NEW c \in Digit
        PROVE  Atoi(Append(s, c)) = More(Atoi(s), c)
    <2> DEFINE t == Append(s, c)
               n == Len(s)
               G == {i \in 0 .. n : Counted(t)[i] = Counted(s)[i]}
    <2>1. /\ t \in Seq(Digit) /\ Len(t) = n + 1 /\ n \in Nat
          /\ \A i \in 1 .. n : t[i] = s[i]
          /\ t[n + 1] = c
      BY AppendProperties, LenProperties
    <2> HIDE DEF t
    <2>2. /\ Counted(s)[0] = 0
          /\ \A i \in 1 .. n : Counted(s)[i] = More(Counted(s)[i - 1], s[i])
      BY CountedFacts
    <2>3. /\ Counted(t)[0] = 0
          /\ \A i \in 1 .. n + 1 : Counted(t)[i] = More(Counted(t)[i - 1], t[i])
      BY <2>1, CountedFacts
    <2>4. 0 \in G
      BY <2>1, <2>2, <2>3
    <2>5. ASSUME NEW i \in 1 .. n, i - 1 \in G PROVE i \in G
      <3>1. i \in 0 .. n /\ i \in 1 .. n + 1
        BY <2>1
      <3>2. Counted(t)[i - 1] = Counted(s)[i - 1]
        BY <2>5
      <3> QED
        BY <2>1, <2>2, <2>3, <3>1, <3>2
    <2>6. n \in G
      <3>1. n \in 0 .. n
        BY <2>1
      <3> HIDE DEF G
      <3> QED
        BY <2>1, <2>4, <2>5, <3>1, BoundedInduction
    <2>7. Counted(t)[n + 1] = More(Counted(t)[n], c)
      <3>1. n + 1 \in 1 .. n + 1 /\ (n + 1) - 1 = n
        BY <2>1
      <3>2. Counted(t)[n + 1] = More(Counted(t)[(n + 1) - 1], t[n + 1])
        BY <2>3, <3>1
      <3> QED
        BY <2>1, <3>1, <3>2
    <2>8. Atoi(t) = Counted(t)[n + 1] /\ Atoi(s) = Counted(s)[n]
      BY <2>1, AtoiIsCounted
    <2> QED
      BY <2>6, <2>7, <2>8 DEF t
  <1> QED
    BY <1>1, <1>2, <1>3 DEF More

\* A text of digits, not more than so many, that says n.
Says(s, n, most) ==
    s \in Seq(Digit) /\ s # <<>> /\ Len(s) <= most /\ Atoi(s) = n

LEMMA DivFacts ==
  ASSUME NEW n \in Nat
  PROVE  /\ n \div 10 \in Nat /\ n % 10 \in 0 .. 9 /\ n = 10 * (n \div 10) + (n % 10)
         /\ (n \div 10) \div 10 = n \div 100
         /\ (n \div 10) \div 100 = n \div 1000
         /\ (n \div 10) \div 1000 = n \div 10000
  <1>1. n \div 10 \in Nat
    OBVIOUS
  <1>2. n % 10 \in 0 .. 9
    OBVIOUS
  <1>3. n = 10 * (n \div 10) + (n % 10)
    OBVIOUS
  <1>4. (n \div 10) \div 10 = n \div 100
    OBVIOUS
  <1>5. (n \div 10) \div 100 = n \div 1000
    OBVIOUS
  <1>6. (n \div 10) \div 1000 = n \div 10000
    OBVIOUS
  <1> QED
    BY <1>1, <1>2, <1>3, <1>4, <1>5, <1>6

\* A sequence that is another with one element more.
LEMMA IsAppend ==
  ASSUME NEW S, NEW s \in Seq(S), NEW t \in Seq(S), Len(t) = Len(s) + 1,
         NEW c \in S, t[Len(s) + 1] = c, \A i \in 1 .. Len(s) : t[i] = s[i]
  PROVE  t = Append(s, c)
  <1>1. Len(s) \in Nat
    BY LenProperties
  <1>3. PICK u : u = Append(s, c)
    OBVIOUS
  <1>4. /\ u \in Seq(S) /\ Len(u) = Len(s) + 1
        /\ \A i \in 1 .. Len(s) : u[i] = s[i]
        /\ u[Len(s) + 1] = c
    BY <1>3, AppendProperties
  <1>5. \A i \in 1 .. Len(t) : i \in 1 .. Len(s) \/ i = Len(s) + 1
    BY <1>1
  <1>6. \A i \in 1 .. Len(t) : t[i] = u[i]
    BY <1>4, <1>5
  <1>7. t = u
    BY <1>4, <1>6, SeqEqual
  <1> QED
    BY <1>3, <1>7

\* The last digit of a number, after the others.
LEMMA DecimalMore ==
  ASSUME NEW n \in Nat, 10 <= n, n < 100000
  PROVE  Decimal(n) = Append(Decimal(n \div 10), LastDigit(n))
  <1>1. PICK m \in Nat : m = n \div 10
    BY DivFacts
  <1>2. /\ n = 10 * m + (n % 10) /\ n % 10 \in 0 .. 9
        /\ m \div 10 = n \div 100 /\ m \div 100 = n \div 1000
        /\ m \div 1000 = n \div 10000
    BY <1>1, DivFacts
  <1>3. PICK a, b, c, d, e :
          /\ a = LastDigit(n \div 10000) /\ b = LastDigit(n \div 1000)
          /\ c = LastDigit(n \div 100) /\ d = LastDigit(n \div 10) /\ e = LastDigit(n)
    OBVIOUS
  <1>4. ASSUME NEW i \in Nat PROVE LastDigit(i) \in Digit
    <2>1. i % 10 \in 0 .. 9
      BY DivFacts
    <2> QED
      BY <2>1, DigitFacts DEF LastDigit
  <1>5. a \in Digit /\ b \in Digit /\ c \in Digit /\ d \in Digit /\ e \in Digit
    <2>1. /\ n \div 10000 \in Nat /\ n \div 1000 \in Nat
          /\ n \div 100 \in Nat /\ n \div 10 \in Nat
      OBVIOUS
    <2> QED
      BY <1>3, <1>4, <2>1
  <1>6. CASE n < 100
    <2>1. m < 10
      BY <1>2, <1>6
    <2>7. Decimal(m) = <<LastDigit(m)>>
      BY <2>1 DEF Decimal
    <2>8. Decimal(n) = <<LastDigit(n \div 10), LastDigit(n)>>
      BY <1>6 DEF Decimal
    <2>2. Decimal(m) = <<d>>
      BY <1>1, <1>2, <1>3, <2>7
    <2>3. Decimal(n) = <<d, e>>
      BY <1>3, <2>8
    <2> DEFINE s == <<d>>
               t == <<d, e>>
    <2>4. s \in Seq(Digit) /\ t \in Seq(Digit) /\ Len(s) = 1 /\ Len(t) = 1 + 1
      BY <1>5
    <2>5. (\A i \in 1 .. 1 : t[i] = s[i]) /\ t[1 + 1] = e
      OBVIOUS
    <2>9. Decimal(m) = s /\ Decimal(n) = t
      BY <2>2, <2>3
    <2> HIDE DEF s, t
    <2>11. (\A i \in 1 .. Len(s) : t[i] = s[i]) /\ t[Len(s) + 1] = e /\ Len(t) = Len(s) + 1
      BY <2>4, <2>5
    <2>12. s \in Seq(Digit) /\ t \in Seq(Digit) /\ e \in Digit
      BY <1>5, <2>4
    <2>6. t = Append(s, e)
      BY ONLY <2>11, <2>12, IsAppend
    <2>10. Decimal(n) = Append(Decimal(m), e)
      BY <2>6, <2>9
    <2> QED
      BY <1>1, <1>3, <2>10
  <1>7. CASE 100 <= n /\ n < 1000
    <2>1. 10 <= m /\ m < 100
      BY <1>2, <1>7
    <2>7. Decimal(m) = <<LastDigit(m \div 10), LastDigit(m)>>
      BY <2>1 DEF Decimal
    <2>8. Decimal(n) = <<LastDigit(n \div 100), LastDigit(n \div 10), LastDigit(n)>>
      BY <1>7 DEF Decimal
    <2>2. Decimal(m) = <<c, d>>
      BY <1>1, <1>2, <1>3, <2>7
    <2>3. Decimal(n) = <<c, d, e>>
      BY <1>3, <2>8
    <2> DEFINE s == <<c, d>>
               t == <<c, d, e>>
    <2>4. s \in Seq(Digit) /\ t \in Seq(Digit) /\ Len(s) = 2 /\ Len(t) = 2 + 1
      BY <1>5
    <2>5. (\A i \in 1 .. 2 : t[i] = s[i]) /\ t[2 + 1] = e
      OBVIOUS
    <2>9. Decimal(m) = s /\ Decimal(n) = t
      BY <2>2, <2>3
    <2> HIDE DEF s, t
    <2>11. (\A i \in 1 .. Len(s) : t[i] = s[i]) /\ t[Len(s) + 1] = e /\ Len(t) = Len(s) + 1
      BY <2>4, <2>5
    <2>12. s \in Seq(Digit) /\ t \in Seq(Digit) /\ e \in Digit
      BY <1>5, <2>4
    <2>6. t = Append(s, e)
      BY ONLY <2>11, <2>12, IsAppend
    <2>10. Decimal(n) = Append(Decimal(m), e)
      BY <2>6, <2>9
    <2> QED
      BY <1>1, <1>3, <2>10
  <1>8. CASE 1000 <= n /\ n < 10000
    <2>1. 100 <= m /\ m < 1000
      BY <1>2, <1>8
    <2>7. Decimal(m) = <<LastDigit(m \div 100), LastDigit(m \div 10), LastDigit(m)>>
      BY <2>1 DEF Decimal
    <2>8. Decimal(n) = <<LastDigit(n \div 1000), LastDigit(n \div 100), LastDigit(n \div 10),
                         LastDigit(n)>>
      BY <1>8 DEF Decimal
    <2>2. Decimal(m) = <<b, c, d>>
      BY <1>1, <1>2, <1>3, <2>7
    <2>3. Decimal(n) = <<b, c, d, e>>
      BY <1>3, <2>8
    <2> DEFINE s == <<b, c, d>>
               t == <<b, c, d, e>>
    <2>4. s \in Seq(Digit) /\ t \in Seq(Digit) /\ Len(s) = 3 /\ Len(t) = 3 + 1
      BY <1>5
    <2>5. (\A i \in 1 .. 3 : t[i] = s[i]) /\ t[3 + 1] = e
      OBVIOUS
    <2>9. Decimal(m) = s /\ Decimal(n) = t
      BY <2>2, <2>3
    <2> HIDE DEF s, t
    <2>11. (\A i \in 1 .. Len(s) : t[i] = s[i]) /\ t[Len(s) + 1] = e /\ Len(t) = Len(s) + 1
      BY <2>4, <2>5
    <2>12. s \in Seq(Digit) /\ t \in Seq(Digit) /\ e \in Digit
      BY <1>5, <2>4
    <2>6. t = Append(s, e)
      BY ONLY <2>11, <2>12, IsAppend
    <2>10. Decimal(n) = Append(Decimal(m), e)
      BY <2>6, <2>9
    <2> QED
      BY <1>1, <1>3, <2>10
  <1>9. CASE 10000 <= n
    <2>1. 1000 <= m /\ m < 10000
      BY <1>2, <1>9
    <2>7. Decimal(m) = <<LastDigit(m \div 1000), LastDigit(m \div 100), LastDigit(m \div 10),
                         LastDigit(m)>>
      BY <2>1 DEF Decimal
    <2>8. Decimal(n) = <<LastDigit(n \div 10000), LastDigit(n \div 1000), LastDigit(n \div 100),
                         LastDigit(n \div 10), LastDigit(n)>>
      BY <1>9 DEF Decimal
    <2>2. Decimal(m) = <<a, b, c, d>>
      BY <1>1, <1>2, <1>3, <2>7
    <2>3. Decimal(n) = <<a, b, c, d, e>>
      BY <1>3, <2>8
    <2> DEFINE s == <<a, b, c, d>>
               t == <<a, b, c, d, e>>
    <2>4. s \in Seq(Digit) /\ t \in Seq(Digit) /\ Len(s) = 4 /\ Len(t) = 4 + 1
      BY <1>5
    <2>5. (\A i \in 1 .. 4 : t[i] = s[i]) /\ t[4 + 1] = e
      OBVIOUS
    <2>9. Decimal(m) = s /\ Decimal(n) = t
      BY <2>2, <2>3
    <2> HIDE DEF s, t
    <2>11. (\A i \in 1 .. Len(s) : t[i] = s[i]) /\ t[Len(s) + 1] = e /\ Len(t) = Len(s) + 1
      BY <2>4, <2>5
    <2>12. s \in Seq(Digit) /\ t \in Seq(Digit) /\ e \in Digit
      BY <1>5, <2>4
    <2>6. t = Append(s, e)
      BY ONLY <2>11, <2>12, IsAppend
    <2>10. Decimal(n) = Append(Decimal(m), e)
      BY <2>6, <2>9
    <2> QED
      BY <1>1, <1>3, <2>10
  <1> QED
    BY <1>6, <1>7, <1>8, <1>9

LEMMA SaysMore ==
  ASSUME NEW n \in Nat, 10 <= n, n < 100000, NEW l \in Nat,
         Says(Decimal(n \div 10), n \div 10, l)
  PROVE  Says(Decimal(n), n, l + 1)
  <1>1. PICK m, s, d, c : /\ m = n \div 10 /\ s = Decimal(m)
                          /\ d = n % 10 /\ c = Digits[d + 1]
    OBVIOUS
  <1>2. m \in Nat /\ d \in 0 .. 9 /\ n = 10 * m + d
    BY <1>1, DivFacts
  <1>3. s \in Seq(Digit) /\ Len(s) <= l /\ Atoi(s) = m
    BY <1>1 DEF Says
  <1>4. c \in Digit /\ DigitOf(c) = d
    BY <1>1, <1>2, DigitFacts
  <1>5. Decimal(n) = Append(s, c)
    BY <1>1, DecimalMore DEF LastDigit
  <1>6. Append(s, c) \in Seq(Digit) /\ Len(Append(s, c)) = Len(s) + 1 /\ Len(s) \in Nat
    BY <1>3, <1>4, AppendProperties, LenProperties
  <1>7. Append(s, c) # <<>>
    BY <1>6, EmptySeq
  <1>8. Atoi(Append(s, c)) = n
    BY <1>2, <1>3, <1>4, AtoiFacts
  <1> QED
    BY <1>3, <1>5, <1>6, <1>7, <1>8 DEF Says

\* A number is written as it is read.
LEMMA DecimalSays ==
  /\ \A n \in Nat : n <= 100 => Says(Decimal(n), n, 3)
  /\ \A n \in Nat : n <= MaxPort => Says(Decimal(n), n, 5)
  <1>1. ASSUME NEW n \in Nat, n < 10 PROVE Says(Decimal(n), n, 1)
    <2>1. PICK c, z : c = Digits[n + 1] /\ z = <<>>
      OBVIOUS
    <2>2. c \in Digit /\ DigitOf(c) = n
      <3>1. n \in 0 .. 9
        BY <1>1
      <3> QED
        BY <2>1, <3>1, DigitFacts
    <2>3. Decimal(n) = <<c>>
      <3>1. n % 10 = n
        BY <1>1
      <3> QED
        BY <1>1, <2>1, <3>1 DEF Decimal, LastDigit
    <2>4. z \in Seq(Digit) /\ Len(z) = 0 /\ Atoi(z) = 0
      BY <2>1, EmptySeq, AtoiFacts
    <2>5. Atoi(Append(z, c)) = n
      <3>1. c \in Digit /\ z \in Seq(Digit)
        BY <2>2, <2>4
      <3>2. Atoi(Append(z, c)) = 10 * Atoi(z) + DigitOf(c)
        BY ONLY <3>1, AtoiFacts
      <3> QED
        BY <2>2, <2>4, <3>2
    <2>6. Append(z, c) = <<c>>
      <3>1. PICK t : t = <<c>>
        OBVIOUS
      <3>2. /\ t \in Seq(Digit) /\ Len(t) = Len(z) + 1 /\ t[Len(z) + 1] = c
            /\ \A i \in 1 .. Len(z) : t[i] = z[i]
        BY <2>2, <2>4, <3>1
      <3>3. t = Append(z, c)
        BY <2>2, <2>4, <3>2, IsAppend
      <3> QED
        BY <3>1, <3>2, <3>3
    <2>7. <<c>> \in Seq(Digit) /\ Len(<<c>>) = 1 /\ <<c>> # <<>>
      BY <2>2
    <2> QED
      BY <2>3, <2>5, <2>6, <2>7 DEF Says
  <1>2. ASSUME NEW n \in Nat, n < 100 PROVE Says(Decimal(n), n, 2)
    <2>1. CASE n < 10
      BY <1>1, <2>1 DEF Says
    <2>2. CASE 10 <= n
      <3>1. n \div 10 \in Nat /\ n \div 10 < 10
        BY <1>2
      <3>2. Says(Decimal(n \div 10), n \div 10, 1)
        BY <1>1, <3>1
      <3>3. Says(Decimal(n), n, 1 + 1)
        BY <1>2, <2>2, <3>2, SaysMore
      <3> QED
        BY <3>3
    <2> QED
      BY <2>1, <2>2
  <1>3. ASSUME NEW n \in Nat, n < 1000 PROVE Says(Decimal(n), n, 3)
    <2>1. CASE n < 100
      BY <1>2, <2>1 DEF Says
    <2>2. CASE 100 <= n
      <3>1. n \div 10 \in Nat /\ n \div 10 < 100
        BY <1>3
      <3>2. Says(Decimal(n \div 10), n \div 10, 2)
        BY <1>2, <3>1
      <3>3. Says(Decimal(n), n, 2 + 1)
        BY <1>3, <2>2, <3>2, SaysMore
      <3> QED
        BY <3>3
    <2> QED
      BY <2>1, <2>2
  <1>4. ASSUME NEW n \in Nat, n < 10000 PROVE Says(Decimal(n), n, 4)
    <2>1. CASE n < 1000
      BY <1>3, <2>1 DEF Says
    <2>2. CASE 1000 <= n
      <3>1. n \div 10 \in Nat /\ n \div 10 < 1000
        BY <1>4
      <3>2. Says(Decimal(n \div 10), n \div 10, 3)
        BY <1>3, <3>1
      <3>3. Says(Decimal(n), n, 3 + 1)
        BY <1>4, <2>2, <3>2, SaysMore
      <3> QED
        BY <3>3
    <2> QED
      BY <2>1, <2>2
  <1>5. ASSUME NEW n \in Nat, n < 100000 PROVE Says(Decimal(n), n, 5)
    <2>1. CASE n < 10000
      BY <1>4, <2>1 DEF Says
    <2>2. CASE 10000 <= n
      <3>1. n \div 10 \in Nat /\ n \div 10 < 10000
        BY <1>5
      <3>2. Says(Decimal(n \div 10), n \div 10, 4)
        BY <1>4, <3>1
      <3>3. Says(Decimal(n), n, 4 + 1)
        BY <1>5, <2>2, <3>2, SaysMore
      <3> QED
        BY <3>3
    <2> QED
      BY <2>1, <2>2
  <1> QED
    BY <1>3, <1>5 DEF MaxPort
-----------------------------------------------------------------------------
(***************************************************************************)
(* What tor writes is read as what it means.                               *)
(***************************************************************************)

\* Digits are one character each, and no other symbols are shorter.
LEMMA SizeFacts ==
  /\ \A s \in Seq(Digit) : Size(s) = Len(s)
  /\ \A s \in Text : Size(s) \in Nat /\ Len(s) <= Size(s)
  <1>1. ASSUME NEW s \in Seq(Digit) PROVE Size(s) = Len(s)
    <2>1. Len(s) \in Nat /\ DOMAIN s = 1 .. Len(s) /\ \A i \in 1 .. Len(s) : s[i] \in Digit
      BY LenProperties, ElementOfSeq
    <2>2. {i \in DOMAIN s : s[i] \in Words} = {}
      BY <2>1, DigitFacts
    <2>3. Cardinality({i \in DOMAIN s : s[i] \in Words}) = 0
      BY <2>2, FS_EmptySet
    <2> QED
      BY <2>1, <2>3 DEF Size
  <1>2. ASSUME NEW s \in Text PROVE Size(s) \in Nat /\ Len(s) <= Size(s)
    <2> DEFINE W == {i \in DOMAIN s : s[i] \in Words}
    <2>1. Len(s) \in Nat /\ DOMAIN s = 1 .. Len(s)
      BY LenProperties DEF Text
    <2>2. IsFiniteSet(1 .. Len(s))
      BY <2>1, FS_Interval
    <2>3. W \subseteq 1 .. Len(s)
      BY <2>1
    <2>4. Size(s) = Len(s) + 5 * Cardinality(W)
      BY DEF Size
    <2> HIDE DEF W
    <2>5. IsFiniteSet(W)
      BY <2>2, <2>3, FS_Subset
    <2>6. Cardinality(W) \in Nat
      BY <2>5, FS_CardinalityType
    <2> QED
      BY <2>1, <2>4, <2>6
  <1> QED
    BY <1>1, <1>2

LEMMA ParseDecimal ==
  ASSUME NEW s, NEW n, NEW most \in Nat, Says(s, n, most)
  PROVE  ParseDigits(s, most) = Answer("OK", n)
  <1>1. s \in Seq(Digit) /\ Len(s) <= most /\ Atoi(s) = n
    BY DEF Says
  <1>2. Len(s) \in Nat /\ DOMAIN s = 1 .. Len(s) /\ \A i \in 1 .. Len(s) : s[i] \in Digit
    BY <1>1, LenProperties, ElementOfSeq
  <1>3. ~(Size(s) > most)
    BY <1>1, <1>2, SizeFacts
  <1>4. ~(\E i \in DOMAIN s : ~IsDigit(s[i]))
    BY <1>2, DigitFacts
  <1> QED
    BY <1>1, <1>3, <1>4 DEF ParseDigits

\* Texts of one symbol.
LEMMA OneFacts ==
  ASSUME NEW S, NEW w \in S
  PROVE  <<w>> \in Seq(S) /\ Len(<<w>>) = 1 /\ <<w>>[1] = w /\ <<w>> # <<>>
  OBVIOUS

LEMMA WordFacts ==
  /\ \A w \in Words : w \in Alphabet /\ w # Space /\ <<w>> \in Token
  /\ "=" \in Alphabet
  <1>1. ASSUME NEW w \in Words PROVE w \in Alphabet /\ w # Space
    <2>1. w \in Alphabet
      BY DEF Alphabet
    <2>2. w # Space
      BY Zenon DEF Words, Space
    <2> QED
      BY <2>1, <2>2
  <1>2. ASSUME NEW w \in Words PROVE <<w>> \in Token
    <2>1. PICK t : t = <<w>>
      OBVIOUS
    <2>2. t \in Seq(Alphabet) /\ Len(t) = 1 /\ t[1] = w /\ t # <<>>
      BY <1>1, <2>1, OneFacts
    <2>3. DOMAIN t = 1 .. 1
      BY <2>2, LenProperties
    <2>4. \A i \in DOMAIN t : t[i] # Space
      BY <1>1, <2>2, <2>3
    <2> QED
      BY <2>1, <2>2, <2>4 DEF Token
  <1>3. "=" \in Alphabet
    BY DEF Alphabet
  <1> QED
    BY <1>1, <1>2, <1>3

\* A word and digits.
LEMMA WordAndDigits ==
  ASSUME NEW w \in Words, NEW s \in Seq(Digit)
  PROVE  /\ <<w>> \o s \in Token
         /\ StartsWith(<<w>> \o s, w)
         /\ Tail(<<w>> \o s) = s
  <1> DEFINE v == <<w>>
             t == v \o s
  <1>1. v \in Seq(Alphabet) /\ Len(v) = 1 /\ v[1] = w
    BY WordFacts, OneFacts
  <1>2. /\ s \in Seq(Alphabet) /\ Len(s) \in Nat
        /\ \A i \in 1 .. Len(s) : s[i] # Space
    <2>1. Digit \subseteq Alphabet /\ \A c \in Digit : c # Space
      BY DigitFacts
    <2>2. Len(s) \in Nat /\ \A i \in 1 .. Len(s) : s[i] \in Digit
      BY LenProperties, ElementOfSeq
    <2>3. s \in Seq(Alphabet)
      BY <2>1
    <2> QED
      BY <2>1, <2>2, <2>3
  <1> HIDE DEF v
  <1>3. t \in Seq(Alphabet) /\ Len(t) = 1 + Len(s)
    <2>1. v \in Seq(Alphabet) /\ s \in Seq(Alphabet)
      BY <1>1, <1>2
    <2>2. t \in Seq(Alphabet) /\ Len(t) = Len(v) + Len(s)
      BY ONLY <2>1, ConcatProperties
    <2> QED
      BY <1>1, <2>2
  <1>4. t[1] = w /\ \A i \in 2 .. Len(t) : t[i] = s[i - 1]
    <2>1. \A i \in 1 .. Len(v) + Len(s) : t[i] = IF i <= Len(v) THEN v[i] ELSE s[i - Len(v)]
      BY <1>1, <1>2, ConcatProperties
    <2> HIDE DEF t
    <2>2. t[1] = w
      BY <1>1, <1>2, <2>1
    <2>3. \A i \in 2 .. Len(t) : t[i] = s[i - 1]
      BY <1>1, <1>2, <1>3, <2>1
    <2> QED
      BY <2>2, <2>3
  <1> HIDE DEF t
  <1>5. t # <<>> /\ DOMAIN t = 1 .. Len(t)
    <2>1. Len(t) # 0
      BY <1>2, <1>3
    <2> QED
      BY <1>3, <2>1, LenProperties, EmptySeq
  <1>6. \A i \in DOMAIN t : t[i] # Space
    <2>1. ASSUME NEW i \in 2 .. Len(t) PROVE t[i] # Space
      <3>1. i - 1 \in 1 .. Len(s)
        BY <1>2, <1>3
      <3> QED
        BY <1>2, <1>4, <3>1
    <2>2. \A i \in 1 .. Len(t) : i = 1 \/ i \in 2 .. Len(t)
      BY <1>2, <1>3
    <2>3. w # Space
      BY WordFacts
    <2> QED
      BY <1>4, <1>5, <2>1, <2>2, <2>3
  <1>7. t \in Token
    BY <1>3, <1>5, <1>6 DEF Token
  <1>8. Head(t) = t[1]
    BY <1>3, <1>5, HeadTailProperties
  <1>9. Tail(t) = s
    <2>1. /\ Tail(t) \in Seq(Alphabet) /\ Len(Tail(t)) = Len(s)
          /\ \A i \in 1 .. Len(s) : Tail(t)[i] = t[i + 1]
      <3>1. PICK u : u = Tail(t)
        OBVIOUS
      <3>2. u \in Seq(Alphabet) /\ Len(u) = Len(t) - 1 /\ \A i \in 1 .. Len(u) : u[i] = t[i + 1]
        BY <1>3, <1>5, <3>1, HeadTailProperties
      <3>3. Len(u) = Len(s)
        BY <1>2, <1>3, <3>2
      <3> QED
        BY <3>1, <3>2, <3>3
    <2>2. ASSUME NEW i \in 1 .. Len(s) PROVE Tail(t)[i] = s[i]
      <3>1. i + 1 \in 2 .. Len(t) /\ (i + 1) - 1 = i
        BY <1>2, <1>3
      <3>2. t[i + 1] = s[(i + 1) - 1]
        BY <1>4, <3>1
      <3> QED
        BY <2>1, <3>1, <3>2
    <2> QED
      BY <1>2, <2>1, <2>2, SeqEqual
  <1>10. StartsWith(t, w)
    BY <1>4, <1>5, <1>8 DEF StartsWith
  <1> QED
    BY <1>7, <1>9, <1>10 DEF t, v

\* Three tokens and others behind them.
LEMMA ThreeAndTail ==
  ASSUME NEW S, NEW a \in S, NEW b \in S, NEW c \in S, NEW tail \in Seq(S),
         NEW vec, vec = <<a, b, c>> \o tail
  PROVE  /\ vec \in Seq(S) /\ Len(vec) \in Nat /\ Len(vec) >= 3
         /\ vec[1] = a /\ vec[2] = b /\ vec[3] = c
         /\ SubSeq(vec, 4, Len(vec)) = tail
  <1>1. PICK v : v = <<a, b, c>>
    OBVIOUS
  <1>2. v \in Seq(S) /\ Len(v) = 3 /\ v[1] = a /\ v[2] = b /\ v[3] = c
    BY <1>1
  <1>3. /\ vec \in Seq(S) /\ Len(vec) = 3 + Len(tail) /\ Len(tail) \in Nat
        /\ \A i \in 1 .. Len(v) + Len(tail) :
             vec[i] = IF i <= Len(v) THEN v[i] ELSE tail[i - Len(v)]
    <2>1. v \in Seq(S) /\ vec = v \o tail
      BY <1>1, <1>2
    <2>2. vec \in Seq(S) /\ Len(vec) = Len(v) + Len(tail) /\ Len(tail) \in Nat
      BY <2>1, ConcatProperties, LenProperties
    <2>3. \A i \in 1 .. Len(v) + Len(tail) :
            vec[i] = IF i <= Len(v) THEN v[i] ELSE tail[i - Len(v)]
      BY <2>1, ConcatProperties
    <2> QED
      BY <1>2, <2>2, <2>3
  <1>4. vec[1] = a /\ vec[2] = b /\ vec[3] = c
    BY <1>2, <1>3
  <1>5. SubSeq(vec, 4, Len(vec)) = tail
    <2>1. PICK u, n : u = SubSeq(vec, 4, Len(vec)) /\ n = Len(vec)
      OBVIOUS
    <2>2. n = 3 + Len(tail) /\ n \in Nat
      BY <1>3, <2>1
    <2>3. \A i \in 4 .. n : vec[i] \in S
      BY <1>3, <2>1, ElementOfSeq
    <2>4. /\ u \in Seq(S) /\ Len(u) = IF 4 <= n THEN n - 4 + 1 ELSE 0
          /\ \A i \in 1 .. n - 4 + 1 : u[i] = vec[4 + i - 1]
      BY <2>1, <2>2, <2>3, SubSeqProperties
    <2>5. Len(u) = Len(tail)
      BY <1>3, <2>2, <2>4
    <2>6. ASSUME NEW i \in 1 .. Len(tail) PROVE u[i] = tail[i]
      <3>1. /\ i \in 1 .. n - 4 + 1 /\ 4 + i - 1 = 3 + i
            /\ 3 + i \in 1 .. 3 + Len(tail) /\ ~(3 + i <= 3) /\ (3 + i) - 3 = i
        BY <1>3, <2>2
      <3>2. vec[3 + i] = tail[i]
        BY <1>2, <1>3, <3>1
      <3> QED
        BY <2>4, <3>1, <3>2
    <2>7. u = tail
      BY <2>4, <2>5, <2>6, SeqEqual
    <2> QED
      BY <2>1, <2>7
  <1> QED
    BY <1>3, <1>4, <1>5

LEMMA PhaseRead ==
  ASSUME NEW n \in 0 .. 100, NEW tail \in Tails, NEW k \in {1, 2},
         NEW s, s = Spaced(BootstrapPhase(n, tail), k)
  PROVE  s \in Text /\ ParseBootstrapProgress(s) = Answer("OK", n)
  <1>1. PICK a, b, c, d, vec :
          /\ a = <<"NOTICE">> /\ b = <<"BOOTSTRAP">> /\ c = <<"PROGRESS=">> \o d
          /\ d = Decimal(n) /\ vec = BootstrapPhase(n, tail)
    OBVIOUS
  <1>2. Says(d, n, 3)
    BY <1>1, DecimalSays
  <1>3. d \in Seq(Digit)
    BY <1>2 DEF Says
  <1>4. "NOTICE" \in Words /\ "BOOTSTRAP" \in Words /\ "PROGRESS=" \in Words
    BY DEF Words
  <1>5. a \in Token /\ b \in Token
    BY <1>1, <1>4, WordFacts
  <1>6. c \in Token /\ StartsWith(c, "PROGRESS=") /\ Tail(c) = d
    BY <1>1, <1>3, <1>4, WordAndDigits
  <1>7. tail \in Seq(Token)
    BY TailsAssumption
  <1>8. vec = <<a, b, c>> \o tail
    BY <1>1 DEF BootstrapPhase
  <1>9. /\ vec \in Seq(Token) /\ Len(vec) \in Nat /\ Len(vec) >= 3
        /\ vec[1] = a /\ vec[2] = b /\ vec[3] = c
    BY ONLY <1>5, <1>6, <1>7, <1>8, ThreeAndTail
  <1>10. s = Spaced(vec, k)
    BY <1>1
  <1>11. s \in Text /\ Tokenize(s) = vec
    BY ONLY <1>9, <1>10, k \in {1, 2}, TokenizeSpaced
  <1>12. ParseDigits(d, 3) = Answer("OK", n)
    BY <1>2, ParseDecimal
  <1>13. ~(Len(vec) < 3)
    BY <1>9
  <1>14. ParseBootstrapProgress(s) = ParseDigits(d, 3)
    BY <1>1, <1>6, <1>9, <1>11, <1>13, Zenon DEF ParseBootstrapProgress
  <1> QED
    BY <1>11, <1>12, <1>14

\* A line of getconf_int that has a number.
LEMMA GetconfDigits ==
  ASSUME NEW s, NEW name, NEW default, NEW d,
         StartsWith(s, name), s # <<name>>, s[2] \notin Words, SubSeq(s, 3, Len(s)) = d
  PROVE  GetconfInt("OK", Space, s, name, default) = ParseDigits(d, 5)
  <1>1. GetconfInt("OK", Space, s, name, default) = ParseDigits(SubSeq(s, 3, Len(s)), 5)
    BY SMT DEF GetconfInt
  <1>2. PICK u : u = SubSeq(s, 3, Len(s))
    OBVIOUS
  <1>3. u = d
    BY <1>2
  <1> QED
    BY ONLY <1>1, <1>2, <1>3

\* The line of a port.
PortText(n) == <<"SocksPort", "=">> \o Decimal(n)

LEMMA PortRead ==
  ASSUME NEW n \in Ports, NEW s, s = PortText(n)
  PROVE  s \in Text /\ GetconfInt("OK", Space, s, "SocksPort", 9050) = Answer("OK", n)
  <1>1. n \in Nat /\ n <= MaxPort
    <2>1. MaxPort \in Nat
      BY DEF MaxPort
    <2> QED
      BY <2>1, PortsAssumption
  <1>2. PICK d, v : d = Decimal(n) /\ v = <<"SocksPort", "=">>
    OBVIOUS
  <1>3. Says(d, n, 5)
    BY <1>1, <1>2, DecimalSays
  <1>4. d \in Seq(Digit) /\ d # <<>>
    BY <1>3 DEF Says
  <1>5. d \in Seq(Alphabet) /\ Len(d) \in Nat /\ Len(d) # 0
    <2>1. Digit \subseteq Alphabet
      BY DigitFacts
    <2> QED
      BY <1>4, <2>1, LenProperties, EmptySeq
  <1>6. v \in Seq(Alphabet) /\ Len(v) = 2 /\ v[1] = "SocksPort" /\ v[2] = "="
    <2>1. "SocksPort" \in Alphabet /\ "=" \in Alphabet
      BY WordFacts DEF Words
    <2> QED
      BY <1>2, <2>1
  <1>7. s = v \o d
    BY <1>2 DEF PortText
  <1>8. /\ s \in Seq(Alphabet) /\ Len(s) = 2 + Len(d)
        /\ \A i \in 1 .. Len(v) + Len(d) : s[i] = IF i <= Len(v) THEN v[i] ELSE d[i - Len(v)]
    <2>1. v \in Seq(Alphabet) /\ d \in Seq(Alphabet)
      BY <1>5, <1>6
    <2>2. s \in Seq(Alphabet) /\ Len(s) = Len(v) + Len(d)
      BY ONLY <1>7, <2>1, ConcatProperties
    <2>3. \A i \in 1 .. Len(v) + Len(d) : s[i] = IF i <= Len(v) THEN v[i] ELSE d[i - Len(v)]
      BY ONLY <1>7, <2>1, ConcatProperties
    <2> QED
      BY <1>6, <2>2, <2>3
  <1>9. s[1] = "SocksPort" /\ \A i \in 1 .. Len(d) : s[2 + i] = d[i]
    <2>1. s[1] = "SocksPort"
      BY <1>5, <1>6, <1>8
    <2>2. ASSUME NEW i \in 1 .. Len(d) PROVE s[2 + i] = d[i]
      <3>1. 2 + i \in 1 .. 2 + Len(d) /\ ~(2 + i <= 2) /\ (2 + i) - 2 = i
        BY <1>5
      <3> QED
        BY <1>6, <1>8, <3>1
    <2> QED
      BY <2>1, <2>2
  <1>16. s[2] \notin Words
    <2>1. s[2] = "="
      BY <1>5, <1>6, <1>8
    <2> QED
      BY <2>1 DEF Words
  <1>10. s # <<>> /\ Head(s) = s[1]
    <2>1. Len(s) # 0
      BY <1>5, <1>8
    <2>2. s # <<>>
      BY <2>1, EmptySeq
    <2> QED
      BY <1>8, <2>2, HeadTailProperties
  <1>11. StartsWith(s, "SocksPort")
    BY <1>9, <1>10 DEF StartsWith
  <1>12. s # <<"SocksPort">>
    <2>1. Len(<<"SocksPort">>) = 1
      OBVIOUS
    <2>2. Len(s) # 1
      BY <1>5, <1>8
    <2> QED
      BY <2>1, <2>2
  <1>13. SubSeq(s, 3, Len(s)) = d
    <2>1. PICK u, m : u = SubSeq(s, 3, Len(s)) /\ m = Len(s)
      OBVIOUS
    <2>2. m = 2 + Len(d) /\ m \in Nat
      BY <1>5, <1>8, <2>1
    <2>3. \A i \in 3 .. m : s[i] \in Alphabet
      BY <1>8, <2>1, ElementOfSeq
    <2>4. /\ u \in Seq(Alphabet) /\ Len(u) = IF 3 <= m THEN m - 3 + 1 ELSE 0
          /\ \A i \in 1 .. m - 3 + 1 : u[i] = s[3 + i - 1]
      BY <2>1, <2>2, <2>3, SubSeqProperties
    <2>5. Len(u) = Len(d)
      BY <1>5, <2>2, <2>4
    <2>6. ASSUME NEW i \in 1 .. Len(d) PROVE u[i] = d[i]
      <3>1. i \in 1 .. m - 3 + 1 /\ 3 + i - 1 = 2 + i
        BY <1>5, <2>2
      <3> QED
        BY <1>9, <2>4, <3>1
    <2>7. u = d
      BY <1>5, <2>4, <2>5, <2>6, SeqEqual
    <2> QED
      BY <2>1, <2>7
  <1>14. ParseDigits(d, 5) = Answer("OK", n)
    BY <1>3, ParseDecimal
  <1>15. GetconfInt("OK", Space, s, "SocksPort", 9050) = ParseDigits(d, 5)
    BY ONLY <1>11, <1>12, <1>13, <1>16, GetconfDigits
  <1> QED
    BY <1>8, <1>14, <1>15 DEF Text

LEMMA EventRead ==
  ASSUME NEW tail \in Tails, NEW k \in {1, 2}, NEW s,
         s = Spaced(ClientEvent(<<"NOTICE">>, <<"BOOTSTRAP">>, tail), k)
  PROVE  /\ s \in Text
         /\ ClientStatus("ASYNC", s) = Client("ASYNC", <<"NOTICE">>, <<"BOOTSTRAP">>, tail)
  <1>1. PICK a, b, c, vec :
          /\ a = <<"STATUS_CLIENT">> /\ b = <<"NOTICE">> /\ c = <<"BOOTSTRAP">>
          /\ vec = ClientEvent(b, c, tail)
    OBVIOUS
  <1>2. "NOTICE" \in Words /\ "BOOTSTRAP" \in Words /\ "STATUS_CLIENT" \in Words
    BY DEF Words
  <1>3. a \in Token /\ b \in Token /\ c \in Token
    BY <1>1, <1>2, WordFacts
  <1>4. tail \in Seq(Token)
    BY TailsAssumption
  <1>5. vec = <<a, b, c>> \o tail
    BY <1>1 DEF ClientEvent
  <1>6. /\ vec \in Seq(Token) /\ Len(vec) \in Nat /\ Len(vec) >= 3
        /\ vec[1] = a /\ vec[2] = b /\ vec[3] = c
        /\ SubSeq(vec, 4, Len(vec)) = tail
    BY ONLY <1>3, <1>4, <1>5, ThreeAndTail
  <1>7. s = Spaced(vec, k)
    BY <1>1
  <1>8. s \in Text /\ Tokenize(s) = vec
    BY ONLY <1>6, <1>7, k \in {1, 2}, TokenizeSpaced
  <1>9. ~(Len(vec) < 3)
    BY <1>6
  <1>10. ClientStatus("ASYNC", s) = Client("ASYNC", b, c, tail)
    BY <1>1, <1>6, <1>8, <1>9, Zenon DEF ClientStatus
  <1> QED
    BY <1>1, <1>8, <1>10
-----------------------------------------------------------------------------
(***************************************************************************)
(* Only a bootstrap that says 100 is taken for done.                       *)
(***************************************************************************)

\* What a phase of 100 says of the tokens.
LEMMA HundredTokens ==
  ASSUME NEW s, ParseBootstrapProgress(s) = Answer("OK", 100),
         NEW vec, vec = Tokenize(s), Len(vec) \in Nat
  PROVE  /\ Len(vec) >= 3
         /\ vec[1] = <<"NOTICE">> /\ vec[2] = <<"BOOTSTRAP">>
         /\ StartsWith(vec[3], "PROGRESS=")
         /\ ParseDigits(Tail(vec[3]), 3) = Answer("OK", 100)
  <1>1. \A status : Answer(status, 0) # Answer("OK", 100)
    <2>1. ASSUME NEW status, Answer(status, 0) = Answer("OK", 100) PROVE FALSE
      <3>1. Answer(status, 0).value = 0 /\ Answer("OK", 100).value = 100
        BY DEF Answer
      <3> QED
        BY <2>1, <3>1
    <2> QED
      BY <2>1
  <1>2. /\ ~(Len(vec) < 3)
        /\ vec[1] = <<"NOTICE">> /\ vec[2] = <<"BOOTSTRAP">>
        /\ StartsWith(vec[3], "PROGRESS=")
        /\ ParseDigits(Tail(vec[3]), 3) = Answer("OK", 100)
    BY <1>1, Zenon DEF ParseBootstrapProgress
  <1> QED
    BY <1>2

LEMMA ParsedDigits ==
  ASSUME NEW s \in Text, NEW most \in Nat, NEW n, n # 0,
         ParseDigits(s, most) = Answer("OK", n)
  PROVE  s \in Seq(Digit) /\ Len(s) <= most /\ Atoi(s) = n
  <1>1. \A status : Answer(status, 0) # Answer("OK", n)
    <2>1. ASSUME NEW status, Answer(status, 0) = Answer("OK", n) PROVE FALSE
      <3>1. Answer(status, 0).value = 0 /\ Answer("OK", n).value = n
        BY DEF Answer
      <3> QED
        BY <2>1, <3>1
    <2> QED
      BY <2>1
  <1>2. /\ ~(Size(s) > most) /\ ~(\E i \in DOMAIN s : ~IsDigit(s[i]))
        /\ Answer("OK", Atoi(s)) = Answer("OK", n)
    BY <1>1, Zenon DEF ParseDigits
  <1>3. Atoi(s) = n
    <2>1. Answer("OK", Atoi(s)).value = Atoi(s) /\ Answer("OK", n).value = n
      BY DEF Answer
    <2> QED
      BY <1>2, <2>1
  <1>4. s \in Seq(Digit)
    <2>1. /\ DOMAIN s = 1 .. Len(s) /\ Len(s) \in Nat
          /\ s = [i \in 1 .. Len(s) |-> s[i]]
      BY LenProperties DEF Text
    <2>2. \A i \in 1 .. Len(s) : s[i] \in Digit
      BY <1>2, <2>1, DigitFacts
    <2> QED
      BY <2>1, <2>2, IsASeq
  <1>5. Size(s) = Len(s) /\ Len(s) \in Nat
    BY <1>4, SizeFacts, LenProperties
  <1> QED
    BY <1>2, <1>3, <1>4, <1>5

\* The last digit of 100, of 10 and of 1, and the others.
LEMMA LastDigits ==
  ASSUME NEW x \in Nat, NEW y \in 0 .. 9
  PROVE  /\ 100 = 10 * x + y => x = 10 /\ y = 0
         /\ 10 = 10 * x + y => x = 1 /\ y = 0
         /\ 1 = 10 * x + y => x = 0 /\ y = 1
  OBVIOUS

\* Three digits at most that say 100 are 1, 0 and 0.
LEMMA HundredDigits ==
  ASSUME NEW s \in Seq(Digit), Len(s) <= 3, Atoi(s) = 100
  PROVE  s = <<"1", "0", "0">>
  <1>1. Len(s) \in Nat
    BY LenProperties
  <1>2. ASSUME NEW u \in Seq(Digit), u # <<>>
        PROVE  \E r \in Seq(Digit), c \in Digit :
                 /\ u = Append(r, c) /\ Len(u) = Len(r) + 1 /\ Len(r) \in Nat
                 /\ Atoi(r) \in Nat /\ DigitOf(c) \in 0 .. 9
                 /\ Atoi(u) = 10 * Atoi(r) + DigitOf(c)
    <2>1. PICK r \in Seq(Digit), c \in Digit : u = Append(r, c)
      BY <1>2, SequenceEmptyOrAppend
    <2>2. Len(u) = Len(r) + 1 /\ Len(r) \in Nat
      BY <2>1, AppendProperties, LenProperties
    <2>3. /\ Atoi(r) \in Nat /\ DigitOf(c) \in 0 .. 9
          /\ Atoi(u) = 10 * Atoi(r) + DigitOf(c)
      BY <2>1, AtoiFacts, DigitFacts
    <2> QED
      BY <2>1, <2>2, <2>3
  <1>3. Atoi(<<>>) = 0
    BY AtoiFacts
  <1>4. s # <<>>
    BY <1>3
  <1>5. PICK r \in Seq(Digit), c \in Digit :
          /\ s = Append(r, c) /\ Len(s) = Len(r) + 1 /\ Len(r) \in Nat
          /\ Atoi(r) \in Nat /\ DigitOf(c) \in 0 .. 9
          /\ Atoi(s) = 10 * Atoi(r) + DigitOf(c)
    BY <1>2, <1>4
  <1>6. Atoi(r) = 10 /\ DigitOf(c) = 0
    <2>1. 100 = 10 * Atoi(r) + DigitOf(c)
      BY <1>5
    <2> QED
      BY <1>5, <2>1, LastDigits
  <1>7. r # <<>>
    BY <1>3, <1>6
  <1>8. PICK q \in Seq(Digit), b \in Digit :
          /\ r = Append(q, b) /\ Len(r) = Len(q) + 1 /\ Len(q) \in Nat
          /\ Atoi(q) \in Nat /\ DigitOf(b) \in 0 .. 9
          /\ Atoi(r) = 10 * Atoi(q) + DigitOf(b)
    BY <1>2, <1>7
  <1>9. Atoi(q) = 1 /\ DigitOf(b) = 0
    <2>1. 10 = 10 * Atoi(q) + DigitOf(b)
      BY <1>6, <1>8
    <2> QED
      BY <1>8, <2>1, LastDigits
  <1>10. q # <<>>
    BY <1>3, <1>9
  <1>11. PICK p \in Seq(Digit), a \in Digit :
           /\ q = Append(p, a) /\ Len(q) = Len(p) + 1 /\ Len(p) \in Nat
           /\ Atoi(p) \in Nat /\ DigitOf(a) \in 0 .. 9
           /\ Atoi(q) = 10 * Atoi(p) + DigitOf(a)
    BY <1>2, <1>10
  <1>12. Atoi(p) = 0 /\ DigitOf(a) = 1
    <2>1. 1 = 10 * Atoi(p) + DigitOf(a)
      BY <1>9, <1>11
    <2> QED
      BY <1>11, <2>1, LastDigits
  <1>13. Len(s) = 3 /\ Len(r) = 2 /\ Len(q) = 1
    BY <1>5, <1>8, <1>11
  <1>14. a = "1" /\ b = "0" /\ c = "0"
    <2>1. /\ a = Digits[DigitOf(a) + 1] /\ b = Digits[DigitOf(b) + 1]
          /\ c = Digits[DigitOf(c) + 1]
      BY DigitFacts
    <2>2. a = Digits[1 + 1] /\ b = Digits[0 + 1] /\ c = Digits[0 + 1]
      BY <1>6, <1>9, <1>12, <2>1
    <2> QED
      BY <2>2 DEF Digits
  <1>15. s[3] = c /\ s[2] = b /\ s[1] = a
    <2>1. /\ s[Len(r) + 1] = c /\ \A i \in 1 .. Len(r) : s[i] = r[i]
      BY <1>5, AppendProperties
    <2>2. /\ r[Len(q) + 1] = b /\ \A i \in 1 .. Len(q) : r[i] = q[i]
      BY <1>8, AppendProperties
    <2>3. q[Len(p) + 1] = a /\ Len(p) = 0
      BY <1>11, <1>13, AppendProperties
    <2> QED
      BY <1>13, <2>1, <2>2, <2>3
  <1>16. s = <<s[1], s[2], s[3]>>
    BY <1>13
  <1> QED
    BY <1>14, <1>15, <1>16

\* The tokens of a text are texts.
LEMMA TokensTyped ==
  ASSUME NEW s \in Text
  PROVE  Tokenize(s) \in Seq(Text) /\ Len(Tokenize(s)) \in Nat
  <1>1. Tokenized(s) \in Progress(Alphabet)
    BY TokenizedFacts DEF Text
  <1>2. PICK a : a = Flush(Tokenized(s))
    OBVIOUS
  <1>3. a \in Progress(Alphabet)
    <2>1. PICK c \in Alphabet : c = Space
      BY DEF Alphabet
    <2> QED
      BY <1>1, <1>2, <2>1, ProgressFacts
  <1>4. a.tokens \in Seq(Text)
    BY <1>3 DEF Progress, Text
  <1> QED
    BY <1>2, <1>4, LenProperties DEF Tokenize

\* An element and what is behind it.
LEMMA HeadAndTail ==
  ASSUME NEW S, NEW t \in Seq(S), NEW e, t # <<>>, Head(t) = e, NEW u, Tail(t) = u
  PROVE  /\ u \in Seq(S) /\ Len(t) = Len(u) + 1 /\ Len(u) \in Nat
         /\ t[1] = e /\ \A i \in 1 .. Len(u) : t[i + 1] = u[i]
  <1>1. /\ u \in Seq(S) /\ Len(u) = Len(t) - 1 /\ t[1] = e
        /\ \A i \in 1 .. Len(u) : u[i] = t[i + 1]
    BY HeadTailProperties
  <1>2. Len(t) \in Nat /\ Len(u) \in Nat
    BY <1>1, LenProperties
  <1> QED
    BY <1>1, <1>2

LEMMA HundredRead ==
  ASSUME NEW s \in Text, ParseBootstrapProgress(s) = Answer("OK", 100),
         NEW vec, vec = Tokenize(s)
  PROVE  /\ Len(vec) >= 3
         /\ SubSeq(vec, 1, 3)
              = <<<<"NOTICE">>, <<"BOOTSTRAP">>, <<"PROGRESS=", "1", "0", "0">>>>
  <1>1. vec \in Seq(Text) /\ Len(vec) \in Nat
    BY TokensTyped
  <1>2. PICK t, d : t = vec[3] /\ d = Tail(t)
    OBVIOUS
  <1>3. /\ Len(vec) >= 3
        /\ vec[1] = <<"NOTICE">> /\ vec[2] = <<"BOOTSTRAP">>
        /\ StartsWith(t, "PROGRESS=")
        /\ ParseDigits(d, 3) = Answer("OK", 100)
    BY <1>1, <1>2, HundredTokens
  <1>4. t \in Text /\ t # <<>> /\ Head(t) = "PROGRESS="
    <2>1. 3 \in 1 .. Len(vec)
      BY <1>1, <1>3
    <2>2. t \in Text
      BY <1>1, <1>2, <2>1, ElementOfSeq
    <2> QED
      BY <1>3, <2>2 DEF StartsWith
  <1>5. /\ d \in Seq(Alphabet) /\ Len(t) = Len(d) + 1 /\ Len(d) \in Nat
        /\ t[1] = "PROGRESS=" /\ \A i \in 1 .. Len(d) : t[i + 1] = d[i]
    BY <1>2, <1>4, HeadAndTail DEF Text
  <1>6. d = <<"1", "0", "0">>
    <2>1. d \in Text /\ 3 \in Nat /\ 100 # 0
      BY <1>5 DEF Text
    <2>2. d \in Seq(Digit) /\ Len(d) <= 3 /\ Atoi(d) = 100
      BY <1>3, <2>1, ParsedDigits
    <2> QED
      BY <2>2, HundredDigits
  <1>7. t = <<"PROGRESS=", "1", "0", "0">>
    <2>1. Len(d) = 3 /\ d[1] = "1" /\ d[2] = "0" /\ d[3] = "0"
      BY <1>6
    <2>2. Len(t) = 4 /\ t[1] = "PROGRESS=" /\ t[2] = d[1] /\ t[3] = d[2] /\ t[4] = d[3]
      <3>1. 1 \in 1 .. Len(d) /\ 2 \in 1 .. Len(d) /\ 3 \in 1 .. Len(d)
        BY <2>1
      <3>2. t[1 + 1] = d[1] /\ t[2 + 1] = d[2] /\ t[3 + 1] = d[3]
        BY <1>5, <3>1
      <3> QED
        BY <1>5, <2>1, <3>2
    <2>3. t \in Seq(Alphabet)
      BY <1>4 DEF Text
    <2>4. t = <<t[1], t[2], t[3], t[4]>>
      BY <2>2, <2>3
    <2> QED
      BY <2>1, <2>2, <2>4
  <1>8. SubSeq(vec, 1, 3) = <<vec[1], vec[2], vec[3]>>
    <2>1. PICK u : u = SubSeq(vec, 1, 3)
      OBVIOUS
    <2>2. \A i \in 1 .. 3 : vec[i] \in Text
      BY <1>1, <1>3, ElementOfSeq
    <2>3. /\ u \in Seq(Text) /\ Len(u) = IF 1 <= 3 THEN 3 - 1 + 1 ELSE 0
          /\ \A i \in 1 .. 3 - 1 + 1 : u[i] = vec[1 + i - 1]
      BY <2>1, <2>2, SubSeqProperties
    <2>4. Len(u) = 3 /\ u[1] = vec[1] /\ u[2] = vec[2] /\ u[3] = vec[3]
      BY <2>3
    <2>5. u = <<u[1], u[2], u[3]>>
      BY <2>3, <2>4
    <2> QED
      BY <2>1, <2>4, <2>5
  <1> QED
    BY <1>2, <1>3, <1>7, <1>8
-----------------------------------------------------------------------------
(***************************************************************************)
(* The invariant: a text has the symbols of the alphabet, and if tor means *)
(* something by it, it is what tor writes for that.                        *)
(***************************************************************************)

WrittenByTor ==
    /\ text \in Text
    /\ means.what = "phase" =>
         \E n \in 0 .. 100, tail \in Tails, k \in {1, 2} :
           text = Spaced(BootstrapPhase(n, tail), k) /\ means.n = n
    /\ means.what = "port" =>
         \E n \in Ports : text = <<"SocksPort", "=">> \o Decimal(n) /\ means.n = n
    /\ means.what = "event" =>
         \E tail \in Tails, k \in {1, 2} :
           /\ text = Spaced(ClientEvent(<<"NOTICE">>, <<"BOOTSTRAP">>, tail), k)
           /\ means.tail = tail

\* Every text of the specification is written by tor, or means nothing.
LEMMA TextsInvariant == ReplySpec => []WrittenByTor
  <1>1. \A what, n, tail : /\ Meaning(what, n, tail).what = what
                           /\ Meaning(what, n, tail).n = n
                           /\ Meaning(what, n, tail).tail = tail
    BY DEF Meaning
  <1>2. ReplyInit => WrittenByTor
    <2> SUFFICES ASSUME ReplyInit PROVE WrittenByTor
      OBVIOUS
    <2>1. text \in Text
      BY EmptySeq DEF ReplyInit, Text
    <2>2. means.what = "nothing"
      BY <1>1 DEF ReplyInit, NoMeaning
    <2> QED
      BY <2>1, <2>2 DEF WrittenByTor
  <1>3. WrittenByTor /\ [ReplyNext]_replyVars => WrittenByTor'
    <2> SUFFICES ASSUME WrittenByTor, [ReplyNext]_replyVars PROVE WrittenByTor'
      OBVIOUS
    <2>1. ASSUME TorWrites PROVE WrittenByTor'
      <3>1. PICK tail \in Tails, k \in {1, 2} :
              \/ \E n \in 0 .. 100 :
                   /\ text' = Spaced(BootstrapPhase(n, tail), k)
                   /\ means' = Meaning("phase", n, tail)
              \/ \E n \in Ports :
                   /\ text' = <<"SocksPort", "=">> \o Decimal(n)
                   /\ means' = Meaning("port", n, <<>>)
              \/ /\ text' = Spaced(ClientEvent(<<"NOTICE">>, <<"BOOTSTRAP">>, tail), k)
                 /\ means' = Meaning("event", 0, tail)
        BY <2>1 DEF TorWrites
      <3>2. CASE \E n \in 0 .. 100 :
                   /\ text' = Spaced(BootstrapPhase(n, tail), k)
                   /\ means' = Meaning("phase", n, tail)
        <4>1. PICK n \in 0 .. 100 : /\ text' = Spaced(BootstrapPhase(n, tail), k)
                                    /\ means' = Meaning("phase", n, tail)
          BY <3>2
        <4>2. text' \in Text
          BY <4>1, PhaseRead
        <4>3. means'.what = "phase" /\ means'.n = n
          BY <1>1, <4>1
        <4> QED
          BY <4>1, <4>2, <4>3 DEF WrittenByTor
      <3>3. CASE \E n \in Ports :
                   /\ text' = <<"SocksPort", "=">> \o Decimal(n)
                   /\ means' = Meaning("port", n, <<>>)
        <4>1. PICK n \in Ports : /\ text' = <<"SocksPort", "=">> \o Decimal(n)
                                 /\ means' = Meaning("port", n, <<>>)
          BY <3>3
        <4>4. text' = PortText(n)
          BY <4>1 DEF PortText
        <4>2. text' \in Text
          BY <4>4, PortRead
        <4>3. means'.what = "port" /\ means'.n = n
          BY <1>1, <4>1
        <4> QED
          BY <4>1, <4>2, <4>3 DEF WrittenByTor
      <3>4. CASE /\ text' = Spaced(ClientEvent(<<"NOTICE">>, <<"BOOTSTRAP">>, tail), k)
                 /\ means' = Meaning("event", 0, tail)
        <4>1. text' \in Text
          BY <3>4, EventRead
        <4>2. means'.what = "event" /\ means'.tail = tail
          BY <1>1, <3>4
        <4> QED
          BY <3>4, <4>1, <4>2 DEF WrittenByTor
      <3> QED
        BY <3>1, <3>2, <3>3, <3>4
    <2>2. ASSUME TextBegins PROVE WrittenByTor'
      <3>1. text' \in Text
        BY <2>2, BeginningsAssumption DEF TextBegins, Text
      <3>2. means'.what = "nothing"
        BY <1>1, <2>2 DEF TextBegins
      <3> QED
        BY <3>1, <3>2 DEF WrittenByTor
    <2>3. ASSUME TextGrows PROVE WrittenByTor'
      <3>1. PICK sym \in Symbols : text' = Append(text, sym)
        BY <2>3 DEF TextGrows
      <3>2. text \in Seq(Alphabet) /\ sym \in Alphabet
        BY SymbolsAssumption DEF WrittenByTor, Text
      <3>3. text' \in Text
        BY <3>1, <3>2, AppendProperties DEF Text
      <3>4. means'.what = "nothing"
        BY <2>3 DEF TextGrows
      <3> QED
        BY <3>3, <3>4 DEF WrittenByTor
    <2>4. ASSUME UNCHANGED replyVars PROVE WrittenByTor'
      BY <2>4 DEF WrittenByTor, replyVars, Text
    <2> QED
      BY <2>1, <2>2, <2>3, <2>4 DEF ReplyNext
  <1> QED
    BY <1>2, <1>3, PTL DEF ReplySpec

\* In every text the tokens are the runs of symbols, what tor writes is read as
\* what it means, and a phase of 100 is read only where the text says so.
THEOREM RepliesAreRead == ReplySpec => []RepliesRead
  <1>1. WrittenByTor => RepliesRead
    <2> SUFFICES ASSUME WrittenByTor PROVE RepliesRead
      OBVIOUS
    <2>1. PICK s, vec : s = text /\ vec = Tokenize(s)
      OBVIOUS
    <2>2. s \in Text
      BY <2>1 DEF WrittenByTor
    <2>3. /\ Len(vec) = Cardinality(Runs)
          /\ \A run \in Runs :
               vec[Cardinality({r \in Runs : r[1] <= run[1]})] = SubSeq(s, run[1], run[2])
      <3>1. Listed(vec, Runs)
        BY <2>1, <2>2, TokensAreRuns
      <3> QED
        BY <2>1, <3>1 DEF Listed, Place
    <2>4. ASSUME means.what = "phase"
          PROVE  ParseBootstrapProgress(s) = Answer("OK", means.n)
      <3>1. PICK n \in 0 .. 100, tail \in Tails, k \in {1, 2} :
              s = Spaced(BootstrapPhase(n, tail), k) /\ means.n = n
        BY <2>1, <2>4 DEF WrittenByTor
      <3> QED
        BY <3>1, PhaseRead
    <2>5. ASSUME means.what = "port"
          PROVE  GetconfInt("OK", Space, s, "SocksPort", 9050) = Answer("OK", means.n)
      <3>1. PICK n \in Ports : s = <<"SocksPort", "=">> \o Decimal(n) /\ means.n = n
        BY <2>1, <2>5 DEF WrittenByTor
      <3>2. s = PortText(n) /\ means.n = n
        BY <3>1 DEF PortText
      <3> QED
        BY <3>2, PortRead
    <2>6. ASSUME means.what = "event"
          PROVE  ClientStatus("ASYNC", s)
                   = Client("ASYNC", <<"NOTICE">>, <<"BOOTSTRAP">>, means.tail)
      <3>1. PICK tail \in Tails, k \in {1, 2} :
              /\ s = Spaced(ClientEvent(<<"NOTICE">>, <<"BOOTSTRAP">>, tail), k)
              /\ means.tail = tail
        BY <2>1, <2>6 DEF WrittenByTor
      <3> QED
        BY <3>1, EventRead
    <2>7. ASSUME ParseBootstrapProgress(s) = Answer("OK", 100)
          PROVE  /\ Len(vec) >= 3
                 /\ SubSeq(vec, 1, 3)
                      = <<<<"NOTICE">>, <<"BOOTSTRAP">>, <<"PROGRESS=", "1", "0", "0">>>>
      BY <2>1, <2>2, <2>7, HundredRead
    <2> QED
      BY <2>1, <2>3, <2>4, <2>5, <2>6, <2>7 DEF RepliesRead
  <1> QED
    BY <1>1, TextsInvariant, PTL
-----------------------------------------------------------------------------
(***************************************************************************)
(* Orders, as sets of pairs.                                               *)
(***************************************************************************)

Total(less, E) ==
    \A x, y \in E : <<x, y>> \in less \/ <<y, x>> \in less \/ x = y

Transitive(less, E) ==
    \A x, y, z \in E : <<x, y>> \in less /\ <<y, z>> \in less => <<x, z>> \in less

Irreflexive(less, E) == \A x \in E : <<x, x>> \notin less

\* Of two sequences of which elements are ordered, one is lower, or they are the
\* same.
LEMMA LexTotal ==
  ASSUME NEW E, NEW less, Total(less, E), NEW a \in Seq(E), NEW b \in Seq(E)
  PROVE  LexLess(less, a, b) \/ LexLess(less, b, a) \/ a = b
  <1> DEFINE D == {i \in Nat : /\ 1 <= i /\ i <= Len(a) /\ i <= Len(b)
                               /\ (<<a[i], b[i]>> \in less \/ <<b[i], a[i]>> \in less)}
  <1>1. /\ Len(a) \in Nat /\ Len(b) \in Nat
        /\ \A i \in 1 .. Len(a) : a[i] \in E
        /\ \A i \in 1 .. Len(b) : b[i] \in E
    OBVIOUS
  <1>2. CASE D # {}
    <2>1. D \in SUBSET Nat
      OBVIOUS
    <2> HIDE DEF D
    <2>2. PICK i \in D : \A j \in D : i <= j
      BY <1>2, <2>1, LeastElement
    <2>3. /\ i \in Nat /\ 1 <= i /\ i <= Len(a) /\ i <= Len(b)
          /\ (<<a[i], b[i]>> \in less \/ <<b[i], a[i]>> \in less)
      BY DEF D
    <2>4. i \in 1 .. Len(a) /\ i \in 1 .. Len(b) /\ i <= Len(a) + 1 /\ i <= Len(b) + 1
      BY <1>1, <2>3
    <2>5. ASSUME NEW j \in 1 .. i - 1
          PROVE  <<a[j], b[j]>> \notin less /\ <<b[j], a[j]>> \notin less
      <3>1. j \in Nat /\ 1 <= j /\ j <= Len(a) /\ j <= Len(b) /\ ~(i <= j)
        BY <1>1, <2>3
      <3>2. j \notin D
        BY <2>2, <3>1
      <3> QED
        BY <3>1, <3>2 DEF D
    <2>6. CASE <<a[i], b[i]>> \in less
      <3>1. LexLess(less, a, b)
        BY <2>4, <2>5, <2>6 DEF LexLess
      <3> QED
        BY <3>1
    <2>7. CASE <<b[i], a[i]>> \in less
      <3>1. LexLess(less, b, a)
        BY <2>4, <2>5, <2>7 DEF LexLess
      <3> QED
        BY <3>1
    <2> QED
      BY <2>3, <2>6, <2>7
  <1>3. CASE D = {}
    <2>1. ASSUME NEW i \in Nat, 1 <= i, i <= Len(a), i <= Len(b)
          PROVE  <<a[i], b[i]>> \notin less /\ <<b[i], a[i]>> \notin less
      BY <1>3, <2>1
    <2> HIDE DEF D
    <2>2. ASSUME NEW i \in Nat, 1 <= i, i <= Len(a), i <= Len(b)
          PROVE  a[i] = b[i]
      <3>1. a[i] \in E /\ b[i] \in E
        BY <1>1, <2>2
      <3>2. <<a[i], b[i]>> \notin less /\ <<b[i], a[i]>> \notin less
        BY <2>1, <2>2
      <3> QED
        BY <3>1, <3>2 DEF Total
    <2>3. CASE Len(a) < Len(b)
      <3> DEFINE i == Len(a) + 1
      <3>1. i \in 1 .. Len(b) /\ i <= Len(a) + 1 /\ ~(i <= Len(a))
        BY <1>1, <2>3
      <3>2. \A j \in 1 .. i - 1 : j \in Nat /\ 1 <= j /\ j <= Len(a) /\ j <= Len(b)
        BY <1>1, <2>3
      <3>3. \A j \in 1 .. i - 1 : <<a[j], b[j]>> \notin less /\ <<b[j], a[j]>> \notin less
        BY <2>1, <3>2
      <3> HIDE DEF i
      <3>4. LexLess(less, a, b)
        BY <3>1, <3>3 DEF LexLess
      <3> QED
        BY <3>4
    <2>4. CASE Len(b) < Len(a)
      <3> DEFINE i == Len(b) + 1
      <3>1. i \in 1 .. Len(a) /\ i <= Len(b) + 1 /\ ~(i <= Len(b))
        BY <1>1, <2>4
      <3>2. \A j \in 1 .. i - 1 : j \in Nat /\ 1 <= j /\ j <= Len(a) /\ j <= Len(b)
        BY <1>1, <2>4
      <3>3. \A j \in 1 .. i - 1 : <<a[j], b[j]>> \notin less /\ <<b[j], a[j]>> \notin less
        BY <2>1, <3>2
      <3> HIDE DEF i
      <3>4. LexLess(less, b, a)
        BY <3>1, <3>3 DEF LexLess
      <3> QED
        BY <3>4
    <2>5. CASE Len(a) = Len(b)
      <3>1. \A i \in 1 .. Len(a) : a[i] = b[i]
        BY <1>1, <2>2, <2>5
      <3>2. a = b
        BY <2>5, <3>1, SeqEqual
      <3> QED
        BY <3>2
    <2> QED
      BY <1>1, <2>3, <2>4, <2>5
  <1> QED
    BY <1>2, <1>3

\* What stands at the place where a sequence becomes lower than another.
LexAt(less, a, b, i) ==
    /\ i \in Nat /\ 1 <= i /\ i <= Len(b) /\ i <= Len(a) + 1
    /\ \A j \in Nat : 1 <= j /\ j < i => a[j] = b[j] /\ <<a[j], a[j]>> \notin less
    /\ i <= Len(a) => <<a[i], b[i]>> \in less

LEMMA LexPlace ==
  ASSUME NEW E, NEW less, Total(less, E), NEW a \in Seq(E), NEW b \in Seq(E)
  PROVE  LexLess(less, a, b) <=> \E i \in Nat : LexAt(less, a, b, i)
  <1>1. /\ Len(a) \in Nat /\ Len(b) \in Nat
        /\ \A i \in 1 .. Len(a) : a[i] \in E
        /\ \A i \in 1 .. Len(b) : b[i] \in E
    OBVIOUS
  <1>2. ASSUME LexLess(less, a, b)
        PROVE  \E i \in Nat : LexAt(less, a, b, i)
    <2>1. PICK i \in 1 .. Len(b) :
            /\ i <= Len(a) + 1
            /\ \A j \in 1 .. i - 1 : <<a[j], b[j]>> \notin less /\ <<b[j], a[j]>> \notin less
            /\ i <= Len(a) => <<a[i], b[i]>> \in less
      BY <1>2 DEF LexLess
    <2>2. i \in Nat /\ 1 <= i /\ i <= Len(b)
      BY <1>1
    <2>3. ASSUME NEW j \in Nat, 1 <= j, j < i
          PROVE  a[j] = b[j] /\ <<a[j], a[j]>> \notin less
      <3>1. j \in 1 .. i - 1 /\ j \in 1 .. Len(a) /\ j \in 1 .. Len(b)
        BY <1>1, <2>1, <2>2, <2>3
      <3>2. <<a[j], b[j]>> \notin less /\ <<b[j], a[j]>> \notin less
        BY <2>1, <3>1
      <3>3. a[j] = b[j]
        BY <1>1, <3>1, <3>2 DEF Total
      <3> QED
        BY <3>2, <3>3
    <2> QED
      BY <2>1, <2>2, <2>3 DEF LexAt
  <1>3. ASSUME NEW i \in Nat, LexAt(less, a, b, i)
        PROVE  LexLess(less, a, b)
    <2>1. i \in 1 .. Len(b) /\ i <= Len(a) + 1 /\ (i <= Len(a) => <<a[i], b[i]>> \in less)
      BY <1>1, <1>3 DEF LexAt
    <2>2. \A j \in 1 .. i - 1 : j \in Nat /\ 1 <= j /\ j < i
      OBVIOUS
    <2>3. \A j \in 1 .. i - 1 : <<a[j], b[j]>> \notin less /\ <<b[j], a[j]>> \notin less
      BY <1>3, <2>2 DEF LexAt
    <2> QED
      BY <2>1, <2>3 DEF LexLess
  <1> QED
    BY <1>2, <1>3

LEMMA LexTransitive ==
  ASSUME NEW E, NEW less, Total(less, E), Transitive(less, E),
         NEW a \in Seq(E), NEW b \in Seq(E), NEW c \in Seq(E),
         LexLess(less, a, b), LexLess(less, b, c)
  PROVE  LexLess(less, a, c)
  <1>1. /\ Len(a) \in Nat /\ Len(b) \in Nat /\ Len(c) \in Nat
        /\ \A i \in Nat : 1 <= i /\ i <= Len(a) => a[i] \in E
        /\ \A i \in Nat : 1 <= i /\ i <= Len(b) => b[i] \in E
        /\ \A i \in Nat : 1 <= i /\ i <= Len(c) => c[i] \in E
    OBVIOUS
  <1>2. PICK i \in Nat : LexAt(less, a, b, i)
    BY LexPlace
  <1>3. PICK j \in Nat : LexAt(less, b, c, j)
    BY LexPlace
  <1> SUFFICES \E m \in Nat : LexAt(less, a, c, m)
    BY LexPlace
  <1>4. CASE i < j
    <2>1. /\ 1 <= i /\ i <= Len(b) /\ i <= Len(a) + 1
          /\ \A m \in Nat : 1 <= m /\ m < i => a[m] = b[m] /\ <<a[m], a[m]>> \notin less
          /\ i <= Len(a) => <<a[i], b[i]>> \in less
      BY <1>2 DEF LexAt
    <2>2. /\ j <= Len(c) /\ j <= Len(b) + 1
          /\ \A m \in Nat : 1 <= m /\ m < j => b[m] = c[m]
      BY <1>3 DEF LexAt
    <2>3. i <= Len(c) /\ b[i] = c[i]
      BY <1>1, <1>4, <2>1, <2>2
    <2>4. ASSUME NEW m \in Nat, 1 <= m, m < i
          PROVE  a[m] = c[m] /\ <<a[m], a[m]>> \notin less
      <3>1. m < i /\ m < j
        BY <2>4, <1>4
      <3>2. a[m] = b[m] /\ <<a[m], a[m]>> \notin less
        BY <2>1, <2>4, <3>1
      <3>3. b[m] = c[m]
        BY <2>2, <2>4, <3>1
      <3> QED
        BY <3>2, <3>3
    <2>5. LexAt(less, a, c, i)
      BY <2>1, <2>3, <2>4 DEF LexAt
    <2> QED
      BY <2>5
  <1>5. CASE j < i
    <2>1. /\ 1 <= i /\ i <= Len(b) /\ i <= Len(a) + 1
          /\ \A m \in Nat : 1 <= m /\ m < i => a[m] = b[m] /\ <<a[m], a[m]>> \notin less
      BY <1>2 DEF LexAt
    <2>2. /\ 1 <= j /\ j <= Len(c) /\ j <= Len(b) + 1
          /\ \A m \in Nat : 1 <= m /\ m < j => b[m] = c[m]
          /\ j <= Len(b) => <<b[j], c[j]>> \in less
      BY <1>3 DEF LexAt
    <2>3. j <= Len(b) /\ j <= Len(a) + 1
      BY <1>1, <1>5, <2>1
    <2>4. a[j] = b[j] /\ <<b[j], c[j]>> \in less
      BY <1>5, <2>1, <2>2, <2>3
    <2>5. <<a[j], c[j]>> \in less
      BY <2>4
    <2>6. ASSUME NEW m \in Nat, 1 <= m, m < j
          PROVE  a[m] = c[m] /\ <<a[m], a[m]>> \notin less
      <3>1. m < i /\ m < j
        BY <2>6, <1>5
      <3>2. a[m] = b[m] /\ <<a[m], a[m]>> \notin less
        BY <2>1, <2>6, <3>1
      <3>3. b[m] = c[m]
        BY <2>2, <2>6, <3>1
      <3> QED
        BY <3>2, <3>3
    <2>7. LexAt(less, a, c, j)
      BY <2>2, <2>3, <2>5, <2>6 DEF LexAt
    <2> QED
      BY <2>7
  <1>6. CASE i = j
    <2>1. /\ 1 <= i /\ i <= Len(b) /\ i <= Len(a) + 1
          /\ \A m \in Nat : 1 <= m /\ m < i => a[m] = b[m] /\ <<a[m], a[m]>> \notin less
      BY <1>2 DEF LexAt
    <2>2. /\ i <= Len(c)
          /\ \A m \in Nat : 1 <= m /\ m < i => b[m] = c[m]
          /\ i <= Len(b) => <<b[i], c[i]>> \in less
      BY <1>3, <1>6 DEF LexAt
    <2>3. /\ 1 <= i /\ i <= Len(b) /\ i <= Len(c) /\ i <= Len(a) + 1
          /\ <<b[i], c[i]>> \in less
      BY <2>1, <2>2
    <2>4. ASSUME NEW m \in Nat, 1 <= m, m < i
          PROVE  a[m] = c[m] /\ <<a[m], a[m]>> \notin less
      <3>1. m < i /\ m < j
        BY <2>4, <1>6
      <3>2. a[m] = b[m] /\ <<a[m], a[m]>> \notin less
        BY <2>1, <2>4, <3>1
      <3>3. b[m] = c[m]
        BY <2>2, <2>4, <3>1
      <3> QED
        BY <3>2, <3>3
    <2>5. ASSUME i <= Len(a) PROVE <<a[i], c[i]>> \in less
      <3>1. <<a[i], b[i]>> \in less
        BY <1>2, <2>5 DEF LexAt
      <3>2. a[i] \in E /\ b[i] \in E /\ c[i] \in E
        BY <1>1, <2>3, <2>5
      <3> QED
        BY <2>3, <3>1, <3>2 DEF Transitive
    <2>6. LexAt(less, a, c, i)
      BY <2>3, <2>4, <2>5 DEF LexAt
    <2> QED
      BY <2>6
  <1> QED
    BY <1>4, <1>5, <1>6

\* A sequence is not lower than itself if none of its elements is.
LEMMA LexIrreflexive ==
  ASSUME NEW E, NEW less, Irreflexive(less, E), NEW a \in Seq(E)
  PROVE  ~LexLess(less, a, a)
  <1>1. SUFFICES ASSUME LexLess(less, a, a) PROVE FALSE
    OBVIOUS
  <1>2. PICK i \in 1 .. Len(a) : i <= Len(a) => <<a[i], a[i]>> \in less
    BY <1>1 DEF LexLess
  <1>3. Len(a) \in Nat /\ i <= Len(a) /\ a[i] \in E
    OBVIOUS
  <1> QED
    BY <1>2, <1>3 DEF Irreflexive
-----------------------------------------------------------------------------
(***************************************************************************)
(* The order of the entries of a Dict.                                     *)
(***************************************************************************)

\* What the order of pairs says of two pairs.
LEMMA EntryOrderIs ==
  ASSUME NEW less, NEW e \in Object \X Object, NEW f \in Object \X Object
  PROVE  <<e, f>> \in EntryOrder(less) <=>
           \/ <<e[1], f[1]>> \in less
           \/ <<f[1], e[1]>> \notin less /\ <<e[2], f[2]>> \in less
  <1> DEFINE p == <<e, f>>
  <1>1. p \in (Object \X Object) \X (Object \X Object) /\ p[1] = e /\ p[2] = f
    OBVIOUS
  <1> HIDE DEF p
  <1>2. p \in EntryOrder(less) <=>
           \/ <<e[1], f[1]>> \in less
           \/ <<f[1], e[1]>> \notin less /\ <<e[2], f[2]>> \in less
    BY <1>1 DEF EntryOrder
  <1> QED
    BY <1>2 DEF p

LEMMA EntryTotal ==
  ASSUME NEW E \in SUBSET Object, NEW less, Total(less, E)
  PROVE  Total(EntryOrder(less), E \X E)
  <1> SUFFICES ASSUME NEW e \in E \X E, NEW f \in E \X E
               PROVE  \/ <<e, f>> \in EntryOrder(less)
                      \/ <<f, e>> \in EntryOrder(less)
                      \/ e = f
    BY DEF Total
  <1>1. /\ e \in Object \X Object /\ f \in Object \X Object
        /\ e[1] \in E /\ e[2] \in E /\ f[1] \in E /\ f[2] \in E
        /\ e = <<e[1], e[2]>> /\ f = <<f[1], f[2]>>
    OBVIOUS
  <1>2. CASE <<e[1], f[1]>> \in less \/ <<f[1], e[1]>> \in less
    BY <1>1, <1>2, EntryOrderIs
  <1>3. CASE <<e[1], f[1]>> \notin less /\ <<f[1], e[1]>> \notin less
    <2>1. e[1] = f[1]
      BY <1>1, <1>3 DEF Total
    <2>2. <<e[2], f[2]>> \in less \/ <<f[2], e[2]>> \in less \/ e[2] = f[2]
      BY <1>1 DEF Total
    <2>3. e[2] = f[2] => e = f
      BY <1>1, <2>1
    <2> QED
      BY <1>1, <1>3, <2>2, <2>3, EntryOrderIs
  <1> QED
    BY <1>2, <1>3

LEMMA EntryTransitive ==
  ASSUME NEW E \in SUBSET Object, NEW less, Total(less, E), Transitive(less, E)
  PROVE  Transitive(EntryOrder(less), E \X E)
  <1> SUFFICES ASSUME NEW e \in E \X E, NEW f \in E \X E, NEW g \in E \X E,
                      <<e, f>> \in EntryOrder(less), <<f, g>> \in EntryOrder(less)
               PROVE  <<e, g>> \in EntryOrder(less)
    BY DEF Transitive
  <1>1. /\ e \in Object \X Object /\ f \in Object \X Object /\ g \in Object \X Object
        /\ e[1] \in E /\ e[2] \in E /\ f[1] \in E /\ f[2] \in E /\ g[1] \in E /\ g[2] \in E
    OBVIOUS
  <1>2. \/ <<e[1], f[1]>> \in less
        \/ <<f[1], e[1]>> \notin less /\ <<e[2], f[2]>> \in less
    BY <1>1, EntryOrderIs
  <1>3. \/ <<f[1], g[1]>> \in less
        \/ <<g[1], f[1]>> \notin less /\ <<f[2], g[2]>> \in less
    BY <1>1, EntryOrderIs
  <1>4. \/ <<e[1], g[1]>> \in less
        \/ <<g[1], e[1]>> \notin less /\ <<e[2], g[2]>> \in less
    <2>1. <<e[1], f[1]>> \in less \/ e[1] = f[1]
      BY <1>1, <1>2 DEF Total
    <2>2. <<f[1], g[1]>> \in less \/ f[1] = g[1]
      BY <1>1, <1>3 DEF Total
    <2>3. CASE <<e[1], f[1]>> \in less
      BY <1>1, <2>2, <2>3 DEF Transitive
    <2>4. CASE <<e[1], f[1]>> \notin less /\ <<f[1], g[1]>> \in less
      BY <2>1, <2>4
    <2>5. CASE <<e[1], f[1]>> \notin less /\ <<f[1], g[1]>> \notin less
      <3>1. <<g[1], e[1]>> \notin less /\ <<e[2], f[2]>> \in less /\ <<f[2], g[2]>> \in less
        BY <1>2, <1>3, <2>1, <2>2, <2>5
      <3> QED
        BY <1>1, <3>1 DEF Transitive
    <2> QED
      BY <2>3, <2>4, <2>5
  <1> QED
    BY <1>1, <1>4, EntryOrderIs

LEMMA EntryIrreflexive ==
  ASSUME NEW E \in SUBSET Object, NEW less, Irreflexive(less, E)
  PROVE  Irreflexive(EntryOrder(less), E \X E)
  <1> SUFFICES ASSUME NEW e \in E \X E
               PROVE  <<e, e>> \notin EntryOrder(less)
    BY DEF Irreflexive
  <1>1. e \in Object \X Object /\ e[1] \in E /\ e[2] \in E
    OBVIOUS
  <1> QED
    BY <1>1, EntryOrderIs DEF Irreflexive
-----------------------------------------------------------------------------
(***************************************************************************)
(* The types of Objects.                                                   *)
(***************************************************************************)

\* An Object of each type, with parts in E.
NoneShape(o) == TypeOf(o) = "None" /\ o = NoneObject
DoubleShape(o) ==
    TypeOf(o) = "Double" /\ o.Double \in Nat \cup {NaN} /\ o = [Double |-> o.Double]
IntShape(o) == TypeOf(o) = "Int" /\ o.Int \in Int /\ o = [Int |-> o.Int]
StrShape(o) == TypeOf(o) = "Str" /\ o.Str \in Nat /\ o = [Str |-> o.Str]
ListShape(o, E) == TypeOf(o) = "List" /\ o.List \in Seq(E) /\ o = [List |-> o.List]
DictShape(o, E) ==
    TypeOf(o) = "Dict" /\ o.Dict \in Seq(E \X E) /\ o = [Dict |-> o.Dict]

Shape(o, E) ==
    \/ NoneShape(o) \/ DoubleShape(o) \/ IntShape(o) \/ StrShape(o)
    \/ ListShape(o, E) \/ DictShape(o, E)

LEMMA TypeIs ==
  ASSUME NEW o, NEW t, DOMAIN o = {t}
  PROVE  TypeOf(o) = t
  BY DEF TypeOf

LEMMA PartsOfList ==
  ASSUME NEW s, NEW E, s \in Seq(Object), Parts([List |-> s]) \subseteq E
  PROVE  s \in Seq(E)
  <1> DEFINE o == [List |-> s]
  <1>1. DOMAIN o = {"List"} /\ o.List = s
    OBVIOUS
  <1> HIDE DEF o
  <1>2. Parts(o) = ToSet(s)
    BY <1>1 DEF Parts
  <1>3. \A i \in 1 .. Len(s) : s[i] \in E
    <2>1. ToSet(s) \subseteq E
      BY <1>2 DEF o
    <2>2. \A i \in 1 .. Len(s) : s[i] \in ToSet(s)
      BY DEF ToSet
    <2> QED
      BY <2>1, <2>2
  <1> QED
    BY <1>3

LEMMA PartsOfDict ==
  ASSUME NEW s, NEW E, s \in Seq(Object \X Object), Parts([Dict |-> s]) \subseteq E
  PROVE  s \in Seq(E \X E)
  <1> DEFINE o == [Dict |-> s]
  <1>1. DOMAIN o = {"Dict"} /\ o.Dict = s
    OBVIOUS
  <1> HIDE DEF o
  <1>2. Parts(o) = UNION {{e[1], e[2]} : e \in ToSet(s)}
    BY <1>1 DEF Parts
  <1>3. ASSUME NEW i \in 1 .. Len(s) PROVE s[i] \in E \X E
    <2>1. s[i] \in Object \X Object
      OBVIOUS
    <2>2. s[i] = <<s[i][1], s[i][2]>>
      BY <2>1
    <2>3. s[i] \in ToSet(s)
      BY DEF ToSet
    <2>4. s[i][1] \in Parts(o) /\ s[i][2] \in Parts(o)
      BY <1>2, <2>3
    <2>5. s[i][1] \in E /\ s[i][2] \in E
      BY <2>4 DEF o
    <2> QED
      BY <2>2, <2>5
  <1> QED
    BY <1>3

LEMMA ObjectShape ==
  ASSUME NEW o \in Object, NEW E, Parts(o) \subseteq E
  PROVE  Shape(o, E)
  <1>1. \/ o = NoneObject
        \/ o \in [Double : Nat \cup {NaN}] \/ o \in [Int : Int] \/ o \in [Str : Nat]
        \/ o \in [List : Seq(Object)] \/ o \in [Dict : Seq(Object \X Object)]
    BY ObjectAssumption DEF Atoms
  <1>2. CASE o = NoneObject
    <2>1. DOMAIN o = {"None"}
      BY <1>2 DEF NoneObject
    <2> QED
      BY <1>2, <2>1, TypeIs DEF Shape, NoneShape
  <1>3. CASE o \in [Double : Nat \cup {NaN}]
    <2>1. DOMAIN o = {"Double"} /\ o.Double \in Nat \cup {NaN} /\ o = [Double |-> o.Double]
      BY <1>3
    <2> QED
      BY <2>1, TypeIs DEF Shape, DoubleShape
  <1>4. CASE o \in [Int : Int]
    <2>1. DOMAIN o = {"Int"} /\ o.Int \in Int /\ o = [Int |-> o.Int]
      BY <1>4
    <2> QED
      BY <2>1, TypeIs DEF Shape, IntShape
  <1>5. CASE o \in [Str : Nat]
    <2>1. DOMAIN o = {"Str"} /\ o.Str \in Nat /\ o = [Str |-> o.Str]
      BY <1>5
    <2> QED
      BY <2>1, TypeIs DEF Shape, StrShape
  <1>6. CASE o \in [List : Seq(Object)]
    <2>1. DOMAIN o = {"List"} /\ o.List \in Seq(Object) /\ o = [List |-> o.List]
      BY <1>6
    <2>2. o.List \in Seq(E)
      BY <2>1, PartsOfList
    <2>3. TypeOf(o) = "List"
      BY <2>1, TypeIs
    <2> QED
      BY <2>1, <2>2, <2>3 DEF Shape, ListShape
  <1>7. CASE o \in [Dict : Seq(Object \X Object)]
    <2>1. DOMAIN o = {"Dict"} /\ o.Dict \in Seq(Object \X Object) /\ o = [Dict |-> o.Dict]
      BY <1>7
    <2>2. o.Dict \in Seq(E \X E)
      BY <2>1, PartsOfDict
    <2>3. TypeOf(o) = "Dict"
      BY <2>1, TypeIs
    <2> QED
      BY <2>1, <2>2, <2>3 DEF Shape, DictShape
  <1> QED
    BY <1>1, <1>2, <1>3, <1>4, <1>5, <1>6, <1>7
-----------------------------------------------------------------------------
(***************************************************************************)
(* The order of Objects, from that of the Objects in them.                 *)
(***************************************************************************)

LEMMA TypeOrder ==
  /\ \A t \in DOMAIN ObjectType : ObjectType[t] \in Nat
  /\ \A t, u \in DOMAIN ObjectType :
       t # u => ObjectType[t] < ObjectType[u] \/ ObjectType[u] < ObjectType[t]
  /\ \A t \in DOMAIN ObjectType : t # "None" => ObjectType["None"] < ObjectType[t]
  BY DEF ObjectType

LEMMA ShapeType ==
  ASSUME NEW o, NEW E, Shape(o, E)
  PROVE  TypeOf(o) \in DOMAIN ObjectType
  BY DEF Shape, NoneShape, DoubleShape, IntShape, StrShape, ListShape, DictShape, ObjectType

\* Comparing Objects of two types, and of one.
LEMMA OtherTypeIs ==
  ASSUME NEW less, NEW x, NEW y, TypeOf(x) # TypeOf(y)
  PROVE  ObjectLess(less, x, y) <=> ObjectType[TypeOf(x)] < ObjectType[TypeOf(y)]
  BY DEF ObjectLess

LEMMA SameTypeIs ==
  ASSUME NEW less, NEW x, NEW y, TypeOf(x) = TypeOf(y)
  PROVE  /\ TypeOf(x) = "None" => ObjectLess(less, x, y)
         /\ TypeOf(x) = "Dict" =>
              (ObjectLess(less, x, y) <=> LexLess(EntryOrder(less), x.Dict, y.Dict))
         /\ TypeOf(x) = "Double" =>
              (ObjectLess(less, x, y) <=> DoubleLess(x.Double, y.Double))
         /\ TypeOf(x) = "Int" => (ObjectLess(less, x, y) <=> x.Int < y.Int)
         /\ TypeOf(x) = "List" =>
              (ObjectLess(less, x, y) <=> LexLess(less, x.List, y.List))
         /\ TypeOf(x) = "Str" => (ObjectLess(less, x, y) <=> x.Str < y.Str)
  BY DEF ObjectLess, SameTypeLess

LEMMA ShapeTotal ==
  ASSUME NEW E \in SUBSET Object, NEW less, Total(less, E),
         NEW x, Shape(x, E), x # NaNObject, NEW y, Shape(y, E), y # NaNObject
  PROVE  ObjectLess(less, x, y) \/ ObjectLess(less, y, x) \/ x = y
  <1>1. CASE TypeOf(x) # TypeOf(y)
    <2>1. \/ ObjectType[TypeOf(x)] < ObjectType[TypeOf(y)]
          \/ ObjectType[TypeOf(y)] < ObjectType[TypeOf(x)]
      BY <1>1, ShapeType, TypeOrder
    <2> QED
      BY <1>1, <2>1, OtherTypeIs
  <1>2. CASE TypeOf(x) = TypeOf(y)
    <2>1. CASE NoneShape(x)
      BY <1>2, <2>1, SameTypeIs DEF NoneShape
    <2>2. CASE DoubleShape(x)
      <3>1. DoubleShape(y)
        BY <1>2, <2>2 DEF Shape, DoubleShape, NoneShape, IntShape, StrShape, ListShape, DictShape
      <3>2. x.Double \in Nat /\ y.Double \in Nat
        BY <2>2, <3>1 DEF DoubleShape, NaNObject
      <3>3. DoubleLess(x.Double, y.Double) <=> x.Double < y.Double
        BY <3>2 DEF DoubleLess, NaN
      <3>4. DoubleLess(y.Double, x.Double) <=> y.Double < x.Double
        BY <3>2 DEF DoubleLess, NaN
      <3>5. x.Double = y.Double => x = y
        BY <2>2, <3>1 DEF DoubleShape
      <3>6. TypeOf(x) = "Double" /\ TypeOf(y) = "Double"
        BY <2>2, <3>1 DEF DoubleShape
      <3> QED
        BY <3>2, <3>3, <3>4, <3>5, <3>6, SameTypeIs
    <2>3. CASE IntShape(x)
      <3>1. IntShape(y)
        BY <1>2, <2>3 DEF Shape, DoubleShape, NoneShape, IntShape, StrShape, ListShape, DictShape
      <3>2. x.Int \in Int /\ y.Int \in Int /\ TypeOf(x) = "Int" /\ TypeOf(y) = "Int"
        BY <2>3, <3>1 DEF IntShape
      <3>3. x.Int = y.Int => x = y
        BY <2>3, <3>1 DEF IntShape
      <3> QED
        BY <3>2, <3>3, SameTypeIs
    <2>4. CASE StrShape(x)
      <3>1. StrShape(y)
        BY <1>2, <2>4 DEF Shape, DoubleShape, NoneShape, IntShape, StrShape, ListShape, DictShape
      <3>2. x.Str \in Nat /\ y.Str \in Nat /\ TypeOf(x) = "Str" /\ TypeOf(y) = "Str"
        BY <2>4, <3>1 DEF StrShape
      <3>3. x.Str = y.Str => x = y
        BY <2>4, <3>1 DEF StrShape
      <3> QED
        BY <3>2, <3>3, SameTypeIs
    <2>5. CASE ListShape(x, E)
      <3>1. ListShape(y, E)
        BY <1>2, <2>5 DEF Shape, DoubleShape, NoneShape, IntShape, StrShape, ListShape, DictShape
      <3>2. /\ x.List \in Seq(E) /\ y.List \in Seq(E)
            /\ TypeOf(x) = "List" /\ TypeOf(y) = "List"
        BY <2>5, <3>1 DEF ListShape
      <3>3. x.List = y.List => x = y
        BY <2>5, <3>1 DEF ListShape
      <3>4. \/ LexLess(less, x.List, y.List) \/ LexLess(less, y.List, x.List)
            \/ x.List = y.List
        BY <3>2, LexTotal
      <3> QED
        BY <3>2, <3>3, <3>4, SameTypeIs
    <2>6. CASE DictShape(x, E)
      <3>1. DictShape(y, E)
        BY <1>2, <2>6 DEF Shape, DoubleShape, NoneShape, IntShape, StrShape, ListShape, DictShape
      <3>2. /\ x.Dict \in Seq(E \X E) /\ y.Dict \in Seq(E \X E)
            /\ TypeOf(x) = "Dict" /\ TypeOf(y) = "Dict"
        BY <2>6, <3>1 DEF DictShape
      <3>3. x.Dict = y.Dict => x = y
        BY <2>6, <3>1 DEF DictShape
      <3>4. Total(EntryOrder(less), E \X E)
        BY EntryTotal
      <3>5. \/ LexLess(EntryOrder(less), x.Dict, y.Dict)
            \/ LexLess(EntryOrder(less), y.Dict, x.Dict)
            \/ x.Dict = y.Dict
        BY <3>2, <3>4, LexTotal
      <3> QED
        BY <3>2, <3>3, <3>5, SameTypeIs
    <2> QED
      BY <2>1, <2>2, <2>3, <2>4, <2>5, <2>6 DEF Shape
  <1> QED
    BY <1>1, <1>2

LEMMA ShapeTransitive ==
  ASSUME NEW E \in SUBSET Object, NEW less, Total(less, E), Transitive(less, E),
         NEW x, Shape(x, E), NEW y, Shape(y, E), NEW z, Shape(z, E),
         ObjectLess(less, x, y), ObjectLess(less, y, z)
  PROVE  ObjectLess(less, x, z)
  <1>1. CASE TypeOf(x) # TypeOf(y) \/ TypeOf(y) # TypeOf(z)
    <2> DEFINE a == ObjectType[TypeOf(x)]
               b == ObjectType[TypeOf(y)]
               c == ObjectType[TypeOf(z)]
    <2>1. a \in Nat /\ b \in Nat /\ c \in Nat
      BY ShapeType, TypeOrder
    <2>2. (TypeOf(x) = TypeOf(y) \/ a < b) /\ (TypeOf(y) = TypeOf(z) \/ b < c)
      BY OtherTypeIs
    <2>3. /\ TypeOf(x) = TypeOf(y) => a = b
          /\ TypeOf(y) = TypeOf(z) => b = c
          /\ TypeOf(x) = TypeOf(z) => a = c
      OBVIOUS
    <2> HIDE DEF a, b, c
    <2>4. a < c /\ TypeOf(x) # TypeOf(z)
      BY <1>1, <2>1, <2>2, <2>3
    <2> QED
      BY <2>4, OtherTypeIs DEF a, c
  <1>2. CASE TypeOf(x) = TypeOf(y) /\ TypeOf(y) = TypeOf(z)
    <2>1. CASE NoneShape(x)
      BY <1>2, <2>1, SameTypeIs DEF NoneShape
    <2>2. CASE DoubleShape(x)
      <3>1. DoubleShape(y) /\ DoubleShape(z)
        BY <1>2, <2>2 DEF Shape, DoubleShape, NoneShape, IntShape, StrShape, ListShape, DictShape
      <3>2. /\ x.Double \in Int /\ y.Double \in Int /\ z.Double \in Int
            /\ TypeOf(x) = "Double" /\ TypeOf(y) = "Double" /\ TypeOf(z) = "Double"
        BY <2>2, <3>1 DEF DoubleShape, NaN
      <3>3. DoubleLess(x.Double, y.Double) /\ DoubleLess(y.Double, z.Double)
        BY <3>2, SameTypeIs
      <3>4. DoubleLess(x.Double, z.Double)
        BY <3>2, <3>3 DEF DoubleLess
      <3> QED
        BY <3>2, <3>4, SameTypeIs
    <2>3. CASE IntShape(x)
      <3>1. IntShape(y) /\ IntShape(z)
        BY <1>2, <2>3 DEF Shape, DoubleShape, NoneShape, IntShape, StrShape, ListShape, DictShape
      <3>2. /\ x.Int \in Int /\ y.Int \in Int /\ z.Int \in Int
            /\ TypeOf(x) = "Int" /\ TypeOf(y) = "Int" /\ TypeOf(z) = "Int"
        BY <2>3, <3>1 DEF IntShape
      <3>3. x.Int < y.Int /\ y.Int < z.Int
        BY <3>2, SameTypeIs
      <3>4. x.Int < z.Int
        BY <3>2, <3>3
      <3> QED
        BY <3>2, <3>4, SameTypeIs
    <2>4. CASE StrShape(x)
      <3>1. StrShape(y) /\ StrShape(z)
        BY <1>2, <2>4 DEF Shape, DoubleShape, NoneShape, IntShape, StrShape, ListShape, DictShape
      <3>2. /\ x.Str \in Nat /\ y.Str \in Nat /\ z.Str \in Nat
            /\ TypeOf(x) = "Str" /\ TypeOf(y) = "Str" /\ TypeOf(z) = "Str"
        BY <2>4, <3>1 DEF StrShape
      <3>3. x.Str < y.Str /\ y.Str < z.Str
        BY <3>2, SameTypeIs
      <3>4. x.Str < z.Str
        BY <3>2, <3>3
      <3> QED
        BY <3>2, <3>4, SameTypeIs
    <2>5. CASE ListShape(x, E)
      <3>1. ListShape(y, E) /\ ListShape(z, E)
        BY <1>2, <2>5 DEF Shape, DoubleShape, NoneShape, IntShape, StrShape, ListShape, DictShape
      <3>2. /\ x.List \in Seq(E) /\ y.List \in Seq(E) /\ z.List \in Seq(E)
            /\ TypeOf(x) = "List" /\ TypeOf(y) = "List" /\ TypeOf(z) = "List"
        BY <2>5, <3>1 DEF ListShape
      <3>3. LexLess(less, x.List, y.List) /\ LexLess(less, y.List, z.List)
        BY <3>2, SameTypeIs
      <3>4. LexLess(less, x.List, z.List)
        BY <3>2, <3>3, LexTransitive
      <3> QED
        BY <3>2, <3>4, SameTypeIs
    <2>6. CASE DictShape(x, E)
      <3>1. DictShape(y, E) /\ DictShape(z, E)
        BY <1>2, <2>6 DEF Shape, DoubleShape, NoneShape, IntShape, StrShape, ListShape, DictShape
      <3>2. /\ x.Dict \in Seq(E \X E) /\ y.Dict \in Seq(E \X E) /\ z.Dict \in Seq(E \X E)
            /\ TypeOf(x) = "Dict" /\ TypeOf(y) = "Dict" /\ TypeOf(z) = "Dict"
        BY <2>6, <3>1 DEF DictShape
      <3>3. /\ LexLess(EntryOrder(less), x.Dict, y.Dict)
            /\ LexLess(EntryOrder(less), y.Dict, z.Dict)
        BY <3>2, SameTypeIs
      <3>4. Total(EntryOrder(less), E \X E) /\ Transitive(EntryOrder(less), E \X E)
        BY EntryTotal, EntryTransitive
      <3>5. LexLess(EntryOrder(less), x.Dict, z.Dict)
        BY <3>2, <3>3, <3>4, LexTransitive
      <3> QED
        BY <3>2, <3>5, SameTypeIs
    <2> QED
      BY <2>1, <2>2, <2>3, <2>4, <2>5, <2>6 DEF Shape
  <1> QED
    BY <1>1, <1>2

LEMMA ShapeIrreflexive ==
  ASSUME NEW E \in SUBSET Object, NEW less, Irreflexive(less, E),
         NEW x, Shape(x, E), x # NoneObject
  PROVE  ~ObjectLess(less, x, x)
  <1>1. CASE DoubleShape(x)
    <2>1. x.Double \in Int /\ TypeOf(x) = "Double"
      BY <1>1 DEF DoubleShape, NaN
    <2>2. ~DoubleLess(x.Double, x.Double)
      BY <2>1 DEF DoubleLess
    <2> QED
      BY <2>1, <2>2, SameTypeIs
  <1>2. CASE IntShape(x)
    <2>1. ~(x.Int < x.Int) /\ TypeOf(x) = "Int"
      BY <1>2 DEF IntShape
    <2> QED
      BY <2>1, SameTypeIs
  <1>3. CASE StrShape(x)
    <2>1. ~(x.Str < x.Str) /\ TypeOf(x) = "Str"
      BY <1>3 DEF StrShape
    <2> QED
      BY <2>1, SameTypeIs
  <1>4. CASE ListShape(x, E)
    <2>1. x.List \in Seq(E) /\ TypeOf(x) = "List"
      BY <1>4 DEF ListShape
    <2>2. ~LexLess(less, x.List, x.List)
      BY <2>1, LexIrreflexive
    <2> QED
      BY <2>1, <2>2, SameTypeIs
  <1>5. CASE DictShape(x, E)
    <2>1. x.Dict \in Seq(E \X E) /\ TypeOf(x) = "Dict"
      BY <1>5 DEF DictShape
    <2>2. Irreflexive(EntryOrder(less), E \X E)
      BY EntryIrreflexive
    <2>3. ~LexLess(EntryOrder(less), x.Dict, x.Dict)
      BY <2>1, <2>2, LexIrreflexive
    <2> QED
      BY <2>1, <2>3, SameTypeIs
  <1> QED
    BY <1>1, <1>2, <1>3, <1>4, <1>5 DEF Shape, NoneShape
-----------------------------------------------------------------------------
(***************************************************************************)
(* The recursions of Without and of ObjectOrder.                           *)
(***************************************************************************)

\* A function that applies F once more at each step exists.
LEMMA Repeated ==
  ASSUME NEW T, NEW a \in T, NEW F \in [T -> T], NEW n \in Nat
  PROVE  \E h : /\ h = [i \in 0 .. n |-> IF i = 0 THEN a ELSE F[h[i - 1]]]
                /\ h \in [0 .. n -> T]
  <1> DEFINE G == [p \in (1 .. n) \X T |-> F[p[2]]]
  <1>1. G \in [(1 .. n) \X T -> T]
    OBVIOUS
  <1>2. \E h : IsWalk(h, a, n, G, T)
    <2> HIDE DEF G
    <2> QED
      BY ONLY a \in T, n \in Nat, <1>1, WalkExists
  <1>3. PICK h : IsWalk(h, a, n, G, T)
    <2> HIDE DEF G
    <2> QED
      BY <1>2
  <1>4. /\ h \in [0 .. n -> T] /\ h[0] = a
        /\ \A i \in 1 .. n : h[i] = G[<<i, h[i - 1]>>]
    <2> HIDE DEF G
    <2> QED
      BY <1>3 DEF IsWalk
  <1>5. ASSUME NEW i \in 0 .. n PROVE h[i] = IF i = 0 THEN a ELSE F[h[i - 1]]
    <2>1. CASE i = 0
      BY <1>4, <2>1
    <2>2. CASE i # 0
      <3>1. i \in 1 .. n /\ i - 1 \in 0 .. n
        BY <2>2
      <3>2. h[i - 1] \in T
        BY <1>4, <3>1
      <3>3. h[i] = G[<<i, h[i - 1]>>]
        BY <1>4, <3>1
      <3>4. G[<<i, h[i - 1]>>] = F[h[i - 1]]
        BY <3>1, <3>2
      <3> QED
        BY <2>2, <3>3, <3>4
    <2> QED
      BY <2>1, <2>2
  <1>6. h = [i \in 0 .. n |-> IF i = 0 THEN a ELSE F[h[i - 1]]]
    BY <1>4, <1>5
  <1> QED
    BY <1>4, <1>6

\* The sets that Without goes through.
Free(some) ==
    LET upto[n \in 0 .. Nesting] ==
          IF n = 0 THEN {}
          ELSE {o \in Object \ some : Parts(o) \subseteq upto[n - 1]}
    IN upto

LEMMA WithoutIsFree ==
  ASSUME NEW some
  PROVE  Without(some) = Free(some)[Nesting]
  BY DEF Without, Free

LEMMA FreeIs ==
  ASSUME NEW some
  PROVE  /\ Free(some)[0] = {}
         /\ \A i \in 1 .. Nesting :
              Free(some)[i] = {o \in Object \ some : Parts(o) \subseteq Free(some)[i - 1]}
         /\ \A i \in 0 .. Nesting : Free(some)[i] \in SUBSET Object
  <1> DEFINE T == SUBSET Object
             F == [E \in T |-> {o \in Object \ some : Parts(o) \subseteq E}]
             a == {}
             n == Nesting
  <1>1. a \in T /\ F \in [T -> T] /\ n \in Nat
    BY ObjectAssumption
  <1>2. \A E \in T : F[E] = {o \in Object \ some : Parts(o) \subseteq E}
    OBVIOUS
  <1> HIDE DEF T, F, n
  <1>3. PICK h : /\ h = [i \in 0 .. n |-> IF i = 0 THEN a ELSE F[h[i - 1]]]
                 /\ h \in [0 .. n -> T]
    BY ONLY <1>1, Repeated
  <1>4. h = [i \in 0 .. n |-> IF i = 0 THEN {} ELSE {o \in Object \ some : Parts(o) \subseteq h[i - 1]}]
    <2>1. ASSUME NEW i \in 0 .. n
          PROVE  h[i] = IF i = 0 THEN {} ELSE {o \in Object \ some : Parts(o) \subseteq h[i - 1]}
      <3>1. i # 0 => i - 1 \in 0 .. n
        BY <1>1
      <3>2. i # 0 => h[i - 1] \in T
        BY <1>3, <3>1
      <3>3. h[i] = IF i = 0 THEN a ELSE F[h[i - 1]]
        BY <1>3
      <3> QED
        BY <1>2, <3>2, <3>3
    <2> QED
      BY <1>3, <2>1
  <1> DEFINE u == Free(some)
  <1>5. u = [i \in 0 .. n |-> IF i = 0 THEN {} ELSE {o \in Object \ some : Parts(o) \subseteq u[i - 1]}]
    BY <1>4 DEF Free, n
  <1> HIDE DEF u
  <1>6. 0 \in 0 .. n /\ \A i \in 1 .. n : i \in 0 .. n /\ i # 0
    BY <1>1
  <1>7. u[0] = {} /\ \A i \in 1 .. n : u[i] = {o \in Object \ some : Parts(o) \subseteq u[i - 1]}
    BY <1>5, <1>6
  <1>8. \A i \in 0 .. n : u[i] \in SUBSET Object
    <2>1. ASSUME NEW i \in 0 .. n PROVE u[i] \in SUBSET Object
      <3>1. i = 0 \/ i \in 1 .. n
        BY <1>1
      <3> QED
        BY <1>7, <3>1
    <2> QED
      BY <2>1
  <1> QED
    BY <1>7, <1>8 DEF u, n

\* The orders that ObjectOrder goes through.
Orders ==
    LET upto[n \in 0 .. Nesting] ==
          IF n = 0 THEN {}
          ELSE {p \in Object \X Object : ObjectLess(upto[n - 1], p[1], p[2])}
    IN upto

LEMMA ObjectOrderIsOrders == ObjectOrder = Orders[Nesting]
  BY DEF ObjectOrder, Orders

LEMMA OrdersAre ==
  \A i \in 1 .. Nesting : \A x, y \in Object :
      <<x, y>> \in Orders[i] <=> ObjectLess(Orders[i - 1], x, y)
  <1> DEFINE T == SUBSET (Object \X Object)
             F == [less \in T |-> {p \in Object \X Object : ObjectLess(less, p[1], p[2])}]
             a == {}
             n == Nesting
  <1>1. a \in T /\ F \in [T -> T] /\ n \in Nat
    BY ObjectAssumption
  <1>2. \A less \in T : F[less] = {p \in Object \X Object : ObjectLess(less, p[1], p[2])}
    OBVIOUS
  <1> HIDE DEF T, F, n
  <1>3. PICK h : /\ h = [i \in 0 .. n |-> IF i = 0 THEN a ELSE F[h[i - 1]]]
                 /\ h \in [0 .. n -> T]
    BY ONLY <1>1, Repeated
  <1>4. h = [i \in 0 .. n |-> IF i = 0 THEN {}
                              ELSE {p \in Object \X Object : ObjectLess(h[i - 1], p[1], p[2])}]
    <2>1. ASSUME NEW i \in 0 .. n
          PROVE  h[i] = IF i = 0 THEN {}
                        ELSE {p \in Object \X Object : ObjectLess(h[i - 1], p[1], p[2])}
      <3>1. i # 0 => i - 1 \in 0 .. n
        BY <1>1
      <3>2. i # 0 => h[i - 1] \in T
        BY <1>3, <3>1
      <3>3. h[i] = IF i = 0 THEN a ELSE F[h[i - 1]]
        BY <1>3
      <3> QED
        BY <1>2, <3>2, <3>3
    <2> QED
      BY <1>3, <2>1
  <1> DEFINE u == Orders
  <1>5. u = [i \in 0 .. n |-> IF i = 0 THEN {}
                              ELSE {p \in Object \X Object : ObjectLess(u[i - 1], p[1], p[2])}]
    BY <1>4 DEF Orders, n
  <1> HIDE DEF u
  <1>6. \A i \in 1 .. n : i \in 0 .. n /\ i # 0
    BY <1>1
  <1>7. \A i \in 1 .. n : u[i] = {p \in Object \X Object : ObjectLess(u[i - 1], p[1], p[2])}
    BY <1>5, <1>6
  <1>8. ASSUME NEW i \in 1 .. n, NEW x \in Object, NEW y \in Object
        PROVE  <<x, y>> \in u[i] <=> ObjectLess(u[i - 1], x, y)
    <2> DEFINE p == <<x, y>>
    <2>1. p \in Object \X Object /\ p[1] = x /\ p[2] = y
      OBVIOUS
    <2> HIDE DEF p
    <2>2. p \in u[i] <=> ObjectLess(u[i - 1], x, y)
      BY <1>7, <2>1
    <2> QED
      BY <2>2 DEF p
  <1> QED
    BY <1>8 DEF u, n

\* The Objects that Free has at a step are made of those it had before.
LEMMA FreeShape ==
  ASSUME NEW some, NEW i \in 1 .. Nesting, NEW o \in Free(some)[i]
  PROVE  /\ o \in Object /\ o \notin some
         /\ Shape(o, Free(some)[i - 1])
         /\ Free(some)[i - 1] \in SUBSET Object
  <1> DEFINE E == Free(some)[i - 1]
  <1>1. Nesting \in Nat /\ i - 1 \in 0 .. Nesting
    BY ObjectAssumption
  <1>2. E \in SUBSET Object
    BY <1>1, FreeIs
  <1>3. o \in Object /\ o \notin some /\ Parts(o) \subseteq E
    BY FreeIs
  <1> HIDE DEF E
  <1>4. Shape(o, E)
    BY <1>3, ObjectShape
  <1> QED
    BY <1>2, <1>3, <1>4 DEF E

\* Fewer Objects are free of more.
LEMMA FreeOfMore ==
  ASSUME NEW some, NEW more, some \subseteq more
  PROVE  \A i \in 0 .. Nesting : Free(more)[i] \subseteq Free(some)[i]
  <1> DEFINE G == {n \in 0 .. Nesting : Free(more)[n] \subseteq Free(some)[n]}
  <1>1. Nesting \in Nat
    BY ObjectAssumption
  <1>2. 0 \in G
    BY <1>1, FreeIs
  <1>3. ASSUME NEW i \in 1 .. Nesting, i - 1 \in G PROVE i \in G
    <2>1. Free(more)[i - 1] \subseteq Free(some)[i - 1]
      BY <1>3
    <2>2. Free(more)[i] = {o \in Object \ more : Parts(o) \subseteq Free(more)[i - 1]}
      BY FreeIs
    <2>3. Free(some)[i] = {o \in Object \ some : Parts(o) \subseteq Free(some)[i - 1]}
      BY FreeIs
    <2>4. Free(more)[i] \subseteq Free(some)[i]
      <3>1. ASSUME NEW o \in Free(more)[i] PROVE o \in Free(some)[i]
        <4>1. o \in Object /\ o \notin more /\ Parts(o) \subseteq Free(more)[i - 1]
          BY <2>2
        <4>2. o \notin some /\ Parts(o) \subseteq Free(some)[i - 1]
          BY <2>1, <4>1
        <4> QED
          BY <2>3, <4>1, <4>2
      <3> QED
        BY <3>1
    <2>5. i \in 0 .. Nesting
      BY <1>1
    <2> QED
      BY <2>4, <2>5
  <1>4. \A i \in 0 .. Nesting : i \in G
    <2> HIDE DEF G
    <2> QED
      BY ONLY <1>1, <1>2, <1>3, BoundedInduction
  <1> QED
    BY <1>4

\* Orders[n] is an order of the Objects without a NaN.
OrderedAt(n) ==
    /\ Total(Orders[n], Free({NaNObject})[n])
    /\ Transitive(Orders[n], Free({NaNObject})[n])

LEMMA OrdersAreOrders ==
  OrderedAt(Nesting)
  <1> DEFINE G == {n \in 0 .. Nesting : OrderedAt(n)}
  <1>1. Nesting \in Nat
    BY ObjectAssumption
  <1>2. 0 \in G
    <2>1. Free({NaNObject})[0] = {}
      BY FreeIs
    <2>2. OrderedAt(0)
      BY <2>1 DEF OrderedAt, Total, Transitive
    <2> QED
      BY <1>1, <2>2
  <1>3. ASSUME NEW i \in 1 .. Nesting, i - 1 \in G PROVE i \in G
    <2> DEFINE E == Free({NaNObject})[i - 1]
               D == Free({NaNObject})[i]
               less == Orders[i - 1]
    <2>1. E \in SUBSET Object
      <3>1. i - 1 \in 0 .. Nesting
        BY <1>1
      <3> QED
        BY <3>1, FreeIs
    <2>2. Total(less, E) /\ Transitive(less, E)
      BY <1>3 DEF OrderedAt
    <2>3. \A x \in D : x \in Object /\ x # NaNObject /\ Shape(x, E)
      BY FreeShape
    <2>4. \A x, y \in Object : <<x, y>> \in Orders[i] <=> ObjectLess(less, x, y)
      BY OrdersAre
    <2> HIDE DEF D, E, less
    <2>5. Total(Orders[i], D)
      <3>1. ASSUME NEW x \in D, NEW y \in D
            PROVE  ObjectLess(less, x, y) \/ ObjectLess(less, y, x) \/ x = y
        BY <2>1, <2>2, <2>3, ShapeTotal
      <3> QED
        BY <2>3, <2>4, <3>1 DEF Total
    <2>6. Transitive(Orders[i], D)
      <3>1. ASSUME NEW x \in D, NEW y \in D, NEW z \in D,
                   ObjectLess(less, x, y), ObjectLess(less, y, z)
            PROVE  ObjectLess(less, x, z)
        BY <2>1, <2>2, <2>3, <3>1, ShapeTransitive
      <3> QED
        BY <2>3, <2>4, <3>1 DEF Transitive
    <2>7. i \in 0 .. Nesting
      BY <1>1
    <2> QED
      BY <2>5, <2>6, <2>7 DEF D, OrderedAt
  <1>4. \A i \in 0 .. Nesting : i \in G
    <2> HIDE DEF G
    <2> QED
      BY ONLY <1>1, <1>2, <1>3, BoundedInduction
  <1> QED
    BY <1>1, <1>4

\* No Object without None and NaN is lower than itself.
StrictAt(n) ==
    Irreflexive(Orders[n], Free({NoneObject, NaNObject})[n])

LEMMA OrdersAreStrict ==
  StrictAt(Nesting)
  <1> DEFINE G == {n \in 0 .. Nesting : StrictAt(n)}
  <1>1. Nesting \in Nat
    BY ObjectAssumption
  <1>2. 0 \in G
    <2>1. Free({NoneObject, NaNObject})[0] = {}
      BY FreeIs
    <2>2. StrictAt(0)
      BY <2>1 DEF StrictAt, Irreflexive
    <2> QED
      BY <1>1, <2>2
  <1>3. ASSUME NEW i \in 1 .. Nesting, i - 1 \in G PROVE i \in G
    <2> DEFINE E == Free({NoneObject, NaNObject})[i - 1]
               D == Free({NoneObject, NaNObject})[i]
               less == Orders[i - 1]
    <2>1. E \in SUBSET Object
      <3>1. i - 1 \in 0 .. Nesting
        BY <1>1
      <3> QED
        BY <3>1, FreeIs
    <2>2. Irreflexive(less, E)
      BY <1>3 DEF StrictAt
    <2>3. \A x \in D : x \in Object /\ x # NoneObject /\ Shape(x, E)
      BY FreeShape
    <2>4. \A x, y \in Object : <<x, y>> \in Orders[i] <=> ObjectLess(less, x, y)
      BY OrdersAre
    <2> HIDE DEF D, E, less
    <2>5. Irreflexive(Orders[i], D)
      <3>1. ASSUME NEW x \in D PROVE ~ObjectLess(less, x, x)
        BY <2>1, <2>2, <2>3, ShapeIrreflexive
      <3> QED
        BY <2>3, <2>4, <3>1 DEF Irreflexive
    <2>6. i \in 0 .. Nesting
      BY <1>1
    <2> QED
      BY <2>5, <2>6 DEF D, StrictAt
  <1>4. \A i \in 0 .. Nesting : i \in G
    <2> HIDE DEF G
    <2> QED
      BY ONLY <1>1, <1>2, <1>3, BoundedInduction
  <1> QED
    BY <1>1, <1>4

\* operator< is total and transitive on Objects in which there is no NaN, however
\* deep they are, and strict on those in which there is no None either
\* (object.cpp:73-97).
THEOREM OrderOfObjects ==
  /\ Total(ObjectOrder, Without({NaNObject}))
  /\ Transitive(ObjectOrder, Without({NaNObject}))
  /\ Irreflexive(ObjectOrder, Without({NoneObject, NaNObject}))
  /\ Without({NoneObject, NaNObject}) \subseteq Without({NaNObject})
  <1>1. Without({NoneObject, NaNObject}) \subseteq Without({NaNObject})
    <2>1. {NaNObject} \subseteq {NoneObject, NaNObject} /\ Nesting \in 0 .. Nesting
      BY ObjectAssumption
    <2> QED
      BY <2>1, FreeOfMore, WithoutIsFree
  <1>2. /\ Total(ObjectOrder, Without({NaNObject}))
        /\ Transitive(ObjectOrder, Without({NaNObject}))
    BY OrdersAreOrders, WithoutIsFree, ObjectOrderIsOrders DEF OrderedAt
  <1>3. Irreflexive(ObjectOrder, Without({NoneObject, NaNObject}))
    BY OrdersAreStrict, WithoutIsFree, ObjectOrderIsOrders DEF StrictAt
  <1> QED
    BY <1>1, <1>2, <1>3

\* The keys in which there is no NaN, and those in which operator< is strict.
LEMMA KeyOrder ==
  /\ Total(ObjectOrder, Plain) /\ Transitive(ObjectOrder, Plain)
  /\ Irreflexive(ObjectOrder, Ordered)
  /\ Ordered \subseteq Plain /\ Plain \subseteq Keys
  BY OrderOfObjects DEF Plain, Ordered, Total, Transitive, Irreflexive

\* There is at least one level of Objects, as there is None.
LEMMA NestingIsPositive ==
  Nesting \in 1 .. Nesting
  <1>1. Nesting \in Nat
    BY ObjectAssumption
  <1>2. Nesting # 0
    <2>1. Free({})[0] = {} /\ Free({})[Nesting] = Object /\ NoneObject \in Object
      BY FreeIs, WithoutIsFree, ObjectAssumption
    <2> QED
      BY <2>1
  <1> QED
    BY <1>1, <1>2

LEMMA AnyShape ==
  ASSUME NEW o \in Object
  PROVE  \E E : Shape(o, E)
  BY ObjectShape

LEMMA TypeOfNone ==
  /\ NoneObject \in Object
  /\ TypeOf(NoneObject) = "None"
  <1>1. DOMAIN NoneObject = {"None"}
    BY DEF NoneObject
  <1> QED
    BY <1>1, TypeIs, ObjectAssumption

\* None is lower than any other Object, and than itself.
LEMMA NoneIsLower ==
  ASSUME NEW o \in Object
  PROVE  Less(NoneObject, o)
  <1>1. TypeOf(o) \in DOMAIN ObjectType
    BY AnyShape, ShapeType
  <1>2. ObjectLess(Orders[Nesting - 1], NoneObject, o)
    <2>1. CASE TypeOf(o) = "None"
      BY <2>1, TypeOfNone, SameTypeIs
    <2>2. CASE TypeOf(o) # "None"
      <3>1. ObjectType["None"] < ObjectType[TypeOf(o)]
        BY <1>1, <2>2, TypeOrder
      <3> QED
        BY <2>2, <3>1, TypeOfNone, OtherTypeIs
    <2> QED
      BY <2>1, <2>2
  <1> QED
    BY <1>2, NestingIsPositive, TypeOfNone, OrdersAre, ObjectOrderIsOrders DEF Less
-----------------------------------------------------------------------------
(***************************************************************************)
(* The std::map.                                                           *)
(***************************************************************************)

\* The place that lower_bound finds.
LEMMA LowerBoundIs ==
  ASSUME NEW d, Len(d) \in Nat, DOMAIN d = 1 .. Len(d), NEW key
  PROVE  /\ LowerBound(d, key) \in 1 .. Len(d) + 1
         /\ \A j \in 1 .. LowerBound(d, key) - 1 : Less(d[j][1], key)
         /\ LowerBound(d, key) <= Len(d) => ~Less(d[LowerBound(d, key)][1], key)
  <1> DEFINE notlower == {i \in DOMAIN d : ~Less(d[i][1], key)}
             p == LowerBound(d, key)
             n == Len(d)
  <1>1. notlower \in SUBSET Nat /\ \A i \in notlower : i \in 1 .. n /\ ~Less(d[i][1], key)
    OBVIOUS
  <1>2. \A j \in 1 .. n : j \notin notlower => Less(d[j][1], key)
    OBVIOUS
  <1>3. p = IF notlower = {} THEN n + 1
            ELSE CHOOSE i \in notlower : \A j \in notlower : i <= j
    BY DEF LowerBound
  <1> HIDE DEF p, notlower, n
  <1>4. n \in Nat
    BY DEF n
  <1>5. CASE notlower = {}
    <2>1. p = n + 1
      BY <1>3, <1>5
    <2>2. \A j \in 1 .. p - 1 : Less(d[j][1], key)
      BY <1>2, <1>4, <1>5, <2>1
    <2> QED
      BY <1>4, <2>1, <2>2 DEF p, n
  <1>6. CASE notlower # {}
    <2>1. PICK m \in notlower : \A j \in notlower : m <= j
      BY <1>1, <1>6, LeastElement
    <2>2. p \in notlower /\ \A j \in notlower : p <= j
      BY <1>3, <1>6, <2>1
    <2>3. p \in 1 .. n /\ ~Less(d[p][1], key)
      BY <1>1, <2>2
    <2>4. ASSUME NEW j \in 1 .. p - 1 PROVE Less(d[j][1], key)
      <3>1. j \in 1 .. n /\ ~(p <= j)
        BY <1>4, <2>3
      <3> QED
        BY <1>2, <2>2, <3>1
    <2>5. p \in 1 .. n + 1
      BY <1>4, <2>3
    <2> QED
      BY <2>3, <2>4, <2>5 DEF p, n
  <1> QED
    BY <1>5, <1>6

\* What find finds.
LEMMA FindIs ==
  ASSUME NEW d, Len(d) \in Nat, DOMAIN d = 1 .. Len(d), NEW key
  PROVE  /\ Find(d, key) \in 0 .. Len(d)
         /\ Find(d, key) # 0 =>
              /\ ~Less(d[Find(d, key)][1], key)
              /\ ~Less(key, d[Find(d, key)][1])
         /\ Find(d, key) = 0 /\ LowerBound(d, key) <= Len(d) =>
              Less(key, d[LowerBound(d, key)][1])
  <1> DEFINE p == LowerBound(d, key)
             n == Len(d)
  <1>1. p \in 1 .. n + 1 /\ (p <= n => ~Less(d[p][1], key)) /\ n \in Nat
    BY LowerBoundIs
  <1>2. Find(d, key) = IF p <= n /\ ~Less(key, d[p][1]) THEN p ELSE 0
    BY DEF Find
  <1> HIDE DEF p, n
  <1>3. CASE p <= n /\ ~Less(key, d[p][1])
    <2>1. Find(d, key) = p /\ p \in 1 .. n /\ p # 0
      BY <1>1, <1>2, <1>3
    <2> QED
      BY <1>1, <1>3, <2>1 DEF n
  <1>4. CASE ~(p <= n /\ ~Less(key, d[p][1]))
    <2>1. Find(d, key) = 0
      BY <1>2, <1>4
    <2>2. p <= n => Less(key, d[p][1])
      BY <1>4
    <2> QED
      BY <1>1, <2>1, <2>2 DEF p, n
  <1> QED
    BY <1>3, <1>4

\* InsertAt moves what is behind the new element by one place.
LEMMA InsertAtIs ==
  ASSUME NEW S, NEW s \in Seq(S), NEW p \in 1 .. Len(s) + 1, NEW e \in S
  PROVE  /\ InsertAt(s, p, e) \in Seq(S)
         /\ Len(InsertAt(s, p, e)) = Len(s) + 1
         /\ \A i \in 1 .. Len(s) + 1 :
              InsertAt(s, p, e)[i] = IF i < p THEN s[i] ELSE IF i = p THEN e ELSE s[i - 1]
  <1> DEFINE a == SubSeq(s, 1, p - 1)
             b == <<e>>
             c == SubSeq(s, p, Len(s))
             n == Len(s)
  <1>1. n \in Nat /\ p \in Nat /\ 1 <= p /\ p <= n + 1
    OBVIOUS
  <1>2. /\ a \in Seq(S) /\ Len(a) = p - 1
        /\ \A i \in 1 .. p - 1 : a[i] = s[i]
    BY <1>1, SubSeqProperties
  <1>3. /\ c \in Seq(S) /\ Len(c) = n - p + 1
        /\ \A i \in 1 .. n - p + 1 : c[i] = s[p + i - 1]
    BY <1>1, SubSeqProperties
  <1>4. b \in Seq(S) /\ Len(b) = 1 /\ b[1] = e
    OBVIOUS
  <1>5. InsertAt(s, p, e) = (a \o b) \o c
    BY DEF InsertAt
  <1> HIDE DEF a, b, c, n
  <1>6. /\ a \o b \in Seq(S) /\ Len(a \o b) = Len(a) + Len(b)
        /\ \A i \in 1 .. Len(a) + Len(b) : (a \o b)[i] = IF i <= Len(a) THEN a[i] ELSE b[i - Len(a)]
    BY ONLY <1>2, <1>4, ConcatProperties
  <1> DEFINE u == a \o b
             v == u \o c
  <1>7. /\ u \in Seq(S) /\ Len(u) = p
        /\ \A i \in 1 .. p : u[i] = IF i < p THEN s[i] ELSE e
    <2>1. \A i \in 1 .. p : (i <= p - 1 <=> i < p) /\ (~(i < p) => i - (p - 1) = 1)
      BY <1>1
    <2>2. Len(u) = p
      BY <1>1, <1>2, <1>4, <1>6
    <2>3. ASSUME NEW i \in 1 .. p PROVE u[i] = IF i < p THEN s[i] ELSE e
      <3>1. u[i] = IF i <= p - 1 THEN a[i] ELSE b[i - (p - 1)]
        BY <1>1, <1>2, <1>4, <1>6
      <3>2. i < p => i \in 1 .. p - 1
        BY <1>1
      <3> QED
        BY <1>2, <1>4, <2>1, <3>1, <3>2
    <2> QED
      BY <1>6, <2>2, <2>3
  <1> HIDE DEF u
  <1>8. /\ v \in Seq(S) /\ Len(v) = Len(u) + Len(c)
        /\ \A i \in 1 .. Len(u) + Len(c) : v[i] = IF i <= Len(u) THEN u[i] ELSE c[i - Len(u)]
    BY ONLY <1>3, <1>7, ConcatProperties
  <1>9. InsertAt(s, p, e) = v
    BY <1>5 DEF u
  <1> HIDE DEF v
  <1>10. Len(v) = n + 1
    BY <1>1, <1>3, <1>7, <1>8
  <1>11. ASSUME NEW i \in 1 .. n + 1
         PROVE  v[i] = IF i < p THEN s[i] ELSE IF i = p THEN e ELSE s[i - 1]
    <2>1. v[i] = IF i <= p THEN u[i] ELSE c[i - p]
      BY <1>1, <1>3, <1>7, <1>8
    <2>2. i <= p => i \in 1 .. p
      BY <1>1
    <2>3. CASE i <= p
      BY <1>1, <1>7, <2>1, <2>2, <2>3
    <2>4. CASE ~(i <= p)
      <3>1. i - p \in 1 .. n - p + 1 /\ p + (i - p) - 1 = i - 1 /\ ~(i < p) /\ i # p
        BY <1>1, <2>4
      <3>2. c[i - p] = s[i - 1]
        BY <1>3, <3>1
      <3> QED
        BY <2>1, <2>4, <3>1, <3>2
    <2> QED
      BY <2>3, <2>4
  <1> QED
    BY <1>8, <1>9, <1>10, <1>11 DEF n
-----------------------------------------------------------------------------
(***************************************************************************)
(* The Dict.  Its inductive invariant, of the entries d and of what the    *)
(* keys should have, sh: the entries are those of used keys, in their      *)
(* order, and an ordered key has the entry it should.                      *)
(***************************************************************************)

Stored == Values \cup {NoneObject}

UsedIn(sh) == {k \in Keys : sh[k] # Absent}

InOrder(d) ==
    \A i, j \in 1 .. Len(d) : i < j => Less(d[i][1], d[j][1])

Holding(d, sh) ==
    \A k \in Ordered \cap UsedIn(sh) : \E i \in 1 .. Len(d) : d[i] = <<k, sh[k]>>

Typed(d, sh) ==
    /\ d \in Seq(Keys \X Stored) /\ Len(d) <= MaxEntries
    /\ sh \in [Keys -> Stored \cup {Absent}]
    /\ \A i \in 1 .. Len(d) : d[i][1] \in UsedIn(sh)

Sound(d, sh) ==
    /\ Typed(d, sh)
    /\ UsedIn(sh) \subseteq Plain => InOrder(d) /\ Holding(d, sh)

LEMMA AbsentIsNoValue == Absent \notin Stored
  <1>1. DOMAIN Absent = {"absent"}
    BY DEF Absent
  <1>2. TypeOf(Absent) = "absent" /\ "absent" \notin DOMAIN ObjectType
    BY <1>1, TypeIs DEF ObjectType
  <1>3. \A o \in Object : TypeOf(o) \in DOMAIN ObjectType
    BY AnyShape, ShapeType
  <1>4. Stored \subseteq Object
    BY ObjectAssumption, DictAssumption DEF Stored
  <1> QED
    BY <1>2, <1>3, <1>4

LEMMA TypedIs ==
  ASSUME NEW d, NEW sh, Typed(d, sh)
  PROVE  /\ Len(d) \in Nat /\ DOMAIN d = 1 .. Len(d) /\ d \in Seq(Keys \X Stored)
         /\ \A i \in 1 .. Len(d) :
              /\ d[i] \in Keys \X Stored /\ d[i][1] \in Keys /\ d[i][2] \in Stored
              /\ d[i][1] \in UsedIn(sh)
              /\ d[i] = <<d[i][1], d[i][2]>>
         /\ sh \in [Keys -> Stored \cup {Absent}]
  BY DEF Typed

\* A key in which there is no NaN finds no other such key.
LEMMA FindsItself ==
  ASSUME NEW d, NEW sh, Typed(d, sh), UsedIn(sh) \subseteq Plain,
         NEW key \in Plain, Find(d, key) # 0
  PROVE  Find(d, key) \in 1 .. Len(d) /\ d[Find(d, key)][1] = key
  <1>1. /\ Find(d, key) \in 1 .. Len(d)
        /\ ~Less(d[Find(d, key)][1], key) /\ ~Less(key, d[Find(d, key)][1])
    BY TypedIs, FindIs
  <1>2. d[Find(d, key)][1] \in Plain
    BY <1>1, TypedIs
  <1> QED
    BY <1>1, <1>2, KeyOrder DEF Total, Less

\* An ordered key that has an entry is found.
LEMMA IsFound ==
  ASSUME NEW d, NEW sh, Typed(d, sh), InOrder(d), NEW key \in Ordered,
         NEW i \in 1 .. Len(d), d[i][1] = key
  PROVE  Find(d, key) = i
  <1>1. Len(d) \in Nat /\ DOMAIN d = 1 .. Len(d)
    BY TypedIs
  <1>2. ~Less(key, key)
    BY KeyOrder DEF Irreflexive, Less
  <1> DEFINE p == LowerBound(d, key)
  <1>3. /\ p \in 1 .. Len(d) + 1
        /\ \A j \in 1 .. p - 1 : Less(d[j][1], key)
        /\ p <= Len(d) => ~Less(d[p][1], key)
    BY <1>1, LowerBoundIs
  <1>4. Find(d, key) = IF p <= Len(d) /\ ~Less(key, d[p][1]) THEN p ELSE 0
    BY DEF Find
  <1> HIDE DEF p
  <1>5. p <= i
    <2>1. SUFFICES ASSUME ~(p <= i) PROVE FALSE
      OBVIOUS
    <2>2. i \in 1 .. p - 1
      BY <1>3, <2>1
    <2> QED
      BY <1>2, <1>3, <2>2
  <1>6. ~(p < i)
    <2>1. SUFFICES ASSUME p < i PROVE FALSE
      OBVIOUS
    <2>2. p \in 1 .. Len(d) /\ p <= Len(d)
      BY <1>1, <1>3, <2>1
    <2>3. Less(d[p][1], d[i][1])
      BY <2>1, <2>2 DEF InOrder
    <2> QED
      BY <1>3, <2>2, <2>3
  <1>7. p = i /\ p <= Len(d)
    BY <1>1, <1>3, <1>5, <1>6
  <1> QED
    BY <1>2, <1>4, <1>7

\* What may become of what the keys should have when a key is used.
Uses(sh, sh2, key) ==
    /\ sh2 \in [Keys -> Stored \cup {Absent}]
    /\ \A k \in Keys : k # key => sh2[k] = sh[k]
    /\ sh2[key] \in Stored

LEMMA UsesIs ==
  ASSUME NEW sh, NEW sh2, NEW key \in Keys, Uses(sh, sh2, key)
  PROVE  UsedIn(sh2) = UsedIn(sh) \cup {key}
  BY AbsentIsNoValue DEF Uses, UsedIn

\* Using a key that is found and keeps its value.
LEMMA SoundKept ==
  ASSUME NEW d, NEW sh, Sound(d, sh), NEW key \in Keys, Find(d, key) # 0,
         NEW sh2, Uses(sh, sh2, key), sh[key] # Absent => sh2[key] = sh[key]
  PROVE  Sound(d, sh2)
  <1>1. Typed(d, sh)
    BY DEF Sound
  <1>2. UsedIn(sh2) = UsedIn(sh) \cup {key}
    BY UsesIs
  <1>3. Typed(d, sh2)
    BY <1>1, <1>2 DEF Typed, Uses
  <1>4. ASSUME UsedIn(sh2) \subseteq Plain PROVE InOrder(d) /\ Holding(d, sh2)
    <2>1. UsedIn(sh) \subseteq Plain /\ key \in Plain
      BY <1>2, <1>4
    <2>2. InOrder(d) /\ Holding(d, sh)
      BY <2>1 DEF Sound
    <2>3. key \in UsedIn(sh)
      BY <1>1, <2>1, FindsItself, TypedIs
    <2>4. \A k \in Keys : sh2[k] = sh[k]
      BY <2>3 DEF Uses, UsedIn
    <2>5. UsedIn(sh2) = UsedIn(sh)
      BY <1>2, <2>3
    <2>6. Holding(d, sh2)
      BY <2>2, <2>4, <2>5 DEF Holding, UsedIn
    <2> QED
      BY <2>2, <2>6
  <1> QED
    BY <1>3, <1>4 DEF Sound

\* Using a key that is not found.
LEMMA SoundAdded ==
  ASSUME NEW d, NEW sh, Sound(d, sh), Len(d) < MaxEntries,
         NEW key \in Keys, NEW v \in Stored, Find(d, key) = 0,
         NEW sh2, Uses(sh, sh2, key), sh[key] = Absent => sh2[key] = v
  PROVE  Sound(InsertAt(d, LowerBound(d, key), <<key, v>>), sh2)
  <1> DEFINE p == LowerBound(d, key)
             e == <<key, v>>
             d2 == InsertAt(d, p, e)
             n == Len(d)
             S == Keys \X Stored
  <1>1. Typed(d, sh)
    BY DEF Sound
  <1>2. n \in Nat /\ d \in Seq(S) /\ DOMAIN d = 1 .. n /\ n < MaxEntries /\ MaxEntries \in Nat
    BY <1>1, TypedIs, DictAssumption
  <1>3. /\ p \in 1 .. n + 1
        /\ \A j \in 1 .. p - 1 : Less(d[j][1], key)
        /\ p <= n => Less(key, d[p][1])
    BY <1>2, LowerBoundIs, FindIs
  <1>4. e \in S /\ e[1] = key
    OBVIOUS
  <1>5. UsedIn(sh2) = UsedIn(sh) \cup {key}
    BY UsesIs
  <1>6. \A i \in 1 .. n : d[i] \in S /\ d[i][1] \in Keys /\ d[i][1] \in UsedIn(sh)
    BY <1>1, TypedIs
  <1> HIDE DEF p, S
  <1>7. /\ d2 \in Seq(S) /\ Len(d2) = n + 1
        /\ \A i \in 1 .. n + 1 :
             d2[i] = IF i < p THEN d[i] ELSE IF i = p THEN e ELSE d[i - 1]
    <2>1. d \in Seq(S) /\ p \in 1 .. Len(d) + 1 /\ e \in S
      BY <1>2, <1>3, <1>4
    <2> HIDE DEF e
    <2>2. /\ InsertAt(d, p, e) \in Seq(S) /\ Len(InsertAt(d, p, e)) = Len(d) + 1
          /\ \A i \in 1 .. Len(d) + 1 :
               InsertAt(d, p, e)[i] = IF i < p THEN d[i] ELSE IF i = p THEN e ELSE d[i - 1]
      BY ONLY <2>1, InsertAtIs
    <2> QED
      BY <2>2
  <1> HIDE DEF d2, e
  <1>8. ASSUME NEW i \in 1 .. n + 1
        PROVE  /\ i < p => i \in 1 .. n /\ i \in 1 .. p - 1 /\ d2[i] = d[i]
               /\ i = p => d2[i] = e
               /\ i > p => i - 1 \in 1 .. n /\ p <= i - 1 /\ p <= n /\ d2[i] = d[i - 1]
    BY <1>2, <1>3, <1>7
  <1>9. Typed(d2, sh2)
    <2>1. ASSUME NEW i \in 1 .. n + 1 PROVE d2[i][1] \in UsedIn(sh2)
      <3>1. i < p \/ i = p \/ i > p
        BY <1>2, <1>3
      <3> QED
        BY <1>4, <1>5, <1>6, <1>8, <3>1
    <2>2. Len(d2) <= MaxEntries
      BY <1>2, <1>7
    <2>3. sh2 \in [Keys -> Stored \cup {Absent}]
      BY DEF Uses
    <2> QED
      BY <1>7, <2>1, <2>2, <2>3 DEF Typed, S
  <1>10. ASSUME UsedIn(sh2) \subseteq Plain PROVE InOrder(d2) /\ Holding(d2, sh2)
    <2>1. UsedIn(sh) \subseteq Plain /\ key \in Plain
      BY <1>5, <1>10
    <2>2. InOrder(d) /\ Holding(d, sh)
      BY <2>1 DEF Sound
    <2>3. \A i \in 1 .. n : p <= i => Less(key, d[i][1])
      <3>1. ASSUME NEW i \in 1 .. n, p <= i PROVE Less(key, d[i][1])
        <4>1. p \in 1 .. n /\ p <= n /\ (p = i \/ p < i)
          BY <1>2, <1>3, <3>1
        <4>2. Less(key, d[p][1])
          BY <1>3, <4>1
        <4>3. p < i => Less(d[p][1], d[i][1])
          BY <2>2, <4>1 DEF InOrder
        <4>4. d[p][1] \in Plain /\ d[i][1] \in Plain
          BY <1>6, <2>1, <4>1
        <4> QED
          BY <2>1, <4>1, <4>2, <4>3, <4>4, KeyOrder DEF Transitive, Less
      <3> QED
        BY <3>1
    <2>4. InOrder(d2)
      <3>1. ASSUME NEW i \in 1 .. n + 1, NEW j \in 1 .. n + 1, i < j
            PROVE  Less(d2[i][1], d2[j][1])
        <4>1. CASE j < p
          <5>1. i < p
            BY <1>3, <3>1, <4>1
          <5>2. /\ i \in 1 .. n /\ j \in 1 .. n /\ d2[i] = d[i] /\ d2[j] = d[j]
            BY <1>8, <4>1, <5>1
          <5> QED
            BY <2>2, <3>1, <5>2 DEF InOrder
        <4>2. CASE j = p
          <5>1. i < p
            BY <3>1, <4>2
          <5>2. i \in 1 .. p - 1 /\ d2[i] = d[i] /\ d2[j] = e
            BY <1>8, <4>2, <5>1
          <5> QED
            BY <1>3, <1>4, <5>2
        <4>3. CASE j > p
          <5>1. j - 1 \in 1 .. n /\ p <= j - 1 /\ d2[j] = d[j - 1]
            BY <1>8, <4>3
          <5>2. CASE i < p
            <6>1. i \in 1 .. n /\ d2[i] = d[i] /\ i < j - 1
              BY <1>3, <1>8, <5>1, <5>2
            <6> QED
              BY <2>2, <5>1, <6>1 DEF InOrder
          <5>3. CASE i = p
            BY <1>4, <1>8, <2>3, <5>1, <5>3
          <5>4. CASE i > p
            <6>1. i - 1 \in 1 .. n /\ d2[i] = d[i - 1] /\ i - 1 < j - 1
              BY <1>8, <3>1, <5>4
            <6> QED
              BY <2>2, <5>1, <6>1 DEF InOrder
          <5>5. i < p \/ i = p \/ i > p
            BY <1>3
          <5> QED
            BY <5>2, <5>3, <5>4, <5>5
        <4>4. j < p \/ j = p \/ j > p
          BY <1>3
        <4> QED
          BY <4>1, <4>2, <4>3, <4>4
      <3> QED
        BY <1>7, <3>1 DEF InOrder
    <2>5. ASSUME NEW k \in Ordered \cap UsedIn(sh2)
          PROVE  \E i \in 1 .. Len(d2) : d2[i] = <<k, sh2[k]>>
      <3>1. CASE k = key
        <4>1. key \notin UsedIn(sh)
          <5>1. SUFFICES ASSUME key \in UsedIn(sh) PROVE FALSE
            OBVIOUS
          <5>2. PICK i \in 1 .. n : d[i] = <<key, sh[key]>>
            BY <2>2, <3>1, <5>1 DEF Holding
          <5>3. d[i][1] = key
            BY <5>2
          <5>4. Find(d, key) = i
            BY <1>1, <2>2, <3>1, <5>3, IsFound
          <5> QED
            BY <5>4
        <4>2. sh2[key] = v
          BY <4>1 DEF UsedIn
        <4>3. p \in 1 .. n + 1 /\ d2[p] = e
          BY <1>3, <1>8
        <4> QED
          BY <1>7, <3>1, <4>2, <4>3 DEF e
      <3>2. CASE k # key
        <4>1. k \in UsedIn(sh) /\ k \in Keys /\ sh2[k] = sh[k]
          BY <1>5, <3>2 DEF UsedIn, Uses
        <4>2. PICK i \in 1 .. n : d[i] = <<k, sh[k]>>
          BY <2>2, <4>1 DEF Holding
        <4>3. CASE i < p
          <5>1. i \in 1 .. n + 1
            BY <1>2
          <5> QED
            BY <1>7, <1>8, <4>1, <4>2, <4>3, <5>1
        <4>4. CASE ~(i < p)
          <5>1. i + 1 \in 1 .. n + 1 /\ i + 1 > p /\ (i + 1) - 1 = i
            BY <1>2, <1>3, <4>4
          <5>2. d2[i + 1] = d[i]
            BY <1>8, <5>1
          <5> QED
            BY <1>7, <4>1, <4>2, <5>1, <5>2
        <4> QED
          BY <4>3, <4>4
      <3> QED
        BY <3>1, <3>2
    <2> QED
      BY <2>4, <2>5 DEF Holding
  <1> QED
    BY <1>9, <1>10 DEF Sound, d2, p, e

\* Assigning to a key that is found.
LEMMA SoundChanged ==
  ASSUME NEW d, NEW sh, Sound(d, sh), NEW key \in Keys, NEW v \in Stored,
         Find(d, key) # 0, NEW sh2, Uses(sh, sh2, key), sh2[key] = v,
         NEW d2 \in Seq(Keys \X Stored), Len(d2) = Len(d),
         \A j \in 1 .. Len(d) : j # Find(d, key) => d2[j] = d[j],
         d2[Find(d, key)] = <<d[Find(d, key)][1], v>>
  PROVE  Sound(d2, sh2)
  <1> DEFINE i == Find(d, key)
             n == Len(d)
  <1>1. Typed(d, sh)
    BY DEF Sound
  <1>2. n \in Nat /\ DOMAIN d = 1 .. n /\ d \in Seq(Keys \X Stored) /\ i \in 1 .. n
    BY <1>1, TypedIs, FindIs
  <1>3. \A j \in 1 .. n : /\ d[j] = <<d[j][1], d[j][2]>> /\ d[j][1] \in Keys
                          /\ d[j][2] \in Stored /\ d[j][1] \in UsedIn(sh)
    BY <1>1, TypedIs
  <1>4. UsedIn(sh2) = UsedIn(sh) \cup {key}
    BY UsesIs
  <1> HIDE DEF i, n
  <1>5. /\ \A j \in 1 .. n : j # i => d2[j] = d[j]
        /\ d2[i] = <<d[i][1], v>>
    BY DEF i, n
  <1>6. d2 \in Seq(Keys \X Stored) /\ Len(d2) = n
    BY DEF n
  <1>7. \A j \in 1 .. n : d2[j][1] = d[j][1]
    BY <1>2, <1>5
  <1>8. Typed(d2, sh2)
    BY <1>1, <1>3, <1>4, <1>6, <1>7 DEF Typed, Uses, n
  <1>9. ASSUME UsedIn(sh2) \subseteq Plain PROVE InOrder(d2) /\ Holding(d2, sh2)
    <2>1. UsedIn(sh) \subseteq Plain /\ key \in Plain
      BY <1>4, <1>9
    <2>2. InOrder(d) /\ Holding(d, sh)
      BY <2>1 DEF Sound
    <2>3. InOrder(d2)
      BY <1>6, <1>7, <2>2 DEF InOrder, n
    <2>4. d[i][1] = key
      BY <1>1, <2>1, FindsItself DEF i
    <2>5. ASSUME NEW k \in Ordered \cap UsedIn(sh2)
          PROVE  \E j \in 1 .. Len(d2) : d2[j] = <<k, sh2[k]>>
      <3>1. CASE k = key
        BY <1>2, <1>5, <1>6, <2>4, <3>1
      <3>2. CASE k # key
        <4>1. k \in UsedIn(sh) /\ k \in Keys /\ sh2[k] = sh[k]
          BY <1>4, <3>2 DEF UsedIn, Uses
        <4>2. PICK j \in 1 .. n : d[j] = <<k, sh[k]>>
          BY <2>2, <4>1 DEF Holding, n
        <4>3. j # i
          BY <2>4, <3>2, <4>2
        <4> QED
          BY <1>5, <1>6, <4>1, <4>2, <4>3
      <3> QED
        BY <3>1, <3>2
    <2> QED
      BY <2>3, <2>5 DEF Holding
  <1> QED
    BY <1>8, <1>9 DEF Sound
-----------------------------------------------------------------------------
(***************************************************************************)
(* The steps of the Dict.                                                  *)
(***************************************************************************)

DictInv == Sound(dict, shadow)

LEMMA DictInvInit ==
  DictInit => DictInv
  <1> SUFFICES ASSUME DictInit PROVE DictInv
    OBVIOUS
  <1>1. dict = <<>> /\ shadow = [k \in Keys |-> Absent]
    BY DEF DictInit
  <1>2. dict \in Seq(Keys \X Stored) /\ Len(dict) = 0
    BY <1>1, EmptySeq
  <1>3. UsedIn(shadow) = {}
    BY <1>1 DEF UsedIn
  <1>4. Typed(dict, shadow)
    BY <1>1, <1>2, <1>3, DictAssumption DEF Typed
  <1>5. InOrder(dict) /\ Holding(dict, shadow)
    BY <1>2, <1>3 DEF InOrder, Holding
  <1> QED
    BY <1>4, <1>5 DEF DictInv, Sound

LEMMA DictInvNext ==
  DictInv /\ [DictNext]_dictVars => DictInv'
  <1> SUFFICES ASSUME DictInv, [DictNext]_dictVars PROVE Sound(dict', shadow')
    BY DEF DictInv
  <1>1. Sound(dict, shadow) /\ Typed(dict, shadow)
    BY DEF DictInv, Sound
  <1>2. Values \subseteq Stored /\ NoneObject \in Stored
    BY DEF Stored
  <1>3. /\ shadow \in [Keys -> Stored \cup {Absent}]
        /\ \A k \in Keys : shadow[k] # Absent => shadow[k] \in Stored
    BY <1>1 DEF Typed
  <1>4. ASSUME NEW key \in Keys, NEW value \in Values, InitEntry(key, value)
        PROVE  Sound(dict', shadow')
    <2>1. /\ Len(dict) < MaxEntries /\ dict' = Inserted(dict, key, value)
          /\ shadow' = [shadow EXCEPT ![key] = IF @ = Absent THEN value ELSE @]
          /\ value \in Stored
      BY <1>2, <1>4 DEF InitEntry
    <2>2. /\ Uses(shadow, shadow', key)
          /\ shadow[key] = Absent => shadow'[key] = value
          /\ shadow[key] # Absent => shadow'[key] = shadow[key]
      BY <1>3, <2>1 DEF Uses
    <2>3. CASE Find(dict, key) # 0
      BY <1>1, <2>1, <2>2, <2>3, SoundKept DEF Inserted
    <2>4. CASE Find(dict, key) = 0
      BY <1>1, <2>1, <2>2, <2>4, SoundAdded DEF Inserted
    <2> QED
      BY <2>3, <2>4
  <1>5. ASSUME NEW key \in Keys, NEW value \in Values, Assign(key, value)
        PROVE  Sound(dict', shadow')
    <2>1. /\ Len(dict) < MaxEntries /\ dict' = Assigned(dict, key, value)
          /\ shadow' = [shadow EXCEPT ![key] = value]
          /\ value \in Stored
      BY <1>2, <1>5 DEF Assign
    <2>2. Uses(shadow, shadow', key) /\ shadow'[key] = value
      BY <1>3, <2>1 DEF Uses
    <2>3. CASE Find(dict, key) # 0
      <3> DEFINE i == Find(dict, key)
                 n == Len(dict)
      <3>1. dict' = [dict EXCEPT ![i][2] = value]
        BY <2>1, <2>3 DEF Assigned
      <3>2. /\ n \in Nat /\ DOMAIN dict = 1 .. n /\ i \in 1 .. n
            /\ \A j \in 1 .. n : dict[j] \in Keys \X Stored
        BY <1>1, <2>3, TypedIs, FindIs
      <3> HIDE DEF i, n
      <3>3. /\ DOMAIN dict' = 1 .. n /\ dict'[i] = [dict[i] EXCEPT ![2] = value]
            /\ \A j \in 1 .. n : j # i => dict'[j] = dict[j]
            /\ dict' = [j \in 1 .. n |-> dict'[j]]
        BY <3>1, <3>2
      <3>4. dict'[i] = <<dict[i][1], value>> /\ dict'[i] \in Keys \X Stored
        <4>1. dict[i] \in Keys \X Stored
          BY <3>2
        <4> QED
          BY <2>1, <3>3, <4>1
      <3>5. dict' \in Seq(Keys \X Stored) /\ Len(dict') = n
        <4> DEFINE S == Keys \X Stored
        <4>1. \A j \in 1 .. n : dict'[j] \in S
          BY <3>2, <3>3, <3>4
        <4> HIDE DEF S
        <4>2. dict' \in [1 .. n -> S]
          BY <3>3, <4>1
        <4>3. dict' \in Seq(S) /\ Len(dict') = n
          BY <3>2, <4>2
        <4> QED
          BY <4>3 DEF S
      <3>6. /\ dict' \in Seq(Keys \X Stored) /\ Len(dict') = Len(dict)
            /\ \A j \in 1 .. Len(dict) : j # Find(dict, key) => dict'[j] = dict[j]
            /\ dict'[Find(dict, key)] = <<dict[Find(dict, key)][1], value>>
        BY <3>3, <3>4, <3>5 DEF i, n
      <3>7. key \in Keys /\ value \in Stored
        BY <2>1
      <3> QED
        BY ONLY <1>1, <2>2, <2>3, <3>6, <3>7, SoundChanged
    <2>4. CASE Find(dict, key) = 0
      <3>1. dict' = InsertAt(dict, LowerBound(dict, key), <<key, value>>)
        BY <2>1, <2>4 DEF Assigned, Inserted
      <3> QED
        BY <1>1, <2>1, <2>2, <2>4, <3>1, SoundAdded
    <2> QED
      BY <2>3, <2>4
  <1>6. ASSUME NEW key \in Keys, Look(key)
        PROVE  Sound(dict', shadow')
    <2>1. /\ Len(dict) < MaxEntries
          /\ shadow' = [shadow EXCEPT ![key] = IF @ = Absent THEN NoneObject ELSE @]
          /\ dict' = IF Find(dict, key) # 0 THEN dict ELSE Inserted(dict, key, NoneObject)
      BY <1>6 DEF Look
    <2>2. /\ Uses(shadow, shadow', key)
          /\ shadow[key] = Absent => shadow'[key] = NoneObject
          /\ shadow[key] # Absent => shadow'[key] = shadow[key]
      BY <1>2, <1>3, <2>1 DEF Uses
    <2>3. CASE Find(dict, key) # 0
      BY <1>1, <2>1, <2>2, <2>3, SoundKept
    <2>4. CASE Find(dict, key) = 0
      BY <1>1, <1>2, <2>1, <2>2, <2>4, SoundAdded DEF Inserted
    <2> QED
      BY <2>3, <2>4
  <1>7. CASE UNCHANGED dictVars
    BY <1>1, <1>7 DEF dictVars
  <1> QED
    BY <1>4, <1>5, <1>6, <1>7 DEF DictNext

LEMMA DictInvHolds ==
  DictSpec => []DictInv
  BY DictInvInit, DictInvNext, PTL DEF DictSpec

LEMMA InvTypeOK ==
  DictInv => DictTypeOK
  <1> SUFFICES ASSUME DictInv PROVE DictTypeOK
    OBVIOUS
  <1>1. Typed(dict, shadow)
    BY DEF DictInv, Sound
  <1>2. /\ DOMAIN dict = 1 .. Len(dict) /\ Len(dict) <= MaxEntries /\ Len(dict) \in Nat
        /\ \A i \in 1 .. Len(dict) : dict[i][1] \in Keys /\ dict[i][2] \in Values \cup {NoneObject}
    BY <1>1, TypedIs DEF Typed, Stored
  <1>3. ASSUME Used \subseteq Plain,
               NEW i \in 1 .. Len(dict), NEW j \in 1 .. Len(dict),
               dict[i][1] = dict[j][1], dict[i][1] \in Ordered
        PROVE  i = j
    <2>1. InOrder(dict)
      BY <1>3 DEF DictInv, Sound, Used, UsedIn
    <2>2. Find(dict, dict[i][1]) = i /\ Find(dict, dict[i][1]) = j
      BY <1>1, <1>3, <2>1, IsFound
    <2> QED
      BY <2>2
  <1> QED
    BY <1>2, <1>3 DEF DictTypeOK

\* as_* and a switch tell the type of an Object.
LEMMA TypesAreTold ==
  ASSUME NEW o \in Object, NEW t \in DOMAIN ObjectType
  PROVE  /\ (TypeOf(o) = t) = (As(o, t).error = "NoError")
         /\ (TypeOf(o) = t) = (Switch(o, {t}, TRUE) # "otherwise")
  <1>1. DOMAIN o = {TypeOf(o)}
    <2>1. PICK E : Shape(o, E)
      BY AnyShape
    <2> QED
      BY <2>1 DEF Shape, NoneShape, NoneObject, DoubleShape, IntShape, StrShape, ListShape, DictShape
  <1>2. TypeOf(o) # "otherwise"
    <2>1. TypeOf(o) \in DOMAIN ObjectType
      BY AnyShape, ShapeType
    <2> QED
      BY <2>1 DEF ObjectType
  <1>3. (TypeOf(o) = t) <=> (As(o, t).error = "NoError")
    BY <1>1 DEF As
  <1>4. (TypeOf(o) = t) <=> (Switch(o, {t}, TRUE) # "otherwise")
    BY <1>2 DEF Switch
  <1> QED
    BY <1>3, <1>4

LEMMA InvIsMap ==
  DictInv => DictIsMap
  <1> SUFFICES ASSUME DictInv, Used \subseteq Plain PROVE
        /\ \A k \in Ordered :
             LET i == Find(dict, k) IN
             IF k \notin Used THEN i = 0
             ELSE /\ i # 0
                  /\ dict[i] = <<k, shadow[k]>>
                  /\ \A t \in DOMAIN ObjectType :
                       LET is == TypeOf(shadow[k]) = t IN
                       /\ is = (As(dict[i][2], t).error = "NoError")
                       /\ is = (Switch(dict[i][2], {t}, TRUE) # "otherwise")
        /\ \A i, j \in DOMAIN dict : i < j => Less(dict[i][1], dict[j][1])
        /\ Find(dict, NoneObject) = 0
    BY DEF DictIsMap
  <1>1. Typed(dict, shadow) /\ UsedIn(shadow) = Used
    BY DEF DictInv, Sound, UsedIn, Used
  <1>2. InOrder(dict) /\ Holding(dict, shadow)
    BY <1>1 DEF DictInv, Sound
  <1>3. DOMAIN dict = 1 .. Len(dict) /\ Len(dict) \in Nat
    BY <1>1, TypedIs
  <1>4. ASSUME NEW k \in Ordered, k \notin Used PROVE Find(dict, k) = 0
    <2>1. SUFFICES ASSUME Find(dict, k) # 0 PROVE FALSE
      OBVIOUS
    <2>2. k \in Plain
      BY KeyOrder
    <2>3. Find(dict, k) \in 1 .. Len(dict) /\ dict[Find(dict, k)][1] = k
      BY <1>1, <2>1, <2>2, FindsItself
    <2>4. k \in Used
      BY <1>1, <2>3, TypedIs
    <2> QED
      BY <1>4, <2>4
  <1>5. ASSUME NEW k \in Ordered, k \in Used
        PROVE  Find(dict, k) # 0 /\ dict[Find(dict, k)] = <<k, shadow[k]>>
    <2>1. PICK i \in 1 .. Len(dict) : dict[i] = <<k, shadow[k]>>
      BY <1>1, <1>2, <1>5 DEF Holding
    <2>2. dict[i][1] = k
      BY <2>1
    <2>3. Find(dict, k) = i
      BY <1>1, <1>2, <2>2, IsFound
    <2> QED
      BY <2>1, <2>3
  <1>6. ASSUME NEW k \in Ordered, k \in Used, NEW t \in DOMAIN ObjectType
        PROVE  /\ (TypeOf(shadow[k]) = t) = (As(dict[Find(dict, k)][2], t).error = "NoError")
               /\ (TypeOf(shadow[k]) = t) = (Switch(dict[Find(dict, k)][2], {t}, TRUE) # "otherwise")
    <2>1. k \in Keys /\ shadow[k] # Absent
      BY <1>6 DEF Used
    <2>2. shadow[k] \in Stored
      BY <1>1, <2>1 DEF Typed
    <2>3. Stored \subseteq Object
      BY ObjectAssumption, DictAssumption DEF Stored
    <2>4. dict[Find(dict, k)][2] = shadow[k]
      BY <1>5, <1>6
    <2>5. /\ (TypeOf(shadow[k]) = t) = (As(shadow[k], t).error = "NoError")
          /\ (TypeOf(shadow[k]) = t) = (Switch(shadow[k], {t}, TRUE) # "otherwise")
      BY <2>2, <2>3, TypesAreTold
    <2> QED
      BY <2>4, <2>5
  <1>7. \A i, j \in DOMAIN dict : i < j => Less(dict[i][1], dict[j][1])
    BY <1>2, <1>3 DEF InOrder
  <1>8. Find(dict, NoneObject) = 0
    <2>1. SUFFICES ASSUME Find(dict, NoneObject) # 0 PROVE FALSE
      OBVIOUS
    <2> DEFINE i == Find(dict, NoneObject)
    <2>2. i \in 1 .. Len(dict) /\ ~Less(NoneObject, dict[i][1])
      BY <1>3, <2>1, FindIs
    <2> HIDE DEF i
    <2>3. dict[i][1] \in Object
      BY <1>1, <2>2, TypedIs, DictAssumption
    <2> QED
      BY <2>2, <2>3, NoneIsLower
  <1> QED
    BY <1>4, <1>5, <1>6, <1>7, <1>8

\* The entries that are lower than a key are those in front of its lower bound, so
\* that it does not matter how a std::map searches for it.
SearchIsExact ==
    Used \subseteq Plain =>
        \A key \in Plain, i \in 1 .. Len(dict) :
            Less(dict[i][1], key) <=> i < LowerBound(dict, key)

LEMMA InvSearch ==
  DictInv => SearchIsExact
  <1> SUFFICES ASSUME DictInv, Used \subseteq Plain,
                      NEW key \in Plain, NEW i \in 1 .. Len(dict)
               PROVE  Less(dict[i][1], key) <=> i < LowerBound(dict, key)
    BY DEF SearchIsExact
  <1>1. Typed(dict, shadow) /\ UsedIn(shadow) = Used
    BY DEF DictInv, Sound, UsedIn, Used
  <1>2. InOrder(dict)
    BY <1>1 DEF DictInv, Sound
  <1>3. DOMAIN dict = 1 .. Len(dict) /\ Len(dict) \in Nat
    BY <1>1, TypedIs
  <1> DEFINE p == LowerBound(dict, key)
  <1>4. /\ p \in 1 .. Len(dict) + 1
        /\ \A j \in 1 .. p - 1 : Less(dict[j][1], key)
        /\ p <= Len(dict) => ~Less(dict[p][1], key)
    BY <1>3, LowerBoundIs
  <1> HIDE DEF p
  <1>5. CASE i < p
    <2>1. i \in 1 .. p - 1
      BY <1>4, <1>5
    <2> QED
      BY <1>4, <1>5, <2>1 DEF p
  <1>6. CASE ~(i < p)
    <2>1. p \in 1 .. Len(dict) /\ p <= Len(dict) /\ (i = p \/ p < i)
      BY <1>3, <1>4, <1>6
    <2>2. CASE i = p
      BY <1>4, <1>6, <2>1, <2>2 DEF p
    <2>3. CASE p < i
      <3>1. Less(dict[p][1], dict[i][1])
        BY <1>2, <2>1, <2>3 DEF InOrder
      <3>2. dict[p][1] \in Plain /\ dict[i][1] \in Plain
        BY <1>1, <2>1, TypedIs
      <3>3. Less(dict[i][1], key) => Less(dict[p][1], key)
        BY <3>1, <3>2, KeyOrder DEF Transitive, Less
      <3> QED
        BY <1>4, <1>6, <2>1, <3>3 DEF p
    <2> QED
      BY <2>1, <2>2, <2>3
  <1> QED
    BY <1>5, <1>6

\* The Dict holds Objects, and one entry for a key: DictTypeOK, for every set of
\* Objects and every number of entries (object.cpp:73-97).
THEOREM DictTypes == DictSpec => []DictTypeOK
  <1>1. DictInv => DictTypeOK
    BY InvTypeOK
  <1> QED
    BY <1>1, DictInvHolds, PTL

\* A Dict is a map: DictIsMap, for every set of Objects, however deep they are,
\* and every number of entries (object.cpp:41-52, 73-145).
THEOREM DictMaps == DictSpec => []DictIsMap
  <1>1. DictInv => DictIsMap
    BY InvIsMap
  <1> QED
    BY <1>1, DictInvHolds, PTL

\* Whichever way a std::map searches for a key, in which there is no NaN, it finds
\* the place that Find is about: SearchIsExact.
THEOREM DictSearch == DictSpec => []SearchIsExact
  <1>1. DictInv => SearchIsExact
    BY InvSearch
  <1> QED
    BY <1>1, DictInvHolds, PTL
=============================================================================
