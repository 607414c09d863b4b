--------------------------- MODULE EvhelpersProofs ---------------------------
(***************************************************************************)
(* Proofs about Evhelpers: for any request and any number of bytes from    *)
(* the peer, what sendrecv collects or echoes is what the peer sent, whole *)
(* if the peer's end is what it was told of first; the null output string  *)
(* of a server that echoes is never used; the callback is called at most   *)
(* once; and break_soon leaves nothing behind to delete.                   *)
(*                                                                         *)
(* What the peer sent is in three pieces: what was taken from the input    *)
(* buffer, what is in it, and what is on its way.  The inductive invariant *)
(* says that each goes on where the one before it ends (Streamed).         *)
(***************************************************************************)
EXTENDS Evhelpers, SequenceTheorems, TLAPS

\* The bytes of the peer behind the first m, up to the n-th.
Bytes(m, n) == [i \in 1 .. n - m |-> m + i]

\* What became of the bytes that were taken: they were appended to the output
\* string, or are written or to be written to the peer.
Taken == IF Echoes THEN received \o out ELSE output

(***************************************************************************)
(* The first m bytes of the peer were taken, the next up to n are in the   *)
(* input buffer and the next up to p on their way; the rest was lost.      *)
(***************************************************************************)
Streamed(m, n, p) ==
    /\ m <= n /\ n <= p /\ p <= sent
    /\ Taken = Bytes(0, m)
    /\ input = Bytes(m, n)
    /\ wire = Bytes(n, p)
    /\ p < sent => peer = "reset"
    /\ events # <<>> /\ events[1] = "eof" => m = sent /\ peer # "open"

StreamInv == \E m, n, p \in Nat : Streamed(m, n, p)

\* What the closures in the slots say about the rest of the state.
PhaseInv ==
    /\ slots = "start" => bev = "none" /\ sent = 0 /\ input = <<>> /\ wire = <<>>
    /\ slots = "connect" => bev = "connecting"
    /\ slots \in {"start", "connect", "handshake"} =>
         /\ ~reads /\ ~writes
         /\ input = <<>> /\ output = <<>> /\ out = <<>> /\ received = <<>>
    /\ slots \in {"handshake", "sendrecv", "drain"} => bev = "open"
    /\ slots \in {"start", "connect", "handshake", "sendrecv"} => events = <<>>
    /\ slots = "drain" => out # <<>> /\ Len(events) = 1
    /\ slots = "none" => ~reads /\ ~writes
    /\ told = 1 => slots = "none" /\ events # <<>>
    /\ told = 1 /\ Len(events) = 1 => out = <<>>
    /\ soon => slots = "none" /\ bev \in {"ignored", "deleted", "forgotten"}

\* A server that echoes leaves nothing in the input buffer as long as the
\* connection is up; a client writes its request.
RoleInv ==
    /\ crashed = FALSE
    /\ Echoes => output = <<>>
    /\ Echoes /\ slots = "sendrecv" => input = <<>>
    /\ ~Echoes => received \o out \in {<<>>, Request}

IInv == TypeOK /\ PhaseInv /\ RoleInv /\ StreamInv
-----------------------------------------------------------------------------
(***************************************************************************)
(* Pieces of the peer's bytes.                                             *)
(***************************************************************************)

\* A piece as a sequence.
LEMMA BytesFacts ==
  ASSUME NEW m \in Nat, NEW n \in Nat, m <= n
  PROVE  /\ Bytes(m, n) \in Seq(Nat)
         /\ Len(Bytes(m, n)) = n - m
         /\ \A i \in 1 .. n - m : Bytes(m, n)[i] = m + i
         /\ Bytes(m, n) = <<>> <=> m = n
  <1>1. n - m \in Nat /\ \A i \in 1 .. n - m : m + i \in Nat
    OBVIOUS
  <1>2. Bytes(m, n) \in [1 .. n - m -> Nat]
    BY <1>1 DEF Bytes
  <1>3. Bytes(m, n) \in Seq(Nat) /\ Len(Bytes(m, n)) = n - m
    BY <1>1, <1>2
  <1>4. \A i \in 1 .. n - m : Bytes(m, n)[i] = m + i
    BY DEF Bytes
  <1>5. Bytes(m, n) = <<>> <=> Len(Bytes(m, n)) = 0
    BY <1>3, EmptySeq
  <1> QED
    BY <1>1, <1>3, <1>4, <1>5

\* Bytes of the peer are numbers of bytes it may send.
LEMMA BytesTyped ==
  ASSUME NEW m \in Nat, NEW n \in Nat, NEW p \in Nat, m <= n, n <= p
  PROVE  Bytes(m, n) \in Seq(1 .. p) /\ Bytes(m, n) \in Seq(0 .. p)
  <1>1. n - m \in Nat
    OBVIOUS
  <1>2. \A i \in 1 .. n - m : m + i \in 1 .. p /\ m + i \in 0 .. p
    OBVIOUS
  <1>3. Bytes(m, n) \in [1 .. n - m -> 1 .. p] /\ Bytes(m, n) \in [1 .. n - m -> 0 .. p]
    BY <1>2 DEF Bytes
  <1> QED
    BY <1>1, <1>3

\* Two pieces of which one goes on where the other ends are one piece.
LEMMA BytesJoin ==
  ASSUME NEW m \in Nat, NEW n \in Nat, NEW p \in Nat, m <= n, n <= p
  PROVE  Bytes(m, n) \o Bytes(n, p) = Bytes(m, p)
  <1> DEFINE s == Bytes(m, n) \o Bytes(n, p)
  <1>1. m <= p
    OBVIOUS
  <1>2. /\ Bytes(m, n) \in Seq(Nat) /\ Len(Bytes(m, n)) = n - m
        /\ \A i \in 1 .. n - m : Bytes(m, n)[i] = m + i
    BY BytesFacts
  <1>3. /\ Bytes(n, p) \in Seq(Nat) /\ Len(Bytes(n, p)) = p - n
        /\ \A i \in 1 .. p - n : Bytes(n, p)[i] = n + i
    BY BytesFacts
  <1>4. /\ Bytes(m, p) \in Seq(Nat) /\ Len(Bytes(m, p)) = p - m
        /\ \A i \in 1 .. p - m : Bytes(m, p)[i] = m + i
    BY <1>1, BytesFacts
  <1>5. /\ s \in Seq(Nat)
        /\ Len(s) = (n - m) + (p - n)
        /\ \A i \in 1 .. (n - m) + (p - n) :
             s[i] = IF i <= n - m THEN Bytes(m, n)[i] ELSE Bytes(n, p)[i - (n - m)]
    <2> DEFINE a == Bytes(m, n)
               b == Bytes(n, p)
    <2>1. /\ a \in Seq(Nat) /\ b \in Seq(Nat) /\ s = a \o b
          /\ Len(a) = n - m /\ Len(b) = p - n
      BY <1>2, <1>3
    <2> HIDE DEF a, b, s
    <2>2. /\ s \in Seq(Nat) /\ Len(s) = Len(a) + Len(b)
          /\ \A i \in 1 .. Len(a) + Len(b) :
               s[i] = IF i <= Len(a) THEN a[i] ELSE b[i - Len(a)]
      BY ONLY <2>1, ConcatProperties
    <2> QED
      BY <2>1, <2>2 DEF a, b
  <1>6. (n - m) + (p - n) = p - m
    OBVIOUS
  <1> HIDE DEF s
  <1>7. ASSUME NEW i \in 1 .. p - m PROVE s[i] = Bytes(m, p)[i]
    <2>1. CASE i <= n - m
      <3>1. i \in 1 .. n - m
        BY <2>1
      <3>2. s[i] = m + i
        BY <1>2, <1>5, <1>6, <2>1, <3>1
      <3> QED
        BY <1>4, <3>2
    <2>2. CASE ~(i <= n - m)
      <3>1. i - (n - m) \in 1 .. p - n
        BY <2>2
      <3>2. s[i] = n + (i - (n - m))
        BY <1>3, <1>5, <1>6, <2>2, <3>1
      <3>3. n + (i - (n - m)) = m + i
        OBVIOUS
      <3> QED
        BY <1>4, <3>2, <3>3
    <2> QED
      BY <2>1, <2>2
  <1>8. s = Bytes(m, p)
    BY <1>4, <1>5, <1>6, <1>7, SeqEqual
  <1> QED
    BY <1>8 DEF s

\* A piece cut in two is two pieces.
LEMMA BytesCut ==
  ASSUME NEW m \in Nat, NEW n \in Nat, m <= n, NEW k \in 1 .. n - m
  PROVE  /\ SubSeq(Bytes(m, n), 1, k) = Bytes(m, m + k)
         /\ SubSeq(Bytes(m, n), k + 1, n - m) = Bytes(m + k, n)
  <1> DEFINE s == Bytes(m, n)
             t == SubSeq(s, 1, k)
             u == SubSeq(s, k + 1, n - m)
  <1>1. s \in Seq(Nat) /\ Len(s) = n - m /\ \A i \in 1 .. n - m : s[i] = m + i
    BY BytesFacts
  <1>2. m + k \in Nat /\ m <= m + k /\ m + k <= n /\ (m + k) - m = k
        /\ n - (m + k) = (n - m) - k
    OBVIOUS
  <1>3. /\ Bytes(m, m + k) \in Seq(Nat) /\ Len(Bytes(m, m + k)) = k
        /\ \A i \in 1 .. k : Bytes(m, m + k)[i] = m + i
    BY <1>2, BytesFacts
  <1>4. /\ Bytes(m + k, n) \in Seq(Nat) /\ Len(Bytes(m + k, n)) = (n - m) - k
        /\ \A i \in 1 .. (n - m) - k : Bytes(m + k, n)[i] = (m + k) + i
    BY <1>2, BytesFacts
  <1> HIDE DEF s
  <1>5. \A i \in 1 .. k : i \in 1 .. n - m
    OBVIOUS
  <1>6. /\ t \in Seq(Nat) /\ Len(t) = k
        /\ \A i \in 1 .. k : t[i] = s[i]
    <2>1. \A i \in 1 .. k : s[i] \in Nat
      BY <1>1, <1>5, ElementOfSeq
    <2>2. /\ t \in Seq(Nat) /\ Len(t) = IF 1 <= k THEN k - 1 + 1 ELSE 0
          /\ \A i \in 1 .. k - 1 + 1 : t[i] = s[1 + i - 1]
      BY <2>1, SubSeqProperties
    <2>3. \A i \in 1 .. k : 1 + i - 1 = i
      OBVIOUS
    <2> QED
      BY <2>2, <2>3
  <1>7. /\ u \in Seq(Nat) /\ Len(u) = (n - m) - k
        /\ \A i \in 1 .. (n - m) - k : u[i] = s[k + i]
    <2>1. \A i \in k + 1 .. n - m : s[i] \in Nat
      BY <1>1, ElementOfSeq
    <2>2. /\ u \in Seq(Nat)
          /\ Len(u) = IF k + 1 <= n - m THEN (n - m) - (k + 1) + 1 ELSE 0
          /\ \A i \in 1 .. (n - m) - (k + 1) + 1 : u[i] = s[(k + 1) + i - 1]
      BY <2>1, SubSeqProperties
    <2>3. (n - m) - (k + 1) + 1 = (n - m) - k
      OBVIOUS
    <2>4. \A i \in 1 .. (n - m) - k : (k + 1) + i - 1 = k + i
      OBVIOUS
    <2> QED
      BY <2>2, <2>3, <2>4
  <1> HIDE DEF t, u
  <1>8. t = Bytes(m, m + k)
    <2>1. \A i \in 1 .. Len(t) : t[i] = Bytes(m, m + k)[i]
      BY <1>1, <1>3, <1>5, <1>6
    <2> QED
      BY <1>3, <1>6, <2>1, SeqEqual
  <1>9. u = Bytes(m + k, n)
    <2>1. ASSUME NEW i \in 1 .. (n - m) - k PROVE u[i] = Bytes(m + k, n)[i]
      <3>1. k + i \in 1 .. n - m /\ m + (k + i) = (m + k) + i
        OBVIOUS
      <3> QED
        BY <1>1, <1>4, <1>7, <3>1
    <2> QED
      BY <1>4, <1>7, <2>1, SeqEqual
  <1> QED
    BY <1>8, <1>9 DEF t, u, s

\* The peer sends one byte more.
LEMMA BytesMore ==
  ASSUME NEW m \in Nat, NEW n \in Nat, m <= n
  PROVE  Append(Bytes(m, n), n + 1) = Bytes(m, n + 1)
  <1> DEFINE s == Append(Bytes(m, n), n + 1)
  <1>1. /\ Bytes(m, n) \in Seq(Nat) /\ Len(Bytes(m, n)) = n - m
        /\ \A i \in 1 .. n - m : Bytes(m, n)[i] = m + i
    BY BytesFacts
  <1>2. n + 1 \in Nat /\ m <= n + 1 /\ (n + 1) - m = (n - m) + 1
    OBVIOUS
  <1>3. /\ Bytes(m, n + 1) \in Seq(Nat) /\ Len(Bytes(m, n + 1)) = (n - m) + 1
        /\ \A i \in 1 .. (n - m) + 1 : Bytes(m, n + 1)[i] = m + i
    BY <1>2, BytesFacts
  <1>4. /\ s \in Seq(Nat) /\ Len(s) = (n - m) + 1
        /\ \A i \in 1 .. n - m : s[i] = Bytes(m, n)[i]
        /\ s[(n - m) + 1] = n + 1
    BY <1>1, <1>2, AppendProperties
  <1> HIDE DEF s
  <1>5. ASSUME NEW i \in 1 .. (n - m) + 1 PROVE s[i] = Bytes(m, n + 1)[i]
    <2>1. CASE i = (n - m) + 1
      BY <1>3, <1>4, <2>1
    <2>2. CASE i # (n - m) + 1
      <3>1. i \in 1 .. n - m
        BY <2>2
      <3> QED
        BY <1>1, <1>3, <1>4, <3>1
    <2> QED
      BY <2>1, <2>2
  <1>6. s = Bytes(m, n + 1)
    BY <1>3, <1>4, <1>5, SeqEqual
  <1> QED
    BY <1>6 DEF s

\* The first bytes are the beginning of all.
LEMMA BytesPrefix ==
  ASSUME NEW m \in Nat, NEW n \in Nat, m <= n
  PROVE  IsPrefix(Bytes(0, m), Bytes(0, n))
  <1>1. /\ Bytes(0, m) \in Seq(Nat) /\ Len(Bytes(0, m)) = m
        /\ Bytes(0, n) \in Seq(Nat) /\ Len(Bytes(0, n)) = n
    <2>1. 0 <= m /\ 0 <= n /\ m - 0 = m /\ n - 0 = n
      OBVIOUS
    <2> QED
      BY <2>1, BytesFacts
  <1>2. SubSeq(Bytes(0, m), 1, m) = Bytes(0, m)
    BY <1>1, SubSeqFull
  <1>3. SubSeq(Bytes(0, n), 1, m) = Bytes(0, m)
    <2>1. CASE m = 0
      BY <1>1, <2>1, SubSeqEmpty, BytesFacts
    <2>2. CASE m # 0
      BY <2>2, BytesCut
    <2> QED
      BY <2>1, <2>2
  <1> QED
    BY <1>1, <1>2, <1>3 DEF IsPrefix
-----------------------------------------------------------------------------
(***************************************************************************)
(* What the parts of the invariant say, taken apart for the provers.       *)
(***************************************************************************)

\* The types, one by one.
LEMMA TypeFacts ==
  ASSUME TypeOK
  PROVE  /\ reads \in BOOLEAN /\ writes \in BOOLEAN /\ crashed \in BOOLEAN
         /\ soon \in BOOLEAN
         /\ input \in Seq(1 .. PeerBytes) /\ wire \in Seq(1 .. PeerBytes)
         /\ output \in Seq(1 .. PeerBytes)
         /\ out \in Seq(0 .. PeerBytes) /\ received \in Seq(0 .. PeerBytes)
         /\ events \in Seq({"eof", "error", "timeout"})
         /\ sent \in Nat /\ sent <= PeerBytes /\ told \in {0, 1}
         /\ how \in Hows /\ peer \in {"open", "closed", "reset"}
         /\ slots \in {"start", "connect", "handshake", "sendrecv", "drain", "none"}
         /\ bev \in {"none", "connecting", "open", "ignored", "deleted", "forgotten"}
         /\ loop \in {"running", "left"}
  BY BytesAssumption DEF TypeOK

\* Concatenation that the provers do not look into.
Cat(s, t) == s \o t

\* Concatenation is associative and keeps the type.
LEMMA CatFacts ==
  ASSUME NEW S, NEW s \in Seq(S), NEW t \in Seq(S), NEW u \in Seq(S)
  PROVE  /\ Cat(Cat(s, t), u) = Cat(s, Cat(t, u))
         /\ Cat(s, t) \in Seq(S)
  BY ConcatAssociative, ConcatProperties DEF Cat

\* A function from the first numbers is a sequence.
LEMMA FunctionIsSeq ==
  ASSUME NEW S, NEW n \in Nat, NEW f \in [1 .. n -> S]
  PROVE  f \in Seq(S)
  OBVIOUS

\* The request is a sequence of zeros; a server that echoes has none.
LEMMA RequestFacts ==
  /\ Request \in Seq(0 .. PeerBytes) /\ Request \in Seq(Nat)
  /\ Echoes => Request = <<>>
  <1> DEFINE n == IF Echoes THEN 0 ELSE RequestBytes
  <1>1. n \in Nat /\ (Echoes => n = 0)
    BY BytesAssumption
  <1>2. Request = [i \in 1 .. n |-> 0]
    BY DEF Request
  <1> HIDE DEF n
  <1>3. Request \in [1 .. n -> 0 .. PeerBytes] /\ Request \in [1 .. n -> Nat]
    BY <1>1, <1>2, BytesAssumption
  <1>4. Request \in Seq(0 .. PeerBytes) /\ Request \in Seq(Nat)
    BY ONLY <1>1, <1>3, FunctionIsSeq
  <1>5. Echoes => Len(Request) = 0
    BY <1>1, <1>2
  <1> QED
    BY <1>4, <1>5, EmptySeq

\* Bytes that are written move from one end of a sequence to the other.
LEMMA MovedBytes ==
  ASSUME NEW S, NEW r \in Seq(S), NEW u \in Seq(S), NEW n \in 1 .. Len(u)
  PROVE  /\ SubSeq(u, 1, n) \in Seq(S) /\ SubSeq(u, n + 1, Len(u)) \in Seq(S)
         /\ Cat(r, SubSeq(u, 1, n)) \in Seq(S)
         /\ Cat(Cat(r, SubSeq(u, 1, n)), SubSeq(u, n + 1, Len(u))) = Cat(r, u)
  <1> DEFINE a == SubSeq(u, 1, n)
             b == SubSeq(u, n + 1, Len(u))
  <1>1. Len(u) \in Nat /\ \A i \in 1 .. Len(u) : u[i] \in S
    BY LenProperties, ElementOfSeq
  <1>2. a \in Seq(S)
    <2>1. \A i \in 1 .. n : u[i] \in S
      BY <1>1
    <2> QED
      BY <2>1, SubSeqProperties
  <1>3. b \in Seq(S)
    <2>1. \A i \in n + 1 .. Len(u) : u[i] \in S
      BY <1>1
    <2> QED
      BY <1>1, <2>1, SubSeqProperties
  <1>4. Cat(a, b) = u
    <2>1. /\ 1 \in 1 .. Len(u) + 1 /\ n \in 1 - 1 .. Len(u)
          /\ Len(u) \in n .. Len(u)
      BY <1>1
    <2>2. a \o b = SubSeq(u, 1, Len(u))
      BY <2>1, ConcatAdjacentSubSeq
    <2> QED
      BY <2>2, SubSeqFull DEF Cat
  <1> HIDE DEF a, b
  <1>5. Cat(Cat(r, a), b) = Cat(r, u) /\ Cat(r, a) \in Seq(S)
    <2>1. r \in Seq(S)
      OBVIOUS
    <2> QED
      BY ONLY <1>2, <1>3, <1>4, <2>1, CatFacts
  <1> QED
    BY <1>2, <1>3, <1>5 DEF a, b

\* The invariant holds when the program begins.
LEMMA Initially == Init => IInv
  <1> SUFFICES ASSUME Init PROVE IInv
    OBVIOUS
  <1>1. <<>> \in Seq(1 .. PeerBytes) /\ <<>> \in Seq(0 .. PeerBytes)
        /\ <<>> \in Seq({"eof", "error", "timeout"})
    OBVIOUS
  <1>2. TypeOK
    <2>1. /\ {reads, writes, crashed, soon} \subseteq BOOLEAN
          /\ {input, wire, output} \subseteq Seq(1 .. PeerBytes)
          /\ {out, received} \subseteq Seq(0 .. PeerBytes)
          /\ events \in Seq({"eof", "error", "timeout"})
      BY <1>1 DEF Init
    <2>2. sent \in 0 .. PeerBytes /\ told \in 0 .. 1
      BY BytesAssumption DEF Init
    <2> QED
      BY <2>1, <2>2 DEF Init, TypeOK
  <1>3. PhaseInv
    BY DEF Init, PhaseInv
  <1>4. received \o out = <<>>
    BY <1>1, ConcatEmptySeq DEF Init
  <1>5. RoleInv
    BY <1>4 DEF Init, RoleInv
  <1>6. StreamInv
    <2>1. Bytes(0, 0) = <<>>
      BY BytesFacts
    <2>2. Streamed(0, 0, 0)
      BY <1>4, <2>1 DEF Init, Streamed, Taken
    <2> QED
      BY <2>2 DEF StreamInv
  <1> QED
    BY <1>2, <1>3, <1>5, <1>6 DEF IInv
-----------------------------------------------------------------------------
(***************************************************************************)
(* The closures in the slots.                                              *)
(***************************************************************************)

\* Every step keeps what the closures say about the rest of the state.
LEMMA PhaseStep ==
  ASSUME IInv, [Next]_vars
  PROVE  PhaseInv'
  <1>1. TypeOK /\ PhaseInv
    BY DEF IInv
  <1>2. /\ told \in {0, 1} /\ events \in Seq({"eof", "error", "timeout"})
        /\ reads \in BOOLEAN /\ writes \in BOOLEAN /\ soon \in BOOLEAN
        /\ slots \in {"start", "connect", "handshake", "sendrecv", "drain", "none"}
    BY <1>1, TypeFacts
  <1>3. Len(<<>>) = 0 /\ Len(events) \in Nat
    BY <1>2, LenProperties
  <1>4. CASE Connect
    BY <1>1, <1>2, <1>4 DEF Connect, PhaseInv, flags, net, user
  <1>5. CASE Connected
    BY <1>1, <1>2, <1>5 DEF Connected, SendRecv, PhaseInv, flags, net, user
  <1>6. CASE Secured
    BY <1>1, <1>2, <1>6 DEF Secured, SendRecv, PhaseInv, flags, net, user
  <1>7. CASE ConnectFailed
    BY <1>1, <1>2, <1>7 DEF ConnectFailed, Dispose, PhaseInv, flags, net, user
  <1>8. CASE Accept
    BY <1>1, <1>2, <1>8 DEF Accept, SendRecv, PhaseInv, flags, net, user
  <1>9. CASE HandOver
    BY <1>1, <1>2, <1>9 DEF HandOver, SendRecv, PhaseInv, flags, net, user
  <1>10. CASE Read
    BY <1>1, <1>2, <1>10 DEF Read, Take, PhaseInv, flags
  <1>11. CASE Write
    BY <1>1, <1>2, <1>3, <1>11 DEF Write, Written, Tell, Dispose, PhaseInv
  <1>12. ASSUME NEW what \in {"eof", "error", "timeout"},
                NEW canread \in BOOLEAN, NEW canwrite \in BOOLEAN,
                Event(what, canread, canwrite)
         PROVE  PhaseInv'
    <2>1. Len(events') = Len(events) + 1 /\ events' # <<>>
      BY <1>2, <1>3, <1>12, AppendProperties DEF Event
    <2>2. CASE slots = "sendrecv" /\ FirstEvent(canread, canwrite)
      BY <1>1, <1>2, <1>3, <1>12, <2>1, <2>2
         DEF Event, FirstEvent, Collect, Wait, Tell, Dispose, PhaseInv
    <2>3. CASE slots = "drain" /\ SecondEvent(canread, canwrite)
      BY <1>1, <1>2, <1>3, <1>12, <2>1, <2>3
         DEF Event, SecondEvent, Tell, Dispose, PhaseInv
    <2> QED
      BY <1>12, <2>2, <2>3 DEF Event
  <1>13. CASE Eof \/ ReadError \/ WriteError \/ ReadTimeout \/ WriteTimeout
    BY <1>2, <1>12, <1>13 DEF Eof, ReadError, WriteError, ReadTimeout, WriteTimeout
  <1>14. CASE DeleteVarp
    BY <1>1, <1>2, <1>14 DEF DeleteVarp, PhaseInv, flags, net, user
  <1>15. CASE BreakTimer \/ NoEvents
    BY <1>1, <1>2, <1>15 DEF BreakTimer, NoEvents, Leave, PhaseInv, flags, net, user
  <1>16. CASE PeerSends \/ PeerEnds
    BY <1>1, <1>2, <1>16 DEF PeerSends, PeerEnds, PhaseInv, flags, user
  <1>17. CASE UNCHANGED vars
    BY <1>1, <1>17 DEF vars, PhaseInv
  <1> QED
    BY <1>4, <1>5, <1>6, <1>7, <1>8, <1>9, <1>10, <1>11, <1>13, <1>14, <1>15,
       <1>16, <1>17 DEF Next, EventLoop
-----------------------------------------------------------------------------
(***************************************************************************)
(* The bytes of the peer.                                                  *)
(***************************************************************************)

\* The stream after a step, if it is known how its pieces were cut.
LEMMA StreamedNext ==
  ASSUME NEW m \in Nat, NEW n \in Nat, NEW p \in Nat, Streamed(m, n, p)'
  PROVE  StreamInv'
  BY DEF StreamInv

\* Steps that move no byte of the peer and end nothing.
LEMMA StreamStill ==
  ASSUME StreamInv, Taken' = Taken, UNCHANGED <<input, wire, sent, peer, events>>
  PROVE  StreamInv'
  <1>1. PICK m \in Nat, n \in Nat, p \in Nat : Streamed(m, n, p)
    BY DEF StreamInv
  <1>2. Streamed(m, n, p)'
    BY <1>1 DEF Streamed
  <1> QED
    BY <1>2, StreamedNext

\* sendrecv writes its request before anything was taken.
LEMMA StreamSendRecv ==
  ASSUME IInv, slots \in {"start", "connect", "handshake"}, SendRecv,
         UNCHANGED <<how, received, output>>
  PROVE  Taken' = Taken
  <1>1. out = <<>>
    BY DEF IInv, PhaseInv
  <1>2. CASE Echoes
    <2>1. Request = <<>> /\ <<>> \o <<>> = <<>>
      BY <1>2, RequestFacts, ConcatEmptySeq
    <2>2. out' = out
      BY <1>1, <2>1 DEF SendRecv
    <2> QED
      BY <1>2, <2>2 DEF Taken, Echoes
  <1>3. CASE ~Echoes
    BY <1>3 DEF Taken, Echoes
  <1> QED
    BY <1>2, <1>3

\* Socks::connect hands over what the peer has said already.
LEMMA StreamHandOver == ASSUME IInv, HandOver PROVE StreamInv'
  <1>1. PICK k \in 0 .. PeerBytes : sent' = k /\ input' = [i \in 1 .. k |-> i]
    BY DEF HandOver
  <1>2. /\ slots = "start" /\ SendRecv /\ how \in {"handed", "handed timed"}
        /\ UNCHANGED <<how, wire, peer, received, events, output>>
    BY DEF HandOver, user
  <1>3. wire = <<>> /\ output = <<>> /\ events = <<>>
    BY <1>2 DEF IInv, PhaseInv
  <1>4. ~Echoes /\ ~Echoes'
    BY <1>2 DEF Echoes
  <1>5. k \in Nat
    BY <1>1, BytesAssumption
  <1>6. input' = Bytes(0, k)
    <2>1. k - 0 = k /\ \A i \in 1 .. k : 0 + i = i
      BY <1>5
    <2> QED
      BY <1>1, <2>1 DEF Bytes
  <1>7. Bytes(0, 0) = <<>> /\ Bytes(k, k) = <<>>
    BY <1>5, BytesFacts
  <1>8. Streamed(0, k, k)'
    <2>1. wire' = <<>> /\ output' = <<>> /\ events' = <<>>
      BY <1>2, <1>3
    <2>2. Taken' = <<>>
      BY <1>4, <2>1 DEF Taken
    <2> QED
      BY <1>1, <1>5, <1>6, <1>7, <2>1, <2>2 DEF Streamed
  <1> QED
    BY <1>5, <1>8, StreamedNext

\* What is in the input buffer when some of what is on its way has arrived.
LEMMA Arrived ==
  ASSUME NEW m \in Nat, NEW n \in Nat, NEW p \in Nat, Streamed(m, n, p),
         NEW k \in 1 .. Len(wire)
  PROVE  /\ n + k \in Nat /\ n + k <= p
         /\ SubSeq(wire, k + 1, Len(wire)) = Bytes(n + k, p)
         /\ input \o SubSeq(wire, 1, k) = Bytes(m, n + k)
  <1>1. /\ m <= n /\ n <= p /\ wire = Bytes(n, p) /\ input = Bytes(m, n)
    BY DEF Streamed
  <1>2. Len(wire) = p - n
    BY <1>1, BytesFacts
  <1>3. k \in 1 .. p - n /\ n + k \in Nat /\ n <= n + k /\ n + k <= p
    BY <1>1, <1>2
  <1>4. /\ SubSeq(wire, 1, k) = Bytes(n, n + k)
        /\ SubSeq(wire, k + 1, Len(wire)) = Bytes(n + k, p)
    <2>1. n \in Nat /\ p \in Nat /\ n <= p
      BY <1>1
    <2>2. /\ SubSeq(Bytes(n, p), 1, k) = Bytes(n, n + k)
          /\ SubSeq(Bytes(n, p), k + 1, p - n) = Bytes(n + k, p)
      BY ONLY <1>3, <2>1, BytesCut
    <2> QED
      BY <1>1, <1>2, <2>2
  <1>5. Bytes(m, n) \o Bytes(n, n + k) = Bytes(m, n + k)
    BY <1>1, <1>3, BytesJoin
  <1> QED
    BY <1>1, <1>3, <1>4, <1>5

\* sendrecv takes what is in the input buffer.
LEMMA TakenMore ==
  ASSUME TypeOK, NEW m \in Nat, NEW n \in Nat, m <= n, Taken = Bytes(0, m),
         UNCHANGED <<how, received>>,
         NEW bytes, bytes = Bytes(m, n), bytes \in Seq(0 .. PeerBytes),
         IF Echoes THEN out' = out \o bytes ELSE output' = output \o bytes
  PROVE  Taken' = Bytes(0, n)
  <1>1. Bytes(0, m) \o bytes = Bytes(0, n)
    <2>1. 0 \in Nat /\ 0 <= m
      OBVIOUS
    <2> QED
      BY <2>1, BytesJoin
  <1>2. CASE Echoes
    <2>1. out \in Seq(0 .. PeerBytes) /\ received \in Seq(0 .. PeerBytes)
      BY TypeFacts
    <2>2. (received \o out) \o bytes = received \o (out \o bytes)
      BY <2>1, ConcatAssociative
    <2> QED
      BY <1>1, <1>2, <2>2 DEF Taken, Echoes
  <1>3. CASE ~Echoes
    BY <1>1, <1>3 DEF Taken, Echoes
  <1> QED
    BY <1>2, <1>3

\* Reading moves bytes to the input buffer, and to sendrecv if it is there.
LEMMA StreamRead == ASSUME IInv, Read PROVE StreamInv'
  <1>1. PICK m \in Nat, n \in Nat, p \in Nat : Streamed(m, n, p)
    BY DEF IInv, StreamInv
  <1>2. PICK k \in 1 .. Len(wire) :
          /\ wire' = SubSeq(wire, k + 1, Len(wire))
          /\ LET bytes == input \o SubSeq(wire, 1, k) IN
               IF slots = "sendrecv"
                 THEN Take(bytes)
                 ELSE input' = bytes /\ UNCHANGED <<output, out>>
    BY DEF Read
  <1>3. UNCHANGED <<how, sent, peer, received, events>>
    BY DEF Read
  <1> DEFINE bytes == input \o SubSeq(wire, 1, k)
  <1>4. /\ n + k \in Nat /\ n + k <= p
        /\ wire' = Bytes(n + k, p) /\ bytes = Bytes(m, n + k)
    BY <1>1, <1>2, Arrived
  <1>5. /\ m <= n /\ p <= sent /\ Taken = Bytes(0, m)
        /\ p < sent => peer = "reset"
        /\ events # <<>> /\ events[1] = "eof" => m = sent /\ peer # "open"
    BY <1>1 DEF Streamed
  <1>6. m <= n + k /\ sent \in Nat /\ sent <= PeerBytes
    BY <1>5, TypeFacts DEF IInv
  <1>7. CASE slots = "sendrecv"
    <2>1. input' = <<>> /\ (IF Echoes THEN out' = out \o bytes
                                      ELSE output' = output \o bytes)
      BY <1>2, <1>7 DEF Take
    <2>2. bytes \in Seq(0 .. PeerBytes)
      <3>1. n + k <= PeerBytes
        BY <1>4, <1>5, <1>6, BytesAssumption
      <3> QED
        BY <1>4, <1>6, <3>1, BytesTyped, BytesAssumption
    <2> HIDE DEF bytes
    <2>3. Taken' = Bytes(0, n + k)
      BY <1>3, <1>4, <1>5, <1>6, <2>1, <2>2, TakenMore DEF IInv
    <2>4. events = <<>>
      BY <1>7 DEF IInv, PhaseInv
    <2>5. Bytes(n + k, n + k) = <<>>
      BY <1>4, BytesFacts
    <2>6. Streamed(n + k, n + k, p)'
      BY <1>3, <1>4, <1>5, <2>1, <2>3, <2>4, <2>5 DEF Streamed
    <2> QED
      BY <1>4, <2>6, StreamedNext
  <1>8. CASE slots # "sendrecv"
    <2>1. input' = bytes /\ UNCHANGED <<output, out>>
      BY <1>2, <1>8
    <2> HIDE DEF bytes
    <2>2. Taken' = Taken
      BY <1>3, <2>1 DEF Taken, Echoes
    <2>3. Streamed(m, n + k, p)'
      BY <1>3, <1>4, <1>5, <1>6, <2>1, <2>2 DEF Streamed
    <2> QED
      BY <1>4, <2>3, StreamedNext
  <1> QED
    BY <1>7, <1>8

\* Writing moves bytes from the output buffer to the peer.
LEMMA StreamWrite ==
  ASSUME IInv, Write
  PROVE  StreamInv' /\ received' \o out' = received \o out
  <1>1. PICK k \in 1 .. Len(out) :
          /\ received' = received \o SubSeq(out, 1, k)
          /\ out' = SubSeq(out, k + 1, Len(out))
    BY DEF Write
  <1>2. UNCHANGED <<how, input, wire, sent, peer, output, events>>
    BY DEF Write
  <1>3. out \in Seq(0 .. PeerBytes) /\ received \in Seq(0 .. PeerBytes)
    BY TypeFacts DEF IInv
  <1>4. received' \o out' = received \o out
    <2>1. Cat(Cat(received, SubSeq(out, 1, k)), SubSeq(out, k + 1, Len(out)))
            = Cat(received, out)
      BY ONLY <1>3, MovedBytes
    <2> QED
      BY ONLY <1>1, <2>1 DEF Cat
  <1>5. Taken' = Taken
    BY <1>2, <1>4 DEF Taken, Echoes
  <1> QED
    BY <1>2, <1>4, <1>5, StreamStill DEF IInv

\* The event closures collect what is in the input buffer, and an end of the
\* stream that comes first comes when all was read.
LEMMA StreamEvent ==
  ASSUME IInv, NEW what \in {"eof", "error", "timeout"},
         NEW canread \in BOOLEAN, NEW canwrite \in BOOLEAN,
         Event(what, canread, canwrite),
         wire' = wire \/ (wire' = <<>> /\ peer = "reset"),
         what = "eof" => peer = "closed" /\ wire = <<>>
  PROVE  StreamInv'
  <1>1. PICK m \in Nat, n \in Nat, p \in Nat : Streamed(m, n, p)
    BY DEF IInv, StreamInv
  <1>2. /\ m <= n /\ n <= p /\ p <= sent /\ Taken = Bytes(0, m)
        /\ input = Bytes(m, n) /\ wire = Bytes(n, p)
        /\ p < sent => peer = "reset"
        /\ events # <<>> /\ events[1] = "eof" => m = sent /\ peer # "open"
    BY <1>1 DEF Streamed
  <1>3. /\ events' = Append(events, what)
        /\ UNCHANGED <<how, out, sent, peer, received>>
    BY DEF Event
  <1>4. /\ events \in Seq({"eof", "error", "timeout"}) /\ sent \in Nat
        /\ sent <= PeerBytes
    BY TypeFacts DEF IInv
  <1>5. PICK q \in Nat : /\ n <= q /\ q <= sent /\ wire' = Bytes(n, q)
                         /\ q < sent => peer = "reset"
    <2>1. CASE wire' = wire
      BY <1>2, <2>1
    <2>2. CASE wire' = <<>> /\ peer = "reset"
      <3>1. Bytes(n, n) = <<>>
        BY BytesFacts
      <3>2. n <= n /\ n <= sent
        BY <1>2, <1>4
      <3> QED
        BY <2>2, <3>1, <3>2
    <2> QED
      BY <2>1, <2>2
  <1>6. Len(events') = Len(events) + 1 /\ Len(events) \in Nat
    BY <1>3, <1>4, AppendProperties, LenProperties
  <1>7. CASE slots = "sendrecv" /\ FirstEvent(canread, canwrite)
    <2>1. /\ output' = IF Echoes THEN output ELSE output \o input
          /\ input' = <<>>
      BY <1>7 DEF FirstEvent, Collect
    <2>2. events = <<>>
      BY <1>7 DEF IInv, PhaseInv
    <2>3. events' # <<>> /\ events'[1] = what
      <3>1. events' = <<what>>
        BY <1>3, <2>2
      <3> QED
        BY <3>1
    <2>4. Taken' = Bytes(0, n)
      <3>1. CASE Echoes
        <4>1. input = <<>>
          BY <1>7, <3>1 DEF IInv, RoleInv
        <4>2. m = n
          BY <1>2, <4>1, BytesFacts
        <4> QED
          BY <1>2, <1>3, <3>1, <4>2 DEF Taken, Echoes
      <3>2. CASE ~Echoes
        <4>1. Bytes(0, m) \o Bytes(m, n) = Bytes(0, n)
          <5>1. 0 \in Nat /\ 0 <= m
            OBVIOUS
          <5> QED
            BY <1>2, <5>1, BytesJoin
        <4> QED
          BY <1>2, <1>3, <2>1, <3>2, <4>1 DEF Taken, Echoes
      <3> QED
        BY <3>1, <3>2
    <2>5. what = "eof" => n = sent /\ peer # "open"
      <3>1. ASSUME what = "eof" PROVE n = sent /\ peer # "open"
        <4>1. n = p
          BY <1>2, <3>1, BytesFacts
        <4>2. ~(p < sent)
          BY <1>2, <3>1
        <4> QED
          BY <1>2, <1>4, <3>1, <4>1, <4>2
      <3> QED
        BY <3>1
    <2>6. Bytes(n, n) = <<>>
      BY BytesFacts
    <2>7. Streamed(n, n, q)'
      BY <1>3, <1>5, <2>1, <2>3, <2>4, <2>5, <2>6 DEF Streamed
    <2> QED
      BY <1>5, <2>7, StreamedNext
  <1>8. CASE slots = "drain" /\ SecondEvent(canread, canwrite)
    <2>1. UNCHANGED <<input, output>>
      BY <1>8 DEF SecondEvent
    <2>2. Len(events) = 1
      BY <1>8 DEF IInv, PhaseInv
    <2>3. events # <<>> /\ events'[1] = events[1]
      BY <1>3, <1>4, <2>2, AppendProperties
    <2>4. Taken' = Taken
      BY <1>3, <2>1 DEF Taken, Echoes
    <2>5. Streamed(m, n, q)'
      BY <1>2, <1>3, <1>5, <2>1, <2>3, <2>4 DEF Streamed
    <2> QED
      BY <1>5, <2>5, StreamedNext
  <1> QED
    BY <1>7, <1>8 DEF Event

\* Each of the ways in which a connection ends is such an event.
LEMMA StreamEnds ==
  ASSUME IInv, Eof \/ ReadError \/ WriteError \/ ReadTimeout \/ WriteTimeout
  PROVE  StreamInv'
  <1>1. reads \in BOOLEAN /\ writes \in BOOLEAN
    BY TypeFacts DEF IInv
  <1>2. CASE Eof
    <2>1. PICK what \in {"eof"} \cup (IF how = "ssl" THEN {"error"} ELSE {}) :
            Event(what, FALSE, writes)
      BY <1>2 DEF Eof
    <2>2. what \in {"eof", "error", "timeout"}
      BY <2>1
    <2>3. peer = "closed" /\ wire = <<>> /\ wire' = wire
      BY <1>2 DEF Eof
    <2> QED
      BY <1>1, <2>1, <2>2, <2>3, StreamEvent
  <1>3. CASE ReadError
    BY <1>1, <1>3, StreamEvent DEF ReadError
  <1>4. CASE WriteError
    BY <1>1, <1>4, StreamEvent DEF WriteError
  <1>5. CASE ReadTimeout
    BY <1>1, <1>5, StreamEvent DEF ReadTimeout
  <1>6. CASE WriteTimeout
    BY <1>1, <1>6, StreamEvent DEF WriteTimeout
  <1> QED
    BY <1>2, <1>3, <1>4, <1>5, <1>6

\* The peer sends a byte, closes or is lost.
LEMMA StreamPeer ==
  ASSUME IInv, PeerSends \/ PeerEnds
  PROVE  StreamInv'
  <1>1. PICK m \in Nat, n \in Nat, p \in Nat : Streamed(m, n, p)
    BY DEF IInv, StreamInv
  <1>2. /\ m <= n /\ n <= p /\ p <= sent /\ Taken = Bytes(0, m)
        /\ input = Bytes(m, n) /\ wire = Bytes(n, p)
        /\ p < sent => peer = "reset"
        /\ events # <<>> /\ events[1] = "eof" => m = sent /\ peer # "open"
    BY <1>1 DEF Streamed
  <1>3. UNCHANGED <<how, input, out, received, output, events>>
    BY DEF PeerSends, PeerEnds, user
  <1>4. Taken' = Taken
    BY <1>3 DEF Taken, Echoes
  <1>5. sent \in Nat
    BY TypeFacts DEF IInv
  <1>6. CASE PeerSends
    <2>1. /\ peer = "open" /\ peer' = peer /\ sent' = sent + 1
          /\ wire' = Append(wire, sent + 1)
      BY <1>6 DEF PeerSends
    <2>2. p = sent
      BY <1>2, <1>5, <2>1
    <2>3. PICK q \in Nat : q = sent + 1
      BY <1>5
    <2>4. wire' = Bytes(n, q)
      BY <1>2, <1>5, <2>1, <2>2, <2>3, BytesMore
    <2>5. n <= q /\ q <= sent' /\ ~(q < sent')
      BY <1>2, <1>5, <2>1, <2>3
    <2>6. Streamed(m, n, q)'
      BY <1>2, <1>3, <1>4, <2>1, <2>4, <2>5 DEF Streamed
    <2> QED
      BY <2>6, StreamedNext
  <1>7. CASE PeerEnds
    <2>1. UNCHANGED <<wire, sent>> /\ peer' \in {"closed", "reset"}
          /\ (peer = "reset" => peer' = "reset")
      BY <1>7 DEF PeerEnds
    <2>2. Streamed(m, n, p)'
      BY <1>2, <1>3, <1>4, <2>1 DEF Streamed
    <2> QED
      BY <2>2, StreamedNext
  <1> QED
    BY <1>6, <1>7

\* Every step keeps the pieces together.
LEMMA StreamStep ==
  ASSUME IInv, [Next]_vars
  PROVE  StreamInv'
  <1>1. StreamInv
    BY DEF IInv
  <1>2. ASSUME UNCHANGED <<how, input, out, wire, sent, peer, received, output, events>>
        PROVE  StreamInv'
    <2>1. Taken' = Taken
      BY <1>2 DEF Taken, Echoes
    <2> QED
      BY <1>1, <1>2, <2>1, StreamStill
  <1>3. ASSUME slots \in {"start", "connect", "handshake"}, SendRecv,
               UNCHANGED <<how, input, wire, sent, peer, received, output, events>>
        PROVE  StreamInv'
    BY <1>1, <1>3, StreamSendRecv, StreamStill
  <1>4. CASE Connect
    BY <1>2, <1>4 DEF Connect, net, user
  <1>5. CASE Connected
    BY <1>2, <1>3, <1>5 DEF Connected, net, user
  <1>6. CASE Secured
    BY <1>3, <1>6 DEF Secured, net, user
  <1>7. CASE ConnectFailed
    BY <1>2, <1>7 DEF ConnectFailed, net, user
  <1>8. CASE Accept
    BY <1>2, <1>3, <1>8 DEF Accept, net, user
  <1>9. CASE HandOver
    BY <1>9, StreamHandOver
  <1>10. CASE Read
    BY <1>10, StreamRead
  <1>11. CASE Write
    BY <1>11, StreamWrite
  <1>12. CASE Eof \/ ReadError \/ WriteError \/ ReadTimeout \/ WriteTimeout
    BY <1>12, StreamEnds
  <1>13. CASE DeleteVarp \/ BreakTimer \/ NoEvents
    BY <1>2, <1>13 DEF DeleteVarp, BreakTimer, NoEvents, Leave, net, user
  <1>14. CASE PeerSends \/ PeerEnds
    BY <1>14, StreamPeer
  <1>15. CASE UNCHANGED vars
    BY <1>2, <1>15 DEF vars
  <1> QED
    BY <1>4, <1>5, <1>6, <1>7, <1>8, <1>9, <1>10, <1>11, <1>12, <1>13, <1>14,
       <1>15 DEF Next, EventLoop
-----------------------------------------------------------------------------
(***************************************************************************)
(* Who sends what.                                                         *)
(***************************************************************************)

\* sendrecv leaves the request, and nothing else, to be written.
LEMMA RoleSendRecv ==
  ASSUME IInv, slots \in {"start", "connect", "handshake"}, SendRecv,
         UNCHANGED <<how, received>>
  PROVE  /\ out' = Request
         /\ Echoes => out' = <<>>
         /\ ~Echoes' => (received \o out)' \in {<<>>, Request'}
  <1>1. out = <<>> /\ received = <<>>
    BY DEF IInv, PhaseInv
  <1>2. <<>> \o Request = Request
    BY RequestFacts, ConcatEmptySeq
  <1>3. out' = Request
    BY <1>1, <1>2 DEF SendRecv
  <1>4. Request' = Request
    BY DEF Request, Echoes
  <1> QED
    BY <1>1, <1>2, <1>3, <1>4, RequestFacts DEF Echoes

\* Every step keeps what is particular to clients and to servers.
LEMMA RoleStep ==
  ASSUME IInv, [Next]_vars
  PROVE  RoleInv'
  <1>1. /\ crashed = FALSE
        /\ Echoes => output = <<>>
        /\ Echoes /\ slots = "sendrecv" => input = <<>>
        /\ ~Echoes => received \o out \in {<<>>, Request}
    BY DEF IInv, RoleInv
  <1>2. how' = how
    BY DEF Next, EventLoop, Connect, Connected, Secured, ConnectFailed, Accept,
           HandOver, Read, Write, Eof, ReadError, WriteError, ReadTimeout,
           WriteTimeout, Event, DeleteVarp, BreakTimer, NoEvents, Leave,
           PeerSends, PeerEnds, vars
  <1>3. Echoes' = Echoes /\ Request' = Request
    BY <1>2 DEF Request, Echoes
  <1>4. ASSUME UNCHANGED <<crashed, output, received, out>>,
               slots' = "sendrecv" => slots = "sendrecv",
               Echoes /\ slots = "sendrecv" => input' = <<>>
        PROVE  RoleInv'
    BY <1>1, <1>3, <1>4 DEF RoleInv
  <1>5. ASSUME slots \in {"start", "connect", "handshake"}, SendRecv,
               UNCHANGED <<crashed, output, received>>,
               Echoes => input' = <<>>
        PROVE  RoleInv'
    <2>1. ~Echoes' => (received \o out)' \in {<<>>, Request'}
      BY <1>2, <1>5, RoleSendRecv
    <2> QED
      BY <1>1, <1>3, <1>5, <2>1 DEF RoleInv
  <1>6. slots \in {"start", "connect", "handshake"} => input = <<>>
    BY DEF IInv, PhaseInv
  <1>7. CASE Connect
    BY <1>4, <1>7 DEF Connect, net, user
  <1>8. CASE Connected
    BY <1>4, <1>5, <1>6, <1>8 DEF Connected, net, user
  <1>9. CASE Secured
    BY <1>5, <1>6, <1>9 DEF Secured, net, user
  <1>10. CASE ConnectFailed
    BY <1>4, <1>10 DEF ConnectFailed, Dispose, net, user
  <1>11. CASE Accept
    BY <1>4, <1>5, <1>6, <1>11 DEF Accept, net, user
  <1>12. CASE HandOver
    BY <1>5, <1>12 DEF HandOver, Echoes, user
  <1>13. CASE Read
    <2>1. UNCHANGED <<slots, received, crashed>>
      BY <1>13 DEF Read
    <2>2. CASE slots = "sendrecv"
      <3>1. PICK bytes : Take(bytes)
        BY <1>13, <2>2 DEF Read
      <3>2. /\ input' = <<>> /\ (Echoes => output' = output)
            /\ (~Echoes => out' = out)
        BY <3>1 DEF Take
      <3> QED
        BY <1>1, <1>3, <2>1, <3>2 DEF RoleInv
    <2>3. CASE slots # "sendrecv"
      BY <1>4, <1>13, <2>1, <2>3 DEF Read
    <2> QED
      BY <2>2, <2>3
  <1>14. CASE Write
    <2>1. received' \o out' = received \o out
      BY <1>14, StreamWrite
    <2>2. UNCHANGED <<input, output, crashed>>
      BY <1>14 DEF Write
    <2>3. slots' = "sendrecv" => slots = "sendrecv"
      BY <1>14 DEF Write, Written, Tell, Dispose
    <2> QED
      BY <1>1, <1>3, <2>1, <2>2, <2>3 DEF RoleInv
  <1>15. ASSUME NEW what, NEW canread, NEW canwrite, Event(what, canread, canwrite)
         PROVE  RoleInv'
    <2>1. UNCHANGED <<out, received>>
      BY <1>15 DEF Event
    <2>2. CASE slots = "sendrecv" /\ FirstEvent(canread, canwrite)
      <3>1. slots' # "sendrecv"
        BY <2>2 DEF FirstEvent, Wait, Tell, Dispose
      <3>2. crashed' = FALSE /\ (Echoes => output' = output)
        BY <1>1, <2>2 DEF FirstEvent, Collect
      <3> QED
        BY <1>1, <1>3, <2>1, <3>1, <3>2 DEF RoleInv
    <2>3. CASE slots = "drain" /\ SecondEvent(canread, canwrite)
      <3>1. slots' # "sendrecv" /\ UNCHANGED <<output, crashed>>
        BY <2>3 DEF SecondEvent, Tell, Dispose
      <3> QED
        BY <1>1, <1>3, <2>1, <3>1 DEF RoleInv
    <2> QED
      BY <1>15, <2>2, <2>3 DEF Event
  <1>16. CASE Eof \/ ReadError \/ WriteError \/ ReadTimeout \/ WriteTimeout
    BY <1>15, <1>16 DEF Eof, ReadError, WriteError, ReadTimeout, WriteTimeout
  <1>17. CASE DeleteVarp \/ BreakTimer \/ NoEvents
    BY <1>1, <1>4, <1>17 DEF DeleteVarp, BreakTimer, NoEvents, Leave, net, user
  <1>18. CASE PeerSends \/ PeerEnds
    BY <1>1, <1>4, <1>18 DEF PeerSends, PeerEnds, user
  <1>19. CASE UNCHANGED vars
    BY <1>1, <1>4, <1>19 DEF vars
  <1> QED
    BY <1>7, <1>8, <1>9, <1>10, <1>11, <1>12, <1>13, <1>14, <1>16, <1>17,
       <1>18, <1>19 DEF Next, EventLoop
-----------------------------------------------------------------------------
(***************************************************************************)
(* The types: those of the peer's bytes follow from the cuts.              *)
(***************************************************************************)

\* The buffers hold bytes that the peer may send, because they are pieces.
LEMMA BytesStep ==
  ASSUME RoleInv', StreamInv', sent' \in Nat, sent' <= PeerBytes
  PROVE  {input', wire', output'} \subseteq Seq(1 .. PeerBytes)
  <1>1. PICK m \in Nat, n \in Nat, p \in Nat : Streamed(m, n, p)'
    BY DEF StreamInv
  <1>2. /\ m <= n /\ n <= p /\ p <= sent'
        /\ Taken' = Bytes(0, m) /\ input' = Bytes(m, n) /\ wire' = Bytes(n, p)
    BY <1>1 DEF Streamed
  <1>3. PICK q \in Nat : q = PeerBytes
    BY BytesAssumption
  <1>4. m <= q /\ n <= q /\ p <= q
    BY <1>2, <1>3
  <1>5. input' \in Seq(1 .. q)
    BY <1>2, <1>4, BytesTyped
  <1>6. wire' \in Seq(1 .. q)
    BY <1>2, <1>4, BytesTyped
  <1>7. Bytes(0, m) \in Seq(1 .. q)
    <2>1. 0 \in Nat /\ 0 <= m
      OBVIOUS
    <2> QED
      BY <1>4, <2>1, BytesTyped
  <1>8. output' \in Seq(1 .. q)
    <2>1. CASE Echoes'
      <3>1. output' = <<>>
        BY <2>1 DEF RoleInv
      <3> QED
        BY <3>1
    <2>2. CASE ~Echoes'
      BY <1>2, <1>7, <2>2 DEF Taken
    <2> QED
      BY <2>1, <2>2
  <1> QED
    BY <1>3, <1>5, <1>6, <1>8

\* The peer sends no more than it may.
LEMMA SentStep ==
  ASSUME IInv, [Next]_vars
  PROVE  sent' \in Nat /\ sent' <= PeerBytes
  <1>1. sent \in Nat /\ sent <= PeerBytes
    BY TypeFacts DEF IInv
  <1>2. CASE HandOver
    <2>1. sent' \in 0 .. PeerBytes
      BY <1>2 DEF HandOver
    <2> QED
      BY <2>1, BytesAssumption
  <1>3. CASE PeerSends
    BY <1>1, <1>3, BytesAssumption DEF PeerSends
  <1>4. CASE Next /\ ~HandOver /\ ~PeerSends
    <2>1. sent' = sent
      BY <1>4 DEF Next, EventLoop, Connect, Connected, Secured, ConnectFailed,
             Accept, Read, Write, Eof, ReadError, WriteError, ReadTimeout,
             WriteTimeout, Event, DeleteVarp, BreakTimer, NoEvents, Leave,
             PeerEnds, net
    <2> QED
      BY <1>1, <2>1
  <1>5. CASE UNCHANGED vars
    BY <1>1, <1>5 DEF vars
  <1> QED
    BY <1>2, <1>3, <1>4, <1>5

\* What is written and what is to be written.
LEMMA OutStep ==
  ASSUME IInv, [Next]_vars
  PROVE  out' \in Seq(0 .. PeerBytes) /\ received' \in Seq(0 .. PeerBytes)
  <1>1. out \in Seq(0 .. PeerBytes) /\ received \in Seq(0 .. PeerBytes)
    BY TypeFacts DEF IInv
  <1>2. ASSUME SendRecv, UNCHANGED received
        PROVE  out' \in Seq(0 .. PeerBytes) /\ received' \in Seq(0 .. PeerBytes)
    BY <1>1, <1>2, RequestFacts, ConcatProperties DEF SendRecv
  <1>3. CASE Connected
    BY <1>1, <1>2, <1>3 DEF Connected, net
  <1>4. CASE Secured
    BY <1>2, <1>4 DEF Secured, net
  <1>5. CASE Accept
    BY <1>1, <1>2, <1>5 DEF Accept, net
  <1>6. CASE HandOver
    BY <1>2, <1>6 DEF HandOver
  <1>7. CASE Read
    <2>1. PICK m \in Nat, n \in Nat, p \in Nat : Streamed(m, n, p)
      BY DEF IInv, StreamInv
    <2>2. PICK k \in 1 .. Len(wire) :
            LET bytes == input \o SubSeq(wire, 1, k) IN
              IF slots = "sendrecv" THEN Take(bytes)
                                    ELSE input' = bytes /\ UNCHANGED <<output, out>>
      BY <1>7 DEF Read
    <2> DEFINE bytes == input \o SubSeq(wire, 1, k)
    <2>3. received' = received /\ (out' = out \/ out' = out \o bytes)
      BY <1>7, <2>2 DEF Read, Take
    <2>4. n + k \in Nat /\ n + k <= p /\ bytes = Bytes(m, n + k)
      BY <2>1, <2>2, Arrived
    <2>5. m <= n + k /\ p <= PeerBytes
      <3>1. m <= n /\ p <= sent
        BY <2>1 DEF Streamed
      <3>2. sent \in Nat /\ sent <= PeerBytes
        BY TypeFacts DEF IInv
      <3> QED
        BY <2>2, <2>4, <3>1, <3>2, BytesAssumption
    <2>6. PICK q \in Nat : q = PeerBytes
      BY BytesAssumption
    <2> HIDE DEF bytes
    <2>7. bytes \in Seq(0 .. q)
      <3>1. n + k <= q
        BY <2>4, <2>5, <2>6
      <3> QED
        BY <2>4, <2>5, <3>1, BytesTyped
    <2>8. out \o bytes \in Seq(0 .. PeerBytes)
      BY <1>1, <2>6, <2>7, ConcatProperties
    <2> QED
      BY <1>1, <2>3, <2>8
  <1>8. CASE Write
    <2>1. PICK k \in 1 .. Len(out) :
            /\ received' = received \o SubSeq(out, 1, k)
            /\ out' = SubSeq(out, k + 1, Len(out))
      BY <1>8 DEF Write
    <2>2. /\ SubSeq(out, k + 1, Len(out)) \in Seq(0 .. PeerBytes)
          /\ Cat(received, SubSeq(out, 1, k)) \in Seq(0 .. PeerBytes)
      BY ONLY <1>1, MovedBytes
    <2> QED
      BY <2>1, <2>2 DEF Cat
  <1>9. CASE UNCHANGED <<out, received>>
    BY <1>1, <1>9
  <1>10. CASE Connect \/ ConnectFailed \/ DeleteVarp \/ BreakTimer \/ NoEvents
    BY <1>9, <1>10 DEF Connect, ConnectFailed, DeleteVarp, BreakTimer, NoEvents,
                       Leave, net
  <1>11. CASE Eof \/ ReadError \/ WriteError \/ ReadTimeout \/ WriteTimeout
    BY <1>9, <1>11 DEF Eof, ReadError, WriteError, ReadTimeout, WriteTimeout, Event
  <1>12. CASE PeerSends \/ PeerEnds \/ UNCHANGED vars
    BY <1>9, <1>12 DEF PeerSends, PeerEnds, vars
  <1> QED
    BY <1>3, <1>4, <1>5, <1>6, <1>7, <1>8, <1>10, <1>11, <1>12
       DEF Next, EventLoop

\* The callback of sendrecv is called by closures that are cleared by it.
LEMMA ToldStep ==
  ASSUME IInv, [Next]_vars
  PROVE  told' \in {0, 1} /\ events' \in Seq({"eof", "error", "timeout"})
  <1>1. told \in {0, 1} /\ events \in Seq({"eof", "error", "timeout"})
    BY TypeFacts DEF IInv
  <1>2. slots # "none" => told = 0
    BY <1>1 DEF IInv, PhaseInv
  <1>3. CASE UNCHANGED <<told, events>>
    BY <1>1, <1>3
  <1>4. CASE Write
    <2>1. events' = events /\ Written(out')
      BY <1>4 DEF Write
    <2>2. told' = told \/ (slots = "drain" /\ told' = told + 1)
      BY <2>1 DEF Written, Tell
    <2> QED
      BY <1>1, <1>2, <2>1, <2>2
  <1>5. ASSUME NEW what \in {"eof", "error", "timeout"}, NEW canread, NEW canwrite,
               Event(what, canread, canwrite)
        PROVE  told' \in {0, 1} /\ events' \in Seq({"eof", "error", "timeout"})
    <2>1. told' \in {told, told + 1} /\ slots # "none"
      BY <1>5 DEF Event, FirstEvent, SecondEvent, Tell
    <2>2. events' \in Seq({"eof", "error", "timeout"})
      BY <1>1, <1>5, AppendProperties DEF Event
    <2> QED
      BY <1>2, <2>1, <2>2
  <1>6. CASE Eof \/ ReadError \/ WriteError \/ ReadTimeout \/ WriteTimeout
    BY <1>5, <1>6 DEF Eof, ReadError, WriteError, ReadTimeout, WriteTimeout
  <1>7. CASE Next /\ ~Write
               /\ ~(Eof \/ ReadError \/ WriteError \/ ReadTimeout \/ WriteTimeout)
    BY <1>3, <1>7 DEF Next, EventLoop, Connect, Connected, Secured, ConnectFailed,
       Accept, HandOver, Read, DeleteVarp, BreakTimer, NoEvents, Leave, PeerSends,
       PeerEnds, user
  <1>8. CASE UNCHANGED vars
    BY <1>3, <1>8 DEF vars
  <1> QED
    BY <1>4, <1>6, <1>7, <1>8

\* The variables with few values.
LEMMA FlagsStep ==
  ASSUME IInv, [Next]_vars
  PROVE  /\ how' \in Hows
         /\ slots' \in {"start", "connect", "handshake", "sendrecv", "drain", "none"}
         /\ bev' \in {"none", "connecting", "open", "ignored", "deleted", "forgotten"}
         /\ reads' \in BOOLEAN /\ writes' \in BOOLEAN /\ soon' \in BOOLEAN
         /\ peer' \in {"open", "closed", "reset"}
         /\ loop' \in {"running", "left"}
  <1> DEFINE Same == /\ how' = how /\ soon' \in {soon, TRUE}
                     /\ peer' \in {peer, "closed", "reset"}
                     /\ loop' \in {loop, "left"}
             Slots == slots' \in {slots, "connect", "handshake", "sendrecv", "drain", "none"}
             Bev == bev' \in {bev, "connecting", "open", "ignored", "deleted", "forgotten"}
             Flags == /\ reads' \in {reads, TRUE, FALSE}
                      /\ writes' \in {writes, TRUE, FALSE}
  <1>1. /\ how \in Hows
        /\ slots \in {"start", "connect", "handshake", "sendrecv", "drain", "none"}
        /\ bev \in {"none", "connecting", "open", "ignored", "deleted", "forgotten"}
        /\ reads \in BOOLEAN /\ writes \in BOOLEAN /\ soon \in BOOLEAN
        /\ peer \in {"open", "closed", "reset"}
        /\ loop \in {"running", "left"}
    BY TypeFacts DEF IInv
  <1> SUFFICES Same /\ Slots /\ Bev /\ Flags
    <2>1. Slots => slots' \in {"start", "connect", "handshake", "sendrecv", "drain", "none"}
      BY <1>1
    <2>2. Bev => bev' \in {"none", "connecting", "open", "ignored", "deleted", "forgotten"}
      BY <1>1
    <2>3. Flags => reads' \in BOOLEAN /\ writes' \in BOOLEAN
      BY <1>1
    <2>4. Same => /\ how' \in Hows /\ soon' \in BOOLEAN
                  /\ peer' \in {"open", "closed", "reset"}
                  /\ loop' \in {"running", "left"}
      BY <1>1
    <2> QED
      BY <2>1, <2>2, <2>3, <2>4
  <1>2. ASSUME NEW what, NEW canread \in BOOLEAN, NEW canwrite \in BOOLEAN,
               Event(what, canread, canwrite)
        PROVE  Same /\ Slots /\ Bev /\ Flags
    BY <1>1, <1>2 DEF Event, FirstEvent, SecondEvent, Wait, Tell, Dispose
  <1>3. CASE Eof \/ ReadError \/ WriteError \/ ReadTimeout \/ WriteTimeout
    <2>1. FALSE \in BOOLEAN
      OBVIOUS
    <2>2. CASE Eof
      <3>1. PICK what : Event(what, FALSE, writes)
        BY <2>2 DEF Eof
      <3> QED
        BY <1>1, <1>2, <2>1, <3>1
    <2>3. CASE ReadError
      BY <1>1, <1>2, <2>1, <2>3 DEF ReadError
    <2>4. CASE WriteError
      BY <1>1, <1>2, <2>1, <2>4 DEF WriteError
    <2>5. CASE ReadTimeout
      BY <1>1, <1>2, <2>1, <2>5 DEF ReadTimeout
    <2>6. CASE WriteTimeout
      BY <1>1, <1>2, <2>1, <2>6 DEF WriteTimeout
    <2> QED
      BY <1>3, <2>2, <2>3, <2>4, <2>5, <2>6
  <1>4. CASE Connected \/ Secured \/ Accept \/ HandOver
    BY <1>4 DEF Connected, Secured, Accept, HandOver, SendRecv, net
  <1>5. CASE Connect \/ ConnectFailed \/ DeleteVarp \/ BreakTimer \/ NoEvents
    BY <1>5 DEF Connect, ConnectFailed, Dispose, DeleteVarp, BreakTimer, NoEvents,
                Leave, flags, net
  <1>6. CASE Write
    BY <1>6 DEF Write, Written, Tell, Dispose
  <1>7. CASE Read
    BY <1>7 DEF Read, flags
  <1>8. CASE PeerSends \/ PeerEnds
    BY <1>8 DEF PeerSends, PeerEnds, flags
  <1>9. CASE UNCHANGED vars
    BY <1>9 DEF vars
  <1> QED
    BY <1>3, <1>4, <1>5, <1>6, <1>7, <1>8, <1>9 DEF Next, EventLoop

\* The invariant is inductive.
LEMMA Step == IInv /\ [Next]_vars => IInv'
  <1> SUFFICES ASSUME IInv, [Next]_vars PROVE IInv'
    OBVIOUS
  <1>1. PhaseInv' /\ RoleInv' /\ StreamInv'
    BY PhaseStep, RoleStep, StreamStep
  <1>2. sent' \in Nat /\ sent' <= PeerBytes
    BY SentStep
  <1>3. {input', wire', output'} \subseteq Seq(1 .. PeerBytes)
    BY <1>1, <1>2, BytesStep
  <1>4. out' \in Seq(0 .. PeerBytes) /\ received' \in Seq(0 .. PeerBytes)
    BY OutStep
  <1>5. told' \in {0, 1} /\ events' \in Seq({"eof", "error", "timeout"})
    BY ToldStep
  <1>6. /\ how' \in Hows
        /\ slots' \in {"start", "connect", "handshake", "sendrecv", "drain", "none"}
        /\ bev' \in {"none", "connecting", "open", "ignored", "deleted", "forgotten"}
        /\ reads' \in BOOLEAN /\ writes' \in BOOLEAN /\ soon' \in BOOLEAN
        /\ peer' \in {"open", "closed", "reset"}
        /\ loop' \in {"running", "left"}
    BY FlagsStep
  <1>7. crashed' \in BOOLEAN
    BY <1>1 DEF RoleInv
  <1>8. sent' \in 0 .. PeerBytes /\ told' \in 0 .. 1
    BY <1>2, <1>5, BytesAssumption
  <1>9. TypeOK'
    BY <1>3, <1>4, <1>5, <1>6, <1>7, <1>8 DEF TypeOK
  <1> QED
    BY <1>1, <1>9 DEF IInv
-----------------------------------------------------------------------------
(***************************************************************************)
(* The properties.                                                         *)
(***************************************************************************)

\* A sequence is a prefix of what begins with it.
LEMMA CatPrefix ==
  ASSUME NEW S, NEW s \in Seq(S), NEW t \in Seq(S)
  PROVE  IsPrefix(s, s \o t)
  <1>1. Len(s) \in Nat /\ Len(t) \in Nat /\ \A i \in 1 .. Len(s) : s[i] \in S
    BY LenProperties, ElementOfSeq
  <1>2. PICK c : c = s \o t
    OBVIOUS
  <1>3. /\ c \in Seq(S) /\ Len(c) = Len(s) + Len(t)
        /\ \A i \in 1 .. Len(s) : c[i] = s[i]
    <2>1. /\ c \in Seq(S) /\ Len(c) = Len(s) + Len(t)
          /\ \A i \in 1 .. Len(s) + Len(t) :
               c[i] = IF i <= Len(s) THEN s[i] ELSE t[i - Len(s)]
      BY <1>2, ConcatProperties
    <2>2. \A i \in 1 .. Len(s) : i \in 1 .. Len(s) + Len(t)
      BY <1>1
    <2> QED
      BY <2>1, <2>2
  <1>4. Len(s) <= Len(c)
    BY <1>1, <1>3
  <1>5. SubSeq(s, 1, Len(s)) = s
    BY SubSeqFull
  <1>6. SubSeq(c, 1, Len(s)) = s
    <2> DEFINE u == SubSeq(c, 1, Len(s))
    <2>1. PICK k \in Nat : k = Len(s)
      BY <1>1
    <2>2. \A i \in 1 .. k : c[i] \in S
      BY <1>1, <1>3, <2>1
    <2>3. /\ u \in Seq(S) /\ Len(u) = (IF 1 <= k THEN k - 1 + 1 ELSE 0)
          /\ \A i \in 1 .. k - 1 + 1 : u[i] = c[1 + i - 1]
      BY <2>1, <2>2, SubSeqProperties
    <2>4. k - 1 + 1 = k /\ \A i \in 1 .. k : 1 + i - 1 = i
      OBVIOUS
    <2> HIDE DEF u
    <2>5. Len(u) = Len(s) /\ \A i \in 1 .. Len(s) : u[i] = s[i]
      BY <1>3, <2>1, <2>3, <2>4
    <2>6. u = s
      BY <2>3, <2>5, SeqEqual
    <2> QED
      BY <2>6 DEF u
  <1> QED
    BY <1>2, <1>4, <1>5, <1>6 DEF IsPrefix

\* The empty sequence is a prefix of every other.
LEMMA EmptyPrefix ==
  ASSUME NEW S, NEW t \in Seq(S)
  PROVE  IsPrefix(<<>>, t)
  <1>1. <<>> \in Seq(S) /\ <<>> \o t = t
    BY ConcatEmptySeq
  <1> QED
    BY <1>1, CatPrefix

\* The invariant holds in every execution.
THEOREM Invariant == Spec => []IInv
  BY Initially, Step, PTL DEF Spec

\* The variables keep their types: the callback of sendrecv is called at most
\* once, and the bytes in the buffers are bytes of the peer or of the request
\* (evhelpers.hpp:119-172).
THEOREM TypeCorrect == Spec => []TypeOK
  <1>1. IInv => TypeOK
    BY DEF IInv
  <1> QED
    BY <1>1, Invariant, PTL

\* What is collected or echoed is what the peer sent, in order; it is all of
\* it if the callback is called because the peer closed, and then the peer got
\* all that was to be written unless a second event interrupted it
\* (evhelpers.hpp:119-172).
THEOREM Exchange == Spec => []Exchanged
  <1>1. ASSUME IInv PROVE Exchanged
    <2>1. PICK m \in Nat, n \in Nat, p \in Nat : Streamed(m, n, p)
      BY <1>1 DEF IInv, StreamInv
    <2>2. /\ Taken = Bytes(0, m)
          /\ events # <<>> /\ events[1] = "eof" => m = sent
          /\ m <= n /\ n <= p /\ p <= sent
      BY <2>1 DEF Streamed
    <2>3. sent \in Nat /\ told \in {0, 1} /\ events \in Seq({"eof", "error", "timeout"})
      BY <1>1, TypeFacts DEF IInv
    <2>4. m <= sent
      BY <2>2, <2>3
    <2>5. Stream = Bytes(0, sent)
      <3>1. sent - 0 = sent /\ \A i \in 1 .. sent : 0 + i = i
        BY <2>3
      <3> QED
        BY <3>1 DEF Stream, Bytes
    <2>6. IsPrefix(Bytes(0, m), Stream)
      BY <2>3, <2>4, <2>5, BytesPrefix
    <2>7. Stream \in Seq(Nat) /\ <<>> \in Seq(Nat)
      <3>1. 0 \in Nat /\ 0 <= sent
        BY <2>3
      <3> QED
        BY <2>3, <2>5, <3>1, BytesFacts
    <2>8. CASE Echoes
      <3>1. output = <<>>
        BY <1>1, <2>8 DEF IInv, RoleInv
      <3>2. IsPrefix(output, Stream)
        BY <2>7, <3>1, EmptyPrefix
      <3>3. Request \o Stream = Stream
        BY <2>7, <2>8, RequestFacts, ConcatEmptySeq
      <3>4. received \o out = Bytes(0, m)
        BY <2>2, <2>8 DEF Taken
      <3> QED
        BY <1>1, <2>2, <2>3, <2>5, <2>6, <2>8, <3>2, <3>3, <3>4
           DEF IInv, PhaseInv, Exchanged
    <2>9. CASE ~Echoes
      <3>1. output = Bytes(0, m)
        BY <2>2, <2>9 DEF Taken
      <3>2. received \o out \in {<<>>, Request}
        BY <1>1, <2>9 DEF IInv, RoleInv
      <3>3. IsPrefix(received \o out, Request \o Stream)
        <4>1. Request \in Seq(Nat)
          BY RequestFacts
        <4>2. Request \o Stream \in Seq(Nat)
          BY <2>7, <4>1, ConcatProperties
        <4>3. IsPrefix(Request, Request \o Stream)
          BY <2>7, <4>1, CatPrefix
        <4>4. IsPrefix(<<>>, Request \o Stream)
          BY <4>2, EmptyPrefix
        <4> QED
          BY <3>2, <4>3, <4>4
      <3> QED
        BY <1>1, <2>2, <2>3, <2>5, <2>6, <2>9, <3>1, <3>3
           DEF IInv, PhaseInv, Exchanged
    <2> QED
      BY <2>8, <2>9
  <1> QED
    BY <1>1, Invariant, PTL

\* A server that echoes never uses its null output string
\* (evhelpers.hpp:134-138).
THEOREM NoNull == Spec => []NoNullOutput
  <1>1. IInv => NoNullOutput
    BY DEF IInv, RoleInv, NoNullOutput
  <1> QED
    BY <1>1, Invariant, PTL

\* The two seconds of break_soon are enough: nothing is left to be deleted when
\* its timer leaves the event loop (evhelpers.hpp:55-61).
THEOREM Collects == Spec => BreakSoonCollects
  <1>1. IInv /\ [Next]_vars => [BreakTimer => bev \in {"deleted", "forgotten"}]_vars
    BY DEF IInv, PhaseInv, BreakTimer, DeleteDelay, BreakDelay
  <1> QED
    BY <1>1, Invariant, PTL DEF Spec, BreakSoonCollects
=============================================================================
