------------------------------ MODULE Evbuffer ------------------------------
(***************************************************************************)
(* Evbuffer (src/src/common/libevent.hpp): a buffer of bytes that libevent *)
(* keeps in extents, pieces of memory whose limits are those of the reads  *)
(* and writes that filled it.  What is added to one buffer, `src`, is      *)
(* moved to another, `dst`, as a Bufferevent's input is, and taken from    *)
(* there.                                                                  *)
(*                                                                         *)
(* The class walks over the extents itself to copy bytes out, and removes  *)
(* and reads lines on top of that; the rest is libevent's, which fails     *)
(* only when it has no memory.                                             *)
(***************************************************************************)
EXTENDS Sequences, SequencesExt, Integers

CONSTANTS
    Bytes,     \* the bytes that are added
    Shorts,    \* the numbers passed to add_uint16
    MaxChunk,  \* how many bytes are added at once
    MaxBytes   \* how many bytes are ever added

CR == 13
LF == 10

\* How many numbers fit into the 16 bits that add_uint16 adds.
ShortModulus == 65536

ASSUME BytesAssumption == Bytes \subseteq 0 .. 255
ASSUME ShortsAssumption == Shorts \subseteq 0 .. ShortModulus - 1
ASSUME MaxAssumption == MaxChunk \in Nat /\ MaxBytes \in Nat

VARIABLES
    src, dst,  \* the buffers, sequences of extents
    added,     \* all bytes ever added
    taken,     \* all bytes ever taken
    line       \* what readln returned last

vars == <<src, dst, added, taken, line>>

Chunks == UNION {[1 .. n -> Bytes] : n \in 1 .. MaxChunk}

Content(extents) ==
    LET upto[i \in 0 .. Len(extents)] ==
          IF i = 0 THEN <<>> ELSE upto[i - 1] \o extents[i]
    IN upto[Len(extents)]

Length(extents) == Len(Content(extents))

Least(a, b) == IF a <= b THEN a ELSE b

Init ==
    /\ src = <<>> /\ dst = <<>>
    /\ added = <<>> /\ taken = <<>>
    /\ line = <<>>
-----------------------------------------------------------------------------
(***************************************************************************)
(* libevent, which is not part of the repository.                          *)
(***************************************************************************)

\* The cut of the extents so far behind the first bytes, and one extent more.
CutMore(cut, e) ==
    LET n == Least(cut.left, Len(e)) IN
    [left |-> cut.left - n,
     moved |-> IF n = 0 THEN cut.moved ELSE Append(cut.moved, SubSeq(e, 1, n)),
     rest |-> IF n = Len(e) THEN cut.rest
              ELSE Append(cut.rest, SubSeq(e, n + 1, Len(e)))]

\* The extents, cut behind the first n bytes or behind all there are.
Cut(extents, n) ==
    LET upto[i \in 0 .. Len(extents)] ==
          IF i = 0 THEN [left |-> n, moved |-> <<>>, rest |-> <<>>]
          ELSE CutMore(upto[i - 1], extents[i])
    IN upto[Len(extents)]

\* evbuffer_remove_buffer: the first n bytes, in the extents they are in.
Moved(extents, n) == Cut(extents, n).moved

\* evbuffer_drain: the first n bytes go.
Drained(extents, n) == Cut(extents, n).rest

\* evbuffer_search_eol with EVBUFFER_EOL_CRLF: where the end of the first line
\* begins and how long it is; pos is -1 if no line has ended.
SearchEol(extents) ==
    LET c == Content(extents)
        ends == {i \in DOMAIN c : c[i] = LF}
    IN IF ends = {} THEN [pos |-> -1, length |-> 0]
       ELSE LET e == CHOOSE i \in ends : \A j \in ends : i <= j
                cr == e > 1 /\ c[e - 1] = CR
            IN IF cr THEN [pos |-> e - 2, length |-> 2]
                     ELSE [pos |-> e - 1, length |-> 1]
-----------------------------------------------------------------------------
(***************************************************************************)
(* The class.                                                              *)
(***************************************************************************)

\* The function of copyout that takes of every extent as much as it may.
CopyEach(acc, e) ==
    LET n == Least(acc.upto, Len(e)) IN
    [out |-> acc.out \o SubSeq(e, 1, n), upto |-> acc.upto, more |-> acc.upto > 0]

\* The function that copyout passes to for_each_.
Copy(acc, e) ==
    LET n == Least(acc.upto, Len(e)) IN
    [out |-> acc.out \o SubSeq(e, 1, n),
     upto |-> acc.upto - n,
     more |-> acc.upto - n > 0]

\* copyout: for_each_ calls that function for one extent after the other, until
\* it returns false.
Copyout(extents, upto) ==
    LET after[i \in 0 .. Len(extents)] ==
          IF i = 0 THEN [out |-> <<>>, upto |-> upto, more |-> TRUE]
          ELSE LET acc == after[i - 1] IN
               IF acc.more THEN Copy(acc, extents[i]) ELSE acc
    IN after[Len(extents)].out

\* The bytes that remove returns, and what it leaves when it drains too many.
RemovedAll(extents, upto) ==
    [out |-> Copyout(extents, upto), rest |-> Drained(extents, upto + 1)]

\* The bytes that remove returns, and what it leaves: it drains what copyout
\* returned.
Removed(extents, upto) ==
    LET out == Copyout(extents, upto) IN
    [out |-> out,
     rest |-> IF out # <<>> THEN Drained(extents, Len(out)) ELSE extents]

\* readln that leaves the end of the line in the buffer.
ReadlnKeepsEol(extents) ==
    LET eol == SearchEol(extents) IN
    IF eol.pos < 0
      THEN [out |-> <<>>, eol |-> <<>>, rest |-> extents]
      ELSE LET r == Removed(extents, eol.pos) IN
           [out |-> r.out, eol |-> <<>>, rest |-> r.rest]

\* readln, with the end of the line it drains: the empty string if no line has
\* ended, or if an empty one has.
ReadLine(extents) ==
    LET eol == SearchEol(extents) IN
    IF eol.pos < 0
      THEN [out |-> <<>>, eol |-> <<>>, rest |-> extents]
      ELSE LET r == Removed(extents, eol.pos) IN
           [out |-> r.out,
            eol |-> Copyout(r.rest, eol.length),
            rest |-> Drained(r.rest, eol.length)]

\* What a caller is given, and what is left of dst.
Take(bytes, rest) ==
    /\ dst' = rest
    /\ taken' = taken \o bytes
    /\ UNCHANGED <<src, added>>

\* add, of bytes that arrive from the network too: libevent may put them into
\* the extent that is there or into a new one.
AddBytes(bytes) ==
    /\ Len(added) + Len(bytes) <= MaxBytes
    /\ \/ src' = Append(src, bytes)
       \/ /\ src # <<>>
          /\ src' = [src EXCEPT ![Len(src)] = @ \o bytes]
    /\ added' = added \o bytes
    /\ UNCHANGED <<dst, taken, line>>

Add == \E bytes \in Chunks : AddBytes(bytes)

\* add_uint16 that does not cut the number into bytes.
AddUint16Whole == \E num \in Shorts : AddBytes(<<num \div 256, num>>)

\* add_uint16: htons.
AddUint16 == \E num \in Shorts : AddBytes(<<num \div 256, num % 256>>)

\* add_buffer of all that is in src, as read_buffer and write_buffer do.
AddBuffer ==
    /\ dst' = dst \o src
    /\ src' = <<>>
    /\ UNCHANGED <<added, taken, line>>

\* src->remove_buffer(dst, count).
RemoveBuffer ==
    \E count \in 1 .. MaxChunk :
        /\ dst' = dst \o Moved(src, count)
        /\ src' = Drained(src, count)
        /\ UNCHANGED <<added, taken, line>>

RemoveBytes ==
    \E upto \in 0 .. MaxChunk :
        /\ LET r == Removed(dst, upto) IN Take(r.out, r.rest)
        /\ UNCHANGED line

Drain ==
    \E n \in 0 .. MaxChunk :
        /\ Take(SubSeq(Content(dst), 1, Least(n, Length(dst))), Drained(dst, n))
        /\ UNCHANGED line

Readln ==
    LET r == ReadLine(dst) IN
    /\ line' = r.out
    /\ Take(r.out \o r.eol, r.rest)

Next == Add \/ AddUint16 \/ AddBuffer \/ RemoveBuffer \/ RemoveBytes \/ Drain \/ Readln

Spec == Init /\ [][Next]_vars
-----------------------------------------------------------------------------
\* The variables have their types; no extent is empty.
TypeOK ==
    /\ {src, dst} \subseteq Seq(Seq(0 .. 255) \ {<<>>})
    /\ {added, taken, line} \subseteq Seq(0 .. 255)

\* Nothing is lost, doubled or reordered on the way: what was taken, what is in
\* the one buffer and what is in the other is what was added
\* (libevent.hpp:178-197, 249-265).
Conserved == taken \o Content(dst) \o Content(src) = added

\* copyout returns the first bytes of the buffer, however they are spread over
\* extents, and remove returns the same and leaves the others
\* (libevent.hpp:223-255).
CopyoutExact ==
    \A upto \in 0 .. MaxBytes :
        LET c == Content(dst)
            n == Least(upto, Len(c))
        IN /\ Copyout(dst, upto) = SubSeq(c, 1, n)
           /\ Removed(dst, upto).out = SubSeq(c, 1, n)
           /\ Content(Removed(dst, upto).rest) = SubSeq(c, n + 1, Len(c))

\* readln takes a whole line with its end, be it split over extents, and
\* returns the line without its end; if no line has ended it takes nothing
\* (libevent.hpp:267-279; libevent-unit.cpp:384-393).
ReadlnExact ==
    [][Readln =>
         LET c == Content(dst) IN
         IF LF \in Range(c)
           THEN \E eol \in {<<LF>>, <<CR, LF>>} :
                  /\ c = line' \o eol \o Content(dst')
                  /\ LF \notin Range(line')
                  /\ eol = <<LF>> /\ line' # <<>> => Last(line') # CR
           ELSE line' = <<>> /\ dst' = dst]_vars
=============================================================================
