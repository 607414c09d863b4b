----------------------------- MODULE Evhelpers -----------------------------
(***************************************************************************)
(* The helpers with which the programs of the repository talk to a peer    *)
(* (src/src/common/evhelpers.hpp): a connection is made by connect, by     *)
(* ssl_connect or by listen_once_and_dispatch, or is handed over by        *)
(* Socks::connect; sendrecv writes a request, collects or echoes what      *)
(* comes back, and calls back when the connection is over and everything   *)
(* is written; the callback then calls break_soon.                         *)
(*                                                                         *)
(* One step is one callback of the event loop, with what libevent does     *)
(* before it and with the disposal of a Bufferevent that nobody refers to  *)
(* after it, or one step of the peer.                                      *)
(***************************************************************************)
EXTENDS Sequences, SequencesExt, Naturals

CONSTANTS
    PeerBytes,    \* how many bytes the peer sends at most
    RequestBytes  \* how many bytes the request has

ASSUME BytesAssumption == PeerBytes \in Nat /\ RequestBytes \in Nat

\* How the programs get their connection; sendrecv is given timeouts for the one
\* that is "handed timed".
Hows == {"connect", "ssl", "listen", "handed", "handed timed"}

\* After how many microseconds timers expire: the one that deletes a Bufferevent
\* that is ignored, and the one of break_soon.
DeleteDelay == 0

BreakAtOnce == 0

BreakDelay == 2000002

VARIABLES
    how,       \* how this program gets its connection
    slots,     \* the closures in the slots of the Bufferevent
    bev,       \* the Bufferevent; ignored: its deletion is scheduled
    reads,     \* EV_READ is enabled
    writes,    \* EV_WRITE is enabled
    input,     \* the input buffer
    out,       \* the output buffer
    wire,      \* what the peer sent and was not read yet
    sent,      \* how many bytes the peer has sent: it sends 1, 2, 3...
    peer,      \* open; closed: it will send no more; reset: it is gone
    received,  \* what the peer was sent
    output,    \* the string sendrecv appends to, if it was given one
    events,    \* the events the closures of sendrecv were called with
    told,      \* how often the callback of sendrecv was called
    crashed,   \* a null pointer to the output string was used
    soon,      \* the timer of break_soon is set
    loop       \* the event loop: it runs, or dispatch has returned

vars == <<how, slots, bev, reads, writes, input, out, wire, sent, peer,
          received, output, events, told, crashed, soon, loop>>

flags == <<reads, writes>>
net == <<wire, sent, peer, received>>
user == <<output, told, crashed>>

\* The programs that connect pass an output string; the one that listens echoes.
Echoes == how = "listen"

\* connect sets timeouts, and sendrecv those it is given, as it is by the program
\* that listens; a connection from Socks::connect has none of its own.
Timed == how # "handed"

Request == [i \in 1 .. (IF Echoes THEN 0 ELSE RequestBytes) |-> 0]

\* The bytes the peer has sent.
Stream == [i \in 1 .. sent |-> i]

Running == loop = "running" /\ ~crashed

Init ==
    /\ how \in Hows
    /\ slots = "start"
    /\ bev = "none"
    /\ reads = FALSE /\ writes = FALSE
    /\ input = <<>> /\ out = <<>> /\ wire = <<>>
    /\ sent = 0
    /\ peer = "open"
    /\ received = <<>> /\ output = <<>>
    /\ events = <<>>
    /\ told = 0
    /\ crashed = FALSE
    /\ soon = FALSE
    /\ loop = "running"
-----------------------------------------------------------------------------
\* The closures were cleared and the C callback returns: nobody refers to the
\* Bufferevent, and is_ignored_by_cxx silences it and schedules its deletion.
Dispose ==
    /\ slots' = "none"
    /\ bev' = "ignored"
    /\ reads' = FALSE /\ writes' = FALSE

\* The callback of sendrecv is called, and calls break_soon.
Tell ==
    /\ Dispose
    /\ told' = told + 1
    /\ soon' = TRUE

\* sendrecv: the request is buffered, reading enabled, the closures set.
SendRecv ==
    /\ bev' = "open"
    /\ slots' = "sendrecv"
    /\ out' = out \o Request
    /\ reads' = TRUE /\ writes' = TRUE

\* connect: a Bufferevent whose endpoint does not parse stays forever with
\* libevent, which has nothing to call it for.
Connect ==
    /\ Running
    /\ slots = "start"
    /\ how \in {"connect", "ssl"}
    /\ \/ /\ bev' = "forgotten"
          /\ slots' = "none"
          /\ soon' = TRUE
       \/ /\ bev' = "connecting"
          /\ slots' = "connect"
          /\ UNCHANGED soon
    /\ UNCHANGED <<how, input, out, events, loop>> /\ UNCHANGED flags
    /\ UNCHANGED net /\ UNCHANGED user

\* The event callback of connect: for ssl_connect the handshake follows.
Connected ==
    /\ Running
    /\ slots = "connect"
    /\ IF how = "ssl"
         THEN /\ bev' = "open"
              /\ slots' = "handshake"
              /\ UNCHANGED <<out, reads, writes>>
         ELSE SendRecv
    /\ UNCHANGED <<how, input, events, soon, loop>>
    /\ UNCHANGED net /\ UNCHANGED user

\* The event callback of the handshake.
Secured ==
    /\ Running
    /\ slots = "handshake"
    /\ SendRecv
    /\ UNCHANGED <<how, input, events, soon, loop>>
    /\ UNCHANGED net /\ UNCHANGED user

\* Either of them, called with anything but BEV_EVENT_CONNECTED.
ConnectFailed ==
    /\ Running
    /\ slots \in {"connect", "handshake"}
    /\ Dispose
    /\ soon' = TRUE
    /\ UNCHANGED <<how, input, out, events, loop>>
    /\ UNCHANGED net /\ UNCHANGED user

\* listen_once_and_dispatch: the one event that accepts, and may fail to.
Accept ==
    /\ Running
    /\ slots = "start"
    /\ how = "listen"
    /\ \/ SendRecv
       \/ /\ slots' = "none"
          /\ UNCHANGED <<bev, out, reads, writes>>
    /\ UNCHANGED <<how, input, events, soon, loop>>
    /\ UNCHANGED net /\ UNCHANGED user

\* Socks::connect calls back with a connection on which the peer may have
\* spoken already.
HandOver ==
    /\ Running
    /\ slots = "start"
    /\ how \in {"handed", "handed timed"}
    /\ \E n \in 0 .. PeerBytes :
         /\ sent' = n
         /\ input' = [i \in 1 .. n |-> i]
    /\ SendRecv
    /\ UNCHANGED <<how, wire, peer, received, events, soon, loop>>
    /\ UNCHANGED user
-----------------------------------------------------------------------------
\* The read closure of sendrecv on these bytes, if it only echoed what arrived
\* with the request still unsent.
TakeStale(bytes) ==
    /\ input' = IF Echoes /\ out # <<>> THEN bytes ELSE <<>>
    /\ output' = IF Echoes THEN output ELSE output \o bytes
    /\ out' = IF Echoes /\ out = <<>> THEN bytes ELSE out

\* The read closure of sendrecv, with these bytes in the input buffer.
Take(bytes) ==
    /\ input' = <<>>
    /\ output' = IF Echoes THEN output ELSE output \o bytes
    /\ out' = IF Echoes THEN out \o bytes ELSE out

\* Bytes arrive; how many is up to the network.  Nobody takes them any more
\* when the output is being drained.
Read ==
    /\ Running
    /\ reads
    /\ \E n \in 1 .. Len(wire) :
         /\ wire' = SubSeq(wire, n + 1, Len(wire))
         /\ LET bytes == input \o SubSeq(wire, 1, n) IN
              IF slots = "sendrecv"
                THEN Take(bytes)
                ELSE input' = bytes /\ UNCHANGED <<output, out>>
    /\ UNCHANGED <<how, slots, bev, sent, peer, received, events, told, crashed,
                   soon, loop>> /\ UNCHANGED flags

\* The write closure of sendrecv does nothing; the one it is replaced with when
\* the connection is over calls back once all is written.
Written(rest) ==
    IF slots = "drain" /\ rest = <<>>
      THEN Tell
      ELSE UNCHANGED <<slots, bev, reads, writes, told, soon>>

\* Bytes are written, as many as the peer lets.
Write ==
    /\ Running
    /\ writes
    /\ peer # "reset"
    /\ \E n \in 1 .. Len(out) :
         /\ received' = received \o SubSeq(out, 1, n)
         /\ out' = SubSeq(out, n + 1, Len(out))
    /\ Written(out')
    /\ UNCHANGED <<how, input, wire, sent, peer, output, events, crashed, loop>>

\* What was read and not yet taken is added to the output string.
Collect ==
    /\ crashed' = (input # <<>> /\ Echoes)
    /\ output' = IF Echoes THEN output ELSE output \o input
    /\ input' = <<>>

\* The closures that wait for the output buffer to drain are set.
Wait(canread, canwrite) ==
    /\ slots' = "drain"
    /\ reads' = canread /\ writes' = canwrite
    /\ UNCHANGED bev

\* The event closure of sendrecv, if it called back before it waits.
FirstEventEager(canread, canwrite) ==
    /\ Collect
    /\ IF out # <<>>
         THEN Wait(canread, canwrite) /\ told' = told + 1 /\ soon' = TRUE
         ELSE Tell

\* The event closure of sendrecv, if it left what was read and not yet taken.
FirstEventLeaves(canread, canwrite) ==
    /\ UNCHANGED <<crashed, output, input>>
    /\ IF out # <<>>
         THEN Wait(canread, canwrite) /\ UNCHANGED <<told, soon>>
         ELSE Tell

\* The event closure of sendrecv: what is left is collected, then the output
\* buffer is drained before the callback.
FirstEvent(canread, canwrite) ==
    /\ Collect
    /\ IF out # <<>>
         THEN Wait(canread, canwrite) /\ UNCHANGED <<told, soon>>
         ELSE Tell

\* The event closure that waits for the output buffer, if it went on waiting.
SecondEventWaits(canread, canwrite) ==
    /\ reads' = canread /\ writes' = canwrite
    /\ UNCHANGED <<slots, bev, told, soon, input, output, crashed>>

\* The event closure that waits for the output buffer gives up.
SecondEvent(canread, canwrite) ==
    /\ Tell
    /\ UNCHANGED <<input, output, crashed>>

\* An event: libevent disables the direction it happened in.
Event(what, canread, canwrite) ==
    /\ \/ slots = "sendrecv" /\ FirstEvent(canread, canwrite)
       \/ slots = "drain" /\ SecondEvent(canread, canwrite)
    /\ events' = Append(events, what)
    /\ UNCHANGED <<how, out, sent, peer, received, loop>>

\* The end of the stream, which a peer that speaks SSL may have cut off.
Eof ==
    /\ Running
    /\ reads
    /\ peer = "closed"
    /\ wire = <<>>
    /\ \E what \in {"eof"} \cup (IF how = "ssl" THEN {"error"} ELSE {}) :
         Event(what, FALSE, writes)
    /\ UNCHANGED wire

\* A read fails: what was not read is lost.
ReadError ==
    /\ Running
    /\ reads
    /\ peer = "reset"
    /\ Event("error", FALSE, writes)
    /\ wire' = <<>>

WriteError ==
    /\ Running
    /\ writes
    /\ out # <<>>
    /\ peer = "reset"
    /\ Event("error", reads, FALSE)
    /\ UNCHANGED wire

ReadTimeout ==
    /\ Running
    /\ Timed
    /\ reads
    /\ Event("timeout", FALSE, writes)
    /\ UNCHANGED wire

WriteTimeout ==
    /\ Running
    /\ Timed
    /\ writes
    /\ out # <<>>
    /\ Event("timeout", reads, FALSE)
    /\ UNCHANGED wire

\* The deletion that is_ignored_by_cxx scheduled.
DeleteVarp ==
    /\ Running
    /\ bev = "ignored"
    /\ bev' = "deleted"
    /\ UNCHANGED <<how, slots, input, out, events, soon, loop>>
    /\ UNCHANGED flags /\ UNCHANGED net /\ UNCHANGED user

Leave ==
    /\ loop' = "left"
    /\ UNCHANGED <<how, slots, bev, input, out, events, soon>>
    /\ UNCHANGED flags /\ UNCHANGED net /\ UNCHANGED user

\* The timer of break_soon.  Timers expire in the order of their deadlines, and
\* the deletion is scheduled by the callback that calls break_soon: it comes
\* first if its delay is shorter.
BreakTimer ==
    /\ Running
    /\ soon
    /\ DeleteDelay < BreakDelay => bev # "ignored"
    /\ Leave

\* dispatch returns when no event is left.
NoEvents ==
    /\ Running
    /\ slots = "none" \/ (slots = "drain" /\ ~reads /\ ~writes)
    /\ ~soon
    /\ Leave
-----------------------------------------------------------------------------
\* The peer, which is not part of the repository.
PeerSends ==
    /\ Running
    /\ bev = "open"
    /\ peer = "open"
    /\ sent < PeerBytes
    /\ sent' = sent + 1
    /\ wire' = Append(wire, sent')
    /\ UNCHANGED <<how, slots, bev, input, out, peer, received, events, soon, loop>>
    /\ UNCHANGED flags /\ UNCHANGED user

PeerEnds ==
    /\ Running
    /\ bev = "open"
    /\ \/ peer = "open" /\ peer' = "closed"
       \/ peer # "reset" /\ peer' = "reset"
    /\ UNCHANGED <<how, slots, bev, input, out, wire, sent, received, events, soon, loop>>
    /\ UNCHANGED flags /\ UNCHANGED user
-----------------------------------------------------------------------------
EventLoop ==
    \/ Connect \/ Connected \/ Secured \/ ConnectFailed \/ Accept \/ HandOver
    \/ Read \/ Write
    \/ Eof \/ ReadError \/ WriteError \/ ReadTimeout \/ WriteTimeout
    \/ DeleteVarp \/ BreakTimer \/ NoEvents

Next == EventLoop \/ PeerSends \/ PeerEnds

Spec == Init /\ [][Next]_vars

\* The event loop runs; without timeouts, it is the peer who ends.
FairSpec ==
    /\ Spec
    /\ WF_vars(EventLoop)
    /\ WF_vars(~Timed /\ PeerEnds)
-----------------------------------------------------------------------------
\* The variables have their types; the callback is called at most once.
TypeOK ==
    /\ how \in Hows
    /\ slots \in {"start", "connect", "handshake", "sendrecv", "drain", "none"}
    /\ bev \in {"none", "connecting", "open", "ignored", "deleted", "forgotten"}
    /\ {reads, writes, crashed, soon} \subseteq BOOLEAN
    /\ {input, wire, output} \subseteq Seq(1 .. PeerBytes)
    /\ {out, received} \subseteq Seq(0 .. PeerBytes)
    /\ sent \in 0 .. PeerBytes
    /\ peer \in {"open", "closed", "reset"}
    /\ events \in Seq({"eof", "error", "timeout"})
    /\ told \in 0 .. 1
    /\ loop \in {"running", "left"}

\* What is collected is what the peer sent, in order, what was there before
\* sendrecv included, and so is what is echoed after the request.  When the
\* callback is called because the peer closed, nothing of what it sent is
\* missing; and if writing did not fail while the output drained, the peer got
\* the whole request and the whole echo (evhelpers.hpp:119-172).
Exchanged ==
    /\ IsPrefix(output, Stream)
    /\ IsPrefix(received \o out, Request \o Stream)
    /\ told = 1 /\ events[1] = "eof" =>
         IF Echoes THEN received \o out = Stream ELSE output = Stream
    /\ told = 1 /\ events = <<"eof">> => out = <<>>

\* A server that echoes has no output string: there must be nothing left in
\* the input buffer when the connection is over (evhelpers.hpp:134-138).
NoNullOutput == ~crashed

\* "wait a little bit just before actually exiting, to avoid valgrind false
\* positives" (evhelpers.hpp:55-61): whatever path led to break_soon, nothing
\* keeps the Bufferevent, and the delay is long enough for it to be deleted when
\* the timer leaves the loop, but for one that was forgotten because its
\* endpoint did not parse.
BreakSoonCollects ==
    [][BreakTimer => bev \in {"deleted", "forgotten"}]_vars

\* Once sendrecv has begun, its callback is called, and the program leaves its
\* event loop (evhelpers.hpp:140-171).
ExchangeEnds == slots = "sendrecv" ~> told = 1 /\ loop = "left"
=============================================================================
