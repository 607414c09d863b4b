------------------------------ MODULE CtrlConn ------------------------------
(***************************************************************************)
(* One connection to the control port of tor, as a record that the modules *)
(* of the clients of OnionCtrl (src/src/tor/onion-ctrl.hpp) keep in their  *)
(* variables: the Bufferevent in OnionCtrl::bev, the closures in its       *)
(* slots, its buffers, and the network between it and tor.                 *)
(*                                                                         *)
(* A command is a record [kind, n], the unit that is written; a reply is a *)
(* sequence of lines [code, type, data], the unit that recv() reads.       *)
(***************************************************************************)
EXTENDS Sequences, Naturals

Command(kind, n) == [kind |-> kind, n |-> n]

NoCmd == Command("none", 0)

\* The closures that connect, send and recv leave in the slots, and what they
\* captured: the callback of the command they work for.
Callbacks(mode, cmd) == [mode |-> mode, cmd |-> cmd]

NoCallbacks == Callbacks("none", NoCmd)

BevStates == {"null", "connecting", "open", "failed", "ignored", "deleted"}

\* The type of a connection whose commands and reply lines are these.
Conns(commands, lines) ==
    [bev: BevStates,       \* null: ctrl->bev not set; ignored: to be deleted
     reads: BOOLEAN,       \* EV_READ enabled
     writes: BOOLEAN,      \* EV_WRITE enabled
     cbs: [mode: {"none", "connect", "send", "recv"}, cmd: commands \cup {NoCmd}],
     out: Seq(commands),   \* the output buffer
     sent: Seq(commands),  \* written, not yet served by tor
     wire: Seq(lines),     \* replied by tor, not yet read
     input: Seq(lines),    \* the input buffer
     fin: BOOLEAN]         \* tor closed its side, or never had one

\* OnionCtrl::create.
Create ==
    [bev |-> "null", reads |-> FALSE, writes |-> FALSE, cbs |-> NoCallbacks,
     out |-> <<>>, sent |-> <<>>, wire |-> <<>>, input |-> <<>>, fin |-> FALSE]

\* OnionCtrl::connect on a fresh OnionCtrl: a new bufferevent writes, but does
\* not read, and is connecting.
Connect(k, cmd) ==
    [k EXCEPT !.bev = "connecting", !.writes = TRUE,
              !.cbs = Callbacks("connect", cmd)]

\* OnionCtrl::send that writes the command twice.
SendTwice(k, cmd) ==
    [k EXCEPT !.out = @ \o <<cmd, cmd>>, !.cbs = Callbacks("send", cmd)]

\* OnionCtrl::send.
Send(k, cmd) ==
    [k EXCEPT !.out = Append(@, cmd), !.cbs = Callbacks("send", cmd)]

\* OnionCtrl::recv that relies on EV_READ being enabled.
RecvOnly(k, cmd) == [k EXCEPT !.cbs = Callbacks("recv", cmd)]

\* OnionCtrl::recv.
Recv(k, cmd) == [k EXCEPT !.reads = TRUE, !.cbs = Callbacks("recv", cmd)]

\* OnionCtrl::close that does not clear the closures.
CloseNothing(k) == k

\* OnionCtrl::close.
Close(k) == [k EXCEPT !.cbs = NoCallbacks]

\* What callbacks of OnionCtrl and OnionPoller are called with.
Statuses ==
    {"ASYNC", "UNRECOGNIZED_ENTITY", "OK", "GENERIC_ERROR", "CONNECT_FAILED",
     "UNEXPECTED_REPLY", "EXPECTED_MORE_TOKENS", "NOT_A_DIGIT",
     "UNEXPECTED_STATUS", "TIMEOUT_ERROR", "IO_ERROR", "EOF_ERROR",
     "UNKNOWN_STATUS_ERROR", "ALREADY_CONNECTED", "CANNOT_PARSE_ADDRPORT"}

\* recv() that passes the code of an unknown status on.
StatusOfAnyCode(code) ==
    CASE code = "250" -> "OK"
      [] code = "552" -> "UNRECOGNIZED_ENTITY"
      [] code = "650" -> "ASYNC"
      [] code = "short" -> "EXPECTED_MORE_TOKENS"
      [] code = "nodigit" -> "NOT_A_DIGIT"
      [] OTHER -> code

\* The status recv() passes on for the three digits of a line.
StatusOf(code) ==
    CASE code = "250" -> "OK"
      [] code = "552" -> "UNRECOGNIZED_ENTITY"
      [] code = "650" -> "ASYNC"
      [] code = "short" -> "EXPECTED_MORE_TOKENS"
      [] code = "nodigit" -> "NOT_A_DIGIT"
      [] OTHER -> "UNKNOWN_STATUS_ERROR"

\* What do_void_cb, and in the same way the callbacks of AUTHENTICATE, GETCONF and
\* GETINFO, report for a line with this status and the character after its code.
DoVoidCb(status, type) ==
    IF status = "OK" /\ type # " " THEN "UNEXPECTED_REPLY" ELSE status

\* What event_mask_to_status makes of a connection that is lost.
LostStatuses == {"EOF_ERROR", "IO_ERROR"}
-----------------------------------------------------------------------------
\* The part of libevent: what happens to the connection before the callback.

\* The peer accepted: the event callback gets BEV_EVENT_CONNECTED.
Connected(k) == [k EXCEPT !.bev = "open"]

\* The connection attempt failed: there is no peer.
Refused(k) == [k EXCEPT !.bev = "failed", !.fin = TRUE]

CanWrite(k) == k.bev \in {"open", "failed"} /\ k.writes /\ k.out # <<>>

\* The output buffer is drained, into the void if the peer is gone.
Drained(k) ==
    [k EXCEPT !.out = <<>>, !.sent = IF k.fin THEN @ ELSE @ \o k.out]

\* A write fails: EV_WRITE is disabled, then the event callback is called.
WriteFailed(k) == [k EXCEPT !.writes = FALSE]

CanRead(k) == k.bev = "open" /\ k.reads

\* A read of n lines; what the kernel hands over at once is up to the network.
Received(k, n) ==
    [k EXCEPT !.wire = SubSeq(@, n + 1, Len(@)),
              !.input = @ \o SubSeq(k.wire, 1, n)]

\* The connection ends as seen by a read: at the end of the stream, or with an
\* error that throws away what was not read.  EV_READ is disabled.
Lost(k) == [k EXCEPT !.reads = FALSE, !.wire = <<>>]

\* is_ignored_by_cxx on the Bufferevent of the connection.
Ignored(k) == [k EXCEPT !.bev = "ignored", !.reads = FALSE, !.writes = FALSE]

\* The deletion of varp: bufferevent_free closes the socket.
Deleted(k) == [k EXCEPT !.bev = "deleted", !.out = <<>>, !.input = <<>>]

\* tor takes a command off the stream and replies.
Served(k, reply) == [k EXCEPT !.sent = Tail(@), !.wire = @ \o reply]

\* tor closes the connection.
ClosedByPeer(k) == [k EXCEPT !.fin = TRUE, !.sent = <<>>]
=============================================================================
