----------------------------- MODULE OnionCtrl -----------------------------
(***************************************************************************)
(* A client of the control port of tor and its OnionCtrl                   *)
(* (src/src/tor/onion-ctrl.hpp).                                           *)
(*                                                                         *)
(* The client connects and authenticates, then gives one command after the *)
(* other, each when the callback of the previous one has been called or    *)
(* when the previous one was a subscription, and closes the connection     *)
(* when it likes, inside a callback or not.  Replies carry nothing that    *)
(* says which command they answer; in the model they do (`of`), for the    *)
(* properties to speak about, and no action looks at it.                   *)
(***************************************************************************)
EXTENDS CtrlConn

CONSTANTS
    MaxCmds,    \* bound: how many commands the client gives, connects included
    MaxEvents,  \* bound: how many asynchronous events tor sends
    Timeouts    \* whether the client passes a timeout to connect

ASSUME BoundsAssumption == MaxCmds \in Nat \ {0} /\ MaxEvents \in Nat
ASSUME TimeoutsAssumption == Timeouts \in BOOLEAN

Numbers == 1 .. MaxCmds

\* The commands, by what their callbacks do with reply lines: "auth" and "void"
\* stand for all that report every line through do_void_cb or its like
\* (getconf_int too), "raw" for a bare sendrecv().
Kinds == {"auth", "void", "getinfo", "events", "raw"}

Commands == [kind: Kinds, n: Numbers]

\* A reply line: its code (or how it is malformed), the character after it, and
\* the command it answers, 0 for an event.
Line(code, type, of) == [code |-> code, type |-> type, of |-> of]

Codes == {"250", "552", "650", "515", "short", "nodigit", "blank"}

Lines == [code: Codes, type: {" ", "-", "+"}, of: 0 .. MaxCmds]

NoCall == [busy |-> FALSE, cmd |-> NoCmd]

VARIABLES
    conn,      \* the connection
    call,      \* the callback of libevent that is running; cmd: the command
               \* whose recv loop it is, if any
    kinds,     \* the kinds of the commands given so far
    heard,     \* heard[n]: what the callback of command n was called with
    expected,  \* expected[n]: the status a subscription expects next
    closed,    \* the client closed the connection and forgot it
    events,    \* how many events tor sent
    subscribed \* the subscription for which tor sends events, 0 if none

vars == <<conn, call, kinds, heard, expected, closed, events, subscribed>>

tor == <<events, subscribed>>

Given == 1 .. Len(kinds)

Idle == call = NoCall

Running(cmd) == [busy |-> TRUE, cmd |-> cmd]

Init ==
    /\ conn = Create
    /\ call = NoCall
    /\ kinds = <<>>
    /\ heard = [n \in Numbers |-> <<>>]
    /\ expected = [n \in Numbers |-> "OK"]
    /\ closed = FALSE
    /\ events = 0
    /\ subscribed = 0
-----------------------------------------------------------------------------
(***************************************************************************)
(* The callbacks of commands.                                              *)
(***************************************************************************)

\* The client hears of a line of the reply to command `of`, which has more lines
\* or not, or, with of = 0, of an event of the connection.
Hear(cmd, status, of, more) ==
    heard' = [heard EXCEPT ![cmd.n] =
                Append(@, [status |-> status, of |-> of, more |-> more])]

\* What the callback of setevents_client_status_as_string reports: it expects
\* OK, then events.
EventsCb(n, status, type) ==
    CASE status # expected[n] -> "UNEXPECTED_STATUS"
      [] status = expected[n] /\ type # " " -> "UNEXPECTED_REPLY"
      [] OTHER -> status

\* What the callback of a command makes of a status.
Outcome(cmd, status, type) ==
    CASE cmd.kind = "raw" -> status
      [] cmd.kind = "events" -> EventsCb(cmd.n, status, type)
      [] OTHER -> DoVoidCb(status, type)

\* The line that the callback of GETINFO keeps as its result.
IsResult(cmd, line) ==
    cmd.kind = "getinfo" /\ line.code = "250" /\ line.type = "-"

\* The line after which the callback of SETEVENTS expects events.
IsSubscribed(cmd, line) ==
    /\ cmd.kind = "events"
    /\ line.code = "250"
    /\ line.type = " "
    /\ expected[cmd.n] = "OK"

\* The event callback that send() or recv() left in the slot, if any.
OnEvent(k, status) ==
    /\ conn' = k
    /\ IF k.cbs = NoCallbacks
         THEN UNCHANGED heard
         ELSE Hear(k.cbs.cmd, Outcome(k.cbs.cmd, status, " "), 0, FALSE)
    /\ call' = Running(NoCmd)
    /\ UNCHANGED <<kinds, expected, closed>> /\ UNCHANGED tor
-----------------------------------------------------------------------------
(***************************************************************************)
(* The client.                                                             *)
(***************************************************************************)

Authenticated ==
    \E n \in Given : /\ kinds[n] = "auth"
                     /\ heard[n] # <<>>
                     /\ heard[n][1].status = "OK"

\* The client waits for nothing.
Ready ==
    /\ ~closed
    /\ Len(kinds) < MaxCmds
    /\ kinds # <<>> =>
         LET last == Len(kinds) IN kinds[last] = "events" \/ heard[last] # <<>>

\* connect_and_authenticate: the address does not parse, OnionCtrl::bev is set,
\* or there is a new connection.
ConnectAndAuthenticate ==
    /\ Ready
    /\ ~Authenticated
    /\ kinds' = Append(kinds, "auth")
    /\ LET cmd == Command("auth", Len(kinds) + 1) IN
         \/ /\ Hear(cmd, "CANNOT_PARSE_ADDRPORT", 0, FALSE)
            /\ UNCHANGED conn
         \/ /\ conn.bev # "null"
            /\ Hear(cmd, "ALREADY_CONNECTED", 0, FALSE)
            /\ UNCHANGED conn
         \/ /\ conn.bev = "null"
            /\ conn' = Connect(conn, cmd)
            /\ UNCHANGED heard
    /\ UNCHANGED <<call, expected, closed>> /\ UNCHANGED tor

\* sendrecv and the functions that call it.
Give(kind) ==
    /\ Ready
    /\ Authenticated
    /\ kinds' = Append(kinds, kind)
    /\ conn' = Send(conn, Command(kind, Len(kinds) + 1))
    /\ UNCHANGED <<call, heard, expected, closed>> /\ UNCHANGED tor

\* OnionCtrl::close, and the client's Var<OnionCtrl> goes.
CloseCtrl ==
    /\ ~closed
    /\ conn.bev # "null"
    /\ closed' = TRUE
    /\ conn' = Close(conn)
    /\ UNCHANGED <<call, kinds, heard, expected>> /\ UNCHANGED tor
-----------------------------------------------------------------------------
(***************************************************************************)
(* The event loop.                                                         *)
(***************************************************************************)

\* connect() succeeds: AUTHENTICATE is sent, if the client has not closed.
Established ==
    /\ Idle
    /\ conn.bev = "connecting"
    /\ conn' = IF conn.cbs = NoCallbacks
                 THEN Connected(conn)
                 ELSE Send(Connected(conn), conn.cbs.cmd)
    /\ call' = Running(NoCmd)
    /\ UNCHANGED <<kinds, heard, expected, closed>> /\ UNCHANGED tor

\* connect() fails or times out.
ConnectFailed ==
    /\ Idle
    /\ conn.bev = "connecting"
    /\ conn' = Close(Refused(conn))
    /\ IF conn.cbs = NoCallbacks
         THEN UNCHANGED heard
         ELSE Hear(conn.cbs.cmd, "CONNECT_FAILED", 0, FALSE)
    /\ call' = Running(NoCmd)
    /\ UNCHANGED <<kinds, expected, closed>> /\ UNCHANGED tor

\* The write callback of send() goes on to recv().
Flush ==
    /\ Idle
    /\ CanWrite(conn)
    /\ conn.bev = "open"
    /\ LET k == Drained(conn) IN
         conn' = IF k.cbs.mode = "send" THEN Recv(k, k.cbs.cmd) ELSE k
    /\ call' = Running(NoCmd)
    /\ UNCHANGED <<kinds, heard, expected, closed>> /\ UNCHANGED tor

WriteError ==
    /\ Idle
    /\ CanWrite(conn)
    /\ conn.fin
    /\ OnEvent(WriteFailed(conn), "IO_ERROR")

\* Lines arrive: the loop of recv() starts if recv() was called for the current
\* command, and only then.
Read ==
    /\ Idle
    /\ CanRead(conn)
    /\ \E n \in 1 .. Len(conn.wire) : conn' = Received(conn, n)
    /\ call' = Running(IF conn.cbs.mode = "recv" THEN conn.cbs.cmd ELSE NoCmd)
    /\ UNCHANGED <<kinds, heard, expected, closed>> /\ UNCHANGED tor

\* recv() that takes one line from the buffer for each read.
StopsAfterEach(line) == TRUE

\* Lines that leave the loop of recv(): readln() returns "" for a blank line, as
\* it does when there is no line, and a malformed line ends it too.
Stops(line) == line.code \in {"blank", "short", "nodigit"}

\* One turn of the loop of recv().
ReadLine ==
    /\ call.cmd # NoCmd
    /\ conn.input # <<>>
    /\ conn' = [conn EXCEPT !.input = Tail(@)]
    /\ LET cmd == call.cmd
           line == Head(conn.input)
           more == line.type # " " \/ line.code \in {"short", "nodigit"}
       IN /\ call' = IF Stops(line) THEN Running(NoCmd) ELSE call
          /\ \/ /\ line.code = "blank" \/ IsResult(cmd, line)
                /\ UNCHANGED <<heard, expected>>
             \/ /\ IsSubscribed(cmd, line)
                /\ expected' = [expected EXCEPT ![cmd.n] = "ASYNC"]
                /\ UNCHANGED heard
             \/ /\ line.code # "blank"
                /\ ~IsResult(cmd, line)
                /\ ~IsSubscribed(cmd, line)
                /\ Hear(cmd, Outcome(cmd, StatusOf(line.code), line.type),
                        line.of, more)
                /\ UNCHANGED expected
    /\ UNCHANGED <<kinds, closed>> /\ UNCHANGED tor

\* A read finds the end of the stream, or fails.
ConnLost(status) ==
    /\ Idle
    /\ CanRead(conn)
    /\ conn.fin
    /\ status = "EOF_ERROR" => conn.wire = <<>>
    /\ OnEvent(Lost(conn), status)

\* Nothing could be read, or written, for as long as the timeout: EV_READ, or
\* EV_WRITE, is disabled.
ReadTimeout ==
    /\ Idle
    /\ Timeouts
    /\ CanRead(conn)
    /\ OnEvent([conn EXCEPT !.reads = FALSE], "TIMEOUT_ERROR")

WriteTimeout ==
    /\ Idle
    /\ Timeouts
    /\ CanWrite(conn)
    /\ OnEvent(WriteFailed(conn), "TIMEOUT_ERROR")

\* The callback of libevent ends: the Bufferevent is disposed of if neither a
\* closure nor the client refers to its OnionCtrl.
Return ==
    /\ call # NoCall
    /\ call.cmd = NoCmd \/ conn.input = <<>>
    /\ call' = NoCall
    /\ conn' = IF closed /\ conn.cbs = NoCallbacks THEN Ignored(conn) ELSE conn
    /\ UNCHANGED <<kinds, heard, expected, closed>> /\ UNCHANGED tor

\* The deletion that is_ignored_by_cxx scheduled.
DeleteVarp ==
    /\ Idle
    /\ conn.bev = "ignored"
    /\ conn' = Deleted(conn)
    /\ UNCHANGED <<call, kinds, heard, expected, closed>> /\ UNCHANGED tor
-----------------------------------------------------------------------------
(***************************************************************************)
(* tor, which is not part of the repository.  Its steps come in between    *)
(* callbacks, which look at nothing that they change.                      *)
(***************************************************************************)

\* What tor may reply: a line that says OK or not, several lines where there
\* are several values, and a data reply, whose data may be any lines.
Replies(cmd) ==
    LET last(code) == Line(code, " ", cmd.n)
        mid(code, type) == Line(code, type, cmd.n)
    IN {<<last("250")>>, <<last("552")>>} \cup
       CASE cmd.kind = "auth" -> {<<last("515")>>}
         [] cmd.kind \in {"void", "getinfo"} ->
              {<<mid("250", "-"), last("250")>>}
         [] cmd.kind = "events" -> {}
         [] cmd.kind = "raw" ->
              {<<mid("250", "+"), mid(data, " "), mid("short", " "), last("250")>> :
                 data \in {"nodigit", "blank"}}

TorReplies ==
    /\ Idle
    /\ conn.sent # <<>>
    /\ LET cmd == Head(conn.sent) IN
         \E reply \in Replies(cmd) :
           /\ conn' = Served(conn, reply)
           /\ subscribed' = IF cmd.kind = "events" /\ reply[1].code = "250"
                              THEN cmd.n ELSE subscribed
    /\ UNCHANGED <<call, kinds, heard, expected, closed, events>>

\* An event for a client that has subscribed.
TorEvent ==
    /\ Idle
    /\ subscribed # 0
    /\ conn.bev = "open"
    /\ ~conn.fin
    /\ events < MaxEvents
    /\ conn' = [conn EXCEPT !.wire = Append(@, Line("650", " ", subscribed))]
    /\ events' = events + 1
    /\ UNCHANGED <<call, kinds, heard, expected, closed, subscribed>>

TorCloses ==
    /\ Idle
    /\ conn.bev = "open"
    /\ ~conn.fin
    /\ conn' = ClosedByPeer(conn)
    /\ UNCHANGED <<call, kinds, heard, expected, closed>> /\ UNCHANGED tor
-----------------------------------------------------------------------------
Client ==
    \/ ConnectAndAuthenticate
    \/ \E kind \in Kinds \ {"auth"} : Give(kind)
    \/ CloseCtrl

EventLoop ==
    \/ Established
    \/ ConnectFailed
    \/ Flush
    \/ WriteError
    \/ Read
    \/ ReadLine
    \/ \E status \in LostStatuses : ConnLost(status)
    \/ Return
    \/ DeleteVarp

Expired == ReadTimeout \/ WriteTimeout

Tor == TorReplies \/ TorEvent \/ TorCloses

Next == Client \/ EventLoop \/ Expired \/ Tor

Spec == Init /\ [][Next]_vars

\* The event loop runs as long as it has something to run, and tor answers every
\* command it gets, or closes the connection; a timeout may expire, but need not.
FairSpec == Spec /\ WF_vars(EventLoop) /\ WF_vars(TorReplies)
-----------------------------------------------------------------------------
\* The variables have their types.
TypeOK ==
    /\ conn \in Conns(Commands, Lines)
    /\ call \in [busy: BOOLEAN, cmd: Commands \cup {NoCmd}]
    /\ kinds \in Seq(Kinds)
    /\ Len(kinds) <= MaxCmds
    /\ heard \in [Numbers ->
                   Seq([status: Statuses, of: 0 .. MaxCmds, more: BOOLEAN])]
    /\ expected \in [Numbers -> {"OK", "ASYNC"}]
    /\ closed \in BOOLEAN
    /\ events \in 0 .. MaxEvents
    /\ subscribed \in 0 .. MaxCmds

\* Commands after which lines for them may still arrive when the client gives
\* the next: subscriptions, commands that timed out, and replies of several
\* lines of which the callback was called with one that is not the last.
Irregular(n) ==
    \/ kinds[n] = "events"
    \/ \E i \in 1 .. Len(heard[n]) :
         heard[n][i].status = "TIMEOUT_ERROR" \/ heard[n][i].more

\* A line goes to the callback of another command than the one it answers only
\* in the wake of an irregular command, whatever way the lines are cut into
\* reads and wherever the client gives the next command (onion-ctrl.hpp:587-597,
\* 623-670).
ReplyAttribution ==
    \A n \in Given : \A i \in 1 .. Len(heard[n]) :
        LET of == heard[n][i].of IN
        of \notin {0, n} => of < n /\ \E m \in 1 .. of : Irregular(m)

\* Before any irregular command, the callback of a command hears of its reply at
\* most once, first or after timeouts (one while the command is still in the
\* output buffer does not stop it), and of the connection at most twice more or,
\* without a reply, three times: the closures stay in the slots when the command
\* is over, and reading and writing fail separately (onion-ctrl.hpp:623-629,
\* 668-670).
OneOutcome ==
    \A n \in Given :
        LET h == heard[n] IN
        /\ kinds[n] \in {"auth", "void", "getinfo"}
        /\ \A m \in 1 .. n - 1 : ~Irregular(m)
        /\ \A i \in 1 .. Len(h) : ~h[i].more
        => /\ Len(h) <= 3
           /\ \A j \in 1 .. Len(h) : h[j].of # 0 =>
                \A i \in 1 .. j - 1 : h[i].status = "TIMEOUT_ERROR"

\* While recv() waits for lines, no line waits in the input buffer for another
\* to arrive, except after an irregular command (onion-ctrl.hpp:635-666).
NothingLeftBehind ==
    Idle /\ conn.cbs.mode = "recv" /\ conn.input # <<>>
        => \E n \in Given : Irregular(n)

\* The callback of a command is called in the end, if tor answers or hangs up
\* and the client does not close, even if no timeout ever expires, with two
\* exceptions: after a write failed or timed out, EV_WRITE stays disabled and the
\* commands of a retry stay in the buffer (onion-ctrl.hpp:623-629); and after an
\* irregular command, the reply may stay behind lines that nobody reads
\* (onion-ctrl.hpp:640, 651).
CommandsReport ==
    \A n \in Numbers :
        (n \in Given /\ kinds[n] # "events")
            ~> \/ heard[n] # <<>> \/ closed \/ ~conn.writes
               \/ \E m \in Given : m < n /\ Irregular(m)

\* A connection that the client closes and forgets in a callback is freed
\* (onion-ctrl.hpp:130-136).
CloseInCallbackFrees == (closed /\ ~Idle) ~> conn.bev = "deleted"

\* "cb Callback called to signal completion" (onion-ctrl.hpp:165, 185, 206), of
\* which there is one.
CompletionSignalledOnce ==
    \A n \in Given : kinds[n] = "auth" => Len(heard[n]) <= 1
=============================================================================
