---------------------------- MODULE OnionPoller ----------------------------
(***************************************************************************)
(* OnionPoller (src/src/tor/onion-poller.hpp): a tor that runs in the      *)
(* process, on its event loop, is told through its control port to use the *)
(* network (enable_tor, which then polls tor once a second until it has a  *)
(* circuit) and not to use it (disable_tor).                               *)
(*                                                                         *)
(* Everything runs in one thread.  A callback of a Bufferevent is a step   *)
(* that starts it, one step for each reply line that the loop of recv()    *)
(* takes from the input buffer, and the step Return, in which libevent.cpp *)
(* disposes of the Bufferevent if nobody refers to it any more.  The steps *)
(* of tor and the timers come in between callbacks.                        *)
(***************************************************************************)
EXTENDS CtrlConn, FiniteSets

CONSTANTS
    Enables,   \* the calls of enable_tor
    Disables,  \* the calls of disable_tor
    Timeout    \* the timeout the calls of enable_tor pass, a number of polls

Ops == Enables \cup Disables

\* "none" stands for no call where a call may be running.
ASSUME OpsAssumption == Enables \cap Disables = {} /\ "none" \notin Ops
ASSUME TimeoutAssumption == Timeout \in Nat

\* A reply line of tor; only the first line of a GETINFO reply has data, the
\* bootstrap progress: 0 stands for all that is not 100.
Line(code, type, data) == [code |-> code, type |-> type, data |-> data]

\* No progress: the string result of a GETINFO callback is still empty.
NoProgress == 101

Progresses == {0, 100, NoProgress}

Lines == [code: {"250", "552", "515"}, type: {" ", "-"}, data: Progresses]

Authenticate == Command("AUTHENTICATE", 0)
SetConfOn    == Command("SETCONF DisableNetwork=0", 0)
SetConfOff   == Command("SETCONF DisableNetwork=1", 0)
GiveUp       == Command("SETCONF DisableNetwork=1", 1)
GetInfo(n)   == Command("GETINFO status/bootstrap-phase", n)

Polls == 0 .. (Timeout - 1)

\* After how many microseconds timers expire: the one that deletes a Bufferevent
\* that is ignored, the one of wait_for_circuit_ and the one of break_soon.
DeleteDelay == 0

PollDelay == 1000000

BreakAtOnce == 0

BreakDelay == 1000001

Commands ==
    {Authenticate, SetConfOn, SetConfOff, GiveUp} \cup {GetInfo(n) : n \in Polls}

\* No callback of a Bufferevent is running.
NoCall == [op |-> "none", cmd |-> NoCmd]

VARIABLES
    conn,     \* conn[c]: the control connection of call c
    call,     \* the callback that is running, and the command whose recv loop
              \* it is, if any
    timers,   \* <<c, n>>: the timer of wait_for_circuit_ with counter n
    result,   \* result[c]: the progress kept by the callback of GETINFO
    reports,  \* reports[c]: the calls of the callback of the user, each with
              \* the status and whether a poll was still waiting
    polls,    \* polls[c]: how many GETINFO commands were written
    net,      \* tor uses the network
    effect,   \* effect[c]: what tor last did with the network for call c
    serial,   \* each call was made after the previous ones had reported
    broken,   \* the event loop was left
    soon      \* break_soon was called: the timers that were set before, and
              \* the connections that were closed

vars ==
    <<conn, call, timers, result, reports, polls, net, effect, serial, broken, soon>>

tor == <<net, effect>>

user == <<serial, broken, soon>>

NotSoon == [set |-> FALSE, timers |-> {}, closed |-> {}]

Started(c) == conn[c].bev # "null"

\* The event loop may start the callback of another event.
Idle == call = NoCall /\ ~broken

Running(c, cmd) == [op |-> c, cmd |-> cmd]
-----------------------------------------------------------------------------
Init ==
    /\ conn = [c \in Ops |-> Create]
    /\ call = NoCall
    /\ timers = {}
    /\ result = [c \in Ops |-> NoProgress]
    /\ reports = [c \in Ops |-> <<>>]
    /\ polls = [c \in Ops |-> 0]
    /\ net = FALSE
    /\ effect = [c \in Ops |-> "none"]
    /\ serial = TRUE
    /\ broken = FALSE
    /\ soon = NotSoon
-----------------------------------------------------------------------------
(***************************************************************************)
(* The callbacks of OnionPoller.  k is the connection of call c as libevent*)
(* and OnionCtrl left it when they called.                                 *)
(***************************************************************************)

Polling(c) == \E n \in Polls : <<c, n>> \in timers

\* No closure is in the slots, but a timer may still use the connection.
ClosedSlots(c) == Started(c) /\ conn[c].cbs = NoCallbacks

\* Neither a closure nor a timer will use the connection any more.
Closed(c) == Started(c) /\ conn[c].cbs = NoCallbacks /\ ~Polling(c)

\* The control connection is closed and the callback of the user is called.
Finish(c, k, status) ==
    /\ conn' = [conn EXCEPT ![c] = Close(k)]
    /\ reports' = [reports EXCEPT ![c] =
                     Append(@, [status |-> status, polling |-> Polling(c)])]
    /\ UNCHANGED <<timers, result>>

\* wait_for_circuit_ that polls once more than it is told to.
WaitForCircuitAfter(c, k, n) ==
    /\ IF n > Timeout
         THEN /\ conn' = [conn EXCEPT ![c] = Send(k, GiveUp)]
              /\ UNCHANGED timers
         ELSE /\ conn' = [conn EXCEPT ![c] = k]
              /\ timers' = timers \cup {<<c, n>>}
    /\ UNCHANGED <<reports, result>>

\* wait_for_circuit_ that polls once less than it is told to.
WaitForCircuitBefore(c, k, n) ==
    /\ IF n + 1 >= Timeout
         THEN /\ conn' = [conn EXCEPT ![c] = Send(k, GiveUp)]
              /\ UNCHANGED timers
         ELSE /\ conn' = [conn EXCEPT ![c] = k]
              /\ timers' = timers \cup {<<c, n>>}
    /\ UNCHANGED <<reports, result>>

\* wait_for_circuit_ that gives up without telling tor.
WaitForCircuitTacit(c, k, n) ==
    IF n >= Timeout
      THEN Finish(c, k, "GENERIC_ERROR")
      ELSE /\ conn' = [conn EXCEPT ![c] = k]
           /\ timers' = timers \cup {<<c, n>>}
           /\ UNCHANGED <<reports, result>>

\* wait_for_circuit_ that does not wait for the answer of tor when it gives up.
WaitForCircuitHasty(c, k, n) ==
    /\ IF n >= Timeout
         THEN /\ conn' = [conn EXCEPT ![c] = Send(k, GiveUp)]
              /\ reports' = [reports EXCEPT ![c] =
                   Append(@, [status |-> "GENERIC_ERROR", polling |-> FALSE])]
              /\ UNCHANGED timers
         ELSE /\ conn' = [conn EXCEPT ![c] = k]
              /\ timers' = timers \cup {<<c, n>>}
              /\ UNCHANGED reports
    /\ UNCHANGED result

\* wait_for_circuit_ with counter n: give up, or ask tor in a second.
WaitForCircuit(c, k, n) ==
    /\ IF n >= Timeout
         THEN /\ conn' = [conn EXCEPT ![c] = Send(k, GiveUp)]
              /\ UNCHANGED timers
         ELSE /\ conn' = [conn EXCEPT ![c] = k]
              /\ timers' = timers \cup {<<c, n>>}
    /\ UNCHANGED <<reports, result>>

\* The callback that enable_tor and disable_tor pass with a command, called
\* with the status that the callbacks of OnionCtrl made of a reply.
Continue(c, k, cmd, status) ==
    \/ /\ status # "OK"
       /\ Finish(c, k, status)
    \/ /\ status = "OK"
       /\ cmd = Authenticate
       /\ conn' = [conn EXCEPT ![c] =
                    Send(k, IF c \in Enables THEN SetConfOn ELSE SetConfOff)]
       /\ UNCHANGED <<timers, reports, result>>
    \/ /\ status = "OK"
       /\ cmd = SetConfOn
       /\ WaitForCircuit(c, k, 0)
    \/ /\ status = "OK"
       /\ cmd = SetConfOff
       /\ Finish(c, k, "OK")
    \/ /\ status = "OK"
       /\ cmd = GiveUp
       /\ Finish(c, k, "GENERIC_ERROR")
    \/ /\ status = "OK"
       /\ cmd = GetInfo(cmd.n)
       /\ IF result[c] = 100
            THEN Finish(c, k, "OK")
            ELSE WaitForCircuit(c, k, cmd.n + 1)

\* An event callback that closes the connection and tells nobody.
OnEventSilent(c, k, status) ==
    /\ conn' = [conn EXCEPT ![c] = Close(k)]
    /\ UNCHANGED <<timers, reports, result>>

\* An event callback: OnionCtrl passes the status on if it has closures in the
\* slots, and every callback of the poller then ends the call.
OnEvent(c, k, status) ==
    IF k.cbs = NoCallbacks
      THEN /\ conn' = [conn EXCEPT ![c] = k]
           /\ UNCHANGED <<timers, reports, result>>
      ELSE Finish(c, k, status)
-----------------------------------------------------------------------------
(***************************************************************************)
(* The user: calls made in the function passed to loop, in the callbacks of*)
(* earlier calls, or in callbacks of its own.                              *)
(***************************************************************************)

\* enable_tor and disable_tor: a connection of its own for each call.
Call(c) ==
    /\ ~broken
    /\ ~Started(c)
    /\ conn' = [conn EXCEPT ![c] = Connect(@, Authenticate)]
    /\ serial' = (serial /\ \A d \in Ops : Started(d) => reports[d] # <<>>)
    /\ UNCHANGED <<call, timers, result, reports, polls, tor, broken, soon>>

EnableTor(c) == c \in Enables /\ Call(c)
DisableTor(c) == c \in Disables /\ Call(c)

\* break_loop.
BreakLoop ==
    /\ ~broken
    /\ broken' = TRUE
    /\ UNCHANGED <<conn, call, timers, result, reports, polls, tor, serial, soon>>

\* break_soon: which timers were set before its own, and which connections were
\* closed, whose deletion is scheduled by then or by the end of the callback that
\* is running.
BreakSoon ==
    /\ ~broken
    /\ ~soon.set
    /\ soon' = [set |-> TRUE, timers |-> timers,
                closed |-> {c \in Ops : Closed(c)}]
    /\ UNCHANGED <<conn, call, timers, result, reports, polls, tor, serial, broken>>
-----------------------------------------------------------------------------
(***************************************************************************)
(* The event loop.                                                         *)
(***************************************************************************)

\* The event callback of connect() with BEV_EVENT_CONNECTED: AUTHENTICATE.
Established(c) ==
    /\ Idle
    /\ conn[c].bev = "connecting"
    /\ conn' = [conn EXCEPT ![c] = Send(Connected(@), @.cbs.cmd)]
    /\ call' = Running(c, NoCmd)
    /\ UNCHANGED <<timers, result, reports, polls, tor>> /\ UNCHANGED user

\* The event callback of connect() with an error.
ConnectFailed(c) ==
    /\ Idle
    /\ conn[c].bev = "connecting"
    /\ Finish(c, Close(Refused(conn[c])), "CONNECT_FAILED")
    /\ call' = Running(c, NoCmd)
    /\ UNCHANGED <<polls, tor>> /\ UNCHANGED user

\* The output buffer is drained, and the write callback of send() goes on to
\* recv().
Flush(c) ==
    /\ Idle
    /\ CanWrite(conn[c])
    /\ conn[c].bev = "open"
    /\ LET k == Drained(conn[c]) IN
         conn' = [conn EXCEPT ![c] =
                    IF k.cbs.mode = "send" THEN Recv(k, k.cbs.cmd) ELSE k]
    /\ call' = Running(c, NoCmd)
    /\ UNCHANGED <<timers, result, reports, polls, tor>> /\ UNCHANGED user

\* A write fails: only a peer that is gone makes it.
WriteError(c) ==
    /\ Idle
    /\ CanWrite(conn[c])
    /\ conn[c].fin
    /\ OnEvent(c, WriteFailed(conn[c]), "IO_ERROR")
    /\ call' = Running(c, NoCmd)
    /\ UNCHANGED <<polls, tor>> /\ UNCHANGED user

\* Lines arrive: the read callback of recv(), if it is set, starts its loop.
Read(c) ==
    /\ Idle
    /\ CanRead(conn[c])
    /\ \E n \in 1 .. Len(conn[c].wire) :
         conn' = [conn EXCEPT ![c] = Received(@, n)]
    /\ call' = Running(c, IF conn[c].cbs.mode = "recv"
                            THEN conn[c].cbs.cmd ELSE NoCmd)
    /\ UNCHANGED <<timers, result, reports, polls, tor>> /\ UNCHANGED user

\* What getinfo_status_bootstrap_phase_as_int reports for the last line of a
\* reply: parse_bootstrap_progress finds no tokens in an empty result.
PollStatus(c, status) ==
    IF status = "OK" /\ result[c] = NoProgress
      THEN "EXPECTED_MORE_TOKENS" ELSE status

\* One turn of the loop of recv(), for the command whose callback it captured:
\* the first line of a GETINFO reply is kept, any other is acted upon.
ReadLine ==
    /\ call.cmd # NoCmd
    /\ conn[call.op].input # <<>>
    /\ LET c == call.op
           line == Head(conn[c].input)
           k == [conn[c] EXCEPT !.input = Tail(@)]
           status == StatusOf(line.code)
           polled == call.cmd = GetInfo(call.cmd.n)
       IN \/ /\ polled /\ status = "OK" /\ line.type = "-"
             /\ result' = [result EXCEPT ![c] = line.data]
             /\ conn' = [conn EXCEPT ![c] = k]
             /\ UNCHANGED <<timers, reports>>
          \/ /\ ~(polled /\ status = "OK" /\ line.type = "-")
             /\ Continue(c, k, call.cmd,
                  IF polled /\ line.type = " " THEN PollStatus(c, status)
                                              ELSE DoVoidCb(status, line.type))
    /\ UNCHANGED <<call, polls, tor>> /\ UNCHANGED user

\* A read finds the end of the stream, or fails.
ConnLost(c, status) ==
    /\ Idle
    /\ CanRead(conn[c])
    /\ conn[c].fin
    /\ status = "EOF_ERROR" => conn[c].wire = <<>>
    /\ OnEvent(c, Lost(conn[c]), status)
    /\ call' = Running(c, NoCmd)
    /\ UNCHANGED <<polls, tor>> /\ UNCHANGED user

\* The callback of libevent ends, and nothing is ever disposed of.
ReturnOnly ==
    /\ call # NoCall
    /\ call.cmd = NoCmd \/ conn[call.op].input = <<>>
    /\ call' = NoCall
    /\ UNCHANGED <<conn, timers, result, reports, polls, tor>> /\ UNCHANGED user

\* The callback of libevent ends.  Only closures in the slots of the
\* Bufferevent and the closure of a timer refer to the OnionCtrl, which refers
\* to the Bufferevent.
Return ==
    /\ call # NoCall
    /\ call.cmd = NoCmd \/ conn[call.op].input = <<>>
    /\ call' = NoCall
    /\ conn' = IF Closed(call.op)
                 THEN [conn EXCEPT ![call.op] = Ignored(@)]
                 ELSE conn
    /\ UNCHANGED <<timers, result, reports, polls, tor>> /\ UNCHANGED user

\* The deletion that is_ignored_by_cxx scheduled.
DeleteVarp(c) ==
    /\ Idle
    /\ conn[c].bev = "ignored"
    /\ conn' = [conn EXCEPT ![c] = Deleted(@)]
    /\ UNCHANGED <<call, timers, result, reports, polls, tor>> /\ UNCHANGED user

\* The timer of wait_for_circuit_, were it a periodic one.
PollPersists(c, n) ==
    /\ Idle
    /\ <<c, n>> \in timers
    /\ conn' = [conn EXCEPT ![c] = Send(@, GetInfo(n))]
    /\ result' = [result EXCEPT ![c] = NoProgress]
    /\ polls' = [polls EXCEPT ![c] = @ + 1]
    /\ UNCHANGED <<call, timers, reports, tor>> /\ UNCHANGED user

\* The timer of wait_for_circuit_ sends GETINFO, with a new string for the
\* result.
Poll(c, n) ==
    /\ Idle
    /\ <<c, n>> \in timers
    /\ timers' = timers \ {<<c, n>>}
    /\ conn' = [conn EXCEPT ![c] = Send(@, GetInfo(n))]
    /\ result' = [result EXCEPT ![c] = NoProgress]
    /\ polls' = [polls EXCEPT ![c] = @ + 1]
    /\ UNCHANGED <<call, reports, tor>> /\ UNCHANGED user

\* The timer of break_soon.  Timers expire in the order of their deadlines: those
\* that were set before, or at the end of the callback that calls break_soon, and
\* have shorter delays come first.
BreakTimer ==
    /\ Idle
    /\ soon.set
    /\ PollDelay < BreakDelay => soon.timers \cap timers = {}
    /\ DeleteDelay < BreakDelay => \A c \in soon.closed : conn[c].bev # "ignored"
    /\ broken' = TRUE
    /\ UNCHANGED <<conn, call, timers, result, reports, polls, tor, serial, soon>>
-----------------------------------------------------------------------------
(***************************************************************************)
(* tor, which is not part of the repository.                               *)
(***************************************************************************)

\* What tor may reply, and what it did with the network.
Replies(cmd) ==
    LET ok == <<Line("250", " ", 0)>>
        phase(p) == <<Line("250", "-", p), Line("250", " ", 0)>>
        reply(lines, did) == [lines |-> lines, did |-> did]
        no(code) == reply(<<Line(code, " ", 0)>>, "none")
    IN CASE cmd = Authenticate -> {reply(ok, "none"), no("515")}
         [] cmd = SetConfOn -> {reply(ok, "on"), no("552")}
         [] cmd \in {SetConfOff, GiveUp} -> {reply(ok, "off"), no("552")}
         [] OTHER -> {reply(phase(p), "none") :
                        p \in IF net THEN {0, 100} ELSE {0}} \cup {no("552")}

TorReplies(c) ==
    /\ Idle
    /\ conn[c].sent # <<>>
    /\ \E r \in Replies(Head(conn[c].sent)) :
         /\ conn' = [conn EXCEPT ![c] = Served(@, r.lines)]
         /\ net' = IF r.did = "none" THEN net ELSE r.did = "on"
         /\ effect' = IF r.did = "none" THEN effect
                                        ELSE [effect EXCEPT ![c] = r.did]
    /\ UNCHANGED <<call, timers, result, reports, polls>> /\ UNCHANGED user

TorCloses(c) ==
    /\ Idle
    /\ conn[c].bev = "open"
    /\ ~conn[c].fin
    /\ conn' = [conn EXCEPT ![c] = ClosedByPeer(@)]
    /\ UNCHANGED <<call, timers, result, reports, polls, tor>> /\ UNCHANGED user
-----------------------------------------------------------------------------
EventLoop ==
    \/ \E c \in Ops :
         \/ Established(c)
         \/ ConnectFailed(c)
         \/ Flush(c)
         \/ WriteError(c)
         \/ Read(c)
         \/ \E status \in LostStatuses : ConnLost(c, status)
         \/ DeleteVarp(c)
         \/ \E n \in Polls : Poll(c, n)
    \/ ReadLine
    \/ Return
    \/ BreakTimer

User ==
    \/ \E c \in Ops : EnableTor(c) \/ DisableTor(c)
    \/ BreakLoop
    \/ BreakSoon

Tor == \E c \in Ops : TorReplies(c) \/ TorCloses(c)

Next == EventLoop \/ User \/ Tor

Spec == Init /\ [][Next]_vars

\* The event loop runs as long as it has something to run.
LoopSpec == Spec /\ WF_vars(EventLoop)

\* And tor answers every command it gets, or closes the connection.
FairSpec == LoopSpec /\ \A c \in Ops : WF_vars(TorReplies(c))
-----------------------------------------------------------------------------
\* The variables have their types.
TypeOK ==
    /\ conn \in [Ops -> Conns(Commands, Lines)]
    /\ call \in [op: Ops, cmd: Commands \cup {NoCmd}] \cup {NoCall}
    /\ timers \in SUBSET (Ops \X Polls)
    /\ result \in [Ops -> Progresses]
    /\ reports \in [Ops -> Seq([status: Statuses, polling: BOOLEAN])]
    /\ polls \in [Ops -> Nat]
    /\ {net, serial, broken} \subseteq BOOLEAN
    /\ effect \in [Ops -> {"none", "on", "off"}]
    /\ soon \in [set: BOOLEAN, timers: SUBSET (Ops \X Polls), closed: SUBSET Ops]

\* Whoever may still use the control connection of a call, its closures, the
\* timer of the next poll or the callback that is running, finds a Bufferevent
\* that is not disposed of (libevent.cpp:40, onion-poller.hpp:120).
NoUseAfterDispose ==
    \A c \in Ops :
        conn[c].cbs # NoCallbacks \/ Polling(c) \/ call.op = c
            => conn[c].bev \in {"connecting", "open", "failed"}

\* The replies carry no command: that each goes to the callback of the command
\* it answers rests on there being at most one command of a call that is
\* buffered, under way, or answered and not yet read, and none while the call
\* waits for its next poll (onion-ctrl.hpp:587-597, onion-poller.hpp:119-137).
OneCommandAtATime ==
    \A c \in Ops :
        LET final(lines) == Cardinality({i \in 1 .. Len(lines) : lines[i].type = " "})
            k == conn[c]
            outstanding == Len(k.out) + Len(k.sent) + final(k.wire) + final(k.input)
        IN outstanding <= IF Polling(c) THEN 0 ELSE 1

\* A call that times out has asked tor exactly Timeout times, and no call asks
\* more often (onion-poller.hpp:102, 132).
PollsBounded ==
    \A c \in Ops :
        /\ polls[c] <= Timeout
        /\ \A i \in 1 .. Len(reports[c]) :
             reports[c][i].status = "GENERIC_ERROR" => polls[c] = Timeout

\* The user's callback is called once, unless tor hangs up while the call waits
\* for its next poll: then the poll goes out all the same and reports the loss
\* again (onion-poller.hpp:119-138).
ReportedOnce ==
    \A c \in Ops :
        \/ Len(reports[c]) <= 1
        \/ /\ Len(reports[c]) = 2
           /\ \A i \in 1 .. 2 :
                /\ reports[c][i].status \in LostStatuses
                /\ reports[c][i].polling = (i = 1)

\* As long as the user waits for the callback of one call before it makes the
\* next, what a callback is told is true of tor when it is called: OK means
\* that it has the network that was asked for, GENERIC_ERROR, which only
\* enable_tor reports, that the network is off again (onion-poller.hpp:88-94,
\* 103-112, 135-136).
ReportTellsNetwork ==
    [][\A c \in Ops :
         serial /\ Len(reports'[c]) > Len(reports[c]) =>
            LET status == reports'[c][Len(reports'[c])].status IN
            /\ status = "OK" => net = (c \in Enables)
            /\ status = "GENERIC_ERROR" => c \in Enables /\ ~net]_vars

\* What the callback of a call was last told.
Told(c) ==
    IF reports[c] = <<>> THEN "nothing" ELSE reports[c][Len(reports[c])].status

Switch == INSTANCE NetworkSwitch WITH
            Losses <- LostStatuses,
            asked <- {c \in Ops : Started(c)},
            told <- [c \in Ops |-> Told(c)]

\* The poller implements the switch of NetworkSwitch: however calls overlap and
\* connections are lost, tor does for a call what the call is told it did, does
\* it before the call is told, and is not left with a command of a call that
\* is over (onion-poller.hpp:77-99, 101-138).
ImplementsSwitch == Switch!Spec

\* "we need to defer exit to make sure that they have actually been collected
\* and no leaks appear" (onion-poller.hpp:46-48): when the timer of break_soon
\* leaves the loop, the connections that had been closed are deleted: nothing
\* uses or keeps them meanwhile, and the delay is long enough.
BreakSoonCollects ==
    [][BreakTimer => \A c \in soon.closed : conn[c].bev = "deleted"]_vars

\* A call reports in the end, if tor answers or hangs up and the loop is not
\* left: the polls run out.
EveryCallReports ==
    \A c \in Ops : Started(c) ~> (reports[c] # <<>> \/ broken)

\* The connection of a call is freed in the end, whatever happened to it.
EveryConnFreed ==
    \A c \in Ops : Started(c) ~> (conn[c].bev = "deleted" \/ broken)

\* "Close control connection" (onion-ctrl.hpp:156): no command is written to a
\* connection that a call has closed, as it does before it reports.
ClosedForGood ==
    [][\A c \in Ops :
         reports[c] # <<>> => Len(conn'[c].out) <= Len(conn[c].out)]_vars

\* "If we cannot establish a circuit within the given timeout, we tell tor to
\* stop bothering with connect and notify back" (onion-poller.hpp:103-104),
\* and so also if tor does not answer.
TimeoutNotifies ==
    \A c \in Enables : Started(c) ~> (reports[c] # <<>> \/ broken)
=============================================================================
