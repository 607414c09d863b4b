------------------------- MODULE OnionPollerProofs -------------------------
(***************************************************************************)
(* Proofs about OnionPoller: for any calls, and any timeout, a connection  *)
(* that is disposed of is not used, a call polls as often as it was told   *)
(* to, and it reports once, or twice in the one way that ReportedOnce      *)
(* describes; the poller implements the switch of NetworkSwitch; and       *)
(* break_soon leaves no closed connection behind.                          *)
(*                                                                         *)
(* The inductive invariant is a conjunction for each call, of what the     *)
(* closures in the slots say about the Bufferevent (ModeInv), about the one*)
(* command or reply on the way (PipeInv), about the polls (CountInv), about*)
(* what was reported (ReportInv) and about what tor did (EffectInv).       *)
(* SerialInv and DisposalInv are added for single properties.              *)
(***************************************************************************)
EXTENDS OnionPoller, SequenceTheorems, FiniteSetTheorems, TLAPS

K == Conns(Commands, Lines)

Reports == [status: Statuses, polling: BOOLEAN]

Alive == {"connecting", "open", "failed"}

Active(k) == k.cbs.mode \in {"send", "recv"}

Quiet(k) == k.out = <<>> /\ k.sent = <<>> /\ k.wire = <<>> /\ k.input = <<>>

IsPoll(cmd) == cmd.kind = "GETINFO status/bootstrap-phase"

\* What may be left of a reply to this command.
Reply(lines, cmd) ==
    \/ lines = <<>>
    \/ Len(lines) = 1 /\ lines[1].type = " "
    \/ /\ Len(lines) = 2
       /\ IsPoll(cmd)
       /\ lines[1].type = "-" /\ lines[1].code = "250"
       /\ lines[2].type = " "

(***************************************************************************)
(* The parts of the invariant, about one call: k is its connection, w the  *)
(* counters of its timers, f the frame of its callback that is running (the*)
(* set of the command of that callback), n the number of its polls, r its  *)
(* reports and e its effect.                                               *)
(***************************************************************************)

\* Closures, timers and running callbacks have a Bufferevent to work with.
ModeInv(k, w, f) ==
    /\ k.cbs.mode = "none" => k.cbs.cmd = NoCmd
    /\ k.cbs.mode # "none" => k.cbs.cmd \in Commands
    /\ k.cbs.mode = "connect" <=> k.bev = "connecting"
    /\ k.bev = "connecting" => k.cbs.cmd = Authenticate
    /\ k.cbs.mode # "none" \/ w # {} \/ f # {} => k.bev \in Alive
    /\ w # {} \/ f # {} => k.bev # "connecting"

Single(commands) == Len(commands) = 1

\* One command is on its way, or one reply to the command that the closure in
\* the slots waits for, and none while a timer is set.
PipeInv(k, w, f) ==
    /\ k.out = <<>> \/ k.sent = <<>>
    /\ k.out # <<>> \/ k.sent # <<>> => k.wire = <<>> /\ k.input = <<>>
    /\ k.cbs.mode = "send" => k.out = <<k.cbs.cmd>>
    /\ k.cbs.mode = "recv" => k.out = <<>>
    /\ k.bev \in {"null", "connecting"} \/ w # {} => Quiet(k)
    /\ k.cbs.mode = "none" /\ k.out # <<>> => k.fin /\ Single(k.out)
    /\ k.sent # <<>> => k.cbs.mode = "recv" /\ k.sent = <<k.cbs.cmd>> /\ ~k.fin
    /\ k.input # <<>> => k.cbs.mode = "recv" /\ f = {k.cbs.cmd}
    /\ k.wire # <<>> => k.cbs.mode = "recv"
    /\ Reply(k.input \o k.wire, k.cbs.cmd)

Unsent == {Authenticate, SetConfOn, SetConfOff}

\* The counters of the commands and the timers count the polls.
CountInv(k, w, n) ==
    /\ n <= Timeout
    /\ \A m \in w : n = m
    /\ k.bev \in {"null", "connecting"} => n = 0
    /\ Active(k) /\ w = {} =>
         /\ k.cbs.cmd \in Unsent => n = 0
         /\ IsPoll(k.cbs.cmd) => n = k.cbs.cmd.n + 1
         /\ k.cbs.cmd = GiveUp => n = Timeout

\* A call that has reported and is not over has lost its connection while it
\* waited for its next poll.
ReportInv(k, w, n, r) ==
    /\ r # <<>> /\ (k.cbs.mode # "none" \/ w # {}) =>
         /\ Len(r) = 1 /\ r[1].polling = TRUE /\ r[1].status \in LostStatuses
         /\ k.fin /\ k.wire = <<>> /\ k.input = <<>>
    /\ r # <<>> /\ w # {} => k.cbs.mode = "none"
    /\ r # <<>> /\ k.cbs.mode # "none" => Active(k) /\ IsPoll(k.cbs.cmd)
    /\ k.bev \in {"null", "connecting"} => r = <<>>
    /\ \A i \in 1 .. Len(r) : r[i].status = "GENERIC_ERROR" => n = Timeout
    /\ \/ Len(r) <= 1
       \/ /\ Len(r) = 2
          /\ r[1].status \in LostStatuses /\ r[1].polling = TRUE
          /\ r[2].status \in LostStatuses /\ r[2].polling = FALSE

\* A reply that says that the command was obeyed is on its way.
Obeyed(k) == k.input \o k.wire # <<>> /\ (k.input \o k.wire)[1].code = "250"

Awaited(k) == k.out # <<>> \/ k.sent # <<>>

\* What tor did for the call is what its commands asked for, as far as the call
\* got.
EffectInv(c, k, w, e) ==
    /\ k.bev \in {"null", "connecting"} => e = "none"
    /\ w # {} => c \in Enables /\ e = "on"
    /\ Active(k) /\ w = {} =>
         /\ k.cbs.cmd = Authenticate => e = "none"
         /\ k.cbs.cmd = SetConfOn =>
              /\ c \in Enables
              /\ Awaited(k) => e = "none"
              /\ Obeyed(k) => e = "on"
         /\ k.cbs.cmd = SetConfOff =>
              /\ c \in Disables
              /\ Awaited(k) => e = "none"
              /\ Obeyed(k) => e = "off"
         /\ IsPoll(k.cbs.cmd) => c \in Enables /\ e = "on"
         /\ k.cbs.cmd = GiveUp =>
              /\ c \in Enables
              /\ Awaited(k) => e = "on"
              /\ Obeyed(k) => e = "off"

Good(c, k, w, f, n, r, e) ==
    /\ ModeInv(k, w, f)
    /\ PipeInv(k, w, f)
    /\ CountInv(k, w, n)
    /\ ReportInv(k, w, n, r)
    /\ EffectInv(c, k, w, e)

WaitsIn(t, c) == {n \in Polls : <<c, n>> \in t}

Waits(c) == WaitsIn(timers, c)

FrameIn(a, c) == {cmd \in {a.cmd} : a.op = c}

Frame(c) == FrameIn(call, c)

CallInv(c) ==
    Good(c, conn[c], Waits(c), Frame(c), polls[c], reports[c], effect[c])

IInv == TypeOK /\ \A c \in Ops : CallInv(c)
-----------------------------------------------------------------------------
(***************************************************************************)
(* What the operators of CtrlConn return, field by field.                  *)
(***************************************************************************)

LEMMA KFields ==
  ASSUME NEW k \in K
  PROVE  /\ k.bev \in BevStates
         /\ k.reads \in BOOLEAN /\ k.writes \in BOOLEAN /\ k.fin \in BOOLEAN
         /\ k.cbs \in [mode: {"none", "connect", "send", "recv"},
                       cmd: Commands \cup {NoCmd}]
         /\ k.cbs.mode \in {"none", "connect", "send", "recv"}
         /\ k.cbs.cmd \in Commands \cup {NoCmd}
         /\ k.out \in Seq(Commands) /\ k.sent \in Seq(Commands)
         /\ k.wire \in Seq(Lines) /\ k.input \in Seq(Lines)
  BY DEF K, Conns

LEMMA NoCallbacksFields ==
  ASSUME NEW k \in K
  PROVE  k.cbs = NoCallbacks <=> k.cbs.mode = "none" /\ k.cbs.cmd = NoCmd
  BY KFields DEF NoCallbacks, Callbacks

LEMMA CreateFacts ==
  /\ Create \in K
  /\ Create.bev = "null" /\ Create.cbs.mode = "none" /\ Create.cbs.cmd = NoCmd
  /\ Quiet(Create) /\ ~Create.fin
  <1>1. Create.cbs = NoCallbacks
    BY DEF Create
  <1>2. NoCallbacks = [mode |-> "none", cmd |-> NoCmd]
    BY DEF NoCallbacks, Callbacks
  <1>3. <<>> \in Seq(Commands) /\ <<>> \in Seq(Lines)
    OBVIOUS
  <1>4. Create \in K
    BY <1>2, <1>3 DEF Create, K, Conns, BevStates
  <1> QED
    BY <1>1, <1>2, <1>4 DEF Create, Quiet

LEMMA ConnectFacts ==
  ASSUME NEW k \in K, NEW cmd \in Commands
  PROVE  LET r == Connect(k, cmd) IN
         /\ r \in K
         /\ r.bev = "connecting" /\ r.cbs.mode = "connect" /\ r.cbs.cmd = cmd
         /\ r.out = k.out /\ r.sent = k.sent /\ r.wire = k.wire
         /\ r.input = k.input /\ r.fin = k.fin
  BY DEF Connect, K, Conns, BevStates, Callbacks

LEMMA SendFacts ==
  ASSUME NEW k \in K, NEW cmd \in Commands
  PROVE  LET r == Send(k, cmd) IN
         /\ r \in K
         /\ r.bev = k.bev /\ r.cbs.mode = "send" /\ r.cbs.cmd = cmd
         /\ r.out = Append(k.out, cmd) /\ r.sent = k.sent /\ r.wire = k.wire
         /\ r.input = k.input /\ r.fin = k.fin
  <1>1. k.out \in Seq(Commands) /\ Append(k.out, cmd) \in Seq(Commands)
    BY KFields
  <1> QED
    BY <1>1 DEF Send, K, Conns, Callbacks

LEMMA RecvFacts ==
  ASSUME NEW k \in K, NEW cmd \in Commands \cup {NoCmd}
  PROVE  LET r == Recv(k, cmd) IN
         /\ r \in K
         /\ r.bev = k.bev /\ r.cbs.mode = "recv" /\ r.cbs.cmd = cmd
         /\ r.out = k.out /\ r.sent = k.sent /\ r.wire = k.wire
         /\ r.input = k.input /\ r.fin = k.fin
  BY DEF Recv, K, Conns, Callbacks

LEMMA CloseFacts ==
  ASSUME NEW k \in K
  PROVE  LET r == Close(k) IN
         /\ r \in K
         /\ r.bev = k.bev /\ r.cbs.mode = "none" /\ r.cbs.cmd = NoCmd
         /\ r.out = k.out /\ r.sent = k.sent /\ r.wire = k.wire
         /\ r.input = k.input /\ r.fin = k.fin
  BY DEF Close, K, Conns, NoCallbacks, Callbacks

LEMMA ConnectedFacts ==
  ASSUME NEW k \in K
  PROVE  LET r == Connected(k) IN
         /\ r \in K
         /\ r.bev = "open" /\ r.cbs = k.cbs
         /\ r.out = k.out /\ r.sent = k.sent /\ r.wire = k.wire
         /\ r.input = k.input /\ r.fin = k.fin
  BY DEF Connected, K, Conns, BevStates

LEMMA RefusedFacts ==
  ASSUME NEW k \in K
  PROVE  LET r == Refused(k) IN
         /\ r \in K
         /\ r.bev = "failed" /\ r.cbs = k.cbs
         /\ r.out = k.out /\ r.sent = k.sent /\ r.wire = k.wire
         /\ r.input = k.input /\ r.fin
  BY DEF Refused, K, Conns, BevStates

LEMMA DrainedFacts ==
  ASSUME NEW k \in K
  PROVE  LET r == Drained(k) IN
         /\ r \in K
         /\ r.bev = k.bev /\ r.cbs = k.cbs
         /\ r.out = <<>> /\ r.sent = (IF k.fin THEN k.sent ELSE k.sent \o k.out)
         /\ r.wire = k.wire /\ r.input = k.input /\ r.fin = k.fin
  <1>1. k.out \in Seq(Commands) /\ k.sent \in Seq(Commands)
       /\ k.sent \o k.out \in Seq(Commands) /\ <<>> \in Seq(Commands)
    BY KFields
  <1> QED
    BY <1>1 DEF Drained, K, Conns

LEMMA WriteFailedFacts ==
  ASSUME NEW k \in K
  PROVE  LET r == WriteFailed(k) IN
         /\ r \in K
         /\ r.bev = k.bev /\ r.cbs = k.cbs
         /\ r.out = k.out /\ r.sent = k.sent /\ r.wire = k.wire
         /\ r.input = k.input /\ r.fin = k.fin
  BY DEF WriteFailed, K, Conns

LEMMA ReceivedFacts ==
  ASSUME NEW k \in K, NEW n \in 1 .. Len(k.wire)
  PROVE  LET r == Received(k, n) IN
         /\ r \in K
         /\ r.bev = k.bev /\ r.cbs = k.cbs
         /\ r.out = k.out /\ r.sent = k.sent
         /\ r.wire = SubSeq(k.wire, n + 1, Len(k.wire))
         /\ r.input = k.input \o SubSeq(k.wire, 1, n) /\ r.fin = k.fin
  <1>1. k.wire \in Seq(Lines) /\ k.input \in Seq(Lines)
    BY KFields
  <1>2. SubSeq(k.wire, n + 1, Len(k.wire)) \in Seq(Lines)
    BY <1>1
  <1>3. k.input \o SubSeq(k.wire, 1, n) \in Seq(Lines)
    BY <1>1
  <1> QED
    BY <1>2, <1>3 DEF Received, K, Conns

LEMMA LostFacts ==
  ASSUME NEW k \in K
  PROVE  LET r == Lost(k) IN
         /\ r \in K
         /\ r.bev = k.bev /\ r.cbs = k.cbs
         /\ r.out = k.out /\ r.sent = k.sent /\ r.wire = <<>>
         /\ r.input = k.input /\ r.fin = k.fin
  <1>1. <<>> \in Seq(Lines)
    OBVIOUS
  <1> QED
    BY <1>1 DEF Lost, K, Conns

LEMMA IgnoredFacts ==
  ASSUME NEW k \in K
  PROVE  LET r == Ignored(k) IN
         /\ r \in K
         /\ r.bev = "ignored" /\ r.cbs = k.cbs
         /\ r.out = k.out /\ r.sent = k.sent /\ r.wire = k.wire
         /\ r.input = k.input /\ r.fin = k.fin
  BY DEF Ignored, K, Conns, BevStates

LEMMA DeletedFacts ==
  ASSUME NEW k \in K
  PROVE  LET r == Deleted(k) IN
         /\ r \in K
         /\ r.bev = "deleted" /\ r.cbs = k.cbs
         /\ r.out = <<>> /\ r.sent = k.sent /\ r.wire = k.wire
         /\ r.input = <<>> /\ r.fin = k.fin
  <1>1. <<>> \in Seq(Commands) /\ <<>> \in Seq(Lines)
    OBVIOUS
  <1> QED
    BY <1>1 DEF Deleted, K, Conns, BevStates

LEMMA ServedFacts ==
  ASSUME NEW k \in K, NEW lines \in Seq(Lines), k.sent # <<>>
  PROVE  LET r == Served(k, lines) IN
         /\ r \in K
         /\ r.bev = k.bev /\ r.cbs = k.cbs
         /\ r.out = k.out /\ r.sent = Tail(k.sent) /\ r.wire = k.wire \o lines
         /\ r.input = k.input /\ r.fin = k.fin
  <1>1. k.sent \in Seq(Commands) /\ k.wire \in Seq(Lines)
    BY KFields
  <1>2. Tail(k.sent) \in Seq(Commands) /\ k.wire \o lines \in Seq(Lines)
    BY <1>1
  <1> QED
    BY <1>2 DEF Served, K, Conns

LEMMA ClosedByPeerFacts ==
  ASSUME NEW k \in K
  PROVE  LET r == ClosedByPeer(k) IN
         /\ r \in K
         /\ r.bev = k.bev /\ r.cbs = k.cbs
         /\ r.out = k.out /\ r.sent = <<>> /\ r.wire = k.wire
         /\ r.input = k.input /\ r.fin
  <1>1. <<>> \in Seq(Commands)
    OBVIOUS
  <1> QED
    BY <1>1 DEF ClosedByPeer, K, Conns

\* A line is taken from the input buffer.
Taken(k) == [k EXCEPT !.input = Tail(@)]

LEMMA TakenFacts ==
  ASSUME NEW k \in K, k.input # <<>>
  PROVE  LET r == Taken(k) IN
         /\ r \in K
         /\ r.bev = k.bev /\ r.cbs = k.cbs
         /\ r.out = k.out /\ r.sent = k.sent /\ r.wire = k.wire
         /\ r.input = Tail(k.input) /\ r.fin = k.fin
  <1>1. k.input \in Seq(Lines)
    BY KFields
  <1>2. Tail(k.input) \in Seq(Lines)
    BY <1>1
  <1> QED
    BY <1>2 DEF Taken, K, Conns
-----------------------------------------------------------------------------
(***************************************************************************)
(* Commands and replies.                                                   *)
(***************************************************************************)

LEMMA PollsNat == ASSUME NEW n \in Polls PROVE n \in Nat /\ n < Timeout
  BY TimeoutAssumption DEF Polls

LEMMA CommandFields ==
  /\ Authenticate.kind = "AUTHENTICATE"
  /\ SetConfOn.kind = "SETCONF DisableNetwork=0"
  /\ SetConfOff.kind = "SETCONF DisableNetwork=1" /\ SetConfOff.n = 0
  /\ GiveUp.kind = "SETCONF DisableNetwork=1" /\ GiveUp.n = 1
  /\ NoCmd.kind = "none"
  /\ \A n \in Nat : GetInfo(n).kind = "GETINFO status/bootstrap-phase"
  /\ \A n \in Nat : GetInfo(n).n = n
  BY DEF Authenticate, SetConfOn, SetConfOff, GiveUp, GetInfo, Command, NoCmd

LEMMA GetInfoFacts ==
  ASSUME NEW n \in Polls
  PROVE  /\ GetInfo(n) \in Commands
         /\ IsPoll(GetInfo(n)) /\ GetInfo(n).n = n
         /\ GetInfo(n) \notin Unsent /\ GetInfo(n) # GiveUp
  <1>1. n \in Nat
    BY PollsNat
  <1>2. GetInfo(n).kind = "GETINFO status/bootstrap-phase" /\ GetInfo(n).n = n
    BY <1>1, CommandFields
  <1>3. GetInfo(n) \in Commands
    BY DEF Commands
  <1>4. GetInfo(n) \notin Unsent /\ GetInfo(n) # GiveUp
    BY <1>2, CommandFields DEF Unsent
  <1> QED
    BY <1>2, <1>3, <1>4 DEF IsPoll

\* Every command is one of those that OnionPoller sends, and only one of them.
LEMMA PollCommand ==
  ASSUME NEW cmd \in Commands
  PROVE  /\ IsPoll(cmd) => cmd.n \in Polls /\ cmd = GetInfo(cmd.n)
         /\ cmd = GetInfo(cmd.n) => IsPoll(cmd)
         /\ cmd \in Unsent \/ cmd = GiveUp \/ IsPoll(cmd)
         /\ cmd # NoCmd
  <1>1. cmd \in Unsent \/ cmd = GiveUp \/ \E n \in Polls : cmd = GetInfo(n)
    BY DEF Commands, Unsent
  <1>2. ASSUME cmd = GetInfo(cmd.n) PROVE cmd.kind = "GETINFO status/bootstrap-phase"
    <2>1. GetInfo(cmd.n) = [kind |-> "GETINFO status/bootstrap-phase", n |-> cmd.n]
      BY DEF GetInfo, Command
    <2>2. PICK m : cmd = [kind |-> "GETINFO status/bootstrap-phase", n |-> m]
      BY <1>2, <2>1
    <2> QED
      BY <2>2
  <1>3. CASE cmd \in Unsent \/ cmd = GiveUp
    <2>1. cmd.kind # "GETINFO status/bootstrap-phase" /\ cmd.kind # "none"
      BY <1>3, CommandFields DEF Unsent
    <2> QED
      BY <1>2, <1>3, <2>1, CommandFields DEF IsPoll
  <1>4. ASSUME NEW n \in Polls, cmd = GetInfo(n)
        PROVE  IsPoll(cmd) /\ cmd.n = n /\ cmd # NoCmd
    BY <1>4, GetInfoFacts, CommandFields DEF IsPoll
  <1> QED
    BY <1>1, <1>3, <1>4

LEMMA CommandFacts ==
  /\ {Authenticate, SetConfOn, SetConfOff, GiveUp} \subseteq Commands
  /\ Unsent \subseteq Commands
  /\ NoCmd \notin Commands
  /\ GiveUp \notin Unsent
  /\ Authenticate # SetConfOn /\ Authenticate # SetConfOff
  /\ SetConfOn # SetConfOff
  /\ ~IsPoll(Authenticate) /\ ~IsPoll(SetConfOn) /\ ~IsPoll(SetConfOff)
  /\ ~IsPoll(GiveUp) /\ ~IsPoll(NoCmd)
  <1>1. /\ {Authenticate, SetConfOn, SetConfOff, GiveUp} \subseteq Commands
        /\ Unsent \subseteq Commands
    BY DEF Commands, Unsent
  <1>2. NoCmd \notin Commands
    BY PollCommand
  <1>3. /\ GiveUp.kind # Authenticate.kind /\ GiveUp.kind # SetConfOn.kind
        /\ Authenticate.kind # SetConfOn.kind /\ Authenticate.kind # SetConfOff.kind
        /\ SetConfOn.kind # SetConfOff.kind
    BY CommandFields
  <1>4. /\ GiveUp # SetConfOff /\ GiveUp # Authenticate /\ GiveUp # SetConfOn
        /\ Authenticate # SetConfOn /\ Authenticate # SetConfOff
        /\ SetConfOn # SetConfOff
    <2>1. GiveUp.n = 1 /\ SetConfOff.n = 0
      BY CommandFields
    <2>2. GiveUp # SetConfOff
      BY <2>1
    <2> QED
      BY <1>3, <2>2
  <1>5. GiveUp \notin Unsent
    BY <1>4 DEF Unsent
  <1>6. /\ ~IsPoll(Authenticate) /\ ~IsPoll(SetConfOn) /\ ~IsPoll(SetConfOff)
        /\ ~IsPoll(GiveUp) /\ ~IsPoll(NoCmd)
    BY CommandFields DEF IsPoll
  <1> QED
    BY <1>1, <1>2, <1>4, <1>5, <1>6

LEMMA LinesTyped ==
  ASSUME NEW l \in Lines, NEW m \in Lines
  PROVE  <<l>> \in Seq(Lines) /\ <<l, m>> \in Seq(Lines)
  OBVIOUS

LEMMA OneLine ==
  ASSUME NEW cmd, NEW l \in Lines, l.type = " "
  PROVE  /\ <<l>> \in Seq(Lines) /\ Reply(<<l>>, cmd)
         /\ <<l>> # <<>> /\ <<l>>[1] = l
  <1>1. <<l>> \in Seq(Lines)
    BY l \in Lines, LinesTyped
  <1>2. Len(<<l>>) = 1
    OBVIOUS
  <1>3. <<l>>[1] = l
    OBVIOUS
  <1>4. <<l>> # <<>>
    OBVIOUS
  <1>5. Reply(<<l>>, cmd)
    BY <1>2, <1>3 DEF Reply
  <1> QED
    BY <1>1, <1>3, <1>4, <1>5

LEMMA TwoLines ==
  ASSUME NEW cmd, NEW l \in Lines, NEW m \in Lines,
         IsPoll(cmd), l.type = "-", l.code = "250", m.type = " "
  PROVE  /\ <<l, m>> \in Seq(Lines) /\ Reply(<<l, m>>, cmd)
         /\ <<l, m>> # <<>> /\ <<l, m>>[1] = l
  <1>1. <<l, m>> \in Seq(Lines)
    BY l \in Lines, m \in Lines, LinesTyped
  <1>2. Len(<<l, m>>) = 2
    OBVIOUS
  <1>3. <<l, m>>[1] = l /\ <<l, m>>[2] = m
    OBVIOUS
  <1>4. <<l, m>> # <<>>
    OBVIOUS
  <1>5. Reply(<<l, m>>, cmd)
    BY <1>2, <1>3 DEF Reply
  <1> QED
    BY <1>1, <1>3, <1>4, <1>5

\* What tor replies is a reply, and what it did is what the reply says.
LEMMA ReplyFacts ==
  ASSUME NEW cmd \in Commands, NEW r \in Replies(cmd)
  PROVE  /\ r.lines \in Seq(Lines)
         /\ Reply(r.lines, cmd)
         /\ r.lines # <<>>
         /\ r.lines[1].code # "250" => r.did = "none"
         /\ cmd = SetConfOn /\ r.lines[1].code = "250" => r.did = "on"
         /\ cmd \in {SetConfOff, GiveUp} /\ r.lines[1].code = "250" => r.did = "off"
         /\ cmd = Authenticate \/ IsPoll(cmd) => r.did = "none"
  <1> DEFINE final(code) == Line(code, " ", 0)
             first(p) == Line("250", "-", p)
             reply(lines, did) == [lines |-> lines, did |-> did]
             good(did) == reply(<<final("250")>>, did)
             bad(code) == reply(<<final(code)>>, "none")
             phase(p) == reply(<<first(p), final("250")>>, "none")
  <1>1. ASSUME NEW code \in {"250", "552", "515"}
        PROVE  final(code) \in Lines /\ final(code).code = code /\ final(code).type = " "
    <2>1. 0 \in Progresses
      BY DEF Progresses
    <2>2. final(code).code = code /\ final(code).type = " "
      BY Zenon DEF Line
    <2>3. final(code) \in Lines
      BY <2>1, Zenon DEF Line, Lines
    <2> QED
      BY <2>2, <2>3, Zenon
  <1>2. ASSUME NEW p \in {0, 100}
        PROVE  first(p) \in Lines /\ first(p).code = "250" /\ first(p).type = "-"
    <2>1. p \in Progresses
      BY DEF Progresses
    <2>2. first(p) = [code |-> "250", type |-> "-", data |-> p]
      BY DEF Line
    <2> HIDE DEF first
    <2> QED
      BY ONLY <2>1, <2>2 DEF Lines
  <1>3. ASSUME NEW did, r = good(did)
        PROVE  /\ r.lines \in Seq(Lines) /\ Reply(r.lines, cmd) /\ r.lines # <<>>
               /\ r.lines[1].code = "250" /\ r.did = did
    <2> HIDE DEF final
    <2>1. r.lines = <<final("250")>> /\ r.did = did
      BY <1>3
    <2>2. final("250") \in Lines /\ final("250").code = "250" /\ final("250").type = " "
      BY <1>1
    <2> QED
      BY <2>1, <2>2, OneLine
  <1>4. ASSUME NEW code \in {"552", "515"}, r = bad(code)
        PROVE  /\ r.lines \in Seq(Lines) /\ Reply(r.lines, cmd) /\ r.lines # <<>>
               /\ r.lines[1].code # "250" /\ r.did = "none"
    <2> HIDE DEF final
    <2>1. r.lines = <<final(code)>> /\ r.did = "none"
      BY <1>4
    <2>2. final(code) \in Lines /\ final(code).code = code /\ final(code).type = " "
      BY <1>1
    <2> QED
      BY <2>1, <2>2, OneLine
  <1>5. ASSUME NEW p \in {0, 100}, r = phase(p), IsPoll(cmd)
        PROVE  /\ r.lines \in Seq(Lines) /\ Reply(r.lines, cmd) /\ r.lines # <<>>
               /\ r.lines[1].code = "250" /\ r.did = "none"
    <2> HIDE DEF final, first
    <2>1. r.lines = <<first(p), final("250")>> /\ r.did = "none"
      BY <1>5
    <2>2. final("250") \in Lines /\ final("250").type = " "
      BY <1>1
    <2>3. first(p) \in Lines /\ first(p).code = "250" /\ first(p).type = "-"
      BY <1>2
    <2> QED
      BY <1>5, <2>1, <2>2, <2>3, TwoLines
  <1>6. CASE cmd = Authenticate
    <2>1. r = good("none") \/ r = bad("515")
      BY <1>6, CommandFields DEF Replies
    <2>2. cmd # SetConfOn /\ cmd \notin {SetConfOff, GiveUp}
      BY <1>6, CommandFields
    <2> HIDE DEF good, bad
    <2> QED
      BY <1>3, <1>4, <2>1, <2>2
  <1>7. CASE cmd = SetConfOn
    <2>1. r = good("on") \/ r = bad("552")
      BY <1>7, CommandFields DEF Replies
    <2>2. cmd # Authenticate /\ cmd \notin {SetConfOff, GiveUp} /\ ~IsPoll(cmd)
      BY <1>7, CommandFields DEF IsPoll
    <2> HIDE DEF good, bad
    <2> QED
      BY <1>3, <1>4, <2>1, <2>2
  <1>8. CASE cmd \in {SetConfOff, GiveUp}
    <2>1. cmd # SetConfOn /\ cmd # Authenticate /\ ~IsPoll(cmd)
      BY <1>8, CommandFields DEF IsPoll
    <2>2. r = good("off") \/ r = bad("552")
      BY <1>8, <2>1 DEF Replies
    <2> HIDE DEF good, bad
    <2> QED
      BY <1>3, <1>4, <2>1, <2>2
  <1>9. CASE IsPoll(cmd)
    <2>1. cmd # Authenticate /\ cmd # SetConfOn /\ cmd \notin {SetConfOff, GiveUp}
      BY <1>9, CommandFields DEF IsPoll
    <2>2. r = bad("552") \/ \E p \in {0, 100} : r = phase(p)
      BY <2>1 DEF Replies
    <2> HIDE DEF phase, bad
    <2> QED
      BY <1>4, <1>5, <1>9, <2>1, <2>2
  <1> QED
    BY <1>6, <1>7, <1>8, <1>9, PollCommand DEF Unsent

\* Sequences of lines that are put together, and taken apart.
LEMMA Rejoined ==
  ASSUME NEW w \in Seq(Lines), NEW n \in 1 .. Len(w)
  PROVE  /\ SubSeq(w, 1, n) \o SubSeq(w, n + 1, Len(w)) = w
         /\ SubSeq(w, 1, n) # <<>>
  OBVIOUS

LEMMA EmptyJoin ==
  ASSUME NEW w \in Seq(Lines)
  PROVE  <<>> \o w = w /\ w \o <<>> = w
  OBVIOUS

LEMMA NoLines ==
  ASSUME NEW w \in Seq(Lines)
  PROVE  Len(w) \in Nat /\ (w = <<>> <=> Len(w) = 0)
  BY EmptySeq

LEMMA Shifted ==
  ASSUME NEW a \in Nat, NEW b \in Nat, a >= 1, a + b >= 2,
         NEW i, NEW w, NEW h, NEW s, NEW t,
         \A j \in 1 .. a + b : s[j] = IF j <= a THEN i[j] ELSE w[j - a],
         \A j \in 1 .. (a - 1) + b :
           t[j] = IF j <= a - 1 THEN h[j] ELSE w[j - (a - 1)],
         \A j \in 1 .. a - 1 : h[j] = i[j + 1]
  PROVE  t[1] = s[2]
  <1>1. CASE a = 1
    <2>1. s[2] = w[1] /\ t[1] = w[1]
      BY <1>1
    <2> QED
      BY <2>1
  <1>2. CASE a # 1
    <2>1. s[2] = i[2] /\ t[1] = h[1] /\ h[1] = i[2]
      BY <1>2
    <2> QED
      BY <2>1
  <1> QED
    BY <1>1, <1>2

\* The first line of what has arrived and what has not.
LEMMA FirstLine ==
  ASSUME NEW i \in Seq(Lines), NEW w \in Seq(Lines), i # <<>>
  PROVE  /\ Head(i) \in Lines /\ Head(i) = (i \o w)[1]
         /\ i \o w \in Seq(Lines) /\ Len(i \o w) = Len(i) + Len(w)
         /\ Len(i) >= 1
         /\ Tail(i) \o w \in Seq(Lines) /\ Len(Tail(i) \o w) = Len(i) + Len(w) - 1
         /\ Len(Tail(i)) = Len(i) - 1 /\ Tail(i) \in Seq(Lines)
         /\ Len(i) + Len(w) >= 2 => (Tail(i) \o w)[1] = (i \o w)[2]
  <1>1. /\ Len(i) \in Nat /\ Len(i) # 0 /\ Len(w) \in Nat
    BY NoLines
  <1>2. /\ Head(i) \in Lines /\ Tail(i) \in Seq(Lines) /\ Len(Tail(i)) = Len(i) - 1
        /\ \A j \in 1 .. Len(Tail(i)) : Tail(i)[j] = i[j + 1]
    BY HeadTailProperties
  <1>3. Head(i) = i[1]
    OBVIOUS
  <1>4. /\ i \o w \in Seq(Lines) /\ Len(i \o w) = Len(i) + Len(w)
        /\ \A j \in 1 .. Len(i) + Len(w) :
             (i \o w)[j] = IF j <= Len(i) THEN i[j] ELSE w[j - Len(i)]
    BY ConcatProperties
  <1>5. /\ Tail(i) \o w \in Seq(Lines)
        /\ Len(Tail(i) \o w) = Len(Tail(i)) + Len(w)
        /\ \A j \in 1 .. Len(Tail(i)) + Len(w) :
             (Tail(i) \o w)[j] =
               IF j <= Len(Tail(i)) THEN Tail(i)[j] ELSE w[j - Len(Tail(i))]
    BY <1>2, ConcatProperties
  <1>6. (i \o w)[1] = i[1]
    BY <1>1, <1>4
  <1>7. ASSUME Len(i) + Len(w) >= 2 PROVE (Tail(i) \o w)[1] = (i \o w)[2]
    <2> DEFINE s == i \o w
               t == Tail(i) \o w
               h == Tail(i)
               a == Len(i)
               b == Len(w)
    <2>1. a \in Nat /\ b \in Nat /\ a >= 1 /\ a + b >= 2
      BY <1>1, <1>7
    <2>2. \A j \in 1 .. a + b : s[j] = IF j <= a THEN i[j] ELSE w[j - a]
      BY <1>4
    <2>3. \A j \in 1 .. (a - 1) + b :
            t[j] = IF j <= a - 1 THEN h[j] ELSE w[j - (a - 1)]
      BY <1>2, <1>5
    <2>4. \A j \in 1 .. a - 1 : h[j] = i[j + 1]
      BY <1>2
    <2> HIDE DEF s, t, h, a, b
    <2>5. t[1] = s[2]
      BY <2>1, <2>2, <2>3, <2>4, Shifted
    <2> QED
      BY <2>5 DEF s, t
  <1> QED
    BY <1>1, <1>2, <1>3, <1>4, <1>5, <1>6, <1>7

\* After a final line nothing is left; after a line that is not final, the
\* final one.
LEMMA AfterLine ==
  ASSUME NEW cmd, NEW i \in Seq(Lines), NEW w \in Seq(Lines), i # <<>>,
         Reply(i \o w, cmd)
  PROVE  /\ Head(i) \in Lines
         /\ Head(i) = (i \o w)[1]
         /\ Head(i).type = " " => Tail(i) = <<>> /\ w = <<>>
         /\ Head(i).type = "-" =>
              /\ IsPoll(cmd)
              /\ Head(i).code = "250"
              /\ Reply(Tail(i) \o w, cmd)
              /\ Tail(i) \o w # <<>>
  <1> DEFINE s == i \o w
             t == Tail(i) \o w
  <1>1. /\ Head(i) \in Lines /\ Head(i) = s[1]
        /\ s \in Seq(Lines) /\ Len(s) = Len(i) + Len(w) /\ Len(i) >= 1
        /\ t \in Seq(Lines) /\ Len(t) = Len(i) + Len(w) - 1
        /\ Len(Tail(i)) = Len(i) - 1 /\ Tail(i) \in Seq(Lines)
        /\ Len(i) + Len(w) >= 2 => t[1] = s[2]
    BY FirstLine
  <1>2. Len(i) \in Nat /\ Len(w) \in Nat
    BY NoLines
  <1>3. \/ Len(s) = 1 /\ s[1].type = " "
        \/ /\ Len(s) = 2 /\ IsPoll(cmd)
           /\ s[1].type = "-" /\ s[1].code = "250" /\ s[2].type = " "
    <2>1. s # <<>>
      BY <1>1, <1>2, NoLines
    <2> QED
      BY <2>1 DEF Reply
  <1> HIDE DEF s, t
  <1>4. ASSUME s[1].type = " " PROVE Tail(i) = <<>> /\ w = <<>>
    <2>1. Len(s) = 1
      BY <1>3, <1>4
    <2>2. Len(Tail(i)) = 0 /\ Len(w) = 0
      BY <1>1, <1>2, <2>1
    <2> QED
      BY <1>1, <2>2, NoLines
  <1>5. ASSUME s[1].type = "-"
        PROVE  IsPoll(cmd) /\ s[1].code = "250" /\ Reply(t, cmd) /\ t # <<>>
    <2>1. Len(s) = 2 /\ IsPoll(cmd) /\ s[1].code = "250" /\ s[2].type = " "
      BY <1>3, <1>5
    <2>2. Len(i) + Len(w) = 2
      BY <1>1, <2>1
    <2>5. Len(t) = 1 /\ t[1] = s[2]
      BY <1>1, <1>2, <2>2
    <2>3. t # <<>>
      BY <1>1, <2>5, NoLines
    <2>4. Reply(t, cmd)
      BY <2>1, <2>5 DEF Reply
    <2> QED
      BY <2>1, <2>3, <2>4
  <1> QED
    BY <1>1, <1>4, <1>5 DEF s, t
-----------------------------------------------------------------------------
(***************************************************************************)
(* What each step makes of the invariant of its call.                      *)
(***************************************************************************)

LEMMA EmptyReply ==
  ASSUME NEW cmd
  PROVE  Reply(<<>> \o <<>>, cmd) /\ <<>> \o <<>> = <<>>
  <1>1. <<>> \in Seq(Lines)
    OBVIOUS
  <1>2. <<>> \o <<>> = <<>>
    BY <1>1, EmptyJoin
  <1> QED
    BY <1>2 DEF Reply

LEMMA OneCommand ==
  ASSUME NEW cmd
  PROVE  /\ Append(<<>>, cmd) = <<cmd>> /\ <<cmd>> # <<>>
         /\ Head(<<cmd>>) = cmd /\ Tail(<<cmd>>) = <<>>
         /\ <<>> \o <<cmd>> = <<cmd>>
  OBVIOUS

LEMMA SingleCommand == ASSUME NEW cmd PROVE Single(<<cmd>>)
  BY DEF Single

\* A call starts.
LEMMA GoodCall ==
  ASSUME NEW c, NEW k \in K, NEW w, NEW f, NEW n \in Nat, NEW r, NEW e,
         Good(c, k, w, f, n, r, e), k.bev = "null",
         NEW x, x = Connect(k, Authenticate)
  PROVE  x \in K /\ Good(c, x, w, f, n, r, e)
  <1>1. /\ x \in K
        /\ x.bev = "connecting" /\ x.cbs.mode = "connect" /\ x.cbs.cmd = Authenticate
        /\ x.out = k.out /\ x.sent = k.sent /\ x.wire = k.wire
        /\ x.input = k.input /\ x.fin = k.fin
    <2>1. Authenticate \in Commands
      BY CommandFacts
    <2>2. k \in K /\ x = Connect(k, Authenticate)
      OBVIOUS
    <2> QED
      BY ONLY <2>1, <2>2, ConnectFacts
  <1>2. w = {} /\ f = {} /\ k.cbs.mode = "none"
    BY KFields DEF Good, ModeInv, Alive
  <1>3. Quiet(k) /\ n = 0 /\ r = <<>> /\ e = "none"
    BY DEF Good, PipeInv, CountInv, ReportInv, EffectInv
  <1>4. Quiet(x)
    BY <1>1, <1>3 DEF Quiet
  <1>5. ModeInv(x, w, f)
    BY <1>1, <1>2, CommandFacts DEF ModeInv, Alive
  <1>6. PipeInv(x, w, f)
    BY <1>1, <1>4, EmptyReply DEF PipeInv, Quiet
  <1>7. CountInv(x, w, n)
    BY <1>1, <1>2, <1>3, TimeoutAssumption DEF CountInv, Active
  <1>8. ReportInv(x, w, n, r)
    BY <1>1, <1>2, <1>3 DEF ReportInv, Good
  <1>9. EffectInv(c, x, w, e)
    BY <1>1, <1>2, <1>3 DEF EffectInv, Active
  <1> QED
    BY <1>1, <1>5, <1>6, <1>7, <1>8, <1>9 DEF Good

\* When the call may send the command.
Due(c, cmd, n, e) ==
    /\ cmd \in Unsent => n = 0
    /\ IsPoll(cmd) => n = cmd.n + 1
    /\ cmd = GiveUp => n = Timeout
    /\ cmd = Authenticate => e = "none"
    /\ cmd = SetConfOn => c \in Enables /\ e = "none"
    /\ cmd = SetConfOff => c \in Disables /\ e = "none"
    /\ IsPoll(cmd) \/ cmd = GiveUp => c \in Enables /\ e = "on"

\* A command is written to a connection where nothing is on its way.
LEMMA GoodSend ==
  ASSUME NEW c, NEW k \in K, NEW f, NEW n \in Nat, NEW r, NEW e,
         NEW cmd \in Commands, Quiet(k), k.bev \in {"open", "failed"},
         n <= Timeout, Due(c, cmd, n, e),
         \/ r = <<>>
         \/ /\ Len(r) = 1 /\ r[1].polling = TRUE /\ r[1].status \in LostStatuses
            /\ k.fin /\ IsPoll(cmd),
         NEW x, x = Send(k, cmd)
  PROVE  x \in K /\ Good(c, x, {}, f, n, r, e)
  <1>1. /\ x \in K
        /\ x.bev = k.bev /\ x.cbs.mode = "send" /\ x.cbs.cmd = cmd
        /\ x.out = Append(k.out, cmd) /\ x.sent = k.sent /\ x.wire = k.wire
        /\ x.input = k.input /\ x.fin = k.fin
    BY SendFacts
  <1>2. x.out = <<cmd>> /\ x.sent = <<>> /\ x.wire = <<>> /\ x.input = <<>>
    BY <1>1, OneCommand DEF Quiet
  <1>3. x.bev \in {"open", "failed"}
    BY <1>1
  <1>4. ModeInv(x, {}, f)
    BY <1>1, <1>3 DEF ModeInv, Alive
  <1>5. PipeInv(x, {}, f)
    BY <1>1, <1>2, <1>3, EmptyReply DEF PipeInv
  <1>6. CountInv(x, {}, n)
    BY <1>1, <1>3 DEF CountInv, Due
  <1>7. ReportInv(x, {}, n, r)
    <2>1. CASE r = <<>>
      BY <2>1, <1>1, <1>3 DEF ReportInv
    <2>2. CASE /\ Len(r) = 1 /\ r[1].polling = TRUE /\ r[1].status \in LostStatuses
               /\ k.fin /\ IsPoll(cmd)
      BY <2>2, <1>1, <1>2, <1>3 DEF ReportInv, Active, LostStatuses
    <2> QED
      BY <2>1, <2>2
  <1>8. ~Obeyed(x) /\ Awaited(x)
    BY <1>2, EmptyReply, OneCommand DEF Obeyed, Awaited
  <1>9. EffectInv(c, x, {}, e)
    BY <1>1, <1>3, <1>8 DEF EffectInv, Due
  <1> QED
    BY <1>1, <1>4, <1>5, <1>6, <1>7, <1>9 DEF Good

\* The connection is closed and the call reports.
LEMMA GoodFinish ==
  ASSUME NEW c, NEW k \in K, NEW w, NEW f, NEW n \in Nat, NEW r \in Seq(Reports),
         NEW e, NEW report \in Reports,
         k.bev \in {"open", "failed"}, n <= Timeout, \A m \in w : n = m,
         k.wire = <<>>, k.input = <<>>, k.sent = <<>>,
         k.out # <<>> => k.fin /\ Single(k.out),
         w # {} => Quiet(k) /\ k.fin /\ c \in Enables /\ e = "on",
         w # {} => r = <<>> /\ report.status \in LostStatuses /\ report.polling = TRUE,
         w = {} => report.polling = FALSE,
         \/ r = <<>>
         \/ /\ Len(r) = 1 /\ r[1].polling = TRUE /\ r[1].status \in LostStatuses
            /\ report.status \in LostStatuses,
         report.status = "GENERIC_ERROR" => n = Timeout,
         NEW x, x = Close(k),
         NEW s, s = Append(r, report)
  PROVE  x \in K /\ s \in Seq(Reports) /\ Good(c, x, w, f, n, s, e)
  <1>1. /\ x \in K
        /\ x.bev = k.bev /\ x.cbs.mode = "none" /\ x.cbs.cmd = NoCmd
        /\ x.out = k.out /\ x.sent = k.sent /\ x.wire = k.wire
        /\ x.input = k.input /\ x.fin = k.fin
    BY CloseFacts
  <1>3. /\ s \in Seq(Reports) /\ s # <<>> /\ Len(s) = Len(r) + 1
        /\ \A j \in 1 .. Len(r) : s[j] = r[j]
        /\ s[Len(r) + 1] = report
    BY AppendProperties
  <1>4. x.bev \in {"open", "failed"}
    BY <1>1
  <1>5. ModeInv(x, w, f)
    BY <1>1, <1>4 DEF ModeInv, Alive
  <1>6. PipeInv(x, w, f)
    BY <1>1, <1>4, EmptyReply DEF PipeInv, Quiet
  <1>7. CountInv(x, w, n)
    BY <1>1, <1>4 DEF CountInv, Active
  <1>8. ASSUME r = <<>> PROVE ReportInv(x, w, n, s)
    <2>1. Len(s) = 1 /\ s[1] = report
      BY <1>3, <1>8
    <2>2. w # {} => s[1].polling = TRUE /\ s[1].status \in LostStatuses
      BY <2>1
    <2>3. \A i \in 1 .. Len(s) : s[i].status = "GENERIC_ERROR" => n = Timeout
      BY <2>1
    <2>4. w # {} => x.fin /\ x.wire = <<>> /\ x.input = <<>>
      BY <1>1
    <2> QED
      BY <1>1, <1>4, <2>1, <2>2, <2>3, <2>4 DEF ReportInv
  <1>9. ASSUME r # <<>> PROVE ReportInv(x, w, n, s)
    <2>1. /\ Len(r) = 1 /\ r[1].polling = TRUE /\ r[1].status \in LostStatuses
          /\ report.status \in LostStatuses /\ w = {} /\ report.polling = FALSE
      BY <1>9
    <2>2. Len(s) = 2 /\ s[1] = r[1] /\ s[2] = report
      BY <1>3, <2>1
    <2>3. /\ s[1].status \in LostStatuses /\ s[1].polling = TRUE
          /\ s[2].status \in LostStatuses /\ s[2].polling = FALSE
      BY <2>1, <2>2
    <2>4. s[1].status # "GENERIC_ERROR" /\ s[2].status # "GENERIC_ERROR"
      BY <2>3 DEF LostStatuses
    <2>5. \A i \in 1 .. Len(s) : s[i].status = "GENERIC_ERROR" => n = Timeout
      BY <2>2, <2>4
    <2> QED
      BY <1>1, <1>4, <2>1, <2>2, <2>3, <2>5 DEF ReportInv
  <1>10. ReportInv(x, w, n, s)
    BY <1>8, <1>9
  <1>11. EffectInv(c, x, w, e)
    BY <1>1, <1>4 DEF EffectInv, Active
  <1> QED
    BY <1>1, <1>3, <1>5, <1>6, <1>7, <1>10, <1>11 DEF Good

\* The connection is established, and AUTHENTICATE is written.
LEMMA GoodEstablished ==
  ASSUME NEW c, NEW k \in K, NEW w, NEW f, NEW n \in Nat, NEW r, NEW e,
         Good(c, k, w, f, n, r, e), k.bev = "connecting",
         NEW g, NEW x, x = Send(Connected(k), k.cbs.cmd)
  PROVE  x \in K /\ Good(c, x, w, g, n, r, e)
  <1> DEFINE j == Connected(k)
  <1>1. /\ j \in K
        /\ j.bev = "open" /\ j.cbs = k.cbs
        /\ j.out = k.out /\ j.sent = k.sent /\ j.wire = k.wire
        /\ j.input = k.input /\ j.fin = k.fin
    BY ConnectedFacts
  <1>2. w = {} /\ k.cbs.cmd = Authenticate
    BY DEF Good, ModeInv
  <1>3. Quiet(k) /\ n = 0 /\ r = <<>> /\ e = "none"
    BY DEF Good, PipeInv, CountInv, ReportInv, EffectInv
  <1>4. Quiet(j)
    BY <1>1, <1>3 DEF Quiet
  <1>5. Due(c, Authenticate, n, e)
    BY <1>3, CommandFacts DEF Due, Unsent
  <1> HIDE DEF j
  <1>6. x = Send(j, Authenticate)
    BY <1>2 DEF j
  <1>7. n <= Timeout
    BY <1>3, TimeoutAssumption
  <1>8. x \in K /\ Good(c, x, {}, g, n, r, e)
    BY <1>1, <1>3, <1>4, <1>5, <1>6, <1>7, CommandFacts, GoodSend
  <1> QED
    BY <1>2, <1>8

\* The connection is refused.
LEMMA GoodRefused ==
  ASSUME NEW c, NEW k \in K, NEW w, NEW f, NEW n \in Nat, NEW r \in Seq(Reports),
         NEW e, Good(c, k, w, f, n, r, e), k.bev = "connecting",
         NEW report \in Reports, report.status = "CONNECT_FAILED",
         w = {} => report.polling = FALSE, NEW g,
         NEW x, x = Close(Close(Refused(k))),
         NEW s, s = Append(r, report)
  PROVE  x \in K /\ s \in Seq(Reports) /\ Good(c, x, w, g, n, s, e)
  <1> DEFINE i == Refused(k)
             j == Close(i)
  <1>1. /\ i \in K
        /\ i.bev = "failed" /\ i.cbs = k.cbs
        /\ i.out = k.out /\ i.sent = k.sent /\ i.wire = k.wire
        /\ i.input = k.input /\ i.fin
    BY RefusedFacts
  <1>2. /\ j \in K
        /\ j.bev = i.bev /\ j.out = i.out /\ j.sent = i.sent /\ j.wire = i.wire
        /\ j.input = i.input /\ j.fin = i.fin
    BY <1>1, CloseFacts
  <1>3. w = {} /\ report.polling = FALSE
    BY DEF Good, ModeInv
  <1>4. Quiet(k) /\ n = 0 /\ r = <<>>
    BY DEF Good, PipeInv, CountInv, ReportInv
  <1>6. j.bev = "failed" /\ j.wire = <<>> /\ j.input = <<>> /\ j.sent = <<>> /\ j.out = <<>>
    BY <1>1, <1>2, <1>4 DEF Quiet
  <1>7. n <= Timeout
    BY <1>4, TimeoutAssumption
  <1>8. x = Close(j)
    OBVIOUS
  <1> HIDE DEF i, j
  <1> QED
    BY <1>2, <1>3, <1>4, <1>6, <1>7, <1>8, GoodFinish

\* The output buffer is drained into the stream.
LEMMA GoodFlush ==
  ASSUME NEW c, NEW k \in K, NEW w, NEW n \in Nat, NEW r, NEW e,
         Good(c, k, w, {}, n, r, e), k.bev = "open", k.out # <<>>,
         NEW x, x = LET j == Drained(k) IN
                    IF j.cbs.mode = "send" THEN Recv(j, j.cbs.cmd) ELSE j
  PROVE  x \in K /\ Good(c, x, w, {NoCmd}, n, r, e)
  <1> DEFINE j == Drained(k)
  <1>1. /\ j \in K
        /\ j.bev = k.bev /\ j.cbs = k.cbs
        /\ j.out = <<>> /\ j.sent = (IF k.fin THEN k.sent ELSE k.sent \o k.out)
        /\ j.wire = k.wire /\ j.input = k.input /\ j.fin = k.fin
    BY DrainedFacts
  <1>2. x = IF j.cbs.mode = "send" THEN Recv(j, j.cbs.cmd) ELSE j
    OBVIOUS
  <1> HIDE DEF j
  <1>3. k.sent = <<>> /\ k.wire = <<>> /\ k.input = <<>> /\ w = {}
    BY DEF Good, PipeInv, Quiet
  <1>4. k.cbs.mode \in {"none", "connect", "send", "recv"}
        /\ k.cbs.cmd \in Commands \cup {NoCmd}
    BY KFields
  <1>5. k.cbs.mode \in {"none", "send"}
    BY <1>4 DEF Good, ModeInv, PipeInv
  <1>6. ASSUME k.cbs.mode = "none" PROVE x \in K /\ Good(c, x, w, {NoCmd}, n, r, e)
    <2>1. x = j /\ k.fin
      BY <1>1, <1>2, <1>6 DEF Good, PipeInv
    <2>2. /\ x \in K /\ x.bev = "open" /\ x.cbs.mode = "none" /\ x.cbs.cmd = NoCmd
          /\ Quiet(x) /\ x.fin
      BY <1>1, <1>3, <1>6, <2>1 DEF Quiet, Good, ModeInv
    <2>3. ModeInv(x, w, {NoCmd})
      BY <2>2 DEF ModeInv, Alive
    <2>4. PipeInv(x, w, {NoCmd})
      BY <2>2, EmptyReply DEF PipeInv, Quiet
    <2>5. CountInv(x, w, n)
      BY <1>3, <2>2 DEF CountInv, Active, Good
    <2>6. ReportInv(x, w, n, r)
      BY <1>3, <2>2 DEF ReportInv, Good
    <2>7. EffectInv(c, x, w, e)
      BY <1>3, <2>2 DEF EffectInv, Active, Good
    <2> QED
      BY <2>2, <2>3, <2>4, <2>5, <2>6, <2>7 DEF Good
  <1>7. ASSUME k.cbs.mode = "send" PROVE x \in K /\ Good(c, x, w, {NoCmd}, n, r, e)
    <2>1. x = Recv(j, j.cbs.cmd)
      BY <1>1, <1>2, <1>7
    <2>2. /\ x \in K
          /\ x.bev = "open" /\ x.cbs.mode = "recv" /\ x.cbs.cmd = k.cbs.cmd
          /\ x.out = <<>> /\ x.sent = j.sent
          /\ x.wire = <<>> /\ x.input = <<>> /\ x.fin = k.fin
      BY <1>1, <1>3, <1>4, <2>1, RecvFacts
    <2>3. k.cbs.cmd \in Commands /\ k.out = <<k.cbs.cmd>>
      BY <1>7 DEF Good, ModeInv, PipeInv
    <2>4. x.sent = IF x.fin THEN <<>> ELSE <<x.cbs.cmd>>
      BY <1>1, <1>3, <2>2, <2>3, OneCommand
    <2>5. ModeInv(x, w, {NoCmd})
      BY <1>3, <2>2, <2>3 DEF ModeInv, Alive
    <2>6. PipeInv(x, w, {NoCmd})
      BY <1>3, <2>2, <2>4, EmptyReply DEF PipeInv
    <2>7. CountInv(x, w, n)
      BY <1>3, <1>7, <2>2 DEF CountInv, Active, Good
    <2>8. ReportInv(x, w, n, r)
      BY <1>3, <1>7, <2>2 DEF ReportInv, Active, Good
    <2>9. ~Obeyed(x) /\ Awaited(k)
      BY <2>2, EmptyReply DEF Obeyed, Awaited
    <2>10. EffectInv(c, x, w, e)
      BY <1>3, <1>7, <2>2, <2>9 DEF EffectInv, Active, Good
    <2> QED
      BY <2>2, <2>5, <2>6, <2>7, <2>8, <2>10 DEF Good
  <1> QED
    BY <1>5, <1>6, <1>7

\* A connection whose peer is gone, with nothing left to read.
Gone(k) ==
    /\ k.fin /\ k.bev \in {"open", "failed"}
    /\ k.wire = <<>> /\ k.input = <<>> /\ k.sent = <<>>

\* A write has failed, or a read has.
LEMMA GoodGone ==
  ASSUME NEW c, NEW k \in K, NEW w, NEW n \in Nat, NEW r, NEW e,
         Good(c, k, w, {}, n, r, e), k.fin, k.bev \in {"open", "failed"},
         NEW x, (x = WriteFailed(k) /\ k.out # <<>>) \/ x = Lost(k)
  PROVE  x \in K /\ Good(c, x, w, {}, n, r, e) /\ Gone(x)
  <1>1. /\ x \in K
        /\ x.bev = k.bev /\ x.cbs = k.cbs
        /\ x.out = k.out /\ x.sent = k.sent
        /\ x.input = k.input /\ x.fin = k.fin
    <2>1. k \in K /\ (x = WriteFailed(k) \/ x = Lost(k))
      OBVIOUS
    <2>2. CASE x = WriteFailed(k)
      BY ONLY <2>1, <2>2, WriteFailedFacts
    <2>3. CASE x = Lost(k)
      BY ONLY <2>1, <2>3, LostFacts
    <2> QED
      BY <2>1, <2>2, <2>3
  <1>2. k.input = <<>> /\ k.sent = <<>> /\ (k.out # <<>> => k.wire = <<>>)
    BY DEF Good, PipeInv
  <1>3. x.wire = <<>>
    BY <1>2, WriteFailedFacts, LostFacts
  <1>4. ModeInv(x, w, {})
    BY <1>1 DEF Good, ModeInv
  <1>5. PipeInv(x, w, {})
    BY <1>1, <1>2, <1>3, EmptyReply DEF Good, PipeInv, Quiet
  <1>6. CountInv(x, w, n)
    BY <1>1 DEF Good, CountInv, Active
  <1>7. ReportInv(x, w, n, r)
    BY <1>1, <1>2, <1>3 DEF Good, ReportInv, Active
  <1>8. ~Obeyed(x) /\ (Awaited(x) => Awaited(k))
    BY <1>1, <1>2, <1>3, EmptyReply DEF Obeyed, Awaited
  <1>9. EffectInv(c, x, w, e)
    BY <1>1, <1>8 DEF Good, EffectInv, Active
  <1> QED
    BY <1>1, <1>2, <1>3, <1>4, <1>5, <1>6, <1>7, <1>9 DEF Good, Gone

\* Nobody is told of the loss.
LEMMA GoodUntold ==
  ASSUME NEW c, NEW k \in K, NEW w, NEW n \in Nat, NEW r, NEW e,
         Good(c, k, w, {}, n, r, e), k.bev \in {"open", "failed"}
  PROVE  Good(c, k, w, {NoCmd}, n, r, e)
  <1>1. ModeInv(k, w, {NoCmd})
    BY DEF Good, ModeInv, Alive
  <1>2. PipeInv(k, w, {NoCmd})
    BY DEF Good, PipeInv
  <1> QED
    BY <1>1, <1>2 DEF Good

\* A call that reports a loss has not reported, or has reported one, and has
\* then polled.
MayTell(c, r) ==
    \/ r = <<>>
    \/ c \in Enables /\ Len(r) = 1 /\ r[1].status \in LostStatuses

\* The call reports the loss.
LEMMA GoodTold ==
  ASSUME NEW c, NEW k \in K, NEW w, NEW n \in Nat, NEW r \in Seq(Reports), NEW e,
         Good(c, k, w, {}, n, r, e), Gone(k), k.cbs # NoCallbacks,
         NEW report \in Reports, report.status \in LostStatuses,
         w # {} => report.polling = TRUE, w = {} => report.polling = FALSE,
         NEW x, x = Close(k),
         NEW s, s = Append(r, report)
  PROVE  /\ x \in K /\ s \in Seq(Reports) /\ Good(c, x, w, {NoCmd}, n, s, e)
         /\ MayTell(c, r)
  <1>1. k.cbs.mode # "none"
    BY NoCallbacksFields DEF Good, ModeInv
  <1>2. r # <<>> => /\ w = {} /\ Len(r) = 1 /\ r[1].polling = TRUE
                    /\ r[1].status \in LostStatuses
                    /\ Active(k) /\ IsPoll(k.cbs.cmd)
    BY <1>1 DEF Good, ReportInv
  <1>3. r # <<>> => c \in Enables
    BY <1>2 DEF Good, EffectInv
  <1>4. n <= Timeout /\ \A m \in w : n = m
    BY DEF Good, CountInv
  <1>5. w # {} => Quiet(k) /\ c \in Enables /\ e = "on"
    BY DEF Good, PipeInv, EffectInv
  <1>6. report.status = "GENERIC_ERROR" => n = Timeout
    BY DEF LostStatuses
  <1>7. \/ r = <<>>
        \/ /\ Len(r) = 1 /\ r[1].polling = TRUE /\ r[1].status \in LostStatuses
           /\ report.status \in LostStatuses
    BY <1>2
  <1>8. w # {} => r = <<>> /\ report.status \in LostStatuses /\ report.polling = TRUE
    BY <1>2
  <1>9. w # {} => Quiet(k) /\ k.fin /\ c \in Enables /\ e = "on"
    BY <1>5 DEF Gone
  <1>10. x \in K /\ s \in Seq(Reports) /\ Good(c, x, w, {NoCmd}, n, s, e)
    <2>5. k.out # <<>> => Single(k.out)
      <3>1. k.cbs.mode \in {"none", "connect", "send", "recv"}
        BY KFields
      <3>2. k.cbs.mode = "connect" => k.out = <<>>
        BY DEF Good, ModeInv, PipeInv, Quiet
      <3> QED
        BY <1>1, <3>1, <3>2, SingleCommand DEF Good, PipeInv
    <2>1. /\ k.out # <<>> => k.fin /\ Single(k.out)
          /\ k.bev \in {"open", "failed"}
          /\ k.wire = <<>> /\ k.input = <<>> /\ k.sent = <<>>
      BY <2>5 DEF Gone
    <2>2. Good(c, x, w, {NoCmd}, n, s, e)
      BY <1>4, <1>6, <1>7, <1>8, <1>9, <2>1, GoodFinish, Zenon
    <2>3. x \in K
      BY CloseFacts
    <2>4. s \in Seq(Reports)
      OBVIOUS
    <2> QED
      BY <2>2, <2>3, <2>4
  <1> QED
    BY <1>2, <1>3, <1>10 DEF MayTell

\* A piece of a reply arrives.
LEMMA GoodRead ==
  ASSUME NEW c, NEW k \in K, NEW w, NEW n \in Nat, NEW r, NEW e,
         Good(c, k, w, {}, n, r, e), NEW m \in 1 .. Len(k.wire),
         NEW x, x = Received(k, m)
  PROVE  /\ x \in K /\ Good(c, x, w, {k.cbs.cmd}, n, r, e)
         /\ k.cbs.mode = "recv"
  <1>1. /\ x \in K
        /\ x.bev = k.bev /\ x.cbs = k.cbs
        /\ x.out = k.out /\ x.sent = k.sent
        /\ x.wire = SubSeq(k.wire, m + 1, Len(k.wire))
        /\ x.input = k.input \o SubSeq(k.wire, 1, m) /\ x.fin = k.fin
    BY ReceivedFacts
  <1>2. k.wire \in Seq(Lines) /\ SubSeq(k.wire, 1, m) \in Seq(Lines)
    BY KFields
  <1>3. k.wire # <<>>
    BY <1>2, NoLines
  <1>4. k.input = <<>> /\ k.out = <<>> /\ k.sent = <<>> /\ w = {} /\ k.cbs.mode = "recv"
    BY <1>3 DEF Good, PipeInv, Quiet
  <1>5. x.input = SubSeq(k.wire, 1, m)
    BY <1>1, <1>2, <1>4, EmptyJoin
  <1>6. x.input \o x.wire = k.wire /\ k.input \o k.wire = k.wire
    BY <1>1, <1>2, <1>4, <1>5, Rejoined, EmptyJoin
  <1>7. k.bev \in {"open", "failed"} /\ k.cbs.cmd \in Commands
    BY <1>4 DEF Good, ModeInv, Alive
  <1>8. r = <<>>
    BY <1>3, <1>4 DEF Good, ReportInv
  <1>9. ModeInv(x, w, {k.cbs.cmd})
    BY <1>1, <1>4, <1>7 DEF ModeInv, Alive
  <1>10. PipeInv(x, w, {k.cbs.cmd})
    BY <1>1, <1>4, <1>6, <1>7 DEF Good, PipeInv
  <1>11. CountInv(x, w, n)
    BY <1>1 DEF Good, CountInv, Active
  <1>12. ReportInv(x, w, n, r)
    BY <1>1, <1>8 DEF Good, ReportInv
  <1>13. (Obeyed(x) <=> Obeyed(k)) /\ (Awaited(x) <=> Awaited(k))
    BY <1>1, <1>6 DEF Obeyed, Awaited
  <1>14. EffectInv(c, x, w, e)
    BY <1>1, <1>13 DEF Good, EffectInv, Active
  <1> QED
    BY <1>1, <1>4, <1>9, <1>10, <1>11, <1>12, <1>14 DEF Good

\* The callback of libevent ends.
LEMMA GoodReturn ==
  ASSUME NEW c, NEW k \in K, NEW w, NEW cmd, NEW n \in Nat, NEW r, NEW e,
         Good(c, k, w, {cmd}, n, r, e), cmd = NoCmd \/ k.input = <<>>,
         NEW x, \/ x = k
                \/ x = Ignored(k) /\ k.cbs = NoCallbacks /\ w = {}
  PROVE  x \in K /\ Good(c, x, w, {}, n, r, e)
  <1>1. k.input = <<>>
    <2>1. CASE k.input # <<>>
      <3>1. k.cbs.cmd = NoCmd /\ k.cbs.mode = "recv"
        BY <2>1 DEF Good, PipeInv
      <3> QED
        BY <3>1, CommandFacts DEF Good, ModeInv
    <2> QED
      BY <2>1
  <1>2. CASE x = k
    <2>1. ModeInv(k, w, {}) /\ PipeInv(k, w, {})
      BY <1>1 DEF Good, ModeInv, PipeInv
    <2> QED
      BY <1>2, <2>1 DEF Good
  <1>3. CASE x = Ignored(k) /\ k.cbs = NoCallbacks /\ w = {}
    <2>1. /\ x \in K
          /\ x.bev = "ignored" /\ x.cbs = k.cbs
          /\ x.out = k.out /\ x.sent = k.sent /\ x.wire = k.wire
          /\ x.input = k.input /\ x.fin = k.fin
      BY <1>3, IgnoredFacts
    <2>2. x.cbs.mode = "none" /\ x.cbs.cmd = NoCmd /\ w = {}
      BY <1>3, <2>1, NoCallbacksFields
    <2>3. ModeInv(x, w, {})
      BY <2>1, <2>2 DEF ModeInv
    <2>4. PipeInv(x, w, {})
      BY <1>1, <2>1, <2>2 DEF Good, PipeInv
    <2>5. CountInv(x, w, n)
      BY <2>1, <2>2 DEF Good, CountInv, Active
    <2>6. ReportInv(x, w, n, r)
      BY <2>1, <2>2 DEF Good, ReportInv, Active
    <2>7. EffectInv(c, x, w, e)
      BY <2>1, <2>2 DEF Good, EffectInv, Active
    <2> QED
      BY <2>1, <2>3, <2>4, <2>5, <2>6, <2>7 DEF Good
  <1> QED
    BY <1>2, <1>3

\* The Bufferevent is deleted.
LEMMA GoodDelete ==
  ASSUME NEW c, NEW k \in K, NEW w, NEW f, NEW n \in Nat, NEW r, NEW e,
         Good(c, k, w, f, n, r, e), k.bev = "ignored",
         NEW x, x = Deleted(k)
  PROVE  x \in K /\ Good(c, x, w, f, n, r, e)
  <1>1. /\ x \in K
        /\ x.bev = "deleted" /\ x.cbs = k.cbs
        /\ x.out = <<>> /\ x.sent = k.sent /\ x.wire = k.wire
        /\ x.input = <<>> /\ x.fin = k.fin
    BY DeletedFacts
  <1>2. k.cbs.mode = "none" /\ k.cbs.cmd = NoCmd /\ w = {} /\ f = {}
    BY DEF Good, ModeInv, Alive
  <1>3. k.sent = <<>> /\ k.wire = <<>>
    BY <1>2 DEF Good, PipeInv
  <1>4. ModeInv(x, w, f)
    BY <1>1, <1>2 DEF ModeInv
  <1>5. PipeInv(x, w, f)
    BY <1>1, <1>2, <1>3, EmptyReply DEF PipeInv
  <1>6. CountInv(x, w, n)
    BY <1>1, <1>2 DEF Good, CountInv, Active
  <1>7. ReportInv(x, w, n, r)
    BY <1>1, <1>2 DEF Good, ReportInv, Active
  <1>8. EffectInv(c, x, w, e)
    BY <1>1, <1>2 DEF Good, EffectInv, Active
  <1> QED
    BY <1>1, <1>4, <1>5, <1>6, <1>7, <1>8 DEF Good

\* The timer fires, and GETINFO is written.
LEMMA GoodPoll ==
  ASSUME NEW c, NEW k \in K, NEW w, NEW f, NEW n \in Nat, NEW r, NEW e,
         Good(c, k, w, f, n, r, e), NEW m \in w, m \in Polls,
         NEW x, x = Send(k, GetInfo(m)),
         NEW v, v = w \ {m}, NEW l, l = n + 1
  PROVE  x \in K /\ Good(c, x, v, f, l, r, e)
  <1>1. n = m /\ v = {}
    BY DEF Good, CountInv
  <1>2. l \in Nat /\ l <= Timeout /\ l = m + 1
    BY <1>1, PollsNat, TimeoutAssumption
  <1>3. Quiet(k) /\ k.bev \in {"open", "failed"} /\ c \in Enables /\ e = "on"
    BY DEF Good, PipeInv, ModeInv, EffectInv, Alive
  <1>4. /\ GetInfo(m) \in Commands /\ IsPoll(GetInfo(m)) /\ GetInfo(m).n = m
        /\ GetInfo(m) \notin Unsent /\ GetInfo(m) # GiveUp
    BY GetInfoFacts
  <1> DEFINE cmd == GetInfo(m)
  <1>5. Due(c, cmd, l, e)
    BY <1>2, <1>3, <1>4 DEF Due, Unsent
  <1>6. \/ r = <<>>
        \/ /\ Len(r) = 1 /\ r[1].polling = TRUE /\ r[1].status \in LostStatuses
           /\ k.fin /\ IsPoll(cmd)
    BY <1>4 DEF Good, ReportInv
  <1>7. cmd \in Commands /\ x = Send(k, cmd)
    BY <1>4
  <1> HIDE DEF cmd
  <1>8. x \in K /\ Good(c, x, {}, f, l, r, e)
    BY <1>2, <1>3, <1>5, <1>6, <1>7, GoodSend
  <1> QED
    BY <1>1, <1>8

\* What did is, for the effect of a call before it.
Did(did, e) == IF did = "none" THEN e ELSE did

\* What tor did is what the call may have asked it for.
Done(c, k, r, e, did) ==
    /\ r = <<>> /\ k.bev \notin {"null", "connecting"}
    /\ did = "on" => c \in Enables /\ e = "none"
    /\ did = "off" => e = IF c \in Enables THEN "on" ELSE "none"
    /\ did \in {"none", "on", "off"}

\* tor replies, and what it does is what it was asked for.
LEMMA GoodReplies ==
  ASSUME NEW c, NEW k \in K, NEW w, NEW f, NEW n \in Nat, NEW r, NEW e,
         Good(c, k, w, f, n, r, e), k.sent # <<>>,
         NEW a \in Replies(Head(k.sent)),
         NEW x, x = Served(k, a.lines)
  PROVE  /\ x \in K /\ Good(c, x, w, f, n, r, Did(a.did, e))
         /\ Done(c, k, r, e, a.did)
  <1> DEFINE cmd == k.cbs.cmd
  <1>1. /\ k.cbs.mode = "recv" /\ k.sent = <<cmd>> /\ ~k.fin /\ w = {}
        /\ k.wire = <<>> /\ k.input = <<>> /\ k.out = <<>>
    BY DEF Good, PipeInv, Quiet
  <1>2. cmd \in Commands /\ k.bev \in {"open", "failed"}
    BY <1>1 DEF Good, ModeInv, Alive
  <1>3. Head(k.sent) = cmd /\ Tail(k.sent) = <<>>
    BY <1>1, OneCommand
  <1>4. /\ a.lines \in Seq(Lines)
        /\ Reply(a.lines, cmd)
        /\ a.lines # <<>>
        /\ a.lines[1].code # "250" => a.did = "none"
        /\ cmd = SetConfOn /\ a.lines[1].code = "250" => a.did = "on"
        /\ cmd \in {SetConfOff, GiveUp} /\ a.lines[1].code = "250" => a.did = "off"
        /\ cmd = Authenticate \/ IsPoll(cmd) => a.did = "none"
    BY <1>2, <1>3, ReplyFacts
  <1>5. /\ x \in K
        /\ x.bev = k.bev /\ x.cbs = k.cbs
        /\ x.out = k.out /\ x.sent = Tail(k.sent) /\ x.wire = k.wire \o a.lines
        /\ x.input = k.input /\ x.fin = k.fin
    BY <1>4, ServedFacts
  <1>6. x.sent = <<>> /\ x.wire = a.lines /\ x.input = <<>> /\ x.out = <<>>
    BY <1>1, <1>3, <1>4, <1>5, EmptyJoin
  <1>7. x.input \o x.wire = a.lines
    BY <1>4, <1>6, EmptyJoin
  <1>8. r = <<>>
    BY <1>1 DEF Good, ReportInv
  <1>9. cmd \in {Authenticate, SetConfOn, SetConfOff, GiveUp} \/ IsPoll(cmd)
    BY <1>2, PollCommand DEF Unsent
  <1>10. /\ cmd = Authenticate => e = "none"
         /\ cmd = SetConfOn => c \in Enables /\ e = "none"
         /\ cmd = SetConfOff => c \in Disables /\ e = "none"
         /\ IsPoll(cmd) => c \in Enables /\ e = "on"
         /\ cmd = GiveUp => c \in Enables /\ e = "on"
    BY <1>1 DEF Good, EffectInv, Awaited, Active
  <1> HIDE DEF cmd
  <1>11. x.cbs.mode = "recv" /\ x.cbs.cmd = cmd
    BY <1>1, <1>5 DEF cmd
  <1>12. ModeInv(x, w, f)
    BY <1>5 DEF Good, ModeInv
  <1>13. PipeInv(x, w, f)
    BY <1>1, <1>2, <1>4, <1>5, <1>6, <1>7, <1>11 DEF PipeInv
  <1>14. CountInv(x, w, n)
    BY <1>5 DEF Good, CountInv, Active
  <1>15. ReportInv(x, w, n, r)
    BY <1>2, <1>5, <1>8 DEF Good, ReportInv
  <1>16. ~Awaited(x) /\ (Obeyed(x) <=> a.lines[1].code = "250")
    BY <1>4, <1>6, <1>7 DEF Awaited, Obeyed
  <1>17. EffectInv(c, x, w, Did(a.did, e))
    BY <1>1, <1>2, <1>4, <1>5, <1>9, <1>10, <1>11, <1>16, CommandFacts
       DEF EffectInv, Active, Did
  <1>18. /\ a.did = "on" => c \in Enables /\ e = "none"
         /\ a.did = "off" => e = IF c \in Enables THEN "on" ELSE "none"
         /\ a.did \in {"none", "on", "off"}
    BY <1>4, <1>9, <1>10, OpsAssumption
  <1>19. Done(c, k, r, e, a.did)
    BY <1>2, <1>8, <1>18 DEF Done
  <1> QED
    BY <1>5, <1>12, <1>13, <1>14, <1>15, <1>17, <1>19 DEF Good

\* tor closes the connection.
LEMMA GoodCloses ==
  ASSUME NEW c, NEW k \in K, NEW w, NEW f, NEW n \in Nat, NEW r, NEW e,
         Good(c, k, w, f, n, r, e), k.bev = "open",
         NEW x, x = ClosedByPeer(k)
  PROVE  x \in K /\ Good(c, x, w, f, n, r, e)
  <1>1. /\ x \in K
        /\ x.bev = k.bev /\ x.cbs = k.cbs
        /\ x.out = k.out /\ x.sent = <<>> /\ x.wire = k.wire
        /\ x.input = k.input /\ x.fin
    BY ClosedByPeerFacts
  <1>2. ModeInv(x, w, f)
    BY <1>1 DEF Good, ModeInv
  <1>3. PipeInv(x, w, f)
    BY <1>1 DEF Good, PipeInv, Quiet
  <1>4. CountInv(x, w, n)
    BY <1>1 DEF Good, CountInv, Active
  <1>5. ReportInv(x, w, n, r)
    BY <1>1 DEF Good, ReportInv, Active
  <1>6. (Obeyed(x) <=> Obeyed(k)) /\ (Awaited(x) => Awaited(k))
    BY <1>1 DEF Obeyed, Awaited
  <1>7. EffectInv(c, x, w, e)
    BY <1>1, <1>6 DEF Good, EffectInv, Active
  <1> QED
    BY <1>1, <1>2, <1>3, <1>4, <1>5, <1>7 DEF Good

\* What is known when the loop of recv() for cmd has taken a line and left x.
LineTaken(c, x, w, cmd, n, r, e, line) ==
    /\ x \in K /\ x.bev \in {"open", "failed"}
    /\ x.cbs.mode = "recv" /\ x.cbs.cmd = cmd /\ cmd \in Commands
    /\ w = {} /\ r = <<>> /\ line \in Lines
    /\ x.out = <<>> /\ x.sent = <<>>
    /\ line.type = " " => Quiet(x)
    /\ line.type = "-" => /\ IsPoll(cmd) /\ line.code = "250"
                          /\ Reply(x.input \o x.wire, cmd)
    /\ n <= Timeout
    /\ cmd \in Unsent => n = 0
    /\ IsPoll(cmd) => n = cmd.n + 1 /\ c \in Enables /\ e = "on"
    /\ cmd = GiveUp => n = Timeout /\ c \in Enables
    /\ cmd = Authenticate => e = "none"
    /\ cmd = SetConfOn => c \in Enables
    /\ cmd = SetConfOff => c \in Disables
    /\ cmd = SetConfOn /\ line.code = "250" => e = "on"
    /\ cmd \in {SetConfOff, GiveUp} /\ line.code = "250" => e = "off"

LEMMA TakenLine ==
  ASSUME NEW c, NEW k \in K, NEW w, NEW cmd, NEW n \in Nat, NEW r, NEW e,
         Good(c, k, w, {cmd}, n, r, e), cmd # NoCmd, k.input # <<>>,
         NEW x, x = Taken(k), NEW line, line = Head(k.input)
  PROVE  LineTaken(c, x, w, cmd, n, r, e, line)
  <1>1. /\ x \in K
        /\ x.bev = k.bev /\ x.cbs = k.cbs
        /\ x.out = k.out /\ x.sent = k.sent /\ x.wire = k.wire
        /\ x.input = Tail(k.input) /\ x.fin = k.fin
    BY TakenFacts
  <1>2. /\ k.cbs.mode = "recv" /\ k.cbs.cmd = cmd /\ w = {}
        /\ k.out = <<>> /\ k.sent = <<>>
    BY DEF Good, PipeInv, Quiet
  <1>3. r = <<>> /\ k.bev \in {"open", "failed"} /\ cmd \in Commands
    BY <1>2 DEF Good, ReportInv, ModeInv, Alive
  <1>4. k.input \in Seq(Lines) /\ k.wire \in Seq(Lines)
    BY KFields
  <1>5. Reply(k.input \o k.wire, cmd)
    BY <1>2 DEF Good, PipeInv
  <1>6. /\ line \in Lines
        /\ line = (k.input \o k.wire)[1]
        /\ line.type = " " => Tail(k.input) = <<>> /\ k.wire = <<>>
        /\ line.type = "-" =>
             /\ IsPoll(cmd)
             /\ line.code = "250"
             /\ Reply(Tail(k.input) \o k.wire, cmd)
    BY <1>4, <1>5, AfterLine
  <1>7. line.code = "250" => Obeyed(k)
    <2>1. k.input \o k.wire # <<>>
      BY <1>4, ConcatEqualIffEmpty
    <2> QED
      BY <1>6, <2>1 DEF Obeyed
  <1>8. /\ line.type = " " => Quiet(x)
        /\ line.type = "-" => /\ IsPoll(cmd) /\ line.code = "250"
                              /\ Reply(x.input \o x.wire, cmd)
    BY <1>1, <1>2, <1>6 DEF Quiet
  <1>9. /\ n <= Timeout
        /\ cmd \in Unsent => n = 0
        /\ IsPoll(cmd) => n = cmd.n + 1
        /\ cmd = GiveUp => n = Timeout
    BY <1>2 DEF Good, CountInv, Active
  <1>10. /\ IsPoll(cmd) => c \in Enables /\ e = "on"
         /\ cmd = GiveUp => c \in Enables
         /\ cmd = Authenticate => e = "none"
         /\ cmd = SetConfOn => c \in Enables
         /\ cmd = SetConfOff => c \in Disables
         /\ cmd = SetConfOn /\ line.code = "250" => e = "on"
         /\ cmd \in {SetConfOff, GiveUp} /\ line.code = "250" => e = "off"
    BY <1>2, <1>7 DEF Good, EffectInv, Active
  <1> QED
    BY <1>1, <1>2, <1>3, <1>6, <1>8, <1>9, <1>10 DEF LineTaken

\* The line is the first of two: the loop goes on.
LEMMA GoodKeep ==
  ASSUME NEW c, NEW x, NEW w, NEW cmd, NEW n \in Nat, NEW r, NEW e, NEW line,
         LineTaken(c, x, w, cmd, n, r, e, line), line.type = "-"
  PROVE  x \in K /\ Good(c, x, w, {cmd}, n, r, e)
  <1>1. /\ x \in K /\ x.bev \in {"open", "failed"}
        /\ x.cbs.mode = "recv" /\ x.cbs.cmd = cmd /\ cmd \in Commands
        /\ w = {} /\ r = <<>>
        /\ x.out = <<>> /\ x.sent = <<>>
        /\ IsPoll(cmd) /\ Reply(x.input \o x.wire, cmd)
    BY DEF LineTaken
  <1>2. n <= Timeout /\ n = cmd.n + 1 /\ c \in Enables /\ e = "on"
    BY <1>1 DEF LineTaken
  <1>3. cmd \notin Unsent /\ cmd # GiveUp
    BY <1>1, CommandFacts DEF Unsent
  <1>4. ModeInv(x, w, {cmd})
    BY <1>1 DEF ModeInv, Alive
  <1>5. PipeInv(x, w, {cmd})
    BY <1>1 DEF PipeInv
  <1>6. CountInv(x, w, n)
    BY <1>1, <1>2, <1>3 DEF CountInv
  <1>7. ReportInv(x, w, n, r)
    BY <1>1 DEF ReportInv
  <1>8. EffectInv(c, x, w, e)
    BY <1>1, <1>2, <1>3 DEF EffectInv, Unsent
  <1> QED
    BY <1>1, <1>4, <1>5, <1>6, <1>7, <1>8 DEF Good

\* wait_for_circuit_ sets its timer.
LEMMA GoodWait ==
  ASSUME NEW c, NEW k \in K, NEW f, NEW n \in Nat, NEW e,
         k.bev \in {"open", "failed"}, k.cbs.mode = "recv", k.cbs.cmd \in Commands,
         Quiet(k), n < Timeout, c \in Enables, e = "on"
  PROVE  Good(c, k, {n}, f, n, <<>>, e)
  <1>1. ModeInv(k, {n}, f)
    BY DEF ModeInv, Alive
  <1>2. PipeInv(k, {n}, f)
    BY EmptyReply DEF PipeInv, Quiet
  <1>3. CountInv(k, {n}, n)
    BY TimeoutAssumption DEF CountInv
  <1>4. ReportInv(k, {n}, n, <<>>)
    BY DEF ReportInv
  <1>5. EffectInv(c, k, {n}, e)
    BY DEF EffectInv
  <1> QED
    BY <1>1, <1>2, <1>3, <1>4, <1>5 DEF Good
-----------------------------------------------------------------------------
(***************************************************************************)
(* What each step makes of the invariant.  A step touches one call.        *)
(***************************************************************************)

CallRecords == [op: Ops, cmd: Commands \cup {NoCmd}] \cup {NoCall}

LEMMA NoFrame ==
  ASSUME NEW d \in Ops
  PROVE  FrameIn(NoCall, d) = {}
  BY OpsAssumption DEF FrameIn, NoCall

LEMMA OneFrame ==
  ASSUME NEW c \in Ops, NEW cmd, NEW d \in Ops
  PROVE  FrameIn(Running(c, cmd), d) = IF d = c THEN {cmd} ELSE {}
  BY DEF FrameIn, Running

LEMMA PollingWaits ==
  ASSUME NEW c
  PROVE  Polling(c) <=> Waits(c) # {}
  BY DEF Polling, Waits, WaitsIn

LEMMA CallData ==
  ASSUME IInv, NEW c \in Ops
  PROVE  /\ conn \in [Ops -> K] /\ conn[c] \in K
         /\ polls[c] \in Nat /\ reports[c] \in Seq(Reports)
         /\ result[c] \in Progresses /\ effect[c] \in {"none", "on", "off"}
         /\ Good(c, conn[c], Waits(c), Frame(c), polls[c], reports[c], effect[c])
  BY DEF IInv, TypeOK, CallInv, K, Reports

\* The other calls are left alone.
Touches(c) ==
    \A d \in Ops : d # c =>
      /\ conn'[d] = conn[d] /\ polls'[d] = polls[d] /\ reports'[d] = reports[d]
      /\ effect'[d] = effect[d]
      /\ WaitsIn(timers', d) = WaitsIn(timers, d)
      /\ FrameIn(call', d) = FrameIn(call, d)

LEMMA OneCall ==
  ASSUME IInv, TypeOK', NEW c \in Ops, Touches(c),
         Good(c, conn'[c], WaitsIn(timers', c), FrameIn(call', c), polls'[c],
              reports'[c], effect'[c])
  PROVE  IInv'
  <1>1. ASSUME NEW d \in Ops PROVE CallInv(d)'
    <2>1. CASE d = c
      BY <2>1 DEF CallInv, Waits, Frame
    <2>2. CASE d # c
      <3>1. Good(d, conn[d], WaitsIn(timers, d), FrameIn(call, d), polls[d],
                 reports[d], effect[d])
        BY DEF IInv, CallInv, Waits, Frame
      <3>2. Good(d, conn'[d], WaitsIn(timers', d), FrameIn(call', d), polls'[d],
                 reports'[d], effect'[d])
        BY <2>2, <3>1 DEF Touches
      <3> QED
        BY <3>2 DEF CallInv, Waits, Frame
    <2> QED
      BY <2>1, <2>2
  <1> QED
    BY <1>1 DEF IInv

\* In a step of the event loop no callback was running.
LEMMA IdleFrame ==
  ASSUME Idle, NEW d \in Ops
  PROVE  FrameIn(call, d) = {} /\ Frame(d) = {}
  BY NoFrame DEF Idle, Frame

LEMMA Typed ==
  ASSUME TypeOK
  PROVE  /\ conn \in [Ops -> K]
         /\ call \in CallRecords
         /\ timers \in SUBSET (Ops \X Polls)
         /\ result \in [Ops -> Progresses]
         /\ reports \in [Ops -> Seq(Reports)]
         /\ polls \in [Ops -> Nat]
         /\ effect \in [Ops -> {"none", "on", "off"}]
  BY DEF TypeOK, K, Reports, CallRecords

LEMMA InitIInv == Init => IInv
  <1> SUFFICES ASSUME Init PROVE IInv
    OBVIOUS
  <1>1. Create \in K
    BY CreateFacts
  <1>2. NoCall \in CallRecords
    BY DEF CallRecords
  <1>3. NoProgress \in Progresses
    BY DEF NoProgress, Progresses
  <1>4. NotSoon \in [set: BOOLEAN, timers: SUBSET (Ops \X Polls), closed: SUBSET Ops]
    BY DEF NotSoon
  <1>5. TypeOK
    <2>1. <<>> \in Seq(Reports)
      OBVIOUS
    <2>2. conn \in [Ops -> K] /\ result \in [Ops -> Progresses]
      BY <1>1, <1>3 DEF Init
    <2>3. reports \in [Ops -> Seq(Reports)] /\ polls \in [Ops -> Nat]
      BY <2>1 DEF Init
    <2>4. effect \in [Ops -> {"none", "on", "off"}]
      BY DEF Init
    <2>5. timers \in SUBSET (Ops \X Polls) /\ {net, serial, broken} \subseteq BOOLEAN
      BY DEF Init
    <2>6. /\ call \in CallRecords
          /\ soon \in [set: BOOLEAN, timers: SUBSET (Ops \X Polls), closed: SUBSET Ops]
      BY <1>2, <1>4 DEF Init
    <2> QED
      BY <2>2, <2>3, <2>4, <2>5, <2>6 DEF TypeOK, K, Reports, CallRecords
  <1>6. ASSUME NEW c \in Ops PROVE CallInv(c)
    <2> DEFINE k == Create
    <2>1. /\ k \in K
          /\ k.bev = "null" /\ k.cbs.mode = "none" /\ k.cbs.cmd = NoCmd
          /\ Quiet(k) /\ ~k.fin
      BY CreateFacts
    <2> HIDE DEF k
    <2>2. ModeInv(k, {}, {})
      BY <2>1 DEF ModeInv
    <2>3. PipeInv(k, {}, {})
      BY <2>1, EmptyReply DEF PipeInv, Quiet
    <2>4. CountInv(k, {}, 0)
      BY <2>1, TimeoutAssumption DEF CountInv, Active
    <2>5. ReportInv(k, {}, 0, <<>>)
      BY <2>1 DEF ReportInv
    <2>6. EffectInv(c, k, {}, "none")
      BY <2>1 DEF EffectInv, Active
    <2>7. Good(c, k, {}, {}, 0, <<>>, "none")
      BY <2>2, <2>3, <2>4, <2>5, <2>6 DEF Good
    <2>8. /\ conn[c] = k /\ polls[c] = 0 /\ reports[c] = <<>> /\ effect[c] = "none"
          /\ Waits(c) = {} /\ Frame(c) = {}
      BY NoFrame DEF Init, k, Waits, WaitsIn, Frame
    <2> QED
      BY <2>7, <2>8 DEF CallInv
  <1> QED
    BY <1>5, <1>6 DEF IInv

\* The callback of c, if any, that is running after a step.
Runs(c, f) ==
    \/ call' = call /\ f = Frame(c)
    \/ /\ Idle
       /\ \E cmd \in Commands \cup {NoCmd} : call' = Running(c, cmd) /\ f = {cmd}
    \/ call.op = c /\ call' = NoCall /\ f = {}

LEMMA RunsFacts ==
  ASSUME TypeOK, NEW c \in Ops, NEW f, Runs(c, f)
  PROVE  /\ call' \in CallRecords
         /\ FrameIn(call', c) = f
         /\ \A d \in Ops : d # c => FrameIn(call', d) = FrameIn(call, d)
  <1>1. call \in CallRecords
    BY Typed
  <1>2. CASE call' = call /\ f = Frame(c)
    BY <1>1, <1>2 DEF Frame
  <1>3. CASE /\ Idle
             /\ \E cmd \in Commands \cup {NoCmd} : call' = Running(c, cmd) /\ f = {cmd}
    <2>1. PICK cmd \in Commands \cup {NoCmd} : call' = Running(c, cmd) /\ f = {cmd}
      BY <1>3
    <2>2. \A d \in Ops : FrameIn(call, d) = {}
      BY <1>3, NoFrame DEF Idle
    <2>3. call' \in CallRecords
      BY <2>1 DEF Running, CallRecords
    <2>4. \A d \in Ops : FrameIn(call', d) = IF d = c THEN {cmd} ELSE {}
      BY <2>1, OneFrame
    <2> QED
      BY <2>1, <2>2, <2>3, <2>4
  <1>4. CASE call.op = c /\ call' = NoCall /\ f = {}
    <2>1. \A d \in Ops : FrameIn(call', d) = {}
      BY <1>4, NoFrame
    <2>2. \A d \in Ops : d # c => FrameIn(call, d) = {}
      BY <1>4 DEF FrameIn
    <2>3. call' \in CallRecords
      BY <1>4 DEF CallRecords
    <2> QED
      BY <1>4, <2>1, <2>2, <2>3
  <1> QED
    BY <1>2, <1>3, <1>4 DEF Runs

Updated(new, old, c, val) ==
    new = [old EXCEPT ![c] = val] \/ (new = old /\ val = old[c])

RestOK ==
    /\ {net, serial, broken} \subseteq BOOLEAN
    /\ soon \in [set: BOOLEAN, timers: SUBSET (Ops \X Polls), closed: SUBSET Ops]

LEMMA OneStep ==
  ASSUME IInv, NEW c \in Ops, NEW x \in K, NEW v, NEW f, NEW l \in Nat,
         NEW s \in Seq(Reports), NEW e \in {"none", "on", "off"},
         Updated(conn', conn, c, x),
         timers' \in SUBSET (Ops \X Polls),
         WaitsIn(timers', c) = v,
         \A d \in Ops : d # c => WaitsIn(timers', d) = WaitsIn(timers, d),
         Runs(c, f),
         Updated(polls', polls, c, l),
         Updated(reports', reports, c, s),
         Updated(effect', effect, c, e),
         result' \in [Ops -> Progresses], RestOK',
         Good(c, x, v, f, l, s, e)
  PROVE  IInv'
  <1>1. /\ conn \in [Ops -> K] /\ polls \in [Ops -> Nat]
        /\ reports \in [Ops -> Seq(Reports)] /\ effect \in [Ops -> {"none", "on", "off"}]
    BY Typed DEF IInv
  <1>2. /\ conn' \in [Ops -> K] /\ conn'[c] = x
        /\ \A d \in Ops : d # c => conn'[d] = conn[d]
    BY <1>1 DEF Updated
  <1>3. /\ polls' \in [Ops -> Nat] /\ polls'[c] = l
        /\ \A d \in Ops : d # c => polls'[d] = polls[d]
    BY <1>1 DEF Updated
  <1>4. /\ reports' \in [Ops -> Seq(Reports)] /\ reports'[c] = s
        /\ \A d \in Ops : d # c => reports'[d] = reports[d]
    BY <1>1 DEF Updated
  <1>5. /\ effect' \in [Ops -> {"none", "on", "off"}] /\ effect'[c] = e
        /\ \A d \in Ops : d # c => effect'[d] = effect[d]
    BY <1>1 DEF Updated
  <1>6. /\ call' \in CallRecords
        /\ FrameIn(call', c) = f
        /\ \A d \in Ops : d # c => FrameIn(call', d) = FrameIn(call, d)
    BY RunsFacts DEF IInv
  <1>7. TypeOK'
    BY <1>2, <1>3, <1>4, <1>5, <1>6 DEF TypeOK, K, Reports, CallRecords, RestOK
  <1>8. Touches(c)
    BY <1>2, <1>3, <1>4, <1>5, <1>6 DEF Touches
  <1>9. Good(c, conn'[c], WaitsIn(timers', c), FrameIn(call', c), polls'[c],
             reports'[c], effect'[c])
    BY <1>2, <1>3, <1>4, <1>5, <1>6
  <1> QED
    BY <1>7, <1>8, <1>9, OneCall

\* A step that changes only the connection of its call.
LEMMA ConnStep ==
  ASSUME IInv, NEW c \in Ops, NEW x \in K, NEW f,
         conn' = [conn EXCEPT ![c] = x], Runs(c, f),
         UNCHANGED <<timers, result, reports, polls, effect>>, RestOK',
         Good(c, x, Waits(c), f, polls[c], reports[c], effect[c])
  PROVE  IInv'
  <1>1. /\ polls[c] \in Nat /\ reports[c] \in Seq(Reports)
        /\ effect[c] \in {"none", "on", "off"}
    BY CallData
  <1>2. /\ timers' \in SUBSET (Ops \X Polls) /\ result' \in [Ops -> Progresses]
        /\ timers' = timers /\ polls' = polls /\ reports' = reports /\ effect' = effect
    BY Typed DEF IInv
  <1>3. /\ Updated(conn', conn, c, x) /\ Updated(polls', polls, c, polls[c])
        /\ Updated(reports', reports, c, reports[c])
        /\ Updated(effect', effect, c, effect[c])
    BY <1>2 DEF Updated
  <1>4. /\ WaitsIn(timers', c) = Waits(c)
        /\ \A d \in Ops : WaitsIn(timers', d) = WaitsIn(timers, d)
    BY <1>2 DEF Waits
  <1> QED
    BY <1>1, <1>2, <1>3, <1>4, OneStep

LEMMA RestKept ==
  ASSUME IInv, UNCHANGED <<net, serial, broken, soon>>
  PROVE  RestOK'
  BY DEF IInv, TypeOK, RestOK

LEMMA StepCall ==
  ASSUME IInv, NEW c \in Ops, Call(c)
  PROVE  IInv'
  <1> DEFINE x == Connect(conn[c], Authenticate)
  <1>1. x \in K /\ Good(c, x, Waits(c), Frame(c), polls[c], reports[c], effect[c])
    BY CallData, GoodCall DEF Call, Started
  <1>2. conn' = [conn EXCEPT ![c] = x]
    BY DEF Call
  <1>3. RestOK'
    BY DEF Call, tor, IInv, TypeOK, RestOK
  <1>4. Runs(c, Frame(c)) /\ UNCHANGED <<timers, result, reports, polls, effect>>
    BY DEF Call, tor, Runs
  <1> HIDE DEF x
  <1> QED
    BY <1>1, <1>2, <1>3, <1>4, ConnStep

LEMMA StepEstablished ==
  ASSUME IInv, NEW c \in Ops, Established(c)
  PROVE  IInv'
  <1> DEFINE x == Send(Connected(conn[c]), conn[c].cbs.cmd)
  <1>1. x \in K /\ Good(c, x, Waits(c), {NoCmd}, polls[c], reports[c], effect[c])
    BY CallData, GoodEstablished DEF Established
  <1>2. conn' = [conn EXCEPT ![c] = x]
    BY DEF Established
  <1>3. RestOK'
    BY RestKept DEF Established, tor, user
  <1>4. /\ Runs(c, {NoCmd})
        /\ UNCHANGED <<timers, result, reports, polls, effect>>
    BY DEF Established, tor, Runs
  <1> HIDE DEF x
  <1> QED
    BY <1>1, <1>2, <1>3, <1>4, ConnStep

LEMMA StepFlush ==
  ASSUME IInv, NEW c \in Ops, Flush(c)
  PROVE  IInv'
  <1> DEFINE x == LET k == Drained(conn[c]) IN
                  IF k.cbs.mode = "send" THEN Recv(k, k.cbs.cmd) ELSE k
  <1>1. /\ Good(c, conn[c], Waits(c), {}, polls[c], reports[c], effect[c])
        /\ conn[c] \in K /\ polls[c] \in Nat
    BY CallData, IdleFrame DEF Flush
  <1>2. conn[c].bev = "open" /\ conn[c].out # <<>>
    BY DEF Flush, CanWrite
  <1>3. x \in K /\ Good(c, x, Waits(c), {NoCmd}, polls[c], reports[c], effect[c])
    BY <1>1, <1>2, GoodFlush
  <1>4. conn' = [conn EXCEPT ![c] = x]
    BY DEF Flush
  <1>5. RestOK'
    BY RestKept DEF Flush, tor, user
  <1>6. /\ Runs(c, {NoCmd})
        /\ UNCHANGED <<timers, result, reports, polls, effect>>
    BY DEF Flush, tor, Runs
  <1> HIDE DEF x
  <1> QED
    BY <1>3, <1>4, <1>5, <1>6, ConnStep

\* What Finish appends to the reports of a call.
Report(c, status) == [status |-> status, polling |-> Polling(c)]

LEMMA ReportFields ==
  ASSUME NEW c, NEW status \in Statuses, NEW a, a = Report(c, status)
  PROVE  /\ a \in Reports /\ a.status = status
         /\ Waits(c) # {} => a.polling = TRUE
         /\ Waits(c) = {} => a.polling = FALSE
  <1>1. Polling(c) \in BOOLEAN
    BY DEF Polling
  <1>2. a \in Reports /\ a.status = status /\ a.polling = Polling(c)
    BY <1>1 DEF Reports, Report
  <1>3. CASE Waits(c) # {}
    <2>1. Polling(c) = TRUE
      BY <1>1, <1>3, PollingWaits
    <2> QED
      BY <1>2, <1>3, <2>1
  <1>4. CASE Waits(c) = {}
    <2>1. Polling(c) = FALSE
      BY <1>1, <1>4, PollingWaits
    <2> QED
      BY <1>2, <1>4, <2>1
  <1> QED
    BY <1>3, <1>4

\* A step in which a call reports.
LEMMA FinishStep ==
  ASSUME IInv, NEW c \in Ops, NEW k, NEW status, NEW f,
         Finish(c, k, status), Runs(c, f), UNCHANGED <<polls, effect>>, RestOK',
         NEW a, a = Report(c, status),
         Close(k) \in K, Append(reports[c], a) \in Seq(Reports),
         Good(c, Close(k), Waits(c), f, polls[c], Append(reports[c], a), effect[c])
  PROVE  IInv'
  <1> DEFINE x == Close(k)
             s == Append(reports[c], a)
  <1>1. polls[c] \in Nat /\ effect[c] \in {"none", "on", "off"}
    BY CallData
  <1>2. /\ timers' \in SUBSET (Ops \X Polls) /\ result' \in [Ops -> Progresses]
        /\ timers' = timers /\ polls' = polls /\ effect' = effect
    BY Typed DEF IInv, Finish
  <1>3. conn' = [conn EXCEPT ![c] = x] /\ reports' = [reports EXCEPT ![c] = s]
    BY DEF Finish, Report
  <1>4. x \in K /\ s \in Seq(Reports) /\ Good(c, x, Waits(c), f, polls[c], s, effect[c])
    OBVIOUS
  <1> HIDE DEF x, s
  <1>5. /\ Updated(conn', conn, c, x) /\ Updated(polls', polls, c, polls[c])
        /\ Updated(reports', reports, c, s)
        /\ Updated(effect', effect, c, effect[c])
    BY <1>2, <1>3 DEF Updated
  <1>6. /\ WaitsIn(timers', c) = Waits(c)
        /\ \A d \in Ops : WaitsIn(timers', d) = WaitsIn(timers, d)
    BY <1>2 DEF Waits
  <1> QED
    BY <1>1, <1>2, <1>4, <1>5, <1>6, OneStep

LEMMA StepConnectFailed ==
  ASSUME IInv, NEW c \in Ops, ConnectFailed(c)
  PROVE  IInv' /\ reports[c] = <<>>
  <1> DEFINE j == conn[c]
             r == reports[c]
             n == polls[c]
             f == Frame(c)
             k == Close(Refused(j))
             x == Close(k)
             a == Report(c, "CONNECT_FAILED")
             s == Append(r, a)
  <1>1. /\ Good(c, j, Waits(c), f, n, r, effect[c])
        /\ j \in K /\ n \in Nat /\ r \in Seq(Reports)
    BY CallData
  <1>2. "CONNECT_FAILED" \in Statuses
    BY DEF Statuses
  <1>3. /\ a \in Reports /\ a.status = "CONNECT_FAILED"
        /\ Waits(c) = {} => a.polling = FALSE
    BY <1>2, ReportFields
  <1>4. j.bev = "connecting"
    BY DEF ConnectFailed
  <1>5. Finish(c, k, "CONNECT_FAILED") /\ Runs(c, {NoCmd}) /\ UNCHANGED <<polls, effect>>
    BY DEF ConnectFailed, Runs, tor
  <1>6. RestOK'
    BY RestKept DEF ConnectFailed, tor, user
  <1>7. x = Close(Close(Refused(j))) /\ s = Append(r, a)
    OBVIOUS
  <1>8. x = Close(k) /\ a = Report(c, "CONNECT_FAILED")
    OBVIOUS
  <1> HIDE DEF a, f, j, k, n, r, x, s
  <1>9. Good(c, x, Waits(c), {NoCmd}, n, s, effect[c])
    BY ONLY <1>1, <1>3, <1>4, <1>7, GoodRefused
  <1>12. s \in Seq(Reports)
    BY ONLY <1>1, <1>3, <1>7
  <1>13. Refused(j) \in K
    BY <1>1, RefusedFacts
  <1>14. Close(Refused(j)) \in K
    BY <1>13, CloseFacts
  <1>15. x \in K
    BY <1>7, <1>14, CloseFacts
  <1>10. IInv'
    BY <1>5, <1>6, <1>7, <1>8, <1>9, <1>12, <1>15, FinishStep DEF n, r
  <1>11. reports[c] = <<>>
    BY <1>1, <1>4 DEF Good, ReportInv, r
  <1> QED
    BY <1>10, <1>11

\* The callback for an event that ends the connection.
LEMMA StepEvent ==
  ASSUME IInv, NEW c \in Ops, Idle, conn[c].fin, conn[c].bev \in {"open", "failed"},
         NEW k, (k = WriteFailed(conn[c]) /\ conn[c].out # <<>>) \/ k = Lost(conn[c]),
         NEW status \in LostStatuses, OnEvent(c, k, status),
         call' = Running(c, NoCmd), UNCHANGED <<polls, effect>>, RestOK'
  PROVE  /\ IInv'
         /\ \/ reports' = reports
            \/ /\ reports' = [reports EXCEPT ![c] = Append(@, Report(c, status))]
               /\ MayTell(c, reports[c])
  <1> DEFINE j == conn[c]
             r == reports[c]
             n == polls[c]
             a == Report(c, status)
             s == Append(r, a)
             x == Close(k)
  <1>1. /\ Good(c, j, Waits(c), {}, n, r, effect[c])
        /\ j \in K /\ n \in Nat /\ r \in Seq(Reports)
    BY CallData, IdleFrame
  <1>2. /\ j.fin /\ j.bev \in {"open", "failed"}
        /\ (k = WriteFailed(j) /\ j.out # <<>>) \/ k = Lost(j)
    OBVIOUS
  <1> HIDE DEF j, r, n
  <1>3. /\ k \in K /\ Good(c, k, Waits(c), {}, n, r, effect[c])
        /\ Gone(k)
    BY <1>1, <1>2, GoodGone
  <1>4. \E cmd \in Commands \cup {NoCmd} : call' = Running(c, cmd) /\ {NoCmd} = {cmd}
    OBVIOUS
  <1>5. Runs(c, {NoCmd})
    BY <1>4 DEF Runs
  <1>6. CASE k.cbs = NoCallbacks
    <2>1. conn' = [conn EXCEPT ![c] = k] /\ UNCHANGED <<timers, result, reports>>
      BY <1>6 DEF OnEvent
    <2>2. Good(c, k, Waits(c), {NoCmd}, n, r, effect[c])
      BY <1>1, <1>3, GoodUntold DEF Gone
    <2>3. IInv'
      BY <1>3, <1>5, <2>1, <2>2, ConnStep DEF n, r
    <2> QED
      BY <2>1, <2>3
  <1>7. CASE k.cbs # NoCallbacks
    <2>1. status \in Statuses
      BY DEF LostStatuses, Statuses
    <2>2. /\ a \in Reports /\ a.status = status
          /\ Waits(c) # {} => a.polling = TRUE
          /\ Waits(c) = {} => a.polling = FALSE
      BY <2>1, ReportFields
    <2>3. Finish(c, k, status)
      BY <1>7 DEF OnEvent
    <2>4. reports' = [reports EXCEPT ![c] = Append(@, Report(c, status))]
      BY <2>3 DEF Finish, Report
    <2>5. x = Close(k) /\ s = Append(r, a) /\ a = Report(c, status)
      OBVIOUS
    <2> HIDE DEF a, x, s
    <2>6. a.status \in LostStatuses
      BY <2>2
    <2>7. /\ x \in K /\ s \in Seq(Reports)
          /\ Good(c, x, Waits(c), {NoCmd}, n, s, effect[c])
          /\ MayTell(c, r)
      BY ONLY <1>1, <1>3, <1>7, <2>2, <2>5, <2>6, GoodTold
    <2>8. IInv'
      BY <1>5, <2>3, <2>5, <2>7, FinishStep DEF n, r
    <2> QED
      BY <2>4, <2>7, <2>8 DEF r
  <1> QED
    BY <1>6, <1>7

LEMMA StepWriteError ==
  ASSUME IInv, NEW c \in Ops, WriteError(c)
  PROVE  /\ IInv'
         /\ \/ reports' = reports
            \/ /\ reports' = [reports EXCEPT ![c] = Append(@, Report(c, "IO_ERROR"))]
               /\ MayTell(c, reports[c])
  <1>1. /\ Idle /\ conn[c].fin /\ conn[c].bev \in {"open", "failed"}
        /\ conn[c].out # <<>>
        /\ OnEvent(c, WriteFailed(conn[c]), "IO_ERROR")
        /\ call' = Running(c, NoCmd)
    BY DEF WriteError, CanWrite
  <1>2. UNCHANGED <<polls, effect>> /\ RestOK'
    BY RestKept DEF WriteError, tor, user
  <1>3. "IO_ERROR" \in LostStatuses
    BY DEF LostStatuses
  <1> DEFINE k == WriteFailed(conn[c])
             status == "IO_ERROR"
  <1>4. (k = WriteFailed(conn[c]) /\ conn[c].out # <<>>) \/ k = Lost(conn[c])
    BY <1>1
  <1>5. OnEvent(c, k, status) /\ status \in LostStatuses
    BY <1>1, <1>3
  <1>6. status = "IO_ERROR"
    OBVIOUS
  <1> HIDE DEF k, status
  <1> QED
    BY <1>1, <1>2, <1>4, <1>5, <1>6, StepEvent

LEMMA StepConnLost ==
  ASSUME IInv, NEW c \in Ops, NEW status \in LostStatuses, ConnLost(c, status)
  PROVE  /\ IInv'
         /\ \/ reports' = reports
            \/ /\ reports' = [reports EXCEPT ![c] = Append(@, Report(c, status))]
               /\ MayTell(c, reports[c])
  <1>1. /\ Idle /\ conn[c].fin /\ conn[c].bev \in {"open", "failed"}
        /\ OnEvent(c, Lost(conn[c]), status)
        /\ call' = Running(c, NoCmd)
    BY DEF ConnLost, CanRead
  <1>2. UNCHANGED <<polls, effect>> /\ RestOK'
    BY RestKept DEF ConnLost, tor, user
  <1> DEFINE k == Lost(conn[c])
  <1>3. (k = WriteFailed(conn[c]) /\ conn[c].out # <<>>) \/ k = Lost(conn[c])
    OBVIOUS
  <1>4. OnEvent(c, k, status)
    BY <1>1
  <1> HIDE DEF k
  <1> QED
    BY <1>1, <1>2, <1>3, <1>4, StepEvent

LEMMA StepRead ==
  ASSUME IInv, NEW c \in Ops, Read(c)
  PROVE  IInv'
  <1>1. /\ Good(c, conn[c], Waits(c), {}, polls[c], reports[c], effect[c])
        /\ conn[c] \in K /\ polls[c] \in Nat
    BY CallData, IdleFrame DEF Read
  <1>2. PICK m \in 1 .. Len(conn[c].wire) : conn' = [conn EXCEPT ![c] = Received(@, m)]
    BY DEF Read
  <1> DEFINE x == Received(conn[c], m)
             cmd == conn[c].cbs.cmd
  <1>3. conn[c].cbs.mode = "recv"
    BY <1>1, GoodRead
  <1>4. x \in K
    BY <1>1, ReceivedFacts
  <1>5. Good(c, x, Waits(c), {cmd}, polls[c], reports[c], effect[c])
    BY <1>1, GoodRead
  <1>6. Idle /\ call' = Running(c, cmd)
    BY <1>3 DEF Read
  <1>7. cmd \in Commands \cup {NoCmd}
    BY <1>1, KFields
  <1>8. conn' = [conn EXCEPT ![c] = x]
    BY <1>2
  <1>9. RestOK' /\ UNCHANGED <<timers, result, reports, polls, effect>>
    BY RestKept DEF Read, tor, user
  <1> HIDE DEF x, cmd
  <1>10. Runs(c, {cmd})
    BY <1>6, <1>7 DEF Runs
  <1> QED
    BY <1>4, <1>5, <1>8, <1>9, <1>10, ConnStep

\* The call whose callback is running.
LEMMA RunningCall ==
  ASSUME IInv, call # NoCall
  PROVE  call.op \in Ops /\ Frame(call.op) = {call.cmd}
  BY Typed DEF IInv, CallRecords, Frame, FrameIn

LEMMA StepReturn ==
  ASSUME IInv, Return
  PROVE  IInv'
  <1> DEFINE c == call.op
             k == conn[c]
             x == IF Closed(c) THEN Ignored(k) ELSE k
  <1>1. c \in Ops /\ Frame(c) = {call.cmd}
    BY RunningCall DEF Return
  <1>2. /\ Good(c, k, Waits(c), {call.cmd}, polls[c], reports[c], effect[c])
        /\ k \in K /\ polls[c] \in Nat /\ conn \in [Ops -> K]
    BY <1>1, CallData
  <1>3. call.cmd = NoCmd \/ k.input = <<>>
    BY DEF Return
  <1>4. \/ x = k
        \/ x = Ignored(k) /\ k.cbs = NoCallbacks /\ Waits(c) = {}
    BY PollingWaits DEF Closed
  <1>5. conn' = [conn EXCEPT ![c] = x]
    BY <1>1, <1>2 DEF Return
  <1>6. x \in K
    BY <1>2, <1>4, IgnoredFacts
  <1>7. RestOK' /\ UNCHANGED <<timers, result, reports, polls, effect>>
    BY RestKept DEF Return, tor, user
  <1>8. Runs(c, {})
    BY DEF Return, Runs
  <1> HIDE DEF x, k, c
  <1>9. Good(c, x, Waits(c), {}, polls[c], reports[c], effect[c])
    BY <1>2, <1>3, <1>4, GoodReturn
  <1> QED
    BY <1>1, <1>5, <1>6, <1>7, <1>8, <1>9, ConnStep

LEMMA StepDeleteVarp ==
  ASSUME IInv, NEW c \in Ops, DeleteVarp(c)
  PROVE  IInv'
  <1> DEFINE x == Deleted(conn[c])
  <1>1. /\ x \in K
        /\ Good(c, x, Waits(c), Frame(c), polls[c], reports[c], effect[c])
    BY CallData, GoodDelete DEF DeleteVarp
  <1>2. conn' = [conn EXCEPT ![c] = x]
    BY DEF DeleteVarp
  <1>3. RestOK' /\ UNCHANGED <<timers, result, reports, polls, effect>>
    BY RestKept DEF DeleteVarp, tor, user
  <1>4. Runs(c, Frame(c))
    BY DEF DeleteVarp, Runs
  <1> HIDE DEF x
  <1> QED
    BY <1>1, <1>2, <1>3, <1>4, ConnStep

LEMMA StepPoll ==
  ASSUME IInv, NEW c \in Ops, NEW m \in Polls, Poll(c, m)
  PROVE  IInv'
  <1> DEFINE k == conn[c]
             x == Send(k, GetInfo(m))
             v == Waits(c) \ {m}
             l == polls[c] + 1
             r == reports[c]
             e == effect[c]
  <1>1. /\ Good(c, k, Waits(c), Frame(c), polls[c], r, e)
        /\ k \in K /\ polls[c] \in Nat /\ r \in Seq(Reports)
        /\ e \in {"none", "on", "off"}
    BY CallData
  <1>2. m \in Waits(c)
    BY DEF Poll, Waits, WaitsIn
  <1>3. conn' = [conn EXCEPT ![c] = x] /\ polls' = [polls EXCEPT ![c] = l]
    BY DEF Poll
  <1>4. UNCHANGED <<reports, effect>> /\ Runs(c, Frame(c)) /\ RestOK'
    BY RestKept DEF Poll, tor, user, Runs
  <1>5. timers' = timers \ {<<c, m>>}
    BY DEF Poll
  <1>6. timers' \in SUBSET (Ops \X Polls)
    BY <1>5, Typed DEF IInv
  <1>7. /\ WaitsIn(timers', c) = v
        /\ \A d \in Ops : d # c => WaitsIn(timers', d) = WaitsIn(timers, d)
    <2>1. ASSUME NEW d \in Ops
          PROVE  WaitsIn(timers \ {<<c, m>>}, d) =
                   IF d = c THEN WaitsIn(timers, d) \ {m} ELSE WaitsIn(timers, d)
      BY DEF WaitsIn
    <2> QED
      BY <1>5, <2>1 DEF Waits
  <1>8. result' \in [Ops -> Progresses]
    <2>1. NoProgress \in Progresses
      BY DEF NoProgress, Progresses
    <2>2. result' = [result EXCEPT ![c] = NoProgress]
      BY DEF Poll
    <2> QED
      BY <2>1, <2>2, Typed DEF IInv
  <1>9. x \in K
    BY <1>1, GetInfoFacts, SendFacts
  <1>10. Good(c, x, v, Frame(c), l, r, e)
    BY <1>1, <1>2, GoodPoll
  <1>11. l \in Nat
    BY <1>1
  <1>12. r = reports[c] /\ e = effect[c]
    OBVIOUS
  <1> HIDE DEF k, x, v, l, r, e
  <1>13. /\ Updated(conn', conn, c, x) /\ Updated(polls', polls, c, l)
         /\ Updated(reports', reports, c, r) /\ Updated(effect', effect, c, e)
    BY <1>3, <1>4, <1>12 DEF Updated
  <1> QED
    BY <1>1, <1>4, <1>6, <1>7, <1>8, <1>9, <1>10, <1>11, <1>13, OneStep

\* The last line of a reply to the command of the running callback of c has been
\* taken, and left k.
Answered(c, k) ==
    /\ k \in K /\ k.bev \in {"open", "failed"} /\ Quiet(k)
    /\ k.cbs.mode = "recv" /\ k.cbs.cmd \in Commands
    /\ Waits(c) = {} /\ reports[c] = <<>> /\ polls[c] <= Timeout

\* What a step of the loop of recv() leaves alone.
InLoop == UNCHANGED <<call, polls, effect>> /\ RestOK'

\* The call ends.
LEMMA EndStep ==
  ASSUME IInv, NEW c \in Ops, NEW k, Answered(c, k), InLoop,
         NEW status \in Statuses, status = "GENERIC_ERROR" => polls[c] = Timeout,
         Finish(c, k, status)
  PROVE  IInv'
  <1> DEFINE w == Waits(c)
             f == Frame(c)
             n == polls[c]
             r == reports[c]
             e == effect[c]
             a == Report(c, status)
             x == Close(k)
             s == Append(r, a)
  <1>1. /\ k \in K /\ k.bev \in {"open", "failed"} /\ Quiet(k)
        /\ w = {} /\ r = <<>> /\ n <= Timeout
    BY DEF Answered
  <1>2. n \in Nat /\ r \in Seq(Reports)
    BY CallData
  <1>3. a \in Reports /\ a.status = status /\ a.polling = FALSE
    BY <1>1, ReportFields
  <1>4. UNCHANGED <<polls, effect>> /\ RestOK' /\ Runs(c, f)
    BY DEF InLoop, Runs
  <1>5. x = Close(k) /\ s = Append(r, a) /\ a = Report(c, status)
    OBVIOUS
  <1>6. status = "GENERIC_ERROR" => n = Timeout
    OBVIOUS
  <1>7. x \in K
    BY <1>1, CloseFacts
  <1> HIDE DEF w, f, n, r, e, a, x, s
  <1>8. k.wire = <<>> /\ k.input = <<>> /\ k.sent = <<>> /\ k.out = <<>>
    BY <1>1 DEF Quiet
  <1>9. s \in Seq(Reports)
    BY <1>2, <1>3, <1>5
  <1>10. Good(c, x, w, f, n, s, e)
    BY ONLY <1>1, <1>2, <1>3, <1>5, <1>6, <1>8, GoodFinish
  <1> QED
    BY <1>4, <1>5, <1>7, <1>9, <1>10, FinishStep DEF w, n, r, e

\* The call sends its next command.
LEMMA SendStep ==
  ASSUME IInv, NEW c \in Ops, NEW k, Answered(c, k), InLoop,
         NEW cmd \in Commands, Due(c, cmd, polls[c], effect[c]),
         conn' = [conn EXCEPT ![c] = Send(k, cmd)],
         UNCHANGED <<timers, reports, result>>
  PROVE  IInv'
  <1> DEFINE f == Frame(c)
             n == polls[c]
             r == reports[c]
             e == effect[c]
             x == Send(k, cmd)
  <1>1. /\ k \in K /\ k.bev \in {"open", "failed"} /\ Quiet(k)
        /\ Waits(c) = {} /\ r = <<>> /\ n <= Timeout
    BY DEF Answered
  <1>2. n \in Nat
    BY CallData
  <1>3. UNCHANGED <<timers, result, reports, polls, effect>> /\ RestOK' /\ Runs(c, f)
    BY DEF InLoop, Runs
  <1>4. x = Send(k, cmd) /\ Due(c, cmd, n, e)
    OBVIOUS
  <1>5. x \in K
    BY <1>1, SendFacts
  <1>6. conn' = [conn EXCEPT ![c] = x]
    OBVIOUS
  <1> HIDE DEF f, n, r, e, x
  <1>7. Good(c, x, {}, f, n, r, e)
    BY ONLY <1>1, <1>2, <1>4, GoodSend, cmd \in Commands
  <1>8. Good(c, x, Waits(c), f, polls[c], reports[c], effect[c])
    BY <1>1, <1>7 DEF n, r, e
  <1> QED
    BY <1>3, <1>5, <1>6, <1>8, ConnStep

\* The call waits for its next poll, or gives up.
LEMMA WaitStep ==
  ASSUME IInv, NEW c \in Ops, NEW k, Answered(c, k), InLoop,
         c \in Enables, effect[c] = "on",
         NEW m, m = polls[c], WaitForCircuit(c, k, m)
  PROVE  IInv'
  <1> DEFINE r == reports[c]
             e == effect[c]
             f == Frame(c)
  <1>1. /\ k \in K /\ k.bev \in {"open", "failed"} /\ Quiet(k)
        /\ k.cbs.mode = "recv" /\ k.cbs.cmd \in Commands
        /\ Waits(c) = {} /\ r = <<>> /\ m <= Timeout
    BY DEF Answered
  <1>2. m \in Nat /\ r \in Seq(Reports) /\ e \in {"none", "on", "off"}
    BY CallData
  <1>3. CASE m >= Timeout
    <2>1. /\ conn' = [conn EXCEPT ![c] = Send(k, GiveUp)]
          /\ UNCHANGED <<timers, reports, result>>
      BY <1>3 DEF WaitForCircuit
    <2>2. GiveUp \in Commands /\ GiveUp \notin Unsent /\ ~IsPoll(GiveUp)
      BY CommandFacts
    <2>3. m = Timeout
      BY <1>1, <1>2, <1>3, TimeoutAssumption
    <2>4. Due(c, GiveUp, polls[c], effect[c])
      BY <2>2, <2>3 DEF Due, Unsent
    <2> QED
      BY <2>1, <2>2, <2>4, SendStep
  <1>4. CASE ~(m >= Timeout)
    <2>1. m < Timeout /\ m \in Polls
      BY <1>2, <1>4, TimeoutAssumption DEF Polls
    <2>2. /\ conn' = [conn EXCEPT ![c] = k]
          /\ timers' = timers \cup {<<c, m>>}
          /\ UNCHANGED <<reports, result>>
      BY <1>4 DEF WaitForCircuit
    <2>3. UNCHANGED <<polls, effect>> /\ RestOK' /\ Runs(c, f)
      BY DEF InLoop, Runs
    <2>4. timers' \in SUBSET (Ops \X Polls) /\ result' \in [Ops -> Progresses]
      BY <2>1, <2>2, Typed DEF IInv
    <2>5. ASSUME NEW d \in Ops
          PROVE  WaitsIn(timers', d) = IF d = c THEN Waits(c) \cup {m}
                                                ELSE WaitsIn(timers, d)
      BY <2>1, <2>2 DEF Waits, WaitsIn
    <2>6. WaitsIn(timers', c) = {m}
      BY <1>1, <2>5
    <2> HIDE DEF f
    <2>7. Good(c, k, {m}, f, m, <<>>, effect[c])
      BY <1>1, <1>2, <2>1, GoodWait
    <2>8. Good(c, k, {m}, f, m, r, e)
      BY <1>1, <2>7
    <2>9. m = polls[c] /\ r = reports[c] /\ e = effect[c]
      OBVIOUS
    <2> HIDE DEF r, e
    <2>10. /\ Updated(conn', conn, c, k) /\ Updated(polls', polls, c, m)
           /\ Updated(reports', reports, c, r) /\ Updated(effect', effect, c, e)
      BY <2>2, <2>3, <2>9 DEF Updated
    <2>11. \A d \in Ops : d # c => WaitsIn(timers', d) = WaitsIn(timers, d)
      BY <2>5
    <2> QED
      BY <1>1, <1>2, <2>3, <2>4, <2>6, <2>8, <2>10, <2>11, OneStep
  <1> QED
    BY <1>3, <1>4

\* What the last line of a reply makes of the status.
LEMMA LineStatus ==
  ASSUME NEW c, NEW line \in Lines, line.type = " ", NEW status,
         \/ status = PollStatus(c, StatusOf(line.code))
         \/ status = DoVoidCb(StatusOf(line.code), line.type)
  PROVE  /\ status \in Statuses /\ status # "GENERIC_ERROR"
         /\ status = "OK" => line.code = "250"
  <1>1. line.code \in {"250", "552", "515"}
    BY DEF Lines
  <1>2. StatusOf(line.code) = CASE line.code = "250" -> "OK"
                                [] line.code = "552" -> "UNRECOGNIZED_ENTITY"
                                [] line.code = "515" -> "UNKNOWN_STATUS_ERROR"
    BY <1>1 DEF StatusOf
  <1>3. StatusOf(line.code) \in {"OK", "UNRECOGNIZED_ENTITY", "UNKNOWN_STATUS_ERROR"}
        /\ (StatusOf(line.code) = "OK" => line.code = "250")
    BY <1>1, <1>2
  <1>4. \/ status = StatusOf(line.code)
        \/ status = "EXPECTED_MORE_TOKENS"
    BY DEF PollStatus, DoVoidCb
  <1> QED
    BY <1>3, <1>4 DEF Statuses

LEMMA StepContinue ==
  ASSUME IInv, NEW c \in Ops, NEW k, InLoop, NEW cmd, NEW line, line.type = " ",
         LineTaken(c, k, Waits(c), cmd, polls[c], reports[c], effect[c], line),
         NEW status \in Statuses, status # "GENERIC_ERROR",
         status = "OK" => line.code = "250",
         Continue(c, k, cmd, status)
  PROVE  IInv'
  <1> DEFINE n == polls[c]
             e == effect[c]
  <1>1. Answered(c, k)
    BY DEF LineTaken, Answered
  <1>2. /\ cmd \in Commands
        /\ cmd \in Unsent => n = 0
        /\ IsPoll(cmd) => n = cmd.n + 1 /\ c \in Enables /\ e = "on"
        /\ cmd = GiveUp => n = Timeout /\ c \in Enables
        /\ cmd = Authenticate => e = "none"
        /\ cmd = SetConfOn => c \in Enables
        /\ cmd = SetConfOff => c \in Disables
    BY DEF LineTaken
  <1>3. status = "OK" /\ cmd = SetConfOn => e = "on"
    BY DEF LineTaken
  <1>4. CASE status # "OK" /\ Finish(c, k, status)
    BY <1>1, <1>4, EndStep
  <1>5. CASE /\ status = "OK"
             /\ cmd = Authenticate
             /\ conn' = [conn EXCEPT ![c] =
                          Send(k, IF c \in Enables THEN SetConfOn ELSE SetConfOff)]
             /\ UNCHANGED <<timers, reports, result>>
    <2> DEFINE next == IF c \in Enables THEN SetConfOn ELSE SetConfOff
    <2>1. n = 0 /\ e = "none"
      BY <1>2, <1>5 DEF Unsent
    <2>2. next \in Commands /\ next \in {SetConfOn, SetConfOff}
      BY CommandFacts
    <2>3. next # GiveUp /\ next # Authenticate /\ ~IsPoll(next)
      BY <2>2, CommandFacts DEF Unsent
    <2>4. next = SetConfOn => c \in Enables
      BY CommandFacts
    <2>5. next = SetConfOff => c \in Disables
      BY CommandFacts DEF Ops
    <2>6. conn' = [conn EXCEPT ![c] = Send(k, next)]
      BY <1>5
    <2> HIDE DEF next
    <2>7. Due(c, next, polls[c], effect[c])
      BY <2>1, <2>3, <2>4, <2>5 DEF Due
    <2>8. /\ IInv /\ c \in Ops /\ InLoop /\ UNCHANGED <<timers, reports, result>>
      BY <1>5
    <2> QED
      BY ONLY <1>1, <2>2, <2>6, <2>7, <2>8, SendStep
  <1>6. CASE status = "OK" /\ cmd = SetConfOn /\ WaitForCircuit(c, k, 0)
    <2>1. n = 0
      BY <1>2, <1>6 DEF Unsent
    <2> QED
      BY <1>1, <1>2, <1>3, <1>6, <2>1, WaitStep
  <1>7. CASE status = "OK" /\ cmd = SetConfOff /\ Finish(c, k, "OK")
    <2>1. "OK" \in Statuses
      BY DEF Statuses
    <2> QED
      BY <1>1, <1>7, <2>1, EndStep
  <1>8. CASE status = "OK" /\ cmd = GiveUp /\ Finish(c, k, "GENERIC_ERROR")
    <2>1. "GENERIC_ERROR" \in Statuses
      BY DEF Statuses
    <2> QED
      BY <1>1, <1>2, <1>8, <2>1, EndStep
  <1>9. CASE /\ status = "OK"
             /\ cmd = GetInfo(cmd.n)
             /\ IF result[c] = 100
                  THEN Finish(c, k, "OK")
                  ELSE WaitForCircuit(c, k, cmd.n + 1)
    <2>1. n = cmd.n + 1 /\ c \in Enables /\ e = "on"
      BY <1>2, <1>9, PollCommand
    <2>2. CASE result[c] = 100
      <3>1. "OK" \in Statuses
        BY DEF Statuses
      <3> QED
        BY <1>1, <1>9, <2>2, <3>1, EndStep
    <2>3. CASE result[c] # 100
      BY <1>1, <1>9, <2>1, <2>3, WaitStep
    <2> QED
      BY <2>2, <2>3
  <1> QED
    BY <1>4, <1>5, <1>6, <1>7, <1>8, <1>9 DEF Continue

\* The loop of recv() takes a line of two, or acts upon the last line.
Keeps(c, x, line) ==
    /\ line.type = "-"
    /\ result' = [result EXCEPT ![c] = line.data]
    /\ conn' = [conn EXCEPT ![c] = x]
    /\ UNCHANGED <<timers, reports>>

Acts(c, x, cmd, line) ==
    /\ line.type = " "
    /\ \E status \in Statuses :
         /\ status # "GENERIC_ERROR"
         /\ status = "OK" => line.code = "250"
         /\ Continue(c, x, cmd, status)

LineStep(c, x, cmd, line) ==
    /\ c \in Ops /\ Frame(c) = {cmd} /\ InLoop /\ x \in K /\ line \in Lines
    /\ LineTaken(c, x, Waits(c), cmd, polls[c], reports[c], effect[c], line)
    /\ Keeps(c, x, line) \/ Acts(c, x, cmd, line)

\* One turn of the loop of recv(), with what is known of the line.
LEMMA LoopTurn ==
  ASSUME IInv, ReadLine, NEW c, c = call.op, NEW cmd, cmd = call.cmd,
         NEW line, line = Head(conn[c].input), NEW x, x = Taken(conn[c])
  PROVE  LineStep(c, x, cmd, line)
  <1> DEFINE status == StatusOf(line.code)
             polled == cmd = GetInfo(cmd.n)
             st == IF polled /\ line.type = " " THEN PollStatus(c, status)
                                                ELSE DoVoidCb(status, line.type)
  <1>1. cmd # NoCmd /\ conn[c].input # <<>>
    BY DEF ReadLine
  <1>2. call # NoCall
    BY <1>1 DEF NoCall
  <1>3. c \in Ops /\ Frame(c) = {cmd}
    BY <1>2, RunningCall
  <1>4. /\ Good(c, conn[c], Waits(c), {cmd}, polls[c], reports[c], effect[c])
        /\ conn[c] \in K /\ polls[c] \in Nat
    BY <1>3, CallData
  <1>5. LineTaken(c, x, Waits(c), cmd, polls[c], reports[c], effect[c], line)
    BY <1>1, <1>4, TakenLine
  <1>6. /\ line \in Lines /\ cmd \in Commands /\ x \in K
        /\ line.type = "-" => IsPoll(cmd) /\ line.code = "250"
    BY <1>5 DEF LineTaken
  <1>7. line.type \in {" ", "-"}
    BY <1>6 DEF Lines
  <1>8. line.type = "-" => polled /\ status = "OK"
    BY <1>6, PollCommand DEF StatusOf
  <1>9. InLoop
    BY RestKept DEF ReadLine, InLoop, tor, user
  <1>10. \/ /\ polled /\ status = "OK" /\ line.type = "-"
            /\ result' = [result EXCEPT ![c] = line.data]
            /\ conn' = [conn EXCEPT ![c] = x]
            /\ UNCHANGED <<timers, reports>>
         \/ /\ ~(polled /\ status = "OK" /\ line.type = "-")
            /\ Continue(c, x, cmd, st)
    BY DEF ReadLine, Taken
  <1>11. st = PollStatus(c, status) \/ st = DoVoidCb(status, line.type)
    OBVIOUS
  <1>12. status = StatusOf(line.code)
    OBVIOUS
  <1> HIDE DEF status, polled, st
  <1>13. ASSUME line.type = " "
         PROVE  /\ st \in Statuses /\ st # "GENERIC_ERROR"
                /\ st = "OK" => line.code = "250"
    BY <1>6, <1>11, <1>12, <1>13, LineStatus
  <1>14. line.type = "-" => Keeps(c, x, line)
    BY <1>8, <1>10 DEF Keeps
  <1>15. line.type = " " => Continue(c, x, cmd, st)
    BY <1>10
  <1>16. line.type = " " => Acts(c, x, cmd, line)
    BY <1>13, <1>15 DEF Acts
  <1> QED
    BY <1>3, <1>5, <1>6, <1>7, <1>9, <1>14, <1>16 DEF LineStep

LEMMA StepReadLine ==
  ASSUME IInv, ReadLine
  PROVE  IInv'
  <1>0. PICK c, cmd, line, x :
          /\ c = call.op /\ cmd = call.cmd
          /\ line = Head(conn[c].input) /\ x = Taken(conn[c])
    OBVIOUS
  <1>1. LineStep(c, x, cmd, line)
    BY <1>0, LoopTurn
  <1>2. /\ c \in Ops /\ Frame(c) = {cmd} /\ InLoop /\ x \in K /\ line \in Lines
        /\ LineTaken(c, x, Waits(c), cmd, polls[c], reports[c], effect[c], line)
    BY <1>1 DEF LineStep
  <1>3. CASE Keeps(c, x, line)
    <2>1. /\ polls[c] \in Nat /\ reports[c] \in Seq(Reports)
          /\ effect[c] \in {"none", "on", "off"}
      BY <1>2, CallData
    <2>2. Good(c, x, Waits(c), {cmd}, polls[c], reports[c], effect[c])
      BY <1>2, <1>3, <2>1, GoodKeep DEF Keeps
    <2>3. line.data \in Progresses
      BY <1>2 DEF Lines
    <2>4. result' \in [Ops -> Progresses] /\ timers' \in SUBSET (Ops \X Polls)
      BY <1>3, <2>3, Typed DEF IInv, Keeps
    <2>5. Runs(c, {cmd}) /\ RestOK'
      BY <1>2 DEF InLoop, Runs
    <2>6. /\ Updated(conn', conn, c, x) /\ Updated(polls', polls, c, polls[c])
          /\ Updated(reports', reports, c, reports[c])
          /\ Updated(effect', effect, c, effect[c])
      BY <1>2, <1>3 DEF Updated, InLoop, Keeps
    <2>7. /\ WaitsIn(timers', c) = Waits(c)
          /\ \A d \in Ops : WaitsIn(timers', d) = WaitsIn(timers, d)
      BY <1>3 DEF Waits, Keeps
    <2> QED
      BY <1>2, <2>1, <2>2, <2>4, <2>5, <2>6, <2>7, OneStep
  <1>4. CASE Acts(c, x, cmd, line)
    <2>1. PICK status \in Statuses :
            /\ status # "GENERIC_ERROR"
            /\ status = "OK" => line.code = "250"
            /\ Continue(c, x, cmd, status)
      BY <1>4 DEF Acts
    <2>2. line.type = " "
      BY <1>4 DEF Acts
    <2> QED
      BY <1>2, <2>1, <2>2, StepContinue
  <1> QED
    BY <1>1, <1>3, <1>4 DEF LineStep

\* Steps that leave the calls alone.
LEMMA StepElsewhere ==
  ASSUME IInv, UNCHANGED <<conn, call, timers, result, reports, polls, effect>>, RestOK'
  PROVE  IInv'
  <1>1. TypeOK'
    BY DEF IInv, TypeOK, RestOK
  <1>2. ASSUME NEW c \in Ops PROVE CallInv(c)'
    <2>1. CallInv(c)
      BY DEF IInv
    <2> QED
      BY <2>1 DEF CallInv, Waits, Frame
  <1> QED
    BY <1>1, <1>2 DEF IInv

LEMMA StepTorReplies ==
  ASSUME IInv, NEW c \in Ops, TorReplies(c)
  PROVE  IInv'
  <1> DEFINE k == conn[c]
  <1>1. /\ Good(c, k, Waits(c), Frame(c), polls[c], reports[c], effect[c])
        /\ k \in K /\ polls[c] \in Nat /\ reports[c] \in Seq(Reports)
        /\ effect[c] \in {"none", "on", "off"}
    BY CallData
  <1>2. PICK a \in Replies(Head(k.sent)) :
          /\ conn' = [conn EXCEPT ![c] = Served(@, a.lines)]
          /\ net' = IF a.did = "none" THEN net ELSE a.did = "on"
          /\ effect' = IF a.did = "none" THEN effect
                                         ELSE [effect EXCEPT ![c] = a.did]
    BY DEF TorReplies
  <1> DEFINE x == Served(k, a.lines)
             e == Did(a.did, effect[c])
  <1>3. k.sent # <<>>
    BY DEF TorReplies
  <1>4. x = Served(k, a.lines) /\ e = Did(a.did, effect[c])
    OBVIOUS
  <1>5. conn' = [conn EXCEPT ![c] = x]
    BY <1>2
  <1>6. k = conn[c]
    OBVIOUS
  <1> HIDE DEF k, x, e
  <1>7. x \in K
    <2>1. Head(k.sent) \in Commands
      BY <1>1, <1>3, KFields
    <2>2. a.lines \in Seq(Lines)
      BY <2>1, ReplyFacts
    <2>3. Served(k, a.lines) \in K
      BY <1>1, <1>3, <2>2, ServedFacts
    <2> QED
      BY <1>4, <2>3
  <1>8. Good(c, x, Waits(c), Frame(c), polls[c], reports[c], Did(a.did, effect[c]))
    BY <1>1, <1>3, <1>4, GoodReplies
  <1>9. a.did \in {"none", "on", "off"}
    <2>1. Done(c, k, reports[c], effect[c], a.did)
      BY <1>1, <1>3, <1>4, GoodReplies
    <2> QED
      BY <2>1 DEF Done
  <1>10. e \in {"none", "on", "off"}
    BY <1>1, <1>4, <1>9 DEF Did
  <1>11. Updated(effect', effect, c, e)
    BY <1>2, <1>4 DEF Updated, Did
  <1>12. UNCHANGED <<timers, result, reports, polls>> /\ Runs(c, Frame(c))
    BY DEF TorReplies, Runs
  <1>13. RestOK'
    <2>1. net' \in BOOLEAN
      BY <1>2, <1>9 DEF IInv, TypeOK
    <2> QED
      BY <2>1 DEF TorReplies, user, IInv, TypeOK, RestOK
  <1>14. /\ timers' \in SUBSET (Ops \X Polls) /\ result' \in [Ops -> Progresses]
    BY <1>12, Typed DEF IInv
  <1>15. /\ WaitsIn(timers', c) = Waits(c)
         /\ \A d \in Ops : WaitsIn(timers', d) = WaitsIn(timers, d)
    BY <1>12 DEF Waits
  <1>16. /\ Updated(conn', conn, c, x) /\ Updated(polls', polls, c, polls[c])
         /\ Updated(reports', reports, c, reports[c])
    BY <1>5, <1>12 DEF Updated
  <1>17. Good(c, x, Waits(c), Frame(c), polls[c], reports[c], e)
    BY <1>4, <1>8
  <1> QED
    BY <1>1, <1>7, <1>10, <1>11, <1>12, <1>13, <1>14, <1>15, <1>16, <1>17, OneStep

LEMMA StepTorCloses ==
  ASSUME IInv, NEW c \in Ops, TorCloses(c)
  PROVE  IInv'
  <1> DEFINE x == ClosedByPeer(conn[c])
  <1>1. /\ x \in K
        /\ Good(c, x, Waits(c), Frame(c), polls[c], reports[c], effect[c])
    BY CallData, GoodCloses DEF TorCloses
  <1>2. conn' = [conn EXCEPT ![c] = x]
    BY DEF TorCloses
  <1>3. RestOK' /\ UNCHANGED <<timers, result, reports, polls, effect>>
    BY RestKept DEF TorCloses, tor, user
  <1>4. Runs(c, Frame(c))
    BY DEF TorCloses, Runs
  <1> HIDE DEF x
  <1> QED
    BY <1>1, <1>2, <1>3, <1>4, ConnStep

LEMMA StepBreaks ==
  ASSUME IInv, BreakTimer \/ BreakLoop \/ BreakSoon
  PROVE  IInv'
  <1>1. UNCHANGED <<conn, call, timers, result, reports, polls, effect>>
    BY DEF BreakTimer, BreakLoop, BreakSoon, tor
  <1>2. {c \in Ops : Closed(c)} \in SUBSET Ops /\ timers \in SUBSET (Ops \X Polls)
    BY Typed DEF IInv
  <1>3. soon' \in [set: BOOLEAN, timers: SUBSET (Ops \X Polls), closed: SUBSET Ops]
    <2>1. CASE BreakTimer \/ BreakLoop
      BY <2>1 DEF BreakTimer, BreakLoop, IInv, TypeOK
    <2>2. CASE BreakSoon
      <3>1. soon' = [set |-> TRUE, timers |-> timers,
                     closed |-> {c \in Ops : Closed(c)}]
        BY <2>2 DEF BreakSoon
      <3> QED
        BY <1>2, <3>1
    <2> QED
      BY <2>1, <2>2
  <1>4. RestOK'
    BY <1>3 DEF BreakTimer, BreakLoop, BreakSoon, tor, IInv, TypeOK, RestOK
  <1> QED
    BY <1>1, <1>4, StepElsewhere

LEMMA NextIInv == IInv /\ [Next]_vars => IInv'
  <1> SUFFICES ASSUME IInv, [Next]_vars PROVE IInv'
    OBVIOUS
  <1>1. CASE UNCHANGED vars
    <2>1. UNCHANGED <<conn, call, timers, result, reports, polls, effect>> /\ RestOK'
      BY <1>1 DEF vars, IInv, TypeOK, RestOK
    <2> QED
      BY <2>1, StepElsewhere
  <1>2. ASSUME NEW c \in Ops, Established(c) PROVE IInv'
    BY <1>2, StepEstablished
  <1>3. ASSUME NEW c \in Ops, ConnectFailed(c) PROVE IInv'
    BY <1>3, StepConnectFailed
  <1>4. ASSUME NEW c \in Ops, Flush(c) PROVE IInv'
    BY <1>4, StepFlush
  <1>5. ASSUME NEW c \in Ops, WriteError(c) PROVE IInv'
    BY <1>5, StepWriteError
  <1>6. ASSUME NEW c \in Ops, Read(c) PROVE IInv'
    BY <1>6, StepRead
  <1>7. ASSUME NEW c \in Ops, NEW status \in LostStatuses, ConnLost(c, status)
        PROVE  IInv'
    BY <1>7, StepConnLost
  <1>8. ASSUME NEW c \in Ops, DeleteVarp(c) PROVE IInv'
    BY <1>8, StepDeleteVarp
  <1>9. ASSUME NEW c \in Ops, NEW n \in Polls, Poll(c, n) PROVE IInv'
    BY <1>9, StepPoll
  <1>10. CASE ReadLine
    BY <1>10, StepReadLine
  <1>11. CASE Return
    BY <1>11, StepReturn
  <1>12. CASE BreakTimer \/ BreakLoop \/ BreakSoon
    BY <1>12, StepBreaks
  <1>13. ASSUME NEW c \in Ops, EnableTor(c) \/ DisableTor(c) PROVE IInv'
    BY <1>13, StepCall DEF EnableTor, DisableTor
  <1>14. ASSUME NEW c \in Ops, TorReplies(c) PROVE IInv'
    BY <1>14, StepTorReplies
  <1>15. ASSUME NEW c \in Ops, TorCloses(c) PROVE IInv'
    BY <1>15, StepTorCloses
  <1> QED
    BY <1>1, <1>2, <1>3, <1>4, <1>5, <1>6, <1>7, <1>8, <1>9, <1>10, <1>11, <1>12,
       <1>13, <1>14, <1>15 DEF Next, EventLoop, User, Tor
-----------------------------------------------------------------------------
\* The inductive invariant holds in every behaviour.
THEOREM Invariant == Spec => []IInv
  BY InitIInv, NextIInv, PTL DEF Spec

\* The variables of OnionPoller have their types, whatever the calls and their
\* timeout.
THEOREM TypeCorrect == Spec => []TypeOK
  <1>1. IInv => TypeOK
    BY DEF IInv
  <1> QED
    BY <1>1, Invariant, PTL

\* However calls overlap and connections are lost, whoever may still use the
\* control connection of a call finds a Bufferevent that was not disposed of
\* (libevent.cpp:40, onion-poller.hpp:120).
THEOREM NoUse == Spec => []NoUseAfterDispose
  <1>1. IInv => NoUseAfterDispose
    <2> SUFFICES ASSUME IInv, NEW c \in Ops,
                        conn[c].cbs # NoCallbacks \/ Polling(c) \/ call.op = c
                 PROVE  conn[c].bev \in {"connecting", "open", "failed"}
      BY DEF NoUseAfterDispose
    <2>1. conn[c] \in K /\ ModeInv(conn[c], Waits(c), Frame(c))
      BY CallData DEF Good
    <2>2. CASE conn[c].cbs # NoCallbacks
      BY <2>1, <2>2, NoCallbacksFields DEF ModeInv, Alive
    <2>3. CASE Polling(c)
      BY <2>1, <2>3, PollingWaits DEF ModeInv, Alive
    <2>4. CASE call.op = c
      <3>1. Frame(c) = {call.cmd}
        BY <2>4 DEF Frame, FrameIn
      <3> QED
        BY <2>1, <3>1 DEF ModeInv, Alive
    <2> QED
      BY <2>2, <2>3, <2>4
  <1> QED
    BY <1>1, Invariant, PTL

\* A call that times out has asked tor exactly as often as its timeout says, and
\* no call asks more often (onion-poller.hpp:102, 132).
THEOREM PollCount == Spec => []PollsBounded
  <1>1. IInv => PollsBounded
    <2> SUFFICES ASSUME IInv, NEW c \in Ops
                 PROVE  /\ polls[c] <= Timeout
                        /\ \A i \in 1 .. Len(reports[c]) :
                             reports[c][i].status = "GENERIC_ERROR" =>
                               polls[c] = Timeout
      BY DEF PollsBounded
    <2>1. /\ CountInv(conn[c], Waits(c), polls[c])
          /\ ReportInv(conn[c], Waits(c), polls[c], reports[c])
      BY CallData DEF Good
    <2> QED
      BY <2>1 DEF CountInv, ReportInv
  <1> QED
    BY <1>1, Invariant, PTL

\* The callback of the user is called once, or twice in the one way that
\* ReportedOnce describes (onion-poller.hpp:119-138).
THEOREM OnceReported == Spec => []ReportedOnce
  <1>1. IInv => ReportedOnce
    <2> SUFFICES ASSUME IInv, NEW c \in Ops
                 PROVE  \/ Len(reports[c]) <= 1
                        \/ /\ Len(reports[c]) = 2
                           /\ \A i \in 1 .. 2 :
                                /\ reports[c][i].status \in LostStatuses
                                /\ reports[c][i].polling = (i = 1)
      BY DEF ReportedOnce
    <2> DEFINE r == reports[c]
    <2>1. ReportInv(conn[c], Waits(c), polls[c], r)
      BY CallData DEF Good
    <2>2. \/ Len(r) <= 1
          \/ /\ Len(r) = 2
             /\ r[1].status \in LostStatuses /\ r[1].polling = TRUE
             /\ r[2].status \in LostStatuses /\ r[2].polling = FALSE
      BY <2>1 DEF ReportInv
    <2> HIDE DEF r
    <2>3. CASE Len(r) <= 1
      BY <2>3 DEF r
    <2>4. CASE /\ Len(r) = 2
               /\ r[1].status \in LostStatuses /\ r[1].polling = TRUE
               /\ r[2].status \in LostStatuses /\ r[2].polling = FALSE
      <3>1. ASSUME NEW i \in 1 .. 2
            PROVE  r[i].status \in LostStatuses /\ r[i].polling = (i = 1)
        <4>1. CASE i = 1
          BY <2>4, <4>1
        <4>2. CASE i = 2
          BY <2>4, <4>2
        <4> QED
          BY <4>1, <4>2
      <3> QED
        BY <2>4, <3>1 DEF r
    <2> QED
      BY <2>2, <2>3, <2>4
  <1> QED
    BY <1>1, Invariant, PTL
-----------------------------------------------------------------------------
(***************************************************************************)
(* The poller implements the switch of NetworkSwitch.                      *)
(***************************************************************************)

Asked == {c \in Ops : Started(c)}

\* A step is not a call.
LEMMA Stays ==
  ASSUME IInv, NEW c \in Ops, NEW x, conn' = [conn EXCEPT ![c] = x],
         x.bev # "null", conn[c].bev # "null"
  PROVE  Asked' = Asked
  <1>1. \A d \in Ops : conn'[d] = IF d = c THEN x ELSE conn[d]
    BY CallData
  <1> QED
    BY <1>1 DEF Asked, Started

\* The callback of the user may be told this, after these reports.
MayBeTold(c, status) ==
    /\ status \in Statuses
    /\ \/ /\ reports[c] = <<>>
          /\ status = "OK" => effect[c] = IF c \in Enables THEN "on" ELSE "off"
          /\ status = "GENERIC_ERROR" => c \in Enables /\ effect[c] = "off"
       \/ /\ c \in Enables
          /\ Len(reports[c]) = 1
          /\ reports[c][1].status \in LostStatuses
          /\ status \in LostStatuses

\* In a step the callback of c is told a status, or no callback is told anything.
Tells(c) ==
    \/ reports' = reports
    \/ \E status : /\ reports' = [reports EXCEPT ![c] = Append(@, Report(c, status))]
                   /\ MayBeTold(c, status)

LEMMA LossTold ==
  ASSUME NEW c, NEW status \in LostStatuses, MayTell(c, reports[c])
  PROVE  MayBeTold(c, status)
  <1>1. status \in Statuses /\ status # "OK" /\ status # "GENERIC_ERROR"
    BY DEF LostStatuses, Statuses
  <1> QED
    BY <1>1 DEF MayTell, MayBeTold

LEMMA TellsEvent ==
  ASSUME IInv, NEW c \in Ops,
         WriteError(c) \/ \E status \in LostStatuses : ConnLost(c, status)
  PROVE  Tells(c)
  <1>1. CASE WriteError(c)
    <2>1. "IO_ERROR" \in LostStatuses
      BY DEF LostStatuses
    <2> QED
      BY <1>1, <2>1, StepWriteError, LossTold DEF Tells
  <1>2. ASSUME NEW status \in LostStatuses, ConnLost(c, status) PROVE Tells(c)
    BY <1>2, StepConnLost, LossTold DEF Tells
  <1> QED
    BY <1>1, <1>2

LEMMA TellsConnectFailed ==
  ASSUME IInv, NEW c \in Ops, ConnectFailed(c)
  PROVE  Tells(c)
  <1>1. reports[c] = <<>>
    BY StepConnectFailed
  <1>2. reports' = [reports EXCEPT ![c] = Append(@, Report(c, "CONNECT_FAILED"))]
    BY DEF ConnectFailed, Finish, Report
  <1>3. MayBeTold(c, "CONNECT_FAILED")
    BY <1>1 DEF MayBeTold, Statuses
  <1> QED
    BY <1>2, <1>3 DEF Tells

LEMMA TellsFinish ==
  ASSUME NEW c, NEW k, NEW status, Finish(c, k, status), MayBeTold(c, status)
  PROVE  Tells(c)
  BY DEF Finish, Tells, Report

LEMMA TellsContinue ==
  ASSUME IInv, NEW c \in Ops, NEW k, NEW cmd, NEW line, line.type = " ",
         LineTaken(c, k, Waits(c), cmd, polls[c], reports[c], effect[c], line),
         NEW status \in Statuses, status # "GENERIC_ERROR",
         status = "OK" => line.code = "250",
         Continue(c, k, cmd, status)
  PROVE  Tells(c)
  <1>1. /\ cmd \in Commands /\ reports[c] = <<>>
        /\ IsPoll(cmd) => c \in Enables /\ effect[c] = "on"
        /\ cmd = GiveUp => c \in Enables
        /\ cmd = SetConfOff => c \in Disables
        /\ status = "OK" /\ cmd \in {SetConfOff, GiveUp} => effect[c] = "off"
    BY DEF LineTaken
  <1>2. c \in Disables => c \notin Enables
    BY OpsAssumption
  <1>3. CASE status # "OK" /\ Finish(c, k, status)
    <2>1. MayBeTold(c, status)
      BY <1>1, <1>3 DEF MayBeTold
    <2> QED
      BY <1>3, <2>1, TellsFinish
  <1>4. CASE /\ status = "OK" /\ Finish(c, k, "OK")
             /\ cmd = SetConfOff \/ cmd = GetInfo(cmd.n)
    <2>1. MayBeTold(c, "OK")
      BY <1>1, <1>2, <1>4, PollCommand DEF MayBeTold, Statuses
    <2> QED
      BY <1>4, <2>1, TellsFinish
  <1>5. CASE status = "OK" /\ cmd = GiveUp /\ Finish(c, k, "GENERIC_ERROR")
    <2>1. MayBeTold(c, "GENERIC_ERROR")
      BY <1>1, <1>5 DEF MayBeTold, Statuses
    <2> QED
      BY <1>5, <2>1, TellsFinish
  <1>6. ASSUME reports' = reports PROVE Tells(c)
    BY <1>6 DEF Tells
  <1> QED
    BY <1>3, <1>4, <1>5, <1>6 DEF Continue, WaitForCircuit

LEMMA TellsReadLine ==
  ASSUME IInv, ReadLine
  PROVE  (\E c \in Ops : Tells(c)) /\ Asked' = Asked
  <1>0. PICK c, cmd, line, x :
          /\ c = call.op /\ cmd = call.cmd
          /\ line = Head(conn[c].input) /\ x = Taken(conn[c])
    OBVIOUS
  <1>1. LineStep(c, x, cmd, line)
    BY <1>0, LoopTurn
  <1>2. conn[c].bev # "null"
    <2>1. c \in Ops /\ Frame(c) # {}
      BY <1>1 DEF LineStep
    <2> QED
      BY <2>1, CallData DEF Good, ModeInv, Alive
  <1>3. /\ c \in Ops /\ x \in K /\ x.bev # "null" /\ cmd \in Commands
        /\ LineTaken(c, x, Waits(c), cmd, polls[c], reports[c], effect[c], line)
    BY <1>1 DEF LineStep, LineTaken
  <1>4. CASE Keeps(c, x, line)
    <2>1. reports' = reports /\ conn' = [conn EXCEPT ![c] = x]
      BY <1>4 DEF Keeps
    <2>2. Tells(c)
      BY <2>1 DEF Tells
    <2>3. Asked' = Asked
      BY <1>2, <1>3, <2>1, Stays
    <2> QED
      BY <1>3, <2>2, <2>3
  <1>5. CASE Acts(c, x, cmd, line)
    <2>1. PICK status \in Statuses :
            /\ status # "GENERIC_ERROR"
            /\ status = "OK" => line.code = "250"
            /\ Continue(c, x, cmd, status)
      BY <1>5 DEF Acts
    <2>2. line.type = " "
      BY <1>5 DEF Acts
    <2>3. Tells(c)
      BY <1>3, <2>1, <2>2, TellsContinue
    <2>4. PICK y : /\ conn' = [conn EXCEPT ![c] = y]
                   /\ y = x \/ y = Close(x) \/ \E next \in Commands : y = Send(x, next)
      <3>1. {GiveUp, SetConfOn, SetConfOff} \subseteq Commands
        BY CommandFacts
      <3> QED
        BY <2>1, <3>1 DEF Continue, Finish, WaitForCircuit
    <2>5. y.bev = x.bev
      BY <1>3, <2>4, CloseFacts, SendFacts
    <2>6. Asked' = Asked
      BY <1>2, <1>3, <2>4, <2>5, Stays
    <2> QED
      BY <1>3, <2>3, <2>6
  <1> QED
    BY <1>1, <1>4, <1>5 DEF LineStep

LEMMA StaysEvent ==
  ASSUME IInv, NEW c \in Ops, conn[c].bev \in {"open", "failed"},
         NEW k, k = WriteFailed(conn[c]) \/ k = Lost(conn[c]), NEW status,
         OnEvent(c, k, status)
  PROVE  Asked' = Asked
  <1>1. k \in K /\ k.bev = conn[c].bev
    BY CallData, WriteFailedFacts, LostFacts
  <1>2. Close(k).bev = k.bev
    BY <1>1, CloseFacts
  <1> DEFINE x == IF k.cbs = NoCallbacks THEN k ELSE Close(k)
  <1>3. x.bev = k.bev
    BY <1>2
  <1>4. conn' = [conn EXCEPT ![c] = x]
    BY DEF OnEvent, Finish
  <1> HIDE DEF x
  <1> QED
    BY <1>1, <1>3, <1>4, Stays

LEMMA StaysLoop ==
  ASSUME IInv, NEW c \in Ops,
         \/ Established(c)
         \/ ConnectFailed(c)
         \/ Flush(c)
         \/ WriteError(c)
         \/ Read(c)
         \/ \E status \in LostStatuses : ConnLost(c, status)
         \/ DeleteVarp(c)
         \/ \E n \in Polls : Poll(c, n)
  PROVE  Asked' = Asked
  <1> DEFINE k == conn[c]
  <1>1. k \in K
    BY CallData
  <1>2. CASE Established(c)
    <2> DEFINE x == Send(Connected(k), k.cbs.cmd)
    <2>1. x.bev = "open"
      BY <1>1, ConnectedFacts DEF Send
    <2>2. conn' = [conn EXCEPT ![c] = x] /\ k.bev # "null"
      BY <1>2 DEF Established
    <2> HIDE DEF x
    <2> QED
      BY <2>1, <2>2, Stays
  <1>3. CASE ConnectFailed(c)
    <2> DEFINE i == Refused(k)
               j == Close(i)
               x == Close(j)
    <2>1. i \in K /\ i.bev = "failed"
      BY <1>1, RefusedFacts
    <2>2. j \in K /\ j.bev = i.bev
      BY <2>1, CloseFacts
    <2>3. x.bev = j.bev
      BY <2>2, CloseFacts
    <2>4. conn' = [conn EXCEPT ![c] = x] /\ k.bev # "null"
      BY <1>3 DEF ConnectFailed, Finish
    <2> HIDE DEF i, j, x
    <2> QED
      BY <2>1, <2>2, <2>3, <2>4, Stays
  <1>4. CASE Flush(c)
    <2> DEFINE j == Drained(k)
               x == IF j.cbs.mode = "send" THEN Recv(j, j.cbs.cmd) ELSE j
    <2>1. j \in K /\ j.bev = k.bev
      BY <1>1, DrainedFacts
    <2>2. j.cbs.cmd \in Commands \cup {NoCmd}
      BY <2>1, KFields
    <2>3. Recv(j, j.cbs.cmd).bev = j.bev
      BY <2>1, <2>2, RecvFacts
    <2>4. conn' = [conn EXCEPT ![c] = x] /\ k.bev # "null"
      BY <1>4 DEF Flush
    <2>5. x.bev = j.bev
      BY <2>3
    <2> HIDE DEF j, x
    <2> QED
      BY <2>1, <2>4, <2>5, Stays
  <1>5. CASE WriteError(c)
    <2>1. conn[c].bev \in {"open", "failed"} /\ OnEvent(c, WriteFailed(conn[c]), "IO_ERROR")
      BY <1>5 DEF WriteError, CanWrite
    <2> QED
      BY <2>1, StaysEvent
  <1>6. ASSUME NEW status \in LostStatuses, ConnLost(c, status)
        PROVE  Asked' = Asked
    <2>1. conn[c].bev \in {"open", "failed"} /\ OnEvent(c, Lost(conn[c]), status)
      BY <1>6 DEF ConnLost, CanRead
    <2> QED
      BY <2>1, StaysEvent
  <1>7. CASE Read(c)
    <2>1. PICK m \in 1 .. Len(conn[c].wire) : conn' = [conn EXCEPT ![c] = Received(@, m)]
      BY <1>7 DEF Read
    <2> DEFINE x == Received(k, m)
    <2>2. x.bev = k.bev
      BY <1>1, ReceivedFacts
    <2>3. conn' = [conn EXCEPT ![c] = x] /\ k.bev # "null"
      BY <1>7, <2>1 DEF Read, CanRead
    <2> HIDE DEF x
    <2> QED
      BY <2>2, <2>3, Stays
  <1>8. CASE DeleteVarp(c)
    <2> DEFINE x == Deleted(k)
    <2>1. x.bev = "deleted"
      BY <1>1, DeletedFacts
    <2>2. conn' = [conn EXCEPT ![c] = x] /\ k.bev # "null"
      BY <1>8 DEF DeleteVarp
    <2> HIDE DEF x
    <2> QED
      BY <2>1, <2>2, Stays
  <1>9. ASSUME NEW n \in Polls, Poll(c, n) PROVE Asked' = Asked
    <2> DEFINE x == Send(k, GetInfo(n))
    <2>1. x.bev = k.bev
      BY <1>1, GetInfoFacts, SendFacts
    <2>2. Waits(c) # {}
      BY <1>9 DEF Poll, Waits, WaitsIn
    <2>3. k.bev # "null"
      BY <2>2, CallData DEF Good, ModeInv, Alive
    <2>4. conn' = [conn EXCEPT ![c] = x]
      BY <1>9 DEF Poll
    <2> HIDE DEF x
    <2> QED
      BY <2>1, <2>3, <2>4, Stays
  <1> QED
    BY <1>2, <1>3, <1>4, <1>5, <1>6, <1>7, <1>8, <1>9

LEMMA StaysTor ==
  ASSUME IInv, NEW c \in Ops, TorReplies(c) \/ TorCloses(c)
  PROVE  Asked' = Asked
  <1> DEFINE k == conn[c]
  <1>1. /\ k \in K
        /\ PipeInv(k, Waits(c), Frame(c))
    BY CallData DEF Good
  <1>2. CASE TorReplies(c)
    <2>1. PICK a \in Replies(Head(k.sent)) :
            conn' = [conn EXCEPT ![c] = Served(@, a.lines)]
      BY <1>2 DEF TorReplies
    <2> DEFINE x == Served(k, a.lines)
    <2>2. k.sent # <<>>
      BY <1>2 DEF TorReplies
    <2>3. Head(k.sent) \in Commands
      BY <1>1, <2>2, KFields
    <2>4. a.lines \in Seq(Lines)
      BY <2>3, ReplyFacts
    <2>5. x.bev = k.bev
      BY <1>1, <2>2, <2>4, ServedFacts
    <2>6. k.bev # "null"
      BY <1>1, <2>2 DEF PipeInv, Quiet
    <2>7. conn' = [conn EXCEPT ![c] = x]
      BY <2>1
    <2> HIDE DEF x
    <2> QED
      BY <2>5, <2>6, <2>7, Stays
  <1>3. CASE TorCloses(c)
    <2> DEFINE x == ClosedByPeer(k)
    <2>1. x.bev = k.bev
      BY <1>1, ClosedByPeerFacts
    <2>2. conn' = [conn EXCEPT ![c] = x] /\ k.bev # "null"
      BY <1>3 DEF TorCloses
    <2> HIDE DEF x
    <2> QED
      BY <2>1, <2>2, Stays
  <1> QED
    BY <1>2, <1>3

\* A step that is neither a call nor a reply of tor.
Talks ==
    /\ reports' = reports \/ \E c \in Ops : Tells(c)
    /\ Asked' = Asked
    /\ UNCHANGED <<net, effect, serial>>

LEMMA StepKinds ==
  ASSUME IInv, [Next]_vars
  PROVE  \/ \E c \in Ops : Call(c)
         \/ \E c \in Ops : TorReplies(c)
         \/ Talks
  <1>1. ASSUME UNCHANGED <<conn, reports, net, effect, serial>> PROVE Talks
    BY <1>1 DEF Talks, Asked, Started
  <1>2. CASE UNCHANGED vars \/ BreakTimer \/ BreakLoop \/ BreakSoon
    <2>1. UNCHANGED <<conn, reports, net, effect, serial>>
      BY <1>2 DEF vars, BreakTimer, BreakLoop, BreakSoon, tor
    <2> QED
      BY <1>1, <2>1
  <1>3. ASSUME NEW c \in Ops,
               \/ Established(c)
               \/ Flush(c)
               \/ Read(c)
               \/ DeleteVarp(c)
               \/ \E n \in Polls : Poll(c, n)
        PROVE  Talks
    <2>1. UNCHANGED <<reports, net, effect, serial>>
      BY <1>3 DEF Established, Flush, Read, DeleteVarp, Poll, tor, user
    <2>2. Asked' = Asked
      BY <1>3, StaysLoop
    <2> QED
      BY <2>1, <2>2 DEF Talks
  <1>4. ASSUME NEW c \in Ops,
               \/ ConnectFailed(c)
               \/ WriteError(c)
               \/ \E status \in LostStatuses : ConnLost(c, status)
        PROVE  Talks
    <2>1. UNCHANGED <<net, effect, serial>>
      BY <1>4 DEF ConnectFailed, WriteError, ConnLost, tor, user
    <2>2. Asked' = Asked
      BY <1>4, StaysLoop
    <2>3. Tells(c)
      BY <1>4, TellsConnectFailed, TellsEvent
    <2> QED
      BY <2>1, <2>2, <2>3 DEF Talks
  <1>5. CASE ReadLine
    <2>1. UNCHANGED <<net, effect, serial>>
      BY <1>5 DEF ReadLine, tor, user
    <2> QED
      BY <1>5, <2>1, TellsReadLine DEF Talks
  <1>6. CASE Return
    <2>1. UNCHANGED <<reports, net, effect, serial>>
      BY <1>6 DEF Return, tor, user
    <2>2. Asked' = Asked
      <3>1. CASE Closed(call.op)
        <4>1. PICK c : c = call.op
          OBVIOUS
        <4>2. c \in Ops
          BY <1>6, <4>1, RunningCall DEF Return
        <4> DEFINE x == Ignored(conn[c])
        <4>3. conn' = [conn EXCEPT ![c] = x]
          BY <1>6, <3>1, <4>1 DEF Return
        <4>4. x.bev = "ignored" /\ conn[c].bev # "null"
          BY <3>1, <4>1, <4>2, CallData, IgnoredFacts DEF Closed, Started
        <4> HIDE DEF x
        <4> QED
          BY <4>2, <4>3, <4>4, Stays
      <3>2. CASE ~Closed(call.op)
        BY <1>6, <3>2 DEF Return, Asked, Started
      <3> QED
        BY <3>1, <3>2
    <2> QED
      BY <2>1, <2>2 DEF Talks
  <1>7. ASSUME NEW c \in Ops, TorCloses(c) PROVE Talks
    <2>1. UNCHANGED <<reports, net, effect, serial>>
      BY <1>7 DEF TorCloses, tor, user
    <2> QED
      BY <1>7, <2>1, StaysTor DEF Talks
  <1>8. ASSUME NEW c \in Ops, EnableTor(c) \/ DisableTor(c) PROVE Call(c)
    BY <1>8 DEF EnableTor, DisableTor
  <1> QED
    BY <1>2, <1>3, <1>4, <1>5, <1>6, <1>7, <1>8 DEF Next, EventLoop, User, Tor

ToldAll == [c \in Ops |-> Told(c)]

\* What the callback of c is told is the last of its reports.
LEMMA LastTold ==
  ASSUME IInv, NEW c \in Ops, NEW status \in Statuses,
         reports' = [reports EXCEPT ![c] = Append(@, Report(c, status))]
  PROVE  /\ ToldAll' = [ToldAll EXCEPT ![c] = status]
         /\ Len(reports'[c]) = Len(reports[c]) + 1
         /\ reports'[c][Len(reports'[c])].status = status
         /\ \A d \in Ops : d # c => reports'[d] = reports[d]
  <1> DEFINE a == Report(c, status)
             r == reports[c]
             s == reports'[c]
  <1>1. a \in Reports /\ a.status = status
    BY ReportFields
  <1>2. reports \in [Ops -> Seq(Reports)] /\ r \in Seq(Reports)
    BY Typed DEF IInv
  <1>3. s = Append(r, a) /\ \A d \in Ops : d # c => reports'[d] = reports[d]
    BY <1>2
  <1> HIDE DEF a, s, r
  <1>4. Len(s) = Len(r) + 1 /\ s[Len(r) + 1] = a /\ s # <<>>
    BY <1>1, <1>2, <1>3, AppendProperties
  <1>5. s[Len(s)].status = status /\ s # <<>>
    BY <1>1, <1>4
  <1>6. Told(c)' = status
    BY <1>5 DEF Told, s
  <1>7. \A d \in Ops : d # c => Told(d)' = Told(d)
    BY <1>3 DEF Told
  <1>8. ToldAll' = [ToldAll EXCEPT ![c] = status]
    BY <1>6, <1>7 DEF ToldAll
  <1> QED
    BY <1>3, <1>4, <1>5, <1>8 DEF s, r

\* What a reply of tor does, to the call that it answers.
LEMMA ReplyDoes ==
  ASSUME IInv, NEW c \in Ops, TorReplies(c)
  PROVE  /\ Started(c) /\ reports[c] = <<>>
         /\ UNCHANGED <<reports, serial>>
         /\ \/ UNCHANGED <<net, effect>>
            \/ /\ c \in Enables /\ effect[c] = "none"
               /\ net' = TRUE /\ effect' = [effect EXCEPT ![c] = "on"]
            \/ /\ effect[c] = IF c \in Enables THEN "on" ELSE "none"
               /\ net' = FALSE /\ effect' = [effect EXCEPT ![c] = "off"]
  <1> DEFINE k == conn[c]
  <1>1. /\ Good(c, k, Waits(c), Frame(c), polls[c], reports[c], effect[c])
        /\ k \in K /\ polls[c] \in Nat
    BY CallData
  <1>2. k.sent # <<>> /\ UNCHANGED <<reports, serial>>
    BY DEF TorReplies, user
  <1>3. PICK a \in Replies(Head(k.sent)) :
          /\ net' = IF a.did = "none" THEN net ELSE a.did = "on"
          /\ effect' = IF a.did = "none" THEN effect
                                         ELSE [effect EXCEPT ![c] = a.did]
    BY DEF TorReplies
  <1> DEFINE x == Served(k, a.lines)
  <1>4. x = Served(k, a.lines) /\ k = conn[c]
    OBVIOUS
  <1> HIDE DEF k, x
  <1>5. Done(c, k, reports[c], effect[c], a.did)
    BY <1>1, <1>2, <1>4, GoodReplies
  <1>6. reports[c] = <<>> /\ k.bev \notin {"null", "connecting"}
    BY <1>5 DEF Done
  <1>7. a.did \in {"none", "on", "off"}
    BY <1>5 DEF Done
  <1>8. a.did = "on" => c \in Enables /\ effect[c] = "none"
    BY <1>5 DEF Done
  <1>9. a.did = "off" => effect[c] = IF c \in Enables THEN "on" ELSE "none"
    BY <1>5 DEF Done
  <1>10. Started(c)
    BY <1>4, <1>6 DEF Started
  <1>11. CASE a.did = "none"
    BY <1>2, <1>3, <1>6, <1>10, <1>11
  <1>12. CASE a.did = "on"
    BY <1>2, <1>3, <1>6, <1>8, <1>10, <1>12
  <1>13. CASE a.did = "off"
    BY <1>2, <1>3, <1>6, <1>9, <1>10, <1>13
  <1> QED
    BY <1>7, <1>11, <1>12, <1>13

LEMMA SwitchInit == Init => Switch!Init
  <1> SUFFICES ASSUME Init PROVE Switch!Init
    OBVIOUS
  <1>1. \A c \in Ops : ~Started(c) /\ Told(c) = "nothing"
    BY CreateFacts DEF Init, Started, Told
  <1>2. Switch!Calls = Ops
    BY DEF Switch!Calls, Ops
  <1>3. {c \in Ops : Started(c)} = {} /\ [c \in Ops |-> Told(c)] = [c \in Ops |-> "nothing"]
    BY <1>1
  <1> QED
    BY <1>2, <1>3 DEF Init, Switch!Init

LEMMA SwitchAsk ==
  ASSUME IInv, NEW c \in Ops, Call(c)
  PROVE  Switch!Ask(c)
  <1>1. conn \in [Ops -> K] /\ conn[c] \in K
    BY CallData
  <1> DEFINE x == Connect(conn[c], Authenticate)
  <1>2. x.bev = "connecting"
    BY <1>1, CommandFacts, ConnectFacts
  <1>3. conn' = [conn EXCEPT ![c] = x] /\ ~Started(c) /\ UNCHANGED <<reports, net, effect>>
    BY DEF Call, tor
  <1> HIDE DEF x
  <1>4. \A d \in Ops : Started(d)' <=> Started(d) \/ d = c
    BY <1>1, <1>2, <1>3 DEF Started
  <1>5. [d \in Ops |-> Told(d)]' = [d \in Ops |-> Told(d)]
    BY <1>3 DEF Told
  <1> QED
    BY <1>3, <1>4, <1>5 DEF Switch!Ask

LEMMA SwitchReply ==
  ASSUME IInv, NEW c \in Ops, TorReplies(c)
  PROVE  Switch!TurnOn(c) \/ Switch!TurnOff(c) \/ UNCHANGED Switch!vars
  <1>1. /\ Started(c) /\ reports[c] = <<>>
        /\ UNCHANGED <<reports, serial>>
        /\ \/ UNCHANGED <<net, effect>>
           \/ /\ c \in Enables /\ effect[c] = "none"
              /\ net' = TRUE /\ effect' = [effect EXCEPT ![c] = "on"]
           \/ /\ effect[c] = IF c \in Enables THEN "on" ELSE "none"
              /\ net' = FALSE /\ effect' = [effect EXCEPT ![c] = "off"]
    BY ReplyDoes
  <1>2. {d \in Ops : Started(d)}' = {d \in Ops : Started(d)}
    BY StaysTor DEF Asked
  <1>3. [d \in Ops |-> Told(d)]' = [d \in Ops |-> Told(d)]
    BY <1>1 DEF Told
  <1>4. c \in {d \in Ops : Started(d)} /\ [d \in Ops |-> Told(d)][c] = "nothing"
    BY <1>1 DEF Told
  <1>5. CASE UNCHANGED <<net, effect>>
    BY <1>2, <1>3, <1>5 DEF Switch!vars
  <1>6. CASE /\ c \in Enables /\ effect[c] = "none"
             /\ net' = TRUE /\ effect' = [effect EXCEPT ![c] = "on"]
    <2>1. Switch!TurnOn(c)
      BY <1>2, <1>3, <1>4, <1>6 DEF Switch!TurnOn, Switch!Pending
    <2> QED
      BY <2>1
  <1>7. CASE /\ effect[c] = IF c \in Enables THEN "on" ELSE "none"
             /\ net' = FALSE /\ effect' = [effect EXCEPT ![c] = "off"]
    <2>1. Switch!TurnOff(c)
      BY <1>2, <1>3, <1>4, <1>7 DEF Switch!TurnOff, Switch!Pending
    <2> QED
      BY <2>1
  <1> QED
    BY <1>1, <1>5, <1>6, <1>7

LEMMA SwitchTalks ==
  ASSUME IInv, IInv', Talks
  PROVE  \/ UNCHANGED Switch!vars
         \/ \E c \in Ops, status \in Statuses :
              Switch!Tell(c, status) \/ Switch!TellAgain(c, status)
  <1>1. {d \in Ops : Started(d)}' = {d \in Ops : Started(d)} /\ UNCHANGED <<net, effect>>
    BY DEF Talks, Asked
  <1>2. CASE reports' = reports
    <2>1. [d \in Ops |-> Told(d)]' = [d \in Ops |-> Told(d)]
      BY <1>2 DEF Told
    <2> QED
      BY <1>1, <2>1 DEF Switch!vars
  <1>3. ASSUME NEW c \in Ops, NEW status, MayBeTold(c, status),
               reports' = [reports EXCEPT ![c] = Append(@, Report(c, status))]
        PROVE  Switch!Tell(c, status) \/ Switch!TellAgain(c, status)
    <2>1. status \in Statuses
      BY <1>3 DEF MayBeTold
    <2>2. ToldAll' = [ToldAll EXCEPT ![c] = status]
      BY <1>3, <2>1, LastTold
    <2>3. [d \in Ops |-> Told(d)]' = [[d \in Ops |-> Told(d)] EXCEPT ![c] = status]
      BY <2>2 DEF ToldAll
    <2>4. CASE /\ reports[c] = <<>>
               /\ status = "OK" => effect[c] = IF c \in Enables THEN "on" ELSE "off"
               /\ status = "GENERIC_ERROR" => c \in Enables /\ effect[c] = "off"
      <3>1. reports'[c] # <<>>
        <4>1. Len(reports'[c]) = Len(reports[c]) + 1
          BY <1>3, <2>1, LastTold
        <4> QED
          BY <2>4, <4>1
      <3>2. ReportInv(conn[c], Waits(c), polls[c], reports[c])'
        <4>1. CallInv(c)'
          BY DEF IInv
        <4> QED
          BY <4>1 DEF CallInv, Good
      <3>3. Started(c)'
        BY <3>1, <3>2 DEF ReportInv, Started
      <3>4. Started(c)
        BY <3>3 DEF Talks, Asked
      <3>5. c \in {d \in Ops : Started(d)} /\ [d \in Ops |-> Told(d)][c] = "nothing"
        BY <2>4, <3>4 DEF Told
      <3>6. Switch!Tell(c, status)
        BY <1>1, <2>3, <2>4, <3>5 DEF Switch!Tell, Switch!Pending
      <3> QED
        BY <3>6
    <2>5. CASE /\ c \in Enables
               /\ Len(reports[c]) = 1
               /\ reports[c][1].status \in LostStatuses
               /\ status \in LostStatuses
      <3>1. reports[c] # <<>>
        BY <2>5
      <3>2. Told(c) = reports[c][1].status
        BY <2>5, <3>1 DEF Told
      <3>3. [d \in Ops |-> Told(d)][c] \in LostStatuses
        BY <2>5, <3>2
      <3>4. Switch!TellAgain(c, status)
        BY <1>1, <2>3, <2>5, <3>3 DEF Switch!TellAgain
      <3> QED
        BY <3>4
    <2> QED
      BY <1>3, <2>4, <2>5 DEF MayBeTold
  <1>4. ASSUME NEW c \in Ops, Tells(c), reports' # reports
        PROVE  \E status \in Statuses :
                 Switch!Tell(c, status) \/ Switch!TellAgain(c, status)
    <2>1. PICK status : /\ reports' = [reports EXCEPT ![c] = Append(@, Report(c, status))]
                        /\ MayBeTold(c, status)
      BY <1>4 DEF Tells
    <2>2. status \in Statuses
      BY <2>1 DEF MayBeTold
    <2> QED
      BY <1>3, <2>1, <2>2
  <1> QED
    BY <1>2, <1>4 DEF Talks

LEMMA SwitchNext ==
  ASSUME IInv, IInv', [Next]_vars
  PROVE  [Switch!Next]_(Switch!vars)
  <1>1. Switch!Calls = Ops
    BY DEF Switch!Calls, Ops
  <1>2. ASSUME NEW c \in Ops, Call(c) PROVE Switch!Next
    BY <1>1, <1>2, SwitchAsk DEF Switch!Next
  <1>3. ASSUME NEW c \in Ops, TorReplies(c) PROVE Switch!Next \/ UNCHANGED Switch!vars
    BY <1>1, <1>3, SwitchReply DEF Switch!Next
  <1>4. CASE Talks
    BY <1>1, <1>4, SwitchTalks DEF Switch!Next
  <1> QED
    BY <1>2, <1>3, <1>4, StepKinds

\* The poller implements the switch, whatever the calls and their timeout: tor
\* does for a call what the call is told, and not later (onion-poller.hpp:77-99,
\* 101-138).
THEOREM Implements == Spec => ImplementsSwitch
  <1>1. Init => Switch!Init
    BY SwitchInit
  <1>2. IInv /\ IInv' /\ [Next]_vars => [Switch!Next]_(Switch!vars)
    BY SwitchNext
  <1> QED
    BY <1>1, <1>2, Invariant, PTL DEF Spec, ImplementsSwitch, Switch!Spec
-----------------------------------------------------------------------------
(***************************************************************************)
(* What a callback is told is true of tor, if calls do not overlap.        *)
(***************************************************************************)

Pending(c) == Started(c) /\ reports[c] = <<>>

\* If the user waits for one call before it makes the next, tor did last what the
\* call asked for that the user waits for.
SerialInv ==
    serial =>
      /\ \A c, d \in Ops : Pending(c) /\ Pending(d) => c = d
      /\ \A c \in Ops :
           Pending(c) /\ effect[c] # "none" => net = (effect[c] = "on")

LEMMA SerialInit == Init => SerialInv
  <1> SUFFICES ASSUME Init PROVE SerialInv
    OBVIOUS
  <1>1. \A c \in Ops : ~Started(c)
    BY CreateFacts DEF Init, Started
  <1> QED
    BY <1>1 DEF SerialInv, Pending

LEMMA SerialCall ==
  ASSUME IInv, SerialInv, NEW c \in Ops, Call(c)
  PROVE  SerialInv'
  <1>1. conn \in [Ops -> K] /\ conn[c] \in K
    BY CallData
  <1> DEFINE x == Connect(conn[c], Authenticate)
  <1>2. /\ conn' = [conn EXCEPT ![c] = x] /\ ~Started(c)
        /\ UNCHANGED <<reports, net, effect>>
        /\ serial' = (serial /\ \A d \in Ops : Started(d) => reports[d] # <<>>)
    BY DEF Call, tor
  <1> HIDE DEF x
  <1>3. \A d \in Ops : d # c => (Started(d)' <=> Started(d))
    BY <1>1, <1>2 DEF Started
  <1>4. effect[c] = "none"
    BY <1>2, CallData DEF Good, EffectInv, Started
  <1>5. SUFFICES ASSUME serial'
                 PROVE  /\ \A d, e \in Ops : Pending(d)' /\ Pending(e)' => d = e
                        /\ \A d \in Ops : Pending(d)' /\ effect'[d] # "none" =>
                             net' = (effect'[d] = "on")
    BY DEF SerialInv
  <1>6. \A d \in Ops : Started(d) => reports[d] # <<>>
    BY <1>2, <1>5
  <1>7. \A d \in Ops : Pending(d)' => d = c
    BY <1>2, <1>3, <1>6 DEF Pending
  <1> QED
    BY <1>2, <1>4, <1>7

LEMMA SerialReply ==
  ASSUME IInv, SerialInv, NEW c \in Ops, TorReplies(c)
  PROVE  SerialInv'
  <1>1. /\ Started(c) /\ reports[c] = <<>>
        /\ UNCHANGED <<reports, serial>>
        /\ \/ UNCHANGED <<net, effect>>
           \/ /\ c \in Enables /\ effect[c] = "none"
              /\ net' = TRUE /\ effect' = [effect EXCEPT ![c] = "on"]
           \/ /\ effect[c] = IF c \in Enables THEN "on" ELSE "none"
              /\ net' = FALSE /\ effect' = [effect EXCEPT ![c] = "off"]
    BY ReplyDoes
  <1>2. Asked' = Asked
    BY StaysTor
  <1>3. \A d \in Ops : Pending(d)' <=> Pending(d)
    BY <1>1, <1>2 DEF Asked, Pending
  <1>4. effect \in [Ops -> {"none", "on", "off"}]
    BY Typed DEF IInv
  <1>5. SUFFICES ASSUME serial'
                 PROVE  /\ \A d, e \in Ops : Pending(d)' /\ Pending(e)' => d = e
                        /\ \A d \in Ops : Pending(d)' /\ effect'[d] # "none" =>
                             net' = (effect'[d] = "on")
    BY DEF SerialInv
  <1>6. /\ \A d, e \in Ops : Pending(d) /\ Pending(e) => d = e
        /\ \A d \in Ops : Pending(d) /\ effect[d] # "none" => net = (effect[d] = "on")
    BY <1>1, <1>5 DEF SerialInv
  <1>7. \A d \in Ops : Pending(d)' => d = c
    BY <1>1, <1>3, <1>6 DEF Pending
  <1>8. ASSUME NEW d \in Ops, Pending(d)', effect'[d] # "none"
        PROVE  net' = (effect'[d] = "on")
    <2>1. d = c /\ Pending(d)
      BY <1>3, <1>7, <1>8
    <2>2. CASE UNCHANGED <<net, effect>>
      BY <1>6, <1>8, <2>1, <2>2
    <2>3. CASE net' = TRUE /\ effect' = [effect EXCEPT ![c] = "on"]
      BY <1>4, <2>1, <2>3
    <2>4. CASE net' = FALSE /\ effect' = [effect EXCEPT ![c] = "off"]
      BY <1>4, <2>1, <2>4
    <2> QED
      BY <1>1, <2>2, <2>3, <2>4
  <1> QED
    BY <1>3, <1>6, <1>8

LEMMA SerialTalks ==
  ASSUME IInv, SerialInv, Talks
  PROVE  SerialInv'
  <1>1. Asked' = Asked /\ UNCHANGED <<net, effect, serial>>
    BY DEF Talks
  <1>2. ASSUME NEW d \in Ops, Pending(d)' PROVE Pending(d)
    <2>1. Started(d) /\ reports'[d] = <<>>
      BY <1>1, <1>2 DEF Asked, Pending
    <2>2. CASE reports' = reports
      BY <2>1, <2>2 DEF Pending
    <2>3. ASSUME NEW c \in Ops, Tells(c), reports' # reports PROVE reports[d] = <<>>
      <3>1. PICK status : /\ reports' = [reports EXCEPT ![c] = Append(@, Report(c, status))]
                          /\ status \in Statuses
        BY <2>3 DEF Tells, MayBeTold
      <3>2. /\ Len(reports'[c]) = Len(reports[c]) + 1
            /\ \A e \in Ops : e # c => reports'[e] = reports[e]
        BY <3>1, LastTold
      <3>3. reports[c] \in Seq(Reports)
        BY CallData
      <3>4. d # c
        BY <2>1, <3>2, <3>3
      <3> QED
        BY <2>1, <3>2, <3>4
    <2> QED
      BY <2>1, <2>2, <2>3 DEF Talks, Pending
  <1> QED
    BY <1>1, <1>2 DEF SerialInv

LEMMA SerialNext == IInv /\ SerialInv /\ [Next]_vars => SerialInv'
  BY StepKinds, SerialCall, SerialReply, SerialTalks

\* What a step may tell, if calls do not overlap, is true of tor.
LEMMA TellsNetwork ==
  ASSUME IInv, IInv', SerialInv, [Next]_vars, NEW c \in Ops, serial,
         Len(reports'[c]) > Len(reports[c])
  PROVE  LET status == reports'[c][Len(reports'[c])].status IN
           /\ status = "OK" => net = (c \in Enables)
           /\ status = "GENERIC_ERROR" => c \in Enables /\ ~net
  <1>1. reports[c] \in Seq(Reports)
    BY CallData
  <1>2. reports'[c] # reports[c]
    BY <1>1
  <1>3. \A d \in Ops : Call(d) \/ TorReplies(d) => reports' = reports
    BY DEF Call, TorReplies
  <1>4. Talks
    BY <1>2, <1>3, StepKinds
  <1>5. PICK d \in Ops : Tells(d)
    BY <1>2, <1>4 DEF Talks
  <1>6. PICK status : /\ reports' = [reports EXCEPT ![d] = Append(@, Report(d, status))]
                      /\ MayBeTold(d, status)
    BY <1>2, <1>5 DEF Tells
  <1>7. status \in Statuses
    BY <1>6 DEF MayBeTold
  <1>8. d = c
    BY <1>2, <1>6, <1>7, LastTold
  <1>9. reports'[c][Len(reports'[c])].status = status
    BY <1>6, <1>7, <1>8, LastTold
  <1>10. CASE /\ reports[c] = <<>>
              /\ status = "OK" => effect[c] = IF c \in Enables THEN "on" ELSE "off"
              /\ status = "GENERIC_ERROR" => c \in Enables /\ effect[c] = "off"
    <2>1. Started(c)'
      <3>1. CallInv(c)'
        BY DEF IInv
      <3>2. reports'[c] # <<>>
        BY <1>2, <1>10
      <3> QED
        BY <3>1, <3>2 DEF CallInv, Good, ReportInv, Started
    <2>2. Pending(c)
      BY <1>4, <1>10, <2>1 DEF Talks, Asked, Pending
    <2>3. effect[c] # "none" => net = (effect[c] = "on")
      BY <2>2 DEF SerialInv
    <2>4. ASSUME status = "OK" PROVE net = (c \in Enables)
      <3>1. CASE c \in Enables
        BY <1>10, <2>3, <2>4, <3>1
      <3>2. CASE c \notin Enables
        BY <1>10, <2>3, <2>4, <3>2
      <3> QED
        BY <3>1, <3>2
    <2>5. ASSUME status = "GENERIC_ERROR" PROVE c \in Enables /\ ~net
      BY <1>10, <2>3, <2>5
    <2> QED
      BY <1>9, <2>4, <2>5
  <1>11. CASE status \in LostStatuses
    <2>1. status # "OK" /\ status # "GENERIC_ERROR"
      BY <1>11 DEF LostStatuses
    <2> QED
      BY <1>9, <2>1
  <1> QED
    BY <1>6, <1>8, <1>10, <1>11 DEF MayBeTold

\* Whatever the calls and their timeout: as long as the user waits for one call
\* before it makes the next, OK means that tor has the network that was asked
\* for, and GENERIC_ERROR that it is off again (onion-poller.hpp:88-94, 103-112,
\* 135-136).
THEOREM TellsTruth == Spec => ReportTellsNetwork
  <1>1. IInv /\ IInv' /\ SerialInv /\ [Next]_vars =>
          [\A c \in Ops :
             serial /\ Len(reports'[c]) > Len(reports[c]) =>
                LET status == reports'[c][Len(reports'[c])].status IN
                /\ status = "OK" => net = (c \in Enables)
                /\ status = "GENERIC_ERROR" => c \in Enables /\ ~net]_vars
    BY TellsNetwork
  <1> QED
    BY <1>1, SerialInit, SerialNext, Invariant, PTL DEF Spec, ReportTellsNetwork
-----------------------------------------------------------------------------
(***************************************************************************)
(* There is one command, or one reply, of a call at a time.                *)
(***************************************************************************)

\* The last lines of replies.
Finals(lines) == {i \in 1 .. Len(lines) : lines[i].type = " "}

LEMMA AtMostOne ==
  ASSUME NEW S, NEW p, S \subseteq {p}
  PROVE  Cardinality(S) \in {0, 1}
  <1>1. S = {} \/ S = {p}
    OBVIOUS
  <1> QED
    BY <1>1, FS_EmptySet, FS_Singleton

LEMMA Numbers ==
  /\ \A i \in 1 .. 0 : FALSE
  /\ \A i \in 1 .. 1 : i = 1
  /\ \A i \in 1 .. 2 : i = 1 \/ i = 2
  OBVIOUS

LEMMA NoFinals ==
  ASSUME NEW s \in Seq(Lines), s = <<>> \/ (Len(s) = 1 /\ s[1].type = "-")
  PROVE  Finals(s) = {}
  <1>1. ASSUME NEW i \in 1 .. Len(s), s[i].type = " " PROVE FALSE
    <2>1. CASE s = <<>>
      <3>1. Len(s) = 0
        BY <2>1
      <3>2. i \in 1 .. 0
        BY ONLY <1>1, <3>1, Zenon
      <3> QED
        BY ONLY <3>2, Numbers
    <2>2. CASE Len(s) = 1 /\ s[1].type = "-"
      <3>1. i \in 1 .. 1
        BY ONLY <1>1, <2>2, Zenon
      <3>2. i = 1
        BY ONLY <3>1, Numbers
      <3> QED
        BY ONLY <1>1, <2>2, <3>2
    <2> QED
      BY <2>1, <2>2
  <1> QED
    BY <1>1 DEF Finals

LEMMA OneFinal ==
  ASSUME NEW s \in Seq(Lines), Len(s) = 1 \/ (Len(s) = 2 /\ s[1].type = "-")
  PROVE  \E p : Finals(s) \subseteq {p}
  <1>1. CASE Len(s) = 1
    <2>1. Finals(s) \subseteq {1}
      <3>1. ASSUME NEW i \in 1 .. Len(s) PROVE i = 1
        BY <1>1, <3>1
      <3> QED
        BY <3>1 DEF Finals
    <2> QED
      BY <2>1
  <1>2. CASE Len(s) = 2 /\ s[1].type = "-"
    <2>1. Finals(s) \subseteq {2}
      <3>1. ASSUME NEW i \in 1 .. Len(s), s[i].type = " " PROVE i = 2
        <4>3. i \in 1 .. 2
          BY ONLY <1>2, <3>1, Zenon
        <4>1. i = 1 \/ i = 2
          BY ONLY <4>3, Numbers
        <4>2. i # 1
          BY ONLY <1>2, <3>1
        <4> QED
          BY <4>1, <4>2
      <3> QED
        BY <3>1 DEF Finals
    <2> QED
      BY <2>1
  <1> QED
    BY <1>1, <1>2

LEMMA OneEach ==
  ASSUME NEW i \in Nat, NEW j \in Nat, i + j = 2, i # 0, j # 0
  PROVE  i = 1 /\ j = 1
  OBVIOUS

\* However a reply is split, it has at most one last line.
LEMMA ReplyFinals ==
  ASSUME NEW a \in Seq(Lines), NEW b \in Seq(Lines), NEW cmd, Reply(a \o b, cmd)
  PROVE  \/ Finals(a) = {} /\ \E p : Finals(b) \subseteq {p}
         \/ Finals(b) = {} /\ \E p : Finals(a) \subseteq {p}
  <1> DEFINE s == a \o b
  <1>1. /\ s \in Seq(Lines) /\ Len(s) = Len(a) + Len(b)
        /\ Len(a) \in Nat /\ Len(b) \in Nat
    OBVIOUS
  <1>2. Len(a) > 0 => s[1] = a[1]
    OBVIOUS
  <1>3. Len(a) = 0 => a = <<>>
    OBVIOUS
  <1>4. Len(b) = 0 => b = <<>>
    OBVIOUS
  <1>5. a = <<>> => s = b
    BY EmptyJoin
  <1>6. Len(s) = 0 \/ Len(s) = 1 \/ (Len(s) = 2 /\ s[1].type = "-")
    <2>1. Len(<<>>) = 0
      OBVIOUS
    <2>2. Reply(s, cmd)
      OBVIOUS
    <2> HIDE DEF s
    <2> QED
      BY <2>1, <2>2 DEF Reply
  <1> HIDE DEF s
  <1>7. CASE Len(a) = 0
    <2>1. Finals(a) = {}
      BY <1>3, <1>7, NoFinals
    <2>2. \E p : Finals(b) \subseteq {p}
      <3>1. CASE Len(b) = 0
        BY <1>4, <3>1, NoFinals
      <3>2. CASE Len(b) # 0
        BY <1>1, <1>3, <1>5, <1>6, <1>7, <3>2, OneFinal
      <3> QED
        BY <3>1, <3>2
    <2> QED
      BY <2>1, <2>2
  <1>8. CASE Len(b) = 0 /\ Len(a) # 0
    <2>1. Finals(b) = {}
      BY <1>4, <1>8, NoFinals
    <2>2. Len(a) = 1 \/ (Len(a) = 2 /\ a[1].type = "-")
      BY <1>1, <1>2, <1>6, <1>8
    <2> QED
      BY <2>1, <2>2, OneFinal
  <1>9. CASE Len(a) # 0 /\ Len(b) # 0
    <2>1. Len(a) = 1 /\ Len(b) = 1 /\ a[1].type = "-"
      <3>1. Len(s) = 2 /\ s[1].type = "-"
        <4>1. Len(s) # 0 /\ Len(s) # 1
          BY ONLY <1>1, <1>9
        <4> QED
          BY ONLY <1>6, <4>1
      <3>2. Len(a) = 1 /\ Len(b) = 1
        <4>1. /\ Len(a) + Len(b) = 2 /\ Len(a) # 0 /\ Len(b) # 0
              /\ Len(a) \in Nat /\ Len(b) \in Nat
          BY ONLY <1>1, <1>9, <3>1
        <4> QED
          BY ONLY <4>1, OneEach
      <3>3. s[1] = a[1]
        BY <1>2, <3>2
      <3> QED
        BY <3>1, <3>2, <3>3
    <2>2. Finals(a) = {}
      BY ONLY <2>1, NoFinals, a \in Seq(Lines)
    <2>3. \E p : Finals(b) \subseteq {p}
      BY ONLY <2>1, OneFinal, b \in Seq(Lines)
    <2> QED
      BY <2>2, <2>3
  <1> QED
    BY <1>7, <1>8, <1>9

\* The last lines of what is left of a reply are counted.
LEMMA FinalsCount ==
  ASSUME NEW a \in Seq(Lines), NEW b \in Seq(Lines), NEW cmd, Reply(a \o b, cmd)
  PROVE  /\ Cardinality(Finals(a)) + Cardinality(Finals(b)) \in {0, 1}
         /\ a = <<>> => Cardinality(Finals(a)) = 0
         /\ b = <<>> => Cardinality(Finals(b)) = 0
  <1>1. Cardinality({}) = 0
    BY FS_EmptySet
  <1>2. CASE Finals(a) = {} /\ \E p : Finals(b) \subseteq {p}
    <2>1. Cardinality(Finals(b)) \in {0, 1}
      BY <1>2, AtMostOne
    <2>2. b = <<>> => Cardinality(Finals(b)) = 0
      BY <1>1, NoFinals
    <2> QED
      BY <1>1, <1>2, <2>1, <2>2
  <1>3. CASE Finals(b) = {} /\ \E p : Finals(a) \subseteq {p}
    <2>1. Cardinality(Finals(a)) \in {0, 1}
      BY <1>3, AtMostOne
    <2>2. a = <<>> => Cardinality(Finals(a)) = 0
      BY <1>1, NoFinals
    <2> QED
      BY <1>1, <1>3, <2>1, <2>2
  <1> QED
    BY <1>2, <1>3, ReplyFinals

\* Whatever the calls and their timeout: at most one command of a call is
\* buffered, under way, or answered and not yet read, and none while the call
\* waits for its next poll (onion-ctrl.hpp:587-597, onion-poller.hpp:119-137).
THEOREM OneCommandOnly == Spec => []OneCommandAtATime
  <1>1. IInv => OneCommandAtATime
    <2> SUFFICES ASSUME IInv, NEW c \in Ops
                 PROVE  Len(conn[c].out) + Len(conn[c].sent)
                          + Cardinality(Finals(conn[c].wire))
                          + Cardinality(Finals(conn[c].input))
                        <= IF Polling(c) THEN 0 ELSE 1
      BY DEF OneCommandAtATime, Finals
    <2> DEFINE k == conn[c]
    <2>1. /\ k \in K /\ PipeInv(k, Waits(c), Frame(c))
         /\ ModeInv(k, Waits(c), Frame(c))
      BY CallData DEF Good
    <2> HIDE DEF k
    <2>2. k.input \in Seq(Lines) /\ k.wire \in Seq(Lines)
      BY <2>1, KFields
    <2> DEFINE i == Cardinality(Finals(k.input))
               w == Cardinality(Finals(k.wire))
    <2>3. /\ i + w \in {0, 1}
          /\ k.input = <<>> => i = 0
          /\ k.wire = <<>> => w = 0
      BY <2>1, <2>2, FinalsCount DEF PipeInv
    <2>4. i \in Nat /\ w \in Nat
      <3>1. Finals(k.input) \subseteq 1 .. Len(k.input) /\ Len(k.input) \in Nat
        <4>1. Len(k.input) \in Nat
          BY <2>2
        <4> QED
          BY <4>1 DEF Finals
      <3>2. Finals(k.wire) \subseteq 1 .. Len(k.wire) /\ Len(k.wire) \in Nat
        <4>1. Len(k.wire) \in Nat
          BY <2>2
        <4> QED
          BY <4>1 DEF Finals
      <3>3. IsFiniteSet(1 .. Len(k.input)) /\ IsFiniteSet(1 .. Len(k.wire))
        <4>1. \A n \in Nat : IsFiniteSet(1 .. n)
          BY FS_Interval
        <4> QED
          BY <3>1, <3>2, <4>1
      <3> QED
        BY <3>1, <3>2, <3>3, FS_Subset, FS_CardinalityType
    <2> HIDE DEF i, w
    <2>5. Len(<<>>) = 0
      OBVIOUS
    <2>6. k.sent # <<>> => Len(k.sent) = 1
      <3>1. k.sent # <<>> => k.sent = <<k.cbs.cmd>>
        BY <2>1 DEF PipeInv
      <3>2. Len(<<k.cbs.cmd>>) = 1
        OBVIOUS
      <3> QED
        BY <3>1, <3>2
    <2>7. CASE Polling(c)
      <3>1. Quiet(k)
        BY <2>1, <2>7, PollingWaits DEF PipeInv
      <3>2. Len(k.out) = 0 /\ Len(k.sent) = 0 /\ i = 0 /\ w = 0
        BY <2>3, <2>5, <3>1 DEF Quiet
      <3> QED
        BY <2>7, <3>2 DEF i, w, k
    <2>8. CASE ~Polling(c)
      <3>1. CASE k.out # <<>>
        <4>3. k.cbs.mode \in {"none", "connect", "send", "recv"}
          BY <2>1, KFields
        <4>4. k.cbs.mode = "connect" => k.out = <<>>
          BY <2>1 DEF ModeInv, PipeInv, Quiet
        <4>5. Single(k.out)
          BY <2>1, <3>1, <4>3, <4>4, SingleCommand DEF PipeInv
        <4>1. Len(k.out) = 1 /\ k.sent = <<>> /\ k.wire = <<>> /\ k.input = <<>>
          BY <2>1, <3>1, <4>5 DEF PipeInv, Single
        <4>2. Len(k.out) = 1 /\ Len(k.sent) = 0 /\ i = 0 /\ w = 0
          BY <2>3, <2>5, <4>1
        <4> QED
          BY <2>8, <4>2 DEF i, w, k
      <3>2. CASE k.out = <<>> /\ k.sent # <<>>
        <4>1. k.wire = <<>> /\ k.input = <<>>
          BY <2>1, <3>2 DEF PipeInv
        <4>2. Len(k.out) = 0 /\ Len(k.sent) = 1 /\ i = 0 /\ w = 0
          BY <2>3, <2>5, <2>6, <3>2, <4>1
        <4> QED
          BY <2>8, <4>2 DEF i, w, k
      <3>3. CASE k.out = <<>> /\ k.sent = <<>>
        <4>1. Len(k.out) = 0 /\ Len(k.sent) = 0
          BY <2>5, <3>3
        <4> QED
          BY <2>3, <2>4, <2>8, <4>1 DEF i, w, k
      <3> QED
        BY <3>1, <3>2, <3>3
    <2> QED
      BY <2>7, <2>8
  <1> QED
    BY <1>1, Invariant, PTL
-----------------------------------------------------------------------------
(***************************************************************************)
(* A connection that nobody can use any more is disposed of when the       *)
(* callback that is running returns, and it stays so.                      *)
(***************************************************************************)

Unused(k, w) == k.bev # "null" /\ k.cbs = NoCallbacks /\ w = {}

\* A connection that nobody uses is disposed of, or its callback is running.
Disposed(k, w, f) == Unused(k, w) => f # {} \/ k.bev \in {"ignored", "deleted"}

DisposalInv ==
    /\ \A c \in Ops : Disposed(conn[c], Waits(c), Frame(c))
    /\ \A c \in soon.closed : Closed(c)

LEMMA ClosedUnused ==
  ASSUME NEW c
  PROVE  Closed(c) <=> Unused(conn[c], Waits(c))
  BY PollingWaits DEF Closed, Started, Unused

LEMMA DisposalInit == Init => DisposalInv
  <1> SUFFICES ASSUME Init PROVE DisposalInv
    OBVIOUS
  <1>1. \A c \in Ops : conn[c].bev = "null"
    BY CreateFacts DEF Init
  <1>2. soon.closed = {}
    BY DEF Init, NotSoon
  <1> QED
    BY <1>1, <1>2 DEF DisposalInv, Disposed, Unused

\* A step of one call.
LEMMA DisposalStep ==
  ASSUME IInv, DisposalInv, NEW c \in Ops, NEW x, NEW v, NEW f,
         conn' = [conn EXCEPT ![c] = x], Runs(c, f), soon' = soon,
         WaitsIn(timers', c) = v,
         \A d \in Ops : d # c => WaitsIn(timers', d) = WaitsIn(timers, d),
         Disposed(x, v, f), Unused(conn[c], Waits(c)) => Unused(x, v)
  PROVE  DisposalInv'
  <1>1. conn'[c] = x /\ \A d \in Ops : d # c => conn'[d] = conn[d]
    BY CallData
  <1>2. /\ FrameIn(call', c) = f
        /\ \A d \in Ops : d # c => FrameIn(call', d) = FrameIn(call, d)
    BY RunsFacts DEF IInv
  <1>3. ASSUME NEW d \in Ops PROVE Disposed(conn[d], Waits(d), Frame(d))'
    <2>1. CASE d = c
      BY <1>1, <1>2, <2>1 DEF Waits, Frame
    <2>2. CASE d # c
      <3>1. Disposed(conn[d], WaitsIn(timers, d), FrameIn(call, d))
        BY DEF DisposalInv, Waits, Frame
      <3> QED
        BY <1>1, <1>2, <2>2, <3>1 DEF Waits, Frame
    <2> QED
      BY <2>1, <2>2
  <1>4. ASSUME NEW d \in soon.closed PROVE Closed(d)'
    <2>1. d \in Ops /\ Unused(conn[d], Waits(d))
      BY ClosedUnused DEF DisposalInv, IInv, TypeOK
    <2>2. Unused(conn'[d], WaitsIn(timers', d))
      BY <1>1, <2>1 DEF Waits
    <2>3. Polling(d)' <=> WaitsIn(timers', d) # {}
      BY DEF Polling, WaitsIn
    <2> QED
      BY <2>2, <2>3 DEF Closed, Started, Unused
  <1> QED
    BY <1>3, <1>4 DEF DisposalInv

\* A step that leaves the timers alone and the closures in the slots.
LEMMA DisposalKept ==
  ASSUME IInv, DisposalInv, NEW c \in Ops, NEW x, NEW f,
         conn' = [conn EXCEPT ![c] = x], Runs(c, f), soon' = soon,
         timers' = timers, x.cbs = conn[c].cbs, x.bev # "null",
         \/ f # {}
         \/ x.bev \in {"ignored", "deleted"}
         \/ x.bev = conn[c].bev /\ f = Frame(c)
  PROVE  DisposalInv'
  <1>1. Disposed(conn[c], Waits(c), Frame(c))
    BY DEF DisposalInv
  <1>2. Disposed(x, Waits(c), f)
    BY <1>1 DEF Disposed, Unused
  <1>3. Unused(conn[c], Waits(c)) => Unused(x, Waits(c))
    BY DEF Unused
  <1>4. \A d \in Ops : WaitsIn(timers', d) = WaitsIn(timers, d)
    OBVIOUS
  <1> QED
    BY <1>2, <1>3, <1>4, DisposalStep DEF Waits

\* A step of a call whose connection was in use, and whose callback runs.
LEMMA DisposalUsed ==
  ASSUME IInv, DisposalInv, NEW c \in Ops, NEW x, NEW f,
         conn' = [conn EXCEPT ![c] = x], Runs(c, f), soon' = soon,
         \A d \in Ops : d # c => WaitsIn(timers', d) = WaitsIn(timers, d),
         conn[c].bev = "null" \/ conn[c].cbs # NoCallbacks \/ Waits(c) # {},
         f # {} \/ x.cbs # NoCallbacks
  PROVE  DisposalInv'
  <1> DEFINE v == WaitsIn(timers', c)
  <1>1. Disposed(x, v, f)
    BY DEF Disposed, Unused
  <1>2. ~Unused(conn[c], Waits(c))
    BY DEF Unused
  <1>3. WaitsIn(timers', c) = v
    OBVIOUS
  <1> HIDE DEF v
  <1> QED
    BY <1>1, <1>2, <1>3, DisposalStep

LEMMA DisposalEvent ==
  ASSUME IInv, DisposalInv, NEW c \in Ops, Idle, conn[c].bev \in {"open", "failed"},
         NEW k, k = WriteFailed(conn[c]) \/ k = Lost(conn[c]), NEW status,
         OnEvent(c, k, status), call' = Running(c, NoCmd), soon' = soon
  PROVE  DisposalInv'
  <1>1. k \in K /\ k.bev = conn[c].bev /\ k.cbs = conn[c].cbs
    BY CallData, WriteFailedFacts, LostFacts
  <1>2. \E cmd \in Commands \cup {NoCmd} : call' = Running(c, cmd) /\ {NoCmd} = {cmd}
    OBVIOUS
  <1>3. Runs(c, {NoCmd}) /\ {NoCmd} # {}
    BY <1>2 DEF Runs
  <1>4. CASE k.cbs = NoCallbacks
    <2>1. conn' = [conn EXCEPT ![c] = k] /\ timers' = timers
      BY <1>4 DEF OnEvent
    <2> QED
      BY <1>1, <1>3, <2>1, DisposalKept
  <1>5. CASE k.cbs # NoCallbacks
    <2> DEFINE x == Close(k)
    <2>1. conn' = [conn EXCEPT ![c] = x] /\ timers' = timers
      BY <1>5 DEF OnEvent, Finish
    <2> HIDE DEF x
    <2> QED
      BY <1>1, <1>3, <1>5, <2>1, DisposalUsed
  <1> QED
    BY <1>4, <1>5

LEMMA DisposalLoop ==
  ASSUME IInv, DisposalInv, NEW c \in Ops,
         \/ Established(c)
         \/ ConnectFailed(c)
         \/ Flush(c)
         \/ WriteError(c)
         \/ Read(c)
         \/ \E status \in LostStatuses : ConnLost(c, status)
         \/ DeleteVarp(c)
         \/ \E n \in Polls : Poll(c, n)
  PROVE  DisposalInv'
  <1> DEFINE k == conn[c]
  <1>1. /\ k \in K /\ ModeInv(k, Waits(c), Frame(c))
        /\ k.bev = "connecting" => k.cbs # NoCallbacks
    BY CallData, NoCallbacksFields DEF Good, ModeInv
  <1>2. ASSUME call' = Running(c, NoCmd), Idle PROVE Runs(c, {NoCmd})
    <2>1. \E cmd \in Commands \cup {NoCmd} : call' = Running(c, cmd) /\ {NoCmd} = {cmd}
      BY <1>2
    <2> QED
      BY <1>2, <2>1 DEF Runs
  <1>3. CASE Established(c) \/ ConnectFailed(c)
    <2>1. PICK x : conn' = [conn EXCEPT ![c] = x]
      BY <1>3 DEF Established, ConnectFailed, Finish
    <2>2. /\ k.bev = "connecting" /\ soon' = soon /\ timers' = timers
          /\ call' = Running(c, NoCmd) /\ Idle
      BY <1>3 DEF Established, ConnectFailed, Finish, user
    <2>3. Runs(c, {NoCmd})
      BY <1>2, <2>2
    <2> QED
      BY <1>1, <2>1, <2>2, <2>3, DisposalUsed
  <1>4. CASE Flush(c)
    <2> DEFINE j == Drained(k)
               x == IF j.cbs.mode = "send" THEN Recv(j, j.cbs.cmd) ELSE j
    <2>1. j \in K /\ j.bev = k.bev /\ j.cbs = k.cbs
      BY <1>1, DrainedFacts
    <2>2. /\ conn' = [conn EXCEPT ![c] = x] /\ k.bev = "open"
          /\ soon' = soon /\ timers' = timers
          /\ call' = Running(c, NoCmd) /\ Idle
      BY <1>4 DEF Flush, user
    <2>3. Runs(c, {NoCmd})
      BY <1>2, <2>2
    <2>4. CASE j.cbs.mode = "send"
      <3>1. k.cbs # NoCallbacks
        BY <2>1, <2>4, NoCallbacksFields
      <3> HIDE DEF x
      <3> QED
        BY <2>2, <2>3, <3>1, DisposalUsed
    <2>5. CASE j.cbs.mode # "send"
      <3>1. x = j
        BY <2>5
      <3> HIDE DEF x, j
      <3> QED
        BY <2>1, <2>2, <2>3, <3>1, DisposalKept
    <2> QED
      BY <2>4, <2>5
  <1>5. CASE WriteError(c)
    <2>1. /\ k.bev \in {"open", "failed"} /\ OnEvent(c, WriteFailed(k), "IO_ERROR")
          /\ Idle /\ call' = Running(c, NoCmd) /\ soon' = soon
      BY <1>5 DEF WriteError, CanWrite, user
    <2> QED
      BY <2>1, DisposalEvent
  <1>6. ASSUME NEW status \in LostStatuses, ConnLost(c, status) PROVE DisposalInv'
    <2>1. /\ k.bev \in {"open", "failed"} /\ OnEvent(c, Lost(k), status)
          /\ Idle /\ call' = Running(c, NoCmd) /\ soon' = soon
      BY <1>6 DEF ConnLost, CanRead, user
    <2> QED
      BY <2>1, DisposalEvent
  <1>7. CASE Read(c)
    <2>1. PICK m \in 1 .. Len(k.wire) : conn' = [conn EXCEPT ![c] = Received(@, m)]
      BY <1>7 DEF Read
    <2> DEFINE x == Received(k, m)
               cmd == IF k.cbs.mode = "recv" THEN k.cbs.cmd ELSE NoCmd
    <2>2. x.bev = k.bev /\ x.cbs = k.cbs
      BY <1>1, ReceivedFacts
    <2>3. /\ conn' = [conn EXCEPT ![c] = x] /\ k.bev = "open"
          /\ soon' = soon /\ timers' = timers
          /\ call' = Running(c, cmd) /\ Idle
      BY <1>7, <2>1 DEF Read, CanRead, user
    <2>4. cmd \in Commands \cup {NoCmd}
      BY <1>1, KFields
    <2> HIDE DEF x, cmd
    <2>5. Runs(c, {cmd}) /\ {cmd} # {}
      BY <2>3, <2>4 DEF Runs
    <2> QED
      BY <2>2, <2>3, <2>5, DisposalKept
  <1>8. CASE DeleteVarp(c)
    <2> DEFINE x == Deleted(k)
    <2>1. x.bev = "deleted" /\ x.cbs = k.cbs
      BY <1>1, DeletedFacts
    <2>2. conn' = [conn EXCEPT ![c] = x] /\ soon' = soon /\ timers' = timers
      BY <1>8 DEF DeleteVarp, user
    <2>3. Runs(c, Frame(c))
      BY <1>8 DEF DeleteVarp, Runs
    <2> HIDE DEF x
    <2> QED
      BY <2>1, <2>2, <2>3, DisposalKept
  <1>9. ASSUME NEW n \in Polls, Poll(c, n) PROVE DisposalInv'
    <2> DEFINE x == Send(k, GetInfo(n))
    <2>1. x.cbs # NoCallbacks
      BY <1>1, GetInfoFacts, SendFacts, NoCallbacksFields
    <2>2. Waits(c) # {}
      BY <1>9 DEF Poll, Waits, WaitsIn
    <2>3. conn' = [conn EXCEPT ![c] = x] /\ soon' = soon
      BY <1>9 DEF Poll, user
    <2>4. Runs(c, Frame(c))
      BY <1>9 DEF Poll, Runs
    <2>5. \A d \in Ops : d # c => WaitsIn(timers', d) = WaitsIn(timers, d)
      BY <1>9 DEF Poll, WaitsIn
    <2> HIDE DEF x
    <2> QED
      BY <2>1, <2>2, <2>3, <2>4, <2>5, DisposalUsed
  <1> QED
    BY <1>3, <1>4, <1>5, <1>6, <1>7, <1>8, <1>9

LEMMA DisposalReadLine ==
  ASSUME IInv, DisposalInv, ReadLine
  PROVE  DisposalInv'
  <1>0. PICK c, cmd, line, x :
          /\ c = call.op /\ cmd = call.cmd
          /\ line = Head(conn[c].input) /\ x = Taken(conn[c])
    OBVIOUS
  <1>1. LineStep(c, x, cmd, line)
    BY <1>0, LoopTurn
  <1>2. c \in Ops /\ Frame(c) # {}
    BY <1>1 DEF LineStep
  <1>3. conn[c].cbs # NoCallbacks
    <2>1. conn[c].input # <<>>
      BY <1>0 DEF ReadLine
    <2> QED
      BY <1>2, <2>1, CallData, NoCallbacksFields DEF Good, PipeInv
  <1>4. soon' = soon
    BY DEF ReadLine, user
  <1>5. Runs(c, Frame(c))
    BY <1>1 DEF LineStep, InLoop, Runs
  <1>6. /\ \E y : conn' = [conn EXCEPT ![c] = y]
        /\ timers' = timers \/ \E n : timers' = timers \cup {<<c, n>>}
    <2>1. CASE Keeps(c, x, line)
      BY <2>1 DEF Keeps
    <2>2. CASE Acts(c, x, cmd, line)
      BY <2>2 DEF Acts, Continue, Finish, WaitForCircuit
    <2> QED
      BY <1>1, <2>1, <2>2 DEF LineStep
  <1>7. \A d \in Ops : d # c => WaitsIn(timers', d) = WaitsIn(timers, d)
    BY <1>6 DEF WaitsIn
  <1>8. PICK y : conn' = [conn EXCEPT ![c] = y]
    BY <1>6
  <1> QED
    BY <1>2, <1>3, <1>4, <1>5, <1>7, <1>8, DisposalUsed

LEMMA DisposalReturn ==
  ASSUME IInv, DisposalInv, Return
  PROVE  DisposalInv'
  <1> DEFINE c == call.op
             k == conn[c]
             x == IF Closed(c) THEN Ignored(k) ELSE k
  <1>1. c \in Ops /\ Frame(c) = {call.cmd}
    BY RunningCall DEF Return
  <1>2. k \in K /\ conn \in [Ops -> K]
    BY <1>1, CallData
  <1>3. conn' = [conn EXCEPT ![c] = x] /\ soon' = soon /\ timers' = timers
    BY <1>1, <1>2 DEF Return, user
  <1>4. Runs(c, {})
    BY DEF Return, Runs
  <1>5. CASE Closed(c)
    <2>1. x.bev = "ignored" /\ x.cbs = k.cbs
      BY <1>2, <1>5, IgnoredFacts
    <2> HIDE DEF c, k, x
    <2> QED
      BY <1>1, <1>3, <1>4, <2>1, DisposalKept DEF k
  <1>6. CASE ~Closed(c)
    <2>1. ~Unused(k, Waits(c))
      BY <1>6, ClosedUnused
    <2>2. x = k
      BY <1>6
    <2>3. Disposed(x, Waits(c), {}) /\ WaitsIn(timers', c) = Waits(c)
      BY <1>3, <2>1, <2>2 DEF Disposed, Waits
    <2> HIDE DEF x
    <2> QED
      BY <1>1, <1>3, <1>4, <2>1, <2>3, DisposalStep
  <1> QED
    BY <1>5, <1>6

LEMMA DisposalOthers ==
  ASSUME IInv, DisposalInv, NEW c \in Ops, Call(c) \/ TorReplies(c) \/ TorCloses(c)
  PROVE  DisposalInv'
  <1> DEFINE k == conn[c]
  <1>1. k \in K /\ PipeInv(k, Waits(c), Frame(c))
    BY CallData DEF Good
  <1>2. soon' = soon /\ timers' = timers /\ Runs(c, Frame(c))
    BY DEF Call, TorReplies, TorCloses, user, Runs
  <1>3. CASE Call(c)
    <2> DEFINE x == Connect(k, Authenticate)
    <2>1. x.cbs # NoCallbacks
      BY <1>1, CommandFacts, ConnectFacts, NoCallbacksFields
    <2>2. conn' = [conn EXCEPT ![c] = x] /\ k.bev = "null"
      BY <1>3 DEF Call, Started
    <2> HIDE DEF x
    <2> QED
      BY <1>2, <2>1, <2>2, DisposalUsed
  <1>4. CASE TorReplies(c)
    <2>1. PICK a \in Replies(Head(k.sent)) :
            conn' = [conn EXCEPT ![c] = Served(@, a.lines)]
      BY <1>4 DEF TorReplies
    <2> DEFINE x == Served(k, a.lines)
    <2>2. k.sent # <<>>
      BY <1>4 DEF TorReplies
    <2>3. Head(k.sent) \in Commands
      BY <1>1, <2>2, KFields
    <2>4. a.lines \in Seq(Lines)
      BY <2>3, ReplyFacts
    <2>5. x.bev = k.bev /\ x.cbs = k.cbs
      BY <1>1, <2>2, <2>4, ServedFacts
    <2>6. k.bev # "null"
      BY <1>1, <2>2 DEF PipeInv, Quiet
    <2>7. conn' = [conn EXCEPT ![c] = x]
      BY <2>1
    <2> HIDE DEF x
    <2> QED
      BY <1>2, <2>5, <2>6, <2>7, DisposalKept
  <1>5. CASE TorCloses(c)
    <2> DEFINE x == ClosedByPeer(k)
    <2>1. x.bev = k.bev /\ x.cbs = k.cbs
      BY <1>1, ClosedByPeerFacts
    <2>2. conn' = [conn EXCEPT ![c] = x] /\ k.bev # "null"
      BY <1>5 DEF TorCloses
    <2> HIDE DEF x
    <2> QED
      BY <1>2, <2>1, <2>2, DisposalKept
  <1> QED
    BY <1>3, <1>4, <1>5

\* break_soon counts the connections that are closed.
LEMMA DisposalBreaks ==
  ASSUME IInv, DisposalInv,
         UNCHANGED vars \/ BreakTimer \/ BreakLoop \/ BreakSoon
  PROVE  DisposalInv'
  <1>1. UNCHANGED <<conn, call, timers>>
    BY DEF vars, BreakTimer, BreakLoop, BreakSoon
  <1>2. \A c \in Ops : Disposed(conn[c], Waits(c), Frame(c))'
    BY <1>1 DEF DisposalInv, Waits, Frame
  <1>3. \A c \in soon'.closed : Closed(c)
    <2>1. CASE soon' = soon
      BY <2>1 DEF DisposalInv
    <2>2. CASE BreakSoon
      BY <2>2 DEF BreakSoon
    <2> QED
      BY <2>1, <2>2 DEF vars, BreakTimer, BreakLoop
  <1>4. \A c : Closed(c)' <=> Closed(c)
    BY <1>1 DEF Closed, Started, Polling
  <1> QED
    BY <1>2, <1>3, <1>4 DEF DisposalInv

LEMMA DisposalNext == IInv /\ DisposalInv /\ [Next]_vars => DisposalInv'
  <1> SUFFICES ASSUME IInv, DisposalInv, [Next]_vars PROVE DisposalInv'
    OBVIOUS
  <1>1. ASSUME NEW c \in Ops, EnableTor(c) \/ DisableTor(c) PROVE Call(c)
    BY <1>1 DEF EnableTor, DisableTor
  <1> QED
    BY <1>1, DisposalLoop, DisposalReadLine, DisposalReturn, DisposalOthers,
       DisposalBreaks DEF Next, EventLoop, User, Tor

\* However calls overlap and connections are lost, and whatever the timeout: the
\* connections that were closed when break_soon was called are deleted when its
\* timer leaves the loop (onion-poller.hpp:46-54, libevent.cpp:18-32).
THEOREM Collects == Spec => BreakSoonCollects
  <1>1. IInv /\ DisposalInv /\ [Next]_vars =>
          [BreakTimer => \A c \in soon.closed : conn[c].bev = "deleted"]_vars
    <2> SUFFICES ASSUME IInv, DisposalInv, BreakTimer, NEW c \in soon.closed
                 PROVE  conn[c].bev = "deleted"
      OBVIOUS
    <2>1. c \in Ops
      BY DEF IInv, TypeOK
    <2>2. Frame(c) = {}
      BY <2>1, IdleFrame DEF BreakTimer
    <2>3. Unused(conn[c], Waits(c))
      BY ClosedUnused DEF DisposalInv
    <2>4. conn[c].bev \in {"ignored", "deleted"}
      BY <2>1, <2>2, <2>3 DEF DisposalInv, Disposed
    <2>5. conn[c].bev # "ignored"
      BY DEF BreakTimer, DeleteDelay, BreakDelay
    <2> QED
      BY <2>4, <2>5
  <1> QED
    BY <1>1, DisposalInit, DisposalNext, Invariant, PTL DEF Spec, BreakSoonCollects
=============================================================================
