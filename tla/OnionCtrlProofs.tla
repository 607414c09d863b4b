--------------------------- MODULE OnionCtrlProofs ---------------------------
(***************************************************************************)
(* Proofs about OnionCtrl: for any number of commands and events, with and *)
(* without timeouts, a reply is heard by the command it answers, or by one *)
(* that was given in the wake of an irregular command; a command has one   *)
(* outcome; and no line waits for another to arrive.                       *)
(*                                                                         *)
(* The inductive invariant says of the command in the slots, and of the    *)
(* one whose recv loop is running, what may be on its way: anything that   *)
(* comes after an irregular command, or else the one reply of that command *)
(* (Pipes, Tidies), which is what keeps the properties true.               *)
(***************************************************************************)
EXTENDS OnionCtrl, SequenceTheorems, TLAPS

K == Conns(Commands, Lines)

Entry == [status: Statuses, of: 0 .. MaxCmds, more: BOOLEAN]

Heard == [Numbers -> Seq(Entry)]

Quiet(k) == k.out = <<>> /\ k.sent = <<>> /\ k.wire = <<>> /\ k.input = <<>>

InUse(k) == k.cbs.mode \in {"send", "recv"}

(***************************************************************************)
(* Which commands went wrong: ks are the kinds of the commands, h what     *)
(* their callbacks heard.                                                  *)
(***************************************************************************)

\* The irregular commands.
BadIn(ks, h) ==
    {n \in 1 .. Len(ks) :
       \/ ks[n] = "events"
       \/ \E i \in 1 .. Len(h[n]) :
            h[n][i].status = "TIMEOUT_ERROR" \/ h[n][i].more}

\* Those that are irregular for more than a timeout.
OddIn(ks, h) ==
    {n \in 1 .. Len(ks) :
       ks[n] = "events" \/ \E i \in 1 .. Len(h[n]) : h[n][i].more}

Bad == BadIn(kinds, heard)

Odd == OddIn(kinds, heard)

\* What belongs to command j may come when command n is served.
Near(B, j, n) == j = n \/ (j < n /\ \E m \in B : m <= j)

\* Command n follows regular commands only, and is no worse than late.
Orderly(B, O, n) == n \notin O /\ \A m \in B : m >= n

\* A callback that heard this was told of more than timeouts.
Told(r) == \E i \in 1 .. Len(r) : r[i].status # "TIMEOUT_ERROR"

Ends(line) == line.type = " "

Final(line) == Ends(line) /\ line.code \in {"250", "552", "515"}

\* What may be left of a reply to this command before the callback hears of a
\* line that is not the last.
Reply(lines, cmd) ==
    /\ \A i \in 1 .. Len(lines) : lines[i].of = cmd.n
    /\ \/ lines = <<>>
       \/ Len(lines) = 1 /\ Final(lines[1])
       \/ /\ Len(lines) = 2
          /\ lines[1].code = "250" /\ lines[1].type = "-"
          /\ Final(lines[2])
       \/ /\ Len(lines) = 4
          /\ lines[1].code = "250" /\ lines[1].type = "+"

(***************************************************************************)
(* The parts of the invariant: k is the connection, a the command whose    *)
(* recv loop is running, s the subscription, cl that the client closed, B  *)
(* and O the commands that went wrong.                                     *)
(***************************************************************************)

\* Slots, and what there can be before the connection is established.
Modes(k, s, cl) ==
    /\ cl => k.cbs.mode = "none"
    /\ k.cbs.mode = "none" => k.cbs.cmd = NoCmd
    /\ k.cbs.mode = "connect" => k.bev = "connecting"
    /\ InUse(k) => k.bev \in {"open", "failed"}
    /\ k.bev = "null" => k.cbs.mode = "none" /\ ~cl
    /\ k.bev \in {"null", "connecting"} =>
         Quiet(k) /\ ~k.reads /\ ~k.fin /\ s = 0
    /\ k.fin => k.sent = <<>>

IsGiven(cmd, ks) == cmd.n \in 1 .. Len(ks) /\ cmd.kind = ks[cmd.n]

\* The slots and the loop work for commands that the client gave.
Numbered(k, a, cl, ks) ==
    /\ k.cbs.mode # "none" => IsGiven(k.cbs.cmd, ks)
    /\ a # NoCmd =>
         /\ IsGiven(a, ks)
         /\ cl \/ InUse(k)
         /\ k.cbs.mode # "none" => a.n <= k.cbs.cmd.n

\* The client waits for one command before it gives the next.
Answered(k, cl, ks, h) ==
    /\ \A n \in 1 .. Len(ks) : n < Len(ks) => h[n] # <<>> \/ ks[n] = "events"
    /\ \A n \in Numbers : n > Len(ks) => h[n] = <<>>
    /\ k.cbs.mode = "connect" => h[k.cbs.cmd.n] = <<>>
    /\ \A n \in 1 .. Len(ks) :
         ks[n] = "auth" /\ h[n] # <<>> /\ h[n][1].status = "OK" => cl \/ InUse(k)

AllGiven(cmds, ks, B, n) ==
    \A i \in 1 .. Len(cmds) : IsGiven(cmds[i], ks) /\ Near(B, cmds[i].n, n)

AllNear(lines, B, n) == \A i \in 1 .. Len(lines) : Near(B, lines[i].of, n)

\* What is on its way belongs to the command that will get it, or follows an
\* irregular one.
Pipes(k, a, s, B, O, ks) ==
    /\ k.cbs.mode # "none" =>
         /\ AllGiven(k.sent, ks, B, k.cbs.cmd.n)
         /\ ~k.fin => AllGiven(k.out, ks, B, k.cbs.cmd.n)
         /\ AllNear(k.wire, B, k.cbs.cmd.n)
         /\ a = NoCmd => AllNear(k.input, B, k.cbs.cmd.n)
         /\ s # 0 => s \in O /\ s <= k.cbs.cmd.n
    /\ a # NoCmd => AllNear(k.input, B, a.n)

One(b) == IF b THEN 1 ELSE 0

Replied(k) == k.input # <<>> \/ k.wire # <<>>

\* The one reply of a command, whose callback heard r.
Tidy(k, cmd, r) ==
    /\ Reply(k.input \o k.wire, cmd)
    /\ Told(r) => k.input = <<>> /\ k.wire = <<>>
    /\ Len(r) + One(Replied(k)) <= 3

\* How often the callback in the slots may still be called.
Chances(k) ==
    One(k.reads) + One(k.cbs.mode = "send" /\ k.writes)
      + One(k.cbs.mode = "send" \/ k.sent # <<>> \/ Replied(k))

\* The command in the slots, or its reply, is the only one.
Current(k, a, r) ==
    /\ Tidy(k, k.cbs.cmd, r)
    /\ k.cbs.mode = "send" =>
         /\ k.sent = <<>> /\ k.wire = <<>> /\ k.input = <<>>
         /\ k.fin \/ k.out = <<k.cbs.cmd>>
    /\ k.cbs.mode = "recv" =>
         /\ k.out = <<>>
         /\ k.sent # <<>> =>
              k.sent = <<k.cbs.cmd>> /\ k.wire = <<>> /\ k.input = <<>>
         /\ a = NoCmd => k.input = <<>>
    /\ Told(r) => k.sent = <<>> /\ (k.cbs.mode = "send" => k.fin)
    /\ Len(r) + Chances(k) <= 3

Tidies(k, a, B, O, h) ==
    /\ k.cbs.mode # "none" /\ Orderly(B, O, k.cbs.cmd.n) =>
         Current(k, a, h[k.cbs.cmd.n])
    /\ a # NoCmd /\ Orderly(B, O, a.n) => Tidy(k, a, h[a.n])

\* What was heard was near.
Attributed(B, ks, h) ==
    \A n \in 1 .. Len(ks) : \A i \in 1 .. Len(h[n]) :
      h[n][i].of = 0 \/ Near(B, h[n][i].of, n)

\* Orderly commands have had at most one reply, before all but timeouts.
Ended(r) ==
    /\ Len(r) <= 3
    /\ \A j \in 1 .. Len(r) : r[j].of # 0 =>
         \A i \in 1 .. j - 1 : r[i].status = "TIMEOUT_ERROR"

AllEnded(B, O, ks, h) ==
    \A n \in 1 .. Len(ks) : Orderly(B, O, n) => Ended(h[n])

Good(k, a, s, cl, B, O, ks, h) ==
    /\ Modes(k, s, cl)
    /\ Numbered(k, a, cl, ks)
    /\ Answered(k, cl, ks, h)
    /\ Pipes(k, a, s, B, O, ks)
    /\ Tidies(k, a, B, O, h)

IInv ==
    /\ TypeOK
    /\ Good(conn, call.cmd, subscribed, closed, Bad, Odd, kinds, heard)
    /\ Attributed(Bad, kinds, heard)
    /\ AllEnded(Bad, Odd, kinds, heard)
-----------------------------------------------------------------------------
(***************************************************************************)
(* What the operators of CtrlConn return, field by field.                  *)
(***************************************************************************)

\* What the timeout of reads, an event of tor and the loop of recv() make of a
\* connection.
ReadStopped(k) == [k EXCEPT !.reads = FALSE]

Reported(k, line) == [k EXCEPT !.wire = Append(@, line)]

Taken(k) == [k EXCEPT !.input = Tail(@)]

LEMMA KFields ==
  ASSUME NEW k \in K
  PROVE  /\ k.bev \in BevStates
         /\ k.reads \in BOOLEAN /\ k.writes \in BOOLEAN /\ k.fin \in BOOLEAN
         /\ k.cbs \in [mode: {"none", "connect", "send", "recv"},
                       cmd: Commands \cup {NoCmd}]
         /\ k.cbs.mode \in {"none", "connect", "send", "recv"}
         /\ k.cbs.cmd \in Commands \cup {NoCmd}
         /\ k.out \in Seq(Commands) /\ k.sent \in Seq(Commands)
         /\ k.wire \in Seq(Lines) /\ k.input \in Seq(Lines)
  BY DEF K, Conns

LEMMA NoCallbacksFields ==
  ASSUME NEW k \in K
  PROVE  k.cbs = NoCallbacks <=> k.cbs.mode = "none" /\ k.cbs.cmd = NoCmd
  BY KFields DEF NoCallbacks, Callbacks

LEMMA CreateFacts ==
  /\ Create \in K
  /\ Create.bev = "null" /\ Create.cbs.mode = "none" /\ Create.cbs.cmd = NoCmd
  /\ Quiet(Create) /\ Create.fin = FALSE /\ Create.reads = FALSE
  <1>1. Create.cbs = NoCallbacks
    BY DEF Create
  <1>2. NoCallbacks = [mode |-> "none", cmd |-> NoCmd]
    BY DEF NoCallbacks, Callbacks
  <1>3. <<>> \in Seq(Commands) /\ <<>> \in Seq(Lines)
    OBVIOUS
  <1>4. Create \in K
    BY <1>2, <1>3 DEF Create, K, Conns, BevStates
  <1> QED
    BY <1>1, <1>2, <1>4 DEF Create, Quiet

LEMMA ConnectFacts ==
  ASSUME NEW k \in K, NEW cmd \in Commands,
         NEW x, x = Connect(k, cmd)
  PROVE  /\ x \in K
         /\ x.bev = "connecting" /\ x.cbs.mode = "connect" /\ x.cbs.cmd = cmd
         /\ x.reads = k.reads /\ x.writes /\ x.fin = k.fin
         /\ x.out = k.out /\ x.sent = k.sent
         /\ x.wire = k.wire /\ x.input = k.input
  BY DEF Connect, K, Conns, BevStates, Callbacks

LEMMA SendFacts ==
  ASSUME NEW k \in K, NEW cmd \in Commands,
         NEW x, x = Send(k, cmd)
  PROVE  /\ x \in K
         /\ x.bev = k.bev /\ x.cbs.mode = "send" /\ x.cbs.cmd = cmd
         /\ x.reads = k.reads /\ x.writes = k.writes /\ x.fin = k.fin
         /\ x.out = Append(k.out, cmd) /\ x.sent = k.sent
         /\ x.wire = k.wire /\ x.input = k.input
  <1>1. k.out \in Seq(Commands) /\ Append(k.out, cmd) \in Seq(Commands)
    BY KFields
  <1> QED
    BY <1>1 DEF Send, K, Conns, Callbacks

LEMMA RecvFacts ==
  ASSUME NEW k \in K, NEW cmd \in Commands,
         NEW x, x = Recv(k, cmd)
  PROVE  /\ x \in K
         /\ x.bev = k.bev /\ x.cbs.mode = "recv" /\ x.cbs.cmd = cmd
         /\ x.reads /\ x.writes = k.writes /\ x.fin = k.fin
         /\ x.out = k.out /\ x.sent = k.sent
         /\ x.wire = k.wire /\ x.input = k.input
  BY DEF Recv, K, Conns, Callbacks

LEMMA CloseFacts ==
  ASSUME NEW k \in K, NEW x, x = Close(k)
  PROVE  /\ x \in K
         /\ x.bev = k.bev /\ x.cbs.mode = "none" /\ x.cbs.cmd = NoCmd
         /\ x.reads = k.reads /\ x.writes = k.writes /\ x.fin = k.fin
         /\ x.out = k.out /\ x.sent = k.sent
         /\ x.wire = k.wire /\ x.input = k.input
  BY DEF Close, K, Conns, NoCallbacks, Callbacks

LEMMA ConnectedFacts ==
  ASSUME NEW k \in K, NEW x, x = Connected(k)
  PROVE  /\ x \in K
         /\ x.bev = "open" /\ x.cbs = k.cbs
         /\ x.reads = k.reads /\ x.writes = k.writes /\ x.fin = k.fin
         /\ x.out = k.out /\ x.sent = k.sent
         /\ x.wire = k.wire /\ x.input = k.input
  BY DEF Connected, K, Conns, BevStates

LEMMA RefusedFacts ==
  ASSUME NEW k \in K, NEW x, x = Refused(k)
  PROVE  /\ x \in K
         /\ x.bev = "failed" /\ x.cbs = k.cbs
         /\ x.reads = k.reads /\ x.writes = k.writes /\ x.fin
         /\ x.out = k.out /\ x.sent = k.sent
         /\ x.wire = k.wire /\ x.input = k.input
  BY DEF Refused, K, Conns, BevStates

LEMMA DrainedFacts ==
  ASSUME NEW k \in K, NEW x, x = Drained(k)
  PROVE  /\ x \in K
         /\ x.bev = k.bev /\ x.cbs = k.cbs
         /\ x.reads = k.reads /\ x.writes = k.writes /\ x.fin = k.fin
         /\ x.out = <<>> /\ x.sent = (IF k.fin THEN k.sent ELSE k.sent \o k.out)
         /\ x.wire = k.wire /\ x.input = k.input
  <1>1. k.out \in Seq(Commands) /\ k.sent \in Seq(Commands)
       /\ k.sent \o k.out \in Seq(Commands) /\ <<>> \in Seq(Commands)
    BY KFields
  <1> QED
    BY <1>1 DEF Drained, K, Conns

LEMMA WriteFailedFacts ==
  ASSUME NEW k \in K, NEW x, x = WriteFailed(k)
  PROVE  /\ x \in K
         /\ x.bev = k.bev /\ x.cbs = k.cbs
         /\ x.reads = k.reads /\ ~x.writes /\ x.fin = k.fin
         /\ x.out = k.out /\ x.sent = k.sent
         /\ x.wire = k.wire /\ x.input = k.input
  BY DEF WriteFailed, K, Conns

LEMMA ReadStoppedFacts ==
  ASSUME NEW k \in K, NEW x, x = ReadStopped(k)
  PROVE  /\ x \in K
         /\ x.bev = k.bev /\ x.cbs = k.cbs
         /\ ~x.reads /\ x.writes = k.writes /\ x.fin = k.fin
         /\ x.out = k.out /\ x.sent = k.sent
         /\ x.wire = k.wire /\ x.input = k.input
  BY DEF ReadStopped, K, Conns

LEMMA ReceivedFacts ==
  ASSUME NEW k \in K, NEW n \in 1 .. Len(k.wire),
         NEW x, x = Received(k, n)
  PROVE  /\ x \in K
         /\ x.bev = k.bev /\ x.cbs = k.cbs
         /\ x.reads = k.reads /\ x.writes = k.writes /\ x.fin = k.fin
         /\ x.out = k.out /\ x.sent = k.sent
         /\ x.wire = SubSeq(k.wire, n + 1, Len(k.wire)) /\ x.input = k.input \o SubSeq(k.wire, 1, n)
  <1>1. k.wire \in Seq(Lines) /\ k.input \in Seq(Lines)
    BY KFields
  <1>2. SubSeq(k.wire, n + 1, Len(k.wire)) \in Seq(Lines)
    BY <1>1
  <1>3. k.input \o SubSeq(k.wire, 1, n) \in Seq(Lines)
    BY <1>1
  <1> QED
    BY <1>1, <1>2, <1>3 DEF Received, K, Conns

LEMMA LostFacts ==
  ASSUME NEW k \in K, NEW x, x = Lost(k)
  PROVE  /\ x \in K
         /\ x.bev = k.bev /\ x.cbs = k.cbs
         /\ ~x.reads /\ x.writes = k.writes /\ x.fin = k.fin
         /\ x.out = k.out /\ x.sent = k.sent
         /\ x.wire = <<>> /\ x.input = k.input
  <1>1. <<>> \in Seq(Lines)
    OBVIOUS
  <1> QED
    BY <1>1 DEF Lost, K, Conns

LEMMA IgnoredFacts ==
  ASSUME NEW k \in K, NEW x, x = Ignored(k)
  PROVE  /\ x \in K
         /\ x.bev = "ignored" /\ x.cbs = k.cbs
         /\ ~x.reads /\ ~x.writes /\ x.fin = k.fin
         /\ x.out = k.out /\ x.sent = k.sent
         /\ x.wire = k.wire /\ x.input = k.input
  BY DEF Ignored, K, Conns, BevStates

LEMMA DeletedFacts ==
  ASSUME NEW k \in K, NEW x, x = Deleted(k)
  PROVE  /\ x \in K
         /\ x.bev = "deleted" /\ x.cbs = k.cbs
         /\ x.reads = k.reads /\ x.writes = k.writes /\ x.fin = k.fin
         /\ x.out = <<>> /\ x.sent = k.sent
         /\ x.wire = k.wire /\ x.input = <<>>
  <1>1. <<>> \in Seq(Commands) /\ <<>> \in Seq(Lines)
    OBVIOUS
  <1> QED
    BY <1>1 DEF Deleted, K, Conns, BevStates

LEMMA ServedFacts ==
  ASSUME NEW k \in K, NEW lines \in Seq(Lines), k.sent # <<>>,
         NEW x, x = Served(k, lines)
  PROVE  /\ x \in K
         /\ x.bev = k.bev /\ x.cbs = k.cbs
         /\ x.reads = k.reads /\ x.writes = k.writes /\ x.fin = k.fin
         /\ x.out = k.out /\ x.sent = Tail(k.sent)
         /\ x.wire = k.wire \o lines /\ x.input = k.input
  <1>1. k.sent \in Seq(Commands) /\ k.wire \in Seq(Lines)
    BY KFields
  <1>2. Tail(k.sent) \in Seq(Commands) /\ k.wire \o lines \in Seq(Lines)
    BY <1>1
  <1> QED
    BY <1>1, <1>2 DEF Served, K, Conns

LEMMA ReportedFacts ==
  ASSUME NEW k \in K, NEW line \in Lines,
         NEW x, x = Reported(k, line)
  PROVE  /\ x \in K
         /\ x.bev = k.bev /\ x.cbs = k.cbs
         /\ x.reads = k.reads /\ x.writes = k.writes /\ x.fin = k.fin
         /\ x.out = k.out /\ x.sent = k.sent
         /\ x.wire = Append(k.wire, line) /\ x.input = k.input
  <1>1. k.wire \in Seq(Lines) /\ Append(k.wire, line) \in Seq(Lines)
    BY KFields
  <1> QED
    BY <1>1 DEF Reported, K, Conns

LEMMA ClosedByPeerFacts ==
  ASSUME NEW k \in K, NEW x, x = ClosedByPeer(k)
  PROVE  /\ x \in K
         /\ x.bev = k.bev /\ x.cbs = k.cbs
         /\ x.reads = k.reads /\ x.writes = k.writes /\ x.fin
         /\ x.out = k.out /\ x.sent = <<>>
         /\ x.wire = k.wire /\ x.input = k.input
  <1>1. <<>> \in Seq(Commands)
    OBVIOUS
  <1> QED
    BY <1>1 DEF ClosedByPeer, K, Conns

LEMMA TakenFacts ==
  ASSUME NEW k \in K, k.input # <<>>,
         NEW x, x = Taken(k)
  PROVE  /\ x \in K
         /\ x.bev = k.bev /\ x.cbs = k.cbs
         /\ x.reads = k.reads /\ x.writes = k.writes /\ x.fin = k.fin
         /\ x.out = k.out /\ x.sent = k.sent
         /\ x.wire = k.wire /\ x.input = Tail(k.input)
  <1>1. k.input \in Seq(Lines)
    BY KFields
  <1>2. Tail(k.input) \in Seq(Lines)
    BY <1>1
  <1> QED
    BY <1>1, <1>2 DEF Taken, K, Conns

-----------------------------------------------------------------------------
(***************************************************************************)
(* Irregular and orderly commands.                                         *)
(***************************************************************************)

LEMMA NearMore ==
  ASSUME NEW B, NEW C, B \subseteq C, NEW j, NEW n, Near(B, j, n)
  PROVE  Near(C, j, n)
  BY DEF Near

LEMMA NearLater ==
  ASSUME NEW B, NEW j \in Int, NEW n \in Int, NEW m \in Int, Near(B, j, n),
         n < m, B \subseteq Int, \E b \in B : b <= n
  PROVE  Near(B, j, m)
  <1>1. CASE j = n
    BY <1>1 DEF Near
  <1>2. CASE j < n /\ \E b \in B : b <= j
    BY <1>2 DEF Near
  <1> QED
    BY <1>1, <1>2 DEF Near

LEMMA OrderlyLess ==
  ASSUME NEW B, NEW C, NEW O, NEW P, B \subseteq C, O \subseteq P, NEW n,
         Orderly(C, P, n)
  PROVE  Orderly(B, O, n)
  BY DEF Orderly

LEMMA AllNearMore ==
  ASSUME NEW B, NEW C, B \subseteq C, NEW lines, NEW n, AllNear(lines, B, n)
  PROVE  AllNear(lines, C, n)
  BY NearMore DEF AllNear

LEMMA AllGivenMore ==
  ASSUME NEW B, NEW C, B \subseteq C, NEW ks, NEW cmds, NEW n,
         AllGiven(cmds, ks, B, n)
  PROVE  AllGiven(cmds, ks, C, n)
  BY NearMore DEF AllGiven

LEMMA NothingNear ==
  ASSUME NEW B, NEW ks, NEW n
  PROVE  AllNear(<<>>, B, n) /\ AllGiven(<<>>, ks, B, n)
  <1>1. \A i \in 1 .. Len(<<>>) : FALSE
    OBVIOUS
  <1> QED
    BY <1>1 DEF AllNear, AllGiven

LEMMA WentWrong ==
  ASSUME NEW ks \in Seq(Kinds), NEW h
  PROVE  /\ OddIn(ks, h) \subseteq BadIn(ks, h)
         /\ BadIn(ks, h) \subseteq 1 .. Len(ks)
         /\ \A n \in 1 .. Len(ks) :
              ~Orderly(BadIn(ks, h), OddIn(ks, h), n) =>
                \E m \in BadIn(ks, h) : m <= n
         /\ \A n \in 1 .. Len(ks) : ks[n] = "events" => n \in OddIn(ks, h)
  <1>1. OddIn(ks, h) \subseteq BadIn(ks, h)
    BY DEF OddIn, BadIn
  <1>2. BadIn(ks, h) \subseteq 1 .. Len(ks)
    BY DEF BadIn
  <1>3. ASSUME NEW n \in 1 .. Len(ks), ~Orderly(BadIn(ks, h), OddIn(ks, h), n)
        PROVE  \E m \in BadIn(ks, h) : m <= n
    <2>1. CASE n \in OddIn(ks, h)
      <3>1. n <= n
        BY Len(ks) \in Nat
      <3> QED
        BY <1>1, <2>1, <3>1
    <2>2. CASE \E m \in BadIn(ks, h) : ~(m >= n)
      <3>1. PICK m \in BadIn(ks, h) : ~(m >= n)
        BY <2>2
      <3>2. m <= n
        BY <1>2, <3>1
      <3> QED
        BY <3>1, <3>2
    <2> QED
      BY <1>3, <2>1, <2>2 DEF Orderly
  <1>4. \A n \in 1 .. Len(ks) : ks[n] = "events" => n \in OddIn(ks, h)
    BY DEF OddIn
  <1> QED
    BY <1>1, <1>2, <1>3, <1>4

\* The callback of command n hears one thing more.
Hears(h, n, e) == [h EXCEPT ![n] = Append(@, e)]

LEMMA Appended ==
  ASSUME NEW S, NEW r \in Seq(S), NEW e \in S
  PROVE  /\ Append(r, e) \in Seq(S) /\ Len(Append(r, e)) = Len(r) + 1
         /\ Append(r, e)[Len(r) + 1] = e
         /\ \A i \in 1 .. Len(r) : Append(r, e)[i] = r[i]
         /\ \A i \in 1 .. Len(Append(r, e)) :
              i \in 1 .. Len(r) \/ i = Len(r) + 1
         /\ Append(r, e) # <<>>
         /\ Len(r) \in Nat
  <1>1. /\ Append(r, e) \in Seq(S) /\ Len(Append(r, e)) = Len(r) + 1
        /\ Append(r, e)[Len(r) + 1] = e
        /\ Len(r) \in Nat
    OBVIOUS
  <1>2. \A i \in 1 .. Len(r) : Append(r, e)[i] = r[i]
    OBVIOUS
  <1>3. \A i \in 1 .. Len(Append(r, e)) : i \in 1 .. Len(r) \/ i = Len(r) + 1
    BY <1>1
  <1>4. Append(r, e) # <<>>
    <2>1. Len(<<>>) = 0
      OBVIOUS
    <2> QED
      BY <1>1, <2>1
  <1> QED
    BY <1>1, <1>2, <1>3, <1>4

LEMMA ToldMore ==
  ASSUME NEW r \in Seq(Entry), NEW e \in Entry
  PROVE  Told(Append(r, e)) <=> Told(r) \/ e.status # "TIMEOUT_ERROR"
  <1> DEFINE g == Append(r, e)
  <1>1. /\ Len(g) = Len(r) + 1 /\ g[Len(r) + 1] = e
        /\ \A i \in 1 .. Len(r) : g[i] = r[i]
        /\ \A i \in 1 .. Len(g) : i \in 1 .. Len(r) \/ i = Len(r) + 1
        /\ Len(r) \in Nat
    BY Appended
  <1> HIDE DEF g
  <1>2. 1 .. Len(r) \subseteq 1 .. Len(g) /\ Len(r) + 1 \in 1 .. Len(g)
    BY <1>1
  <1> QED
    BY <1>1, <1>2 DEF Told, g

LEMMA HearSets ==
  ASSUME NEW ks \in Seq(Kinds), Len(ks) <= MaxCmds, NEW h \in Heard,
         NEW n \in 1 .. Len(ks), NEW e \in Entry, NEW g, g = Hears(h, n, e)
  PROVE  /\ g \in Heard /\ g[n] = Append(h[n], e) /\ h[n] \in Seq(Entry)
         /\ \A m \in Numbers : m # n => g[m] = h[m]
         /\ BadIn(ks, h) \subseteq BadIn(ks, g)
         /\ OddIn(ks, h) \subseteq OddIn(ks, g)
         /\ e.more => n \in OddIn(ks, g)
  <1>1. /\ n \in Numbers /\ h[n] \in Seq(Entry) /\ 1 .. Len(ks) \subseteq Numbers
    BY BoundsAssumption DEF Numbers, Heard
  <1>2. Append(h[n], e) \in Seq(Entry)
    BY <1>1
  <1>3. /\ g \in Heard /\ g[n] = Append(h[n], e)
        /\ \A m \in Numbers : m # n => g[m] = h[m]
    BY <1>1, <1>2 DEF Hears, Heard
  <1>4. /\ Len(g[n]) = Len(h[n]) + 1 /\ Len(h[n]) \in Nat
        /\ g[n][Len(h[n]) + 1] = e
        /\ \A i \in 1 .. Len(h[n]) : g[n][i] = h[n][i]
    BY <1>1, <1>3, Appended
  <1>5. 1 .. Len(h[n]) \subseteq 1 .. Len(g[n]) /\ Len(h[n]) + 1 \in 1 .. Len(g[n])
    BY <1>4
  <1>6. \A m \in 1 .. Len(ks) : \A i \in 1 .. Len(h[m]) :
          i \in 1 .. Len(g[m]) /\ g[m][i] = h[m][i]
    BY <1>1, <1>3, <1>4, <1>5
  <1>7. BadIn(ks, h) \subseteq BadIn(ks, g)
    BY <1>6 DEF BadIn
  <1>8. OddIn(ks, h) \subseteq OddIn(ks, g)
    BY <1>6 DEF OddIn
  <1>9. e.more => n \in OddIn(ks, g)
    BY <1>4, <1>5 DEF OddIn
  <1> QED
    BY <1>1, <1>3, <1>7, <1>8, <1>9

LEMMA GiveSets ==
  ASSUME NEW ks \in Seq(Kinds), NEW kind \in Kinds, NEW h,
         NEW js, js = Append(ks, kind)
  PROVE  /\ js \in Seq(Kinds) /\ Len(js) = Len(ks) + 1
         /\ js[Len(ks) + 1] = kind
         /\ \A m \in 1 .. Len(ks) : m \in 1 .. Len(js) /\ js[m] = ks[m]
         /\ \A m \in 1 .. Len(js) : m \in 1 .. Len(ks) \/ m = Len(ks) + 1
         /\ BadIn(ks, h) \subseteq BadIn(js, h)
         /\ OddIn(ks, h) \subseteq OddIn(js, h)
  <1>1. /\ js \in Seq(Kinds) /\ Len(js) = Len(ks) + 1
        /\ js[Len(ks) + 1] = kind
        /\ \A m \in 1 .. Len(ks) : js[m] = ks[m]
        /\ \A m \in 1 .. Len(js) : m \in 1 .. Len(ks) \/ m = Len(ks) + 1
        /\ Len(ks) \in Nat
    BY Appended
  <1>2. \A m \in 1 .. Len(ks) : m \in 1 .. Len(js)
    BY <1>1
  <1> QED
    BY <1>1, <1>2 DEF BadIn, OddIn
-----------------------------------------------------------------------------
(***************************************************************************)
(* What was heard.                                                         *)
(***************************************************************************)

LEMMA HearAttributed ==
  ASSUME NEW ks \in Seq(Kinds), Len(ks) <= MaxCmds, NEW h \in Heard,
         NEW n \in 1 .. Len(ks), NEW e \in Entry, NEW g, g = Hears(h, n, e),
         Attributed(BadIn(ks, h), ks, h),
         e.of = 0 \/ Near(BadIn(ks, h), e.of, n)
  PROVE  Attributed(BadIn(ks, g), ks, g)
  <1> DEFINE B == BadIn(ks, h)
             C == BadIn(ks, g)
  <1>1. /\ g[n] = Append(h[n], e) /\ h[n] \in Seq(Entry)
        /\ \A m \in Numbers : m # n => g[m] = h[m]
        /\ B \subseteq C
    <2>1. /\ ks \in Seq(Kinds) /\ Len(ks) <= MaxCmds /\ h \in Heard
          /\ n \in 1 .. Len(ks) /\ e \in Entry /\ g = Hears(h, n, e)
      OBVIOUS
    <2> QED
      BY ONLY <2>1, HearSets
  <1> HIDE DEF B, C
  <1>2. 1 .. Len(ks) \subseteq Numbers
    BY BoundsAssumption DEF Numbers
  <1>3. SUFFICES ASSUME NEW m \in 1 .. Len(ks), NEW i \in 1 .. Len(g[m])
                 PROVE  g[m][i].of = 0 \/ Near(C, g[m][i].of, m)
    BY DEF Attributed, C
  <1>4. CASE i \in 1 .. Len(h[m]) /\ g[m][i] = h[m][i]
    <2>1. h[m][i].of = 0 \/ Near(B, h[m][i].of, m)
      BY <1>4 DEF Attributed, B
    <2> QED
      BY <1>1, <1>4, <2>1, NearMore
  <1>5. CASE m = n /\ g[m][i] = e
    <2>1. e.of = 0 \/ Near(B, e.of, n)
      BY DEF B
    <2> QED
      BY <1>1, <1>5, <2>1, NearMore
  <1>6. \/ i \in 1 .. Len(h[m]) /\ g[m][i] = h[m][i]
        \/ m = n /\ g[m][i] = e
    <2>1. CASE m = n
      <3>1. /\ h[n] \in Seq(Entry) /\ e \in Entry
            /\ g[m] = Append(h[n], e) /\ i \in 1 .. Len(g[m])
        BY <1>1, <2>1
      <3> QED
        BY ONLY <2>1, <3>1, Appended
    <2>2. CASE m # n
      BY <1>1, <1>2, <2>2
    <2> QED
      BY <2>1, <2>2
  <1> QED
    BY <1>4, <1>5, <1>6

LEMMA EndedMore ==
  ASSUME NEW r \in Seq(Entry), NEW e \in Entry, Ended(r), Len(r) < 3,
         e.of # 0 => ~Told(r)
  PROVE  Ended(Append(r, e))
  <1> DEFINE g == Append(r, e)
  <1>1. /\ Len(g) = Len(r) + 1 /\ g[Len(r) + 1] = e
        /\ \A i \in 1 .. Len(r) : g[i] = r[i]
        /\ \A i \in 1 .. Len(g) : i \in 1 .. Len(r) \/ i = Len(r) + 1
        /\ Len(r) \in Nat
    BY Appended
  <1> HIDE DEF g
  <1>2. Len(g) <= 3
    BY <1>1
  <1>3. ASSUME NEW j \in 1 .. Len(g), g[j].of # 0, NEW i \in 1 .. j - 1
        PROVE  g[i].status = "TIMEOUT_ERROR"
    <2>1. i \in 1 .. Len(r)
      BY <1>1
    <2>2. CASE j \in 1 .. Len(r)
      BY <1>1, <1>3, <2>1, <2>2 DEF Ended
    <2>3. CASE j = Len(r) + 1
      BY <1>1, <1>3, <2>1, <2>3 DEF Told
    <2> QED
      BY <1>1, <2>2, <2>3
  <1> QED
    BY <1>2, <1>3 DEF Ended, g

LEMMA HearEnded ==
  ASSUME NEW ks \in Seq(Kinds), Len(ks) <= MaxCmds, NEW h \in Heard,
         NEW n \in 1 .. Len(ks), NEW e \in Entry, NEW g, g = Hears(h, n, e),
         AllEnded(BadIn(ks, h), OddIn(ks, h), ks, h),
         Orderly(BadIn(ks, h), OddIn(ks, h), n) =>
           Len(h[n]) < 3 /\ (e.of # 0 => ~Told(h[n]))
  PROVE  AllEnded(BadIn(ks, g), OddIn(ks, g), ks, g)
  <1> DEFINE B == BadIn(ks, h)
             C == BadIn(ks, g)
             O == OddIn(ks, h)
             P == OddIn(ks, g)
  <1>1. /\ g[n] = Append(h[n], e) /\ h[n] \in Seq(Entry)
        /\ \A m \in Numbers : m # n => g[m] = h[m]
        /\ B \subseteq C /\ O \subseteq P
    <2>1. /\ ks \in Seq(Kinds) /\ Len(ks) <= MaxCmds /\ h \in Heard
          /\ n \in 1 .. Len(ks) /\ e \in Entry /\ g = Hears(h, n, e)
      OBVIOUS
    <2>2. g[n] = Append(h[n], e) /\ h[n] \in Seq(Entry)
      <3>1. n \in Numbers
        BY <2>1, BoundsAssumption DEF Numbers
      <3> QED
        BY <2>1, <3>1 DEF Hears, Heard
    <2>3. \A m \in Numbers : m # n => g[m] = h[m]
      BY <2>1 DEF Hears, Heard
    <2>4. B \subseteq C
      BY ONLY <2>1, HearSets
    <2>5. O \subseteq P
      BY ONLY <2>1, HearSets
    <2> QED
      BY <2>2, <2>3, <2>4, <2>5
  <1> HIDE DEF B, C, O, P
  <1>2. 1 .. Len(ks) \subseteq Numbers
    BY BoundsAssumption DEF Numbers
  <1>3. SUFFICES ASSUME NEW m \in 1 .. Len(ks), Orderly(C, P, m)
                 PROVE  Ended(g[m])
    BY DEF AllEnded, C, P
  <1>4. Orderly(B, O, m)
    BY <1>1, <1>3, OrderlyLess
  <1>5. Ended(h[m])
    BY <1>4 DEF AllEnded, B, O
  <1>6. CASE m = n
    <2>1. Len(h[n]) < 3 /\ (e.of # 0 => ~Told(h[n]))
      BY <1>4, <1>6 DEF B, O
    <2> QED
      BY <1>1, <1>5, <1>6, <2>1, EndedMore
  <1>7. CASE m # n
    BY <1>1, <1>2, <1>5, <1>7
  <1> QED
    BY <1>6, <1>7
-----------------------------------------------------------------------------
(***************************************************************************)
(* Steps of the connection of which the callbacks hear nothing.            *)
(***************************************************************************)

LEMMA EmptyJoin ==
  ASSUME NEW lines \in Seq(Lines)
  PROVE  <<>> \o lines = lines /\ lines \o <<>> = lines
  OBVIOUS

LEMMA NoReply == ASSUME NEW cmd PROVE Reply(<<>>, cmd)
  <1>1. \A i \in 1 .. Len(<<>>) : FALSE
    OBVIOUS
  <1> QED
    BY <1>1 DEF Reply

LEMMA CmdFields ==
  /\ \A cmd \in Commands : cmd.n \in Numbers /\ cmd.kind \in Kinds
  /\ NoCmd \notin Commands /\ NoCmd.kind = "none"
  BY DEF Commands, Kinds, NoCmd, Command

\* The command that a closure works for.
LEMMA InSlot ==
  ASSUME NEW k \in K, NEW a, NEW cl, NEW ks, Numbered(k, a, cl, ks),
         k.cbs.mode # "none"
  PROVE  k.cbs.cmd \in Commands
  <1>1. NoCmd.n = 0
    BY DEF NoCmd, Command
  <1>2. k.cbs.cmd.n \in 1 .. Len(ks)
    BY DEF Numbered, IsGiven
  <1>3. k.cbs.cmd # NoCmd
    BY <1>1, <1>2
  <1> QED
    BY <1>3, KFields

\* What is left of the same reply.
LEMMA SameTidy ==
  ASSUME NEW k, NEW x, NEW cmd, NEW r, Tidy(k, cmd, r),
         x.input = k.input, x.wire = k.wire
  PROVE  Tidy(x, cmd, r)
  BY DEF Tidy, Replied

LEMMA GoodClose ==
  ASSUME NEW k \in K, NEW a, NEW s, NEW cl, NEW B, NEW O, NEW ks, NEW h,
         Good(k, a, s, cl, B, O, ks, h), k.bev # "null", NEW x, x = Close(k)
  PROVE  x \in K /\ Good(x, a, s, TRUE, B, O, ks, h)
  <1>1. /\ x \in K
        /\ x.bev = k.bev /\ x.cbs.mode = "none" /\ x.cbs.cmd = NoCmd
        /\ x.reads = k.reads /\ x.fin = k.fin /\ x.out = k.out /\ x.sent = k.sent
        /\ x.wire = k.wire /\ x.input = k.input
    BY CloseFacts
  <1>2. Modes(x, s, TRUE)
    BY <1>1 DEF Good, Modes, InUse, Quiet
  <1>3. Numbered(x, a, TRUE, ks)
    BY <1>1 DEF Good, Numbered
  <1>4. Answered(x, TRUE, ks, h)
    BY <1>1 DEF Good, Answered
  <1>5. Pipes(x, a, s, B, O, ks)
    BY <1>1 DEF Good, Pipes
  <1>6. Tidies(x, a, B, O, h)
    BY <1>1, SameTidy DEF Good, Tidies
  <1> QED
    BY <1>1, <1>2, <1>3, <1>4, <1>5, <1>6 DEF Good

\* A command in the output buffer of a connection where nothing is under way.
LEMMA GoodFirst ==
  ASSUME NEW k \in K, NEW s, NEW B, NEW O, NEW ks, NEW h,
         k.cbs.mode = "send", k.bev = "open", IsGiven(k.cbs.cmd, ks),
         k.cbs.cmd.n \in Int,
         k.out = <<k.cbs.cmd>>, k.sent = <<>>, k.wire = <<>>, k.input = <<>>,
         ~k.reads, ~k.fin, s = 0, h[k.cbs.cmd.n] = <<>>
  PROVE  Pipes(k, NoCmd, s, B, O, ks) /\ Tidies(k, NoCmd, B, O, h)
  <1>1. AllGiven(k.out, ks, B, k.cbs.cmd.n)
    <2>1. Len(k.out) = 1 /\ k.out[1] = k.cbs.cmd
      OBVIOUS
    <2>2. \A i \in 1 .. Len(k.out) : k.out[i] = k.cbs.cmd
      BY <2>1
    <2> QED
      BY <2>2 DEF AllGiven, Near
  <1>2. Pipes(k, NoCmd, s, B, O, ks)
    BY <1>1, NothingNear DEF Pipes
  <1>3. Len(h[k.cbs.cmd.n]) = 0 /\ ~Told(h[k.cbs.cmd.n])
    BY DEF Told
  <1>4. Tidy(k, k.cbs.cmd, h[k.cbs.cmd.n])
    BY <1>3, NoReply, EmptyJoin DEF Tidy, Replied, One
  <1>5. Len(h[k.cbs.cmd.n]) + Chances(k) <= 3
    BY <1>3 DEF Chances, Replied, One
  <1>6. Current(k, NoCmd, h[k.cbs.cmd.n])
    BY <1>3, <1>4, <1>5 DEF Current
  <1> QED
    BY <1>2, <1>6 DEF Tidies

LEMMA GoodEstablished ==
  ASSUME NEW k \in K, NEW s, NEW cl, NEW B, NEW O, NEW ks, NEW h,
         Good(k, NoCmd, s, cl, B, O, ks, h), k.bev = "connecting",
         NEW x, x = IF k.cbs = NoCallbacks
                      THEN Connected(k)
                      ELSE Send(Connected(k), k.cbs.cmd)
  PROVE  x \in K /\ Good(x, NoCmd, s, cl, B, O, ks, h)
  <1> DEFINE m == Connected(k)
  <1>1. /\ m \in K
        /\ m.bev = "open" /\ m.cbs = k.cbs
        /\ m.reads = k.reads /\ m.fin = k.fin /\ m.out = k.out /\ m.sent = k.sent
        /\ m.wire = k.wire /\ m.input = k.input
    BY ConnectedFacts
  <1>2. x = IF k.cbs = NoCallbacks THEN m ELSE Send(m, k.cbs.cmd)
    OBVIOUS
  <1> HIDE DEF m
  <1>3. /\ k.out = <<>> /\ k.sent = <<>> /\ k.wire = <<>> /\ k.input = <<>>
        /\ ~k.reads /\ ~k.fin /\ s = 0
    BY DEF Good, Modes, Quiet
  <1>4. CASE k.cbs = NoCallbacks
    <2>1. k.cbs.mode = "none" /\ k.cbs.cmd = NoCmd
      BY <1>4, NoCallbacksFields
    <2>2. Modes(m, s, cl)
      BY <1>1, <1>3, <2>1 DEF Good, Modes, InUse
    <2>3. Numbered(m, NoCmd, cl, ks) /\ Answered(m, cl, ks, h)
      BY <1>1, <2>1 DEF Good, Numbered, Answered, InUse
    <2>4. Pipes(m, NoCmd, s, B, O, ks) /\ Tidies(m, NoCmd, B, O, h)
      BY <1>1, <2>1 DEF Pipes, Tidies
    <2> QED
      BY <1>1, <1>2, <1>4, <2>2, <2>3, <2>4 DEF Good
  <1>5. CASE k.cbs # NoCallbacks
    <2>1. k.cbs.mode # "none"
      BY <1>5, NoCallbacksFields DEF Good, Modes
    <2>2. k.cbs.mode = "connect"
      BY <2>1, KFields DEF Good, Modes, InUse
    <2>3. IsGiven(k.cbs.cmd, ks) /\ h[k.cbs.cmd.n] = <<>> /\ ~cl
      BY <2>2 DEF Good, Numbered, Answered, Modes
    <2>4. k.cbs.cmd \in Commands
      BY <2>1, InSlot DEF Good
    <2>5. /\ x \in K
          /\ x.bev = "open" /\ x.cbs.mode = "send" /\ x.cbs.cmd = k.cbs.cmd
          /\ ~x.reads /\ ~x.fin
          /\ x.out = Append(<<>>, k.cbs.cmd) /\ x.sent = <<>>
          /\ x.wire = <<>> /\ x.input = <<>>
      BY <1>1, <1>2, <1>3, <1>5, <2>4, SendFacts
    <2>6. x.out = <<x.cbs.cmd>>
      BY <2>5
    <2>7. Modes(x, s, cl)
      BY <2>3, <2>5 DEF Modes, InUse
    <2>8. Numbered(x, NoCmd, cl, ks) /\ Answered(x, cl, ks, h)
      BY <2>3, <2>5 DEF Good, Numbered, Answered, InUse
    <2>9. x.cbs.cmd.n \in Int
      BY <2>4, <2>5, CmdFields DEF Numbers
    <2>10. Pipes(x, NoCmd, s, B, O, ks) /\ Tidies(x, NoCmd, B, O, h)
      BY <1>3, <2>3, <2>5, <2>6, <2>9, GoodFirst
    <2> QED
      BY <2>5, <2>7, <2>8, <2>10 DEF Good
  <1> QED
    BY <1>4, <1>5

LEMMA GivenJoin ==
  ASSUME NEW a \in Seq(Commands), NEW b \in Seq(Commands), NEW ks, NEW B, NEW n,
         AllGiven(a, ks, B, n), AllGiven(b, ks, B, n)
  PROVE  AllGiven(a \o b, ks, B, n)
  <1> DEFINE s == a \o b
  <1>1. /\ Len(s) = Len(a) + Len(b) /\ Len(a) \in Nat /\ Len(b) \in Nat
        /\ \A i \in 1 .. Len(s) :
             s[i] = IF i <= Len(a) THEN a[i] ELSE b[i - Len(a)]
    OBVIOUS
  <1> HIDE DEF s
  <1>2. \A i \in 1 .. Len(s) : IF i <= Len(a) THEN i \in 1 .. Len(a)
                                             ELSE i - Len(a) \in 1 .. Len(b)
    BY <1>1
  <1>3. ASSUME NEW i \in 1 .. Len(s) PROVE IsGiven(s[i], ks) /\ Near(B, s[i].n, n)
    <2>1. CASE i <= Len(a)
      BY <1>1, <1>2, <2>1 DEF AllGiven
    <2>2. CASE ~(i <= Len(a))
      BY <1>1, <1>2, <2>2 DEF AllGiven
    <2> QED
      BY <2>1, <2>2
  <1> QED
    BY <1>3 DEF AllGiven, s

LEMMA NearJoin ==
  ASSUME NEW a \in Seq(Lines), NEW b \in Seq(Lines), NEW B, NEW n
  PROVE  AllNear(a \o b, B, n) <=> AllNear(a, B, n) /\ AllNear(b, B, n)
  <1> DEFINE s == a \o b
  <1>1. /\ Len(s) = Len(a) + Len(b) /\ Len(a) \in Nat /\ Len(b) \in Nat
        /\ \A i \in 1 .. Len(s) :
             s[i] = IF i <= Len(a) THEN a[i] ELSE b[i - Len(a)]
    OBVIOUS
  <1> HIDE DEF s
  <1>2. \A i \in 1 .. Len(s) : IF i <= Len(a) THEN i \in 1 .. Len(a)
                                             ELSE i - Len(a) \in 1 .. Len(b)
    BY <1>1
  <1>3. ASSUME AllNear(a, B, n), AllNear(b, B, n), NEW i \in 1 .. Len(s)
        PROVE  Near(B, s[i].of, n)
    <2>1. CASE i <= Len(a)
      BY <1>1, <1>2, <1>3, <2>1 DEF AllNear
    <2>2. CASE ~(i <= Len(a))
      BY <1>1, <1>2, <1>3, <2>2 DEF AllNear
    <2> QED
      BY <2>1, <2>2
  <1>4. ASSUME AllNear(s, B, n), NEW i \in 1 .. Len(a) PROVE Near(B, a[i].of, n)
    <2>1. i \in 1 .. Len(s) /\ s[i] = a[i]
      BY <1>1
    <2> QED
      BY <1>4, <2>1 DEF AllNear
  <1>5. ASSUME AllNear(s, B, n), NEW i \in 1 .. Len(b) PROVE Near(B, b[i].of, n)
    <2>1. i + Len(a) \in 1 .. Len(s) /\ ~(i + Len(a) <= Len(a))
          /\ i + Len(a) - Len(a) = i
      BY <1>1
    <2>2. s[i + Len(a)] = b[i]
      BY <1>1, <2>1
    <2> QED
      BY <1>5, <2>1, <2>2 DEF AllNear
  <1> QED
    BY <1>3, <1>4, <1>5 DEF AllNear, s

\* The output buffer is written.
LEMMA GoodFlush ==
  ASSUME NEW k \in K, NEW s, NEW cl, NEW B, NEW O, NEW ks, NEW h \in Heard,
         Good(k, NoCmd, s, cl, B, O, ks, h), CanWrite(k), k.bev = "open",
         ks \in Seq(Kinds), Len(ks) <= MaxCmds,
         NEW x, x = IF k.cbs.mode = "send"
                      THEN Recv(Drained(k), k.cbs.cmd)
                      ELSE Drained(k)
  PROVE  x \in K /\ Good(x, NoCmd, s, cl, B, O, ks, h)
  <1> DEFINE m == Drained(k)
  <1>1. /\ m \in K
        /\ m.bev = k.bev /\ m.cbs = k.cbs
        /\ m.reads = k.reads /\ m.fin = k.fin /\ m.writes = k.writes
        /\ m.out = <<>> /\ m.sent = (IF k.fin THEN k.sent ELSE k.sent \o k.out)
        /\ m.wire = k.wire /\ m.input = k.input
    BY DrainedFacts
  <1>2. x = IF k.cbs.mode = "send" THEN Recv(m, k.cbs.cmd) ELSE m
    OBVIOUS
  <1> HIDE DEF m
  <1>3. /\ x \in K /\ x.bev = "open" /\ x.cbs.cmd = k.cbs.cmd
        /\ x.cbs.mode = IF k.cbs.mode = "send" THEN "recv" ELSE k.cbs.mode
        /\ x.reads <=> (k.cbs.mode = "send" \/ k.reads)
        /\ x.fin = k.fin /\ x.writes = k.writes
        /\ x.out = <<>> /\ x.sent = (IF k.fin THEN k.sent ELSE k.sent \o k.out)
        /\ x.wire = k.wire /\ x.input = k.input
    <2>1. CASE k.cbs.mode = "send"
      <3>1. k.cbs.cmd \in Commands
        BY <2>1, InSlot DEF Good
      <3>2. x = Recv(m, k.cbs.cmd)
        BY <1>2, <2>1
      <3>3. /\ x \in K /\ x.bev = m.bev /\ x.cbs.mode = "recv"
            /\ x.cbs.cmd = k.cbs.cmd /\ x.reads
            /\ x.fin = m.fin /\ x.writes = m.writes /\ x.out = m.out
            /\ x.sent = m.sent /\ x.wire = m.wire /\ x.input = m.input
        BY <1>1, <3>1, <3>2, RecvFacts
      <3> QED
        BY <1>1, <2>1, <3>3
    <2>2. CASE k.cbs.mode # "send"
      BY <1>1, <1>2, <2>2
    <2> QED
      BY <2>1, <2>2
  <1>4. k.writes /\ k.out # <<>>
    BY KFields DEF CanWrite
  <1>5. k.out \in Seq(Commands) /\ k.sent \in Seq(Commands)
    BY KFields
  <1>6. k.cbs.mode # "connect"
    BY DEF Good, Modes
  <1>7. Modes(x, s, cl)
    BY <1>3 DEF Good, Modes, InUse
  <1>8. Numbered(x, NoCmd, cl, ks)
    BY <1>3 DEF Good, Numbered
  <1>9. Answered(x, cl, ks, h)
    BY <1>3 DEF Good, Answered, InUse
  <1>10. ASSUME x.cbs.mode # "none" PROVE AllGiven(x.sent, ks, B, x.cbs.cmd.n)
    <2>1. k.cbs.mode # "none"
      BY <1>3, <1>10
    <2>2. CASE k.fin
      BY <1>3, <2>1, <2>2 DEF Good, Pipes
    <2>3. CASE ~k.fin
      BY <1>3, <1>5, <2>1, <2>3, GivenJoin DEF Good, Pipes
    <2> QED
      BY <2>2, <2>3
  <1>11. Pipes(x, NoCmd, s, B, O, ks)
    <2>1. k.cbs.mode = "none" <=> x.cbs.mode = "none"
      BY <1>3
    <2> QED
      BY <1>3, <1>10, <2>1, NothingNear DEF Good, Pipes
  <1>12. ASSUME x.cbs.mode # "none", Orderly(B, O, x.cbs.cmd.n)
         PROVE  Current(x, NoCmd, h[x.cbs.cmd.n])
    <2> DEFINE r == h[k.cbs.cmd.n]
    <2>1. Current(k, NoCmd, r)
      BY <1>3, <1>12 DEF Good, Tidies
    <2>2. Len(r) \in Nat
      <3>1. k.cbs.cmd.n \in Numbers
        BY <1>3, <1>12, BoundsAssumption DEF Good, Numbered, IsGiven, Numbers
      <3> QED
        BY <3>1 DEF Heard
    <2> HIDE DEF r
    <2>3. k.cbs.mode = "send"
      BY <1>3, <1>4, <1>6, <1>12, <2>1, KFields DEF Current
    <2>4. /\ k.sent = <<>> /\ k.wire = <<>> /\ k.input = <<>>
          /\ k.fin \/ k.out = <<k.cbs.cmd>>
          /\ Told(r) => k.fin
      BY <2>1, <2>3 DEF Current
    <2>5. x.sent = <<>> \/ (~k.fin /\ x.sent = <<k.cbs.cmd>>)
      <3>1. <<>> \o k.out = k.out
        BY <1>5
      <3> QED
        BY <1>3, <2>4, <3>1
    <2>6. Tidy(x, x.cbs.cmd, r)
      BY <1>3, <2>1, SameTidy DEF Current
    <2>7. Len(r) + Chances(x) <= 3
      <3>1. Chances(k) = One(k.reads) + 2
        BY <1>4, <2>3 DEF Chances, One
      <3>2. Chances(x) <= 2 /\ Chances(x) \in Nat
        BY <1>3, <2>3 DEF Chances, One
      <3>3. One(k.reads) \in {0, 1}
        BY DEF One
      <3> QED
        BY <2>1, <2>2, <3>1, <3>2, <3>3 DEF Current
    <2>8. Current(x, NoCmd, r)
      BY <1>3, <2>3, <2>4, <2>5, <2>6, <2>7 DEF Current
    <2> QED
      BY <1>3, <2>8 DEF r
  <1>13. Tidies(x, NoCmd, B, O, h)
    BY <1>12 DEF Tidies
  <1> QED
    BY <1>3, <1>7, <1>8, <1>9, <1>11, <1>13 DEF Good

\* Sequences of lines that are put together, and taken apart.
LEMMA Rejoined ==
  ASSUME NEW w \in Seq(Lines), NEW n \in 1 .. Len(w)
  PROVE  /\ SubSeq(w, 1, n) \o SubSeq(w, n + 1, Len(w)) = w
         /\ SubSeq(w, 1, n) \in Seq(Lines)
         /\ SubSeq(w, n + 1, Len(w)) \in Seq(Lines)
  OBVIOUS

LEMMA NoLines ==
  ASSUME NEW w \in Seq(Lines)
  PROVE  Len(w) \in Nat /\ (w = <<>> <=> Len(w) = 0)
  BY EmptySeq

\* Lines arrive.
LEMMA GoodRead ==
  ASSUME NEW k \in K, NEW s, NEW cl, NEW B, NEW O, NEW ks, NEW h,
         Good(k, NoCmd, s, cl, B, O, ks, h), k.bev = "open",
         NEW n \in 1 .. Len(k.wire), NEW x, x = Received(k, n),
         NEW a, a = IF k.cbs.mode = "recv" THEN k.cbs.cmd ELSE NoCmd
  PROVE  x \in K /\ Good(x, a, s, cl, B, O, ks, h)
  <1> DEFINE p == SubSeq(k.wire, 1, n)
  <1>1. /\ x \in K
        /\ x.bev = k.bev /\ x.cbs = k.cbs
        /\ (x.reads <=> k.reads) /\ (x.writes <=> k.writes) /\ (x.fin <=> k.fin)
        /\ x.out = k.out /\ x.sent = k.sent
        /\ x.wire = SubSeq(k.wire, n + 1, Len(k.wire))
        /\ x.input = k.input \o p
    BY ReceivedFacts
  <1>2. /\ k.wire \in Seq(Lines) /\ k.input \in Seq(Lines) /\ p \in Seq(Lines)
        /\ x.wire \in Seq(Lines) /\ p \o x.wire = k.wire
    BY <1>1, KFields, Rejoined
  <1> HIDE DEF p
  <1>3. k.wire # <<>>
    <2>1. Len(k.wire) # 0
      BY <1>2
    <2> QED
      BY <1>2, <2>1, NoLines
  <1>4. Modes(x, s, cl)
    BY <1>1, <1>3 DEF Good, Modes, InUse, Quiet
  <1>5. Numbered(x, a, cl, ks)
    <2>1. CASE k.cbs.mode = "recv"
      <3>1. k.cbs.cmd.n <= k.cbs.cmd.n
        <4>1. k.cbs.cmd \in Commands
          BY <2>1, InSlot DEF Good
        <4>2. k.cbs.cmd.n \in Int
          BY <4>1, CmdFields DEF Numbers
        <4> QED
          BY <4>2
      <3> QED
        BY <1>1, <2>1, <3>1 DEF Good, Numbered, InUse
    <2>2. CASE k.cbs.mode # "recv"
      BY <1>1, <2>2 DEF Good, Numbered
    <2> QED
      BY <2>1, <2>2
  <1>6. Answered(x, cl, ks, h)
    BY <1>1 DEF Good, Answered, InUse
  <1>7. ASSUME k.cbs.mode # "none"
        PROVE  AllNear(x.wire, B, k.cbs.cmd.n) /\ AllNear(x.input, B, k.cbs.cmd.n)
    <2>1. AllNear(p, B, k.cbs.cmd.n) /\ AllNear(x.wire, B, k.cbs.cmd.n)
      <3>1. AllNear(k.wire, B, k.cbs.cmd.n)
        BY <1>7 DEF Good, Pipes
      <3>2. AllNear(p \o x.wire, B, k.cbs.cmd.n)
        BY <1>2, <3>1
      <3> QED
        BY <1>2, <3>2, NearJoin
    <2>2. AllNear(k.input, B, k.cbs.cmd.n)
      BY <1>7 DEF Good, Pipes
    <2> QED
      BY <1>1, <1>2, <2>1, <2>2, NearJoin
  <1>8. Pipes(x, a, s, B, O, ks)
    BY <1>1, <1>7 DEF Good, Pipes
  <1>9. ASSUME k.cbs.mode # "none", Orderly(B, O, k.cbs.cmd.n)
        PROVE  /\ Current(x, a, h[k.cbs.cmd.n])
               /\ Tidy(x, k.cbs.cmd, h[k.cbs.cmd.n]) /\ k.cbs.mode = "recv"
    <2> DEFINE r == h[k.cbs.cmd.n]
    <2>1. Current(k, NoCmd, r)
      BY <1>9 DEF Good, Tidies
    <2> HIDE DEF r
    <2>2. k.cbs.mode = "recv"
      BY <1>3, <1>9, <2>1, KFields DEF Current, Good, Modes
    <2>3. k.out = <<>> /\ k.sent = <<>> /\ k.input = <<>> /\ ~Told(r)
      BY <1>3, <2>1, <2>2 DEF Current, Tidy
    <2>4. x.input = p
      BY <1>1, <1>2, <2>3, EmptyJoin
    <2>5. x.input \o x.wire = k.wire /\ k.input \o k.wire = k.wire
      BY <1>2, <2>3, <2>4, EmptyJoin
    <2>6. Replied(x) <=> Replied(k)
      <3>1. x.input = <<>> /\ x.wire = <<>> => k.wire = <<>>
        BY <2>5, EmptyJoin
      <3> QED
        BY <1>3, <3>1 DEF Replied
    <2>7. Tidy(x, k.cbs.cmd, r)
      <3>1. Reply(k.input \o k.wire, k.cbs.cmd) /\ Len(r) + One(Replied(k)) <= 3
        BY <2>1 DEF Current, Tidy
      <3>2. x.input \o x.wire = k.input \o k.wire
        BY <2>5
      <3>3. Reply(x.input \o x.wire, k.cbs.cmd)
        BY <3>1, <3>2
      <3>4. Len(r) + One(Replied(x)) <= 3
        BY <2>6, <3>1 DEF One
      <3> QED
        BY <2>3, <3>3, <3>4 DEF Tidy
    <2>8. Chances(x) = Chances(k)
      BY <1>1, <2>6 DEF Chances, One
    <2>9. a # NoCmd
      <3>1. k.cbs.cmd \in Commands
        BY <1>9, InSlot DEF Good
      <3> QED
        BY <2>2, <3>1, CmdFields
    <2>10. Current(x, a, r)
      BY <1>1, <2>1, <2>2, <2>3, <2>7, <2>8, <2>9 DEF Current
    <2> QED
      BY <2>2, <2>7, <2>10 DEF r
  <1>10. Tidies(x, a, B, O, h)
    BY <1>1, <1>9 DEF Tidies
  <1> QED
    BY <1>1, <1>4, <1>5, <1>6, <1>8, <1>10 DEF Good

\* A callback of libevent ends.
LEMMA GoodReturn ==
  ASSUME NEW k \in K, NEW a, NEW s, NEW cl, NEW B, NEW O, NEW ks, NEW h,
         Good(k, a, s, cl, B, O, ks, h), a = NoCmd \/ k.input = <<>>,
         NEW x, x = IF cl /\ k.cbs = NoCallbacks THEN Ignored(k) ELSE k
  PROVE  x \in K /\ Good(x, NoCmd, s, cl, B, O, ks, h)
  <1>1. Good(k, NoCmd, s, cl, B, O, ks, h)
    <2>1. Numbered(k, NoCmd, cl, ks)
      BY DEF Good, Numbered
    <2>2. Pipes(k, NoCmd, s, B, O, ks)
      BY NothingNear DEF Good, Pipes
    <2>3. Tidies(k, NoCmd, B, O, h)
      BY DEF Good, Tidies, Current
    <2> QED
      BY <2>1, <2>2, <2>3 DEF Good
  <1>2. CASE cl /\ k.cbs = NoCallbacks
    <2>1. /\ x \in K /\ x.bev = "ignored" /\ x.cbs = k.cbs
          /\ ~x.reads /\ (x.fin <=> k.fin) /\ x.out = k.out /\ x.sent = k.sent
          /\ x.wire = k.wire /\ x.input = k.input
      BY <1>2, IgnoredFacts
    <2>2. k.cbs.mode = "none"
      BY <1>2, NoCallbacksFields
    <2>3. Modes(x, s, cl)
      BY <1>1, <2>1, <2>2 DEF Good, Modes, InUse
    <2>4. /\ Numbered(x, NoCmd, cl, ks) /\ Answered(x, cl, ks, h)
          /\ Pipes(x, NoCmd, s, B, O, ks) /\ Tidies(x, NoCmd, B, O, h)
      BY <1>1, <2>1, <2>2
         DEF Good, Numbered, Answered, Pipes, Tidies, InUse
    <2> QED
      BY <2>1, <2>3, <2>4 DEF Good
  <1> QED
    BY <1>1, <1>2

\* The Bufferevent is deleted.
LEMMA GoodDelete ==
  ASSUME NEW k \in K, NEW s, NEW cl, NEW B, NEW O, NEW ks, NEW h,
         Good(k, NoCmd, s, cl, B, O, ks, h), k.bev = "ignored",
         NEW x, x = Deleted(k)
  PROVE  x \in K /\ Good(x, NoCmd, s, cl, B, O, ks, h)
  <1>1. /\ x \in K /\ x.bev = "deleted" /\ x.cbs = k.cbs
        /\ (x.fin <=> k.fin) /\ x.sent = k.sent
    BY DeletedFacts
  <1>2. k.cbs.mode = "none"
    BY KFields DEF Good, Modes, InUse
  <1>3. Modes(x, s, cl)
    BY <1>1, <1>2 DEF Good, Modes, InUse
  <1>4. /\ Numbered(x, NoCmd, cl, ks) /\ Answered(x, cl, ks, h)
        /\ Pipes(x, NoCmd, s, B, O, ks) /\ Tidies(x, NoCmd, B, O, h)
    BY <1>1, <1>2 DEF Good, Numbered, Answered, Pipes, Tidies, InUse
  <1> QED
    BY <1>1, <1>3, <1>4 DEF Good

\* tor closes the connection.
LEMMA GoodPeerCloses ==
  ASSUME NEW k \in K, NEW s, NEW cl, NEW B, NEW O, NEW ks, NEW h \in Heard,
         Good(k, NoCmd, s, cl, B, O, ks, h), k.bev = "open",
         ks \in Seq(Kinds), Len(ks) <= MaxCmds,
         NEW x, x = ClosedByPeer(k)
  PROVE  x \in K /\ Good(x, NoCmd, s, cl, B, O, ks, h)
  <1>1. /\ x \in K /\ x.bev = k.bev /\ x.cbs = k.cbs
        /\ (x.reads <=> k.reads) /\ (x.writes <=> k.writes) /\ x.fin
        /\ x.out = k.out /\ x.sent = <<>> /\ x.wire = k.wire /\ x.input = k.input
    BY ClosedByPeerFacts
  <1>2. Modes(x, s, cl)
    BY <1>1 DEF Good, Modes, InUse
  <1>3. Numbered(x, NoCmd, cl, ks) /\ Answered(x, cl, ks, h)
    BY <1>1 DEF Good, Numbered, Answered, InUse
  <1>4. Pipes(x, NoCmd, s, B, O, ks)
    BY <1>1, NothingNear DEF Good, Pipes
  <1>5. ASSUME k.cbs.mode # "none", Orderly(B, O, k.cbs.cmd.n)
        PROVE  Current(x, NoCmd, h[k.cbs.cmd.n])
    <2> DEFINE r == h[k.cbs.cmd.n]
    <2>1. Current(k, NoCmd, r)
      BY <1>5 DEF Good, Tidies
    <2>2. Len(r) \in Nat
      <3>1. k.cbs.cmd.n \in Numbers
        BY <1>5, BoundsAssumption DEF Good, Numbered, IsGiven, Numbers
      <3> QED
        BY <3>1 DEF Heard
    <2> HIDE DEF r
    <2>3. Tidy(x, k.cbs.cmd, r)
      BY <1>1, <2>1, SameTidy DEF Current
    <2>4. Chances(x) <= Chances(k) /\ Chances(x) \in Nat /\ Chances(k) \in Nat
      BY <1>1 DEF Chances, One, Replied
    <2>5. Current(x, NoCmd, r)
      BY <1>1, <2>1, <2>2, <2>3, <2>4 DEF Current
    <2> QED
      BY <2>5 DEF r
  <1>6. Tidies(x, NoCmd, B, O, h)
    BY <1>1, <1>5 DEF Tidies
  <1> QED
    BY <1>1, <1>2, <1>3, <1>4, <1>6 DEF Good

-----------------------------------------------------------------------------
(***************************************************************************)
(* Steps of tor.                                                           *)
(***************************************************************************)

EndLine(code, n) == Line(code, " ", n)

LEMMA LineFields ==
  ASSUME NEW line \in Lines
  PROVE  line.of \in 0 .. MaxCmds /\ line.of \in Int /\ line.code \in Codes
  <1>1. line.of \in 0 .. MaxCmds /\ line.code \in Codes
    BY Zenon DEF Lines
  <1> QED
    BY <1>1

LEMMA MakeEndLine ==
  ASSUME NEW code \in Codes, NEW n \in 0 .. MaxCmds
  PROVE  EndLine(code, n) \in Lines /\ EndLine(code, n).of = n
  BY Zenon DEF EndLine, Line, Lines

LEMMA MakeMidLine ==
  ASSUME NEW code \in Codes, NEW n \in 0 .. MaxCmds, NEW type \in {"-", "+"},
         NEW line, line = Line(code, type, n)
  PROVE  line \in Lines /\ line.of = n /\ line.code = code /\ line.type = type
  BY Zenon DEF Line, Lines

\* Every reply of tor answers its command.
LEMMA ReplyFacts ==
  ASSUME NEW cmd \in Commands, NEW reply \in Replies(cmd)
  PROVE  /\ reply \in Seq(Lines) /\ reply # <<>> /\ Reply(reply, cmd)
         /\ \A i \in 1 .. Len(reply) : reply[i].of = cmd.n
  <1> DEFINE f(code) == EndLine(code, cmd.n)
             l(code, type) == Line(code, type, cmd.n)
  <1>a. cmd.n \in 0 .. MaxCmds
    <2>1. cmd.n \in 1 .. MaxCmds
      BY CmdFields DEF Numbers
    <2> QED
      BY <2>1, BoundsAssumption
  <1>2. \/ \E code \in {"250", "552", "515"} : reply = <<f(code)>>
        \/ reply = <<l("250", "-"), f("250")>>
        \/ \E data \in {"nodigit", "blank"} :
             reply = <<l("250", "+"), f(data), f("short"), f("250")>>
    <2>1. \/ reply \in {<<f("250")>>, <<f("552")>>}
          \/ reply = <<f("515")>>
          \/ reply = <<l("250", "-"), f("250")>>
          \/ reply \in {<<l("250", "+"), f(data), f("short"), f("250")>> :
                          data \in {"nodigit", "blank"}}
      BY Zenon DEF Replies, EndLine, Commands, Kinds
    <2> HIDE DEF f, l
    <2> QED
      BY <2>1, Zenon
  <1>b. \A code \in Codes :
          f(code) \in Lines /\ f(code).of = cmd.n /\ f(code).type = " "
    <2> TAKE code \in Codes
    <2>1. EndLine(code, cmd.n) \in Lines /\ EndLine(code, cmd.n).of = cmd.n
      BY <1>a, MakeEndLine
    <2>2. EndLine(code, cmd.n).type = " "
      BY DEF EndLine, Line
    <2> QED
      BY <2>1, <2>2
  <1>c. \A code \in {"250", "552", "515"} : f(code).code = code
    <2> TAKE code \in {"250", "552", "515"}
    <2> QED
      BY DEF EndLine, Line
  <1> HIDE DEF f
  <1>d. \A code \in {"250", "552", "515"} :
          f(code) \in Lines /\ f(code).of = cmd.n /\ Final(f(code))
    BY <1>b, <1>c DEF Codes, Final, Ends
  <1>e. \A code \in {"nodigit", "blank", "short", "250"} :
          f(code) \in Lines /\ f(code).of = cmd.n
    BY <1>b DEF Codes
  <1>f. \A type \in {"-", "+"} :
          /\ l("250", type) \in Lines /\ l("250", type).of = cmd.n
          /\ l("250", type).code = "250" /\ l("250", type).type = type
    <2> TAKE type \in {"-", "+"}
    <2>1. PICK line : line = l("250", type)
      OBVIOUS
    <2>2. line = Line("250", type, cmd.n) /\ "250" \in Codes
      BY <2>1 DEF Codes
    <2>3. line \in Lines /\ line.of = cmd.n /\ line.code = "250" /\ line.type = type
      BY <1>a, <2>2, MakeMidLine
    <2> QED
      BY <2>1, <2>3
  <1> HIDE DEF l
  <1>3. CASE \E code \in {"250", "552", "515"} : reply = <<f(code)>>
    <2>1. PICK code \in {"250", "552", "515"} : reply = <<f(code)>>
      BY <1>3
    <2>2. f(code) \in Lines /\ f(code).of = cmd.n /\ Final(f(code))
      BY <1>d
    <2>3. /\ reply \in Seq(Lines) /\ Len(reply) = 1 /\ reply[1] = f(code)
      BY <2>1, <2>2
    <2>4. reply # <<>>
      BY <2>1
    <2>5. \A i \in 1 .. Len(reply) : reply[i].of = cmd.n
      BY <2>2, <2>3
    <2> QED
      BY <2>2, <2>3, <2>4, <2>5 DEF Reply
  <1>4. CASE reply = <<l("250", "-"), f("250")>>
    <2>1. /\ l("250", "-") \in Lines /\ l("250", "-").of = cmd.n
          /\ l("250", "-").code = "250" /\ l("250", "-").type = "-"
          /\ f("250") \in Lines /\ f("250").of = cmd.n /\ Final(f("250"))
      BY <1>d, <1>f
    <2>2. /\ reply \in Seq(Lines) /\ Len(reply) = 2
          /\ reply[1] = l("250", "-") /\ reply[2] = f("250")
      BY <1>4, <2>1
    <2>3. reply # <<>>
      BY <1>4
    <2>4. \A i \in 1 .. Len(reply) : reply[i].of = cmd.n
      BY <2>1, <2>2
    <2> QED
      BY <2>1, <2>2, <2>3, <2>4 DEF Reply
  <1>5. CASE \E data \in {"nodigit", "blank"} :
               reply = <<l("250", "+"), f(data), f("short"), f("250")>>
    <2>1. PICK data \in {"nodigit", "blank"} :
            reply = <<l("250", "+"), f(data), f("short"), f("250")>>
      BY <1>5
    <2>2. /\ l("250", "+") \in Lines /\ l("250", "+").of = cmd.n
          /\ l("250", "+").code = "250" /\ l("250", "+").type = "+"
          /\ f(data) \in Lines /\ f(data).of = cmd.n
          /\ f("short") \in Lines /\ f("short").of = cmd.n
          /\ f("250") \in Lines /\ f("250").of = cmd.n
      BY <1>e, <1>f
    <2>3. /\ reply \in Seq(Lines) /\ Len(reply) = 4
          /\ reply[1] = l("250", "+") /\ reply[2] = f(data)
          /\ reply[3] = f("short") /\ reply[4] = f("250")
      BY <2>1, <2>2
    <2>4. reply # <<>>
      BY <2>1
    <2>5. \A i \in 1 .. Len(reply) : reply[i].of = cmd.n
      BY <2>2, <2>3
    <2> QED
      BY <2>2, <2>3, <2>4, <2>5 DEF Reply
  <1> QED
    BY <1>2, <1>3, <1>4, <1>5

LEMMA FirstSent ==
  ASSUME NEW cmds \in Seq(Commands), cmds # <<>>, NEW ks, NEW B, NEW n,
         AllGiven(cmds, ks, B, n)
  PROVE  /\ AllGiven(Tail(cmds), ks, B, n)
         /\ IsGiven(Head(cmds), ks) /\ Near(B, Head(cmds).n, n)
  <1>1. Len(cmds) \in Nat /\ Len(cmds) # 0
    BY EmptySeq
  <1>2. Head(cmds) = cmds[1] /\ 1 \in 1 .. Len(cmds)
    BY <1>1
  <1>3. \A i \in 1 .. Len(Tail(cmds)) :
          Tail(cmds)[i] = cmds[i + 1] /\ i + 1 \in 1 .. Len(cmds)
    BY <1>1, HeadTailProperties
  <1> QED
    BY <1>2, <1>3 DEF AllGiven

LEMMA FirstNear ==
  ASSUME NEW lines \in Seq(Lines), lines # <<>>, NEW B, NEW n,
         AllNear(lines, B, n)
  PROVE  AllNear(Tail(lines), B, n) /\ Near(B, Head(lines).of, n)
  <1>1. Len(lines) \in Nat /\ Len(lines) # 0
    BY EmptySeq
  <1>2. Head(lines) = lines[1] /\ 1 \in 1 .. Len(lines)
    BY <1>1
  <1>3. \A i \in 1 .. Len(Tail(lines)) :
          Tail(lines)[i] = lines[i + 1] /\ i + 1 \in 1 .. Len(lines)
    BY <1>1, HeadTailProperties
  <1> QED
    BY <1>2, <1>3 DEF AllNear

\* tor takes a command and replies.
LEMMA GoodServe ==
  ASSUME NEW k \in K, NEW s, NEW cl, NEW B, NEW O,
         NEW ks \in Seq(Kinds), Len(ks) <= MaxCmds, NEW h \in Heard,
         \A n \in 1 .. Len(ks) : ks[n] = "events" => n \in O,
         Good(k, NoCmd, s, cl, B, O, ks, h), k.sent # <<>>,
         NEW cmd, cmd = Head(k.sent), NEW reply \in Replies(cmd),
         NEW t, t = IF cmd.kind = "events" /\ reply[1].code = "250"
                      THEN cmd.n ELSE s,
         NEW x, x = Served(k, reply)
  PROVE  x \in K /\ Good(x, NoCmd, t, cl, B, O, ks, h)
  <1>1. k.sent \in Seq(Commands) /\ k.wire \in Seq(Lines) /\ k.input \in Seq(Lines)
    BY KFields
  <1>2. cmd \in Commands
    BY <1>1, HeadTailProperties
  <1>3. /\ reply \in Seq(Lines) /\ reply # <<>> /\ Reply(reply, cmd)
        /\ \A i \in 1 .. Len(reply) : reply[i].of = cmd.n
    BY <1>2, ReplyFacts
  <1>4. /\ x \in K /\ x.bev = k.bev /\ x.cbs = k.cbs
        /\ (x.reads <=> k.reads) /\ (x.writes <=> k.writes) /\ (x.fin <=> k.fin)
        /\ x.out = k.out /\ x.sent = Tail(k.sent)
        /\ x.wire = k.wire \o reply /\ x.input = k.input
    BY <1>3, ServedFacts
  <1>5. k.bev \notin {"null", "connecting"} /\ ~k.fin
    BY DEF Good, Modes, Quiet
  <1>6. Modes(x, t, cl)
    BY <1>4, <1>5 DEF Good, Modes, InUse
  <1>7. Numbered(x, NoCmd, cl, ks) /\ Answered(x, cl, ks, h)
    BY <1>4 DEF Good, Numbered, Answered, InUse
  <1>8. ASSUME k.cbs.mode # "none"
        PROVE  /\ AllGiven(x.sent, ks, B, k.cbs.cmd.n)
               /\ AllNear(x.wire, B, k.cbs.cmd.n)
               /\ t # 0 => t \in O /\ t <= k.cbs.cmd.n
    <2>1. /\ AllGiven(x.sent, ks, B, k.cbs.cmd.n)
          /\ IsGiven(cmd, ks) /\ Near(B, cmd.n, k.cbs.cmd.n)
      BY <1>1, <1>4, <1>8, FirstSent DEF Good, Pipes
    <2>2. AllNear(reply, B, k.cbs.cmd.n)
      BY <1>3, <2>1 DEF AllNear
    <2>3. AllNear(k.wire, B, k.cbs.cmd.n)
      BY <1>8 DEF Good, Pipes
    <2>4. AllNear(x.wire, B, k.cbs.cmd.n)
      BY <1>1, <1>3, <1>4, <2>2, <2>3, NearJoin
    <2>5. k.cbs.cmd.n \in Int /\ cmd.n \in Int
      BY <1>2, <1>8, InSlot, CmdFields DEF Good, Numbers
    <2>6. CASE t = s
      BY <1>8, <2>1, <2>4, <2>6 DEF Good, Pipes
    <2>7. CASE t # s
      <3>1. t = cmd.n /\ cmd.kind = "events"
        BY <2>7
      <3>2. cmd.n \in 1 .. Len(ks) /\ ks[cmd.n] = "events"
        BY <2>1, <3>1 DEF IsGiven
      <3>3. t \in O
        BY <3>1, <3>2
      <3>4. t <= k.cbs.cmd.n
        BY <2>1, <2>5, <3>1 DEF Near
      <3> QED
        BY <2>1, <2>4, <3>3, <3>4
    <2> QED
      BY <2>6, <2>7
  <1>9. Pipes(x, NoCmd, t, B, O, ks)
    BY <1>4, <1>8 DEF Good, Pipes
  <1>10. ASSUME k.cbs.mode # "none", Orderly(B, O, k.cbs.cmd.n)
         PROVE  Current(x, NoCmd, h[k.cbs.cmd.n])
    <2> DEFINE r == h[k.cbs.cmd.n]
    <2>1. Current(k, NoCmd, r)
      BY <1>10 DEF Good, Tidies
    <2>2. Len(r) \in Nat
      <3>1. k.cbs.cmd.n \in Numbers
        BY <1>10, BoundsAssumption DEF Good, Numbered, IsGiven, Numbers
      <3> QED
        BY <3>1 DEF Heard
    <2> HIDE DEF r
    <2>3. k.cbs.mode = "recv"
      BY <1>5, <1>10, <2>1, KFields DEF Current, Good, Modes
    <2>4. k.sent = <<k.cbs.cmd>> /\ k.wire = <<>> /\ k.input = <<>> /\ ~Told(r)
      BY <2>1, <2>3 DEF Current
    <2>5. cmd = k.cbs.cmd /\ x.sent = <<>>
      BY <1>4, <2>4
    <2>6. x.wire = reply /\ x.input \o x.wire = reply
      BY <1>3, <1>4, <2>4, EmptyJoin
    <2>7. Replied(x)
      BY <1>3, <2>6 DEF Replied
    <2>8. Chances(x) = Chances(k)
      BY <1>4, <2>3, <2>7 DEF Chances, One
    <2>9. Len(r) + Chances(x) <= 3
      BY <2>1, <2>8 DEF Current
    <2>10. Tidy(x, k.cbs.cmd, r)
      <3>1. Reply(x.input \o x.wire, k.cbs.cmd)
        BY <1>3, <2>5, <2>6
      <3>2. Len(r) + One(Replied(x)) <= 3
        <4>1. Chances(x) = One(x.reads) + 1 /\ One(Replied(x)) = 1
          BY <1>4, <2>3, <2>7 DEF Chances, One
        <4>2. One(x.reads) \in {0, 1}
          BY DEF One
        <4> QED
          BY <2>2, <2>9, <4>1, <4>2
      <3> QED
        BY <2>4, <3>1, <3>2 DEF Tidy
    <2>11. Current(x, NoCmd, r)
      BY <1>4, <2>1, <2>3, <2>4, <2>5, <2>9, <2>10 DEF Current
    <2> QED
      BY <2>11 DEF r
  <1>11. Tidies(x, NoCmd, B, O, h)
    BY <1>4, <1>10 DEF Tidies
  <1> QED
    BY <1>4, <1>6, <1>7, <1>9, <1>11 DEF Good

\* tor sends an event.
LEMMA GoodTorEvent ==
  ASSUME NEW k \in K, NEW s \in 0 .. MaxCmds, NEW cl, NEW B, NEW O,
         O \subseteq B, NEW ks, NEW h,
         Good(k, NoCmd, s, cl, B, O, ks, h), s # 0, k.bev = "open",
         NEW line, line = EndLine("650", s), NEW x, x = Reported(k, line)
  PROVE  x \in K /\ Good(x, NoCmd, s, cl, B, O, ks, h)
  <1>1. line \in Lines /\ line.of = s
    <2>1. "650" \in Codes
      BY DEF Codes
    <2> QED
      BY <2>1, MakeEndLine
  <1>2. /\ x \in K /\ x.bev = k.bev /\ x.cbs = k.cbs
        /\ (x.reads <=> k.reads) /\ (x.writes <=> k.writes) /\ (x.fin <=> k.fin)
        /\ x.out = k.out /\ x.sent = k.sent
        /\ x.wire = Append(k.wire, line) /\ x.input = k.input
    BY <1>1, ReportedFacts
  <1>3. Modes(x, s, cl)
    BY <1>2 DEF Good, Modes, InUse
  <1>4. Numbered(x, NoCmd, cl, ks) /\ Answered(x, cl, ks, h)
    BY <1>2 DEF Good, Numbered, Answered, InUse
  <1>5. ASSUME k.cbs.mode # "none"
        PROVE  /\ s \in O /\ s <= k.cbs.cmd.n /\ k.cbs.cmd.n \in Int
               /\ AllNear(x.wire, B, k.cbs.cmd.n)
    <2>1. s \in O /\ s <= k.cbs.cmd.n
      BY <1>5 DEF Good, Pipes
    <2>2. k.cbs.cmd.n \in Int
      <3>1. k.cbs.cmd \in Commands
        BY <1>5, InSlot DEF Good
      <3> QED
        BY <3>1, CmdFields DEF Numbers
    <2>3. Near(B, s, k.cbs.cmd.n)
      <3>1. s \in B /\ s <= s
        BY <2>1
      <3>2. s = k.cbs.cmd.n \/ s < k.cbs.cmd.n
        BY <2>1, <2>2
      <3> QED
        BY <3>1, <3>2 DEF Near
    <2>4. AllNear(k.wire, B, k.cbs.cmd.n)
      BY <1>5 DEF Good, Pipes
    <2>5. k.wire \in Seq(Lines)
      BY KFields
    <2>6. AllNear(x.wire, B, k.cbs.cmd.n)
      <3>1. /\ x.wire = Append(k.wire, line) /\ line.of = s
            /\ line \in Lines
        BY <1>1, <1>2
      <3>2. /\ Append(k.wire, line)[Len(k.wire) + 1] = line
            /\ \A i \in 1 .. Len(k.wire) : Append(k.wire, line)[i] = k.wire[i]
            /\ \A i \in 1 .. Len(Append(k.wire, line)) :
                 i \in 1 .. Len(k.wire) \/ i = Len(k.wire) + 1
        BY ONLY <2>5, <3>1, Appended
      <3> QED
        BY ONLY <2>3, <2>4, <3>1, <3>2 DEF AllNear
    <2> QED
      BY <2>1, <2>2, <2>6
  <1>6. Pipes(x, NoCmd, s, B, O, ks)
    BY <1>2, <1>5 DEF Good, Pipes
  <1>7. ASSUME k.cbs.mode # "none", Orderly(B, O, k.cbs.cmd.n) PROVE FALSE
    <2>1. s # k.cbs.cmd.n /\ s >= k.cbs.cmd.n
      BY <1>5, <1>7 DEF Orderly
    <2> QED
      BY <1>5, <1>7, <2>1
  <1>8. Tidies(x, NoCmd, B, O, h)
    BY <1>2, <1>7 DEF Tidies
  <1> QED
    BY <1>2, <1>3, <1>4, <1>6, <1>8 DEF Good

-----------------------------------------------------------------------------
(***************************************************************************)
(* The loop of recv().                                                     *)
(***************************************************************************)

LEMMA OrderlyDown ==
  ASSUME NEW B, NEW O, O \subseteq B, B \subseteq Int,
         NEW n \in Int, NEW m \in Int, n <= m, Orderly(B, O, m)
  PROVE  Orderly(B, O, n)
  <1>1. m \notin O /\ \A b \in B : b >= m
    BY DEF Orderly
  <1>2. n \notin O
    <2>1. ASSUME n \in O PROVE FALSE
      <3>1. n >= m
        BY <1>1, <2>1
      <3>2. n = m
        BY <3>1
      <3> QED
        BY <1>1, <2>1, <3>2
    <2> QED
      BY <2>1
  <1>3. ASSUME NEW b \in B PROVE b >= n
    <2>1. b >= m
      BY <1>1
    <2> QED
      BY <1>3, <2>1
  <1> QED
    BY <1>2, <1>3 DEF Orderly

LEMMA Shifted ==
  ASSUME NEW a \in Nat, NEW b \in Nat, a >= 1,
         NEW i, NEW w, NEW g, NEW s, NEW t,
         \A j \in 1 .. a + b : s[j] = IF j <= a THEN i[j] ELSE w[j - a],
         \A j \in 1 .. (a - 1) + b :
           t[j] = IF j <= a - 1 THEN g[j] ELSE w[j - (a - 1)],
         \A j \in 1 .. a - 1 : g[j] = i[j + 1],
         NEW j \in 1 .. (a - 1) + b
  PROVE  t[j] = s[j + 1] /\ j + 1 \in 1 .. a + b
  <1>1. j + 1 \in 1 .. a + b
    OBVIOUS
  <1>2. CASE j <= a - 1
    <2>1. j \in 1 .. a - 1 /\ j + 1 <= a
      BY <1>2
    <2>2. s[j + 1] = i[j + 1]
      BY <1>1, <2>1
    <2>3. t[j] = g[j]
      BY <1>2
    <2>4. g[j] = i[j + 1]
      BY <2>1
    <2> QED
      BY <1>1, <2>2, <2>3, <2>4
  <1>3. CASE ~(j <= a - 1)
    <2>1. ~(j + 1 <= a) /\ (j + 1) - a = j - (a - 1)
      BY <1>3
    <2>2. s[j + 1] = w[(j + 1) - a]
      BY <1>1, <2>1
    <2>3. t[j] = w[j - (a - 1)]
      BY <1>3
    <2> QED
      BY <1>1, <2>1, <2>2, <2>3
  <1> QED
    BY <1>2, <1>3

\* The first line of what has arrived and what has not.
LEMMA FirstLine ==
  ASSUME NEW i \in Seq(Lines), NEW w \in Seq(Lines), i # <<>>
  PROVE  /\ Head(i) \in Lines /\ Head(i) = (i \o w)[1]
         /\ i \o w \in Seq(Lines) /\ Len(i \o w) = Len(i) + Len(w)
         /\ Len(i) >= 1
         /\ Tail(i) \o w \in Seq(Lines) /\ Len(Tail(i) \o w) = Len(i) + Len(w) - 1
         /\ Len(Tail(i)) = Len(i) - 1 /\ Tail(i) \in Seq(Lines)
         /\ \A j \in 1 .. Len(Tail(i) \o w) :
              /\ (Tail(i) \o w)[j] = (i \o w)[j + 1]
              /\ j + 1 \in 1 .. Len(i \o w)
  <1>1. /\ Len(i) \in Nat /\ Len(i) # 0 /\ Len(w) \in Nat
    BY NoLines
  <1>2. /\ Head(i) \in Lines /\ Tail(i) \in Seq(Lines) /\ Len(Tail(i)) = Len(i) - 1
        /\ \A j \in 1 .. Len(Tail(i)) : Tail(i)[j] = i[j + 1]
    BY HeadTailProperties
  <1>3. Head(i) = i[1]
    OBVIOUS
  <1>4. /\ i \o w \in Seq(Lines) /\ Len(i \o w) = Len(i) + Len(w)
        /\ \A j \in 1 .. Len(i) + Len(w) :
             (i \o w)[j] = IF j <= Len(i) THEN i[j] ELSE w[j - Len(i)]
    BY ConcatProperties
  <1>5. /\ Tail(i) \o w \in Seq(Lines)
        /\ Len(Tail(i) \o w) = Len(Tail(i)) + Len(w)
        /\ \A j \in 1 .. Len(Tail(i)) + Len(w) :
             (Tail(i) \o w)[j] =
               IF j <= Len(Tail(i)) THEN Tail(i)[j] ELSE w[j - Len(Tail(i))]
    BY <1>2, ConcatProperties
  <1>6. (i \o w)[1] = i[1]
    BY <1>1, <1>4
  <1>7. \A j \in 1 .. Len(Tail(i) \o w) :
          (Tail(i) \o w)[j] = (i \o w)[j + 1] /\ j + 1 \in 1 .. Len(i \o w)
    <2> DEFINE s == i \o w
               t == Tail(i) \o w
               g == Tail(i)
               a == Len(i)
               b == Len(w)
    <2>1. a \in Nat /\ b \in Nat /\ a >= 1
      BY <1>1
    <2>2. \A j \in 1 .. a + b : s[j] = IF j <= a THEN i[j] ELSE w[j - a]
      BY <1>4
    <2>3. \A j \in 1 .. (a - 1) + b :
            t[j] = IF j <= a - 1 THEN g[j] ELSE w[j - (a - 1)]
      BY <1>2, <1>5
    <2>4. \A j \in 1 .. a - 1 : g[j] = i[j + 1]
      BY <1>2
    <2>5. Len(t) = (a - 1) + b /\ Len(s) = a + b
      BY <1>2, <1>4, <1>5
    <2> HIDE DEF s, t, g, a, b
    <2>6. ASSUME NEW j \in 1 .. Len(t)
          PROVE  t[j] = s[j + 1] /\ j + 1 \in 1 .. Len(s)
      <3>1. j \in 1 .. (a - 1) + b
        BY <2>5
      <3>2. t[j] = s[j + 1] /\ j + 1 \in 1 .. a + b
        BY <2>1, <2>2, <2>3, <2>4, <3>1, Shifted
      <3> QED
        BY <2>5, <3>2
    <2>7. \A j \in 1 .. Len(t) : t[j] = s[j + 1] /\ j + 1 \in 1 .. Len(s)
      BY <2>6
    <2> QED
      BY <2>7 DEF s, t
  <1>8. Len(Tail(i) \o w) = Len(i) + Len(w) - 1
    BY <1>1, <1>2, <1>5
  <1> QED
    BY <1>1, <1>2, <1>3, <1>4, <1>5, <1>6, <1>7, <1>8

\* A reply starts with a line that is last, with one that another follows, or
\* with the first line of a data reply.
LEMMA AfterLine ==
  ASSUME NEW cmd, NEW i \in Seq(Lines), NEW w \in Seq(Lines), i # <<>>,
         Reply(i \o w, cmd)
  PROVE  /\ Head(i).of = cmd.n
         /\ Head(i).code \notin {"blank", "short", "nodigit"}
         /\ Ends(Head(i)) => Tail(i) = <<>> /\ w = <<>>
         /\ Head(i).type = "-" =>
              Tail(i) \o w # <<>> /\ Reply(Tail(i) \o w, cmd)
  <1> DEFINE s == i \o w
             t == Tail(i) \o w
  <1>1. /\ Head(i) = s[1]
        /\ s \in Seq(Lines) /\ Len(s) = Len(i) + Len(w) /\ Len(i) >= 1
        /\ t \in Seq(Lines) /\ Len(t) = Len(i) + Len(w) - 1
        /\ Len(Tail(i)) = Len(i) - 1 /\ Tail(i) \in Seq(Lines)
        /\ \A j \in 1 .. Len(t) : t[j] = s[j + 1] /\ j + 1 \in 1 .. Len(s)
    BY FirstLine
  <1>2. Len(i) \in Nat /\ Len(w) \in Nat
    BY NoLines
  <1>3. \A j \in 1 .. Len(s) : s[j].of = cmd.n
    BY DEF Reply
  <1>4. \/ Len(s) = 1 /\ Final(s[1])
        \/ /\ Len(s) = 2 /\ s[1].code = "250" /\ s[1].type = "-" /\ Final(s[2])
        \/ /\ Len(s) = 4 /\ s[1].code = "250" /\ s[1].type = "+"
    <2>1. s # <<>>
      BY <1>1, <1>2, NoLines
    <2> QED
      BY <2>1 DEF Reply
  <1> HIDE DEF s, t
  <1>5. s[1].of = cmd.n
    <2>1. 1 \in 1 .. Len(s)
      BY <1>1, <1>2
    <2> QED
      BY <1>3, <2>1
  <1>6. s[1].code \notin {"blank", "short", "nodigit"}
    BY <1>4 DEF Final
  <1>7. ASSUME Ends(s[1]) PROVE Tail(i) = <<>> /\ w = <<>>
    <2>1. Len(s) = 1
      BY <1>4, <1>7 DEF Ends
    <2>2. Len(Tail(i)) = 0 /\ Len(w) = 0
      BY <1>1, <1>2, <2>1
    <2> QED
      BY <1>1, <2>2, NoLines
  <1>8. ASSUME s[1].type = "-" PROVE t # <<>> /\ Reply(t, cmd)
    <2>1. Len(s) = 2 /\ Final(s[2])
      BY <1>4, <1>8 DEF Final, Ends
    <2>2. Len(t) = 1
      <3>1. Len(i) + Len(w) = 2
        BY <1>1, <2>1
      <3> QED
        BY <1>1, <1>2, <3>1
    <2>3. t # <<>>
      BY <1>1, <2>2, NoLines
    <2>4. \A j \in 1 .. Len(t) : t[j].of = cmd.n
      BY <1>1, <1>3
    <2>5. t[1] = s[2]
      <3>1. 1 \in 1 .. Len(t)
        BY <2>2
      <3>2. t[1] = s[1 + 1]
        BY <1>1, <3>1
      <3> QED
        BY <3>2
    <2> QED
      BY <2>1, <2>2, <2>3, <2>4, <2>5 DEF Reply
  <1> QED
    BY <1>1, <1>5, <1>6, <1>7, <1>8 DEF s, t

\* More commands that went wrong.
LEMMA GoodWorse ==
  ASSUME NEW k, NEW a, NEW s, NEW cl, NEW B, NEW O, NEW C, NEW P,
         B \subseteq C, O \subseteq P, NEW ks, NEW h,
         Good(k, a, s, cl, B, O, ks, h)
  PROVE  Good(k, a, s, cl, C, P, ks, h)
  <1>1. Pipes(k, a, s, C, P, ks)
    <2>1. Pipes(k, a, s, B, O, ks)
      BY DEF Good
    <2>2. ASSUME k.cbs.mode # "none"
          PROVE  /\ AllGiven(k.sent, ks, C, k.cbs.cmd.n)
                 /\ ~k.fin => AllGiven(k.out, ks, C, k.cbs.cmd.n)
                 /\ AllNear(k.wire, C, k.cbs.cmd.n)
                 /\ a = NoCmd => AllNear(k.input, C, k.cbs.cmd.n)
                 /\ s # 0 => s \in P /\ s <= k.cbs.cmd.n
      BY <2>1, <2>2, AllGivenMore, AllNearMore DEF Pipes
    <2>3. a # NoCmd => AllNear(k.input, C, a.n)
      BY <2>1, AllNearMore DEF Pipes
    <2> QED
      BY <2>2, <2>3 DEF Pipes
  <1>2. Tidies(k, a, C, P, h)
    BY OrderlyLess DEF Good, Tidies
  <1> QED
    BY <1>1, <1>2 DEF Good

\* The command whose line is read is the one in the slots.
LEMMA RunningOne ==
  ASSUME NEW k \in K, NEW a \in Commands, NEW s, NEW cl,
         NEW B, NEW O, O \subseteq B, B \subseteq Int, NEW ks, NEW h,
         Good(k, a, s, cl, B, O, ks, h), k.input # <<>>,
         k.cbs.mode # "none", Orderly(B, O, k.cbs.cmd.n)
  PROVE  k.cbs.cmd.n = a.n
  <1>1. a # NoCmd
    BY CmdFields
  <1>2. a.n \in Int
    BY CmdFields DEF Numbers
  <1>3. k.cbs.cmd.n \in Int
    <2>1. k.cbs.cmd \in Commands
      BY InSlot DEF Good
    <2> QED
      BY <2>1, CmdFields DEF Numbers
  <1>4. a.n <= k.cbs.cmd.n
    BY <1>1 DEF Good, Numbered
  <1>5. Orderly(B, O, a.n)
    BY <1>2, <1>3, <1>4, OrderlyDown
  <1>6. Reply(k.input \o k.wire, a) /\ Reply(k.input \o k.wire, k.cbs.cmd)
    BY <1>1, <1>5 DEF Good, Tidies, Tidy, Current
  <1>7. k.input \in Seq(Lines) /\ k.wire \in Seq(Lines)
    BY KFields
  <1>8. Head(k.input).of = a.n
    BY <1>6, <1>7, AfterLine
  <1>9. Head(k.input).of = k.cbs.cmd.n
    BY <1>6, <1>7, AfterLine
  <1> QED
    BY <1>8, <1>9

\* The result of GETINFO is followed by the end of the reply.
LEMMA TidyNext ==
  ASSUME NEW k \in K, NEW cmd, NEW r, Tidy(k, cmd, r), k.input # <<>>,
         Head(k.input).type = "-",
         NEW x, x.input = Tail(k.input), x.wire = k.wire
  PROVE  Tidy(x, cmd, r) /\ Replied(x) /\ ~Told(r)
  <1>1. k.input \in Seq(Lines) /\ k.wire \in Seq(Lines)
    BY KFields
  <1>2. Reply(k.input \o k.wire, cmd) /\ ~Told(r) /\ Len(r) + One(Replied(k)) <= 3
    BY DEF Tidy
  <1>3. Tail(k.input) \o k.wire # <<>> /\ Reply(Tail(k.input) \o k.wire, cmd)
    BY <1>1, <1>2, AfterLine
  <1>4. x.input \o x.wire # <<>> /\ Reply(x.input \o x.wire, cmd)
    BY <1>3
  <1>5. Replied(x)
    <2>1. x.input = <<>> /\ x.wire = <<>> => x.input \o x.wire = <<>>
      BY <1>1, EmptyJoin
    <2> QED
      BY <1>4, <2>1 DEF Replied
  <1>6. Replied(k)
    BY DEF Replied
  <1>7. Len(r) + One(Replied(x)) <= 3
    BY <1>2, <1>5, <1>6 DEF One
  <1> QED
    BY <1>2, <1>4, <1>5, <1>7 DEF Tidy

\* What taking a line from the buffer does not disturb.
LEMMA TakenGood ==
  ASSUME NEW k \in K, NEW a \in Commands, NEW s, NEW cl,
         NEW B, NEW O, B \subseteq Int, NEW ks, NEW h,
         Good(k, a, s, cl, B, O, ks, h), k.input # <<>>,
         NEW x, x = Taken(k),
         NEW b, b = a \/ b = NoCmd, b = NoCmd => \E m \in B : m <= a.n
  PROVE  /\ x \in K /\ Modes(x, s, cl) /\ Numbered(x, b, cl, ks)
         /\ Answered(x, cl, ks, h) /\ Pipes(x, b, s, B, O, ks)
  <1>1. a # NoCmd /\ a.n \in Int
    BY CmdFields DEF Numbers
  <1>2. /\ x \in K /\ x.bev = k.bev /\ x.cbs = k.cbs
        /\ (x.reads <=> k.reads) /\ (x.writes <=> k.writes) /\ (x.fin <=> k.fin)
        /\ x.out = k.out /\ x.sent = k.sent
        /\ x.wire = k.wire /\ x.input = Tail(k.input)
    BY TakenFacts
  <1>3. Modes(x, s, cl)
    BY <1>2 DEF Good, Modes, InUse, Quiet
  <1>4. Numbered(x, b, cl, ks)
    BY <1>2 DEF Good, Numbered, InUse
  <1>5. Answered(x, cl, ks, h)
    BY <1>2 DEF Good, Answered, InUse
  <1>6. k.input \in Seq(Lines)
    BY KFields
  <1>7. AllNear(x.input, B, a.n)
    <2>1. AllNear(k.input, B, a.n)
      BY <1>1 DEF Good, Pipes
    <2> QED
      BY <1>2, <1>6, <2>1, FirstNear
  <1>8. ASSUME b = NoCmd, k.cbs.mode # "none"
        PROVE  AllNear(x.input, B, k.cbs.cmd.n)
    <2>1. a.n <= k.cbs.cmd.n
      BY <1>1, <1>8 DEF Good, Numbered
    <2>2. k.cbs.cmd.n \in Int
      <3>1. k.cbs.cmd \in Commands
        BY <1>8, InSlot DEF Good
      <3> QED
        BY <3>1, CmdFields DEF Numbers
    <2>3. CASE a.n = k.cbs.cmd.n
      BY <1>7, <2>3
    <2>4. CASE a.n < k.cbs.cmd.n
      <3>1. ASSUME NEW i \in 1 .. Len(x.input)
            PROVE  Near(B, x.input[i].of, k.cbs.cmd.n)
        <4>1. Near(B, x.input[i].of, a.n)
          BY <1>7 DEF AllNear
        <4>2. x.input \in Seq(Lines)
          BY <1>2, KFields
        <4>3. x.input[i].of \in Int
          <5>1. x.input[i] \in Lines
            BY <4>2
          <5> QED
            BY <5>1, LineFields
        <4> QED
          BY <1>1, <1>8, <2>2, <2>4, <4>1, <4>3, NearLater
      <3> QED
        BY <3>1 DEF AllNear
    <2> QED
      BY <1>1, <2>1, <2>2, <2>3, <2>4
  <1>9. Pipes(x, b, s, B, O, ks)
    BY <1>1, <1>2, <1>7, <1>8 DEF Good, Pipes
  <1> QED
    BY <1>2, <1>3, <1>4, <1>5, <1>9

\* A line is taken of which the callback hears nothing: a blank one, the result
\* of GETINFO, or the reply to a subscription.
LEMMA GoodSkip ==
  ASSUME NEW k \in K, NEW a \in Commands, NEW s, NEW cl,
         NEW B, NEW O, O \subseteq B, B \subseteq Int, NEW ks, NEW h,
         Good(k, a, s, cl, B, O, ks, h), k.input # <<>>,
         \A n \in 1 .. Len(ks) : ~Orderly(B, O, n) => \E m \in B : m <= n,
         NEW x, x = Taken(k), NEW line, line = Head(k.input),
         NEW b, b = IF Stops(line) THEN NoCmd ELSE a,
         line.code = "blank" \/ line.type = "-" \/ a.n \in O
  PROVE  x \in K /\ Good(x, b, s, cl, B, O, ks, h)
  <1>1. a # NoCmd /\ a.n \in 1 .. Len(ks)
    BY CmdFields DEF Good, Numbered, IsGiven
  <1>2. k.input \in Seq(Lines) /\ k.wire \in Seq(Lines)
    BY KFields
  <1>3. ASSUME Orderly(B, O, a.n)
        PROVE  ~Stops(line) /\ line.type = "-" /\ Tidy(k, a, h[a.n])
    <2>1. Tidy(k, a, h[a.n])
      BY <1>1, <1>3 DEF Good, Tidies
    <2>2. Reply(k.input \o k.wire, a)
      BY <2>1 DEF Tidy
    <2>3. line.code \notin {"blank", "short", "nodigit"}
      BY <1>2, <2>2, AfterLine
    <2>4. a.n \notin O
      BY <1>3 DEF Orderly
    <2> QED
      BY <2>1, <2>3, <2>4 DEF Stops
  <1>4. b = NoCmd => \E m \in B : m <= a.n
    BY <1>1, <1>3
  <1>5. b = a \/ b = NoCmd
    OBVIOUS
  <1>6. /\ x \in K /\ Modes(x, s, cl) /\ Numbered(x, b, cl, ks)
        /\ Answered(x, cl, ks, h) /\ Pipes(x, b, s, B, O, ks)
    <2> HIDE DEF Taken
    <2>1. a \in Commands /\ k \in K /\ B \subseteq Int
      OBVIOUS
    <2>2. Good(k, a, s, cl, B, O, ks, h) /\ k.input # <<>> /\ x = Taken(k)
      OBVIOUS
    <2> QED
      BY ONLY <1>4, <1>5, <2>1, <2>2, TakenGood
  <1>7. /\ x.bev = k.bev /\ x.cbs = k.cbs
        /\ (x.reads <=> k.reads) /\ (x.writes <=> k.writes) /\ (x.fin <=> k.fin)
        /\ x.out = k.out /\ x.sent = k.sent
        /\ x.wire = k.wire /\ x.input = Tail(k.input)
    BY TakenFacts
  <1>8. ASSUME k.cbs.mode # "none", Orderly(B, O, k.cbs.cmd.n)
        PROVE  Current(x, b, h[k.cbs.cmd.n])
    <2> DEFINE r == h[k.cbs.cmd.n]
    <2>1. k.cbs.cmd.n = a.n
      BY <1>8, RunningOne
    <2>2. ~Stops(line) /\ line.type = "-"
      BY <1>3, <1>8, <2>1
    <2>3. Current(k, a, r)
      BY <1>8 DEF Good, Tidies
    <2> HIDE DEF r
    <2>4. Tidy(k, k.cbs.cmd, r)
      BY <2>3 DEF Current
    <2>5. Tidy(x, k.cbs.cmd, r) /\ Replied(x) /\ ~Told(r)
      BY <1>7, <2>2, <2>4, TidyNext
    <2>6. b = a
      BY <2>2
    <2>7. k.cbs.mode # "send" /\ k.sent = <<>>
      BY <1>8, <2>3, KFields DEF Current, Good, Modes, Quiet
    <2>8. Replied(k)
      BY DEF Replied
    <2>9. Chances(x) = Chances(k)
      BY <1>7, <2>5, <2>8 DEF Chances, One
    <2>10. Current(x, b, r)
      BY <1>1, <1>7, <2>3, <2>5, <2>6, <2>7, <2>9 DEF Current
    <2> QED
      BY <2>10 DEF r
  <1>9. ASSUME b # NoCmd, Orderly(B, O, b.n) PROVE Tidy(x, b, h[b.n])
    <2>1. b = a
      BY <1>5, <1>9
    <2>2. line.type = "-" /\ Tidy(k, a, h[a.n])
      BY <1>3, <1>9, <2>1
    <2> QED
      BY <1>7, <2>1, <2>2, TidyNext
  <1>10. Tidies(x, b, B, O, h)
    BY <1>7, <1>8, <1>9 DEF Tidies
  <1> QED
    BY <1>6, <1>10 DEF Good

\* A callback hears something, of a line or of the connection, while the slots
\* are in use or the client has closed.
LEMMA HearAnswered ==
  ASSUME NEW k, NEW cl, NEW ks \in Seq(Kinds), Len(ks) <= MaxCmds,
         NEW h \in Heard, Answered(k, cl, ks, h), k.cbs.mode # "connect",
         cl \/ InUse(k),
         NEW n \in 1 .. Len(ks), NEW e \in Entry, NEW g, g = Hears(h, n, e)
  PROVE  Answered(k, cl, ks, g)
  <1>1. g[n] = Append(h[n], e) /\ h[n] \in Seq(Entry)
    BY HearSets
  <1>2. \A m \in Numbers : m # n => g[m] = h[m]
    BY DEF Hears, Heard
  <1>3. g[n] # <<>>
    BY <1>1, Appended
  <1>4. 1 .. Len(ks) \subseteq Numbers
    BY BoundsAssumption DEF Numbers
  <1>5. \A m \in 1 .. Len(ks) : m < Len(ks) => g[m] # <<>> \/ ks[m] = "events"
    BY <1>2, <1>3, <1>4 DEF Answered
  <1>6. \A m \in Numbers : m > Len(ks) => g[m] = <<>>
    BY <1>2 DEF Answered
  <1> QED
    BY <1>5, <1>6 DEF Answered

\* A line is taken and heard.
LEMMA GoodHear ==
  ASSUME NEW k \in K, NEW a \in Commands, NEW s, NEW cl,
         NEW B, NEW O, O \subseteq B, B \subseteq Int,
         NEW ks \in Seq(Kinds), Len(ks) <= MaxCmds, NEW h \in Heard,
         Good(k, a, s, cl, B, O, ks, h), k.input # <<>>,
         NEW x, x = Taken(k), NEW line, line = Head(k.input),
         NEW b, b = IF Stops(line) THEN NoCmd ELSE a,
         NEW e \in Entry, NEW g, g = Hears(h, a.n, e),
         e.more => a.n \in O,
         ~e.more => ~Stops(line) /\ Ends(line)
  PROVE  x \in K /\ Good(x, b, s, cl, B, O, ks, g)
  <1>1. a # NoCmd /\ a.n \in 1 .. Len(ks)
    BY CmdFields DEF Good, Numbered, IsGiven
  <1>2. k.input \in Seq(Lines) /\ k.wire \in Seq(Lines)
    BY KFields
  <1>3. ASSUME Orderly(B, O, a.n)
        PROVE  /\ ~Stops(line) /\ Tidy(k, a, h[a.n])
               /\ Tail(k.input) = <<>> /\ k.wire = <<>>
    <2>1. ~e.more
      BY <1>3 DEF Orderly
    <2>2. ~Stops(line) /\ Ends(line)
      BY <2>1
    <2>3. Tidy(k, a, h[a.n])
      BY <1>1, <1>3 DEF Good, Tidies
    <2>4. Reply(k.input \o k.wire, a)
      BY <2>3 DEF Tidy
    <2>5. Tail(k.input) = <<>> /\ k.wire = <<>>
      BY <1>2, <2>2, <2>4, AfterLine
    <2> QED
      BY <2>2, <2>3, <2>5
  <1>4. b = NoCmd => \E m \in B : m <= a.n
    <2>1. b = NoCmd => a.n \in B
      BY <1>1
    <2>2. a.n <= a.n
      BY <1>1
    <2> QED
      BY <2>1, <2>2
  <1>5. b = a \/ b = NoCmd
    OBVIOUS
  <1>6. /\ x \in K /\ Modes(x, s, cl) /\ Numbered(x, b, cl, ks)
        /\ Answered(x, cl, ks, h) /\ Pipes(x, b, s, B, O, ks)
    <2>1. a \in Commands /\ k \in K /\ B \subseteq Int
      OBVIOUS
    <2>2. Good(k, a, s, cl, B, O, ks, h) /\ k.input # <<>> /\ x = Taken(k)
      OBVIOUS
    <2> QED
      BY ONLY <1>4, <1>5, <2>1, <2>2, TakenGood
  <1>7. /\ x.bev = k.bev /\ x.cbs = k.cbs
        /\ (x.reads <=> k.reads) /\ (x.writes <=> k.writes) /\ (x.fin <=> k.fin)
        /\ x.out = k.out /\ x.sent = k.sent
        /\ x.wire = k.wire /\ x.input = Tail(k.input)
    BY TakenFacts
  <1>8. k.cbs.mode # "connect" /\ (cl \/ InUse(k))
    BY <1>1 DEF Good, Modes, Quiet, Numbered
  <1>9. Answered(x, cl, ks, g)
    <2>1. x.cbs.mode # "connect" /\ (cl \/ InUse(x))
      BY <1>7, <1>8 DEF InUse
    <2> QED
      BY <1>1, <1>6, <2>1, HearAnswered
  <1>10. g[a.n] = Append(h[a.n], e) /\ h[a.n] \in Seq(Entry)
    BY <1>1, HearSets
  <1>11. ASSUME Orderly(B, O, a.n)
         PROVE  /\ ~Replied(x) /\ \A cmd : Tidy(x, cmd, g[a.n])
    <2>1. x.input = <<>> /\ x.wire = <<>>
      BY <1>3, <1>7, <1>11
    <2>2. ~Replied(x)
      BY <2>1 DEF Replied
    <2>3. Len(h[a.n]) + One(Replied(k)) <= 3
      BY <1>3, <1>11 DEF Tidy
    <2>4. One(Replied(k)) = 1 /\ One(Replied(x)) = 0
      BY <2>2 DEF One, Replied
    <2>5. Len(g[a.n]) = Len(h[a.n]) + 1 /\ Len(h[a.n]) \in Nat
      BY <1>10, Appended
    <2>6. Len(g[a.n]) + One(Replied(x)) <= 3
      BY <2>3, <2>4, <2>5
    <2>7. \A cmd : Reply(x.input \o x.wire, cmd)
      <3>1. <<>> \o <<>> = <<>>
        OBVIOUS
      <3> QED
        BY <2>1, <3>1, NoReply
    <2>8. \A cmd : Tidy(x, cmd, g[a.n])
      BY <2>1, <2>6, <2>7 DEF Tidy
    <2> QED
      BY <2>2, <2>8
  <1>12. ASSUME k.cbs.mode # "none", Orderly(B, O, k.cbs.cmd.n)
         PROVE  Current(x, b, g[k.cbs.cmd.n])
    <2> DEFINE r == h[a.n]
               q == g[a.n]
    <2>1. k.cbs.cmd.n = a.n
      BY <1>12, RunningOne
    <2>2. Current(k, a, r)
      BY <1>12, <2>1 DEF Good, Tidies
    <2>3. Orderly(B, O, a.n)
      BY <1>12, <2>1
    <2>4. b = a
      BY <1>3, <2>3
    <2>5. ~Replied(x) /\ Tidy(x, k.cbs.cmd, q)
      BY <1>11, <2>3
    <2>6. Len(q) = Len(r) + 1 /\ Len(r) \in Nat
      BY <1>10, Appended
    <2> HIDE DEF r, q
    <2>7. k.cbs.mode = "recv" /\ k.sent = <<>>
      BY <1>8, <1>12, <2>2, KFields DEF Current
    <2>8. Replied(k)
      BY DEF Replied
    <2>9. Chances(x) + 1 = Chances(k) /\ Chances(x) \in Nat
      BY <1>7, <2>5, <2>7, <2>8 DEF Chances, One
    <2>10. Len(q) + Chances(x) <= 3
      BY <2>2, <2>6, <2>9 DEF Current
    <2>11. Current(x, b, q)
      BY <1>1, <1>7, <2>2, <2>4, <2>5, <2>7, <2>10 DEF Current
    <2> QED
      BY <2>1, <2>11 DEF q
  <1>13. ASSUME b # NoCmd, Orderly(B, O, b.n) PROVE Tidy(x, b, g[b.n])
    BY <1>5, <1>11, <1>13
  <1>14. Tidies(x, b, B, O, g)
    BY <1>7, <1>12, <1>13 DEF Tidies
  <1> QED
    BY <1>6, <1>9, <1>14 DEF Good

-----------------------------------------------------------------------------
(***************************************************************************)
(* Events of the connection.                                               *)
(***************************************************************************)

\* The connection reads or writes no more, and the callback in the slots hears
\* of it.
LEMMA GoodEvent ==
  ASSUME NEW k \in K, NEW s, NEW cl, NEW B, NEW O,
         NEW ks \in Seq(Kinds), Len(ks) <= MaxCmds, NEW h \in Heard,
         Good(k, NoCmd, s, cl, B, O, ks, h), k.cbs.mode # "none",
         k.bev # "connecting",
         NEW x \in K, x.bev = k.bev, x.cbs = k.cbs, x.fin <=> k.fin,
         x.reads => k.reads,
         x.out = k.out, x.sent = k.sent, x.input = k.input,
         x.wire = k.wire \/ x.wire = <<>>,
         NEW e \in Entry, NEW g, g = Hears(h, k.cbs.cmd.n, e),
         Orderly(B, O, k.cbs.cmd.n) =>
           /\ Chances(x) + 1 <= Chances(k)
           /\ x.wire # k.wire => k.input = <<>>
           /\ e.status # "TIMEOUT_ERROR" =>
                /\ x.wire = <<>> /\ k.input = <<>>
                /\ k.sent = <<>> /\ k.fin
  PROVE  Good(x, NoCmd, s, cl, B, O, ks, g)
  <1>1. Modes(x, s, cl)
    BY DEF Good, Modes, InUse, Quiet
  <1>2. Numbered(x, NoCmd, cl, ks)
    BY DEF Good, Numbered
  <1>3. InUse(k) /\ k.cbs.mode # "connect"
    BY KFields DEF Good, Modes, InUse
  <1>4. k.cbs.cmd.n \in 1 .. Len(ks)
    BY DEF Good, Numbered, IsGiven
  <1>5. Answered(x, cl, ks, g)
    <2>1. Answered(x, cl, ks, h)
      BY DEF Good, Answered, InUse
    <2>2. x.cbs.mode # "connect" /\ (cl \/ InUse(x))
      BY <1>3 DEF InUse
    <2> QED
      BY <1>4, <2>1, <2>2, HearAnswered
  <1>6. Pipes(x, NoCmd, s, B, O, ks)
    BY NothingNear DEF Good, Pipes
  <1>7. /\ g[k.cbs.cmd.n] = Append(h[k.cbs.cmd.n], e)
        /\ h[k.cbs.cmd.n] \in Seq(Entry)
    <2>1. PICK n \in 1 .. Len(ks) : n = k.cbs.cmd.n
      BY <1>4
    <2>2. /\ n \in 1 .. Len(ks)
          /\ g = Hears(h, n, e) /\ h \in Heard /\ e \in Entry
          /\ ks \in Seq(Kinds) /\ Len(ks) <= MaxCmds
      BY <2>1
    <2>3. g[n] = Append(h[n], e) /\ h[n] \in Seq(Entry)
      BY ONLY <2>2, HearSets
    <2> QED
      BY <2>1, <2>3
  <1>8. ASSUME Orderly(B, O, k.cbs.cmd.n)
        PROVE  Current(x, NoCmd, g[k.cbs.cmd.n])
    <2> DEFINE r == h[k.cbs.cmd.n]
               q == g[k.cbs.cmd.n]
    <2>1. Current(k, NoCmd, r)
      BY <1>8 DEF Good, Tidies
    <2>2. Len(q) = Len(r) + 1 /\ Len(r) \in Nat
      BY <1>7, Appended
    <2>3. Told(q) <=> Told(r) \/ e.status # "TIMEOUT_ERROR"
      BY <1>7, ToldMore
    <2> HIDE DEF r, q
    <2>4. Chances(x) \in Nat /\ Chances(k) \in Nat /\ One(Replied(x)) <= Chances(x)
          /\ One(Replied(x)) \in Nat
      BY DEF Chances, One
    <2>5. Len(q) + Chances(x) <= 3
      <3>1. Len(r) + Chances(k) <= 3
        BY <2>1 DEF Current
      <3>2. Chances(x) + 1 <= Chances(k)
        BY <1>8
      <3> QED
        BY <2>2, <2>4, <3>1, <3>2
    <2>6. Len(q) + One(Replied(x)) <= 3
      BY <2>2, <2>4, <2>5
    <2>7. Reply(x.input \o x.wire, x.cbs.cmd)
      <3>1. CASE x.wire = k.wire
        BY <2>1, <3>1 DEF Current, Tidy
      <3>2. CASE x.wire # k.wire
        <4>1. x.wire = <<>> /\ x.input = <<>>
          BY <1>8, <3>2
        <4>2. <<>> \o <<>> = <<>>
          OBVIOUS
        <4> QED
          BY <4>1, <4>2, NoReply
      <3> QED
        BY <3>1, <3>2
    <2>8. Told(q) => /\ x.wire = <<>> /\ x.input = <<>> /\ x.sent = <<>>
                     /\ x.cbs.mode = "send" => x.fin
      <3>1. CASE Told(r)
        BY <2>1, <3>1 DEF Current, Tidy
      <3>2. CASE e.status # "TIMEOUT_ERROR"
        BY <1>8, <3>2
      <3> QED
        BY <2>3, <3>1, <3>2
    <2>9. Tidy(x, x.cbs.cmd, q)
      BY <2>6, <2>7, <2>8 DEF Tidy
    <2>10. Current(x, NoCmd, q)
      BY <2>1, <2>5, <2>8, <2>9 DEF Current
    <2> QED
      BY <2>10 DEF q
  <1>9. Tidies(x, NoCmd, B, O, g)
    BY <1>8 DEF Tidies
  <1> QED
    BY <1>1, <1>2, <1>5, <1>6, <1>9 DEF Good

\* No callback is in the slots.
LEMMA GoodSilent ==
  ASSUME NEW k \in K, NEW s, NEW cl, NEW B, NEW O, NEW ks, NEW h,
         Good(k, NoCmd, s, cl, B, O, ks, h), k.cbs.mode = "none",
         k.bev # "connecting",
         NEW x \in K, x.bev = k.bev, x.cbs = k.cbs, x.fin <=> k.fin,
         x.reads => k.reads,
         x.out = k.out, x.sent = k.sent, x.input = k.input,
         x.wire = k.wire \/ x.wire = <<>>
  PROVE  Good(x, NoCmd, s, cl, B, O, ks, h)
  <1>1. Modes(x, s, cl)
    BY DEF Good, Modes, InUse, Quiet
  <1>2. /\ Numbered(x, NoCmd, cl, ks) /\ Answered(x, cl, ks, h)
        /\ Pipes(x, NoCmd, s, B, O, ks) /\ Tidies(x, NoCmd, B, O, h)
    BY DEF Good, Numbered, Answered, Pipes, Tidies, InUse
  <1> QED
    BY <1>1, <1>2 DEF Good

\* The connection is refused, and the client has closed.
LEMMA GoodRefusedSilent ==
  ASSUME NEW k \in K, NEW s, NEW cl, NEW B, NEW O, NEW ks, NEW h,
         Good(k, NoCmd, s, cl, B, O, ks, h), k.cbs.mode = "none",
         k.bev = "connecting", NEW x, x = Close(Refused(k))
  PROVE  x \in K /\ Good(x, NoCmd, s, cl, B, O, ks, h)
  <1> DEFINE m == Refused(k)
  <1>1. /\ m \in K /\ m.bev = "failed" /\ m.sent = k.sent
    BY RefusedFacts
  <1> HIDE DEF m
  <1>2. /\ x \in K /\ x.bev = "failed" /\ x.cbs.mode = "none"
        /\ x.cbs.cmd = NoCmd /\ x.sent = k.sent
    BY <1>1, CloseFacts DEF m
  <1>3. k.sent = <<>>
    BY DEF Good, Modes, Quiet
  <1>4. Modes(x, s, cl)
    BY <1>2, <1>3 DEF Good, Modes, InUse
  <1>5. /\ Numbered(x, NoCmd, cl, ks) /\ Answered(x, cl, ks, h)
        /\ Pipes(x, NoCmd, s, B, O, ks) /\ Tidies(x, NoCmd, B, O, h)
    BY <1>2 DEF Good, Numbered, Answered, Pipes, Tidies, InUse
  <1> QED
    BY <1>2, <1>4, <1>5 DEF Good

\* The connection is refused, and its callback hears of it.
LEMMA GoodRefused ==
  ASSUME NEW k \in K, NEW s, NEW cl, NEW B, NEW O,
         NEW ks \in Seq(Kinds), Len(ks) <= MaxCmds, NEW h \in Heard,
         Good(k, NoCmd, s, cl, B, O, ks, h), k.cbs.mode # "none",
         k.bev = "connecting", NEW x, x = Close(Refused(k)),
         NEW e \in Entry, e.status # "OK",
         NEW g, g = Hears(h, k.cbs.cmd.n, e)
  PROVE  /\ x \in K /\ Good(x, NoCmd, s, cl, B, O, ks, g)
         /\ h[k.cbs.cmd.n] = <<>>
  <1> DEFINE m == Refused(k)
  <1>1. /\ m \in K /\ m.bev = "failed" /\ m.sent = k.sent
    BY RefusedFacts
  <1> HIDE DEF m
  <1>2. /\ x \in K /\ x.bev = "failed" /\ x.cbs.mode = "none"
        /\ x.cbs.cmd = NoCmd /\ x.sent = k.sent
    BY <1>1, CloseFacts DEF m
  <1>3. k.sent = <<>> /\ k.cbs.mode = "connect" /\ ~cl
    BY KFields DEF Good, Modes, Quiet, InUse
  <1>4. Modes(x, s, cl)
    BY <1>2, <1>3 DEF Good, Modes, InUse
  <1>5. /\ Numbered(x, NoCmd, cl, ks)
        /\ Pipes(x, NoCmd, s, B, O, ks) /\ Tidies(x, NoCmd, B, O, g)
    BY <1>2 DEF Good, Numbered, Pipes, Tidies
  <1>6. /\ k.cbs.cmd.n \in 1 .. Len(ks) /\ h[k.cbs.cmd.n] = <<>>
    BY <1>3 DEF Good, Numbered, IsGiven, Answered
  <1> DEFINE n == k.cbs.cmd.n
  <1>7. g[n] = Append(h[n], e) /\ h[n] \in Seq(Entry)
    BY <1>6, HearSets
  <1>8. \A j \in Numbers : j # n => g[j] = h[j]
    BY DEF Hears, Heard
  <1>9. g[n] # <<>> /\ g[n][1] = e
    BY <1>6, <1>7
  <1>10. n \in 1 .. Len(ks) /\ Answered(k, cl, ks, h)
    BY <1>6 DEF Good
  <1> HIDE DEF n
  <1>11. 1 .. Len(ks) \subseteq Numbers
    BY BoundsAssumption DEF Numbers
  <1>12. Answered(x, cl, ks, g)
    <2>1. \A j \in 1 .. Len(ks) : j < Len(ks) => g[j] # <<>> \/ ks[j] = "events"
      BY <1>8, <1>9, <1>10, <1>11 DEF Answered
    <2>2. \A j \in Numbers : j > Len(ks) => g[j] = <<>>
      BY <1>8, <1>10 DEF Answered
    <2>3. ~InUse(k)
      BY <1>3 DEF InUse
    <2>4. \A j \in 1 .. Len(ks) :
            ~(ks[j] = "auth" /\ g[j] # <<>> /\ g[j][1].status = "OK")
      BY <1>3, <1>8, <1>9, <1>10, <1>11, <2>3 DEF Answered
    <2> QED
      BY <1>2, <2>1, <2>2, <2>4 DEF Answered
  <1> QED
    BY <1>2, <1>4, <1>5, <1>6, <1>12 DEF Good

-----------------------------------------------------------------------------
(***************************************************************************)
(* The client gives a command.                                             *)
(***************************************************************************)

\* The client waits for no answer.
Free(ks, h) == ks # <<>> => ks[Len(ks)] = "events" \/ h[Len(ks)] # <<>>

LEMMA GivenLess ==
  ASSUME NEW ks \in Seq(Kinds), NEW cmd, IsGiven(cmd, ks)
  PROVE  cmd.n < Len(ks) + 1
  <1>1. Len(ks) \in Nat /\ cmd.n \in 1 .. Len(ks)
    BY DEF IsGiven
  <1> QED
    BY <1>1

\* The number of the command.
LEMMA GoodMore ==
  ASSUME NEW k \in K, NEW a, NEW s, NEW cl, NEW B, NEW O,
         NEW ks \in Seq(Kinds), Len(ks) < MaxCmds, NEW h \in Heard,
         Good(k, a, s, cl, B, O, ks, h),
         Free(ks, h),
         NEW kind \in Kinds, NEW js, js = Append(ks, kind),
         NEW n, n = Len(ks) + 1
  PROVE  /\ Good(k, a, s, cl, B, O, js, h)
         /\ n \in Numbers /\ h[n] = <<>>
  <1>1. /\ js \in Seq(Kinds) /\ Len(js) = n /\ js[n] = kind
        /\ \A m \in 1 .. Len(ks) : m \in 1 .. n /\ js[m] = ks[m]
        /\ \A m \in 1 .. n : m \in 1 .. Len(ks) \/ m = n
    BY GiveSets
  <1>2. Len(ks) \in Nat /\ n \in Numbers /\ n > Len(ks)
    BY BoundsAssumption DEF Numbers
  <1>3. h[n] = <<>>
    BY <1>2 DEF Good, Answered
  <1>4. \A cmd : IsGiven(cmd, ks) => IsGiven(cmd, js) /\ cmd.n < n
    BY <1>1, <1>2 DEF IsGiven
  <1>5. Numbered(k, a, cl, js)
    BY <1>4 DEF Good, Numbered
  <1>6. \A m \in 1 .. n : m < n => h[m] # <<>> \/ js[m] = "events"
    <2> TAKE m \in 1 .. n
    <2> HAVE m < n
    <2>1. m \in 1 .. Len(ks) /\ js[m] = ks[m]
      BY <1>1, <1>2
    <2>2. CASE m < Len(ks)
      BY <2>1, <2>2 DEF Good, Answered
    <2>3. CASE m = Len(ks)
      <3>1. ks # <<>>
        BY <2>1, <2>3
      <3> QED
        BY <2>1, <2>3, <3>1 DEF Free
    <2> QED
      BY <1>2, <2>1, <2>2, <2>3
  <1>7. \A m \in Numbers : m > n => h[m] = <<>>
    <2> TAKE m \in Numbers
    <2> HAVE m > n
    <2>1. m > Len(ks)
      BY <1>2 DEF Numbers
    <2> QED
      BY <2>1 DEF Good, Answered
  <1>8. \A m \in 1 .. n :
          js[m] = "auth" /\ h[m] # <<>> /\ h[m][1].status = "OK" => cl \/ InUse(k)
    BY <1>1, <1>3 DEF Good, Answered
  <1>9. k.cbs.mode = "connect" => h[k.cbs.cmd.n] = <<>>
    BY DEF Good, Answered
  <1>10. Answered(k, cl, js, h)
    BY <1>1, <1>6, <1>7, <1>8, <1>9 DEF Answered
  <1>11. \A cmds, i : AllGiven(cmds, ks, B, i) => AllGiven(cmds, js, B, i)
    BY <1>4 DEF AllGiven
  <1>12. Pipes(k, a, s, B, O, js)
    <2>1. Pipes(k, a, s, B, O, ks)
      BY DEF Good
    <2>2. ASSUME k.cbs.mode # "none"
          PROVE  /\ AllGiven(k.sent, js, B, k.cbs.cmd.n)
                 /\ ~k.fin => AllGiven(k.out, js, B, k.cbs.cmd.n)
      BY <1>11, <2>1, <2>2 DEF Pipes
    <2> QED
      BY <2>1, <2>2 DEF Pipes
  <1>13. Good(k, a, s, cl, B, O, js, h)
    BY <1>5, <1>10, <1>12 DEF Good
  <1> QED
    BY <1>2, <1>3, <1>13

LEMMA FirstHeard ==
  ASSUME NEW e
  PROVE  Append(<<>>, e) # <<>> /\ Append(<<>>, e)[1] = e
  OBVIOUS

\* The address does not parse, or there is a connection: the callback of the
\* command hears of it at once.
LEMMA GoodNotConnected ==
  ASSUME NEW k \in K, NEW a, NEW s, NEW cl, NEW B, NEW O,
         NEW ks \in Seq(Kinds), Len(ks) <= MaxCmds, NEW h \in Heard,
         Good(k, a, s, cl, B, O, ks, h),
         NEW n \in 1 .. Len(ks), h[n] = <<>>, n = Len(ks),
         k.cbs.mode # "none" => k.cbs.cmd.n < n, a # NoCmd => a.n < n,
         NEW e \in Entry, e.status # "OK", NEW g, g = Hears(h, n, e)
  PROVE  Good(k, a, s, cl, B, O, ks, g)
  <1>1. g[n] = Append(h[n], e) /\ h[n] \in Seq(Entry)
    BY HearSets
  <1>2. \A m \in Numbers : m # n => g[m] = h[m]
    BY DEF Hears, Heard
  <1>3. g[n] # <<>> /\ g[n][1] = e
    <2>1. g[n] = Append(<<>>, e)
      BY <1>1
    <2> QED
      BY <2>1, FirstHeard
  <1>4. 1 .. Len(ks) \subseteq Numbers /\ n \in Numbers /\ Len(ks) \in Nat
    BY BoundsAssumption DEF Numbers
  <1>5. k.cbs.mode # "none" => g[k.cbs.cmd.n] = h[k.cbs.cmd.n]
    <2>1. k.cbs.mode # "none" => k.cbs.cmd.n \in 1 .. Len(ks)
      BY DEF Good, Numbered, IsGiven
    <2> QED
      BY <1>2, <1>4, <2>1
  <1>6. a # NoCmd => g[a.n] = h[a.n]
    <2>1. a # NoCmd => a.n \in 1 .. Len(ks)
      BY DEF Good, Numbered, IsGiven
    <2> QED
      BY <1>2, <1>4, <2>1
  <1>7. Answered(k, cl, ks, g)
    <2>1. Answered(k, cl, ks, h)
      BY DEF Good
    <2>2. \A m \in 1 .. Len(ks) : m < Len(ks) => g[m] # <<>> \/ ks[m] = "events"
      BY <1>2, <1>3, <1>4, <2>1 DEF Answered
    <2>3. \A m \in Numbers : m > Len(ks) => g[m] = <<>>
      BY <1>2, <1>4, <2>1 DEF Answered
    <2>4. k.cbs.mode = "connect" => g[k.cbs.cmd.n] = <<>>
      BY <1>5, <2>1 DEF Answered
    <2>5. \A m \in 1 .. Len(ks) :
            ks[m] = "auth" /\ g[m] # <<>> /\ g[m][1].status = "OK" => cl \/ InUse(k)
      BY <1>2, <1>3, <1>4, <2>1 DEF Answered
    <2> QED
      BY <2>2, <2>3, <2>4, <2>5 DEF Answered
  <1>8. Tidies(k, a, B, O, g)
    BY <1>5, <1>6 DEF Good, Tidies
  <1> QED
    BY <1>7, <1>8 DEF Good

\* A new connection.
LEMMA GoodConnect ==
  ASSUME NEW k \in K, NEW a, NEW s, NEW cl, NEW B, NEW O,
         NEW ks \in Seq(Kinds), Len(ks) <= MaxCmds, NEW h \in Heard,
         Good(k, a, s, cl, B, O, ks, h), k.bev = "null",
         NEW cmd \in Commands, IsGiven(cmd, ks), h[cmd.n] = <<>>,
         NEW x, x = Connect(k, cmd)
  PROVE  x \in K /\ Good(x, a, s, cl, B, O, ks, h)
  <1>1. /\ x \in K
        /\ x.bev = "connecting" /\ x.cbs.mode = "connect" /\ x.cbs.cmd = cmd
        /\ (x.reads <=> k.reads) /\ (x.fin <=> k.fin)
        /\ x.out = k.out /\ x.sent = k.sent
        /\ x.wire = k.wire /\ x.input = k.input
    BY ConnectFacts
  <1>2. /\ k.cbs.mode = "none" /\ ~cl /\ ~k.reads /\ ~k.fin /\ s = 0
        /\ k.out = <<>> /\ k.sent = <<>> /\ k.wire = <<>> /\ k.input = <<>>
    BY DEF Good, Modes, Quiet
  <1>3. a = NoCmd
    BY <1>2 DEF Good, Numbered, InUse
  <1>4. Modes(x, s, cl)
    BY <1>1, <1>2 DEF Modes, InUse, Quiet
  <1>5. Numbered(x, a, cl, ks)
    BY <1>1, <1>3 DEF Numbered
  <1>6. Answered(x, cl, ks, h)
    BY <1>1, <1>2 DEF Good, Answered, InUse
  <1>7. Pipes(x, a, s, B, O, ks)
    BY <1>1, <1>2, <1>3, NothingNear DEF Pipes
  <1>8. Len(h[cmd.n]) = 0 /\ ~Told(h[cmd.n])
    BY DEF Told
  <1>9. ~Replied(x)
    BY <1>1, <1>2 DEF Replied
  <1>10. Tidy(x, cmd, h[cmd.n])
    BY <1>1, <1>2, <1>8, <1>9, NoReply, EmptyJoin DEF Tidy, One
  <1>11. Chances(x) = 0
    BY <1>1, <1>2, <1>9 DEF Chances, One
  <1>12. Current(x, a, h[cmd.n])
    BY <1>1, <1>8, <1>10, <1>11 DEF Current
  <1>13. Tidies(x, a, B, O, h)
    BY <1>1, <1>3, <1>12 DEF Tidies
  <1> QED
    BY <1>1, <1>4, <1>5, <1>6, <1>7, <1>13 DEF Good

LEMMA OneMore ==
  ASSUME NEW cmds \in Seq(Commands), NEW cmd \in Commands
  PROVE  /\ Append(cmds, cmd) = cmds \o <<cmd>> /\ <<cmd>> \in Seq(Commands)
         /\ cmds = <<>> => cmds \o <<cmd>> = <<cmd>>
  <1>1. Append(cmds, cmd) = cmds \o <<cmd>>
    BY AppendIsConcat
  <1>2. <<cmd>> \in Seq(Commands)
    OBVIOUS
  <1>3. cmds = <<>> => cmds \o <<cmd>> = <<cmd>>
    BY <1>2, ConcatEmptySeq
  <1> QED
    BY <1>1, <1>2, <1>3

\* A command is sent: what is still under way follows an irregular command, or
\* nothing is under way.
LEMMA GoodSend ==
  ASSUME NEW k \in K, NEW a \in Commands \cup {NoCmd}, NEW s, NEW cl,
         NEW B, NEW O, O \subseteq B, B \subseteq Int,
         NEW ks \in Seq(Kinds), Len(ks) <= MaxCmds, NEW h \in Heard,
         Good(k, a, s, cl, B, O, ks, h), InUse(k), ~cl,
         \A m \in 1 .. Len(ks) : ~Orderly(B, O, m) => \E b \in B : b <= m,
         \A m \in 1 .. Len(ks) :
           ks[m] = "events" \/ (h[m] # <<>> /\ ~Told(h[m])) => m \in B,
         NEW cmd \in Commands, IsGiven(cmd, ks), cmd.n = Len(ks),
         h[cmd.n] = <<>>, k.cbs.cmd.n < cmd.n, a # NoCmd => a.n < cmd.n,
         NEW x, x = Send(k, cmd)
  PROVE  x \in K /\ Good(x, a, s, cl, B, O, ks, h)
  <1>1. /\ x \in K
        /\ x.bev = k.bev /\ x.cbs.mode = "send" /\ x.cbs.cmd = cmd
        /\ (x.reads <=> k.reads) /\ (x.writes <=> k.writes) /\ (x.fin <=> k.fin)
        /\ x.out = Append(k.out, cmd) /\ x.sent = k.sent
        /\ x.wire = k.wire /\ x.input = k.input
    BY SendFacts
  <1> DEFINE n == cmd.n
             i == k.cbs.cmd.n
  <1>2. /\ n \in Int /\ n = Len(ks) /\ i < n /\ i \in 1 .. Len(ks)
        /\ k.cbs.mode # "none"
    BY CmdFields DEF Good, Numbered, IsGiven, InUse, Numbers
  <1>3. Current(k, a, h[i]) \/ ~Orderly(B, O, i)
    BY <1>2 DEF Good, Tidies
  <1>4. h[i] # <<>> \/ ks[i] = "events"
    BY <1>2 DEF Good, Answered
  <1>5. ASSUME ~\E b \in B : b <= i
        PROVE  /\ k.sent = <<>> /\ k.wire = <<>> /\ k.input = <<>>
               /\ k.fin \/ k.out = <<>>
    <2>1. Orderly(B, O, i) /\ i \notin B
      BY <1>2, <1>5
    <2>2. Told(h[i]) /\ Current(k, a, h[i])
      BY <1>2, <1>3, <1>4, <2>1
    <2> HIDE DEF i
    <2>3. /\ k.sent = <<>> /\ k.wire = <<>> /\ k.input = <<>>
          /\ k.cbs.mode = "send" => k.fin
          /\ k.cbs.mode = "recv" => k.out = <<>>
      BY <2>2 DEF Current, Tidy
    <2> QED
      BY <2>3 DEF InUse
  <1>6. ASSUME \E b \in B : b <= i, NEW j \in Int, Near(B, j, i)
        PROVE  Near(B, j, n)
    BY <1>2, <1>6, NearLater
  <1>7. /\ k.out \in Seq(Commands) /\ k.sent \in Seq(Commands)
        /\ k.wire \in Seq(Lines) /\ k.input \in Seq(Lines)
    BY KFields
  <1>8. ASSUME NEW cmds \in Seq(Commands), AllGiven(cmds, ks, B, i),
               \E b \in B : b <= i
        PROVE  AllGiven(cmds, ks, B, n)
    <2>1. ASSUME NEW j \in 1 .. Len(cmds)
          PROVE  IsGiven(cmds[j], ks) /\ Near(B, cmds[j].n, n)
      <3>1. cmds[j] \in Commands
        OBVIOUS
      <3>2. cmds[j].n \in Int
        BY <3>1, CmdFields DEF Numbers
      <3>3. IsGiven(cmds[j], ks) /\ Near(B, cmds[j].n, i)
        BY <1>8 DEF AllGiven
      <3> QED
        BY <1>6, <1>8, <3>2, <3>3
    <2> QED
      BY <2>1 DEF AllGiven
  <1>9. ASSUME NEW lines \in Seq(Lines), AllNear(lines, B, i),
               \E b \in B : b <= i
        PROVE  AllNear(lines, B, n)
    <2>1. ASSUME NEW j \in 1 .. Len(lines) PROVE Near(B, lines[j].of, n)
      <3>1. lines[j] \in Lines
        OBVIOUS
      <3>2. lines[j].of \in Int
        BY <3>1, LineFields
      <3>3. Near(B, lines[j].of, i)
        BY <1>9 DEF AllNear
      <3> QED
        BY <1>6, <1>9, <3>2, <3>3
    <2> QED
      BY <2>1 DEF AllNear
  <1>10. AllGiven(<<cmd>>, ks, B, n)
    <2>1. Len(<<cmd>>) = 1 /\ <<cmd>>[1] = cmd
      OBVIOUS
    <2>2. \A j \in 1 .. Len(<<cmd>>) : <<cmd>>[j] = cmd
      BY <2>1
    <2> QED
      BY <2>2 DEF AllGiven, Near
  <1>11. /\ x.out = k.out \o <<cmd>> /\ <<cmd>> \in Seq(Commands)
         /\ k.out = <<>> => k.out \o <<cmd>> = <<cmd>>
    BY <1>1, <1>7, OneMore
  <1>12. Pipes(k, a, s, B, O, ks)
    BY DEF Good
  <1>13. /\ AllGiven(x.sent, ks, B, n) /\ AllNear(x.wire, B, n)
         /\ a = NoCmd => AllNear(x.input, B, n)
         /\ ~x.fin => AllGiven(x.out, ks, B, n)
    <2>1. CASE \E b \in B : b <= i
      <3>1. /\ AllGiven(k.sent, ks, B, i) /\ AllNear(k.wire, B, i)
            /\ a = NoCmd => AllNear(k.input, B, i)
            /\ ~k.fin => AllGiven(k.out, ks, B, i)
        BY <1>2, <1>12 DEF Pipes
      <3>2. AllGiven(k.sent, ks, B, n)
        BY <1>7, <1>8, <2>1, <3>1
      <3>3. AllNear(k.wire, B, n)
        BY <1>7, <1>9, <2>1, <3>1
      <3>4. a = NoCmd => AllNear(k.input, B, n)
        BY <1>7, <1>9, <2>1, <3>1
      <3>5. ~k.fin => AllGiven(k.out, ks, B, n)
        BY <1>7, <1>8, <2>1, <3>1
      <3>6. ~k.fin => AllGiven(k.out \o <<cmd>>, ks, B, n)
        BY <1>7, <1>10, <1>11, <3>5, GivenJoin
      <3> QED
        BY <1>1, <1>11, <3>2, <3>3, <3>4, <3>6
    <2>2. CASE ~\E b \in B : b <= i
      <3>1. /\ k.sent = <<>> /\ k.wire = <<>> /\ k.input = <<>>
            /\ k.fin \/ k.out = <<>>
        BY <1>5, <2>2
      <3>2. k.out = <<>> => k.out \o <<cmd>> = <<cmd>>
        BY <1>11
      <3>3. ~x.fin => AllGiven(x.out, ks, B, n)
        BY <1>1, <1>10, <1>11, <3>1, <3>2
      <3> QED
        BY <1>1, <3>1, <3>3, NothingNear
    <2> QED
      BY <2>1, <2>2
  <1>14. Pipes(x, a, s, B, O, ks)
    <2>1. s # 0 => s \in O /\ s <= i
      BY <1>2, <1>12 DEF Pipes
    <2>2. s # 0 => s \in O /\ s <= n
      <3>1. s # 0 => s \in Int
        BY <2>1
      <3> QED
        BY <1>2, <2>1, <3>1
    <2>3. a # NoCmd => AllNear(k.input, B, a.n)
      BY <1>12 DEF Pipes
    <2> QED
      BY <1>1, <1>13, <2>2, <2>3 DEF Pipes
  <1>15. Modes(x, s, cl)
    BY <1>1 DEF Good, Modes, InUse, Quiet
  <1>16. Numbered(x, a, cl, ks)
    <2>1. a # NoCmd => a.n <= n
      <3>1. a # NoCmd => a \in Commands
        OBVIOUS
      <3>2. a # NoCmd => a.n \in Int
        BY <3>1, CmdFields DEF Numbers
      <3> QED
        BY <1>2, <3>2
    <2> QED
      BY <1>1, <2>1 DEF Good, Numbered, InUse
  <1>17. Answered(x, cl, ks, h)
    BY <1>1 DEF Good, Answered, InUse
  <1>18. ASSUME Orderly(B, O, n) PROVE Current(x, a, h[n])
    <2>1. ~\E b \in B : b <= i
      <3>1. \A b \in B : b \in Int /\ b >= n
        BY <1>18 DEF Orderly
      <3> QED
        BY <1>2, <3>1
    <2>2. /\ k.sent = <<>> /\ k.wire = <<>> /\ k.input = <<>>
          /\ k.fin \/ k.out = <<>>
      BY <1>5, <2>1
    <2>3. /\ x.sent = <<>> /\ x.wire = <<>> /\ x.input = <<>>
          /\ x.fin \/ x.out = <<cmd>>
      BY <1>1, <1>11, <2>2
    <2>4. Len(h[n]) = 0 /\ ~Told(h[n])
      BY DEF Told
    <2>5. ~Replied(x)
      BY <2>3 DEF Replied
    <2>6. Tidy(x, cmd, h[n])
      BY <2>3, <2>4, <2>5, NoReply, EmptyJoin DEF Tidy, One
    <2>7. Len(h[n]) + Chances(x) <= 3
      BY <2>4 DEF Chances, One
    <2> QED
      BY <1>1, <2>3, <2>4, <2>6, <2>7 DEF Current
  <1>19. Tidies(x, a, B, O, h)
    <2>1. a # NoCmd /\ Orderly(B, O, a.n) => Tidy(k, a, h[a.n])
      BY DEF Good, Tidies
    <2>2. a # NoCmd /\ Orderly(B, O, a.n) => Tidy(x, a, h[a.n])
      BY <1>1, <2>1, SameTidy
    <2> QED
      BY <1>1, <1>18, <2>2 DEF Tidies
  <1> QED
    BY <1>1, <1>14, <1>15, <1>16, <1>17, <1>19 DEF Good

-----------------------------------------------------------------------------
(***************************************************************************)
(* The steps of the specification.                                         *)
(***************************************************************************)

LEMMA Facts ==
  ASSUME IInv
  PROVE  /\ conn \in K /\ kinds \in Seq(Kinds) /\ Len(kinds) <= MaxCmds
         /\ heard \in Heard /\ call.cmd \in Commands \cup {NoCmd}
         /\ subscribed \in 0 .. MaxCmds
         /\ Good(conn, call.cmd, subscribed, closed, Bad, Odd, kinds, heard)
         /\ Odd \subseteq Bad /\ Bad \subseteq 1 .. Len(kinds)
         /\ Bad \subseteq Int /\ Odd \subseteq Int
         /\ \A n \in 1 .. Len(kinds) : ~Orderly(Bad, Odd, n) => \E m \in Bad : m <= n
         /\ \A n \in 1 .. Len(kinds) : kinds[n] = "events" => n \in Odd
  <1>1. /\ conn \in K /\ kinds \in Seq(Kinds) /\ Len(kinds) <= MaxCmds
        /\ heard \in Heard /\ call.cmd \in Commands \cup {NoCmd}
        /\ subscribed \in 0 .. MaxCmds
    BY DEF IInv, TypeOK, K, Heard, Entry
  <1>2. Good(conn, call.cmd, subscribed, closed, Bad, Odd, kinds, heard)
    BY DEF IInv
  <1>3. /\ Odd \subseteq Bad /\ Bad \subseteq 1 .. Len(kinds)
        /\ \A n \in 1 .. Len(kinds) : ~Orderly(Bad, Odd, n) => \E m \in Bad : m <= n
        /\ \A n \in 1 .. Len(kinds) : kinds[n] = "events" => n \in Odd
    BY <1>1, WentWrong DEF Bad, Odd
  <1>4. Bad \subseteq Int /\ Odd \subseteq Int
    BY <1>3
  <1> QED
    BY <1>1, <1>2, <1>3, <1>4

LEMMA IdleFacts ==
  /\ Idle => call.cmd = NoCmd
  /\ NoCall.cmd = NoCmd
  /\ NoCall \in [busy: BOOLEAN, cmd: Commands \cup {NoCmd}]
  /\ \A cmd : Running(cmd).cmd = cmd
  /\ \A cmd \in Commands \cup {NoCmd} :
       Running(cmd) \in [busy: BOOLEAN, cmd: Commands \cup {NoCmd}]
  BY DEF Idle, NoCall, Running

\* A step in which nothing is given and nothing heard.
LEMMA SilentStep ==
  ASSUME IInv, conn' \in K,
         call' \in [busy: BOOLEAN, cmd: Commands \cup {NoCmd}],
         UNCHANGED <<kinds, heard>>, closed' \in BOOLEAN,
         expected' \in [Numbers -> {"OK", "ASYNC"}],
         events' \in 0 .. MaxEvents, subscribed' \in 0 .. MaxCmds,
         Good(conn', call'.cmd, subscribed', closed', Bad, Odd, kinds, heard)
  PROVE  IInv'
  <1>1. TypeOK'
    BY DEF IInv, TypeOK, K
  <1>2. Bad' = Bad /\ Odd' = Odd
    BY DEF Bad, Odd
  <1>3. Good(conn, call.cmd, subscribed, closed, Bad, Odd, kinds, heard)'
    BY <1>2
  <1>4. Attributed(Bad, kinds, heard)' /\ AllEnded(Bad, Odd, kinds, heard)'
    BY <1>2 DEF IInv
  <1> QED
    BY <1>1, <1>3, <1>4 DEF IInv

\* A step in which a callback hears something.
LEMMA HearStep ==
  ASSUME IInv, conn' \in K,
         call' \in [busy: BOOLEAN, cmd: Commands \cup {NoCmd}],
         kinds' = kinds, closed' \in BOOLEAN,
         expected' \in [Numbers -> {"OK", "ASYNC"}],
         events' \in 0 .. MaxEvents, subscribed' \in 0 .. MaxCmds,
         NEW n \in 1 .. Len(kinds), NEW e \in Entry, heard' = Hears(heard, n, e),
         e.of = 0 \/ Near(Bad, e.of, n),
         Orderly(Bad, Odd, n) =>
           Len(heard[n]) < 3 /\ (e.of # 0 => ~Told(heard[n])),
         Good(conn', call'.cmd, subscribed', closed',
              BadIn(kinds, heard'), OddIn(kinds, heard'), kinds, heard')
  PROVE  IInv'
  <1>1. kinds \in Seq(Kinds) /\ Len(kinds) <= MaxCmds /\ heard \in Heard
    BY Facts
  <1>2. heard' \in Heard
    BY <1>1, HearSets
  <1>3. TypeOK'
    BY <1>2 DEF IInv, TypeOK, K, Heard, Entry
  <1>4. Bad' = BadIn(kinds, heard') /\ Odd' = OddIn(kinds, heard')
    BY DEF Bad, Odd
  <1>5. Good(conn, call.cmd, subscribed, closed, Bad, Odd, kinds, heard)'
    BY <1>4
  <1>6. Attributed(BadIn(kinds, heard'), kinds, heard')
    <2>1. Attributed(BadIn(kinds, heard), kinds, heard)
      BY DEF IInv, Bad
    <2>2. e.of = 0 \/ Near(BadIn(kinds, heard), e.of, n)
      BY DEF Bad
    <2> QED
      BY <1>1, <2>1, <2>2, HearAttributed
  <1>7. AllEnded(BadIn(kinds, heard'), OddIn(kinds, heard'), kinds, heard')
    <2>1. AllEnded(BadIn(kinds, heard), OddIn(kinds, heard), kinds, heard)
      BY DEF IInv, Bad, Odd
    <2>2. Orderly(BadIn(kinds, heard), OddIn(kinds, heard), n) =>
            Len(heard[n]) < 3 /\ (e.of # 0 => ~Told(heard[n]))
      BY DEF Bad, Odd
    <2> QED
      BY <1>1, <2>1, <2>2, HearEnded
  <1> QED
    BY <1>3, <1>4, <1>5, <1>6, <1>7 DEF IInv

LEMMA Initially == Init => IInv
  <1> SUFFICES ASSUME Init PROVE IInv
    OBVIOUS
  <1>1. /\ Create \in K
        /\ Create.bev = "null" /\ Create.cbs.mode = "none" /\ Create.cbs.cmd = NoCmd
        /\ Quiet(Create) /\ Create.fin = FALSE /\ Create.reads = FALSE
    BY CreateFacts
  <1>2. conn = Create /\ call.cmd = NoCmd /\ kinds = <<>> /\ closed = FALSE
        /\ subscribed = 0
    BY IdleFacts DEF Init
  <1>3. Len(kinds) = 0 /\ kinds \in Seq(Kinds)
    BY <1>2
  <1>4. heard \in Heard /\ \A n \in Numbers : heard[n] = <<>>
    <2>1. <<>> \in Seq(Entry)
      OBVIOUS
    <2> QED
      BY <2>1 DEF Init, Heard
  <1>5. TypeOK
    <2>1. 0 \in 0 .. MaxEvents /\ 0 \in 0 .. MaxCmds /\ 0 <= MaxCmds
      BY BoundsAssumption
    <2>2. expected \in [Numbers -> {"OK", "ASYNC"}]
      BY DEF Init
    <2>3. events = 0 /\ call = NoCall
      BY DEF Init
    <2> QED
      BY <1>1, <1>2, <1>3, <1>4, <2>1, <2>2, <2>3, IdleFacts
         DEF TypeOK, K, Heard, Entry
  <1>6. Modes(conn, subscribed, closed)
    BY <1>1, <1>2 DEF Modes, InUse
  <1>7. Numbered(conn, call.cmd, closed, kinds)
    BY <1>1, <1>2 DEF Numbered
  <1>8. \A n \in 1 .. Len(kinds) : FALSE
    BY <1>3
  <1>9. Answered(conn, closed, kinds, heard)
    BY <1>1, <1>2, <1>4, <1>8 DEF Answered
  <1>10. /\ Pipes(conn, call.cmd, subscribed, Bad, Odd, kinds)
         /\ Tidies(conn, call.cmd, Bad, Odd, heard)
    BY <1>1, <1>2 DEF Pipes, Tidies
  <1>11. Attributed(Bad, kinds, heard) /\ AllEnded(Bad, Odd, kinds, heard)
    BY <1>8 DEF Attributed, AllEnded
  <1> QED
    BY <1>5, <1>6, <1>7, <1>9, <1>10, <1>11 DEF IInv, Good

\* What stays of the type of the variables that a step leaves alone.
LEMMA Typed ==
  ASSUME IInv
  PROVE  /\ call \in [busy: BOOLEAN, cmd: Commands \cup {NoCmd}]
         /\ closed \in BOOLEAN /\ expected \in [Numbers -> {"OK", "ASYNC"}]
         /\ events \in 0 .. MaxEvents /\ subscribed \in 0 .. MaxCmds
  BY DEF IInv, TypeOK

LEMMA StepStutter == ASSUME IInv, UNCHANGED vars PROVE IInv'
  BY DEF IInv, vars, TypeOK, Bad, Odd

LEMMA StepClose == ASSUME IInv, CloseCtrl PROVE IInv'
  <1>1. /\ conn' = Close(conn) /\ conn.bev # "null" /\ closed' = TRUE
        /\ UNCHANGED <<call, kinds, heard, expected, events, subscribed>>
    BY DEF CloseCtrl, tor
  <1>2. /\ conn' \in K
        /\ Good(conn', call.cmd, subscribed, TRUE, Bad, Odd, kinds, heard)
    BY <1>1, Facts, GoodClose
  <1> QED
    BY <1>1, <1>2, Typed, SilentStep

LEMMA StepEstablished == ASSUME IInv, Established PROVE IInv'
  <1>1. /\ conn.bev = "connecting" /\ call.cmd = NoCmd
        /\ conn' = IF conn.cbs = NoCallbacks
                     THEN Connected(conn)
                     ELSE Send(Connected(conn), conn.cbs.cmd)
        /\ call' = Running(NoCmd)
        /\ UNCHANGED <<kinds, heard, expected, closed, events, subscribed>>
    BY IdleFacts DEF Established, tor
  <1>2. /\ conn' \in K
        /\ Good(conn', NoCmd, subscribed, closed, Bad, Odd, kinds, heard)
    BY <1>1, Facts, GoodEstablished
  <1> QED
    BY <1>1, <1>2, IdleFacts, Typed, SilentStep

LEMMA StepFlush == ASSUME IInv, Flush PROVE IInv'
  <1>1. Drained(conn).cbs = conn.cbs
    BY Facts, DrainedFacts
  <1>2. /\ conn.bev = "open" /\ call.cmd = NoCmd /\ CanWrite(conn)
        /\ conn' = IF conn.cbs.mode = "send"
                     THEN Recv(Drained(conn), conn.cbs.cmd)
                     ELSE Drained(conn)
        /\ call' = Running(NoCmd)
        /\ UNCHANGED <<kinds, heard, expected, closed, events, subscribed>>
    BY <1>1, IdleFacts DEF Flush, tor
  <1>3. /\ conn' \in K
        /\ Good(conn', NoCmd, subscribed, closed, Bad, Odd, kinds, heard)
    BY <1>2, Facts, GoodFlush
  <1> QED
    BY <1>2, <1>3, IdleFacts, Typed, SilentStep

LEMMA StepRead == ASSUME IInv, Read PROVE IInv'
  <1>1. PICK n \in 1 .. Len(conn.wire) : conn' = Received(conn, n)
    BY DEF Read
  <1> DEFINE a == IF conn.cbs.mode = "recv" THEN conn.cbs.cmd ELSE NoCmd
  <1>2. /\ conn.bev = "open" /\ call.cmd = NoCmd /\ call' = Running(a)
        /\ UNCHANGED <<kinds, heard, expected, closed, events, subscribed>>
    BY IdleFacts DEF Read, CanRead, tor
  <1>3. /\ conn' \in K
        /\ Good(conn', a, subscribed, closed, Bad, Odd, kinds, heard)
    BY <1>1, <1>2, Facts, GoodRead
  <1>4. a \in Commands \cup {NoCmd}
    BY Facts, KFields
  <1> HIDE DEF a
  <1> QED
    BY <1>2, <1>3, <1>4, IdleFacts, Typed, SilentStep

LEMMA StepReturn == ASSUME IInv, Return PROVE IInv'
  <1>1. /\ call.cmd = NoCmd \/ conn.input = <<>>
        /\ conn' = IF closed /\ conn.cbs = NoCallbacks THEN Ignored(conn) ELSE conn
        /\ call' = NoCall
        /\ UNCHANGED <<kinds, heard, expected, closed, events, subscribed>>
    BY DEF Return, tor
  <1>3. /\ conn' \in K
        /\ Good(conn', NoCmd, subscribed, closed, Bad, Odd, kinds, heard)
    BY <1>1, Facts, GoodReturn
  <1> QED
    BY <1>1, <1>3, IdleFacts, Typed, SilentStep

LEMMA StepDelete == ASSUME IInv, DeleteVarp PROVE IInv'
  <1>1. /\ conn.bev = "ignored" /\ call.cmd = NoCmd /\ conn' = Deleted(conn)
        /\ UNCHANGED <<call, kinds, heard, expected, closed, events, subscribed>>
    BY IdleFacts DEF DeleteVarp, tor
  <1>2. /\ conn' \in K
        /\ Good(conn', NoCmd, subscribed, closed, Bad, Odd, kinds, heard)
    BY <1>1, Facts, GoodDelete
  <1> QED
    BY <1>1, <1>2, Typed, SilentStep

LEMMA StepTorCloses == ASSUME IInv, TorCloses PROVE IInv'
  <1>1. /\ conn.bev = "open" /\ call.cmd = NoCmd /\ conn' = ClosedByPeer(conn)
        /\ UNCHANGED <<call, kinds, heard, expected, closed, events, subscribed>>
    BY IdleFacts DEF TorCloses, tor
  <1>2. /\ conn' \in K
        /\ Good(conn', NoCmd, subscribed, closed, Bad, Odd, kinds, heard)
    BY <1>1, Facts, GoodPeerCloses
  <1> QED
    BY <1>1, <1>2, Typed, SilentStep

LEMMA StepTorEvent == ASSUME IInv, TorEvent PROVE IInv'
  <1>1. /\ conn.bev = "open" /\ call.cmd = NoCmd /\ subscribed # 0
        /\ conn' = Reported(conn, EndLine("650", subscribed))
        /\ events < MaxEvents /\ events' = events + 1
        /\ UNCHANGED <<call, kinds, heard, expected, closed, subscribed>>
    BY IdleFacts DEF TorEvent, Reported, EndLine
  <1>2. /\ conn' \in K
        /\ Good(conn', NoCmd, subscribed, closed, Bad, Odd, kinds, heard)
    BY <1>1, Facts, GoodTorEvent
  <1>3. events' \in 0 .. MaxEvents
    BY <1>1, Typed, BoundsAssumption
  <1> QED
    BY <1>1, <1>2, <1>3, Typed, SilentStep

LEMMA StepTorReplies == ASSUME IInv, TorReplies PROVE IInv'
  <1> DEFINE cmd == Head(conn.sent)
  <1>1. PICK reply \in Replies(cmd) :
          /\ conn' = Served(conn, reply)
          /\ subscribed' = IF cmd.kind = "events" /\ reply[1].code = "250"
                             THEN cmd.n ELSE subscribed
    BY DEF TorReplies
  <1>2. /\ call.cmd = NoCmd /\ conn.sent # <<>>
        /\ UNCHANGED <<call, kinds, heard, expected, closed, events>>
    BY IdleFacts DEF TorReplies
  <1>3. /\ conn' \in K
        /\ Good(conn', NoCmd, subscribed', closed, Bad, Odd, kinds, heard)
    BY <1>1, <1>2, Facts, GoodServe
  <1>4. subscribed' \in 0 .. MaxCmds
    <2>1. cmd \in Commands
      BY <1>2, Facts, KFields, HeadTailProperties
    <2>2. cmd.n \in Numbers
      BY <2>1, CmdFields
    <2>3. cmd.n \in 0 .. MaxCmds
      BY <2>2, BoundsAssumption DEF Numbers
    <2> QED
      BY <1>1, <2>3, Typed
  <1> QED
    BY <1>2, <1>3, <1>4, Typed, SilentStep

\* What a callback makes of a status is a status.
LEMMA OutcomeFacts ==
  ASSUME NEW cmd, NEW status \in Statuses, NEW type
  PROVE  /\ Outcome(cmd, status, type) \in Statuses
         /\ cmd.kind # "events" /\ status = "TIMEOUT_ERROR" =>
              Outcome(cmd, status, type) = "TIMEOUT_ERROR"
  <1>1. /\ "UNEXPECTED_STATUS" \in Statuses /\ "UNEXPECTED_REPLY" \in Statuses
        /\ "OK" # "TIMEOUT_ERROR"
    BY DEF Statuses
  <1>2. DoVoidCb(status, type) \in {status, "UNEXPECTED_REPLY"}
    BY Zenon DEF DoVoidCb
  <1>3. status = "TIMEOUT_ERROR" => DoVoidCb(status, type) = status
    BY Zenon DEF DoVoidCb
  <1>4. EventsCb(cmd.n, status, type) \in
          {status, "UNEXPECTED_STATUS", "UNEXPECTED_REPLY"}
    BY Zenon DEF EventsCb
  <1>5. Outcome(cmd, status, type) =
          IF cmd.kind = "raw" THEN status
          ELSE IF cmd.kind = "events" THEN EventsCb(cmd.n, status, type)
          ELSE DoVoidCb(status, type)
    BY DEF Outcome
  <1> QED
    BY <1>1, <1>2, <1>3, <1>4, <1>5

LEMMA StatusFacts == ASSUME NEW code PROVE StatusOf(code) \in Statuses
  BY DEF StatusOf, Statuses

\* An event of the connection, after which it is x, and of which the callback in
\* the slots hears.
LEMMA EventStep ==
  ASSUME IInv, Idle, conn.bev # "connecting",
         NEW x \in K, NEW status \in Statuses, OnEvent(x, status),
         x.bev = conn.bev, x.cbs = conn.cbs, x.fin <=> conn.fin,
         x.reads => conn.reads,
         x.out = conn.out, x.sent = conn.sent, x.input = conn.input,
         x.wire = conn.wire \/ x.wire = <<>>,
         conn.cbs.mode # "none" /\ Orderly(Bad, Odd, conn.cbs.cmd.n) =>
           /\ Chances(x) + 1 <= Chances(conn)
           /\ \/ status = "TIMEOUT_ERROR" /\ x.wire = conn.wire
              \/ x.wire = <<>> /\ conn.input = <<>> /\ conn.sent = <<>> /\ conn.fin
  PROVE  IInv'
  <1>1. /\ conn' = x /\ call.cmd = NoCmd /\ call' = Running(NoCmd)
        /\ UNCHANGED <<kinds, expected, closed, events, subscribed>>
        /\ conn.cbs = NoCallbacks => heard' = heard
    BY IdleFacts DEF OnEvent, tor
  <1>2. Good(conn, NoCmd, subscribed, closed, Bad, Odd, kinds, heard)
    BY <1>1, Facts
  <1>3. CASE conn.cbs.mode = "none"
    <2>1. conn.cbs = NoCallbacks
      BY <1>2, <1>3, Facts, NoCallbacksFields DEF Good, Modes
    <2>2. Good(x, NoCmd, subscribed, closed, Bad, Odd, kinds, heard)
      BY <1>2, <1>3, Facts, GoodSilent
    <2> QED
      BY <1>1, <2>1, <2>2, IdleFacts, Typed, SilentStep
  <1>4. CASE conn.cbs.mode # "none"
    <2> DEFINE cmd == conn.cbs.cmd
               n == conn.cbs.cmd.n
               e == [status |-> Outcome(cmd, status, " "), of |-> 0, more |-> FALSE]
    <2>1. conn.cbs # NoCallbacks
      BY <1>4, Facts, NoCallbacksFields
    <2>2. heard' = Hears(heard, n, e)
      BY <1>1, <2>1 DEF OnEvent, Hear, Hears
    <2>3. n \in 1 .. Len(kinds) /\ cmd.kind = kinds[n]
      BY <1>2, <1>4 DEF Good, Numbered, IsGiven
    <2>4. /\ e \in Entry /\ e.of = 0
          /\ e.status = Outcome(cmd, status, " ")
      <3>1. Outcome(cmd, status, " ") \in Statuses
        BY OutcomeFacts
      <3>2. 0 \in 0 .. MaxCmds
        BY BoundsAssumption
      <3> QED
        BY <3>1, <3>2 DEF Entry
    <2>5. ASSUME n \notin Odd, status = "TIMEOUT_ERROR"
          PROVE  e.status = "TIMEOUT_ERROR"
      <3>1. cmd.kind # "events"
        BY <2>3, <2>5, Facts
      <3> QED
        BY <2>4, <2>5, <3>1, OutcomeFacts
    <2> DEFINE C == BadIn(kinds, heard')
               P == OddIn(kinds, heard')
    <2> HIDE DEF e
    <2>6. Bad \subseteq C /\ Odd \subseteq P
      <3>1. PICK m \in 1 .. Len(kinds) : m = n
        BY <2>3
      <3>2. heard' = Hears(heard, m, e)
        BY <2>2, <3>1
      <3>3. kinds \in Seq(Kinds) /\ Len(kinds) <= MaxCmds /\ heard \in Heard
        BY Facts
      <3>4. /\ BadIn(kinds, heard) \subseteq BadIn(kinds, heard')
            /\ OddIn(kinds, heard) \subseteq OddIn(kinds, heard')
        BY <2>4, <3>2, <3>3, HearSets
      <3> QED
        BY <3>4 DEF Bad, Odd
    <2> HIDE DEF C, P
    <2>7. Good(conn, NoCmd, subscribed, closed, C, P, kinds, heard)
      BY <1>2, <2>6, GoodWorse
    <2>8. Orderly(C, P, n) => Orderly(Bad, Odd, n)
      BY <2>6, OrderlyLess
    <2>9. Orderly(Bad, Odd, n) =>
            /\ Chances(x) + 1 <= Chances(conn)
            /\ x.wire # conn.wire => conn.input = <<>>
            /\ e.status # "TIMEOUT_ERROR" =>
                 /\ x.wire = <<>> /\ conn.input = <<>>
                 /\ conn.sent = <<>> /\ conn.fin
      BY <1>4, <2>5 DEF Orderly
    <2>10. Good(x, NoCmd, subscribed, closed, C, P, kinds, heard')
      <3>1. Orderly(C, P, n) =>
              /\ Chances(x) + 1 <= Chances(conn)
              /\ x.wire # conn.wire => conn.input = <<>>
              /\ e.status # "TIMEOUT_ERROR" =>
                   /\ x.wire = <<>> /\ conn.input = <<>>
                   /\ conn.sent = <<>> /\ conn.fin
        BY <2>8, <2>9
      <3> QED
        BY <1>4, <2>2, <2>4, <2>7, <3>1, Facts, GoodEvent
    <2>11. Orderly(Bad, Odd, n) => Len(heard[n]) < 3
      <3>1. Orderly(Bad, Odd, n) => Current(conn, NoCmd, heard[n])
        BY <1>2, <1>4 DEF Good, Tidies
      <3>2. Orderly(Bad, Odd, n) => Len(heard[n]) + Chances(conn) <= 3
        BY <3>1 DEF Current
      <3>3. Chances(x) \in Nat /\ Chances(conn) \in Nat
        BY DEF Chances, One
      <3>4. Len(heard[n]) \in Nat
        <4>1. n \in Numbers
          BY <2>3, Facts, BoundsAssumption DEF Numbers
        <4> QED
          BY <4>1, Facts DEF Heard
      <3> HIDE DEF n
      <3> QED
        BY <2>9, <3>2, <3>3, <3>4
    <2>12. Good(conn', call'.cmd, subscribed', closed',
                BadIn(kinds, heard'), OddIn(kinds, heard'), kinds, heard')
      BY <1>1, <2>10, IdleFacts DEF C, P
    <2>13. /\ conn' \in K /\ call' \in [busy: BOOLEAN, cmd: Commands \cup {NoCmd}]
           /\ kinds' = kinds /\ closed' \in BOOLEAN
           /\ expected' \in [Numbers -> {"OK", "ASYNC"}]
           /\ events' \in 0 .. MaxEvents /\ subscribed' \in 0 .. MaxCmds
      BY <1>1, IdleFacts, Typed
    <2> QED
      BY <2>2, <2>3, <2>4, <2>11, <2>12, <2>13, HearStep
  <1> QED
    BY <1>3, <1>4

LEMMA StepWriteFailed ==
  ASSUME IInv, Idle, CanWrite(conn), NEW status \in Statuses,
         status = "TIMEOUT_ERROR" \/ conn.fin,
         OnEvent(WriteFailed(conn), status)
  PROVE  IInv'
  <1> DEFINE x == WriteFailed(conn)
  <1>1. /\ x \in K
        /\ x.bev = conn.bev /\ x.cbs = conn.cbs
        /\ (x.reads <=> conn.reads) /\ ~x.writes /\ (x.fin <=> conn.fin)
        /\ x.out = conn.out /\ x.sent = conn.sent
        /\ x.wire = conn.wire /\ x.input = conn.input
    BY Facts, WriteFailedFacts
  <1>2. OnEvent(x, status)
    OBVIOUS
  <1> HIDE DEF x
  <1>3. conn.bev # "connecting" /\ conn.writes /\ conn.out # <<>>
    BY DEF CanWrite
  <1>4. ASSUME conn.cbs.mode # "none", Orderly(Bad, Odd, conn.cbs.cmd.n)
        PROVE  /\ Chances(x) + 1 <= Chances(conn)
               /\ \/ status = "TIMEOUT_ERROR" /\ x.wire = conn.wire
                  \/ /\ x.wire = <<>> /\ conn.input = <<>>
                     /\ conn.sent = <<>> /\ conn.fin
    <2>1. Current(conn, call.cmd, heard[conn.cbs.cmd.n])
      BY <1>4, Facts DEF Good, Tidies
    <2>2. conn.cbs.mode = "send"
      BY <1>3, <1>4, <2>1, Facts, KFields DEF Current, Good, Modes
    <2>3. conn.sent = <<>> /\ conn.wire = <<>> /\ conn.input = <<>>
      BY <2>1, <2>2 DEF Current
    <2>4. Chances(x) + 1 <= Chances(conn)
      BY <1>1, <1>3, <2>2 DEF Chances, One
    <2> QED
      BY <1>1, <2>3, <2>4
  <1> QED
    BY <1>1, <1>2, <1>3, <1>4, EventStep

LEMMA StepReadFailed ==
  ASSUME IInv, Idle, CanRead(conn), NEW status \in Statuses, NEW x,
         \/ x = ReadStopped(conn) /\ status = "TIMEOUT_ERROR"
         \/ x = Lost(conn) /\ conn.fin,
         OnEvent(x, status)
  PROVE  IInv'
  <1>1. /\ x \in K
        /\ x.bev = conn.bev /\ x.cbs = conn.cbs
        /\ ~x.reads /\ (x.writes <=> conn.writes) /\ (x.fin <=> conn.fin)
        /\ x.out = conn.out /\ x.sent = conn.sent /\ x.input = conn.input
        /\ \/ status = "TIMEOUT_ERROR" /\ x.wire = conn.wire
           \/ x.wire = <<>> /\ conn.fin
    <2>1. CASE x = ReadStopped(conn) /\ status = "TIMEOUT_ERROR"
      BY <2>1, Facts, ReadStoppedFacts
    <2>2. CASE x = Lost(conn) /\ conn.fin
      BY <2>2, Facts, LostFacts
    <2> QED
      BY <2>1, <2>2
  <1>2. conn.bev # "connecting" /\ conn.reads
    BY DEF CanRead
  <1>3. call.cmd = NoCmd
    BY IdleFacts
  <1>4. ASSUME conn.cbs.mode # "none", Orderly(Bad, Odd, conn.cbs.cmd.n)
        PROVE  /\ Chances(x) + 1 <= Chances(conn)
               /\ \/ status = "TIMEOUT_ERROR" /\ x.wire = conn.wire
                  \/ /\ x.wire = <<>> /\ conn.input = <<>>
                     /\ conn.sent = <<>> /\ conn.fin
    <2>1. Current(conn, NoCmd, heard[conn.cbs.cmd.n])
      BY <1>3, <1>4, Facts DEF Good, Tidies
    <2>2. conn.cbs.mode \in {"send", "recv"}
      BY <1>2, <1>4, Facts, KFields DEF Good, Modes
    <2>3. conn.input = <<>>
      BY <2>1, <2>2 DEF Current
    <2>4. conn.fin => conn.sent = <<>>
      BY Facts DEF Good, Modes
    <2>5. Replied(x) => Replied(conn)
      BY <1>1 DEF Replied
    <2>6. Chances(x) + 1 <= Chances(conn)
      BY <1>1, <1>2, <2>5 DEF Chances, One
    <2> QED
      BY <1>1, <2>3, <2>4, <2>6
  <1> QED
    BY <1>1, <1>2, <1>4, EventStep

LEMMA StepWriteError == ASSUME IInv, WriteError PROVE IInv'
  BY StepWriteFailed DEF WriteError, Statuses

LEMMA StepWriteTimeout == ASSUME IInv, WriteTimeout PROVE IInv'
  BY StepWriteFailed DEF WriteTimeout, Statuses

LEMMA StepReadTimeout == ASSUME IInv, ReadTimeout PROVE IInv'
  <1>1. /\ Idle /\ CanRead(conn) /\ "TIMEOUT_ERROR" \in Statuses
        /\ OnEvent(ReadStopped(conn), "TIMEOUT_ERROR")
    BY DEF ReadTimeout, ReadStopped, Statuses
  <1> QED
    BY <1>1, StepReadFailed

LEMMA StepConnLost ==
  ASSUME IInv, NEW status \in LostStatuses, ConnLost(status)
  PROVE  IInv'
  <1>1. /\ Idle /\ CanRead(conn) /\ status \in Statuses /\ conn.fin
        /\ OnEvent(Lost(conn), status)
    BY DEF ConnLost, LostStatuses, Statuses
  <1> QED
    BY <1>1, StepReadFailed

LEMMA StepConnectFailed == ASSUME IInv, ConnectFailed PROVE IInv'
  <1>1. /\ call.cmd = NoCmd /\ conn.bev = "connecting"
        /\ conn' = Close(Refused(conn)) /\ call' = Running(NoCmd)
        /\ UNCHANGED <<kinds, expected, closed, events, subscribed>>
        /\ conn.cbs = NoCallbacks => heard' = heard
    BY IdleFacts DEF ConnectFailed, tor
  <1>2. Good(conn, NoCmd, subscribed, closed, Bad, Odd, kinds, heard)
    BY <1>1, Facts
  <1>3. CASE conn.cbs.mode = "none"
    <2>1. conn.cbs = NoCallbacks
      BY <1>2, <1>3, Facts, NoCallbacksFields DEF Good, Modes
    <2>2. conn' \in K /\ Good(conn', NoCmd, subscribed, closed, Bad, Odd, kinds, heard)
      BY <1>1, <1>2, <1>3, Facts, GoodRefusedSilent
    <2> QED
      BY <1>1, <2>1, <2>2, IdleFacts, Typed, SilentStep
  <1>4. CASE conn.cbs.mode # "none"
    <2> DEFINE e == [status |-> "CONNECT_FAILED", of |-> 0, more |-> FALSE]
    <2>1. conn.cbs # NoCallbacks
      BY <1>4, Facts, NoCallbacksFields
    <2>2. PICK n \in 1 .. Len(kinds) : n = conn.cbs.cmd.n
      BY <1>2, <1>4 DEF Good, Numbered, IsGiven
    <2>3. heard' = Hears(heard, n, e)
      BY <2>1, <2>2 DEF ConnectFailed, Hear, Hears
    <2>4. e \in Entry /\ e.of = 0 /\ e.status # "OK"
      <3>1. "CONNECT_FAILED" \in Statuses
        BY DEF Statuses
      <3>2. 0 \in 0 .. MaxCmds
        BY BoundsAssumption
      <3> QED
        BY <3>1, <3>2 DEF Entry
    <2> DEFINE C == BadIn(kinds, heard')
               P == OddIn(kinds, heard')
    <2> HIDE DEF e
    <2>5. kinds \in Seq(Kinds) /\ Len(kinds) <= MaxCmds /\ heard \in Heard
      BY Facts
    <2>6. Bad \subseteq C /\ Odd \subseteq P
      BY <2>3, <2>4, <2>5, HearSets DEF Bad, Odd
    <2> HIDE DEF C, P
    <2>7. Good(conn, NoCmd, subscribed, closed, C, P, kinds, heard)
      BY <1>2, <2>6, GoodWorse
    <2>8. /\ conn' \in K
          /\ Good(conn', NoCmd, subscribed, closed, C, P, kinds, heard')
          /\ heard[n] = <<>>
      <3>1. heard' = Hears(heard, conn.cbs.cmd.n, e)
        BY <2>2, <2>3
      <3>2. conn \in K
        BY Facts
      <3> QED
        BY <1>1, <1>4, <2>2, <2>4, <2>5, <2>7, <3>1, <3>2, GoodRefused
    <2>9. Len(heard[n]) < 3
      BY <2>8
    <2>10. Good(conn', call'.cmd, subscribed', closed',
                BadIn(kinds, heard'), OddIn(kinds, heard'), kinds, heard')
      BY <1>1, <2>8, IdleFacts DEF C, P
    <2>11. /\ call' \in [busy: BOOLEAN, cmd: Commands \cup {NoCmd}]
           /\ kinds' = kinds /\ closed' \in BOOLEAN
           /\ expected' \in [Numbers -> {"OK", "ASYNC"}]
           /\ events' \in 0 .. MaxEvents /\ subscribed' \in 0 .. MaxCmds
      BY <1>1, IdleFacts, Typed
    <2> QED
      BY <2>3, <2>4, <2>8, <2>9, <2>10, <2>11, HearStep
  <1> QED
    BY <1>3, <1>4

LEMMA StepReadLine == ASSUME IInv, ReadLine PROVE IInv'
  <1> DEFINE a == call.cmd
             line == Head(conn.input)
             b == IF Stops(line) THEN NoCmd ELSE a
  <1>1. /\ a # NoCmd /\ conn.input # <<>> /\ conn' = Taken(conn)
        /\ call' = IF Stops(line) THEN Running(NoCmd) ELSE call
        /\ UNCHANGED <<kinds, closed, events, subscribed>>
    BY DEF ReadLine, Taken, tor
  <1>2. a \in Commands
    BY <1>1, Facts
  <1>3. Good(conn, a, subscribed, closed, Bad, Odd, kinds, heard)
    BY Facts
  <1>4. PICK n \in 1 .. Len(kinds) : n = a.n /\ a.kind = kinds[n]
    BY <1>1, <1>3 DEF Good, Numbered, IsGiven
  <1>5. call'.cmd = b /\ call' \in [busy: BOOLEAN, cmd: Commands \cup {NoCmd}]
    BY <1>1, IdleFacts, Typed
  <1>6. n \in Numbers
    BY <1>4, Facts, BoundsAssumption DEF Numbers
  <1>7. /\ conn \in K /\ kinds \in Seq(Kinds) /\ Len(kinds) <= MaxCmds
        /\ heard \in Heard /\ Odd \subseteq Bad /\ Bad \subseteq Int
        /\ \A m \in 1 .. Len(kinds) :
             ~Orderly(Bad, Odd, m) => \E j \in Bad : j <= m
        /\ kinds[n] = "events" => n \in Odd
    BY Facts
  <1>8. \/ line.code = "blank" /\ UNCHANGED <<heard, expected>>
        \/ IsResult(a, line) /\ UNCHANGED <<heard, expected>>
        \/ /\ IsSubscribed(a, line)
           /\ expected' = [expected EXCEPT ![a.n] = "ASYNC"]
           /\ UNCHANGED heard
        \/ /\ line.code # "blank"
           /\ \E m \in BOOLEAN :
                /\ m <=> (~Ends(line) \/ line.code \in {"short", "nodigit"})
                /\ Hear(a, Outcome(a, StatusOf(line.code), line.type), line.of, m)
           /\ UNCHANGED expected
    BY DEF ReadLine, Ends
  <1>9. ASSUME \/ line.code = "blank"
               \/ IsResult(a, line)
               \/ IsSubscribed(a, line)
        PROVE  conn' \in K /\ Good(conn', b, subscribed, closed, Bad, Odd, kinds, heard)
    <2>1. line.code = "blank" \/ line.type = "-" \/ a.n \in Odd
      BY <1>4, <1>7, <1>9 DEF IsResult, IsSubscribed
    <2> HIDE DEF a, line, b
    <2>2. line = Head(conn.input) /\ b = IF Stops(line) THEN NoCmd ELSE a
      BY DEF line, b
    <2>3. conn' \in K
      BY <1>1, <1>7, TakenFacts
    <2>4. Good(conn', b, subscribed, closed, Bad, Odd, kinds, heard)
      BY <1>1, <1>2, <1>3, <1>7, <2>1, <2>2, GoodSkip
    <2> QED
      BY <2>3, <2>4
  <1>10. CASE /\ line.code = "blank" \/ IsResult(a, line)
              /\ UNCHANGED <<heard, expected>>
    BY <1>1, <1>5, <1>9, <1>10, Typed, SilentStep
  <1>11. CASE /\ IsSubscribed(a, line)
              /\ expected' = [expected EXCEPT ![a.n] = "ASYNC"]
              /\ UNCHANGED heard
    <2>1. expected' \in [Numbers -> {"OK", "ASYNC"}]
      BY <1>4, <1>6, <1>11, Typed
    <2>2. conn' \in K /\ Good(conn', b, subscribed, closed, Bad, Odd, kinds, heard)
      BY <1>9, <1>11
    <2> QED
      BY <1>1, <1>5, <1>11, <2>1, <2>2, Typed, SilentStep
  <1>12. ASSUME line.code # "blank", NEW m \in BOOLEAN,
                m <=> (~Ends(line) \/ line.code \in {"short", "nodigit"}),
                Hear(a, Outcome(a, StatusOf(line.code), line.type), line.of, m),
                UNCHANGED expected
         PROVE  IInv'
    <2> DEFINE e == [status |-> Outcome(a, StatusOf(line.code), line.type),
                     of |-> line.of, more |-> m]
    <2>1. conn.input \in Seq(Lines)
      BY <1>7, KFields
    <2>2. line \in Lines
      BY <1>1, <2>1, HeadTailProperties
    <2>3. line.of \in 0 .. MaxCmds
      BY <2>2, LineFields
    <2>4. e \in Entry /\ e.of = line.of /\ (e.more <=> m)
      <3>1. e.status \in Statuses
        BY StatusFacts, OutcomeFacts
      <3> QED
        BY <2>3, <3>1 DEF Entry
    <2>5. heard' = Hears(heard, n, e)
      BY <1>4, <1>12 DEF Hear, Hears
    <2> DEFINE C == BadIn(kinds, heard')
               P == OddIn(kinds, heard')
    <2> HIDE DEF e, a, line, b
    <2>6. /\ BadIn(kinds, heard) \subseteq C /\ OddIn(kinds, heard) \subseteq P
          /\ e.more => n \in P
      BY <1>7, <2>4, <2>5, HearSets
    <2>7. Bad \subseteq C /\ Odd \subseteq P
      BY <2>6 DEF Bad, Odd
    <2>8. P \subseteq C /\ C \subseteq Int
      <3>1. P \subseteq C /\ C \subseteq 1 .. Len(kinds)
        BY <1>7, WentWrong
      <3> QED
        BY <3>1
    <2>9. e.more => n \in P
      BY <2>6
    <2> HIDE DEF C, P
    <2>10. Good(conn, a, subscribed, closed, C, P, kinds, heard)
      BY <1>3, <2>7, GoodWorse
    <2>11. ~e.more => ~Stops(line) /\ Ends(line)
      BY <1>12, <2>4 DEF Stops
    <2>12. conn' \in K /\ Good(conn', b, subscribed, closed, C, P, kinds, heard')
      <3>1. line = Head(conn.input) /\ b = IF Stops(line) THEN NoCmd ELSE a
        BY DEF line, b
      <3>2. heard' = Hears(heard, a.n, e) /\ (e.more => a.n \in P)
        BY <1>4, <2>5, <2>9
      <3>3. conn' \in K
        BY <1>1, <1>7, TakenFacts
      <3>4. Good(conn', b, subscribed, closed, C, P, kinds, heard')
        BY <1>1, <1>2, <1>7, <2>4, <2>8, <2>10, <2>11, <3>1, <3>2, GoodHear
      <3> QED
        BY <3>3, <3>4
    <2>13. Near(Bad, e.of, n)
      <3>1. AllNear(conn.input, Bad, a.n)
        BY <1>1, <1>3 DEF Good, Pipes
      <3>2. Near(Bad, line.of, a.n)
        BY <1>1, <2>1, <3>1, FirstNear DEF line
      <3> QED
        BY <1>4, <2>4, <3>2
    <2>14. Orderly(Bad, Odd, n) =>
             Len(heard[n]) < 3 /\ (e.of # 0 => ~Told(heard[n]))
      <3>1. Orderly(Bad, Odd, n) => Tidy(conn, a, heard[n])
        BY <1>1, <1>3, <1>4 DEF Good, Tidies
      <3>2. Replied(conn) /\ One(Replied(conn)) = 1
        BY <1>1 DEF Replied, One
      <3>3. Len(heard[n]) \in Nat
        BY <1>6, <1>7 DEF Heard
      <3>4. Orderly(Bad, Odd, n) => Len(heard[n]) + 1 <= 3 /\ ~Told(heard[n])
        BY <1>1, <3>1, <3>2 DEF Tidy
      <3> QED
        BY <3>3, <3>4
    <2>15. Good(conn', call'.cmd, subscribed', closed',
                BadIn(kinds, heard'), OddIn(kinds, heard'), kinds, heard')
      BY <1>1, <1>5, <2>12 DEF C, P
    <2>16. /\ kinds' = kinds /\ closed' \in BOOLEAN
           /\ expected' \in [Numbers -> {"OK", "ASYNC"}]
           /\ events' \in 0 .. MaxEvents /\ subscribed' \in 0 .. MaxCmds
      BY <1>1, <1>12, Typed
    <2> QED
      BY <1>5, <2>4, <2>5, <2>12, <2>13, <2>14, <2>15, <2>16, HearStep
  <1> QED
    BY <1>8, <1>10, <1>11, <1>12

\* What Ready and Authenticated say.
LEMMA GiveFacts ==
  ASSUME IInv, Ready, NEW kind \in Kinds, NEW n, n = Len(kinds) + 1,
         NEW js, js = Append(kinds, kind)
  PROVE  /\ js \in Seq(Kinds) /\ Len(js) = n /\ n \in Numbers /\ n <= MaxCmds
         /\ n \in 1 .. n
         /\ js[n] = kind /\ heard[n] = <<>>
         /\ Good(conn, call.cmd, subscribed, closed,
                 BadIn(js, heard), OddIn(js, heard), js, heard)
         /\ conn.cbs.mode # "none" => conn.cbs.cmd.n < n
         /\ call.cmd # NoCmd => call.cmd.n < n
         /\ Attributed(BadIn(js, heard), js, heard)
         /\ AllEnded(BadIn(js, heard), OddIn(js, heard), js, heard)
  <1>1. /\ ~closed /\ Len(kinds) < MaxCmds
        /\ Free(kinds, heard)
    BY DEF Ready, Free
  <1>2. /\ js \in Seq(Kinds) /\ Len(js) = n /\ js[n] = kind
        /\ \A m \in 1 .. Len(kinds) : m \in 1 .. Len(js) /\ js[m] = kinds[m]
        /\ \A m \in 1 .. Len(js) : m \in 1 .. Len(kinds) \/ m = n
        /\ BadIn(kinds, heard) \subseteq BadIn(js, heard)
        /\ OddIn(kinds, heard) \subseteq OddIn(js, heard)
    <2>1. kinds \in Seq(Kinds)
      BY Facts
    <2>2. /\ js \in Seq(Kinds) /\ Len(js) = Len(kinds) + 1
          /\ js[Len(kinds) + 1] = kind
          /\ \A m \in 1 .. Len(kinds) : m \in 1 .. Len(js) /\ js[m] = kinds[m]
          /\ \A m \in 1 .. Len(js) : m \in 1 .. Len(kinds) \/ m = Len(kinds) + 1
      BY <2>1, GiveSets
    <2>3. /\ BadIn(kinds, heard) \subseteq BadIn(js, heard)
          /\ OddIn(kinds, heard) \subseteq OddIn(js, heard)
      BY <2>1, GiveSets
    <2> QED
      BY <2>2, <2>3
  <1> DEFINE C == BadIn(js, heard)
             P == OddIn(js, heard)
  <1>3. Bad \subseteq C /\ Odd \subseteq P
    BY <1>2 DEF Bad, Odd
  <1> HIDE DEF C, P
  <1>4. Good(conn, call.cmd, subscribed, closed, C, P, kinds, heard)
    BY <1>3, Facts, GoodWorse
  <1>5. /\ conn \in K /\ call.cmd \in Commands \cup {NoCmd}
        /\ kinds \in Seq(Kinds) /\ heard \in Heard
    BY Facts
  <1>6. /\ Good(conn, call.cmd, subscribed, closed, C, P, js, heard)
        /\ n \in Numbers /\ heard[n] = <<>>
        /\ conn.cbs.mode # "none" => conn.cbs.cmd.n < n
        /\ call.cmd # NoCmd => call.cmd.n < n
    <2>1. conn.cbs.mode # "none" => IsGiven(conn.cbs.cmd, kinds)
      BY <1>4 DEF Good, Numbered
    <2>2. call.cmd # NoCmd => IsGiven(call.cmd, kinds)
      BY <1>4 DEF Good, Numbered
    <2>3. conn.cbs.mode # "none" => conn.cbs.cmd.n < n
      BY <1>5, <2>1, GivenLess
    <2>4. call.cmd # NoCmd => call.cmd.n < n
      BY <1>5, <2>2, GivenLess
    <2>5. kind \in Kinds /\ js = Append(kinds, kind) /\ n = Len(kinds) + 1
      OBVIOUS
    <2>6. /\ Good(conn, call.cmd, subscribed, closed, C, P, js, heard)
          /\ n \in Numbers /\ heard[n] = <<>>
      <3>1. Good(conn, call.cmd, subscribed, closed, C, P, js, heard)
        BY ONLY <1>1, <1>4, <1>5, <2>5, GoodMore
      <3>2. n \in Numbers
        BY ONLY <1>1, <1>4, <1>5, <2>5, GoodMore
      <3>3. heard[n] = <<>>
        <4>1. \A m \in Numbers : m > Len(kinds) => heard[m] = <<>>
          BY <1>4 DEF Good, Answered
        <4>2. n > Len(kinds)
          BY ONLY <1>5, <2>5
        <4> QED
          BY ONLY <3>2, <4>1, <4>2
      <3> QED
        BY <3>1, <3>2, <3>3
    <2> QED
      BY <2>3, <2>4, <2>6
  <1>7. n <= MaxCmds /\ n \in 1 .. n
    BY <1>6, BoundsAssumption DEF Numbers
  <1>8. \A i \in 1 .. Len(heard[n]) : FALSE
    BY <1>6
  <1>9. Attributed(C, js, heard)
    <2>1. Attributed(Bad, kinds, heard)
      BY DEF IInv
    <2>2. ASSUME NEW m \in 1 .. Len(js), NEW i \in 1 .. Len(heard[m])
          PROVE  heard[m][i].of = 0 \/ Near(C, heard[m][i].of, m)
      <3>1. m \in 1 .. Len(kinds)
        BY <1>2, <1>8, <2>2
      <3>2. heard[m][i].of = 0 \/ Near(Bad, heard[m][i].of, m)
        BY <2>1, <2>2, <3>1 DEF Attributed
      <3> QED
        BY <1>3, <3>2, NearMore
    <2> QED
      BY <2>2 DEF Attributed
  <1>10. AllEnded(C, P, js, heard)
    <2>1. AllEnded(Bad, Odd, kinds, heard)
      BY DEF IInv
    <2>2. ASSUME NEW m \in 1 .. Len(js), Orderly(C, P, m) PROVE Ended(heard[m])
      <3>1. CASE m = n
        <4>1. Len(heard[m]) = 0
          BY <1>6, <3>1
        <4> QED
          BY <4>1 DEF Ended
      <3>2. CASE m \in 1 .. Len(kinds)
        <4>1. Orderly(Bad, Odd, m)
          BY <1>3, <2>2, OrderlyLess
        <4> QED
          BY <2>1, <3>2, <4>1 DEF AllEnded
      <3> QED
        BY <1>2, <3>1, <3>2
    <2> QED
      BY <2>2 DEF AllEnded
  <1> QED
    BY <1>2, <1>6, <1>7, <1>9, <1>10 DEF C, P

LEMMA MakeCommand ==
  ASSUME NEW kind \in Kinds, NEW n \in Numbers, NEW cmd, cmd = Command(kind, n)
  PROVE  cmd \in Commands /\ cmd.n = n /\ cmd.kind = kind
  BY DEF Command, Commands

LEMMA StepGive ==
  ASSUME IInv, NEW kind \in Kinds \ {"auth"}, Give(kind)
  PROVE  IInv'
  <1> DEFINE n == Len(kinds) + 1
             js == Append(kinds, kind)
             cmd == Command(kind, n)
             C == BadIn(js, heard)
             P == OddIn(js, heard)
  <1>1. /\ Ready /\ Authenticated /\ kinds' = js /\ conn' = Send(conn, cmd)
        /\ UNCHANGED <<call, heard, expected, closed, events, subscribed>>
    BY DEF Give, tor
  <1>2. kind \in Kinds
    OBVIOUS
  <1>3. /\ js \in Seq(Kinds) /\ Len(js) = n /\ n \in Numbers /\ n <= MaxCmds
        /\ js[n] = kind /\ heard[n] = <<>> /\ n \in 1 .. n
        /\ Good(conn, call.cmd, subscribed, closed, C, P, js, heard)
        /\ conn.cbs.mode # "none" => conn.cbs.cmd.n < n
        /\ call.cmd # NoCmd => call.cmd.n < n
        /\ Attributed(C, js, heard) /\ AllEnded(C, P, js, heard)
    BY <1>1, <1>2, GiveFacts
  <1>4. ~closed
    BY <1>1 DEF Ready
  <1>5. InUse(conn)
    BY <1>1, <1>4, Facts DEF Authenticated, Given, Good, Answered
  <1>6. cmd \in Commands /\ cmd.n = n /\ cmd.kind = kind
    BY <1>2, <1>3, MakeCommand
  <1> HIDE DEF n, cmd, js, C, P
  <1>7. IsGiven(cmd, js)
    BY <1>3, <1>6 DEF IsGiven
  <1>8. /\ P \subseteq C /\ C \subseteq 1 .. Len(js)
        /\ \A m \in 1 .. Len(js) : ~Orderly(C, P, m) => \E b \in C : b <= m
        /\ \A m \in 1 .. Len(js) : js[m] = "events" => m \in P
    BY <1>3, WentWrong DEF C, P
  <1>9. C \subseteq Int
    BY <1>8
  <1>10. ASSUME NEW m \in 1 .. Len(js),
                js[m] = "events" \/ (heard[m] # <<>> /\ ~Told(heard[m]))
         PROVE  m \in C
    <2>1. CASE js[m] = "events"
      BY <1>8, <2>1
    <2>2. CASE heard[m] # <<>> /\ ~Told(heard[m])
      <3>1. m \in Numbers
        BY <1>3, BoundsAssumption DEF Numbers
      <3>2. heard[m] \in Seq(Entry)
        BY <3>1, Facts DEF Heard
      <3>3. 1 \in 1 .. Len(heard[m])
        BY <2>2, <3>2, EmptySeq
      <3>4. heard[m][1].status = "TIMEOUT_ERROR"
        BY <2>2, <3>3 DEF Told
      <3> QED
        BY <3>3, <3>4 DEF C, BadIn
    <2> QED
      BY <1>10, <2>1, <2>2
  <1>11. conn.cbs.cmd.n < cmd.n
    BY <1>3, <1>5, <1>6 DEF InUse
  <1>12. /\ conn \in K /\ call.cmd \in Commands \cup {NoCmd} /\ heard \in Heard
    BY Facts
  <1>13. conn' \in K
    BY <1>1, <1>6, <1>12, SendFacts
  <1>14. Good(conn', call.cmd, subscribed, closed, C, P, js, heard)
    <2>1. cmd.n = Len(js) /\ Len(js) <= MaxCmds /\ heard[cmd.n] = <<>>
      BY <1>3, <1>6
    <2>2. call.cmd # NoCmd => call.cmd.n < cmd.n
      BY <1>3, <1>6
    <2>3. \A m \in 1 .. Len(js) :
            js[m] = "events" \/ (heard[m] # <<>> /\ ~Told(heard[m])) => m \in C
      BY <1>10
    <2> QED
      BY <1>1, <1>3, <1>4, <1>5, <1>6, <1>7, <1>8, <1>9, <1>11, <1>12,
         <2>1, <2>2, <2>3, GoodSend
  <1>15. Bad' = C /\ Odd' = P
    BY <1>1 DEF Bad, Odd, C, P
  <1>16. TypeOK'
    BY <1>1, <1>3, <1>12, <1>13, Typed DEF TypeOK, K, Heard, Entry
  <1>17. Good(conn, call.cmd, subscribed, closed, Bad, Odd, kinds, heard)'
    BY <1>1, <1>14, <1>15
  <1>18. Attributed(Bad, kinds, heard)' /\ AllEnded(Bad, Odd, kinds, heard)'
    BY <1>1, <1>3, <1>15
  <1> QED
    BY <1>16, <1>17, <1>18 DEF IInv

LEMMA StepConnect == ASSUME IInv, ConnectAndAuthenticate PROVE IInv'
  <1> DEFINE n == Len(kinds) + 1
             js == Append(kinds, "auth")
             cmd == Command("auth", n)
             C == BadIn(js, heard)
             P == OddIn(js, heard)
  <1>1. /\ Ready /\ kinds' = js
        /\ UNCHANGED <<call, expected, closed, events, subscribed>>
    BY DEF ConnectAndAuthenticate, tor
  <1>2. "auth" \in Kinds
    BY DEF Kinds
  <1>3. \/ /\ conn.bev = "null" /\ conn' = Connect(conn, cmd) /\ heard' = heard
        \/ \E status \in {"CANNOT_PARSE_ADDRPORT", "ALREADY_CONNECTED"} :
             Hear(cmd, status, 0, FALSE) /\ conn' = conn
    BY DEF ConnectAndAuthenticate
  <1>4. /\ js \in Seq(Kinds) /\ Len(js) = n /\ n \in Numbers /\ n <= MaxCmds
        /\ js[n] = "auth" /\ heard[n] = <<>> /\ n \in 1 .. n
        /\ Good(conn, call.cmd, subscribed, closed, C, P, js, heard)
        /\ conn.cbs.mode # "none" => conn.cbs.cmd.n < n
        /\ call.cmd # NoCmd => call.cmd.n < n
        /\ Attributed(C, js, heard) /\ AllEnded(C, P, js, heard)
    BY <1>1, <1>2, GiveFacts
  <1>5. cmd \in Commands /\ cmd.n = n /\ cmd.kind = "auth"
    BY <1>2, <1>4, MakeCommand
  <1>6. IsGiven(cmd, js)
    BY <1>4, <1>5 DEF IsGiven
  <1>7. /\ conn \in K /\ call.cmd \in Commands \cup {NoCmd} /\ heard \in Heard
    BY Facts
  <1>8. CASE conn.bev = "null" /\ conn' = Connect(conn, cmd) /\ heard' = heard
    <2>1. Bad' = C /\ Odd' = P
      BY <1>1, <1>8 DEF Bad, Odd
    <2> HIDE DEF n, cmd, js, C, P
    <2>2. Len(js) <= MaxCmds /\ heard[cmd.n] = <<>>
      BY <1>4, <1>5
    <2>3. conn' \in K
      BY <1>5, <1>7, <1>8, ConnectFacts
    <2>4. Good(conn', call.cmd, subscribed, closed, C, P, js, heard)
      BY <1>4, <1>5, <1>6, <1>7, <1>8, <2>2, GoodConnect
    <2>5. TypeOK'
      BY <1>1, <1>4, <1>7, <1>8, <2>3, Typed DEF TypeOK, K, Heard, Entry
    <2>6. Good(conn, call.cmd, subscribed, closed, Bad, Odd, kinds, heard)'
      BY <1>1, <1>8, <2>1, <2>4
    <2>7. Attributed(Bad, kinds, heard)' /\ AllEnded(Bad, Odd, kinds, heard)'
      BY <1>1, <1>4, <1>8, <2>1
    <2> QED
      BY <2>5, <2>6, <2>7 DEF IInv
  <1>9. ASSUME NEW status \in {"CANNOT_PARSE_ADDRPORT", "ALREADY_CONNECTED"},
               Hear(cmd, status, 0, FALSE), conn' = conn
        PROVE  IInv'
    <2> DEFINE e == [status |-> status, of |-> 0, more |-> FALSE]
    <2>1. heard' = Hears(heard, n, e)
      BY <1>5, <1>9 DEF Hear, Hears
    <2>2. e \in Entry /\ e.of = 0 /\ e.status # "OK"
      <3>1. status \in Statuses
        BY DEF Statuses
      <3>2. 0 \in 0 .. MaxCmds
        BY BoundsAssumption
      <3> QED
        BY <3>1, <3>2 DEF Entry
    <2> DEFINE D == BadIn(js, heard')
               Q == OddIn(js, heard')
    <2>3. Bad' = D /\ Odd' = Q
      BY <1>1 DEF Bad, Odd
    <2> HIDE DEF n, cmd, js, e
    <2>4. n \in 1 .. Len(js) /\ Len(js) <= MaxCmds
      BY <1>4
    <2>5. C \subseteq D /\ P \subseteq Q /\ heard' \in Heard
      BY <1>4, <1>7, <2>1, <2>2, <2>4, HearSets
    <2>6. Len(heard[n]) = 0 /\ Len(heard[n]) < 3
      BY <1>4
    <2>7. Attributed(D, js, heard')
      BY <1>4, <1>7, <2>1, <2>2, <2>4, HearAttributed
    <2>8. AllEnded(D, Q, js, heard')
      BY <1>4, <1>7, <2>1, <2>2, <2>4, <2>6, HearEnded
    <2> HIDE DEF C, P, D, Q
    <2>9. Good(conn, call.cmd, subscribed, closed, D, Q, js, heard)
      BY <1>4, <2>5, GoodWorse
    <2>10. Good(conn, call.cmd, subscribed, closed, D, Q, js, heard')
      BY <1>4, <1>7, <2>1, <2>2, <2>4, <2>9, GoodNotConnected
    <2>11. TypeOK'
      BY <1>1, <1>4, <1>7, <1>9, <2>5, Typed DEF TypeOK, K, Heard, Entry
    <2>12. Good(conn, call.cmd, subscribed, closed, Bad, Odd, kinds, heard)'
      BY <1>1, <1>9, <2>3, <2>10
    <2>13. Attributed(Bad, kinds, heard)' /\ AllEnded(Bad, Odd, kinds, heard)'
      BY <1>1, <2>3, <2>7, <2>8
    <2> QED
      BY <2>11, <2>12, <2>13 DEF IInv
  <1> QED
    BY <1>3, <1>8, <1>9

\* Every step preserves the invariant.
LEMMA Inductive == IInv /\ [Next]_vars => IInv'
  <1> SUFFICES ASSUME IInv, [Next]_vars PROVE IInv'
    OBVIOUS
  <1>1. CASE Client
    BY <1>1, StepConnect, StepGive, StepClose DEF Client
  <1>2. CASE EventLoop
    BY <1>2, StepEstablished, StepConnectFailed, StepFlush, StepWriteError,
       StepRead, StepReadLine, StepConnLost, StepReturn, StepDelete
       DEF EventLoop
  <1>3. CASE Expired
    BY <1>3, StepReadTimeout, StepWriteTimeout DEF Expired
  <1>4. CASE Tor
    BY <1>4, StepTorReplies, StepTorEvent, StepTorCloses DEF Tor
  <1>5. CASE UNCHANGED vars
    BY <1>5, StepStutter
  <1> QED
    BY <1>1, <1>2, <1>3, <1>4, <1>5 DEF Next

\* The commands of Bad are the irregular ones.
LEMMA IrregularIsBad ==
  ASSUME NEW n \in Given
  PROVE  Irregular(n) <=> n \in Bad
  BY DEF Given, Irregular, Bad, BadIn
-----------------------------------------------------------------------------
(***************************************************************************)
(* The theorems.                                                           *)
(***************************************************************************)

\* The invariant holds in every reachable state of OnionCtrl and its client.
THEOREM Invariant == Spec => []IInv
  <1>1. Init => IInv
    BY Initially
  <1>2. IInv /\ [Next]_vars => IInv'
    BY Inductive
  <1> QED
    BY <1>1, <1>2, PTL DEF Spec

\* The variables always have their types (onion-ctrl.hpp:93-670).
THEOREM TypeCorrect == Spec => []TypeOK
  <1>1. IInv => TypeOK
    BY DEF IInv
  <1> QED
    BY <1>1, Invariant, PTL

\* For any number of commands and events, with timeouts or without: the callback
\* of a command hears of another command's reply only in the wake of an
\* irregular command (onion-ctrl.hpp:587-597, 623-670).
THEOREM Attribution == Spec => []ReplyAttribution
  <1>1. IInv => ReplyAttribution
    <2> SUFFICES ASSUME IInv, NEW n \in Given, NEW i \in 1 .. Len(heard[n]),
                        heard[n][i].of \notin {0, n}
                 PROVE  /\ heard[n][i].of < n
                        /\ \E m \in 1 .. heard[n][i].of : Irregular(m)
      BY DEF ReplyAttribution
    <2> DEFINE of == heard[n][i].of
    <2>1. Near(Bad, of, n)
      BY DEF IInv, Attributed, Given
    <2>2. of < n /\ \E m \in Bad : m <= of
      BY <2>1 DEF Near
    <2>3. PICK m \in Bad : m <= of
      BY <2>2
    <2>4. m \in 1 .. Len(kinds)
      BY Facts
    <2>5. of \in Int
      <3>1. n \in Numbers
        BY Facts, BoundsAssumption DEF Given, Numbers
      <3>2. heard[n] \in Seq(Entry)
        BY <3>1, Facts DEF Heard
      <3>3. heard[n][i] \in Entry
        BY <3>2
      <3>4. of \in 0 .. MaxCmds
        BY <3>3 DEF Entry
      <3> QED
        BY <3>4
    <2>6. Irregular(m)
      BY <2>4, IrregularIsBad DEF Given
    <2>7. m \in 1 .. of
      <3> HIDE DEF of
      <3> QED
        BY <2>3, <2>4, <2>5
    <2> QED
      BY <2>2, <2>6, <2>7
  <1> QED
    BY <1>1, Invariant, PTL

\* For any number of commands and events, with timeouts or without: before any
\* irregular command, a callback hears at most once of its reply, and three times
\* at most (onion-ctrl.hpp:623-629, 668-670).
THEOREM OneOutcomeOnly == Spec => []OneOutcome
  <1>1. IInv => OneOutcome
    <2> SUFFICES ASSUME IInv, NEW n \in Given,
                        kinds[n] \in {"auth", "void", "getinfo"},
                        \A m \in 1 .. n - 1 : ~Irregular(m),
                        \A i \in 1 .. Len(heard[n]) : ~heard[n][i].more
                 PROVE  Ended(heard[n])
      BY DEF OneOutcome, Ended
    <2>1. n \notin Odd
      BY DEF Odd, OddIn
    <2>2. ASSUME NEW m \in Bad PROVE m >= n
      <3>1. m \in 1 .. Len(kinds)
        BY Facts
      <3>2. Irregular(m)
        BY <3>1, IrregularIsBad DEF Given
      <3>3. m \notin 1 .. n - 1
        BY <3>2
      <3> QED
        BY <3>1, <3>3, Facts DEF Given
    <2>3. Orderly(Bad, Odd, n)
      BY <2>1, <2>2 DEF Orderly
    <2> QED
      BY <2>3 DEF IInv, AllEnded, Given
  <1> QED
    BY <1>1, Invariant, PTL

\* For any number of commands and events, with timeouts or without: no line waits
\* in the buffer between callbacks, except after an irregular command
\* (onion-ctrl.hpp:635-666).
THEOREM NothingLeft == Spec => []NothingLeftBehind
  <1>1. IInv => NothingLeftBehind
    <2> SUFFICES ASSUME IInv, Idle, conn.cbs.mode = "recv", conn.input # <<>>,
                        ~\E n \in Given : Irregular(n)
                 PROVE  FALSE
      BY DEF NothingLeftBehind
    <2>1. \A m \in Bad : FALSE
      BY Facts, IrregularIsBad DEF Given
    <2>2. Orderly(Bad, Odd, conn.cbs.cmd.n)
      BY <2>1, Facts DEF Orderly
    <2>3. call.cmd = NoCmd
      BY IdleFacts
    <2>4. Current(conn, NoCmd, heard[conn.cbs.cmd.n])
      BY <2>2, <2>3, Facts DEF Good, Tidies
    <2> QED
      BY <2>4 DEF Current
  <1> QED
    BY <1>1, Invariant, PTL
=============================================================================
