---------------------------- MODULE SocksProofs ----------------------------
(***************************************************************************)
(* Proofs about Socks: for every host, port, reply and number of bytes, and*)
(* for either signedness of char, the client is called at most once, is    *)
(* handed a connection whose next byte is the first of the remote host     *)
(* (if the reply is readable), and no request is sent for a host name that *)
(* is too long.                                                            *)
(***************************************************************************)
EXTENDS Socks, TLAPS

\* Where the closures in the slots say the handshake is, and what the rest of
\* the state then looks like.
StepInv ==
    /\ step = "connect" <=> bev = "connecting"
    /\ step \in {"method", "reply"} => bev = "open"
    /\ bev = "open" /\ step = "none" => held
    /\ asked = NotAsked => bev = "null" /\ reports = <<>> /\ ~held
    /\ step # "none" =>
          reports = <<>> /\ ~held /\ asked # NotAsked /\ asked.port # BadPort
    /\ Len(reports) <= 1
    /\ step = "method" => taken = 0
    /\ step = "reply" => taken = 2 /\ asked.host <= 255

\* The positions in the stream of the proxy.
StreamInv ==
    /\ taken <= got
    /\ got <= served
    /\ bev \in {"null", "connecting"} => taken = 0 /\ out = <<>> /\ sent = <<>>
    /\ \A i \in 1 .. Len(reports) : reports[i] = "OK" => served > 2

\* A header in the output buffer is followed by its host name, or will not be
\* written.
OutInv ==
    bev \in {"null", "connecting", "open"} =>
        \A i \in 1 .. Len(out) : out[i].what # "greeting" => asked.host <= 255

IInv ==
    /\ TypeOK
    /\ StepInv
    /\ StreamInv
    /\ OutInv
    /\ NoPartialRequest
    /\ ExactBytes
-----------------------------------------------------------------------------
LEMMA ModSmall ==
  ASSUME NEW a \in Nat, NEW m \in Nat, a < m
  PROVE  a % m = a
  OBVIOUS

LEMMA ModNat ==
  ASSUME NEW a \in Int, NEW m \in Nat, m > 0
  PROVE  a % m \in Nat
  OBVIOUS

LEMMA AsCharInt == ASSUME NEW n \in 0 .. 255 PROVE AsChar(n) \in -128 .. 255
  BY BuildAssumption DEF AsChar

\* `total` is the size of a reply that can be read.
LEMMA TotalIsSize ==
  ASSUME NEW r \in Replies, r.atype # 9
  PROVE  /\ Total(r) \in Nat
         /\ Readable(r) => Total(r) = Size(r)
  <1>1. r.len \in 0 .. 255 /\ r.atype \in {1, 3, 4}
    BY LengthsAssumption DEF Replies
  <1>2. AsChar(r.len) \in -128 .. 255
    BY <1>1, AsCharInt
  <1>3. SizeModulus \in Nat /\ SizeModulus > 512
    BY BuildAssumption, DataAssumption
  <1>4. CASE r.atype = 1
    BY <1>3, <1>4, ModSmall DEF Total, Size
  <1>5. CASE r.atype = 4
    BY <1>3, <1>5, ModSmall DEF Total, Size
  <1>6. CASE r.atype = 3
    <2> DEFINE t == 4 + (1 + AsChar(r.len)) + 2
    <2>1. Total(r) = t % SizeModulus
      BY <1>6 DEF Total
    <2>2. t \in Int
      BY <1>2
    <2>3. Total(r) \in Nat
      BY <1>3, <2>1, <2>2, ModNat
    <2>4. ASSUME Readable(r) PROVE Total(r) = Size(r)
      <3>1. AsChar(r.len) = r.len
        BY <1>1, <1>6, <2>4, BuildAssumption DEF AsChar, Readable
      <3>2. t \in Nat /\ t < SizeModulus /\ t = Size(r)
        BY <1>1, <1>3, <1>6, <3>1 DEF Size
      <3> QED
        BY <1>3, <2>1, <3>2, ModSmall
    <2> QED
      BY <2>3, <2>4
  <1> QED
    BY <1>1, <1>4, <1>5, <1>6

LEMMA SizeIsNat == ASSUME NEW r \in Replies PROVE Size(r) \in Nat /\ Size(r) > 5
  BY LengthsAssumption DEF Size, Replies
-----------------------------------------------------------------------------
LEMMA InitIInv == Init => IInv
  <1> SUFFICES ASSUME Init PROVE IInv
    OBVIOUS
  <1>1. TypeOK
    <2>1. /\ asked \in [host: Hosts, port: Ports] \cup {NotAsked}
          /\ bev \in {"null", "connecting", "open", "ignored", "deleted"}
          /\ step \in {"none", "connect", "method", "reply"}
          /\ held \in BOOLEAN
      BY DEF Init
    <2>2. /\ reports \in Seq(SocksStatuses)
          /\ out \in Seq(Messages)
          /\ sent \in Seq(Messages)
      BY DEF Init
    <2>3. /\ method \in Methods
          /\ reply \in Replies \cup {NoReply}
          /\ served \in Nat /\ got \in Nat /\ taken \in Nat
          /\ fin \in BOOLEAN
      BY DEF Init, Methods
    <2> QED
      BY <2>1, <2>2, <2>3 DEF TypeOK
  <1>2. StepInv /\ StreamInv /\ OutInv
    BY DEF Init, StepInv, StreamInv, OutInv
  <1>3. NoPartialRequest /\ ExactBytes
    BY DEF Init, NoPartialRequest, ExactBytes
  <1> QED
    BY <1>1, <1>2, <1>3 DEF IInv
-----------------------------------------------------------------------------
LEMMA MessagesTyped ==
  /\ Greeting \in Messages
  /\ Header \in Messages
  /\ \A host \in 0 .. 255, port \in Nat : Target(host, port) \in Messages
  <1>1. Greeting \in Messages /\ Header \in Messages
    <2>1. 0 \in 0 .. PortModulus - 1
      BY DEF PortModulus
    <2> QED
      BY <2>1 DEF Greeting, Header, Messages
  <1>2. ASSUME NEW host \in 0 .. 255, NEW port \in Nat
        PROVE  Target(host, port) \in Messages
    <2>1. PortModulus \in Nat \ {0}
      BY DEF PortModulus
    <2>2. port % PortModulus \in 0 .. PortModulus - 1
      BY <2>1
    <2> QED
      BY <2>2 DEF Target, Messages
  <1> QED
    BY <1>1, <1>2

\* What a client passed, if it got as far as a connection.
LEMMA AskedTyped ==
  ASSUME TypeOK, asked # NotAsked
  PROVE  asked.host \in Nat /\ (asked.port # BadPort => asked.port \in Nat)
  <1>1. asked.host \in Hosts /\ asked.port \in Ports
    BY DEF TypeOK
  <1> QED
    BY <1>1, HostsAssumption, PortsAssumption

\* Every step keeps the types: first the variables that do not depend on others,
\* then the numbers and the buffers.
LEMMA StepTypes ==
  ASSUME TypeOK, [Next]_vars
  PROVE  /\ asked' \in [host: Hosts, port: Ports] \cup {NotAsked}
         /\ bev' \in {"null", "connecting", "open", "ignored", "deleted"}
         /\ step' \in {"none", "connect", "method", "reply"}
         /\ held' \in BOOLEAN
         /\ reports' \in Seq(SocksStatuses)
         /\ method' \in Methods
         /\ reply' \in Replies \cup {NoReply}
         /\ fin' \in BOOLEAN
  <1> USE DEF Next, EventLoop, Client, Proxy, Connect, Established, ConnectFailed,
              Flush, Read, Method, Reply, Lost, Expired, OnEvent, Fail, DeleteVarp,
              ProxySelects, ProxyReplies, ProxyForwards, ProxyCloses,
              vars, client, stream
  <1>1. asked' \in [host: Hosts, port: Ports] \cup {NotAsked}
    BY DEF TypeOK
  <1>2. /\ bev' \in {"null", "connecting", "open", "ignored", "deleted"}
        /\ step' \in {"none", "connect", "method", "reply"}
    BY DEF TypeOK, Leave
  <1>3. held' \in BOOLEAN
    BY DEF TypeOK
  <1>4. fin' \in BOOLEAN
    BY DEF TypeOK
  <1>5. \/ reports' = reports
        \/ \E status \in SocksStatuses : reports' = Append(reports, status)
    BY DEF TypeOK, Report, SocksStatuses
  <1>6. method' \in Methods /\ reply' \in Replies \cup {NoReply}
    BY DEF TypeOK
  <1> HIDE DEF Next
  <1>7. reports' \in Seq(SocksStatuses)
    BY <1>5 DEF TypeOK
  <1> QED
    BY <1>1, <1>2, <1>3, <1>4, <1>6, <1>7

LEMMA StepNumbers ==
  ASSUME TypeOK, [Next]_vars
  PROVE  served' \in Nat /\ got' \in Nat /\ taken' \in Nat
  <1> USE DEF Next, EventLoop, Client, Proxy, Connect, Established, ConnectFailed,
              Flush, Read, Lost, Expired, OnEvent, DeleteVarp,
              ProxySelects, ProxyReplies, ProxyForwards, ProxyCloses,
              vars, client, stream
  <1>1. served' \in Nat /\ got' \in Nat
    BY SizeIsNat DEF TypeOK
  <1>2. reply.granted /\ reply.atype # 9 => Total(reply) \in Nat
    BY TotalIsSize DEF TypeOK, NoReply
  <1>3. taken' \in Nat
    BY <1>2 DEF TypeOK, Method, Reply
  <1> QED
    BY <1>1, <1>3

\* The buffers hold messages, and what is written moves from one to the other.
LEMMA StepBuffers ==
  ASSUME IInv, [Next]_vars
  PROVE  out' \in Seq(Messages) /\ sent' \in Seq(Messages)
  <1>1. out \in Seq(Messages) /\ sent \in Seq(Messages)
    BY DEF IInv, TypeOK
  <1>2. CASE Flush
    BY <1>1, <1>2 DEF Flush
  <1>3. CASE Established
    BY <1>1, <1>3, MessagesTyped DEF Established
  <1>4. CASE Read
    <2>1. sent' \in Seq(Messages)
      BY <1>1, <1>4 DEF Read
    <2>2. \/ out' = out
          \/ out' = Append(out, Header)
          \/ /\ step = "method" /\ asked.host <= 255
             /\ out' = out \o <<Header, Target(asked.host, asked.port)>>
      BY <1>4 DEF Read, Method
    <2>3. CASE out' = out \/ out' = Append(out, Header)
      <3>1. Header \in Messages
        BY MessagesTyped
      <3>2. Append(out, Header) \in Seq(Messages)
        BY ONLY <1>1, <3>1
      <3> QED
        BY ONLY <1>1, <2>1, <2>3, <3>2
    <2>4. CASE /\ step = "method" /\ asked.host <= 255
               /\ out' = out \o <<Header, Target(asked.host, asked.port)>>
      <3>1. asked # NotAsked /\ asked.port # BadPort
        BY <2>4 DEF IInv, StepInv
      <3>2. asked.host \in Nat /\ asked.port \in Nat
        BY <3>1, AskedTyped DEF IInv
      <3>3. asked.host <= 255
        BY <2>4
      <3>4. Target(asked.host, asked.port) \in Messages
        <4>1. asked.host \in 0 .. 255
          BY <3>2, <3>3
        <4> QED
          BY <3>2, <4>1, MessagesTyped
      <3>5. <<Header, Target(asked.host, asked.port)>> \in Seq(Messages)
        BY <3>4, MessagesTyped
      <3> QED
        BY <1>1, <2>1, <2>4, <3>5
    <2> QED
      BY <2>2, <2>3, <2>4
  <1>5. CASE UNCHANGED <<out, sent>>
    BY <1>1, <1>5
  <1> QED
    BY <1>2, <1>3, <1>4, <1>5
       DEF Next, EventLoop, Client, Proxy, Connect, ConnectFailed, Lost, Expired,
           OnEvent, DeleteVarp, ProxySelects, ProxyReplies, ProxyForwards,
           ProxyCloses, vars

LEMMA StepTypeOK == IInv /\ [Next]_vars => TypeOK'
  <1> SUFFICES ASSUME IInv, [Next]_vars PROVE TypeOK'
    OBVIOUS
  <1>1. TypeOK
    BY DEF IInv
  <1> QED
    BY <1>1, StepTypes, StepNumbers, StepBuffers DEF TypeOK
-----------------------------------------------------------------------------
Rest == StepInv /\ StreamInv /\ OutInv /\ NoPartialRequest /\ ExactBytes

\* The steps of the proxy: it never replies twice, so that what OK was reported
\* for stays what it is.
LEMMA ProxyKeeps ==
  ASSUME IInv, Proxy PROVE Rest'
  <1>1. CASE ProxySelects
    BY <1>1 DEF ProxySelects, client, IInv, TypeOK, Rest, StepInv, StreamInv,
                OutInv, NoPartialRequest, ExactBytes
  <1>2. CASE ProxyReplies
    BY <1>2, SizeIsNat DEF ProxyReplies, client, IInv, TypeOK, Rest, StepInv,
                StreamInv, OutInv, NoPartialRequest, ExactBytes
  <1>3. CASE ProxyForwards \/ ProxyCloses
    BY <1>3 DEF ProxyForwards, ProxyCloses, client, IInv, TypeOK, Rest, StepInv,
                StreamInv, OutInv, NoPartialRequest, ExactBytes
  <1> QED
    BY <1>1, <1>2, <1>3 DEF Proxy

\* What a status appended to no statuses looks like.
LEMMA FirstReport ==
  ASSUME NEW status, reports = <<>>, Report(status)
  PROVE  Len(reports') = 1 /\ reports' # <<>> /\ reports'[1] = status
  BY DEF Report

LEMMA ConnectKeeps ==
  ASSUME IInv, NEW host \in Hosts, NEW port \in Ports, Connect(host, port)
  PROVE  Rest'
  <1>1. /\ asked' # NotAsked /\ asked'.port = port
        /\ reports = <<>> /\ ~held /\ bev = "null" /\ step = "none"
    BY HostsAssumption DEF Connect, NotAsked, IInv, StepInv
  <1>2. /\ got \in Nat /\ served \in Nat /\ taken = 0 /\ taken <= got /\ got <= served
        /\ out = <<>> /\ sent = <<>>
    BY <1>1 DEF IInv, TypeOK, StreamInv
  <1>3. UNCHANGED <<held, method, reply, served, fin, out, sent, got, taken>>
    BY DEF Connect, stream
  <1>4. CASE /\ bev' = "null" /\ step' = "none"
             /\ \E s \in {"INVALID_PORT", "INVALID_PROXY_ADDRESS"} : Report(s)
    <2>1. Len(reports') = 1 /\ reports' # <<>> /\ reports'[1] # "OK"
      BY <1>1, <1>4, FirstReport
    <2>2. StepInv'
      BY <1>1, <1>3, <1>4, <2>1 DEF StepInv
    <2>3. StreamInv' /\ OutInv' /\ NoPartialRequest' /\ ExactBytes'
      BY <1>2, <1>3, <2>1 DEF StreamInv, OutInv, NoPartialRequest, ExactBytes
    <2> QED
      BY <2>2, <2>3 DEF Rest
  <1>5. CASE /\ port # BadPort /\ bev' = "connecting" /\ step' = "connect"
             /\ UNCHANGED reports
    <2>1. reports' = <<>>
      BY <1>1, <1>5
    <2>2. StepInv'
      BY <1>1, <1>3, <1>5, <2>1 DEF StepInv
    <2>3. StreamInv' /\ OutInv' /\ NoPartialRequest' /\ ExactBytes'
      BY <1>2, <1>3, <2>1 DEF StreamInv, OutInv, NoPartialRequest, ExactBytes
    <2> QED
      BY <2>2, <2>3 DEF Rest
  <1>6. UNCHANGED <<bev, step>> => bev' = "null" /\ step' = "none"
    BY <1>1
  <1> QED
    BY <1>4, <1>5, <1>6 DEF Connect

\* A handshake that fails: the connection is silenced, so that what is in its
\* output buffer no longer matters.
LEMMA FailureKeeps ==
  ASSUME IInv, step # "none", NEW status, status # "OK", Fail(status), Leave("open"),
         got' <= served, taken' <= got', UNCHANGED <<asked, sent, served>>
  PROVE  Rest'
  <1>1. /\ reports = <<>> /\ ~held /\ asked # NotAsked
    BY DEF IInv, StepInv
  <1>2. Len(reports') = 1 /\ reports' # <<>> /\ reports'[1] # "OK"
    BY <1>1, FirstReport DEF Fail
  <1>3. bev' = "ignored" /\ step' = "none" /\ ~held'
    BY <1>1 DEF Fail, Leave, IInv, TypeOK
  <1>4. StepInv'
    BY <1>1, <1>2, <1>3 DEF StepInv
  <1>5. StreamInv' /\ OutInv' /\ ExactBytes'
    BY <1>2, <1>3 DEF StreamInv, OutInv, ExactBytes
  <1>6. NoPartialRequest'
    BY DEF IInv, NoPartialRequest
  <1> QED
    BY <1>4, <1>5, <1>6 DEF Rest

LEMMA ConnectFailedKeeps == ASSUME IInv, ConnectFailed PROVE Rest'
  <1>1. step # "none"
    BY DEF ConnectFailed, IInv, StepInv
  <1>2. got' <= served /\ taken' <= got'
    BY DEF ConnectFailed, stream, IInv, StreamInv
  <1> QED
    BY <1>1, <1>2, FailureKeeps DEF ConnectFailed, stream

LEMMA OnEventKeeps == ASSUME IInv, OnEvent PROVE Rest'
  <1>1. got' <= served /\ taken' <= got'
    BY DEF OnEvent, stream, IInv, StreamInv
  <1> QED
    BY <1>1, FailureKeeps DEF OnEvent, stream

LEMMA EstablishedKeeps == ASSUME IInv, Established PROVE Rest'
  <1>1. /\ step # "none" /\ reports = <<>> /\ ~held /\ asked # NotAsked
        /\ asked.port # BadPort
    BY DEF Established, IInv, StepInv
  <1>2. /\ taken = 0 /\ out = <<>> /\ sent = <<>>
        /\ got \in Nat /\ served \in Nat /\ taken <= got /\ got <= served
    BY DEF Established, IInv, TypeOK, StreamInv
  <1>3. bev' = "open" /\ step' = "method"
    BY DEF Established, Leave
  <1>4. UNCHANGED <<asked, held, reports, served, got, taken, sent>>
    BY DEF Established, stream
  <1>5. Len(out') = 1 /\ out'[1] = Greeting
    BY <1>2 DEF Established
  <1>6. StepInv'
    BY <1>1, <1>2, <1>3, <1>4 DEF StepInv
  <1>7. StreamInv' /\ NoPartialRequest' /\ ExactBytes'
    BY <1>1, <1>2, <1>3, <1>4 DEF StreamInv, NoPartialRequest, ExactBytes
  <1>8. OutInv'
    BY <1>5 DEF OutInv, Greeting
  <1> QED
    BY <1>6, <1>7, <1>8 DEF Rest

\* What is written keeps its order, and was in the output buffer.
LEMMA FlushKeeps == ASSUME IInv, Flush PROVE Rest'
  <1>1. PICK n \in 1 .. Len(out) : /\ sent' = sent \o SubSeq(out, 1, n)
                                   /\ out' = SubSeq(out, n + 1, Len(out))
    BY DEF Flush
  <1>2. UNCHANGED <<client, stream, bev, step, got, taken>> /\ bev = "open"
    BY DEF Flush
  <1>3. out \in Seq(Messages) /\ sent \in Seq(Messages)
    BY DEF IInv, TypeOK
  <1>4. /\ \A i \in 1 .. Len(out) : out[i].what # "greeting" => asked.host <= 255
        /\ \A i \in 1 .. Len(sent) : sent[i].what # "greeting" => asked.host <= 255
    BY <1>2 DEF IInv, OutInv, NoPartialRequest
  <1>5. \A i \in 1 .. Len(out') : out'[i] = out[n + i] /\ n + i \in 1 .. Len(out)
    BY <1>1, <1>3
  <1>6. \A i \in 1 .. Len(sent') :
          \/ i \in 1 .. Len(sent) /\ sent'[i] = sent[i]
          \/ i - Len(sent) \in 1 .. Len(out) /\ sent'[i] = out[i - Len(sent)]
    BY <1>1, <1>3
  <1>7. OutInv'
    BY <1>2, <1>4, <1>5 DEF OutInv, client
  <1>8. NoPartialRequest'
    BY <1>2, <1>4, <1>6 DEF NoPartialRequest, client
  <1>9. StepInv' /\ StreamInv' /\ ExactBytes'
    BY <1>2 DEF IInv, StepInv, StreamInv, ExactBytes, client, stream
  <1> QED
    BY <1>7, <1>8, <1>9 DEF Rest

LEMMA DeleteVarpKeeps == ASSUME IInv, DeleteVarp PROVE Rest'
  BY DEF DeleteVarp, client, stream, IInv, Rest, StepInv, StreamInv, OutInv,
         NoPartialRequest, ExactBytes
-----------------------------------------------------------------------------
\* What every read callback finds, and what it leaves when it waits for more.
LEMMA ReadFacts ==
  ASSUME IInv, Read
  PROVE  /\ step \in {"method", "reply"} /\ bev = "open" /\ reports = <<>> /\ ~held
         /\ asked # NotAsked /\ asked.port # BadPort
         /\ got \in Nat /\ got' \in Nat /\ served \in Nat /\ taken \in Nat
         /\ taken <= got /\ got <= got' /\ got' <= served
         /\ UNCHANGED <<asked, sent, served, method, reply>>
  <1>1. /\ step \in {"method", "reply"} /\ bev = "open"
        /\ UNCHANGED <<asked, sent, served, method, reply>>
    BY DEF Read, stream
  <1>2. /\ reports = <<>> /\ ~held /\ asked # NotAsked /\ asked.port # BadPort
    BY <1>1 DEF IInv, StepInv
  <1>3. got \in Nat /\ served \in Nat /\ taken \in Nat /\ taken <= got
    BY DEF IInv, TypeOK, StreamInv
  <1>4. got' \in Nat /\ got <= got' /\ got' <= served
    BY <1>3 DEF Read
  <1> QED
    BY <1>1, <1>2, <1>3, <1>4

LEMMA WaitKeeps ==
  ASSUME IInv, Read, UNCHANGED <<step, held, reports, out, taken>>
  PROVE  Rest'
  <1>1. bev' = "open"
    BY ReadFacts DEF Read, Leave
  <1>2. StepInv'
    BY <1>1, ReadFacts DEF IInv, StepInv
  <1>3. StreamInv' /\ OutInv' /\ NoPartialRequest' /\ ExactBytes'
    BY <1>1, ReadFacts
       DEF IInv, StreamInv, OutInv, NoPartialRequest, ExactBytes
  <1> QED
    BY <1>2, <1>3 DEF Rest

\* The request is put into the output buffer with a host name that fits.
LEMMA MethodKeeps == ASSUME IInv, Read, step = "method", Method PROVE Rest'
  <1>1. taken = 0
    BY DEF IInv, StepInv
  <1>2. CASE UNCHANGED <<step, held, reports, out, taken>>
    BY <1>2, WaitKeeps
  <1>3. CASE /\ got' - taken >= 2 /\ taken' = taken + 2
             /\ \E status \in {"UNEXPECTED_VERSION", "PROTO_ERROR",
                               "ADDRESS_TOO_LONG"} : Fail(status)
    <2>1. taken' <= got'
      BY <1>3, ReadFacts
    <2>2. PICK status : status # "OK" /\ Fail(status)
      BY <1>3
    <2>3. Leave("open")
      BY DEF Read
    <2> QED
      BY <2>1, <2>2, <2>3, ReadFacts, FailureKeeps
  <1>4. CASE /\ got' - taken >= 2 /\ taken' = taken + 2 /\ asked.host <= 255
             /\ out' = out \o <<Header, Target(asked.host, asked.port)>>
             /\ step' = "reply" /\ UNCHANGED <<held, reports>>
    <2>1. bev' = "open"
      BY <1>4 DEF Read, Leave
    <2>2. taken' = 2 /\ taken' <= got'
      BY <1>1, <1>4, ReadFacts
    <2>3. StepInv'
      BY <1>4, <2>1, <2>2, ReadFacts DEF StepInv
    <2>4. StreamInv'
      BY <1>4, <2>1, <2>2, ReadFacts DEF StreamInv
    <2>5. OutInv' /\ NoPartialRequest'
      BY <1>4, ReadFacts DEF IInv, OutInv, NoPartialRequest
    <2>6. ExactBytes'
      BY <1>4, ReadFacts DEF ExactBytes
    <2> QED
      BY <2>3, <2>4, <2>5, <2>6 DEF Rest
  <1> QED
    BY <1>2, <1>3, <1>4 DEF Method

\* The reply is taken whole: what is removed is its size, if it can be read.
LEMMA ReplyKeeps ==
  ASSUME IInv, Read, step = "reply", Reply, UNCHANGED out
  PROVE  Rest'
  <1>1. taken = 2 /\ asked.host <= 255
    BY DEF IInv, StepInv
  <1>2. CASE UNCHANGED <<step, held, reports, taken>>
    BY <1>2, WaitKeeps
  <1>3. CASE /\ UNCHANGED taken
             /\ \E status \in {"PROTO_ERROR", "INVALID_ATYPE"} : Fail(status)
    <2>1. taken' <= got'
      BY <1>3, ReadFacts
    <2>2. PICK status : status # "OK" /\ Fail(status)
      BY <1>3
    <2>3. Leave("open")
      BY DEF Read
    <2> QED
      BY <2>1, <2>2, <2>3, ReadFacts, FailureKeeps
  <1>4. CASE /\ reply.granted /\ reply.atype # 9
             /\ got' - taken >= 5 /\ got' - taken >= Total(reply)
             /\ taken' = taken + Total(reply)
             /\ step' = "none" /\ Report("OK") /\ held' \in BOOLEAN
    <2>1. reply \in Replies
      BY <1>4 DEF IInv, TypeOK, NoReply
    <2>2. Total(reply) \in Nat /\ (Readable(reply) => Total(reply) = Size(reply))
      BY <1>4, <2>1, TotalIsSize
    <2>3. Len(reports') = 1 /\ reports' # <<>>
      BY <1>4, ReadFacts, FirstReport
    <2>4. /\ taken' <= got' /\ served > 2
          /\ Readable(reply) => taken' = 2 + Size(reply)
      BY <1>1, <1>4, <2>2, ReadFacts
    <2>5. (bev' = "open" /\ held') \/ bev' = "ignored"
      BY <1>4 DEF Read, Leave
    <2>6. StepInv'
      BY <1>4, <2>3, <2>5, ReadFacts DEF StepInv
    <2>7. StreamInv'
      BY <2>4, <2>5, ReadFacts DEF StreamInv
    <2>8. OutInv' /\ NoPartialRequest'
      BY <1>1, ReadFacts DEF IInv, OutInv, NoPartialRequest
    <2>9. ExactBytes'
      BY <1>4, <2>4, ReadFacts DEF ExactBytes
    <2> QED
      BY <2>6, <2>7, <2>8, <2>9 DEF Rest
  <1> QED
    BY <1>2, <1>3, <1>4 DEF Reply
-----------------------------------------------------------------------------
LEMMA StutterKeeps == ASSUME IInv, UNCHANGED vars PROVE Rest'
  BY DEF vars, client, stream, IInv, Rest, StepInv, StreamInv, OutInv,
         NoPartialRequest, ExactBytes

LEMMA StepIInv == IInv /\ [Next]_vars => IInv'
  <1> SUFFICES ASSUME IInv, [Next]_vars PROVE IInv'
    OBVIOUS
  <1>1. TypeOK'
    BY StepTypeOK
  <1>2. ASSUME Read PROVE Rest'
    BY <1>2, MethodKeeps, ReplyKeeps DEF Read
  <1>3. Rest'
    BY <1>2, ConnectKeeps, ConnectFailedKeeps, EstablishedKeeps, FlushKeeps,
       OnEventKeeps, DeleteVarpKeeps, ProxyKeeps, StutterKeeps
       DEF Next, EventLoop, Client, Lost, Expired
  <1> QED
    BY <1>1, <1>3 DEF IInv, Rest

THEOREM Invariance == Spec => []IInv
  BY InitIInv, StepIInv, PTL DEF Spec

\* Every variable keeps its type, for every host, port and reply.
THEOREM TypeCorrect == Spec => []TypeOK
  <1>1. IInv => TypeOK
    BY DEF IInv
  <1> QED
    BY <1>1, Invariance, PTL

\* Socks::connect calls its callback at most once, and leaves nothing behind
\* that could call it again (socks.hpp:156-281).
THEOREM OnceReported == Spec => []ReportedOnce
  <1>1. IInv => ReportedOnce
    BY DEF IInv, StepInv, ReportedOnce
  <1> QED
    BY <1>1, Invariance, PTL

\* A client that hears OK finds in the connection the bytes of the remote host,
\* from the first on, if the reply can be read (socks.hpp:237-260).
THEOREM BytesExact == Spec => []ExactBytes
  <1>1. IInv => ExactBytes
    BY DEF IInv
  <1> QED
    BY <1>1, Invariance, PTL

\* The proxy is not sent the request for a host name of more than 255 bytes
\* (socks.hpp:198-208).
THEOREM RequestsWhole == Spec => []NoPartialRequest
  <1>1. IInv => NoPartialRequest
    BY DEF IInv
  <1> QED
    BY <1>1, Invariance, PTL
=============================================================================
