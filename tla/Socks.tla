------------------------------- MODULE Socks -------------------------------
(***************************************************************************)
(* Socks::connect (src/src/net/socks.hpp): a connection to a SOCKS5 proxy, *)
(* with the handshake after which the proxy forwards to a remote host.     *)
(*                                                                         *)
(* What the proxy sends is a stream of bytes, two for the method it        *)
(* selects, then its reply, then the data of the remote host.  A byte is   *)
(* known by its position: the stream is kept as three numbers, how many    *)
(* bytes the proxy sent, how many arrived, how many were taken from the    *)
(* input buffer.                                                           *)
(***************************************************************************)
EXTENDS Integers, Sequences

CONSTANTS
    Hosts,        \* the lengths of the host names clients pass
    Ports,        \* the ports they pass: BadPort, or numbers of five digits
    BadPort,      \* a port that is too long or has a character not a digit
    Lengths,      \* the lengths of domain names in replies
    MaxData,      \* bound: how many bytes the remote host sends
    CharIsSigned, \* whether char is a signed type in the build
    SizeModulus   \* 2^w for a size_t of w bits

ASSUME HostsAssumption == Hosts \subseteq Nat
ASSUME PortsAssumption == BadPort \notin Nat /\ Ports \subseteq Nat \cup {BadPort}
ASSUME LengthsAssumption == Lengths \subseteq 0 .. 255
ASSUME DataAssumption == MaxData \in Nat
ASSUME BuildAssumption ==
    CharIsSigned \in BOOLEAN /\ SizeModulus \in Nat /\ SizeModulus > 512 + MaxData

VARIABLES
    asked,    \* what the client passed to connect
    bev,      \* the Bufferevent of the connection
    step,     \* what the closures in its slots wait for
    held,     \* the client keeps the Bufferevent, which is then its own
    reports,  \* the statuses the callback of the client was called with
    out,      \* the output buffer
    sent,     \* what the proxy got
    method,   \* the method the proxy selected
    reply,    \* its reply
    served,   \* how many bytes the proxy sent
    got,      \* how many of them arrived
    taken,    \* how many of those were removed from the input buffer
    fin       \* the proxy closed the connection, or it broke

client == <<asked, held, reports>>
stream == <<method, reply, served, fin>>
vars == <<client, stream, bev, step, out, sent, got, taken>>

NotAsked == [host |-> -1, port |-> BadPort]

Methods == {"none", "no_auth", "not_five", "other"}

\* The reply: whether it has the right version, status and reserved byte, the
\* type of the address in it and, if that is a domain name, its length.
Replies == [granted: BOOLEAN, atype: {1, 3, 4, 9}, len: Lengths]

NoReply == [granted |-> FALSE, atype |-> 1, len |-> 0]

SocksStatuses ==
    {"OK", "CONNECT_FAILED", "UNEXPECTED_VERSION", "PROTO_ERROR",
     "ADDRESS_TOO_LONG", "INVALID_ATYPE", "IO_ERROR_STEP_2", "IO_ERROR_STEP_4",
     "INVALID_PROXY_ADDRESS", "INVALID_PORT"}

Greeting == [what |-> "greeting", host |-> 0, port |-> 0]
Header == [what |-> "header", host |-> 0, port |-> 0]

\* How many ports a uint16_t tells apart.
PortModulus == 65536

\* The host name behind its length, and a port that was not cut to 16 bits.
TargetWide(host, port) == [what |-> "target", host |-> host, port |-> port]

\* The host name behind its length, and the port, a uint16_t.
Target(host, port) ==
    [what |-> "target", host |-> host, port |-> port % PortModulus]

Messages ==
    [what: {"greeting", "header", "target"}, host: 0 .. 255,
     port: 0 .. PortModulus - 1]

Init ==
    /\ asked = NotAsked
    /\ bev = "null"
    /\ step = "none"
    /\ held = FALSE
    /\ reports = <<>>
    /\ out = <<>>
    /\ sent = <<>>
    /\ method = "none"
    /\ reply = NoReply
    /\ served = 0
    /\ got = 0
    /\ taken = 0
    /\ fin = FALSE
-----------------------------------------------------------------------------
\* The size of a reply: version, status, reserved byte, type of address, the
\* address and the port.
Size(r) ==
    4 + (CASE r.atype = 1 -> 4 [] r.atype = 3 -> 1 + r.len
           [] r.atype = 4 -> 16 [] OTHER -> 4) + 2

\* The length of a domain name, read as a char.
AsChar(len) == IF CharIsSigned /\ len > 127 THEN len - 256 ELSE len

\* `total` for an address without its port.
TotalNoPort(r) ==
    (4 + (CASE r.atype = 1 -> 4 [] r.atype = 3 -> 1 + AsChar(r.len)
            [] OTHER -> 16)) % SizeModulus

\* `total`, a size_t, for a reply with a known type of address.
Total(r) ==
    (4 + (CASE r.atype = 1 -> 4 [] r.atype = 3 -> 1 + AsChar(r.len)
            [] OTHER -> 16) + 2) % SizeModulus

Report(status) == reports' = Append(reports, status)

\* A failure that leaves the closures where they are.
FailKeeps(status) ==
    /\ Report(status)
    /\ UNCHANGED <<step, held>>

\* The closures are cleared, then the callback is called without a Bufferevent.
Fail(status) ==
    /\ step' = "none"
    /\ Report(status)
    /\ UNCHANGED held

\* A callback of libevent ends and the Bufferevent is left to itself.
LeaveAlone(state) == bev' = state

\* The end of a callback of libevent: the Bufferevent is silenced, and deleted
\* in the next cycle, if neither a closure nor the client refers to it.
Leave(state) == bev' = IF step' = "none" /\ ~held' THEN "ignored" ELSE state
-----------------------------------------------------------------------------
\* Socks::connect: a port or a proxy address that does not parse is reported at
\* once.
Connect(host, port) ==
    /\ asked = NotAsked
    /\ asked' = [host |-> host, port |-> port]
    /\ \/ /\ port = BadPort
          /\ Report("INVALID_PORT")
          /\ UNCHANGED <<bev, step>>
       \/ /\ port # BadPort
          /\ Report("INVALID_PROXY_ADDRESS")
          /\ UNCHANGED <<bev, step>>
       \/ /\ port # BadPort
          /\ bev' = "connecting"
          /\ step' = "connect"
          /\ UNCHANGED reports
    /\ UNCHANGED <<held, stream, out, sent, got, taken>>
-----------------------------------------------------------------------------
\* Step 1, when the proxy accepts the connection.
Established ==
    /\ bev = "connecting"
    /\ out' = Append(out, Greeting)
    /\ step' = "method"
    /\ UNCHANGED <<held, reports>>
    /\ Leave("open")
    /\ UNCHANGED <<asked, stream, sent, got, taken>>

\* The connection fails, or times out.
ConnectFailed ==
    /\ bev = "connecting"
    /\ Fail("CONNECT_FAILED")
    /\ Leave("open")
    /\ UNCHANGED <<asked, stream, out, sent, got, taken>>

\* Part of the output is written; there is no closure to call.
Flush ==
    /\ bev = "open"
    /\ \E n \in 1 .. Len(out) :
         /\ sent' = sent \o SubSeq(out, 1, n)
         /\ out' = SubSeq(out, n + 1, Len(out))
    /\ UNCHANGED <<client, stream, bev, step, got, taken>>

\* Steps 2 and 3: the read callback that waits for the method.
Method ==
    \/ /\ got' - taken < 2
       /\ UNCHANGED <<step, held, reports, out, taken>>
    \/ /\ got' - taken >= 2
       /\ taken' = taken + 2
       /\ \/ /\ method = "not_five"
             /\ Fail("UNEXPECTED_VERSION")
             /\ UNCHANGED out
          \/ /\ method = "other"
             /\ Fail("PROTO_ERROR")
             /\ UNCHANGED out
          \/ /\ method = "no_auth"
             /\ asked.host > 255
             /\ out' = Append(out, Header)
             /\ Fail("ADDRESS_TOO_LONG")
          \/ /\ method = "no_auth"
             /\ asked.host <= 255
             /\ out' = out \o <<Header, Target(asked.host, asked.port)>>
             /\ step' = "reply"
             /\ UNCHANGED <<held, reports>>

\* Steps 4 and 5: the read callback that waits for the reply.
Reply ==
    \/ /\ got' - taken < 5
       /\ UNCHANGED <<step, held, reports, taken>>
    \/ /\ got' - taken >= 5
       /\ \/ /\ ~reply.granted
             /\ Fail("PROTO_ERROR")
             /\ UNCHANGED taken
          \/ /\ reply.granted
             /\ reply.atype = 9
             /\ Fail("INVALID_ATYPE")
             /\ UNCHANGED taken
          \/ /\ reply.granted
             /\ reply.atype # 9
             /\ got' - taken < Total(reply)
             /\ UNCHANGED <<step, held, reports, taken>>
          \/ /\ reply.granted
             /\ reply.atype # 9
             /\ got' - taken >= Total(reply)
             /\ taken' = taken + Total(reply)
             /\ step' = "none"
             /\ Report("OK")
             /\ held' \in BOOLEAN

\* Some of the bytes on their way arrive.
Read ==
    /\ bev = "open"
    /\ step # "none"
    /\ \E n \in 1 .. served - got : got' = got + n
    /\ \/ step = "method" /\ Method
       \/ step = "reply" /\ Reply /\ UNCHANGED out
    /\ Leave("open")
    /\ UNCHANGED <<asked, stream, sent>>

\* Event callbacks that clear the closures and call nobody.
OnEventSilent ==
    /\ bev = "open"
    /\ step \in {"method", "reply"}
    /\ step' = "none"
    /\ UNCHANGED <<held, reports>>
    /\ Leave("open")
    /\ UNCHANGED <<asked, stream, out, sent, got, taken>>

\* The event callbacks of steps 2 and 4.
OnEvent ==
    /\ bev = "open"
    /\ \/ step = "method" /\ Fail("IO_ERROR_STEP_2")
       \/ step = "reply" /\ Fail("IO_ERROR_STEP_4")
    /\ Leave("open")
    /\ UNCHANGED <<asked, stream, out, sent, got, taken>>

\* The end of the stream, which comes after its last byte, or an error.
Lost == fin /\ OnEvent

\* The client passed a timeout to connect.
Expired == OnEvent

\* The deletion that is_ignored_by_cxx scheduled.
DeleteVarp ==
    /\ bev = "ignored"
    /\ bev' = "deleted"
    /\ UNCHANGED <<client, stream, step, out, sent, got, taken>>
-----------------------------------------------------------------------------
(***************************************************************************)
(* The proxy, which answers what it got, and anything at all.              *)
(***************************************************************************)

Got(what) == \E i \in 1 .. Len(sent) : sent[i].what = what

ProxySelects ==
    /\ ~fin
    /\ served = 0
    /\ Got("greeting")
    /\ method' \in Methods \ {"none"}
    /\ served' = 2
    /\ UNCHANGED <<client, reply, fin, bev, step, out, sent, got, taken>>

ProxyReplies ==
    /\ ~fin
    /\ served = 2
    /\ Got("target")
    /\ reply' \in Replies
    /\ served' = 2 + Size(reply')
    /\ UNCHANGED <<client, method, fin, bev, step, out, sent, got, taken>>

ProxyForwards ==
    /\ ~fin
    /\ served > 2
    /\ reply.granted
    /\ served < 2 + Size(reply) + MaxData
    /\ served' = served + 1
    /\ UNCHANGED <<client, method, reply, fin, bev, step, out, sent, got, taken>>

ProxyCloses ==
    /\ bev = "open"
    /\ ~fin
    /\ fin' = TRUE
    /\ UNCHANGED <<client, method, reply, served, bev, step, out, sent, got, taken>>
-----------------------------------------------------------------------------
EventLoop ==
    \/ Established
    \/ ConnectFailed
    \/ Flush
    \/ Read
    \/ Lost
    \/ DeleteVarp

Client == \E host \in Hosts, port \in Ports : Connect(host, port)

Proxy == ProxySelects \/ ProxyReplies \/ ProxyForwards \/ ProxyCloses

Next == EventLoop \/ Expired \/ Client \/ Proxy

Spec == Init /\ [][Next]_vars

\* The event loop runs as long as it has something to run, and the proxy answers
\* or closes; a timeout may help, but need not.
FairSpec == Spec /\ WF_vars(EventLoop) /\ WF_vars(ProxySelects \/ ProxyReplies)
-----------------------------------------------------------------------------
\* The variables have their types.
TypeOK ==
    /\ asked \in [host: Hosts, port: Ports] \cup {NotAsked}
    /\ bev \in {"null", "connecting", "open", "ignored", "deleted"}
    /\ step \in {"none", "connect", "method", "reply"}
    /\ held \in BOOLEAN
    /\ reports \in Seq(SocksStatuses)
    /\ out \in Seq(Messages)
    /\ sent \in Seq(Messages)
    /\ method \in Methods
    /\ reply \in Replies \cup {NoReply}
    /\ served \in Nat /\ got \in Nat /\ taken \in Nat
    /\ fin \in BOOLEAN

\* The reply is not one whose length a signed char cannot hold.
Readable(r) == r.atype = 3 /\ CharIsSigned => r.len < 128

\* The callback of the client is called once, whatever the proxy and the network
\* do, and from then on no closure is left that could call it again: every path
\* clears the slots before it calls (socks.hpp:156-281).
ReportedOnce ==
    /\ Len(reports) <= 1
    /\ reports # <<>> => step = "none"

\* When the client hears OK, the bytes of the proxy are gone from the connection
\* and those of the remote host are all there, however the stream was cut, if
\* the length of a domain name is below 128 (socks.hpp:176-180, 219-260).
ExactBytes ==
    \A i \in 1 .. Len(reports) :
        reports[i] = "OK" /\ Readable(reply) =>
            /\ reply.granted
            /\ taken = 2 + Size(reply)
            /\ taken <= got

\* The proxy is sent no request whose host name is not as long as its length
\* byte says: the header of a request is in the output buffer when the host is
\* found too long, but the connection is silenced before it can be written
\* (socks.hpp:198-208, libevent.cpp:25-28, 40).
NoPartialRequest ==
    \A i \in 1 .. Len(sent) :
        sent[i].what # "greeting" => asked.host <= 255

\* The client hears of its connection in the end, if the proxy answers or
\* closes, and its reply can be read.
ConnectReports == asked # NotAsked ~> (reports # <<>> \/ ~Readable(reply))

\* Unless the client keeps it in the callback, the connection is freed in the end,
\* whichever way the handshake ended (libevent.cpp:40).
UnusedConnFreed == (reports # <<>> /\ ~held) ~> bev \in {"null", "deleted"}

\* "Remove socks data and clear callbacks" (socks.hpp:258): what the client
\* finds in the connection was not sent by the proxy.
SocksDataRemoved == reports = <<"OK">> => taken = 2 + Size(reply)
=============================================================================
