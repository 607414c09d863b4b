# Verification of mkok-experimental-tor

mkok-experimental-tor embeds tor in a process and talks to it over its control
port from inside its event loop. Everything is built on a C++ wrapper of
libevent that decides, by counting references, when a connection may be freed.
This directory holds TLA+ models of the parts of the library that keep state,
the TLC configurations that check them and the proofs that TLAPS checks.

## Inventory

| component | source | state it keeps | operations | hard because |
|---|---|---|---|---|
| Bufferevent lifetime | `src/src/common/libevent.{hpp,cpp}`, `func.hpp`, `var.hpp` | the object, `varp` (the reference that libevent holds), `bevp`, three closures | `socket_new`, `openssl_filter_new`, `setcb`, the C callbacks `mk_libevent_bev_*`, `is_ignored_by_cxx` | objects are kept alive by closures stored in themselves, closures replace themselves while they run, deletion is postponed by a cycle, filters steal `bevp` |
| OnionCtrl | `src/src/tor/onion-ctrl.hpp` | `bev`; the command under way is only in the closures | `connect`, `send`, `recv`, `sendrecv`, `close`, one function per command | replies carry no identification; timeouts, late replies, lost connections; replies cut anywhere; events |
| OnionPoller | `src/src/tor/onion-poller.hpp` | none of its own: a chain of closures, timers and control connections | `enable_tor`, `wait_for_circuit_`, `disable_tor`, `break_soon`, `break_loop` | a timer and a connection that may be lost meanwhile; overlapping calls; a countdown that moves with answers |
| EventBase, Evbuffer, evutil | `libevent.hpp` | a pointer and whether it is owned | one method per libevent function; `copyout`, `remove` and `readln` on top of them | bytes lie in extents whose limits are those of reads |
| Socks | `src/src/net/socks.hpp` | the step of the handshake, in the closures | `connect` | byte counting on replies that arrive in pieces; signed and truncating conversions |
| evhelpers | `src/src/common/evhelpers.hpp` | closures | `connect`, `ssl_connect`, `listen_once_and_dispatch`, `sendrecv`, `break_soon` | waiting for the output to drain after the peer has gone |
| HttpParser | `src/src/http/http-parser.hpp` | seven closures | `parse`, `eof`, `clear` | closures that destroy themselves |
| Object and Dict | `src/src/common/object.cpp`, `object.hpp` | values; a Dict is a `std::map` of them | `operator<`, `as_*`, the type switch | the order of `None` and of NaN |
| Maybe, Error, constraints | headers | values | | |

Calls go down (OnionPoller to OnionCtrl to Bufferevent to libevent), callbacks
come up. All of it runs in the one thread of the event loop: the interleavings
are those of callbacks with each other, with timers, and with what the peer and
the network do in between.

What makes each component correct:

- *Bufferevent*: no Var outlives its object; libevent never calls into an
  object that is deleted or about to be; no C bufferevent is freed twice;
  a closure that runs keeps what it captured; an object dropped by its own last
  callback is deleted.
- *OnionCtrl*: a reply reaches the callback of the command it answers; each
  callback is called, as often as it should be; no line is left in the buffer;
  a connection that is closed is freed.
- *OnionPoller*: a call reports, once, and what it reports is true of tor; it
  polls exactly as often as its timeout says; its connection is freed, and no
  timer uses it after that.
- *Socks*: the client is called once; the bytes of the proxy and those of the
  remote host are told apart exactly; nothing partial is sent; connections that
  nobody keeps are freed.
- *evhelpers*: `sendrecv` reports once, after the connection is over and the
  output has drained, with all that the peer sent before it closed; the program
  ends, and nothing is left to delete then.
- *Evbuffer*: bytes are neither lost nor doubled nor reordered; lines are cut
  exactly at their ends.
- *HttpParser*: closures may destroy the parser's other closures; `eof` and
  `clear` leave it usable.
- *Object and Dict*: a key is found with the value it was given, whatever the
  types of the keys; casts and switches tell the types apart.

## Modules

| module | models | state and code |
|---|---|---|
| `Bufferevent` | the life of Bufferevent objects and of what refers to them | `alive`/`gone`: the objects; `owns`: `bevp`; `ccb`: the C callbacks that `bufferevent_setcb` installed; `slot`: `event_cb`, `read_cb`, `write_cb`; `ref`: Vars in variables of the client; `frame`: the closure that is running and its `backup` in `Func::operator()`; `pending`: the zero timers of `is_ignored_by_cxx` |
| `CtrlConn` | one control connection as a record: OnionCtrl's `connect`, `send`, `recv`, `close`, and libevent below them | `cbs` names the closures in the slots by the function that put them there and the command they work for |
| `OnionCtrl` | a client of OnionCtrl that gives commands one after the other | `call` is the callback in progress; `heard[n]` what the callback of command `n` was called with; `closed` that the client closed and forgot the connection |
| `OnionPoller` | overlapping calls of `enable_tor` and `disable_tor`, the poll timers, `break_soon` | one CtrlConn per call; `timers` are the `once` timers of `wait_for_circuit_`; `reports[c]` the calls of the user's callback; `net` whether tor uses the network |
| `Socks` | one SOCKS5 handshake and the fate of its connection | `step` is which closures are in the slots; `served`, `got`, `taken` are positions in the stream from the proxy; `reports` the calls of the client's callback |
| `NetworkSwitch` | what OnionPoller promises, without connections, commands and timers: a switch that each call turns on or off before it is told so | abstract: `effect` what a call did to the switch, `told` what its callback was told |
| `Evhelpers` | one program of the repository: it gets a connection in one of five ways (by `connect`, `ssl_connect` or `listen_once_and_dispatch`, or handed over by Socks, and then with timeouts for `sendrecv` or without), calls `sendrecv`, and leaves its loop with `break_soon` | `slots` is which closures are in the slots; `input`, `out`: the buffers; `wire`, `received`: what is under way from and was delivered to the peer; `reads`, `writes`: EV_READ and EV_WRITE |
| `Evbuffer` | a buffer that is filled, one its bytes are moved to, and all methods that take from there | `src`, `dst`: sequences of extents, cut as the network and libevent cut them |
| `Objects` | Objects of all types, their order, and a Dict that is filled by an initializer list, assigned to and read | `ObjectOrder`: the pairs that `operator<` orders; `dict`: the entries in the order of the `std::map`; `shadow`: what the keys were given |
| `ReplyParsers` | `tokenize`, `parse_bootstrap_progress`, `getconf_int`, the tokens of `setevents_client_status` | `text`: what tor wrote; `means`: what it meant |
| `BuffereventProofs`, `SocksProofs`, `OnionPollerProofs`, `OnionCtrlProofs`, `EvhelpersProofs`, `EvbufferProofs` | theorems about `Bufferevent`, `Socks`, `OnionPoller`, `OnionCtrl`, `Evhelpers` and `Evbuffer` | |
| `ValuesProofs` | theorems about `ReplyParsers` and `Objects` | |
| `Recursion` | lemmas: induction on natural numbers and on sequences, the existence of functions defined by recursion | |
| `MC...` | instances for TLC | |

A callback of libevent is one action in `Socks` and `Evhelpers`, where no callback can be
interrupted by anything that matters. In `OnionCtrl` and `OnionPoller` it is a
sequence of actions - one that starts it, one per turn of the loop in `recv()`,
and `Return`, the end of `mk_libevent_bev_*` with its test for `unique()` -
because the client may give a command or close inside its callback, between two
lines. Steps of tor and of the network happen between callbacks; nothing that a
callback reads is changed by them. In `Bufferevent`, closures are whatever sets
of Vars the code could capture, so that what is shown there holds for every
client of the class.

Data are abstracted to what the properties tell apart: commands are a kind and a
number, reply lines a code, the character after it, and (in `OnionCtrl`) the
command they answer, which no action looks at; bytes from the proxy are
positions in the stream. In `ReplyParsers` the words that the code looks for
are one symbol each, and count as six characters or more.

## What the runs check

| run | shows |
|---|---|
| `bev_lifetime` | `ReferencesAreLive`, `CallbacksStopBeforeTheFree`, `FreedOnce`, `RunningClosureIsIntact`, and `LastCallbackFrees`, for a socket and a filter around it |
| `bev_leak` | (violated) an object dropped outside of its callbacks need not be deleted: `ClearedDoesNotLeak` |
| `ctrl` | which command hears which reply (`ReplyAttribution`), how often (`OneOutcome`), that it hears (`CommandsReport`), that no line is left in the buffer (`NothingLeftBehind`), that a connection closed in a callback is freed (`CloseInCallbackFrees`) |
| `ctrl_twice` | (violated) the callback of a command that is over is called again when the connection is lost: `CompletionSignalledOnce` |
| `poller` | that it implements `NetworkSwitch` (`ImplementsSwitch`), one command at a time, the number of polls, one report (with one exception, below), reports that are true of tor, no use after disposal, `break_soon`, termination and disposal |
| `poller_reopen` | (violated) a connection that was closed while the poll timer ran is written to again: `ClosedForGood` |
| `poller_hang` | (violated) the timeout of `enable_tor` does not count when tor does not answer: `TimeoutNotifies` |
| `socks` | one report, exact bytes, no partial request, termination and disposal |
| `socks_length` | (violated) lengths of domain names above 127 with a signed char: `SocksDataRemoved` |
| `evhelpers` | what is collected or echoed is what the peer sent, all of it when it closed, and the output is written before the callback (`Exchanged`); no null output string (`NoNullOutput`); `break_soon` leaves nothing to delete (`BreakSoonCollects`); the program ends (`ExchangeEnds`) |
| `evbuffer` | `Conserved` across two buffers; `CopyoutExact` for every count; `ReadlnExact` |
| `values` | a Dict is a map (`DictIsMap`, `DictTypeOK`); replies are read as what tor means by them (`RepliesRead`) |

Some of these hold with exceptions, and the properties state the exceptions
exactly:

- `OneOutcome` allows a callback to hear of its connection after its reply,
  which is what `ctrl_twice` is about, but never of two replies.
- `ReplyAttribution`, `NothingLeftBehind` and `CommandsReport` except what
  follows an *irregular* command: a subscription, a command that timed out, or a
  reply of several lines of which the client heard one that is not the last.
  After those a late line can reach the next command, or the reply of the next
  command can stay in the buffer for ever.
- `ReportedOnce` of the poller allows the double report of `poller_reopen`, and
  nothing else.
- `ReportTellsNetwork` holds while calls do not overlap: `enable_tor` and
  `disable_tor` on connections of their own may overtake each other.
- `ExactBytes` and `ConnectReports` of Socks are about replies that can be read:
  on a build with signed char, those with a domain name of at most 127 bytes.
- `Exchanged` promises all of the peer's bytes only if its end was what
  `sendrecv` was told: an error or a timeout may cut them short.
- `DictIsMap` and the last part of `DictTypeOK` are about keys in which no None
  occurs, and about Dicts without a NaN in a key. `Object::operator<` orders None
  before itself, so that such keys are added again and never found, but leave the
  others alone. A NaN is equivalent to every number, and so lists with a NaN in them
  to lists that are not equivalent to each other: with such keys it depends on
  the way a search takes through the map what it finds, and a key may get two
  entries.

Two more divergences were met that no run is spent on. `recv()` stops at a blank
or malformed line and leaves the lines behind it in the buffer until more data
arrive (onion-ctrl.hpp:640): `Stops` in `OnionCtrl`. A port of five digits above
65535 is accepted, and the proxy asked for the port modulo 65536
(socks.hpp:124): `Connect` in `Socks`. These, a retry on a connection whose EV_WRITE
a failed write has disabled (onion-ctrl.hpp:628), which `CommandsReport` leaves
out, a NaN in a key, and `close` on a null `bev` are the hazards in `PROJECT.json`
that no property covers; each has a note that says why.

The timer of `break_soon` runs for one second and a microsecond in OnionPoller,
for two and two microseconds in evhelpers, and a deletion takes a timer of none.
Timers expire in the order of their deadlines, so the models let `BreakTimer` wait
for a deletion or a poll timer exactly if its delay is the longer one
(`DeleteDelay`, `PollDelay`, `BreakDelay`): with a `break_soon` that does not wait
(`BreakAtOnce`), `BreakSoonCollects` fails in both.

## The abstract specification

`NetworkSwitch` says what a user of OnionPoller relies on: each call acts on the
switch while it is pending, `enable_tor` turns it on once and may turn it off
once, `disable_tor` turns it off once; nothing is done for a call after it was
told its outcome; `OK` and `GENERIC_ERROR` say exactly what was done, any other
status leaves that open. `ImplementsSwitch` maps `told` to the last report of a
call, `asked` to the calls whose connection was created, and `net` and `effect`
to the variables of those names (`effect` is a history variable: no action of
the poller reads it). The second report of `poller_reopen` is `TellAgain`.
Unlike `ReportTellsNetwork` this holds for overlapping calls too. The
abstract specification is safety only: that each call is told is
`EveryCallReports`, which assumes that tor answers.

## Bounds

- `bev_lifetime`: two objects, two slots, one holder. A holder stores any set
  of Vars, and a closure captures any, so one holder stands for all; two objects
  give a filter with what it wraps and cycles through both; two slots give a
  closure that clears its own slot and one that clears another. The safety
  properties are proved for any sets.
- `ctrl`: three commands (the connection, one that may go wrong, one that
  suffers for it) and one event. `OnionCtrl` numbers the lines of a reply with
  their command, so that three commands show any mix-up of neighbours; the safety
  properties are proved for any number.
  `ctrl_twice` needs one command and no timeouts, to show that none is needed.
- `poller`: one call of each function and a timeout of two polls: a first poll,
  a last one, and the counter in between. Two calls of different kinds are the
  smallest overlap.
- `socks`: host names of 255 and 256 bytes, ports of 65535, 65536 and a bad
  one, domain names of 0, 127, 128, 249 and 255 bytes (both sides of each
  boundary of `total`), two bytes from the remote host, `size_t` of 16 bits. A
  wider `size_t` only moves the value to which `total` wraps, which the assumption
  on `SizeModulus` keeps out of reach of the stream.

- `evhelpers`: three bytes from the peer (one taken, one in the input buffer,
  one under way) and a request of two, so that it can be written by halves. The
  safety properties are proved for any numbers of them.
- `evbuffer`: five bytes in chunks of up to three: a line, its two-byte end and
  what follows, cut at every place, with counts on both sides of every cut. All its
  properties are proved for any bytes, chunks and counts.
- `values`: three entries with 13 keys (every type, lists of which one is the
  beginning of the other, dicts that differ in a value, None inside of lists, NaN);
  all phases from 0 to 100 and ports of one to five digits, one or two blanks, and
  every text of five symbols behind `NOTICE BOOTSTRAP `. The objects are lists and
  dicts of atoms (`Nesting` is 2). `DictTypeOK` and `DictIsMap` are proved for
  any objects and any number of entries, `RepliesRead` for any texts, ports and
  tokens.

`CHECK_DEADLOCK FALSE` is in every configuration but that of `evbuffer`: each of
these systems may have nothing left to do.

## Fairness

All code runs in the thread of the event loop, which does not stop while it has
something to run: weak fairness of the disjunction of its actions, and of the
return of a closure, is the scheduling of libevent. In `Bufferevent` the deletion
of `varp` has strong fairness: it is a zero timer, which libevent runs in its next
cycle, but it is not enabled while a callback runs. A connection attempt succeeds
or fails in the end. The peers answer or close (weak fairness of `TorReplies`, of
`ProxySelects` and `ProxyReplies`); `poller_hang` leaves exactly this out. Nothing
is assumed of clients, of timeouts (they may never expire, or expire at any
time), of errors and of lost connections.

`Evhelpers` assumes that the peer sends finitely many bytes, and that it ends or
fails where the program set no timeouts (weak fairness of `PeerEnds` there).
Without the first, a write timeout that comes first would leave the program
waiting with EV_WRITE disabled for as long as the peer keeps sending
(evhelpers.hpp:140-165).

## What is proved

`BuffereventProofs` proves the type invariant and the four safety invariants of
`Bufferevent` for any sets of objects, holders and slots, from the assumption that
the value for "no closure is running" is not a frame. None of the four is
inductive. `IInv` adds: whoever is referred to is allocated and not about to be
deleted (`RefInv`); at most one deletion is pending, of an allocated object
(`PendingInv`); an object that libevent calls owns its C bufferevent (`CcbInv`),
so that the filter constructor, which takes ownership away, also ends the calls;
the object whose callback runs is kept alive by the copy of the closure
(`FrameInv`); and names of C bufferevents are not reused (`OwnInv`).

`SocksProofs` proves the type invariant, `ReportedOnce`, `ExactBytes` and
`NoPartialRequest` for any host names, ports, lengths and amounts of data and for
either signedness of char, from the assumptions named in `Socks` (lengths are
bytes; a `size_t` counts further than a reply and the data are long). `IInv` adds
what the slots say about the rest of the state (`StepInv`: a closure is only left
while nothing was reported and the client does not hold the connection, and an
open connection without closures is held), the order of the positions in the
stream (`StreamInv`), and that a header waits in an output buffer that may still
be written only if the host name fits (`OutInv`), which is what makes
`NoPartialRequest` inductive. `TotalIsSize` is the arithmetic: the computed
`total` is the size of the reply unless the length was read as a negative number.

`OnionPollerProofs` proves, for any sets of calls and any timeout, the type
invariant, `NoUseAfterDispose`, `OneCommandAtATime`, `PollsBounded`,
`ReportedOnce`, `ReportTellsNetwork` and `BreakSoonCollects`, and that every step of the poller is a
step of `NetworkSwitch` or leaves its variables alone (`ImplementsSwitch`). The
assumptions are that no call is both an `enable_tor` and a `disable_tor`, that
the value for "no effect" is not the name of a call, and that the timeout is a
natural number.

None of these is inductive: what a closure does when it runs is decided by the
command it was given, by the reply it reads and by the counter it captured, and
nothing in the properties ties the three together. `IInv` is a conjunction over
the calls, each of five parts, because an action changes the state of one call
only (the lemmas `OneCall` and `Touches`):

- `ModeInv`: closures, timers and running callbacks of a call have a Bufferevent
  that is not disposed of;
- `PipeInv`: the command of a call is in the output buffer, or with tor, or its
  reply is split between the network and the input buffer; only in one of the
  three, and in none while a poll timer runs; what is left of a reply always ends
  where the reply does;
- `CountInv`: the counters in the timers and in the commands are the number of
  polls, and the last command is only given when the timeout is used up;
- `ReportInv`: a call that has reported and is not over has lost its connection
  while it waited for its next poll, the only way to a second report;
- `EffectInv`: what tor did for a call is what the commands that were answered
  asked for, and a reply of `250` that is on its way says so.

The proof has a lemma for each operation of a connection (connecting, sending,
the reply, a piece read, a line heard, a loss, a close, a deletion), each about
the five parts of one call; one per action, which picks the call and cites them;
and the theorems. `ReportTellsNetwork` needs one invariant more, `SerialInv`:
as long as calls did not overlap, one is pending at most, and if it did
something, the network is as it left it. `BreakSoonCollects` needs another,
`DisposalInv`: a connection that was created and that no closure in its slots, no
timer and no running callback uses is on its way to be deleted or deleted, and
those that were closed when `break_soon` was called stay closed. The only step that
takes up a connection again is its poll timer, and a connection with a poll
timer does not count as closed. With that, and the delays in the guard of
`BreakTimer`, nothing is left to delete. The refinement follows the same
split: a reply by tor is `Act`, or changes nothing; a report is `Tell` or, after a
loss, `TellAgain`; everything else is a stutter.

`OnionCtrlProofs` proves the type invariant, `ReplyAttribution`, `OneOutcome` and
`NothingLeftBehind` for any number of commands and events, with and without
timeouts; the assumptions are that these bounds are numbers, at least one
command among them. The model numbers each line with the command it answers, but
the code cannot see that number: it gives a line to whatever closure is in the
slot. Why this is the right one is what the invariant has to say:

- `Modes`, `Numbered`: which closures can be in the slots of a connection in
  each of its states, and that they, and the loop of `recv()`, work for commands
  that were given;
- `Answered`: the client waits for one command before it gives the next;
- `Pipes`: what is in the output buffer, with tor, on the network or in the input
  buffer belongs to the command in the slots, or to an earlier one that is not
  older than some irregular command (`Near`). While the loop runs, the
  input buffer belongs to the command of the loop, whatever its callback puts
  into the slots;
- `Tidies`: if the command in the slots, or that of the loop, is *orderly* - no
  earlier command was irregular, and it is itself no worse than late - then
  the lines on their way are what is left of its one reply and end where the reply
  does, nothing is on its way once its callback was told of more than a timeout,
  and the times it was called and those it may yet be called for (the
  write event, the read timeout, the reply: `Chances`) are three at most;
- `Attributed`, `AllEnded`: what was heard so far, which gives the properties.

`Bad` only grows, which makes `Pipes` and `Attributed` weaker and fewer commands
orderly, so that a step which makes a command irregular can be proved in two
halves: what it does to the connection, and what it does to the history. The
lemmas follow that (`GoodClose` to `GoodSend` are about the connection, `GoodHear`
about a callback), with one `Step...` lemma for each action.

`EvhelpersProofs` proves the type invariant, `Exchanged`, `NoNullOutput` and
`BreakSoonCollects` for a request of any length and any number of bytes from the
peer. `Exchanged` speaks of what was taken, and is not inductive: it has to be
known that what was not taken yet goes on where that ends. `StreamInv` says
this: the first `m` bytes of the peer were taken, those up to `n` are in the
input buffer, those up to `p` are on their way, and none is missing behind them
unless the peer was reset; the end of the stream is only told first when `m` is
all. Each action either leaves the three cuts alone or moves one of them, which
is what the lemmas about pieces (`BytesJoin`, `BytesCut`, `BytesMore`) are for.
`PhaseInv` says what the closures in the slots tell of the rest of the state (the
callback is only called when it clears them, `break_soon` only runs once the Bufferevent is on its way to be deleted), and `RoleInv` that a server
which echoes leaves nothing in its input buffer while it echoes, which is why it
never needs the string it does not have.

`EvbufferProofs` proves all properties of `Evbuffer`: the type invariant,
`Conserved`, `CopyoutExact` and `ReadlnExact`, for any bytes in any number of
extents. The bytes of a buffer, the cut behind its first bytes and what `copyout`
returns are functions defined by recursion on the number of extents. The
library's induction theorems cannot be used, since they take an operator as a
parameter; `Recursion` states what is needed of them about sets and functions
instead, from the fact that the order of the natural numbers is well-founded:
a set with 0 and all successors has all numbers (`Induction`), and there is a
function whose every value is computed from the one before (`WalkExists`), so that
a recursive definition means what it says (`UptoFacts`, `CutsFacts`,
`CopiesFacts`). By induction on the extents, the cut of a buffer behind its first
bytes is a buffer with these and one with the others (`CutContent`), and `copyout`
returns the first bytes (`CopyoutContent`): as long as its closure returns true
it has copied all there was and `upto` is what is missing, and once it has
returned false there was enough. These are equalities of sequences of bytes, and
each operation preserves `Conserved` because what it takes and what it leaves
make up what there was. `TypeOK` is inductive and needed for this: no extent is
empty, so that the pieces of a cut are extents again. Assumed: `Bytes` are bytes,
`Shorts` are numbers of 16 bits, `MaxChunk` and `MaxBytes` are natural numbers.

`ValuesProofs` proves `RepliesRead`, for texts of any length. Its first
part says what tokens are without a loop: the runs of symbols between white space
or the ends of the text, in order. The proof is an induction over the text
(`TokensAreRuns`): after `i` characters, the tokens are the runs that have ended,
and `cur` is what stands behind the last blank (`Good`); the flush behind the loop
is what a blank behind the text would do (`FlushGood`), which is why no token is
forgotten there. Its second part is about what tor writes. The invariant is
`WrittenByTor`: a text that means something is what tor writes for that. Tokens that
are written with one white space or two before each of them are read as they are
(`TokenizeSpaced`, by induction over the tokens), and the digits of a number are
read as the number (`DecimalSays`, one digit more at a time), of which there are
not more than the code admits (3 up to 100, 5 up to 65535). The third part turns
this round: at most three digits whose value is 100 are `1`, `0` and `0`
(`HundredDigits`). Here, too, recursive definitions are turned into equations
first (`TokenizedFacts`, `SpacedFacts`, `AtoiFacts`). Assumed: `Ports` are numbers
up to 65535, the tokens of `Tails` have no white space and are not empty, and
`Beginnings` and `Symbols` are made of the symbols of the module.

`ValuesProofs` also proves `DictTypeOK` and `DictIsMap`, for any objects, nested
to any depth, and any number of entries. That a Dict is a map rests on
`Object::operator<` being an order, which `OrderOfObjects` states: it is total
and transitive on objects in which there is no NaN, None included, and strict on
those in which there is no None either. `operator<` calls itself on the parts of
lists and dicts; the model gives the order of objects of each depth as a set of
pairs, made from that of the depth below. The proof follows this: if an order is
total and transitive on a set, so is the lexicographic one on the sequences over
it (`LexTotal`, `LexTransitive`) and that of pairs (`EntryTotal`,
`EntryTransitive`); so are objects whose parts are in the set (`ShapeTotal`,
`ShapeTransitive`), by the six types; and so, by induction on the depth, are all
(`OrdersAreOrders`). Totality is what makes this work with None, which is lower than itself:
objects neither of which is lower are the same, also when one of them is lower
than itself. Neither property of the Dict is inductive. `DictInv` says that
every entry is that of a key which was used, that the entries are in order, and
that each ordered key which was used has an entry with what it was given: a new
key is put behind the keys that are lower (`LowerBoundIs`) and, as the order is
transitive, before those that are not, and `find` finds the place of a key
because the order is strict on it and the entries before are lower (`IsFound`).
`DictSearch` justifies the model's `LowerBound`, which looks at all entries where
a `std::map` searches a tree: the lower entries are exactly those in front of it,
so that every search ends there.
Assumed: objects are of the six types and nested at most `Nesting` deep, None is
one of them, and keys and values are objects.

Model-checked only: liveness, which is out of reach of the prover when it rests
on fairness (`CommandsReport`, `EveryCallReports`, `EveryConnFreed`,
`LastCallbackFrees`, `ConnectReports`, `UnusedConnFreed`, `ExchangeEnds`,
`CloseInCallbackFrees`). Every safety property that a passing run checks is proved.

## What is not modelled

- Exceptions: a Var that is null, an error code of a libevent function. Where the
  code would throw (`close` before `connect`), the client of the model does not go.
- In `OnionCtrl`, a command given before the previous one has reported, unless
  that is SETEVENTS, whose callback never stops hearing; the event callback nested
  in `bufferevent_socket_connect` when it fails at once (the model runs it as a
  callback of its own).
- The text of commands, and reading the auth cookie (file and hexadecimal
  conversions in one function without state).
- EventBase, evutil and the rest of Bufferevent: wrappers of one libevent call
  each, whose effects appear in the modules that use them. `evbuffer_peek` is
  called twice by `peek` and gives the same answer twice.
- HttpParser: seven C callbacks that forward to a Func each, around a parser that
  is not in the repository. That a closure may clear the closures of its object,
  its own included, is what `Bufferevent` models of Func and Var; the
  order of the callbacks and `upgrade` are the external parser's.
- Maybe, Error, constraints: values without behaviour. `Object::for_each`.
- How libevent orders the callbacks of different Bufferevents; the models allow
  any order.
- libevent, tor and the proxies are external; they are modelled by how the code
  here uses them, and marked so in the map.

## Plan

Done, in this order: `Bufferevent` with its proofs, because everything rests on
it; `CtrlConn` and `OnionPoller`, the most concurrent client; `OnionCtrl`;
`Socks` with its proofs; `NetworkSwitch`, implemented by `OnionPoller`;
`Evhelpers`; `Evbuffer`; `Objects` and `ReplyParsers`; the proofs about
`OnionPoller` and the refinement; the proofs about `OnionCtrl`; those about
`Evhelpers`; those about `Evbuffer`; those about `ReplyParsers`; those about
`Objects`.

Next, should the project be continued:

1. `CtrlCommands`: the abstract specification of a control connection as a queue
   of commands with their replies, implemented by `OnionCtrl` as long as no
   irregular command was given.
2. Composition: `OnionPoller`'s connections as objects of `Bufferevent`, so that
   `Closed` and `Return` are derived from the references instead of stated.
