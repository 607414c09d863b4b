---------------------------- MODULE Bufferevent ----------------------------
(***************************************************************************)
(* The life of a Bufferevent (src/src/common/libevent.hpp, libevent.cpp).  *)
(*                                                                         *)
(* Every Bufferevent is kept alive by a Var<Bufferevent> on the heap, the  *)
(* `varp` handed to libevent as the opaque of its C callbacks, and by the  *)
(* Vars the C++ code stores: in variables and objects (the holders here)   *)
(* and inside closures, most of them the closures in the slots event_cb,   *)
(* read_cb and write_cb of some Bufferevent.  When a C callback finds      *)
(* varp->unique() nobody else refers to the object any more: it silences   *)
(* the C bufferevent and asks the event loop to delete varp in its next    *)
(* cycle.                                                                  *)
(*                                                                         *)
(* What a closure computes is left out; which Vars it captured is kept.    *)
(***************************************************************************)
EXTENDS Naturals

CONSTANTS
    Bevs,       \* the Bufferevent objects a run may ever allocate
    Holders,    \* variables and objects of the client that store Vars
    Slots,      \* the callback slots of a Bufferevent
    NoFrame     \* no closure of a slot is running

ASSUME NoFrameAssumption ==
    NoFrame \notin [bev: Bevs, caps: SUBSET Bevs, backup: SUBSET Bevs]

VARIABLES
    alive,   \* the objects allocated and not deleted
    gone,    \* the objects whose varp was deleted
    owns,    \* owns[b]: the C bufferevents ~Bufferevent of b frees (bevp), each
             \* named by the object that created it; {} when bevp is null
    freed,   \* the C bufferevents passed to bufferevent_free
    ccb,     \* the objects libevent calls mk_libevent_bev_* for
    slot,    \* slot[b][s]: the closure in a callback slot of b
    ref,     \* ref[h]: the Vars holder h stores
    frame,   \* the closure a C callback is running
    pending  \* pending[b]: zero-timeout events that will delete varp of b

vars == <<alive, gone, owns, freed, ccb, slot, ref, frame, pending>>

\* A std::function: the null one, or one that captured some Vars.
NoClosure == [set |-> FALSE, caps |-> {}]

Closure(caps) == [set |-> TRUE, caps |-> caps]

Closures(bevs) == {NoClosure} \cup {Closure(caps) : caps \in SUBSET bevs}

Frames == [bev: Bevs, caps: SUBSET Bevs, backup: SUBSET Bevs]

\* No closure in any slot: what Bufferevent() and setcb(nullptr x 3) leave.
NoSlots == [s \in Slots |-> NoClosure]

Fresh == Bevs \ (alive \cup gone)

\* A Var to b is stored by a holder, or captured by a closure of some slot.
Stored(b) ==
    \/ \E h \in Holders : b \in ref[h]
    \/ \E d \in Bevs : \E s \in Slots : b \in slot[d][s].caps

\* The copy of the running closure (`backup` in Func::operator()) captured b.
BackedUp(b) == frame # NoFrame /\ b \in frame.backup

Referenced(b) == Stored(b) \/ BackedUp(b)

\* What the code that runs now can name: the Vars of the holders and those the
\* running closure captured.
Named ==
    (UNION {ref[h] : h \in Holders})
        \cup (IF frame = NoFrame THEN {} ELSE frame.caps)
-----------------------------------------------------------------------------
Init ==
    /\ alive = {}
    /\ gone = {}
    /\ owns = [b \in Bevs |-> {}]
    /\ freed = {}
    /\ ccb = {}
    /\ slot = [b \in Bevs |-> NoSlots]
    /\ ref = [h \in Holders |-> {}]
    /\ frame = NoFrame
    /\ pending = [b \in Bevs |-> 0]

\* Bufferevent::socket_new: the caller h stores the Var that is returned.
SocketNew(b, h) ==
    /\ b \in Fresh
    /\ alive' = alive \cup {b}
    /\ owns' = [owns EXCEPT ![b] = {b}]
    /\ ccb' = ccb \cup {b}
    /\ slot' = [slot EXCEPT ![b] = NoSlots]
    /\ ref' = [ref EXCEPT ![h] = @ \cup {b}]
    /\ UNCHANGED <<gone, freed, frame, pending>>

\* A filter that does not steal bevp from the object it wraps.
FilterNewShares(u, b, h) ==
    /\ u \in Named
    /\ owns[u] # {}
    /\ b \in Fresh
    /\ alive' = alive \cup {b}
    /\ owns' = [owns EXCEPT ![b] = {b} \cup owns[u]]
    /\ ccb' = (ccb \ {u}) \cup {b}
    /\ slot' = [slot EXCEPT ![b] = NoSlots, ![u] = NoSlots]
    /\ ref' = [ref EXCEPT ![h] = @ \cup {b}]
    /\ UNCHANGED <<gone, freed, frame, pending>>

\* Bufferevent::openssl_filter_new over u.  libevent makes the filter the
\* client of the underlying C bufferevent, whose callbacks it replaces, and,
\* with BEV_OPT_CLOSE_ON_FREE, its owner; u gives its bevp up and its closures
\* are cleared.
FilterNew(u, b, h) ==
    /\ u \in Named
    /\ owns[u] # {}
    /\ b \in Fresh
    /\ alive' = alive \cup {b}
    /\ owns' = [owns EXCEPT ![b] = {b} \cup owns[u], ![u] = {}]
    /\ ccb' = (ccb \ {u}) \cup {b}
    /\ slot' = [slot EXCEPT ![b] = NoSlots, ![u] = NoSlots]
    /\ ref' = [ref EXCEPT ![h] = @ \cup {b}]
    /\ UNCHANGED <<gone, freed, frame, pending>>

\* Bufferevent::setcb: the three slots are assigned, the closures they held
\* are destroyed.
SetCb(b, cbs) ==
    /\ b \in Named
    /\ slot' = [slot EXCEPT ![b] = cbs]
    /\ UNCHANGED <<alive, gone, owns, freed, ccb, ref, frame, pending>>

\* The client copies a Var it can name into one of its own variables.
Take(h, b) ==
    /\ b \in Named \ ref[h]
    /\ ref' = [ref EXCEPT ![h] = @ \cup {b}]
    /\ UNCHANGED <<alive, gone, owns, freed, ccb, slot, frame, pending>>

\* A Var of the client goes out of scope or is assigned.
Drop(h, b) ==
    /\ b \in ref[h]
    /\ ref' = [ref EXCEPT ![h] = @ \ {b}]
    /\ UNCHANGED <<alive, gone, owns, freed, ccb, slot, frame, pending>>
-----------------------------------------------------------------------------
\* is_ignored_by_cxx that leaves the C callbacks in place.
IgnoredStillCalled(b) ==
    /\ ccb' = ccb
    /\ pending' = [pending EXCEPT ![b] = @ + 1]

\* is_ignored_by_cxx that forgets an object whose bevp was stolen.
IgnoredUnlessStolen(b) ==
    /\ ccb' = ccb \ {b}
    /\ pending' = [pending EXCEPT ![b] = IF owns[b] # {} THEN @ + 1 ELSE @]

\* is_ignored_by_cxx: silence the C bufferevent, if b still owns one, and
\* schedule the deletion of varp for the next cycle of the event loop.
IgnoredByCxx(b) ==
    /\ ccb' = IF owns[b] # {} THEN ccb \ {b} ELSE ccb
    /\ pending' = [pending EXCEPT ![b] = @ + 1]

\* Func::operator() that runs the closure in place.
CallInPlace(b, caps) == [bev |-> b, caps |-> caps, backup |-> {}]

\* The frame of Func::operator(), which runs a copy of the closure.
Call(b, caps) == [bev |-> b, caps |-> caps, backup |-> caps]

\* mk_libevent_bev_read, _write or _event, first half: somebody else refers to
\* b and the slot is set, so its closure starts to run.
CallBack(b, s) ==
    /\ frame = NoFrame
    /\ b \in ccb
    /\ Stored(b)
    /\ slot[b][s].set
    /\ frame' = Call(b, slot[b][s].caps)
    /\ UNCHANGED <<alive, gone, owns, freed, ccb, slot, ref, pending>>

\* A callback that disposes of the object whoever still refers to it.
ReturnUnchecked ==
    /\ frame # NoFrame
    /\ frame' = NoFrame
    /\ IgnoredByCxx(frame.bev)
    /\ UNCHANGED <<alive, gone, owns, freed, slot, ref>>

\* mk_libevent_bev_*, second half: the closure returned, its copy is
\* destroyed, and b is disposed of if no other Var is left.
Return ==
    /\ frame # NoFrame
    /\ frame' = NoFrame
    /\ IF Stored(frame.bev)
         THEN UNCHANGED <<ccb, pending>>
         ELSE IgnoredByCxx(frame.bev)
    /\ UNCHANGED <<alive, gone, owns, freed, slot, ref>>

\* mk_libevent_bev_* when nobody refers to b any more: no closure is called.
Neglected(b) ==
    /\ frame = NoFrame
    /\ b \in ccb
    /\ ~Stored(b)
    /\ IgnoredByCxx(b)
    /\ UNCHANGED <<alive, gone, owns, freed, slot, ref, frame>>

\* varp is deleted without an event that asks for it.
DeleteVarpUnasked(b) ==
    /\ frame = NoFrame
    /\ pending' = [pending EXCEPT ![b] = @ - 1]
    /\ alive' = alive \ {b}
    /\ gone' = gone \cup {b}
    /\ freed' = freed \cup owns[b]
    /\ ccb' = ccb \ owns[b]
    /\ owns' = [owns EXCEPT ![b] = {}]
    /\ slot' = [slot EXCEPT ![b] = NoSlots]
    /\ UNCHANGED <<ref, frame>>

\* mk_libevent_event_cb runs the closure of is_ignored_by_cxx: varp is deleted,
\* the deleter frees the C bufferevent that bevp points to, and the slots are
\* destroyed with the object.
DeleteVarp(b) ==
    /\ frame = NoFrame
    /\ pending[b] > 0
    /\ pending' = [pending EXCEPT ![b] = @ - 1]
    /\ alive' = alive \ {b}
    /\ gone' = gone \cup {b}
    /\ freed' = freed \cup owns[b]
    /\ ccb' = ccb \ owns[b]
    /\ owns' = [owns EXCEPT ![b] = {}]
    /\ slot' = [slot EXCEPT ![b] = NoSlots]
    /\ UNCHANGED <<ref, frame>>

Next ==
    \/ \E b \in Bevs, h \in Holders : SocketNew(b, h)
    \/ \E u \in Bevs, b \in Bevs, h \in Holders : FilterNew(u, b, h)
    \/ \E b \in Bevs :
         \E cbs \in [Slots -> Closures(Named)] : SetCb(b, cbs)
    \/ \E h \in Holders, b \in Bevs : Take(h, b)
    \/ \E h \in Holders, b \in Bevs : Drop(h, b)
    \/ \E b \in Bevs, s \in Slots : CallBack(b, s)
    \/ Return
    \/ \E b \in Bevs : Neglected(b)
    \/ \E b \in Bevs : DeleteVarp(b)

\* A closure returns, and the event loop runs a timer that has expired in each
\* cycle, however many other events it finds.
Fairness ==
    /\ WF_vars(Return)
    /\ \A b \in Bevs : SF_vars(DeleteVarp(b))

Spec == Init /\ [][Next]_vars

FairSpec == Spec /\ Fairness
-----------------------------------------------------------------------------
\* The variables have their types.
TypeOK ==
    /\ alive \in SUBSET Bevs
    /\ gone \in SUBSET Bevs
    /\ owns \in [Bevs -> SUBSET Bevs]
    /\ freed \in SUBSET Bevs
    /\ ccb \in SUBSET Bevs
    /\ slot \in [Bevs -> [Slots -> Closures(Bevs)]]
    /\ ref \in [Holders -> SUBSET Bevs]
    /\ frame \in Frames \cup {NoFrame}
    /\ pending \in [Bevs -> Nat]

\* A Var never outlives its object: whatever a holder, a closure in a slot or
\* the running closure refers to is allocated, and no deletion of it is on its
\* way.  is_ignored_by_cxx may delete varp one cycle later because nobody can
\* get hold of the object in between (libevent.cpp:19-31).
ReferencesAreLive ==
    \A b \in Bevs : Referenced(b) \/ b \in Named => b \in alive /\ pending[b] = 0

\* libevent never calls back into an object that is deleted or about to be, and
\* varp is deleted once: the two reasons to silence the C bufferevent before
\* its deletion is scheduled (libevent.cpp:20-26).
CallbacksStopBeforeTheFree ==
    /\ \A b \in ccb : b \in alive /\ pending[b] = 0
    /\ \A b \in Bevs : pending[b] > 0 => pending[b] = 1 /\ b \in alive

\* A C bufferevent belongs to one object and is freed once, although
\* openssl_filter_new hands the underlying one over to the filter
\* (libevent.hpp:424, 430-436).
FreedOnce ==
    \A b \in Bevs :
        /\ owns[b] \cap freed = {}
        /\ \A d \in Bevs \ {b} : owns[b] \cap owns[d] = {}

\* A closure that replaces or clears the closures of its own Bufferevent, as
\* OnionCtrl::send, recv and close do, still has the Vars it captured until it
\* returns (func.hpp:29).
RunningClosureIsIntact ==
    frame # NoFrame => \A b \in frame.caps : Referenced(b)

\* An object whose last Var is the one its running callback captured is deleted
\* in the end, and its varp with it, whether it still owns a C bufferevent or
\* lost it to an SSL filter, unless the callback stores a Var again
\* (libevent.cpp:38-40).
LastCallbackFrees ==
    \A b \in Bevs :
        (frame # NoFrame /\ frame.bev = b /\ ~Stored(b))
            ~> (b \in gone \/ Stored(b))

\* "This creates reference cycles that guarantee safe usage but leak memory
\* unless the callbacks of an object are cleared when the object is no longer
\* needed" (onion-ctrl.hpp:132-134): an object without closures, which nobody
\* refers to, is deleted in the end.
ClearedDoesNotLeak ==
    \A b \in Bevs :
        (b \in alive /\ slot[b] = NoSlots /\ ~Referenced(b)) ~> b \in gone
=============================================================================
