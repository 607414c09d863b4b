------------------------- MODULE BuffereventProofs -------------------------
(***************************************************************************)
(* Safety of the life of a Bufferevent, for every set of objects, holders  *)
(* and slots.                                                              *)
(***************************************************************************)
EXTENDS Bufferevent, TLAPS

\* Whoever is referred to is allocated and not about to be deleted.
RefInv == \A b \in Bevs : Referenced(b) => b \in alive /\ pending[b] = 0

\* A deletion is scheduled at most once, for an allocated object.
PendingInv == \A b \in Bevs : pending[b] > 0 => pending[b] = 1 /\ b \in alive

\* libevent calls back only objects that are allocated, own their C
\* bufferevent and are not about to be deleted.
CcbInv == \A b \in ccb : b \in alive /\ pending[b] = 0 /\ owns[b] # {}

\* The object whose callback runs stays allocated, no deletion of it is on its
\* way, and the copy of the running closure has all the Vars it captured.
FrameInv ==
    frame # NoFrame =>
        /\ frame.bev \in alive
        /\ pending[frame.bev] = 0
        /\ frame.caps \subseteq frame.backup

\* Only an allocated object owns C bufferevents, and none of them, owned or
\* freed, carries the name of an object that is yet to be allocated.
OwnInv ==
    /\ \A b \in Bevs : b \notin alive => owns[b] = {}
    /\ \A b \in Bevs : owns[b] \subseteq alive \cup gone
    /\ freed \subseteq alive \cup gone

\* The inductive invariant.
IInv ==
    /\ TypeOK
    /\ RefInv
    /\ PendingInv
    /\ CcbInv
    /\ FrameInv
    /\ OwnInv
    /\ FreedOnce
-----------------------------------------------------------------------------
LEMMA NamedIsTyped == TypeOK => Named \subseteq Bevs
  BY DEF TypeOK, Named, Frames

LEMMA InitTypeOK == Init => TypeOK
  BY DEF Init, TypeOK, NoSlots, NoClosure, Closures

LEMMA NoSlotsTyped == NoSlots \in [Slots -> Closures(Bevs)]
  BY DEF NoSlots, Closures

\* Every step keeps the types.
LEMMA StepTypeOK == TypeOK /\ [Next]_vars => TypeOK'
  <1> SUFFICES ASSUME TypeOK, [Next]_vars PROVE TypeOK'
    OBVIOUS
  <1> USE NoSlotsTyped
  <1>1. ASSUME NEW b \in Bevs, NEW h \in Holders, SocketNew(b, h)
        PROVE TypeOK'
    BY <1>1 DEF SocketNew, TypeOK
  <1>2. ASSUME NEW u \in Bevs, NEW b \in Bevs, NEW h \in Holders,
               FilterNew(u, b, h)
        PROVE TypeOK'
    BY <1>2 DEF FilterNew, TypeOK
  <1>3. ASSUME NEW b \in Bevs, NEW cbs \in [Slots -> Closures(Named)],
               SetCb(b, cbs)
        PROVE TypeOK'
    <2>1. Closures(Named) \subseteq Closures(Bevs)
      BY NamedIsTyped DEF Closures
    <2>2. cbs \in [Slots -> Closures(Bevs)]
      BY <2>1
    <2> QED
      BY <1>3, <2>2 DEF SetCb, TypeOK
  <1>4. ASSUME NEW h \in Holders, NEW b \in Bevs, Take(h, b) \/ Drop(h, b)
        PROVE TypeOK'
    BY <1>4 DEF Take, Drop, TypeOK
  <1>5. ASSUME NEW b \in Bevs, NEW s \in Slots, CallBack(b, s)
        PROVE TypeOK'
    <2>1. slot[b][s].caps \in SUBSET Bevs
      BY DEF TypeOK, Closures, Closure, NoClosure
    <2>2. frame' \in Frames
      BY <1>5, <2>1 DEF CallBack, Call, Frames
    <2> QED
      BY <1>5, <2>2 DEF CallBack, TypeOK
  <1>6. CASE Return
    <2>1. frame.bev \in Bevs
      BY <1>6 DEF Return, TypeOK, Frames
    <2> QED
      BY <1>6, <2>1 DEF Return, IgnoredByCxx, TypeOK
  <1>7. ASSUME NEW b \in Bevs, Neglected(b)
        PROVE TypeOK'
    BY <1>7 DEF Neglected, IgnoredByCxx, TypeOK
  <1>8. ASSUME NEW b \in Bevs, DeleteVarp(b)
        PROVE TypeOK'
    <2>1. pending[b] - 1 \in Nat
      BY <1>8 DEF DeleteVarp, TypeOK
    <2> QED
      BY <1>8, <2>1 DEF DeleteVarp, TypeOK
  <1>9. CASE UNCHANGED vars
    BY <1>9 DEF vars, TypeOK
  <1> QED
    BY <1>1, <1>2, <1>3, <1>4, <1>5, <1>6, <1>7, <1>8, <1>9 DEF Next

\* The variables have their types in every run.
THEOREM TypeCorrect == Spec => []TypeOK
  BY InitTypeOK, StepTypeOK, PTL DEF Spec
-----------------------------------------------------------------------------
\* What the running code can name is referred to.
LEMMA NamedIsReferenced ==
  ASSUME TypeOK, FrameInv, NEW b \in Named
  PROVE  b \in Bevs /\ Referenced(b)
  <1>1. b \in Bevs
    BY NamedIsTyped
  <1>2. CASE \E h \in Holders : b \in ref[h]
    BY <1>1, <1>2 DEF Referenced, Stored
  <1>3. CASE frame # NoFrame /\ b \in frame.caps
    BY <1>1, <1>3 DEF Referenced, BackedUp, FrameInv
  <1> QED
    BY <1>2, <1>3 DEF Named

LEMMA InitIInv == Init => IInv
  <1> SUFFICES ASSUME Init PROVE IInv
    OBVIOUS
  <1>1. RefInv
    BY DEF Init, RefInv, Referenced, Stored, BackedUp, NoSlots, NoClosure
  <1>2. PendingInv /\ CcbInv /\ FrameInv /\ OwnInv /\ FreedOnce
    BY DEF Init, PendingInv, CcbInv, FrameInv, OwnInv, FreedOnce
  <1> QED
    BY <1>1, <1>2, InitTypeOK DEF IInv

\* A scheduled deletion or an event on a neglected object disposes of it
\* safely: the object is live, nobody refers to it, and libevent stops calling.
LEMMA IgnoreIInv ==
  ASSUME IInv, TypeOK', NEW b \in Bevs, IgnoredByCxx(b),
         b \in alive, pending[b] = 0, ~Stored(b), frame' = NoFrame,
         UNCHANGED <<alive, gone, owns, freed, slot, ref>>
  PROVE  IInv'
  <1> USE DEF IInv, TypeOK
  <1>1. pending' = [pending EXCEPT ![b] = 1]
    BY DEF IgnoredByCxx
  <1>2. RefInv'
    <2> SUFFICES ASSUME NEW x \in Bevs, Referenced(x)'
                 PROVE  x \in alive' /\ pending'[x] = 0
      BY DEF RefInv
    <2>1. Stored(x)
      BY DEF Referenced, BackedUp, Stored
    <2> QED
      BY <1>1, <2>1 DEF RefInv, Referenced
  <1>3. PendingInv'
    BY <1>1 DEF PendingInv
  <1>4. CcbInv'
    <2>1. ccb' = ccb \ {b}
      BY DEF IgnoredByCxx, CcbInv
    <2> QED
      BY <1>1, <2>1 DEF CcbInv
  <1>5. FrameInv' /\ OwnInv' /\ FreedOnce'
    BY DEF FrameInv, OwnInv, FreedOnce
  <1> QED
    BY <1>2, <1>3, <1>4, <1>5

LEMMA StepIInv == IInv /\ [Next]_vars => IInv'
  <1> SUFFICES ASSUME IInv, [Next]_vars PROVE IInv'
    OBVIOUS
  <1> USE DEF IInv
  <1>0. TypeOK'
    BY StepTypeOK
  <1>1. ASSUME NEW b \in Bevs, NEW h \in Holders, SocketNew(b, h)
        PROVE IInv'
    <2> USE <1>1 DEF SocketNew, TypeOK
    <2>1. b \notin alive /\ b \notin gone /\ pending[b] = 0
      BY DEF Fresh, PendingInv
    <2>2. RefInv'
      <3> SUFFICES ASSUME NEW x \in Bevs, Referenced(x)', x # b
                   PROVE  x \in alive' /\ pending'[x] = 0
        BY <2>1 DEF RefInv
      <3>1. Referenced(x)
        BY DEF Referenced, BackedUp, Stored, NoSlots, NoClosure
      <3> QED
        BY <3>1 DEF RefInv
    <2>3. PendingInv' /\ FrameInv'
      BY DEF PendingInv, FrameInv
    <2>4. CcbInv'
      BY <2>1 DEF CcbInv
    <2>5. OwnInv'
      BY <2>1 DEF OwnInv
    <2>6. FreedOnce'
      <3>1. owns'[b] = {b} /\ freed' = freed /\ b \notin freed
        BY <2>1 DEF OwnInv
      <3>2. \A d \in Bevs \ {b} : owns'[d] = owns[d] /\ b \notin owns[d]
        BY <2>1 DEF OwnInv
      <3> QED
        BY <3>1, <3>2 DEF FreedOnce
    <2> QED
      BY <1>0, <2>2, <2>3, <2>4, <2>5, <2>6
  <1>2. ASSUME NEW u \in Bevs, NEW b \in Bevs, NEW h \in Holders,
               FilterNew(u, b, h)
        PROVE IInv'
    <2> USE <1>2 DEF FilterNew, TypeOK
    <2>1. b \notin alive /\ b \notin gone /\ pending[b] = 0
      BY DEF Fresh, PendingInv
    <2>2. u \in alive /\ u # b
      BY <2>1, NamedIsReferenced DEF RefInv
    <2>3. RefInv'
      <3> SUFFICES ASSUME NEW x \in Bevs, Referenced(x)', x # b
                   PROVE  x \in alive' /\ pending'[x] = 0
        BY <2>1 DEF RefInv
      <3>1. Referenced(x)
        BY DEF Referenced, BackedUp, Stored, NoSlots, NoClosure
      <3> QED
        BY <3>1 DEF RefInv
    <2>4. PendingInv' /\ FrameInv'
      BY DEF PendingInv, FrameInv
    <2>5. CcbInv'
      BY <2>1, <2>2 DEF CcbInv
    <2>6. /\ owns'[b] = {b} \cup owns[u]
          /\ owns'[u] = {}
          /\ \A d \in Bevs \ {u, b} : owns'[d] = owns[d]
          /\ \A d \in Bevs : b \notin owns[d]
          /\ b \notin freed
      BY <2>1, <2>2 DEF OwnInv
    <2>7. OwnInv'
      <3> SUFFICES ASSUME NEW d \in Bevs
                   PROVE  /\ d \notin alive' => owns'[d] = {}
                          /\ owns'[d] \subseteq alive' \cup gone'
        BY DEF OwnInv
      <3> QED
        BY <2>1, <2>2, <2>6 DEF OwnInv
    <2>8. FreedOnce'
      <3> SUFFICES ASSUME NEW c \in Bevs, NEW d \in Bevs \ {c}
                   PROVE  /\ owns'[c] \cap freed = {}
                          /\ owns'[c] \cap owns'[d] = {}
        BY DEF FreedOnce
      <3> QED
        BY <2>2, <2>6 DEF FreedOnce
    <2> QED
      BY <1>0, <2>3, <2>4, <2>5, <2>7, <2>8
  <1>3. ASSUME NEW b \in Bevs, NEW cbs \in [Slots -> Closures(Named)],
               SetCb(b, cbs)
        PROVE IInv'
    <2> USE <1>3 DEF SetCb, TypeOK
    <2>1. RefInv'
      <3> SUFFICES ASSUME NEW x \in Bevs, Referenced(x)'
                   PROVE  Referenced(x)
        BY DEF RefInv
      <3>1. \A s \in Slots : cbs[s].caps \subseteq Named
        BY DEF Closures, Closure, NoClosure
      <3>2. CASE x \in Named
        BY <3>2, NamedIsReferenced
      <3>3. CASE x \notin Named
        BY <3>1, <3>3 DEF Referenced, BackedUp, Stored
      <3> QED
        BY <3>2, <3>3
    <2>2. PendingInv' /\ CcbInv' /\ FrameInv' /\ OwnInv' /\ FreedOnce'
      BY DEF PendingInv, CcbInv, FrameInv, OwnInv, FreedOnce
    <2> QED
      BY <1>0, <2>1, <2>2
  <1>4. ASSUME NEW h \in Holders, NEW b \in Bevs, Take(h, b) \/ Drop(h, b)
        PROVE IInv'
    <2> USE <1>4 DEF Take, Drop, TypeOK
    <2>1. RefInv'
      <3> SUFFICES ASSUME NEW x \in Bevs, Referenced(x)'
                   PROVE  Referenced(x)
        BY DEF RefInv
      <3>1. CASE x = b
        BY <3>1, NamedIsReferenced DEF Referenced, Stored
      <3>2. CASE x # b
        BY <3>2 DEF Referenced, BackedUp, Stored
      <3> QED
        BY <3>1, <3>2
    <2>2. PendingInv' /\ CcbInv' /\ FrameInv' /\ OwnInv' /\ FreedOnce'
      BY DEF PendingInv, CcbInv, FrameInv, OwnInv, FreedOnce
    <2> QED
      BY <1>0, <2>1, <2>2
  <1>5. ASSUME NEW b \in Bevs, NEW s \in Slots, CallBack(b, s)
        PROVE IInv'
    <2> USE <1>5 DEF CallBack, Call, TypeOK
    <2>1. RefInv'
      <3> SUFFICES ASSUME NEW x \in Bevs, Referenced(x)'
                   PROVE  Stored(x)
        BY DEF RefInv, Referenced
      <3> QED
        BY DEF Referenced, BackedUp, Stored
    <2>2. FrameInv'
      BY DEF FrameInv, CcbInv
    <2>3. PendingInv' /\ CcbInv' /\ OwnInv' /\ FreedOnce'
      BY DEF PendingInv, CcbInv, OwnInv, FreedOnce
    <2> QED
      BY <1>0, <2>1, <2>2, <2>3
  <1>6. CASE Return
    <2> USE <1>6 DEF Return
    <2>1. frame.bev \in Bevs
      BY DEF TypeOK, Frames
    <2>2. CASE Stored(frame.bev)
      <3>1. RefInv'
        BY <2>2 DEF RefInv, Referenced, BackedUp, Stored
      <3>2. PendingInv' /\ CcbInv' /\ FrameInv' /\ OwnInv' /\ FreedOnce'
        BY <2>2 DEF PendingInv, CcbInv, FrameInv, OwnInv, FreedOnce
      <3> QED
        BY <1>0, <3>1, <3>2
    <2>3. CASE ~Stored(frame.bev)
      BY <1>0, <2>1, <2>3, IgnoreIInv DEF FrameInv
    <2> QED
      BY <2>2, <2>3
  <1>7. ASSUME NEW b \in Bevs, Neglected(b)
        PROVE IInv'
    BY <1>0, <1>7, IgnoreIInv DEF Neglected, CcbInv
  <1>8. ASSUME NEW b \in Bevs, DeleteVarp(b)
        PROVE IInv'
    <2> USE <1>8 DEF DeleteVarp, TypeOK
    <2>1. pending[b] = 1 /\ b \in alive /\ ~Referenced(b)
      BY DEF PendingInv, RefInv
    <2>2. RefInv'
      <3> SUFFICES ASSUME NEW x \in Bevs, Referenced(x)'
                   PROVE  Referenced(x)
        BY <2>1 DEF RefInv
      <3> QED
        BY DEF Referenced, BackedUp, Stored, NoSlots, NoClosure
    <2>3. PendingInv' /\ FrameInv'
      BY <2>1 DEF PendingInv, FrameInv
    <2>4. CcbInv'
      BY <2>1 DEF CcbInv
    <2>5. OwnInv' /\ FreedOnce'
      BY <2>1 DEF OwnInv, FreedOnce
    <2> QED
      BY <1>0, <2>2, <2>3, <2>4, <2>5
  <1>9. CASE UNCHANGED vars
    BY <1>0, <1>9 DEF vars, RefInv, Referenced, BackedUp, Stored, PendingInv,
                     CcbInv, FrameInv, OwnInv, FreedOnce
  <1> QED
    BY <1>1, <1>2, <1>3, <1>4, <1>5, <1>6, <1>7, <1>8, <1>9 DEF Next

THEOREM Invariance == Spec => []IInv
  BY InitIInv, StepIInv, PTL DEF Spec

\* No Var outlives its object, in any run: a deletion that was put off to the
\* next cycle never takes an object somebody can still get hold of.
THEOREM LiveReferences == Spec => []ReferencesAreLive
  <1>1. IInv => ReferencesAreLive
    BY NamedIsReferenced DEF IInv, RefInv, ReferencesAreLive
  <1> QED
    BY <1>1, Invariance, PTL

\* libevent never calls back an object that is deleted or being disposed of,
\* and varp is deleted once.
THEOREM SilentBeforeFree == Spec => []CallbacksStopBeforeTheFree
  <1>1. IInv => CallbacksStopBeforeTheFree
    BY DEF IInv, CcbInv, PendingInv, CallbacksStopBeforeTheFree
  <1> QED
    BY <1>1, Invariance, PTL

\* A C bufferevent has one owner and is freed once, SSL filters included.
THEOREM OneFree == Spec => []FreedOnce
  <1>1. IInv => FreedOnce
    BY DEF IInv
  <1> QED
    BY <1>1, Invariance, PTL

\* The Vars of the running closure survive whatever it does to the slots.
THEOREM ClosureIntact == Spec => []RunningClosureIsIntact
  <1>1. IInv => RunningClosureIsIntact
    BY DEF IInv, FrameInv, RunningClosureIsIntact, Referenced, BackedUp
  <1> QED
    BY <1>1, Invariance, PTL
=============================================================================
