---------------------------- MODULE QuotesProofs ----------------------------
(***************************************************************************)
(* A level has one order at most, no quote keeps working unwanted and none *)
(* that was held back is forgotten: for every number of levels, every set  *)
(* of ladders, every size of the pool and of the bucket, and any number of *)
(* events.                                                                 *)
(***************************************************************************)
EXTENDS Quotes, Induction

-----------------------------------------------------------------------------
(***************************************************************************)
(* The inductive invariant.  It is stated of a world, what a handler works *)
(* on, so that it also holds in the midst of a handler.                    *)
(***************************************************************************)

SlotRecs == [handle : 0 .. Pool, want : Nat, apply : BOOLEAN, recent : BOOLEAN, waits : BOOLEAN]

MgrRecs == [desired : Ladders \cup {<<>>}, used : 0 .. Levels, pulled : BOOLEAN, paused : BOOLEAN,
            resumable : BOOLEAN, held : BOOLEAN, backing : BOOLEAN, queued : BOOLEAN,
            early : BOOLEAN, starved : BOOLEAN]

OrderRecs == [st : Pending \cup {"Free", "Live"}, px : Nat, next : Nat, tag : 0 .. Levels,
              kept : BOOLEAN]

Worlds == [slots : [Slots -> SlotRecs], mgr : MgrRecs, orders : [Handles -> OrderRecs],
           tokens : Int]

\* h is an order of level l.
IsQuote(w, h, l) == w.orders[h].st # "Free" /\ w.orders[h].tag = l

\* The level's order is the one its slot holds.
PlacedAt(w, l) == \A h \in Handles : IsQuote(w, h, l) => w.slots[l].handle = h

\* A slot with an order or a recorded target is among those reconcile() looks at.
UsedAt(w, l) == w.slots[l].handle # None \/ w.slots[l].apply => l <= w.mgr.used

\* A recorded target is one the ladder still asks for.
RecordedAt(w, l) == w.slots[l].apply /\ w.slots[l].want # None => l <= Len(w.mgr.desired)

QueuedAt(w, l) ==
  ~w.mgr.pulled /\ ~w.mgr.paused /\ w.slots[l].waits /\ Target(w, w.mgr.desired, l) # None
    => w.mgr.starved \/ w.mgr.queued

\* While pulled nothing works.
PulledAt(w, l) == w.mgr.pulled => \A h \in Handles : IsQuote(w, h, l) => w.orders[h].st # "Live"

SoundAt(w, l) ==
  PlacedAt(w, l) /\ UsedAt(w, l) /\ RecordedAt(w, l) /\ QueuedAt(w, l) /\ PulledAt(w, l)

\* A ladder to resume is one with quotes, and a pause keeps it unless there is nothing to keep.
PauseSound(m) ==
  /\ m.resumable => m.desired # <<>>
  /\ m.paused /\ ~m.resumable => m.pulled \/ m.desired = <<>>

Sound(w) == w \in Worlds /\ PauseSound(w.mgr) /\ \A l \in Slots : SoundAt(w, l)

\* An order that is not wanted is on its way out: one that works was to be cancelled and the venue
\* refused, the answer to one that is pending finds the recorded target.
WantedAt(w, l) ==
  \A h \in Handles : IsQuote(w, h, l) =>
    /\ w.mgr.desired = <<>> => w.mgr.pulled
    /\ ~w.mgr.pulled /\ ~w.mgr.paused /\ Target(w, w.mgr.desired, l) = None =>
         /\ w.orders[h].st = "Live" => w.orders[h].kept
         /\ w.orders[h].st \in {"PendingNew", "PendingReplace"} => w.slots[l].apply

Wanted(w) == \A l \in Slots : WantedAt(w, l)

\* Where the engine may not quote the manager is pulled, or paused.
EngineSound == /\ eng \in [enabled : BOOLEAN, reconciling : BOOLEAN, over : BOOLEAN]
               /\ ~eng.enabled => mgr.pulled
               /\ eng.reconciling => mgr.paused \/ mgr.pulled

QuotesInv == Sound(World) /\ EngineSound

WantedInv == QuotesInv /\ Wanted(World)

-----------------------------------------------------------------------------
(***************************************************************************)
(* What the manager's helpers do to one level.                             *)
(***************************************************************************)

\* What a helper leaves alone in the manager's state; a queue is only joined.
MgrKeeps(m, n) ==
  /\ n \in MgrRecs
  /\ n.desired = m.desired /\ n.used = m.used /\ n.pulled = m.pulled /\ n.paused = m.paused
  /\ n.resumable = m.resumable /\ n.held = m.held
  /\ m.starved => n.starved
  /\ m.queued => n.queued

\* The slot keeps its order, which goes towards px.
Worked(w, r, l, px) ==
  LET h == w.slots[l].handle
  IN  /\ Owns(w, l) /\ r.slots[l].handle = h
      /\ \A g \in Handles \ {h} : r.orders[g] = w.orders[g]
      /\ r.orders[h].tag = l /\ r.orders[h].st # "Free"
      /\ r.orders[h].st = "Live" => px # None
      /\ r.orders[h].st \in {"PendingNew", "PendingReplace"} => px # None \/ r.slots[l].apply

\* The slot has no order of its own, and gets none ...
Emptied(w, r, l) == ~Owns(w, l) /\ r.slots[l].handle = None /\ r.orders = w.orders

\* ... or a new one.
Submitted(w, r, l, px) ==
  /\ ~Owns(w, l) /\ px # None
  /\ \E g \in Handles : /\ w.orders[g].st = "Free" /\ r.slots[l].handle = g
                        /\ \A h \in Handles \ {g} : r.orders[h] = w.orders[h]
                        /\ r.orders[g].tag = l /\ r.orders[g].st = "PendingNew"

Towards(w, r, l, px) ==
  /\ r \in Worlds /\ MgrKeeps(w.mgr, r.mgr)
  /\ \A k \in Slots \ {l} : r.slots[k] = w.slots[k]
  /\ r.slots[l].waits => w.slots[l].waits \/ r.mgr.starved \/ r.mgr.queued
  /\ r.slots[l].apply => r.slots[l].want = px
  /\ Worked(w, r, l, px) \/ Emptied(w, r, l) \/ Submitted(w, r, l, px)

LEMMA Sizes == Levels \in Nat \ {0} /\ Pool \in Nat \ {0} /\ MaxTokens \in Nat
  BY LevelsAssumption, PoolAssumption

LEMMA WorldFields ==
  ASSUME NEW w \in Worlds
  PROVE  /\ w.slots \in [Slots -> SlotRecs] /\ w.mgr \in MgrRecs
         /\ w.orders \in [Handles -> OrderRecs] /\ w.tokens \in Int
  BY DEF Worlds

LEMMA MgrFields ==
  ASSUME NEW m \in MgrRecs
  PROVE  /\ m.desired \in Ladders \cup {<<>>} /\ m.used \in 0 .. Levels
         /\ m.pulled \in BOOLEAN /\ m.paused \in BOOLEAN /\ m.resumable \in BOOLEAN
         /\ m.held \in BOOLEAN /\ m.backing \in BOOLEAN /\ m.queued \in BOOLEAN
         /\ m.early \in BOOLEAN /\ m.starved \in BOOLEAN
  BY DEF MgrRecs

LEMMA SlotFields ==
  ASSUME NEW w \in Worlds, NEW l \in Slots
  PROVE  /\ w.slots[l] \in SlotRecs /\ w.slots[l].handle \in 0 .. Pool /\ w.slots[l].want \in Nat
         /\ w.slots[l].apply \in BOOLEAN /\ w.slots[l].recent \in BOOLEAN
         /\ w.slots[l].waits \in BOOLEAN
  BY DEF Worlds, SlotRecs

LEMMA OrderFields ==
  ASSUME NEW w \in Worlds, NEW h \in Handles
  PROVE  /\ w.orders[h] \in OrderRecs /\ w.orders[h].st \in Pending \cup {"Free", "Live"}
         /\ w.orders[h].px \in Nat /\ w.orders[h].next \in Nat /\ w.orders[h].tag \in 0 .. Levels
         /\ w.orders[h].kept \in BOOLEAN
  BY DEF Worlds, OrderRecs

\* A change of one slot.
PutSlot(w, l, s) == [w EXCEPT !.slots[l] = s]

IsPut(w, r, l, s) ==
  /\ r \in Worlds /\ r.mgr = w.mgr /\ r.orders = w.orders /\ r.tokens = w.tokens
  /\ r.slots[l] = s /\ \A k \in Slots \ {l} : r.slots[k] = w.slots[k]

LEMMA SlotSet ==
  ASSUME NEW w \in Worlds, NEW l \in Slots, NEW s \in SlotRecs
  PROVE  IsPut(w, PutSlot(w, l, s), l, s)
  BY DEF Worlds, PutSlot, IsPut

\* A change of one order.
LEMMA OrderSet ==
  ASSUME NEW w \in Worlds, NEW h \in Handles, NEW o \in OrderRecs,
         NEW r, r = [w EXCEPT !.orders = [w.orders EXCEPT ![h] = o]]
  PROVE  /\ r \in Worlds /\ r.mgr = w.mgr /\ r.slots = w.slots /\ r.tokens = w.tokens
         /\ r.orders[h] = o /\ \A g \in Handles \ {h} : r.orders[g] = w.orders[g]
  BY DEF Worlds

LEMMA OwnsFacts ==
  ASSUME NEW w \in Worlds, NEW l \in Slots, Owns(w, l)
  PROVE  /\ w.slots[l].handle \in Handles /\ w.orders[w.slots[l].handle].st # "Free"
         /\ w.orders[w.slots[l].handle].tag = l
  BY SlotFields, Sizes DEF Owns, None, Handles

LEMMA MgrSame == ASSUME NEW m \in MgrRecs PROVE MgrKeeps(m, m)
  BY DEF MgrKeeps

LEMMA BackOffFacts ==
  ASSUME NEW w \in Worlds, NEW r, r = BackOff(w)
  PROVE  r \in Worlds /\ r.slots = w.slots /\ r.orders = w.orders /\ MgrKeeps(w.mgr, r.mgr)
<1> DEFINE m == [w.mgr EXCEPT !.backing = TRUE, !.early = w.mgr.queued]
<1>1. w.mgr \in MgrRecs
  BY WorldFields
<1>2. m \in MgrRecs /\ MgrKeeps(w.mgr, m)
  BY <1>1 DEF MgrRecs, MgrKeeps
<1>3. r = [w EXCEPT !.mgr = m]
  BY <1>1 DEF BackOff, Worlds, MgrRecs
<1> HIDE DEF m
<1> QED BY <1>2, <1>3 DEF Worlds

\* A New or Replace that is held back: nothing changes but that the slot waits.
HeldBack(w, r, l) ==
  /\ r \in Worlds /\ r.orders = w.orders /\ MgrKeeps(w.mgr, r.mgr) /\ (r.mgr.starved \/ r.mgr.queued)
  /\ \A k \in Slots \ {l} : r.slots[k] = w.slots[k]
  /\ r.slots[l].handle = w.slots[l].handle /\ r.slots[l].apply = w.slots[l].apply
  /\ r.slots[l].want = w.slots[l].want

LEMMA StarvedFacts ==
  ASSUME NEW w \in Worlds, NEW l \in Slots, NEW r, r = Starved(w, l)
  PROVE  HeldBack(w, r, l)
<1> DEFINE m == [w.mgr EXCEPT !.starved = TRUE]
           s == [w.slots[l] EXCEPT !.waits = TRUE]
<1>1. w.mgr \in MgrRecs /\ w.slots[l] \in SlotRecs
  BY WorldFields, SlotFields
<1>2. m \in MgrRecs /\ MgrKeeps(w.mgr, m) /\ m.starved
  BY <1>1 DEF MgrRecs, MgrKeeps
<1>3. s \in SlotRecs /\ s.handle = w.slots[l].handle /\ s.apply = w.slots[l].apply /\ s.want = w.slots[l].want
  BY <1>1 DEF SlotRecs
<1>4. r = [w EXCEPT !.mgr = m, !.slots = [w.slots EXCEPT ![l] = s]]
  BY DEF Starved, Worlds
<1> HIDE DEF m, s
<1>5. /\ r \in Worlds /\ r.mgr = m /\ r.orders = w.orders
      /\ r.slots[l] = s /\ \A k \in Slots \ {l} : r.slots[k] = w.slots[k]
  <2>1. w.slots \in [Slots -> SlotRecs] /\ [w.slots EXCEPT ![l] = s] \in [Slots -> SlotRecs]
    BY <1>3, WorldFields
  <2>2. /\ r \in Worlds /\ r.mgr = m /\ r.orders = w.orders
        /\ r.slots = [w.slots EXCEPT ![l] = s]
    BY <1>2, <1>4, <2>1 DEF Worlds
  <2> QED BY <2>1, <2>2
<1> QED BY <1>2, <1>3, <1>5 DEF HeldBack

LEMMA KeptBackoffFacts ==
  ASSUME NEW w \in Worlds, NEW l \in Slots, NEW r, r = KeptBackoff(w, l)
  PROVE  HeldBack(w, r, l)
<1> DEFINE m == [w.mgr EXCEPT !.queued = TRUE, !.early = w.mgr.queued /\ w.mgr.early]
           s == [w.slots[l] EXCEPT !.waits = TRUE]
<1>1. w.mgr \in MgrRecs /\ w.slots[l] \in SlotRecs
  BY WorldFields, SlotFields
<1>2. m \in MgrRecs /\ MgrKeeps(w.mgr, m) /\ m.queued
  BY <1>1 DEF MgrRecs, MgrKeeps
<1>3. s \in SlotRecs /\ s.handle = w.slots[l].handle /\ s.apply = w.slots[l].apply /\ s.want = w.slots[l].want
  BY <1>1 DEF SlotRecs
<1>4. r = [w EXCEPT !.mgr = m, !.slots = [w.slots EXCEPT ![l] = s]]
  BY DEF KeptBackoff, Worlds, MgrRecs
<1> HIDE DEF m, s
<1>5. /\ r \in Worlds /\ r.mgr = m /\ r.orders = w.orders
      /\ r.slots[l] = s /\ \A k \in Slots \ {l} : r.slots[k] = w.slots[k]
  <2>1. w.slots \in [Slots -> SlotRecs] /\ [w.slots EXCEPT ![l] = s] \in [Slots -> SlotRecs]
    BY <1>3, WorldFields
  <2>2. /\ r \in Worlds /\ r.mgr = m /\ r.orders = w.orders
        /\ r.slots = [w.slots EXCEPT ![l] = s]
    BY <1>2, <1>4, <2>1 DEF Worlds
  <2> QED BY <2>1, <2>2
<1> QED BY <1>2, <1>3, <1>5 DEF HeldBack

\* The pool slot an order is put into is free.
LEMMA FreeIsFree ==
  ASSUME NEW w \in Worlds, FreeHandles(w) # {}
  PROVE  Min(FreeHandles(w)) \in Handles /\ w.orders[Min(FreeHandles(w))].st = "Free"
<1>1. FreeHandles(w) \in SUBSET (0 .. Pool) /\ Pool \in Nat
  BY Sizes DEF FreeHandles, Handles
<1>2. Min(FreeHandles(w)) \in FreeHandles(w)
  BY <1>1, MinIsMember
<1> QED BY <1>2 DEF FreeHandles

\* Submitting for a slot without order.
LEMMA SubmitTowards ==
  ASSUME NEW w \in Worlds, NEW l \in Slots, NEW chk, NEW px \in Nat \ {0}, NEW deferred,
         w.slots[l].handle = None, ~w.slots[l].apply,
         NEW r, r = SubmitNew(w, chk, l, px, deferred)
  PROVE  Towards(w, r, l, px)
<1>1. ~Owns(w, l) /\ px # None
  BY DEF Owns, None
<1>2. w.mgr \in MgrRecs /\ w.slots[l] \in SlotRecs /\ MgrKeeps(w.mgr, w.mgr) /\ w.tokens \in Int
  BY WorldFields, SlotFields, MgrSame
<1>3. CASE r = w
  BY <1>1, <1>2, <1>3 DEF Towards, Emptied
<1>4. CASE r = Starved(w, l)
  BY <1>1, <1>4, StarvedFacts DEF Towards, Emptied, HeldBack
<1>5. CASE r = BackOff(w)
  <2>1. r \in Worlds /\ r.slots = w.slots /\ r.orders = w.orders /\ MgrKeeps(w.mgr, r.mgr)
    BY <1>5, BackOffFacts
  <2> QED BY <1>1, <2>1 DEF Towards, Emptied
<1>6. CASE /\ FreeHandles(w) # {}
           /\ r = [NewOrder(w, px, l) EXCEPT !.slots[l].handle = Min(FreeHandles(w)),
                                             !.slots[l].recent = TRUE]
  <2> DEFINE g == Min(FreeHandles(w))
             o == [Free EXCEPT !.st = "PendingNew", !.px = px, !.tag = l]
             s == [w.slots[l] EXCEPT !.handle = g, !.recent = TRUE]
  <2>1. g \in Handles /\ w.orders[g].st = "Free"
    BY <1>6, FreeIsFree
  <2>2. g \in 0 .. Pool /\ l \in 0 .. Levels
    BY <2>1, Sizes DEF Handles, Slots
  <2>3. o \in OrderRecs /\ o.st = "PendingNew" /\ o.tag = l
    BY <2>2 DEF OrderRecs, Pending, None, Free
  <2> HIDE DEF g
  <2>4. s \in SlotRecs /\ s.handle = g /\ s.apply = w.slots[l].apply /\ s.waits = w.slots[l].waits
    BY <1>2, <2>2 DEF SlotRecs
  <2>5. r = [w EXCEPT !.slots = [w.slots EXCEPT ![l] = s], !.orders = [w.orders EXCEPT ![g] = o],
                      !.tokens = w.tokens - 1]
    <3> HIDE DEF o
    <3>1. NewOrder(w, px, l) = [w EXCEPT !.orders = [w.orders EXCEPT ![g] = o], !.tokens = w.tokens - 1]
      BY DEF NewOrder, Worlds, g, o
    <3>2. r = [NewOrder(w, px, l) EXCEPT !.slots[l].handle = g, !.slots[l].recent = TRUE]
      BY <1>6 DEF g
    <3>3. [w.slots[l] EXCEPT !.handle = g, !.recent = TRUE] = s
      OBVIOUS
    <3>4. /\ NewOrder(w, px, l).slots = w.slots
          /\ DOMAIN w.slots = Slots
      BY <3>1 DEF Worlds
    <3>5. r = [NewOrder(w, px, l) EXCEPT !.slots = [w.slots EXCEPT ![l] = s]]
      BY <3>2, <3>4
    <3> HIDE DEF s
    <3> QED BY <3>1, <3>5 DEF Worlds
  <2> HIDE DEF o, s
  <2>t. w.tokens - 1 \in Int
    BY <1>2
  <2>6. /\ r \in Worlds /\ r.mgr = w.mgr /\ r.slots[l] = s /\ r.orders[g] = o
        /\ \A k \in Slots \ {l} : r.slots[k] = w.slots[k]
        /\ \A h \in Handles \ {g} : r.orders[h] = w.orders[h]
    <3>1. /\ r.slots = [w.slots EXCEPT ![l] = s] /\ r.orders = [w.orders EXCEPT ![g] = o]
          /\ r.mgr = w.mgr
      BY <2>5 DEF Worlds
    <3>2. w.slots \in [Slots -> SlotRecs] /\ w.orders \in [Handles -> OrderRecs]
      BY WorldFields
    <3>3. r \in Worlds
      <4>1. [w.slots EXCEPT ![l] = s] \in [Slots -> SlotRecs]
        BY <2>4, <3>2
      <4>2. [w.orders EXCEPT ![g] = o] \in [Handles -> OrderRecs]
        BY <2>3, <3>2
      <4> QED BY <2>5, <2>t, <4>1, <4>2 DEF Worlds
    <3> QED BY <2>1, <3>1, <3>2, <3>3
  <2>7. Submitted(w, r, l, px)
    BY <1>1, <2>1, <2>3, <2>4, <2>6 DEF Submitted
  <2> QED BY <1>2, <2>4, <2>6, <2>7 DEF Towards
<1> QED BY <1>3, <1>4, <1>5, <1>6 DEF SubmitNew

LEMMA KeptTowards ==
  ASSUME NEW w \in Worlds, NEW l \in Slots, NEW px, w.slots[l].handle = None, ~w.slots[l].apply,
         NEW r, r = KeptBackoff(w, l)
  PROVE  Towards(w, r, l, px)
<1>1. ~Owns(w, l)
  BY DEF Owns, None
<1>2. HeldBack(w, r, l)
  BY KeptBackoffFacts
<1> QED BY <1>1, <1>2 DEF Towards, Emptied, HeldBack

\* A cancel of the slot's order.
LEMMA CancelFacts ==
  ASSUME NEW w \in Worlds, NEW l \in Slots, Owns(w, l), NEW r, r = Cancel(w, l)
  PROVE  /\ r \in Worlds /\ r.mgr = w.mgr /\ r.slots = w.slots
         /\ w.slots[l].handle \in Handles
         /\ \A g \in Handles \ {w.slots[l].handle} : r.orders[g] = w.orders[g]
         /\ r.orders[w.slots[l].handle].st = "PendingCancel" /\ r.orders[w.slots[l].handle].tag = l
<1> DEFINE h == w.slots[l].handle
           o == [w.orders[h] EXCEPT !.st = "PendingCancel"]
<1>1. h \in Handles /\ w.orders[h].tag = l /\ w.orders[h] \in OrderRecs
  BY OwnsFacts, OrderFields
<1>2. o \in OrderRecs /\ o.st = "PendingCancel" /\ o.tag = l
  BY <1>1 DEF OrderRecs, Pending
<1>3. r = [w EXCEPT !.orders = [w.orders EXCEPT ![h] = o]]
  BY DEF Cancel, Worlds
<1> HIDE DEF o, h
<1>4. /\ r \in Worlds /\ r.mgr = w.mgr /\ r.slots = w.slots
      /\ r.orders[h] = o /\ \A g \in Handles \ {h} : r.orders[g] = w.orders[g]
  BY <1>1, <1>2, <1>3, OrderSet
<1> QED BY <1>1, <1>2, <1>4 DEF h

LEMMA CancelTowards ==
  ASSUME NEW w \in Worlds, NEW l \in Slots, Owns(w, l), NEW px, NEW r, r = Cancel(w, l),
         w.slots[l].apply => w.slots[l].want = px
  PROVE  Towards(w, r, l, px)
<1>1. MgrKeeps(w.mgr, w.mgr)
  BY WorldFields, MgrSame
<1>2. /\ r \in Worlds /\ r.mgr = w.mgr /\ r.slots = w.slots
      /\ w.slots[l].handle \in Handles
      /\ \A g \in Handles \ {w.slots[l].handle} : r.orders[g] = w.orders[g]
      /\ r.orders[w.slots[l].handle].st = "PendingCancel" /\ r.orders[w.slots[l].handle].tag = l
  BY CancelFacts
<1>3. Worked(w, r, l, px)
  BY <1>2 DEF Worked
<1> QED BY <1>1, <1>2, <1>3 DEF Towards

\* What only touched the slot on the way does not matter.
LEMMA TowardsBefore ==
  ASSUME NEW w \in Worlds, NEW u \in Worlds, NEW l \in Slots, NEW r, NEW px,
         u.orders = w.orders, u.mgr = w.mgr, \A k \in Slots \ {l} : u.slots[k] = w.slots[k],
         u.slots[l].waits => w.slots[l].waits,
         Owns(w, l) => u.slots[l].handle = w.slots[l].handle, ~Owns(w, l) => ~Owns(u, l),
         Towards(u, r, l, px)
  PROVE  Towards(w, r, l, px)
<1>1. CASE Worked(u, r, l, px)
  <2>1. Owns(u, l) /\ Owns(w, l) /\ u.slots[l].handle = w.slots[l].handle
    BY <1>1 DEF Worked
  <2>2. Worked(w, r, l, px)
    BY <1>1, <2>1 DEF Worked
  <2> QED BY <2>2 DEF Towards
<1>2. CASE Emptied(u, r, l)
  <2>1. ~Owns(w, l)
    BY <1>2 DEF Emptied, Owns
  <2> QED BY <1>2, <2>1 DEF Towards, Emptied
<1>3. CASE Submitted(u, r, l, px)
  <2>1. ~Owns(w, l)
    BY <1>3 DEF Submitted, Owns
  <2> QED BY <1>3, <2>1 DEF Towards, Submitted
<1> QED BY <1>1, <1>2, <1>3 DEF Towards

\* An order that stays as it is while px is wanted.
LEMMA StaysTowards ==
  ASSUME NEW w \in Worlds, NEW l \in Slots, Owns(w, l), ~w.slots[l].apply, NEW px \in Nat \ {0},
         NEW r \in Worlds, r.orders = w.orders, MgrKeeps(w.mgr, r.mgr),
         \A k \in Slots \ {l} : r.slots[k] = w.slots[k],
         r.slots[l].handle = w.slots[l].handle, r.slots[l].apply = w.slots[l].apply,
         r.slots[l].waits => w.slots[l].waits \/ r.mgr.starved \/ r.mgr.queued
  PROVE  Towards(w, r, l, px)
<1>1. px # None
  BY DEF None
<1>2. Worked(w, r, l, px)
  BY <1>1, OwnsFacts DEF Worked
<1> QED BY <1>2 DEF Towards

LEMMA AmendTowards ==
  ASSUME NEW w \in Worlds, NEW l \in Slots, Owns(w, l), ~w.slots[l].apply, NEW px \in Nat \ {0},
         NEW chk, NEW r, r = Amend(w, chk, l, px)
  PROVE  Towards(w, r, l, px)
<1> DEFINE h == w.slots[l].handle
<1>1. w.mgr \in MgrRecs /\ w.slots[l] \in SlotRecs /\ MgrKeeps(w.mgr, w.mgr) /\ w.tokens \in Int
  BY WorldFields, SlotFields, MgrSame
<1>2. CASE r = w
  BY <1>1, <1>2, StaysTowards
<1>3. CASE r = Starved(w, l)
  <2>1. HeldBack(w, r, l)
    BY <1>3, StarvedFacts
  <2> QED BY <2>1, StaysTowards DEF HeldBack
<1>4. CASE r = BackOff(w)
  <2>1. r \in Worlds /\ r.slots = w.slots /\ r.orders = w.orders /\ MgrKeeps(w.mgr, r.mgr)
    BY <1>4, BackOffFacts
  <2> QED BY <2>1, StaysTowards
<1>5. CASE r = [w EXCEPT !.orders[h] = [@ EXCEPT !.st = "PendingReplace", !.next = px],
                         !.slots[l].recent = TRUE, !.tokens = @ - 1]
  <2> DEFINE o == [w.orders[h] EXCEPT !.st = "PendingReplace", !.next = px]
             s == [w.slots[l] EXCEPT !.recent = TRUE]
  <2>1. h \in Handles /\ w.orders[h].tag = l /\ w.orders[h] \in OrderRecs
    BY OwnsFacts, OrderFields
  <2>2. o \in OrderRecs /\ o.st = "PendingReplace" /\ o.tag = l
    BY <2>1 DEF OrderRecs, Pending
  <2>3. s \in SlotRecs /\ s.handle = h /\ s.apply = w.slots[l].apply /\ s.waits = w.slots[l].waits
    BY <1>1 DEF SlotRecs
  <2>4. w.slots \in [Slots -> SlotRecs] /\ w.orders \in [Handles -> OrderRecs] /\ w.tokens - 1 \in Int
    BY <1>1, WorldFields
  <2>5. r = [w EXCEPT !.slots = [w.slots EXCEPT ![l] = s], !.orders = [w.orders EXCEPT ![h] = o],
                      !.tokens = w.tokens - 1]
    <3> HIDE DEF h
    <3> QED BY <1>5 DEF Worlds
  <2> HIDE DEF o, s, h
  <2>6. [w.slots EXCEPT ![l] = s] \in [Slots -> SlotRecs]
    BY <2>3, <2>4
  <2>7. [w.orders EXCEPT ![h] = o] \in [Handles -> OrderRecs]
    BY <2>2, <2>4
  <2>8. r \in Worlds /\ r.mgr = w.mgr
    BY <2>4, <2>5, <2>6, <2>7 DEF Worlds
  <2>9. r.slots = [w.slots EXCEPT ![l] = s] /\ r.orders = [w.orders EXCEPT ![h] = o]
    BY <2>5 DEF Worlds
  <2>10. r.slots[l] = s /\ r.orders[h] = o /\ (\A k \in Slots \ {l} : r.slots[k] = w.slots[k])
         /\ \A g \in Handles \ {h} : r.orders[g] = w.orders[g]
    BY <2>1, <2>4, <2>9
  <2>11. Worked(w, r, l, px)
    BY <2>2, <2>3, <2>10 DEF Worked, h, None
  <2> QED BY <1>1, <2>3, <2>8, <2>10, <2>11 DEF Towards
<1> QED BY <1>2, <1>3, <1>4, <1>5 DEF Amend

LEMMA MoveTowards ==
  ASSUME NEW w \in Worlds, NEW l \in Slots, Owns(w, l), ~w.slots[l].apply, NEW px \in Nat \ {0},
         NEW chk, NEW r, r = Move(w, chk, l, px)
  PROVE  Towards(w, r, l, px)
<1> DEFINE s == [w.slots[l] EXCEPT !.want = px, !.apply = TRUE]
           u == [w EXCEPT !.slots[l].want = px, !.slots[l].apply = TRUE]
<1>1. w.mgr \in MgrRecs /\ w.slots[l] \in SlotRecs /\ MgrKeeps(w.mgr, w.mgr)
  BY WorldFields, SlotFields, MgrSame
<1>2. CASE r = w
  BY <1>1, <1>2, StaysTowards
<1>3. CASE r = Cancel(u, l)
  <2>1. s \in SlotRecs /\ s.handle = w.slots[l].handle /\ s.waits = w.slots[l].waits /\ s.want = px
    BY <1>1 DEF SlotRecs
  <2>2. u = PutSlot(w, l, s)
    BY <1>1 DEF Worlds, SlotRecs, PutSlot
  <2> HIDE DEF s, u
  <2>3. /\ u \in Worlds /\ u.mgr = w.mgr /\ u.orders = w.orders
        /\ u.slots[l] = s /\ \A k \in Slots \ {l} : u.slots[k] = w.slots[k]
    BY <2>1, <2>2, SlotSet DEF IsPut
  <2>4. Owns(u, l)
    BY <2>1, <2>3 DEF Owns
  <2>5. Towards(u, r, l, px)
    BY <1>3, <2>1, <2>3, <2>4, CancelTowards
  <2> QED BY <2>1, <2>3, <2>4, <2>5, TowardsBefore
<1> QED BY <1>2, <1>3 DEF Move

\* The slot as reconcile_slot() finds it.
Cleared(w, l) == [w EXCEPT !.slots[l].waits = FALSE]

LEMMA ClearedFacts ==
  ASSUME NEW w \in Worlds, NEW l \in Slots, NEW v, v = Cleared(w, l)
  PROVE  /\ v \in Worlds /\ v.mgr = w.mgr /\ v.orders = w.orders
         /\ \A k \in Slots \ {l} : v.slots[k] = w.slots[k]
         /\ v.slots[l].handle = w.slots[l].handle /\ v.slots[l].apply = w.slots[l].apply
         /\ v.slots[l].want = w.slots[l].want /\ ~v.slots[l].waits
<1> DEFINE s == [w.slots[l] EXCEPT !.waits = FALSE]
<1>1. w.slots[l] \in SlotRecs
  BY SlotFields
<1>2. /\ s \in SlotRecs /\ s.handle = w.slots[l].handle /\ s.apply = w.slots[l].apply
      /\ s.want = w.slots[l].want /\ ~s.waits
  BY <1>1 DEF SlotRecs
<1>3. v = PutSlot(w, l, s)
  BY DEF Cleared, Worlds, PutSlot
<1> HIDE DEF s
<1>4. /\ v \in Worlds /\ v.mgr = w.mgr /\ v.orders = w.orders
      /\ v.slots[l] = s /\ \A k \in Slots \ {l} : v.slots[k] = w.slots[k]
  BY <1>2, <1>3, SlotSet DEF IsPut
<1> QED BY <1>2, <1>4

LEMMA ReconcileSlotTowards ==
  ASSUME NEW w0 \in Worlds, NEW l \in Slots, NEW px \in Nat, NEW chk,
         NEW r, r = ReconcileSlot(w0, chk, l, px)
  PROVE  Towards(Cleared(w0, l), r, l, px)
<1> DEFINE w  == Cleared(w0, l)
           s1 == [w.slots[l] EXCEPT !.apply = FALSE]
           w1 == [w EXCEPT !.slots[l].apply = FALSE]
           s2 == [s1 EXCEPT !.handle = None]
           w2 == [w1 EXCEPT !.slots[l].handle = None]
           sp == [w.slots[l] EXCEPT !.want = px, !.apply = TRUE]
           wp == [w EXCEPT !.slots[l].want = px, !.slots[l].apply = TRUE]
           h  == w.slots[l].handle
           o  == w.orders[h]
<1>1. w \in Worlds /\ ~w.slots[l].waits
  BY ClearedFacts
<1>2. r = IF Owns(w, l)
          THEN CASE o.st \in Pending -> wp
                 [] o.st \notin Pending /\ px = None -> Cancel(w1, l)
                 [] o.st \notin Pending /\ px # None /\ (px = o.px \/ w.slots[l].recent) -> w1
                 [] OTHER -> IF amends /\ ~w.mgr.backing THEN Amend(w1, chk, l, px)
                                                         ELSE Move(w1, chk, l, px)
          ELSE CASE px = None -> w2
                 [] px # None /\ w.mgr.backing -> KeptBackoff(w2, l)
                 [] OTHER -> SubmitNew(w2, chk, l, px, FALSE)
  BY Zenon DEF ReconcileSlot, Cleared
<1>s. SUFFICES Towards(w, r, l, px)
  OBVIOUS
<1> HIDE DEF w
<1>3. w.mgr \in MgrRecs /\ w.slots[l] \in SlotRecs /\ MgrKeeps(w.mgr, w.mgr)
  BY <1>1, WorldFields, SlotFields, MgrSame
<1>4. /\ s1 \in SlotRecs /\ s1.handle = h /\ ~s1.apply /\ ~s1.waits
      /\ sp \in SlotRecs /\ sp.handle = h /\ sp.apply /\ sp.want = px /\ ~sp.waits
  BY <1>1, <1>3 DEF SlotRecs
<1>5. s2 \in SlotRecs /\ s2.handle = None /\ ~s2.apply /\ ~s2.waits
  <2> HIDE DEF s1
  <2> QED BY <1>4, Sizes DEF SlotRecs, None
<1>6. w1 = PutSlot(w, l, s1) /\ wp = PutSlot(w, l, sp)
  BY <1>1, <1>3 DEF Worlds, SlotRecs, PutSlot
<1> HIDE DEF s1, sp, w1, wp
<1>7. /\ w1 \in Worlds /\ w1.mgr = w.mgr /\ w1.orders = w.orders
      /\ w1.slots[l] = s1 /\ \A k \in Slots \ {l} : w1.slots[k] = w.slots[k]
  BY <1>1, <1>4, <1>6, SlotSet DEF IsPut
<1>8. /\ wp \in Worlds /\ wp.mgr = w.mgr /\ wp.orders = w.orders
      /\ wp.slots[l] = sp /\ \A k \in Slots \ {l} : wp.slots[k] = w.slots[k]
  BY <1>1, <1>4, <1>6, SlotSet DEF IsPut
<1>9. /\ w2 \in Worlds /\ w2.mgr = w.mgr /\ w2.orders = w.orders
      /\ w2.slots[l] = s2 /\ \A k \in Slots \ {l} : w2.slots[k] = w.slots[k]
  <2>1. w2 = PutSlot(w1, l, s2)
    BY <1>7 DEF Worlds, PutSlot, w2, s2
  <2> HIDE DEF w2, s2
  <2>2. /\ w2 \in Worlds /\ w2.mgr = w1.mgr /\ w2.orders = w1.orders
        /\ w2.slots[l] = s2 /\ \A k \in Slots \ {l} : w2.slots[k] = w1.slots[k]
    BY <1>5, <1>7, <2>1, SlotSet DEF IsPut
  <2> QED BY <1>7, <2>2
<1> HIDE DEF w2, s2
<1>10. CASE Owns(w, l)
  <2>1. h \in Handles /\ o.st # "Free" /\ o.tag = l
    BY <1>1, <1>10, OwnsFacts
  <2>2. Owns(w1, l) /\ ~w1.slots[l].apply
    BY <1>4, <1>7, <1>10 DEF Owns
  <2>3. CASE o.st \in Pending
    <3>1. r = wp
      BY <1>2, <1>10, <2>3
    <3>2. Worked(w, r, l, px)
      BY <1>4, <1>8, <1>10, <2>1, <2>3, <3>1 DEF Worked, Pending
    <3> QED BY <1>3, <1>4, <1>8, <3>1, <3>2 DEF Towards
  <2>4. CASE o.st \notin Pending /\ px = None
    <3>1. r = Cancel(w1, l)
      BY <1>2, <1>10, <2>4
    <3>2. Towards(w1, r, l, px)
      BY <1>7, <2>2, <3>1, CancelTowards
    <3> QED BY <1>1, <1>4, <1>7, <1>10, <3>2, TowardsBefore
  <2>5. CASE o.st \notin Pending /\ px # None
    <3>1. px \in Nat \ {0}
      BY <2>5 DEF None
    <3>2. r = w1 \/ r = Amend(w1, chk, l, px) \/ r = Move(w1, chk, l, px)
      BY <1>2, <1>10, <2>5
    <3>3. r = w1 => Towards(w1, r, l, px)
      BY <1>3, <1>7, <2>2, <3>1, StaysTowards
    <3>4. Towards(w1, r, l, px)
      BY <1>7, <2>2, <3>1, <3>2, <3>3, AmendTowards, MoveTowards
    <3> QED BY <1>1, <1>4, <1>7, <1>10, <3>4, TowardsBefore
  <2> QED BY <2>3, <2>4, <2>5
<1>11. CASE ~Owns(w, l)
  <2>1. ~Owns(w2, l)
    BY <1>5, <1>9 DEF Owns
  <2>2. Towards(w2, r, l, px)
    <3>1. CASE px = None
      <4>1. r = w2
        BY <1>2, <1>11, <3>1
      <4> QED BY <1>3, <1>5, <1>9, <2>1, <4>1 DEF Towards, Emptied
    <3>2. CASE px # None
      <4>1. px \in Nat \ {0}
        BY <3>2 DEF None
      <4>2. r = KeptBackoff(w2, l) \/ r = SubmitNew(w2, chk, l, px, FALSE)
        BY <1>2, <1>11, <3>2
      <4> QED BY <1>5, <1>9, <4>1, <4>2, KeptTowards, SubmitTowards
    <3> QED BY <3>1, <3>2
  <2> QED BY <1>1, <1>5, <1>9, <1>11, <2>1, <2>2, TowardsBefore
<1> QED BY <1>10, <1>11

-----------------------------------------------------------------------------
(***************************************************************************)
(* The levels: what reconcile_slot() makes of its own, and that it leaves  *)
(* the others alone.                                                       *)
(***************************************************************************)

SameLevel(w, r, l) ==
  /\ r.slots[l] = w.slots[l]
  /\ \A h \in Handles : IsQuote(w, h, l) \/ IsQuote(r, h, l) => r.orders[h] = w.orders[h]

\* The level has what px asks for, or it is on its way.
Wants(r, l, px) ==
  /\ PlacedAt(r, l)
  /\ r.slots[l].apply => r.slots[l].want = px
  /\ \A h \in Handles : IsQuote(r, h, l) =>
       /\ r.orders[h].st = "Live" => px # None
       /\ r.orders[h].st \in {"PendingNew", "PendingReplace"} => px # None \/ r.slots[l].apply

WaitsQueued(r, l) == r.slots[l].waits => r.mgr.starved \/ r.mgr.queued

NoneNew(w, r, l) == \A h \in Handles : IsQuote(r, h, l) => IsQuote(w, h, l)

LEMMA TowardsOthers ==
  ASSUME NEW w \in Worlds, NEW l \in Slots, NEW r, NEW px, Towards(w, r, l, px), NEW k \in Slots \ {l}
  PROVE  SameLevel(w, r, k)
<1>1. r.slots[k] = w.slots[k]
  BY DEF Towards
<1>2. CASE Worked(w, r, l, px)
  <2>1. /\ \A g \in Handles \ {w.slots[l].handle} : r.orders[g] = w.orders[g]
        /\ w.orders[w.slots[l].handle].tag = l /\ r.orders[w.slots[l].handle].tag = l
    BY <1>2, OwnsFacts DEF Worked
  <2> QED BY <1>1, <2>1 DEF SameLevel, IsQuote
<1>3. CASE Emptied(w, r, l)
  BY <1>1, <1>3 DEF SameLevel, Emptied
<1>4. CASE Submitted(w, r, l, px)
  <2>1. PICK g \in Handles : /\ w.orders[g].st = "Free" /\ r.orders[g].tag = l
                             /\ \A h \in Handles \ {g} : r.orders[h] = w.orders[h]
    BY <1>4 DEF Submitted
  <2> QED BY <1>1, <2>1 DEF SameLevel, IsQuote
<1> QED BY <1>2, <1>3, <1>4 DEF Towards

LEMMA TowardsWants ==
  ASSUME NEW w \in Worlds, NEW l \in Slots, NEW r, NEW px, Towards(w, r, l, px), PlacedAt(w, l)
  PROVE  Wants(r, l, px) /\ (px = None => NoneNew(w, r, l))
<1>1. r.slots[l].apply => r.slots[l].want = px
  BY DEF Towards
<1>2. CASE Worked(w, r, l, px)
  <2> DEFINE h == w.slots[l].handle
  <2>1. h \in Handles /\ IsQuote(w, h, l)
    BY <1>2, OwnsFacts DEF Worked, IsQuote
  <2>2. \A g \in Handles : IsQuote(r, g, l) => g = h
    <3>1. \A g \in Handles \ {h} : r.orders[g] = w.orders[g]
      BY <1>2 DEF Worked
    <3>2. \A g \in Handles : IsQuote(w, g, l) => g = h
      BY DEF PlacedAt
    <3> HIDE DEF h
    <3> QED BY <3>1, <3>2 DEF IsQuote
  <2>3. /\ r.slots[l].handle = h
        /\ r.orders[h].st = "Live" => px # None
        /\ r.orders[h].st \in {"PendingNew", "PendingReplace"} => px # None \/ r.slots[l].apply
    BY <1>2 DEF Worked
  <2> HIDE DEF h
  <2> QED BY <1>1, <2>1, <2>2, <2>3 DEF Wants, PlacedAt, NoneNew
<1>3. ASSUME ~Owns(w, l), NEW h \in Handles PROVE ~IsQuote(w, h, l)
  <2>1. h # None
    BY Sizes DEF Handles, None
  <2> QED BY <1>3, <2>1 DEF PlacedAt, IsQuote, Owns
<1>4. CASE Emptied(w, r, l)
  <2>1. \A h \in Handles : ~IsQuote(r, h, l)
    BY <1>3, <1>4 DEF Emptied, IsQuote
  <2> QED BY <1>1, <2>1 DEF Wants, PlacedAt, NoneNew
<1>5. CASE Submitted(w, r, l, px)
  <2>1. PICK g \in Handles : /\ r.slots[l].handle = g /\ r.orders[g].st = "PendingNew"
                             /\ \A h \in Handles \ {g} : r.orders[h] = w.orders[h]
    BY <1>5 DEF Submitted
  <2>2. px # None /\ ~Owns(w, l)
    BY <1>5 DEF Submitted
  <2>3. \A h \in Handles : IsQuote(r, h, l) => h = g
    BY <1>3, <2>1, <2>2 DEF IsQuote
  <2> QED BY <1>1, <2>1, <2>2, <2>3 DEF Wants, PlacedAt
<1> QED BY <1>2, <1>4, <1>5 DEF Towards

\* The whole of reconcile_slot().
LevelDone(w, r, l, px) ==
  /\ r \in Worlds /\ MgrKeeps(w.mgr, r.mgr)
  /\ \A k \in Slots \ {l} : SameLevel(w, r, k)
  /\ PlacedAt(w, l) => Wants(r, l, px) /\ WaitsQueued(r, l) /\ (px = None => NoneNew(w, r, l))

LEMMA ReconcileSlotDone ==
  ASSUME NEW w \in Worlds, NEW l \in Slots, NEW px \in Nat, NEW chk
  PROVE  LevelDone(w, ReconcileSlot(w, chk, l, px), l, px)
<1> DEFINE r0 == ReconcileSlot(w, chk, l, px)
           v0 == Cleared(w, l)
<1>1. PICK r, v : r = r0 /\ v = v0
  OBVIOUS
<1>2. /\ v \in Worlds /\ v.mgr = w.mgr /\ v.orders = w.orders
      /\ \A k \in Slots \ {l} : v.slots[k] = w.slots[k]
      /\ v.slots[l].handle = w.slots[l].handle /\ ~v.slots[l].waits
  BY <1>1, ClearedFacts
<1>3. Towards(v, r, l, px)
  BY <1>1, ReconcileSlotTowards
<1>4. r \in Worlds /\ MgrKeeps(w.mgr, r.mgr) /\ WaitsQueued(r, l)
  BY <1>2, <1>3 DEF Towards, WaitsQueued
<1>5. ASSUME NEW k \in Slots \ {l} PROVE SameLevel(w, r, k)
  BY <1>2, <1>3, TowardsOthers DEF SameLevel, IsQuote
<1>6. ASSUME PlacedAt(w, l) PROVE Wants(r, l, px) /\ (px = None => NoneNew(w, r, l))
  <2>1. PlacedAt(v, l)
    BY <1>2, <1>6 DEF PlacedAt, IsQuote
  <2>2. Wants(r, l, px) /\ (px = None => NoneNew(v, r, l))
    BY <1>2, <1>3, <2>1, TowardsWants
  <2> QED BY <1>2, <2>2 DEF NoneNew, IsQuote
<1>7. LevelDone(w, r, l, px)
  BY <1>4, <1>5, <1>6 DEF LevelDone
<1> QED BY <1>1, <1>7

LEMMA LadderFacts ==
  ASSUME NEW d \in Ladders \cup {<<>>}
  PROVE  d \in Seq(Nat \ {0}) /\ Len(d) \in 0 .. Levels
<1>1. CASE d \in Ladders
  BY <1>1, LaddersAssumption, Sizes
<1>2. CASE d = <<>>
  BY <1>2, Sizes
<1> QED BY <1>1, <1>2

LEMMA TargetFacts ==
  ASSUME NEW w \in Worlds, NEW d \in Ladders \cup {<<>>}, NEW l \in Slots
  PROVE  /\ Target(w, d, l) \in Nat
         /\ Target(w, d, l) # None <=> ~w.mgr.held /\ l <= Len(d)
<1>1. d \in Seq(Nat \ {0}) /\ Len(d) \in 0 .. Levels /\ l \in Nat \ {0}
  BY LadderFacts, Sizes DEF Slots
<1>2. l <= Len(d) => d[l] \in Nat \ {0}
  BY <1>1
<1> QED BY <1>2 DEF Target, None

-----------------------------------------------------------------------------
(***************************************************************************)
(* The loop over the levels, by induction on the levels visited.           *)
(***************************************************************************)

Visited(w, chk, d, n) ==
  FoldLeft(LAMBDA v, l : ReconcileSlot(v, chk, l, Target(v, d, l)), w, [l \in 1 .. n |-> l])

VisitIter(w, chk, d, n) ==
  CHOOSE f : f = [t \in SUBSET DOMAIN [l \in 1 .. n |-> l] |->
                    IF t = {} THEN w
                    ELSE ReconcileSlot(f[t \ {Max(t)}], chk, [l \in 1 .. n |-> l][Max(t)],
                                       Target(f[t \ {Max(t)}], d, [l \in 1 .. n |-> l][Max(t)]))]

LEMMA VisitedIsIter ==
  ASSUME NEW w, NEW chk, NEW d, NEW n
  PROVE  Visited(w, chk, d, n) = VisitIter(w, chk, d, n)[DOMAIN [l \in 1 .. n |-> l]]
  BY Zenon DEF Visited, FoldLeft, MapThenFoldSet, VisitIter

\* g holds the worlds on the way.
Visits(g, w, chk, d, n) ==
  /\ g[0] = w /\ g[n] = Visited(w, chk, d, n)
  /\ \A i \in 1 .. n : g[i] = ReconcileSlot(g[i - 1], chk, i, Target(g[i - 1], d, i))

LEMMA VisitSteps ==
  ASSUME NEW w \in Worlds, NEW chk, NEW d \in Ladders \cup {<<>>}, NEW n \in 0 .. Levels
  PROVE  \E g : Visits(g, w, chk, d, n)
<1> DEFINE Q == SUBSET (1 .. n)
           ch == [t \in Q |-> Max(t)]
           Step(i, v) == ReconcileSlot(v, chk, i, Target(v, d, i))
           D == [x \in (1 .. n) \X Worlds |-> Step(x[1], x[2])]
           f == VisitIter(w, chk, d, n)
<1>1. n \in Nat /\ Levels \in Nat /\ n <= Levels /\ 1 .. n \subseteq Slots
  BY Sizes DEF Slots
<1>2. \A i \in 1 .. n : \A v \in Worlds : Step(i, v) \in Worlds
  <2>1. ASSUME NEW i \in 1 .. n, NEW v \in Worlds PROVE Step(i, v) \in Worlds
    <3>1. i \in Slots /\ Target(v, d, i) \in Nat
      BY <1>1, TargetFacts
    <3> QED BY <3>1, ReconcileSlotDone DEF LevelDone
  <2> QED BY <2>1
<1>3. D \in [(1 .. n) \X Worlds -> Worlds] /\ \A i \in 1 .. n : \A v \in Worlds : D[<<i, v>>] = Step(i, v)
  <2> HIDE DEF Step
  <2> QED BY <1>2
<1>4. \A t \in Q : t # {} => ch[t] = Max(t) /\ ch[t] \in t
  <2>1. ASSUME NEW t \in Q, t # {} PROVE Max(t) \in t
    <3>1. t \in SUBSET (0 .. n)
      BY <1>1
    <3> QED BY <1>1, <2>1, <3>1, MaxIsMember
  <2> QED BY <2>1
<1>5. IsFiniteSet(1 .. n)
  BY <1>1, FS_Interval
<1>6. PICK e \in [Q -> Worlds] : Iterates(e, Q, w, ch, D)
  <2> HIDE DEF D, ch
  <2> QED BY <1>3, <1>4, <1>5, SubsetRecursion
<1> DEFINE F(h) == [t \in Q |-> IF t = {} THEN w ELSE Step(Max(t), h[t \ {Max(t)}])]
<1>7. e = F(e)
  <2>1. ASSUME NEW t \in Q, t # {} PROVE D[<<ch[t], e[t \ {ch[t]}]>>] = Step(Max(t), e[t \ {Max(t)}])
    <3>1. ch[t] = Max(t) /\ Max(t) \in 1 .. n /\ t \ {Max(t)} \in Q
      BY <1>4, <2>1
    <3>2. e[t \ {Max(t)}] \in Worlds
      BY <3>1
    <3> HIDE DEF D, ch, Step, Q
    <3> QED BY <1>3, <3>1, <3>2
  <2>2. ASSUME NEW t \in Q
        PROVE  e[t] = IF t = {} THEN w ELSE Step(Max(t), e[t \ {Max(t)}])
    <3>1. e[t] = IF t = {} THEN w ELSE D[<<ch[t], e[t \ {ch[t]}]>>]
      <4> HIDE DEF D, ch, Q
      <4> QED BY <1>6, Zenon DEF Iterates
    <3> HIDE DEF D, ch, Step, Q
    <3> QED BY <2>1, <3>1
  <2>3. e = [t \in Q |-> e[t]]
    OBVIOUS
  <2> HIDE DEF Q, Step, D, ch
  <2> QED BY <2>2, <2>3
<1>8. f = F(f)
  <2> DEFINE id == [l \in 1 .. n |-> l]
             G(h) == [t \in SUBSET DOMAIN id |->
                        IF t = {} THEN w
                        ELSE ReconcileSlot(h[t \ {Max(t)}], chk, id[Max(t)],
                                           Target(h[t \ {Max(t)}], d, id[Max(t)]))]
  <2>1. ASSUME NEW h PROVE G(h) = F(h)
    <3>1. DOMAIN id = 1 .. n
      BY <1>1
    <3>2. \A t \in Q : t # {} => id[Max(t)] = Max(t)
      BY <1>1, <1>4
    <3> HIDE DEF id
    <3> QED BY <3>1, <3>2
  <2>2. f = CHOOSE h : h = G(h)
    BY Zenon DEF VisitIter
  <2> HIDE DEF G, F, f
  <2>3. e = G(e)
    BY <1>7, <2>1
  <2>4. f = G(f)
    BY <2>2, <2>3
  <2> QED BY <2>1, <2>4
<1> HIDE DEF f
<1>9. f[1 .. 0] = w
  <2>1. 1 .. 0 = {} /\ {} \in Q
    OBVIOUS
  <2> QED BY <1>8, <2>1
<1>10. ASSUME NEW i \in 1 .. n PROVE f[1 .. i] = Step(i, f[1 .. i - 1])
  <2>1. 1 .. i \in Q /\ 1 .. i # {} /\ (1 .. i) \ {i} = 1 .. i - 1
    BY <1>1
  <2>2. Max(1 .. i) = i
    BY <1>1, MaxOfInterval
  <2>3. f[1 .. i] = Step(Max(1 .. i), f[(1 .. i) \ {Max(1 .. i)}])
    <3> HIDE DEF Step, Q
    <3> QED BY <1>8, <2>1
  <2> HIDE DEF Step
  <2> QED BY <2>1, <2>2, <2>3
<1>11. f[1 .. n] = Visited(w, chk, d, n)
  <2>1. DOMAIN [l \in 1 .. n |-> l] = 1 .. n
    BY <1>1
  <2> QED BY <2>1, VisitedIsIter DEF f
<1> DEFINE g == [i \in 0 .. n |-> f[1 .. i]]
<1>12. g[0] = w /\ g[n] = Visited(w, chk, d, n)
  BY <1>1, <1>9, <1>11
<1>13. ASSUME NEW i \in 1 .. n PROVE g[i] = Step(i, g[i - 1])
  <2>1. i \in 0 .. n /\ i - 1 \in 0 .. n
    BY <1>1
  <2> HIDE DEF Step
  <2> QED BY <1>10, <2>1
<1> HIDE DEF g
<1> QED BY <1>12, <1>13 DEF Visits

\* After i levels of the ladder d: those are done, the others as they were.
UpTo(w, v, d, i) ==
  /\ v \in Worlds /\ MgrKeeps(w.mgr, v.mgr)
  /\ \A l \in Slots : l <= i => /\ Wants(v, l, Target(w, d, l)) /\ WaitsQueued(v, l)
                                /\ Target(w, d, l) = None => NoneNew(w, v, l)
  /\ \A l \in Slots : l > i => SameLevel(w, v, l)

LEMMA UpToNext ==
  ASSUME NEW w \in Worlds, NEW d \in Ladders \cup {<<>>}, NEW i \in Nat, i + 1 \in Slots,
         NEW v, UpTo(w, v, d, i), PlacedAt(w, i + 1),
         NEW r, LevelDone(v, r, i + 1, Target(v, d, i + 1))
  PROVE  UpTo(w, r, d, i + 1)
<1>1. /\ r \in Worlds /\ MgrKeeps(w.mgr, r.mgr) /\ MgrKeeps(v.mgr, r.mgr)
      /\ Target(v, d, i + 1) = Target(w, d, i + 1)
  BY DEF UpTo, LevelDone, MgrKeeps, Target
<1>2. SameLevel(w, v, i + 1)
  BY DEF UpTo
<1>3. PlacedAt(v, i + 1)
  BY <1>2 DEF SameLevel, PlacedAt, IsQuote
<1>4. ASSUME NEW l \in Slots, l <= i + 1
      PROVE  /\ Wants(r, l, Target(w, d, l)) /\ WaitsQueued(r, l)
             /\ Target(w, d, l) = None => NoneNew(w, r, l)
  <2>0. l \in Nat
    BY Sizes DEF Slots
  <2>1. CASE l = i + 1
    <3>1. /\ Wants(r, l, Target(w, d, l)) /\ WaitsQueued(r, l)
          /\ Target(w, d, l) = None => NoneNew(v, r, l)
      BY <1>1, <1>3, <2>1 DEF LevelDone
    <3>2. NoneNew(w, v, l)
      BY <1>2, <2>1 DEF SameLevel, NoneNew, IsQuote
    <3> QED BY <3>1, <3>2 DEF NoneNew
  <2>2. CASE l # i + 1
    <3>1. l <= i /\ l \in Slots \ {i + 1}
      BY <1>4, <2>0, <2>2
    <3>2. /\ Wants(v, l, Target(w, d, l)) /\ WaitsQueued(v, l)
          /\ Target(w, d, l) = None => NoneNew(w, v, l)
      BY <3>1 DEF UpTo
    <3>3. SameLevel(v, r, l)
      BY <3>1 DEF LevelDone
    <3>4. Wants(r, l, Target(w, d, l))
      BY <3>2, <3>3 DEF Wants, SameLevel, PlacedAt, IsQuote
    <3>5. WaitsQueued(r, l)
      BY <1>1, <3>2, <3>3 DEF WaitsQueued, SameLevel, MgrKeeps
    <3>6. Target(w, d, l) = None => NoneNew(w, r, l)
      BY <3>2, <3>3 DEF NoneNew, SameLevel, IsQuote
    <3> QED BY <3>4, <3>5, <3>6
  <2> QED BY <2>1, <2>2
<1>5. ASSUME NEW l \in Slots, l > i + 1 PROVE SameLevel(w, r, l)
  <2>1. l > i /\ l \in Slots \ {i + 1}
    BY <1>5, Sizes DEF Slots
  <2>2. SameLevel(w, v, l) /\ SameLevel(v, r, l)
    BY <2>1 DEF UpTo, LevelDone
  <2> QED BY <2>2 DEF SameLevel, IsQuote
<1> QED BY <1>1, <1>4, <1>5 DEF UpTo

LEMMA VisitedUpTo ==
  ASSUME NEW w \in Worlds, NEW chk, NEW d \in Ladders \cup {<<>>}, NEW n \in 0 .. Levels,
         \A l \in Slots : PlacedAt(w, l)
  PROVE  UpTo(w, Visited(w, chk, d, n), d, n)
<1>1. PICK g : Visits(g, w, chk, d, n)
  BY VisitSteps
<1>v. \A j \in 1 .. n : g[j] = ReconcileSlot(g[j - 1], chk, j, Target(g[j - 1], d, j))
  BY <1>1 DEF Visits
<1>2. n \in Nat /\ Levels \in Nat
  BY Sizes
<1> DEFINE T == {i \in Nat : i <= n => UpTo(w, g[i], d, i)}
<1>3. 0 \in T
  <2>1. g[0] = w /\ MgrKeeps(w.mgr, w.mgr)
    BY <1>1, WorldFields, MgrSame DEF Visits
  <2>2. \A l \in Slots : ~(l <= 0) /\ SameLevel(w, w, l)
    BY Sizes DEF Slots, SameLevel
  <2>3. UpTo(w, w, d, 0)
    BY <2>1, <2>2 DEF UpTo
  <2> QED BY <2>1, <2>3
<1>4. ASSUME NEW i \in T PROVE i + 1 \in T
  <2>1. SUFFICES ASSUME i + 1 <= n PROVE UpTo(w, g[i + 1], d, i + 1)
    OBVIOUS
  <2>2. i \in Nat /\ UpTo(w, g[i], d, i) /\ i + 1 \in Slots /\ i + 1 \in 1 .. n
    BY <1>2, <2>1 DEF Slots
  <2>3. g[i + 1] = ReconcileSlot(g[i], chk, i + 1, Target(g[i], d, i + 1))
    <3>1. g[i + 1] = ReconcileSlot(g[i + 1 - 1], chk, i + 1, Target(g[i + 1 - 1], d, i + 1))
      BY <1>v, <2>2
    <3>2. i + 1 - 1 = i
      BY <2>2
    <3> QED BY <3>1, <3>2
  <2>4. g[i] \in Worlds
    BY <2>2 DEF UpTo
  <2>5. LevelDone(g[i], g[i + 1], i + 1, Target(g[i], d, i + 1))
    BY <2>2, <2>3, <2>4, TargetFacts, ReconcileSlotDone
  <2>6. PlacedAt(w, i + 1)
    BY <2>2
  <2> QED BY <2>2, <2>5, <2>6, UpToNext
<1>5. T = Nat
  <2> HIDE DEF T
  <2>1. T \in SUBSET Nat
    BY DEF T
  <2> QED BY <1>3, <1>4, <2>1, NatSetInduction
<1>6. UpTo(w, g[n], d, n)
  BY <1>2, <1>5
<1> QED BY <1>1, <1>6 DEF Visits

-----------------------------------------------------------------------------
(***************************************************************************)
(* The manager's operations.                                               *)
(***************************************************************************)

MgrRest(m, n) ==
  /\ n.desired = m.desired /\ n.pulled = m.pulled /\ n.paused = m.paused
  /\ n.resumable = m.resumable /\ n.held = m.held

\* All levels go towards the ladder d.
Reconciled(w, r, d) ==
  /\ r \in Worlds /\ MgrRest(w.mgr, r.mgr)
  /\ \A l \in Slots : /\ Wants(r, l, Target(w, d, l)) /\ UsedAt(r, l)
                      /\ Target(w, d, l) # None => WaitsQueued(r, l)
                      /\ Target(w, d, l) = None => NoneNew(w, r, l)

\* An empty slot is the slot of a level without orders.
LEMMA EmptyLevel ==
  ASSUME NEW w, NEW l, PlacedAt(w, l), w.slots[l].handle = None
  PROVE  \A h \in Handles : ~IsQuote(w, h, l)
<1>1. \A h \in Handles : h # None
  BY Sizes DEF Handles, None
<1> QED BY <1>1 DEF PlacedAt

LEMMA SlotsReconciled ==
  ASSUME NEW w \in Worlds, NEW chk, NEW d \in Ladders \cup {<<>>}, NEW n \in 0 .. Levels, Len(d) <= n,
         \A l \in Slots : PlacedAt(w, l),
         \A l \in Slots : l > n => w.slots[l].handle = None /\ ~w.slots[l].apply,
         NEW r, r = ReconcileSlots(w, chk, d, n)
  PROVE  Reconciled(w, r, d)
<1>1. PICK done : done = Visited(w, chk, d, n)
  OBVIOUS
<1> DEFINE full == {l \in 1 .. n : done.slots[l].handle # None \/ done.slots[l].apply}
           used == IF full = {} THEN 0 ELSE Max(full)
           m == [done.mgr EXCEPT !.used = used]
<1>2. UpTo(w, done, d, n)
  BY <1>1, VisitedUpTo
<1>3. done \in Worlds /\ done.mgr \in MgrRecs /\ MgrKeeps(w.mgr, done.mgr)
  BY <1>2, WorldFields DEF UpTo
<1>4. r = [done EXCEPT !.mgr.used = used]
  BY <1>1, Zenon DEF ReconcileSlots, Visited
<1>5. n \in Nat /\ Levels \in Nat /\ n <= Levels /\ full \in SUBSET (0 .. n)
  BY Sizes
<1>6. used \in 0 .. Levels /\ \A l \in full : l <= used
  <2>1. full # {} => Max(full) \in full /\ \A l \in full : l <= Max(full)
    <3> HIDE DEF full
    <3> QED BY <1>5, MaxIsMember
  <2>2. \A l \in full : l \in 0 .. Levels
    BY <1>5
  <2> HIDE DEF full
  <2>3. CASE full = {}
    BY <1>5, <2>3
  <2>4. CASE full # {}
    <3>1. used = Max(full)
      BY <2>4
    <3> HIDE DEF used
    <3> QED BY <2>1, <2>2, <2>4, <3>1
  <2> QED BY <2>3, <2>4
<1> HIDE DEF used
<1>7. m \in MgrRecs /\ MgrRest(w.mgr, m) /\ m.used = used
      /\ m.starved = done.mgr.starved /\ m.queued = done.mgr.queued
  BY <1>3, <1>6 DEF MgrRecs, MgrKeeps, MgrRest
<1>8. r \in Worlds /\ r.mgr = m /\ r.slots = done.slots /\ r.orders = done.orders
  <2>1. r = [done EXCEPT !.mgr = m]
    BY <1>4 DEF Worlds
  <2> HIDE DEF m
  <2> QED BY <1>3, <1>7, <2>1 DEF Worlds
<1>9. ASSUME NEW l \in Slots
      PROVE  /\ Wants(r, l, Target(w, d, l)) /\ UsedAt(r, l)
             /\ Target(w, d, l) # None => WaitsQueued(r, l)
             /\ Target(w, d, l) = None => NoneNew(w, r, l)
  <2>1. l \in Nat /\ l >= 1
    BY Sizes DEF Slots
  <2>2. CASE l <= n
    <3>1. /\ Wants(done, l, Target(w, d, l)) /\ WaitsQueued(done, l)
          /\ Target(w, d, l) = None => NoneNew(w, done, l)
      BY <1>2, <2>2 DEF UpTo
    <3>2. Wants(r, l, Target(w, d, l))
      BY <1>8, <3>1 DEF Wants, PlacedAt, IsQuote
    <3>3. WaitsQueued(r, l)
      BY <1>7, <1>8, <3>1 DEF WaitsQueued
    <3>4. Target(w, d, l) = None => NoneNew(w, r, l)
      BY <1>8, <3>1 DEF NoneNew, IsQuote
    <3>5. UsedAt(r, l)
      <4>1. l \in 1 .. n
        BY <1>5, <2>1, <2>2
      <4>2. done.slots[l].handle # None \/ done.slots[l].apply => l <= used
        BY <1>6, <4>1
      <4> QED BY <1>7, <1>8, <4>2 DEF UsedAt
    <3> QED BY <3>2, <3>3, <3>4, <3>5
  <2>3. CASE ~(l <= n)
    <3>1. SameLevel(w, done, l) /\ w.slots[l].handle = None /\ ~w.slots[l].apply
      BY <1>2, <1>5, <2>1, <2>3 DEF UpTo
    <3>2. r.slots[l] = w.slots[l]
      BY <1>8, <3>1 DEF SameLevel
    <3>3. \A h \in Handles : ~IsQuote(r, h, l)
      BY <1>8, <3>1, EmptyLevel DEF SameLevel, IsQuote
    <3>4. Target(w, d, l) = None
      <4>1. ~(l <= Len(d))
        BY <1>5, <2>1, <2>3, LadderFacts
      <4> QED BY <4>1 DEF Target
    <3> QED BY <3>1, <3>2, <3>3, <3>4 DEF Wants, PlacedAt, UsedAt, NoneNew
  <2> QED BY <2>2, <2>3
<1> QED BY <1>7, <1>8, <1>9 DEF Reconciled

\* What reconcile() needs of a world: no more than that the slots know their orders.
Tidy(w) == w \in Worlds /\ \A l \in Slots : PlacedAt(w, l) /\ UsedAt(w, l)

NoQuotes(w) == \A l \in Slots, h \in Handles : ~IsQuote(w, h, l)

\* reconcile() makes any such world sound.
LEMMA ReconcileQuotesSound ==
  ASSUME NEW w, Tidy(w), NEW chk, NEW d \in Ladders \cup {<<>>},
         NEW r, r = ReconcileQuotes(w, chk, d)
  PROVE  /\ Sound(r) /\ ~r.mgr.pulled /\ ~r.mgr.paused
         /\ d # <<>> \/ NoQuotes(w) => Wanted(r)
<1> DEFINE m == [w.mgr EXCEPT !.pulled = FALSE, !.paused = FALSE, !.resumable = FALSE, !.desired = d]
           u0 == [w EXCEPT !.mgr.pulled = FALSE, !.mgr.paused = FALSE,
                          !.mgr.resumable = FALSE, !.mgr.desired = d]
           n == Max({Len(d), w.mgr.used})
<1>1. w \in Worlds /\ w.mgr \in MgrRecs
  BY WorldFields DEF Tidy
<1>2. /\ m \in MgrRecs /\ ~m.pulled /\ ~m.paused /\ ~m.resumable /\ m.desired = d
      /\ m.held = w.mgr.held
  BY <1>1 DEF MgrRecs
<1>3. PICK u : u = u0
  OBVIOUS
<1>4. u = [w EXCEPT !.mgr = m]
  BY <1>1, <1>3 DEF Worlds, MgrRecs
<1>5. r = ReconcileSlots(u, chk, d, n)
  BY <1>3 DEF ReconcileQuotes
<1> HIDE DEF m
<1>6. u \in Worlds /\ u.mgr = m /\ u.slots = w.slots /\ u.orders = w.orders
  BY <1>1, <1>2, <1>4 DEF Worlds
<1>7. Len(d) \in 0 .. Levels /\ w.mgr.used \in 0 .. Levels /\ Levels \in Nat
  BY <1>1, LadderFacts, MgrFields, Sizes
<1>8. n \in 0 .. Levels /\ Len(d) <= n /\ w.mgr.used <= n
  <2>1. {Len(d), w.mgr.used} \in SUBSET (0 .. Levels) /\ {Len(d), w.mgr.used} # {}
    BY <1>7
  <2>2. n \in {Len(d), w.mgr.used} /\ \A y \in {Len(d), w.mgr.used} : y <= n
    BY <1>7, <2>1, MaxIsMember
  <2> HIDE DEF n
  <2> QED BY <1>7, <2>2
<1> HIDE DEF n
<1>9. \A l \in Slots : PlacedAt(u, l) /\ (l > n => u.slots[l].handle = None /\ ~u.slots[l].apply)
  <2>1. ASSUME NEW l \in Slots PROVE PlacedAt(u, l)
    BY <1>6 DEF Tidy, PlacedAt, IsQuote
  <2>2. ASSUME NEW l \in Slots, l > n PROVE u.slots[l].handle = None /\ ~u.slots[l].apply
    <3>1. ~(l <= w.mgr.used)
      BY <1>7, <1>8, <2>2 DEF Slots
    <3> QED BY <1>6, <3>1 DEF Tidy, UsedAt
  <2> QED BY <2>1, <2>2
<1>10. Reconciled(u, r, d)
  BY <1>5, <1>6, <1>8, <1>9, SlotsReconciled
<1>11. /\ r \in Worlds /\ ~r.mgr.pulled /\ ~r.mgr.paused /\ ~r.mgr.resumable /\ r.mgr.desired = d
       /\ r.mgr.held = u.mgr.held
  BY <1>2, <1>6, <1>10 DEF Reconciled, MgrRest
<1>12. ASSUME NEW l \in Slots PROVE SoundAt(r, l)
  <2>1. Target(r, d, l) = Target(u, d, l)
    BY <1>11 DEF Target
  <2>2. /\ Wants(r, l, Target(u, d, l)) /\ UsedAt(r, l) /\ (Target(u, d, l) # None => WaitsQueued(r, l))
    BY <1>10 DEF Reconciled
  <2>3. Target(u, d, l) # None => l <= Len(d)
    BY <1>6, TargetFacts
  <2>4. RecordedAt(r, l)
    BY <1>11, <2>2, <2>3 DEF RecordedAt, Wants
  <2>5. QueuedAt(r, l)
    BY <1>11, <2>1, <2>2 DEF QueuedAt, WaitsQueued
  <2> QED BY <1>11, <2>2, <2>4, <2>5 DEF SoundAt, Wants, PulledAt
<1>13. ASSUME d # <<>> \/ NoQuotes(w), NEW l \in Slots PROVE WantedAt(r, l)
  <2>1. Target(r, d, l) = Target(u, d, l)
    BY <1>11 DEF Target
  <2>2. /\ Wants(r, l, Target(u, d, l)) /\ (Target(u, d, l) = None => NoneNew(u, r, l))
    BY <1>10 DEF Reconciled
  <2>3. CASE d # <<>>
    BY <1>11, <2>1, <2>2, <2>3 DEF WantedAt, Wants
  <2>4. CASE d = <<>>
    <3>1. Target(u, d, l) = None
      <4>1. Len(d) = 0 /\ l \in Nat /\ l > 0
        BY <2>4, Sizes DEF Slots
      <4> QED BY <1>6, <4>1, TargetFacts
    <3>2. \A h \in Handles : ~IsQuote(u, h, l)
      BY <1>6, <1>13, <2>4 DEF NoQuotes, IsQuote
    <3> QED BY <2>2, <3>1, <3>2 DEF NoneNew, WantedAt
  <2> QED BY <2>3, <2>4
<1> QED BY <1>11, <1>12, <1>13 DEF Sound, PauseSound, Wanted

LEMMA SoundIsTidy == ASSUME NEW w, Sound(w) PROVE Tidy(w)
  BY DEF Sound, Tidy, SoundAt

\* The side is held: nothing is asked for any more.
LEMMA HeldSideSound ==
  ASSUME NEW w, Sound(w), NEW r, r = HeldSide(w)
  PROVE  /\ Sound(r) /\ (Wanted(w) => Wanted(r))
         /\ r.mgr.pulled = w.mgr.pulled /\ r.mgr.paused = w.mgr.paused
<1> DEFINE m == [w.mgr EXCEPT !.held = TRUE]
<1>1. w \in Worlds /\ w.mgr \in MgrRecs /\ Tidy(w)
  BY WorldFields, SoundIsTidy DEF Sound
<1>2. /\ m \in MgrRecs /\ m.held /\ m.used = w.mgr.used
      /\ m.desired = w.mgr.desired /\ m.pulled = w.mgr.pulled /\ m.paused = w.mgr.paused
      /\ m.resumable = w.mgr.resumable
  BY <1>1 DEF MgrRecs
<1>3. PICK u : u = [w EXCEPT !.mgr = m]
  OBVIOUS
<1>4. u = [w EXCEPT !.mgr.held = TRUE]
  BY <1>1, <1>3 DEF Worlds
<1> HIDE DEF m
<1>5. u \in Worlds /\ u.mgr = m /\ u.slots = w.slots /\ u.orders = w.orders
  BY <1>1, <1>2, <1>3 DEF Worlds
<1>6. r = ReconcileSlots(u, "none", <<>>, w.mgr.used)
  BY <1>2, <1>4, <1>5 DEF HeldSide, PullSide
<1>7. w.mgr.used \in 0 .. Levels /\ Levels \in Nat
  BY <1>1, MgrFields, Sizes
<1>8. \A l \in Slots : PlacedAt(u, l) /\ (l > w.mgr.used => u.slots[l].handle = None /\ ~u.slots[l].apply)
  <2>1. ASSUME NEW l \in Slots PROVE PlacedAt(u, l)
    BY <1>1, <1>5 DEF Tidy, PlacedAt, IsQuote
  <2>2. ASSUME NEW l \in Slots, l > w.mgr.used PROVE u.slots[l].handle = None /\ ~u.slots[l].apply
    <3>1. ~(l <= w.mgr.used)
      BY <1>7, <2>2 DEF Slots
    <3> QED BY <1>1, <1>5, <3>1 DEF Tidy, UsedAt
  <2> QED BY <2>1, <2>2
<1>9. Reconciled(u, r, <<>>)
  <2>1. <<>> \in Ladders \cup {<<>>} /\ Len(<<>>) <= w.mgr.used
    BY <1>7
  <2> QED BY <1>5, <1>6, <1>7, <1>8, <2>1, SlotsReconciled
<1>10. /\ r \in Worlds /\ r.mgr.held /\ r.mgr.desired = w.mgr.desired /\ r.mgr.pulled = w.mgr.pulled
       /\ r.mgr.paused = w.mgr.paused /\ r.mgr.resumable = w.mgr.resumable
  BY <1>2, <1>5, <1>9 DEF Reconciled, MgrRest
<1>11. ASSUME NEW l \in Slots
       PROVE  /\ Wants(r, l, None) /\ UsedAt(r, l) /\ NoneNew(w, r, l)
              /\ Target(r, r.mgr.desired, l) = None
  <2>1. Target(u, <<>>, l) = None /\ Target(r, r.mgr.desired, l) = None
    BY <1>2, <1>5, <1>10 DEF Target
  <2>2. Wants(r, l, None) /\ UsedAt(r, l) /\ NoneNew(u, r, l)
    BY <1>9, <2>1 DEF Reconciled
  <2> QED BY <1>5, <2>1, <2>2 DEF NoneNew, IsQuote
<1>12. ASSUME NEW l \in Slots PROVE SoundAt(r, l)
  <2>1. Wants(r, l, None) /\ UsedAt(r, l) /\ Target(r, r.mgr.desired, l) = None
    BY <1>11
  <2> QED BY <2>1 DEF SoundAt, Wants, RecordedAt, QueuedAt, PulledAt
<1>13. ASSUME Wanted(w), NEW l \in Slots PROVE WantedAt(r, l)
  <2>1. Wants(r, l, None) /\ NoneNew(w, r, l)
    BY <1>11
  <2>2. WantedAt(w, l)
    BY <1>13 DEF Wanted
  <2> QED BY <1>10, <2>1, <2>2 DEF WantedAt, Wants, NoneNew
<1>14. PauseSound(r.mgr)
  BY <1>10 DEF Sound, PauseSound
<1> QED BY <1>10, <1>12, <1>13, <1>14 DEF Sound, Wanted

\* Sound but for what is queued: of a world one of the two queues was just left in.
Queueless(w) ==
  /\ w \in Worlds /\ PauseSound(w.mgr)
  /\ \A l \in Slots : PlacedAt(w, l) /\ UsedAt(w, l) /\ RecordedAt(w, l) /\ PulledAt(w, l)

\* Without a ladder there are no quotes, unless they were pulled.
LadderWanted(w) ==
  \A l \in Slots, h \in Handles : IsQuote(w, h, l) => (w.mgr.desired = <<>> => w.mgr.pulled)

LEMMA QueuelessFrom ==
  ASSUME NEW w, Sound(w), NEW u \in Worlds, u.slots = w.slots, u.orders = w.orders,
         u.mgr.used = w.mgr.used, u.mgr.desired = w.mgr.desired, u.mgr.pulled = w.mgr.pulled,
         u.mgr.paused = w.mgr.paused, u.mgr.resumable = w.mgr.resumable
  PROVE  Queueless(u) /\ (Wanted(w) => LadderWanted(u))
<1>1. ASSUME NEW l \in Slots
      PROVE  PlacedAt(u, l) /\ UsedAt(u, l) /\ RecordedAt(u, l) /\ PulledAt(u, l)
  <2>1. PlacedAt(w, l) /\ UsedAt(w, l) /\ RecordedAt(w, l) /\ PulledAt(w, l)
    BY DEF Sound, SoundAt
  <2> QED BY <2>1 DEF PlacedAt, UsedAt, RecordedAt, PulledAt, IsQuote
<1>2. PauseSound(u.mgr)
  BY DEF Sound, PauseSound
<1>3. Wanted(w) => LadderWanted(u)
  BY DEF Wanted, WantedAt, LadderWanted, IsQuote
<1> QED BY <1>1, <1>2, <1>3 DEF Queueless

\* Nothing is to be quoted.
LEMMA IdleSound ==
  ASSUME NEW w, Queueless(w), w.mgr.pulled \/ w.mgr.paused \/ w.mgr.desired = <<>>
  PROVE  Sound(w) /\ (LadderWanted(w) => Wanted(w))
<1>1. ASSUME w.mgr.desired = <<>>, NEW l \in Slots PROVE Target(w, w.mgr.desired, l) = None
  <2>1. Len(w.mgr.desired) = 0 /\ l \in Nat /\ l > 0
    BY <1>1, Sizes DEF Slots
  <2> QED BY <2>1 DEF Target
<1>2. ASSUME NEW l \in Slots PROVE QueuedAt(w, l)
  BY <1>1 DEF QueuedAt
<1>3. ASSUME LadderWanted(w), NEW l \in Slots PROVE WantedAt(w, l)
  BY <1>3 DEF LadderWanted, WantedAt
<1> QED BY <1>2, <1>3 DEF Queueless, Sound, SoundAt, Wanted

\* retry(): the ladder once more.
LEMMA RetrySound ==
  ASSUME NEW w, Queueless(w), NEW chk, NEW r, r = Retry(w, chk)
  PROVE  /\ Sound(r) /\ (LadderWanted(w) => Wanted(r))
         /\ r.mgr.pulled = w.mgr.pulled /\ r.mgr.paused = w.mgr.paused
<1>1. CASE w.mgr.pulled \/ w.mgr.paused
  <2>1. r = w
    BY <1>1 DEF Retry
  <2> QED BY <1>1, <2>1, IdleSound
<1>2. CASE ~(w.mgr.pulled \/ w.mgr.paused)
  <2>1. r = ReconcileQuotes(w, chk, w.mgr.desired)
    BY <1>2 DEF Retry
  <2>2. w.mgr \in MgrRecs /\ w.mgr.desired \in Ladders \cup {<<>>}
        /\ w.mgr.pulled = FALSE /\ w.mgr.paused = FALSE /\ Tidy(w)
    BY <1>2, WorldFields, MgrFields DEF Queueless, Tidy
  <2>3. /\ Sound(r) /\ ~r.mgr.pulled /\ ~r.mgr.paused
        /\ w.mgr.desired # <<>> \/ NoQuotes(w) => Wanted(r)
    BY <2>1, <2>2, ReconcileQuotesSound
  <2>4. LadderWanted(w) => w.mgr.desired # <<>> \/ NoQuotes(w)
    BY <2>2 DEF LadderWanted, NoQuotes
  <2>5. r.mgr.pulled = FALSE /\ r.mgr.paused = FALSE
    BY <2>3, WorldFields, MgrFields DEF Sound
  <2> QED BY <2>2, <2>3, <2>4, <2>5
<1> QED BY <1>1, <1>2

\* pull_quotes(): what works is cancelled, nothing is recorded.
LEMMA PullSound ==
  ASSUME NEW w, Sound(w), NEW keep \in BOOLEAN, NEW r, r = PullQuotes(w, keep)
  PROVE  Sound(r) /\ Wanted(r) /\ r.mgr.pulled
<1> DEFINE m == [w.mgr EXCEPT !.resumable = keep /\ Keeps(w.mgr),
                              !.desired = IF keep THEN @ ELSE <<>>,
                              !.pulled = TRUE, !.paused = FALSE]
<1>1. w \in Worlds /\ w.mgr \in MgrRecs
  BY WorldFields DEF Sound
<1>2. Keeps(w.mgr) \in BOOLEAN /\ (Keeps(w.mgr) => w.mgr.desired # <<>>)
  BY <1>1, MgrFields DEF Keeps, Sound, PauseSound
<1>3. /\ m \in MgrRecs /\ m.pulled /\ ~m.paused /\ m.used = w.mgr.used
      /\ m.resumable => m.desired # <<>>
  BY <1>1, <1>2 DEF MgrRecs
<1>4. PICK u : u = [w EXCEPT !.mgr = m]
  OBVIOUS
<1>5. r = CancelWorking(u)
  <2>1. u = [w EXCEPT !.mgr.resumable = keep /\ Keeps(w.mgr),
                      !.mgr.desired = IF keep THEN @ ELSE <<>>,
                      !.mgr.pulled = TRUE, !.mgr.paused = FALSE]
    BY <1>1, <1>4 DEF Worlds, MgrRecs
  <2> QED BY <2>1 DEF PullQuotes
<1> HIDE DEF m
<1>6. u \in Worlds /\ u.mgr = m /\ u.slots = w.slots /\ u.orders = w.orders
  BY <1>1, <1>3, <1>4 DEF Worlds
<1> DEFINE ss == [l \in Slots |-> [u.slots[l] EXCEPT !.apply = FALSE]]
           working == {u.slots[l].handle : l \in {k \in Slots : Owns(u, k)}}
           os == [h \in Handles |-> IF h \in working /\ u.orders[h].st = "Live"
                                    THEN [u.orders[h] EXCEPT !.st = "PendingCancel"] ELSE u.orders[h]]
<1>7. r = [u EXCEPT !.slots = ss, !.orders = os]
  BY <1>5, <1>6 DEF CancelWorking, Worlds
<1>8. ss \in [Slots -> SlotRecs] /\ \A l \in Slots : ss[l].handle = w.slots[l].handle /\ ~ss[l].apply
  <2>1. ASSUME NEW l \in Slots
        PROVE  /\ [u.slots[l] EXCEPT !.apply = FALSE] \in SlotRecs
               /\ [u.slots[l] EXCEPT !.apply = FALSE].handle = w.slots[l].handle
               /\ ~[u.slots[l] EXCEPT !.apply = FALSE].apply
    <3>1. u.slots[l] \in SlotRecs /\ u.slots = w.slots
      BY <1>6, SlotFields
    <3> QED BY <3>1 DEF SlotRecs
  <2> QED BY <2>1
<1>9. /\ os \in [Handles -> OrderRecs]
      /\ \A h \in Handles : os[h].tag = u.orders[h].tag /\ (os[h].st = "Free" <=> u.orders[h].st = "Free")
      /\ \A h \in working : h \in Handles => os[h].st # "Live"
  <2>1. ASSUME NEW h \in Handles
        PROVE  /\ os[h] \in OrderRecs
               /\ os[h].tag = u.orders[h].tag /\ (os[h].st = "Free" <=> u.orders[h].st = "Free")
               /\ h \in working => os[h].st # "Live"
    <3>1. u.orders[h] \in OrderRecs
      BY <1>6, OrderFields
    <3> HIDE DEF working
    <3> QED BY <3>1 DEF OrderRecs, Pending
  <2>2. os = [h \in Handles |-> os[h]]
    OBVIOUS
  <2> HIDE DEF os, working
  <2> QED BY <2>1, <2>2
<1> HIDE DEF ss, os
<1>10. r \in Worlds /\ r.mgr = m /\ r.slots = ss /\ r.orders = os
  <2> HIDE DEF working
  <2> QED BY <1>6, <1>7, <1>8, <1>9 DEF Worlds
<1>11. ASSUME NEW l \in Slots, NEW h \in Handles, IsQuote(r, h, l)
       PROVE  IsQuote(w, h, l) /\ w.slots[l].handle = h /\ r.orders[h].st # "Live"
  <2>1. IsQuote(w, h, l) /\ IsQuote(u, h, l)
    BY <1>6, <1>9, <1>10, <1>11 DEF IsQuote
  <2>2. w.slots[l].handle = h
    BY <2>1 DEF Sound, SoundAt, PlacedAt
  <2>3. Owns(u, l)
    <3>1. h # None
      BY Sizes DEF Handles, None
    <3> QED BY <1>6, <2>1, <2>2, <3>1 DEF Owns, IsQuote
  <2>4. h \in working
    BY <1>6, <2>2, <2>3
  <2> QED BY <1>9, <1>10, <2>1, <2>2, <2>4
<1>12. ASSUME NEW l \in Slots PROVE SoundAt(r, l) /\ WantedAt(r, l)
  <2>1. PlacedAt(r, l) /\ PulledAt(r, l)
    BY <1>8, <1>10, <1>11 DEF PlacedAt, PulledAt
  <2>2. UsedAt(r, l)
    BY <1>3, <1>8, <1>10 DEF UsedAt, Sound, SoundAt
  <2>3. RecordedAt(r, l) /\ QueuedAt(r, l) /\ WantedAt(r, l)
    BY <1>3, <1>8, <1>10 DEF RecordedAt, QueuedAt, WantedAt
  <2> QED BY <2>1, <2>2, <2>3 DEF SoundAt
<1> QED BY <1>3, <1>10, <1>12 DEF Sound, PauseSound, Wanted

\* pause_quotes(): orders rest, nothing is recorded.
LEMMA PauseQuotesSound ==
  ASSUME NEW w, Sound(w), NEW r, r = PauseQuotes(w)
  PROVE  /\ Sound(r) /\ (Wanted(w) => Wanted(r)) /\ r.mgr.paused /\ r.mgr.pulled = w.mgr.pulled
<1> DEFINE m == [w.mgr EXCEPT !.resumable = Keeps(w.mgr), !.paused = TRUE]
           ss == [l \in Slots |-> [w.slots[l] EXCEPT !.apply = FALSE]]
<1>1. w \in Worlds /\ w.mgr \in MgrRecs
  BY WorldFields DEF Sound
<1>2. /\ Keeps(w.mgr) \in BOOLEAN /\ (Keeps(w.mgr) => w.mgr.desired # <<>>)
      /\ ~Keeps(w.mgr) => w.mgr.pulled \/ w.mgr.desired = <<>>
  BY <1>1, MgrFields DEF Keeps, Sound, PauseSound
<1>3. /\ m \in MgrRecs /\ m.pulled = w.mgr.pulled /\ m.paused /\ m.used = w.mgr.used
      /\ m.desired = w.mgr.desired /\ PauseSound(m)
  BY <1>1, <1>2 DEF MgrRecs, PauseSound
<1>4. r = [w EXCEPT !.mgr = m, !.slots = ss]
  BY <1>1 DEF PauseQuotes, Worlds, MgrRecs
<1>5. ss \in [Slots -> SlotRecs] /\ \A l \in Slots : ss[l].handle = w.slots[l].handle /\ ~ss[l].apply
  <2>1. ASSUME NEW l \in Slots
        PROVE  /\ [w.slots[l] EXCEPT !.apply = FALSE] \in SlotRecs
               /\ [w.slots[l] EXCEPT !.apply = FALSE].handle = w.slots[l].handle
               /\ ~[w.slots[l] EXCEPT !.apply = FALSE].apply
    <3>1. w.slots[l] \in SlotRecs
      BY <1>1, SlotFields
    <3> QED BY <3>1 DEF SlotRecs
  <2> QED BY <2>1
<1> HIDE DEF m, ss
<1>6. r \in Worlds /\ r.mgr = m /\ r.slots = ss /\ r.orders = w.orders
  BY <1>1, <1>3, <1>4, <1>5 DEF Worlds
<1>7. ASSUME NEW l \in Slots PROVE SoundAt(r, l)
  <2>1. PlacedAt(w, l) /\ UsedAt(w, l) /\ PulledAt(w, l)
    BY DEF Sound, SoundAt
  <2>2. PlacedAt(r, l) /\ UsedAt(r, l) /\ PulledAt(r, l)
    BY <1>3, <1>5, <1>6, <2>1 DEF PlacedAt, UsedAt, PulledAt, IsQuote
  <2>3. RecordedAt(r, l) /\ QueuedAt(r, l)
    BY <1>3, <1>5, <1>6 DEF RecordedAt, QueuedAt
  <2> QED BY <2>2, <2>3 DEF SoundAt
<1>8. ASSUME Wanted(w), NEW l \in Slots PROVE WantedAt(r, l)
  BY <1>3, <1>6, <1>8 DEF Wanted, WantedAt, IsQuote
<1> QED BY <1>3, <1>6, <1>7, <1>8 DEF Sound, Wanted

\* resume(): the kept ladder, if there is one.
LEMMA ResumeSound ==
  ASSUME NEW w, Sound(w), NEW chk, NEW r, r = Resume(w, chk)
  PROVE  /\ Sound(r) /\ (Wanted(w) => Wanted(r))
         /\ ~w.mgr.resumable => r.mgr.pulled = w.mgr.pulled
<1> DEFINE m == [w.mgr EXCEPT !.paused = FALSE]
<1>1. w \in Worlds /\ w.mgr \in MgrRecs
  BY WorldFields DEF Sound
<1>2. /\ m \in MgrRecs /\ ~m.paused /\ m.pulled = w.mgr.pulled /\ m.used = w.mgr.used
      /\ m.desired = w.mgr.desired /\ m.resumable = w.mgr.resumable /\ m.held = w.mgr.held
      /\ m.starved = w.mgr.starved /\ m.queued = w.mgr.queued
  BY <1>1 DEF MgrRecs
<1>3. PICK v : v = [w EXCEPT !.mgr = m]
  OBVIOUS
<1>4. v = [w EXCEPT !.mgr.paused = FALSE]
  BY <1>3 DEF Worlds
<1>5. r = IF v.mgr.resumable THEN ReconcileQuotes(v, chk, v.mgr.desired) ELSE v
  BY <1>4 DEF Resume
<1> HIDE DEF m
<1>6. v \in Worlds /\ v.mgr = m /\ v.slots = w.slots /\ v.orders = w.orders
  BY <1>1, <1>2, <1>3 DEF Worlds
<1>7. \A l \in Slots : /\ SoundAt(w, l)
                       /\ PlacedAt(v, l) /\ UsedAt(v, l) /\ RecordedAt(v, l) /\ PulledAt(v, l)
  BY <1>2, <1>6 DEF Sound, SoundAt, PlacedAt, UsedAt, RecordedAt, PulledAt, IsQuote
<1>8. PauseSound(w.mgr) /\ PauseSound(v.mgr)
  BY <1>2, <1>6 DEF Sound, PauseSound
<1>9. CASE w.mgr.resumable
  <2>1. r = ReconcileQuotes(v, chk, w.mgr.desired) /\ w.mgr.desired # <<>>
    BY <1>2, <1>5, <1>6, <1>8, <1>9 DEF PauseSound
  <2>2. Tidy(v) /\ w.mgr.desired \in Ladders \cup {<<>>}
    BY <1>1, <1>6, <1>7, MgrFields DEF Tidy
  <2>3. Sound(r) /\ Wanted(r)
    BY <2>1, <2>2, ReconcileQuotesSound
  <2> QED BY <1>9, <2>3
<1>10. CASE ~w.mgr.resumable
  <2>1. r = v
    BY <1>2, <1>5, <1>6, <1>10
  <2>2. Queueless(v)
    BY <1>6, <1>7, <1>8 DEF Queueless
  <2>3. Wanted(w) => LadderWanted(v)
    BY <1>2, <1>6 DEF Wanted, WantedAt, LadderWanted, IsQuote
  <2>4. CASE w.mgr.paused
    <3>1. v.mgr.pulled \/ v.mgr.desired = <<>>
      BY <1>2, <1>6, <1>8, <1>10, <2>4 DEF PauseSound
    <3> QED BY <1>2, <1>6, <2>1, <2>2, <2>3, <3>1, IdleSound
  <2>5. CASE ~w.mgr.paused
    <3>1. m = w.mgr
      BY <1>1, <2>5 DEF MgrRecs, m
    <3>2. v = w
      BY <1>1, <1>3, <3>1 DEF Worlds
    <3> QED BY <2>1, <3>2
  <2> QED BY <2>4, <2>5
<1> QED BY <1>9, <1>10

-----------------------------------------------------------------------------
(***************************************************************************)
(* The OMS's updates: one order changes, and with it one level at most.    *)
(***************************************************************************)

LEMMA SameLevelTwice ==
  ASSUME NEW w, NEW v, NEW r, NEW l, SameLevel(w, v, l), SameLevel(v, r, l)
  PROVE  SameLevel(w, r, l)
<1>1. r.slots[l] = w.slots[l]
  BY DEF SameLevel
<1>2. ASSUME NEW h \in Handles, IsQuote(w, h, l) \/ IsQuote(r, h, l) PROVE r.orders[h] = w.orders[h]
  <2>1. CASE IsQuote(w, h, l)
    <3>1. v.orders[h] = w.orders[h]
      BY <2>1 DEF SameLevel
    <3>2. IsQuote(v, h, l)
      BY <2>1, <3>1 DEF IsQuote
    <3> QED BY <3>1, <3>2 DEF SameLevel
  <2>2. CASE IsQuote(r, h, l)
    <3>1. r.orders[h] = v.orders[h]
      BY <2>2 DEF SameLevel
    <3>2. IsQuote(v, h, l)
      BY <2>2, <3>1 DEF IsQuote
    <3> QED BY <3>1, <3>2 DEF SameLevel
  <2> QED BY <1>2, <2>1, <2>2
<1> QED BY <1>1, <1>2 DEF SameLevel

LEMMA LevelsKeep ==
  ASSUME NEW w, Sound(w), NEW r \in Worlds, MgrKeeps(w.mgr, r.mgr),
         \A k \in Slots : SameLevel(w, r, k) \/ SoundAt(r, k)
  PROVE  Sound(r)
<1>1. PauseSound(r.mgr)
  BY DEF Sound, PauseSound, MgrKeeps
<1>2. ASSUME NEW k \in Slots, SameLevel(w, r, k) PROVE SoundAt(r, k)
  <2>1. PlacedAt(w, k) /\ UsedAt(w, k) /\ RecordedAt(w, k) /\ QueuedAt(w, k) /\ PulledAt(w, k)
    BY DEF Sound, SoundAt
  <2>2. PlacedAt(r, k) /\ PulledAt(r, k)
    BY <1>2, <2>1 DEF SameLevel, PlacedAt, PulledAt, IsQuote, MgrKeeps
  <2>3. UsedAt(r, k) /\ RecordedAt(r, k)
    BY <1>2, <2>1 DEF SameLevel, UsedAt, RecordedAt, MgrKeeps
  <2>4. QueuedAt(r, k)
    BY <1>2, <2>1 DEF SameLevel, QueuedAt, Target, MgrKeeps
  <2> QED BY <2>2, <2>3, <2>4 DEF SoundAt
<1> QED BY <1>1, <1>2 DEF Sound

LEMMA LevelsWanted ==
  ASSUME NEW w, Wanted(w), NEW r \in Worlds, MgrKeeps(w.mgr, r.mgr),
         \A k \in Slots : SameLevel(w, r, k) \/ WantedAt(r, k)
  PROVE  Wanted(r)
<1>1. ASSUME NEW k \in Slots, SameLevel(w, r, k) PROVE WantedAt(r, k)
  <2>1. WantedAt(w, k)
    BY DEF Wanted
  <2>2. /\ r.mgr.desired = w.mgr.desired /\ r.mgr.pulled = w.mgr.pulled /\ r.mgr.paused = w.mgr.paused
        /\ Target(r, r.mgr.desired, k) = Target(w, w.mgr.desired, k)
    BY DEF MgrKeeps, Target
  <2> QED BY <1>1, <2>1, <2>2 DEF SameLevel, WantedAt, IsQuote
<1> QED BY <1>1 DEF Wanted

\* What a handler keeps.
Preserves(w, r) == Sound(r) /\ MgrKeeps(w.mgr, r.mgr) /\ (Wanted(w) => Wanted(r))

\* An order that is gone.
LEMMA FreedSound ==
  ASSUME NEW w, Sound(w), NEW h \in Handles, NEW r, r = [w EXCEPT !.orders[h] = Free]
  PROVE  Preserves(w, r) /\ r.orders[h].st = "Free"
<1>1. w \in Worlds /\ MgrKeeps(w.mgr, w.mgr)
  BY WorldFields, MgrSame DEF Sound
<1>2. Free \in OrderRecs /\ Free.st = "Free"
  BY Sizes DEF Free, OrderRecs, None
<1>3. /\ r \in Worlds /\ r.mgr = w.mgr /\ r.slots = w.slots
      /\ r.orders[h] = Free /\ \A g \in Handles \ {h} : r.orders[g] = w.orders[g]
  BY <1>1, <1>2 DEF Worlds
<1>4. ASSUME NEW l \in Slots, NEW g \in Handles, IsQuote(r, g, l)
      PROVE  IsQuote(w, g, l) /\ r.orders[g] = w.orders[g]
  BY <1>2, <1>3, <1>4 DEF IsQuote
<1>5. ASSUME NEW l \in Slots PROVE SoundAt(r, l)
  <2>1. PlacedAt(w, l) /\ UsedAt(w, l) /\ RecordedAt(w, l) /\ QueuedAt(w, l) /\ PulledAt(w, l)
    BY DEF Sound, SoundAt
  <2>2. PlacedAt(r, l) /\ PulledAt(r, l)
    BY <1>3, <1>4, <2>1 DEF PlacedAt, PulledAt
  <2>3. UsedAt(r, l) /\ RecordedAt(r, l) /\ QueuedAt(r, l)
    BY <1>3, <2>1 DEF UsedAt, RecordedAt, QueuedAt, Target
  <2> QED BY <2>2, <2>3 DEF SoundAt
<1>6. ASSUME Wanted(w), NEW l \in Slots PROVE WantedAt(r, l)
  BY <1>3, <1>4, <1>6 DEF Wanted, WantedAt, Target
<1>7. Sound(r)
  BY <1>1, <1>3, <1>5, LevelsKeep
<1>8. Wanted(w) => Wanted(r)
  BY <1>6 DEF Wanted
<1> QED BY <1>1, <1>2, <1>3, <1>7, <1>8 DEF Preserves

LEMMA NewOrderRec ==
  ASSUME NEW px \in Nat, NEW tag \in 0 .. Levels
  PROVE  LET o == [Free EXCEPT !.st = "PendingNew", !.px = px, !.tag = tag]
         IN  o \in OrderRecs /\ o.st = "PendingNew" /\ o.tag = tag
  BY DEF OrderRecs, Pending, None, Free

\* The strategy's own order.
LEMMA HedgeSound ==
  ASSUME NEW w, Sound(w), FreeHandles(w) # {}, NEW r, r = NewOrder(w, 1, None)
  PROVE  Preserves(w, r)
<1> DEFINE o == [Free EXCEPT !.st = "PendingNew", !.px = 1, !.tag = None]
<1>1. w \in Worlds /\ MgrKeeps(w.mgr, w.mgr) /\ w.tokens - 1 \in Int
  BY WorldFields, MgrSame DEF Sound
<1>2. o \in OrderRecs /\ o.tag = None
  <2>1. None \in 0 .. Levels /\ None \in Nat /\ 1 \in Nat
    BY Sizes DEF None
  <2> QED BY <2>1, NewOrderRec
<1>3. PICK g \in Handles : g = Min(FreeHandles(w)) /\ w.orders[g].st = "Free"
  BY <1>1, FreeIsFree
<1>4. r = [w EXCEPT !.orders = [w.orders EXCEPT ![g] = o], !.tokens = w.tokens - 1]
  <2> HIDE DEF o
  <2> QED BY <1>1, <1>3 DEF NewOrder, Worlds, o
<1> HIDE DEF o
<1>5. /\ r \in Worlds /\ r.mgr = w.mgr /\ r.slots = w.slots
      /\ r.orders[g] = o /\ \A h \in Handles \ {g} : r.orders[h] = w.orders[h]
  <2>1. [w.orders EXCEPT ![g] = o] \in [Handles -> OrderRecs]
    BY <1>1, <1>2, WorldFields
  <2>2. r \in Worlds /\ r.mgr = w.mgr /\ r.slots = w.slots /\ r.orders = [w.orders EXCEPT ![g] = o]
    BY <1>1, <1>4, <2>1 DEF Worlds
  <2> QED BY <1>1, <2>2, WorldFields
<1>6. ASSUME NEW k \in Slots PROVE SameLevel(w, r, k)
  <2>1. k # None
    BY Sizes DEF Slots, None
  <2> QED BY <1>2, <1>3, <1>5, <2>1 DEF SameLevel, IsQuote
<1>7. Sound(r)
  BY <1>1, <1>5, <1>6, LevelsKeep
<1>8. Wanted(w) => Wanted(r)
  BY <1>1, <1>5, <1>6, LevelsWanted
<1> QED BY <1>1, <1>5, <1>7, <1>8 DEF Preserves

LEMMA RefusedFacts ==
  ASSUME NEW w \in Worlds, NEW why, NEW r, r = Refused(w, why)
  PROVE  r \in Worlds /\ r.slots = w.slots /\ r.orders = w.orders /\ MgrKeeps(w.mgr, r.mgr)
<1>1. MgrKeeps(w.mgr, w.mgr)
  BY WorldFields, MgrSame
<1> QED BY <1>1, BackOffFacts DEF Refused

LEMMA OnlyMgr ==
  ASSUME NEW w, Sound(w), NEW r \in Worlds, r.slots = w.slots, r.orders = w.orders,
         MgrKeeps(w.mgr, r.mgr)
  PROVE  Preserves(w, r)
<1>1. \A k \in Slots : SameLevel(w, r, k)
  BY DEF SameLevel
<1> QED BY <1>1, LevelsKeep, LevelsWanted DEF Preserves

LEMMA MgrKeepsTwice ==
  ASSUME NEW a, NEW b, NEW c, MgrKeeps(a, b), MgrKeeps(b, c)
  PROVE  MgrKeeps(a, c)
  BY DEF MgrKeeps

\* on_order_update() of an order that ended.
LEMMA EndedSound ==
  ASSUME NEW w0, Sound(w0), NEW chk, NEW l \in 0 .. Levels, NEW why,
         NEW r, r = Ended(w0, chk, l, why)
  PROVE  Preserves(w0, r)
<1>0. w0 \in Worlds /\ MgrKeeps(w0.mgr, w0.mgr)
  BY WorldFields, MgrSame DEF Sound
<1>1. CASE l = None
  BY <1>0, <1>1 DEF Ended, Preserves
<1>2. CASE l # None
  <2>0. l \in Slots
    BY <1>2, Sizes DEF None, Slots
  <2>1. PICK w : w = Refused(w0, why)
    OBVIOUS
  <2>2. w \in Worlds /\ Preserves(w0, w) /\ Sound(w)
    BY <1>0, <2>1, RefusedFacts, OnlyMgr DEF Preserves
  <2>w. SUFFICES Preserves(w, r)
    BY <2>2, MgrKeepsTwice DEF Preserves
  <2>k. w.mgr \in MgrRecs /\ MgrKeeps(w.mgr, w.mgr) /\ w.slots[l] \in SlotRecs
    BY <2>0, <2>2, WorldFields, SlotFields, MgrSame
  <2>3. PICK v : v = [w EXCEPT !.slots[l].handle = None]
    OBVIOUS
  <2>4. PICK u : u = [v EXCEPT !.slots[l].apply = FALSE]
    OBVIOUS
  <2>5. r = IF Owns(w, l) THEN w
            ELSE IF v.mgr.pulled \/ v.mgr.paused \/ ~v.slots[l].apply THEN v
            ELSE IF v.slots[l].want = None \/ v.mgr.held THEN u
            ELSE IF v.mgr.backing THEN KeptBackoff(u, l)
            ELSE SubmitNew(u, chk, l, v.slots[l].want, TRUE)
    BY <1>2, <2>1, <2>3, <2>4 DEF Ended
  <2>6. CASE Owns(w, l)
    BY <2>2, <2>5, <2>6, <2>k DEF Preserves
  <2>7. CASE ~Owns(w, l)
    <3> DEFINE sv == [w.slots[l] EXCEPT !.handle = None]
               su == [sv EXCEPT !.apply = FALSE]
    <3>1. /\ sv \in SlotRecs /\ sv.handle = None /\ sv.apply = w.slots[l].apply
          /\ sv.want = w.slots[l].want /\ sv.waits = w.slots[l].waits
      BY <2>k, Sizes DEF SlotRecs, None
    <3>2. v = PutSlot(w, l, sv)
      BY <2>2, <2>3 DEF PutSlot, Worlds
    <3> HIDE DEF sv
    <3>3. IsPut(w, v, l, sv)
      BY <2>0, <2>2, <3>1, <3>2, SlotSet
    <3>4. su \in SlotRecs /\ su.handle = None /\ ~su.apply /\ su.waits = w.slots[l].waits
      BY <3>1 DEF SlotRecs
    <3>5. v \in Worlds /\ v.slots[l] = sv
      BY <3>3 DEF IsPut
    <3>6. u = PutSlot(v, l, su)
      BY <2>4, <3>5 DEF PutSlot, Worlds
    <3> HIDE DEF su
    <3>7. IsPut(v, u, l, su)
      BY <2>0, <3>4, <3>5, <3>6, SlotSet
    <3>8. /\ v.mgr = w.mgr /\ v.orders = w.orders /\ \A k \in Slots \ {l} : v.slots[k] = w.slots[k]
          /\ u \in Worlds /\ u.mgr = w.mgr /\ u.orders = w.orders /\ u.slots[l] = su
          /\ \A k \in Slots \ {l} : u.slots[k] = w.slots[k]
      BY <3>3, <3>7 DEF IsPut
    <3>9. PlacedAt(w, l) /\ UsedAt(w, l) /\ RecordedAt(w, l) /\ QueuedAt(w, l) /\ PulledAt(w, l)
      BY <2>0, <2>2 DEF Sound, SoundAt
    <3>10. \A h \in Handles : ~IsQuote(w, h, l)
      <4>1. \A h \in Handles : h # None
        BY Sizes DEF Handles, None
      <4> QED BY <2>7, <3>9, <4>1 DEF PlacedAt, IsQuote, Owns
    <3>11. ASSUME r = v \/ r = u PROVE Preserves(w, r)
      <4>1. /\ r \in Worlds /\ r.mgr = w.mgr /\ r.orders = w.orders /\ r.slots[l].handle = None
            /\ r.slots[l].apply => w.slots[l].apply /\ r.slots[l].want = w.slots[l].want
            /\ r.slots[l].waits = w.slots[l].waits /\ \A k \in Slots \ {l} : r.slots[k] = w.slots[k]
        BY <3>1, <3>4, <3>5, <3>8, <3>11
      <4>2. \A h \in Handles : ~IsQuote(r, h, l)
        BY <3>10, <4>1 DEF IsQuote
      <4>3. UsedAt(r, l) /\ RecordedAt(r, l) /\ QueuedAt(r, l)
        BY <3>9, <4>1 DEF UsedAt, RecordedAt, QueuedAt, Target
      <4>4. SoundAt(r, l) /\ WantedAt(r, l)
        BY <4>2, <4>3 DEF SoundAt, PlacedAt, PulledAt, WantedAt
      <4>5. \A k \in Slots \ {l} : SameLevel(w, r, k)
        BY <4>1 DEF SameLevel
      <4>6. Sound(r)
        BY <2>2, <2>k, <4>1, <4>4, <4>5, LevelsKeep
      <4>7. Wanted(w) => Wanted(r)
        BY <2>k, <4>1, <4>4, <4>5, LevelsWanted
      <4> QED BY <2>k, <4>1, <4>6, <4>7 DEF Preserves
    <3>12. CASE ~(r = v \/ r = u)
      <4> DEFINE px == w.slots[l].want
      <4>1. /\ ~w.mgr.pulled /\ ~w.mgr.paused /\ w.slots[l].apply /\ px # None /\ ~w.mgr.held
            /\ r = KeptBackoff(u, l) \/ r = SubmitNew(u, chk, l, px, TRUE)
        BY <2>5, <2>7, <3>1, <3>5, <3>8, <3>12
      <4>2. px \in Nat \ {0}
        BY <2>0, <2>2, <4>1, SlotFields DEF None
      <4>3. u.slots[l].handle = None /\ ~u.slots[l].apply /\ u.slots[l].waits = w.slots[l].waits
        BY <3>4, <3>8
      <4> HIDE DEF px
      <4>4. Towards(u, r, l, px)
        BY <2>0, <3>8, <4>1, <4>2, <4>3, KeptTowards, SubmitTowards
      <4>5. PlacedAt(u, l)
        BY <3>8, <3>10 DEF PlacedAt, IsQuote
      <4>6. Wants(r, l, px)
        BY <2>0, <3>8, <4>4, <4>5, TowardsWants
      <4>7. /\ r \in Worlds /\ MgrKeeps(w.mgr, r.mgr)
            /\ r.slots[l].waits => w.slots[l].waits \/ r.mgr.starved \/ r.mgr.queued
        BY <3>8, <4>3, <4>4 DEF Towards
      <4>8. l <= w.mgr.used /\ l <= Len(w.mgr.desired)
        BY <3>9, <4>1 DEF UsedAt, RecordedAt, px
      <4>9. w.mgr.desired \in Ladders \cup {<<>>} /\ Target(w, w.mgr.desired, l) # None
            /\ w.mgr.desired # <<>>
        <5>1. w.mgr.desired \in Ladders \cup {<<>>}
          BY <2>k, MgrFields
        <5>2. Target(w, w.mgr.desired, l) # None
          BY <2>0, <2>2, <4>1, <4>8, <5>1, TargetFacts
        <5>3. w.mgr.desired # <<>>
          <6>1. l \in Nat /\ l > 0
            BY <2>0, Sizes DEF Slots
          <6> QED BY <4>8, <6>1
        <5> QED BY <5>1, <5>2, <5>3
      <4>10. /\ r.mgr.used = w.mgr.used /\ r.mgr.desired = w.mgr.desired /\ ~r.mgr.pulled
             /\ Target(r, r.mgr.desired, l) # None
        BY <4>1, <4>7, <4>9 DEF MgrKeeps, Target
      <4>11. QueuedAt(r, l)
        BY <3>9, <4>1, <4>7, <4>9 DEF QueuedAt, MgrKeeps
      <4>12. SoundAt(r, l)
        BY <4>6, <4>8, <4>10, <4>11 DEF SoundAt, Wants, UsedAt, RecordedAt, PulledAt
      <4>13. WantedAt(r, l)
        BY <4>9, <4>10 DEF WantedAt
      <4>14. \A k \in Slots \ {l} : SameLevel(w, r, k)
        <5>1. ASSUME NEW k \in Slots \ {l} PROVE SameLevel(w, r, k)
          <6>1. SameLevel(u, r, k)
            BY <2>0, <3>8, <4>4, TowardsOthers
          <6> QED BY <3>8, <6>1 DEF SameLevel, IsQuote
        <5> QED BY <5>1
      <4>15. Sound(r)
        BY <2>2, <4>7, <4>12, <4>14, LevelsKeep
      <4>16. Wanted(w) => Wanted(r)
        BY <4>7, <4>13, <4>14, LevelsWanted
      <4> QED BY <4>7, <4>15, <4>16 DEF Preserves
    <3> QED BY <3>11, <3>12
  <2> QED BY <2>6, <2>7
<1> QED BY <1>1, <1>2

\* What on_order_update() does once the side's backoff is settled.
Answered(prev) == prev \in {"PendingNew", "PendingReplace"}

Settled(v, prev, why) == [v EXCEPT !.mgr.backing = @ /\ ~(Answered(prev) /\ why = "none")]

WorkedOn(w, r, chk, l, prev) ==
  /\ w.mgr.pulled => r = Cancel(w, l)
  /\ ~w.mgr.pulled /\ ~w.mgr.paused /\ w.slots[l].apply /\ Answered(prev) =>
       r = ReconcileSlot([w EXCEPT !.slots[l].apply = FALSE], chk, l,
                         IF w.mgr.held THEN None ELSE w.slots[l].want)
  /\ ~w.mgr.pulled /\ ~(~w.mgr.paused /\ w.slots[l].apply /\ Answered(prev)) => r = w

LEMMA WorkingCases ==
  ASSUME NEW w1, NEW chk, NEW h, NEW prev, NEW why, NEW l, w1.orders[h].tag = l,
         NEW w, w = Settled(Refused(w1, why), prev, why), w.slots[l].handle = h,
         NEW r, r = Working(w1, chk, h, prev, why)
  PROVE  WorkedOn(w, r, chk, l, prev)
<1>1. CASE w.mgr.pulled
  BY <1>1 DEF Working, WorkedOn, Settled, Answered
<1>2. CASE ~w.mgr.pulled /\ ~w.mgr.paused /\ w.slots[l].apply /\ Answered(prev)
  BY <1>2 DEF Working, WorkedOn, Settled, Answered
<1>3. CASE ~w.mgr.pulled /\ ~(~w.mgr.paused /\ w.slots[l].apply /\ Answered(prev))
  BY <1>3 DEF Working, WorkedOn, Settled, Answered
<1> QED BY <1>1, <1>2, <1>3

\* The OMS has the order work at px.
MadeLive(w, h, px, kept) ==
  [w EXCEPT !.orders[h].st = "Live", !.orders[h].px = px, !.orders[h].kept = kept]

\* on_order_update() of an order that works, for the first time or again.
LEMMA WorkingSound ==
  ASSUME NEW w0, Sound(w0), NEW h \in Handles, NEW prev, w0.orders[h].st = prev, prev \in Pending,
         NEW l \in Slots, w0.orders[h].tag = l, NEW px \in Nat, NEW kept \in BOOLEAN,
         prev = "PendingCancel" => kept,
         NEW w1, w1 = MadeLive(w0, h, px, kept),
         NEW chk, NEW why, NEW r, r = Working(w1, chk, h, prev, why)
  PROVE  Preserves(w0, r)
<1> DEFINE o == [w0.orders[h] EXCEPT !.st = "Live", !.px = px, !.kept = kept]
<1>0. w0 \in Worlds /\ w0.orders[h] \in OrderRecs /\ w0.orders \in [Handles -> OrderRecs]
  BY WorldFields, OrderFields DEF Sound
<1>1. o \in OrderRecs /\ o.st = "Live" /\ o.tag = l /\ o.kept = kept
  BY <1>0 DEF OrderRecs
<1>2. w1 = [w0 EXCEPT !.orders = [w0.orders EXCEPT ![h] = o]]
  BY <1>0 DEF MadeLive, Worlds, OrderRecs
<1> HIDE DEF o
<1>3. /\ w1 \in Worlds /\ w1.mgr = w0.mgr /\ w1.slots = w0.slots
      /\ w1.orders[h] = o /\ \A g \in Handles \ {h} : w1.orders[g] = w0.orders[g]
  <2>1. [w0.orders EXCEPT ![h] = o] \in [Handles -> OrderRecs]
    BY <1>0, <1>1
  <2>2. w1 \in Worlds /\ w1.mgr = w0.mgr /\ w1.slots = w0.slots /\ w1.orders = [w0.orders EXCEPT ![h] = o]
    BY <1>0, <1>2, <2>1 DEF Worlds
  <2> QED BY <1>0, <2>2
<1>4. PICK v : v = Refused(w1, why)
  OBVIOUS
<1>5. v \in Worlds /\ v.slots = w1.slots /\ v.orders = w1.orders /\ MgrKeeps(w1.mgr, v.mgr)
  BY <1>3, <1>4, RefusedFacts
<1> DEFINE m == [v.mgr EXCEPT !.backing = @ /\ ~(Answered(prev) /\ why = "none")]
<1>6. v.mgr \in MgrRecs /\ m \in MgrRecs /\ MgrKeeps(w0.mgr, m)
  <2>1. v.mgr \in MgrRecs /\ v.mgr.backing \in BOOLEAN
    BY <1>5, WorldFields, MgrFields
  <2>2. m \in MgrRecs /\ MgrKeeps(v.mgr, m)
    BY <2>1 DEF MgrRecs, MgrKeeps, Answered
  <2> QED BY <1>3, <1>5, <2>1, <2>2, MgrKeepsTwice
<1>7. PICK w : w = [v EXCEPT !.mgr = m]
  OBVIOUS
<1>8. w = Settled(Refused(w1, why), prev, why)
  BY <1>4, <1>5, <1>7 DEF Worlds, Settled
<1> HIDE DEF m
<1>9. w \in Worlds /\ w.mgr = m /\ w.slots = w0.slots /\ w.orders = w1.orders
  BY <1>3, <1>5, <1>6, <1>7 DEF Worlds
<1>10. \A g \in Handles, k \in Slots : IsQuote(w, g, k) <=> IsQuote(w0, g, k)
  BY <1>1, <1>3, <1>9 DEF IsQuote, Pending
<1>11. PlacedAt(w0, l) /\ UsedAt(w0, l) /\ RecordedAt(w0, l) /\ QueuedAt(w0, l) /\ PulledAt(w0, l)
  BY DEF Sound, SoundAt
<1>12. IsQuote(w0, h, l) /\ w0.slots[l].handle = h /\ \A g \in Handles : IsQuote(w0, g, l) => g = h
  BY <1>11 DEF PlacedAt, IsQuote, Pending
<1>13. Owns(w, l) /\ w.slots[l].handle = h /\ l <= w.mgr.used
  <2>1. h # None
    BY Sizes DEF Handles, None
  <2> QED BY <1>6, <1>9, <1>10, <1>11, <1>12, <2>1 DEF Owns, IsQuote, UsedAt, MgrKeeps
<1>14. PlacedAt(w, l)
  BY <1>9, <1>10, <1>12 DEF PlacedAt
<1>15. \A k \in Slots \ {l} : SameLevel(w0, w, k)
  BY <1>1, <1>3, <1>9 DEF SameLevel, IsQuote
<1>16. MgrKeeps(w0.mgr, w.mgr)
  BY <1>6, <1>9
<1>17. WorkedOn(w, r, chk, l, prev)
  <2>1. w1.orders[h].tag = l
    BY <1>1, <1>3
  <2> QED BY <1>8, <1>13, <2>1, WorkingCases
<1>18. CASE w.mgr.pulled
  <2>1. r = Cancel(w, l)
    BY <1>17, <1>18 DEF WorkedOn
  <2>2. /\ r \in Worlds /\ r.mgr = w.mgr /\ r.slots = w.slots
        /\ \A g \in Handles \ {h} : r.orders[g] = w.orders[g]
        /\ r.orders[h].st = "PendingCancel" /\ r.orders[h].tag = l
    BY <1>9, <1>13, <2>1, CancelFacts
  <2>3. \A g \in Handles : IsQuote(r, g, l) => g = h
    BY <1>10, <1>12, <2>2 DEF IsQuote
  <2>4. PlacedAt(r, l) /\ PulledAt(r, l) /\ WantedAt(r, l)
    BY <1>13, <1>18, <2>2, <2>3 DEF PlacedAt, PulledAt, WantedAt
  <2>5. UsedAt(r, l) /\ RecordedAt(r, l) /\ QueuedAt(r, l)
    BY <1>9, <1>11, <1>13, <1>16, <1>18, <2>2 DEF UsedAt, RecordedAt, QueuedAt, MgrKeeps
  <2>6. \A k \in Slots \ {l} : SameLevel(w0, r, k)
    <3>1. ASSUME NEW k \in Slots \ {l} PROVE SameLevel(w, r, k)
      <4>1. w.orders[h].tag = l
        BY <1>1, <1>3, <1>9
      <4> QED BY <2>2, <4>1 DEF SameLevel, IsQuote
    <3> QED BY <1>15, <3>1, SameLevelTwice
  <2>7. SoundAt(r, l)
    BY <2>4, <2>5 DEF SoundAt
  <2> QED BY <1>16, <2>2, <2>4, <2>6, <2>7, LevelsKeep, LevelsWanted DEF Preserves
<1>19. CASE ~w.mgr.pulled /\ ~w.mgr.paused /\ w.slots[l].apply /\ Answered(prev)
  <2> DEFINE t == IF w.mgr.held THEN None ELSE w.slots[l].want
             s == [w.slots[l] EXCEPT !.apply = FALSE]
  <2>1. w.slots[l] \in SlotRecs /\ t \in Nat
    BY <1>9, SlotFields DEF None
  <2>2. s \in SlotRecs /\ s.handle = w.slots[l].handle
    BY <2>1 DEF SlotRecs
  <2>3. PICK u : u = [w EXCEPT !.slots[l].apply = FALSE]
    OBVIOUS
  <2>4. u = PutSlot(w, l, s)
    BY <1>9, <2>3 DEF PutSlot, Worlds
  <2>5. r = ReconcileSlot(u, chk, l, t)
    BY <1>17, <1>19, <2>3 DEF WorkedOn
  <2>n. t # None => ~w.mgr.held /\ l <= Len(w.mgr.desired)
    BY <1>9, <1>11, <1>16, <1>19 DEF RecordedAt, MgrKeeps
  <2> HIDE DEF s, t
  <2>6. IsPut(w, u, l, s)
    BY <1>9, <2>2, <2>4, SlotSet
  <2>7. u \in Worlds /\ u.mgr = w.mgr /\ u.orders = w.orders /\ u.slots[l].handle = w.slots[l].handle
        /\ \A k \in Slots \ {l} : u.slots[k] = w.slots[k]
    BY <2>2, <2>6 DEF IsPut
  <2>8. PlacedAt(u, l)
    BY <1>14, <2>7 DEF PlacedAt, IsQuote
  <2>9. LevelDone(u, r, l, t)
    BY <2>1, <2>5, <2>7, ReconcileSlotDone
  <2>10. /\ r \in Worlds /\ MgrKeeps(w0.mgr, r.mgr) /\ MgrKeeps(w.mgr, r.mgr)
         /\ Wants(r, l, t) /\ WaitsQueued(r, l) /\ (t = None => NoneNew(u, r, l))
    <3>1. /\ r \in Worlds /\ MgrKeeps(w.mgr, r.mgr)
          /\ Wants(r, l, t) /\ WaitsQueued(r, l) /\ (t = None => NoneNew(u, r, l))
      BY <2>7, <2>8, <2>9 DEF LevelDone
    <3> QED BY <1>16, <3>1, MgrKeepsTwice
  <2>11. \A k \in Slots \ {l} : SameLevel(w0, r, k)
    <3>1. ASSUME NEW k \in Slots \ {l} PROVE SameLevel(w, r, k)
      <4>1. SameLevel(u, r, k)
        BY <2>9 DEF LevelDone
      <4> QED BY <2>7, <4>1 DEF SameLevel, IsQuote
    <3> QED BY <1>15, <3>1, SameLevelTwice
  <2>12. /\ r.mgr.used = w.mgr.used /\ r.mgr.desired = w.mgr.desired /\ ~r.mgr.pulled
         /\ r.mgr.held = w.mgr.held
    BY <1>19, <2>10 DEF MgrKeeps
  <2>13. SoundAt(r, l)
    <3>1. UsedAt(r, l)
      BY <1>13, <2>12 DEF UsedAt
    <3>2. RecordedAt(r, l)
      BY <2>10, <2>12, <2>n DEF RecordedAt, Wants
    <3> QED BY <2>10, <2>12, <3>1, <3>2 DEF SoundAt, QueuedAt, WaitsQueued, Wants, PulledAt
  <2>14. ASSUME Wanted(w0) PROVE WantedAt(r, l)
    <3>1. w.mgr.desired # <<>>
      <4>1. WantedAt(w0, l)
        BY <2>14 DEF Wanted
      <4> QED BY <1>12, <1>16, <1>19, <4>1 DEF WantedAt, MgrKeeps
    <3>2. t # None => Target(r, r.mgr.desired, l) # None
      <4>1. r.mgr.desired \in Ladders \cup {<<>>}
        BY <2>10, WorldFields, MgrFields
      <4> QED BY <2>10, <2>12, <2>n, <4>1, TargetFacts
    <3> QED BY <2>10, <2>12, <3>1, <3>2 DEF WantedAt, Wants
  <2> QED BY <2>10, <2>11, <2>13, <2>14, LevelsKeep, LevelsWanted DEF Preserves
<1>20. CASE ~w.mgr.pulled /\ ~(~w.mgr.paused /\ w.slots[l].apply /\ Answered(prev))
  <2>1. r = w
    BY <1>17, <1>20 DEF WorkedOn
  <2>2. UsedAt(w, l) /\ RecordedAt(w, l) /\ QueuedAt(w, l) /\ PulledAt(w, l)
    BY <1>9, <1>11, <1>16, <1>20 DEF UsedAt, RecordedAt, QueuedAt, PulledAt, Target, MgrKeeps
  <2>3. SoundAt(w, l)
    BY <1>14, <2>2 DEF SoundAt
  <2>4. ASSUME Wanted(w0) PROVE WantedAt(w, l)
    <3>1. WantedAt(w0, l)
      BY <2>4 DEF Wanted
    <3>2. /\ w.mgr.desired = w0.mgr.desired /\ w.mgr.pulled = w0.mgr.pulled
          /\ w.mgr.paused = w0.mgr.paused
          /\ Target(w, w.mgr.desired, l) = Target(w0, w0.mgr.desired, l)
      BY <1>16 DEF MgrKeeps, Target
    <3>3. \A g \in Handles : IsQuote(w, g, l) => g = h
      BY <1>10, <1>12
    <3>4. w.orders[h].st = "Live" /\ w.orders[h].kept = kept
      BY <1>1, <1>3, <1>9
    <3>5. w.mgr.desired # <<>>
      BY <1>12, <1>20, <3>1, <3>2 DEF WantedAt
    <3>6. ASSUME ~w.mgr.paused, Target(w, w.mgr.desired, l) = None PROVE kept
      <4>1. CASE prev = "PendingCancel"
        BY <4>1
      <4>2. CASE prev # "PendingCancel"
        <5>1. Answered(prev)
          BY <4>2 DEF Pending, Answered
        <5>2. w0.slots[l].apply
          BY <1>12, <1>20, <3>1, <3>2, <3>6, <5>1 DEF WantedAt, Answered
        <5> QED BY <1>9, <1>20, <3>6, <5>1, <5>2
      <4> QED BY <4>1, <4>2
    <3> QED BY <3>3, <3>4, <3>5, <3>6 DEF WantedAt
  <2> QED BY <1>9, <1>15, <1>16, <2>1, <2>3, <2>4, LevelsKeep, LevelsWanted DEF Preserves
<1> QED BY <1>18, <1>19, <1>20

\* An order of the strategy's own that works.
LEMMA OwnOrderSound ==
  ASSUME NEW w, Sound(w), NEW h \in Handles, w.orders[h].tag = None, NEW px \in Nat,
         NEW kept \in BOOLEAN,
         NEW r, r = MadeLive(w, h, px, kept)
  PROVE  Preserves(w, r)
<1> DEFINE o == [w.orders[h] EXCEPT !.st = "Live", !.px = px, !.kept = kept]
<1>0. /\ w \in Worlds /\ w.orders[h] \in OrderRecs /\ w.orders \in [Handles -> OrderRecs]
      /\ MgrKeeps(w.mgr, w.mgr)
  BY WorldFields, OrderFields, MgrSame DEF Sound
<1>1. o \in OrderRecs /\ o.tag = None
  BY <1>0 DEF OrderRecs
<1>2. r = [w EXCEPT !.orders = [w.orders EXCEPT ![h] = o]]
  BY <1>0 DEF MadeLive, Worlds, OrderRecs
<1> HIDE DEF o
<1>3. /\ r \in Worlds /\ r.mgr = w.mgr /\ r.slots = w.slots
      /\ r.orders[h] = o /\ \A g \in Handles \ {h} : r.orders[g] = w.orders[g]
  <2>1. [w.orders EXCEPT ![h] = o] \in [Handles -> OrderRecs]
    BY <1>0, <1>1
  <2>2. r \in Worlds /\ r.mgr = w.mgr /\ r.slots = w.slots /\ r.orders = [w.orders EXCEPT ![h] = o]
    BY <1>0, <1>2, <2>1 DEF Worlds
  <2> QED BY <1>0, <2>2
<1>4. ASSUME NEW k \in Slots PROVE SameLevel(w, r, k)
  <2>1. k # None
    BY Sizes DEF Slots, None
  <2> QED BY <1>1, <1>3, <2>1 DEF SameLevel, IsQuote
<1> QED BY <1>0, <1>3, <1>4, LevelsKeep, LevelsWanted DEF Preserves

\* The requote interval passes.
NoneRecent(w) == [w EXCEPT !.slots = [l \in Slots |-> [w.slots[l] EXCEPT !.recent = FALSE]]]

LEMMA IntervalSound ==
  ASSUME NEW w, Sound(w), NEW r, r = NoneRecent(w)
  PROVE  Preserves(w, r)
<1> DEFINE ss == [l \in Slots |-> [w.slots[l] EXCEPT !.recent = FALSE]]
<1>1. w \in Worlds /\ MgrKeeps(w.mgr, w.mgr)
  BY WorldFields, MgrSame DEF Sound
<1>2. /\ ss \in [Slots -> SlotRecs]
      /\ \A l \in Slots : /\ ss[l].handle = w.slots[l].handle /\ ss[l].want = w.slots[l].want
                          /\ ss[l].apply = w.slots[l].apply /\ ss[l].waits = w.slots[l].waits
  <2>1. ASSUME NEW l \in Slots
        PROVE  /\ ss[l] \in SlotRecs
               /\ ss[l].handle = w.slots[l].handle /\ ss[l].want = w.slots[l].want
               /\ ss[l].apply = w.slots[l].apply /\ ss[l].waits = w.slots[l].waits
    <3>1. w.slots[l] \in SlotRecs
      BY <1>1, SlotFields
    <3> QED BY <3>1 DEF SlotRecs
  <2> QED BY <2>1
<1>3. r = [w EXCEPT !.slots = ss]
  BY DEF NoneRecent
<1> HIDE DEF ss
<1>4. r \in Worlds /\ r.mgr = w.mgr /\ r.orders = w.orders /\ r.slots = ss
  BY <1>1, <1>2, <1>3 DEF Worlds
<1>5. \A l \in Slots : SoundAt(r, l)
  <2>1. ASSUME NEW l \in Slots PROVE SoundAt(r, l)
    <3>1. PlacedAt(w, l) /\ UsedAt(w, l) /\ RecordedAt(w, l) /\ QueuedAt(w, l) /\ PulledAt(w, l)
      BY DEF Sound, SoundAt
    <3>2. PlacedAt(r, l) /\ PulledAt(r, l)
      BY <1>2, <1>4, <3>1 DEF PlacedAt, PulledAt, IsQuote
    <3>3. UsedAt(r, l) /\ RecordedAt(r, l) /\ QueuedAt(r, l)
      BY <1>2, <1>4, <3>1 DEF UsedAt, RecordedAt, QueuedAt, Target
    <3> QED BY <3>2, <3>3 DEF SoundAt
  <2> QED BY <2>1
<1>6. Wanted(w) => \A l \in Slots : WantedAt(r, l)
  BY <1>2, <1>4 DEF Wanted, WantedAt, IsQuote, Target
<1> QED BY <1>1, <1>4, <1>5, <1>6, LevelsKeep DEF Preserves, Wanted

-----------------------------------------------------------------------------
(***************************************************************************)
(* The steps.                                                              *)
(***************************************************************************)

\* What every step keeps.  Wanted is not kept by set_quotes() with a ladder without quotes: the
\* target recorded for an order that awaits its ack is dropped by a pause, which has no ladder to keep.
Kept == QuotesInv' /\ (<<>> \notin Ladders /\ Wanted(World) => Wanted(World)')

\* A handler that leaves the world r behind.
LEMMA LeavesWorld ==
  ASSUME NEW r \in Worlds, Leaves(r)
  PROVE  World' = r /\ mgr' = r.mgr
  BY DEF Worlds, Leaves, World

LEMMA StepKept ==
  ASSUME NEW r, Sound(r), Leaves(r), EngineSound',
         <<>> \notin Ladders /\ Wanted(World) => Wanted(r)
  PROVE  Kept
<1>1. World' = r
  BY LeavesWorld DEF Sound
<1> QED BY <1>1 DEF Kept, QuotesInv

LEMMA PreservesKept ==
  ASSUME QuotesInv, NEW r, Preserves(World, r), Leaves(r), eng' = eng
  PROVE  Kept
<1>1. World.mgr = mgr
  BY DEF World
<1>2. mgr' = r.mgr /\ r.mgr.pulled = mgr.pulled /\ r.mgr.paused = mgr.paused
  BY <1>1 DEF Leaves, Preserves, MgrKeeps
<1>3. EngineSound'
  BY <1>2 DEF QuotesInv, EngineSound
<1> QED BY <1>3, StepKept DEF Preserves

LEMMA SetQuotesStep == ASSUME QuotesInv, SetQuotes PROVE Kept
<1>1. PICK d \in Ladders, chk \in Checks : Leaves(ReconcileQuotes(World, chk, d))
  BY DEF SetQuotes
<1>2. PICK r : r = ReconcileQuotes(World, chk, d)
  OBVIOUS
<1>3. Tidy(World) /\ d \in Ladders \cup {<<>>}
  BY SoundIsTidy DEF QuotesInv
<1>4. Sound(r) /\ ~r.mgr.pulled /\ ~r.mgr.paused /\ (d # <<>> => Wanted(r))
  BY <1>2, <1>3, ReconcileQuotesSound
<1>5. <<>> \notin Ladders => d # <<>>
  OBVIOUS
<1>6. EngineSound'
  BY DEF SetQuotes, QuotesInv, EngineSound, QuotingEnabled
<1> QED BY <1>1, <1>2, <1>4, <1>5, <1>6, StepKept

LEMMA PullStep == ASSUME QuotesInv, Pull \/ OperatorPulls PROVE Kept
<1>1. PICK r : r = PullQuotes(World, FALSE)
  OBVIOUS
<1>2. Sound(r) /\ Wanted(r) /\ r.mgr.pulled
  BY <1>1, PullSound DEF QuotesInv
<1>3. Leaves(r) /\ mgr' = r.mgr
  BY <1>1 DEF Pull, OperatorPulls, Leaves
<1>4. eng' \in [enabled : BOOLEAN, reconciling : BOOLEAN, over : BOOLEAN]
  BY DEF Pull, OperatorPulls, QuotesInv, EngineSound
<1>5. EngineSound'
  BY <1>2, <1>3, <1>4 DEF EngineSound
<1> QED BY <1>2, <1>3, <1>5, StepKept

LEMMA OperatorResumesStep == ASSUME QuotesInv, OperatorResumes PROVE Kept
<1>1. Leaves(World)
  BY DEF OperatorResumes, Leaves, World
<1>2. EngineSound'
  BY DEF OperatorResumes, QuotesInv, EngineSound
<1> QED BY <1>1, <1>2, StepKept DEF QuotesInv

LEMMA ReconcileBeginStep == ASSUME QuotesInv, ReconcileBegin PROVE Kept
<1>1. PICK r : r = PauseQuotes(World)
  OBVIOUS
<1>2. Sound(r) /\ (Wanted(World) => Wanted(r)) /\ r.mgr.paused /\ r.mgr.pulled = mgr.pulled
  BY <1>1, PauseQuotesSound DEF QuotesInv, World
<1>3. Leaves(r) /\ mgr' = r.mgr
  BY <1>1 DEF ReconcileBegin, Leaves
<1>4. eng' = [eng EXCEPT !.reconciling = TRUE, !.over = FALSE]
  BY DEF ReconcileBegin
<1>5. EngineSound'
  BY <1>2, <1>3, <1>4 DEF QuotesInv, EngineSound
<1> QED BY <1>2, <1>3, <1>5, StepKept

LEMMA HoldOverStep == ASSUME QuotesInv, HoldOver PROVE Kept
<1>1. PICK r : r = IF mgr.paused THEN PullQuotes(World, TRUE) ELSE World
  OBVIOUS
<1>2. Leaves(r) /\ mgr' = r.mgr /\ eng' = [eng EXCEPT !.over = TRUE]
  BY <1>1 DEF HoldOver, Leaves
<1>3. CASE mgr.paused
  <2>1. Sound(r) /\ Wanted(r) /\ r.mgr.pulled
    BY <1>1, <1>3, PullSound DEF QuotesInv
  <2>2. EngineSound'
    BY <1>2, <2>1 DEF QuotesInv, EngineSound
  <2> QED BY <1>2, <2>1, <2>2, StepKept
<1>4. CASE ~mgr.paused
  <2>1. r = World
    BY <1>1, <1>4
  <2>2. r.mgr = mgr
    BY <2>1 DEF World
  <2>3. EngineSound'
    BY <1>2, <2>2 DEF QuotesInv, EngineSound
  <2> QED BY <1>2, <2>1, <2>3, StepKept DEF QuotesInv
<1> QED BY <1>3, <1>4

LEMMA ReconcileEndStep == ASSUME QuotesInv, ReconcileEnd PROVE Kept
<1>1. PICK valid \in BOOLEAN, chk \in Checks :
        Leaves(IF mgr.resumable /\ ~(eng.enabled /\ valid) THEN PullQuotes(World, FALSE)
               ELSE Resume(World, chk))
  BY DEF ReconcileEnd
<1>2. eng' = [eng EXCEPT !.reconciling = FALSE] /\ World.mgr = mgr
  BY DEF ReconcileEnd, World
<1>3. CASE mgr.resumable /\ ~(eng.enabled /\ valid)
  <2>1. PICK r : r = PullQuotes(World, FALSE)
    OBVIOUS
  <2>2. Sound(r) /\ Wanted(r) /\ r.mgr.pulled
    BY <2>1, PullSound DEF QuotesInv
  <2>3. Leaves(r) /\ mgr' = r.mgr
    BY <1>1, <1>3, <2>1 DEF Leaves
  <2>4. EngineSound'
    BY <1>2, <2>2, <2>3 DEF QuotesInv, EngineSound
  <2> QED BY <2>2, <2>3, <2>4, StepKept
<1>4. CASE ~(mgr.resumable /\ ~(eng.enabled /\ valid))
  <2>1. PICK r : r = Resume(World, chk)
    OBVIOUS
  <2>2. /\ Sound(r) /\ (Wanted(World) => Wanted(r))
        /\ ~mgr.resumable => r.mgr.pulled = mgr.pulled
    BY <1>2, <2>1, ResumeSound DEF QuotesInv
  <2>3. Leaves(r) /\ mgr' = r.mgr
    BY <1>1, <1>4, <2>1 DEF Leaves
  <2>4. EngineSound'
    BY <1>2, <1>4, <2>2, <2>3 DEF QuotesInv, EngineSound
  <2> QED BY <2>2, <2>3, <2>4, StepKept
<1> QED BY <1>3, <1>4

LEMMA HoldSideStep == ASSUME QuotesInv, HoldSide PROVE Kept
<1>1. PICK r : r = HeldSide(World)
  OBVIOUS
<1>2. /\ Sound(r) /\ (Wanted(World) => Wanted(r))
      /\ r.mgr.pulled = mgr.pulled /\ r.mgr.paused = mgr.paused
  BY <1>1, HeldSideSound DEF QuotesInv, World
<1>3. Leaves(r) /\ mgr' = r.mgr /\ eng' = eng
  BY <1>1 DEF HoldSide, Leaves
<1>4. EngineSound'
  BY <1>2, <1>3 DEF QuotesInv, EngineSound
<1> QED BY <1>2, <1>3, <1>4, StepKept

\* A retry, or nothing where the engine may not quote: u is a world just taken off a queue.
LEMMA RetryKept ==
  ASSUME QuotesInv, NEW u \in Worlds, u.slots = slots, u.orders = orders, u.mgr.used = mgr.used,
         u.mgr.desired = mgr.desired, u.mgr.pulled = mgr.pulled, u.mgr.paused = mgr.paused,
         u.mgr.resumable = mgr.resumable, NEW chk, NEW r, Leaves(r), eng' = eng,
         r = Retry(u, chk) \/ (r = u /\ (~QuotingEnabled \/ mgr.desired = <<>>))
  PROVE  Kept
<1>1. Queueless(u) /\ (Wanted(World) => LadderWanted(u))
  <2>1. World.slots = slots /\ World.orders = orders /\ World.mgr = mgr
    BY DEF World
  <2> QED BY <2>1, QueuelessFrom DEF QuotesInv
<1>2. /\ Sound(r) /\ (LadderWanted(u) => Wanted(r))
      /\ r.mgr.pulled = mgr.pulled /\ r.mgr.paused = mgr.paused
  <2>1. CASE r = Retry(u, chk)
    BY <1>1, <2>1, RetrySound
  <2>2. CASE r = u /\ (~QuotingEnabled \/ mgr.desired = <<>>)
    <3>1. u.mgr.pulled \/ u.mgr.paused \/ u.mgr.desired = <<>>
      BY <2>2 DEF QuotingEnabled, QuotesInv, EngineSound
    <3> QED BY <1>1, <2>2, <3>1, IdleSound
  <2> QED BY <2>1, <2>2
<1>3. mgr' = r.mgr
  BY DEF Leaves
<1>4. EngineSound'
  BY <1>2, <1>3 DEF QuotesInv, EngineSound
<1> QED BY <1>1, <1>2, <1>4, StepKept

\* A world that differs from the one of the state in the manager's flags.
LEMMA MgrSet ==
  ASSUME QuotesInv, NEW m \in MgrRecs, NEW n \in Int
  PROVE  /\ [World EXCEPT !.mgr = m, !.tokens = n] \in Worlds
         /\ [World EXCEPT !.mgr = m, !.tokens = n].slots = slots
         /\ [World EXCEPT !.mgr = m, !.tokens = n].orders = orders
         /\ [World EXCEPT !.mgr = m, !.tokens = n].mgr = m
<1>1. World \in Worlds
  BY DEF QuotesInv, Sound
<1>2. World.slots = slots /\ World.orders = orders
  BY DEF World
<1> HIDE DEF World
<1> QED BY <1>1, <1>2 DEF Worlds

LEMMA StateTyped ==
  ASSUME QuotesInv
  PROVE  World \in Worlds /\ World.mgr = mgr /\ mgr \in MgrRecs /\ World.tokens = tokens
         /\ tokens \in Int /\ World.orders = orders /\ World.slots = slots
  BY WorldFields DEF QuotesInv, Sound, World

LEMMA LiftSideStep == ASSUME QuotesInv, LiftSide PROVE Kept
<1> DEFINE m == [mgr EXCEPT !.held = FALSE]
<1>1. PICK chk \in Checks :
        Leaves(IF QuotingEnabled THEN Reapply([World EXCEPT !.mgr.held = FALSE], chk)
               ELSE [World EXCEPT !.mgr.held = FALSE])
  BY DEF LiftSide
<1>2. PICK u : u = [World EXCEPT !.mgr = m, !.tokens = tokens]
  OBVIOUS
<1>3. u = [World EXCEPT !.mgr.held = FALSE]
  BY <1>2, StateTyped DEF Worlds
<1>4. m \in MgrRecs /\ m.used = mgr.used /\ m.desired = mgr.desired /\ m.pulled = mgr.pulled
      /\ m.paused = mgr.paused /\ m.resumable = mgr.resumable
  BY StateTyped DEF MgrRecs
<1> HIDE DEF m
<1>5. u \in Worlds /\ u.slots = slots /\ u.orders = orders /\ u.mgr = m
  BY <1>2, <1>4, MgrSet, StateTyped
<1>6. PICK r : r = IF QuotingEnabled THEN Reapply(u, chk) ELSE u
  OBVIOUS
<1>7. r = Retry(u, chk) \/ (r = u /\ (~QuotingEnabled \/ mgr.desired = <<>>))
  BY <1>4, <1>5, <1>6 DEF Reapply, QuotingEnabled
<1>8. Leaves(r) /\ eng' = eng
  BY <1>1, <1>3, <1>6 DEF LiftSide
<1> QED BY <1>4, <1>5, <1>7, <1>8, RetryKept

LEMMA BackoffDueStep == ASSUME QuotesInv, BackoffDue PROVE Kept
<1>1. PICK over \in {TRUE} \cup {~mgr.early}, chk \in Checks : Leaves(BackoffRetry(World, chk, over))
  BY DEF BackoffDue
<1> DEFINE m == [mgr EXCEPT !.queued = FALSE, !.early = FALSE, !.backing = @ /\ ~over]
<1>2. PICK u : u = [World EXCEPT !.mgr = m, !.tokens = tokens]
  OBVIOUS
<1>3. u = [World EXCEPT !.mgr.queued = FALSE, !.mgr.early = FALSE, !.mgr.backing = @ /\ ~over]
  BY <1>2, StateTyped DEF Worlds
<1>4. m \in MgrRecs /\ m.used = mgr.used /\ m.desired = mgr.desired /\ m.pulled = mgr.pulled
      /\ m.paused = mgr.paused /\ m.resumable = mgr.resumable
  BY StateTyped DEF MgrRecs
<1> HIDE DEF m
<1>5. u \in Worlds /\ u.slots = slots /\ u.orders = orders /\ u.mgr = m
  BY <1>2, <1>4, MgrSet, StateTyped
<1>6. PICK r : r = IF QuotingEnabled THEN Retry(u, chk) ELSE u
  OBVIOUS
<1>7. r = Retry(u, chk) \/ (r = u /\ (~QuotingEnabled \/ mgr.desired = <<>>))
  BY <1>6 DEF QuotingEnabled
<1>8. Leaves(r) /\ eng' = eng
  BY <1>1, <1>3, <1>6 DEF BackoffDue, BackoffRetry
<1> QED BY <1>4, <1>5, <1>7, <1>8, RetryKept

LEMMA TokensComeBackStep == ASSUME QuotesInv, TokensComeBack PROVE Kept
<1>1. PICK n \in tokens + 1 .. MaxTokens, chk \in Checks :
        Leaves(IF mgr.starved /\ QuotingEnabled
               THEN Retry([World EXCEPT !.tokens = n, !.mgr.starved = FALSE], chk)
               ELSE [World EXCEPT !.tokens = n, !.mgr.starved = FALSE])
  BY DEF TokensComeBack
<1> DEFINE m == [mgr EXCEPT !.starved = FALSE]
<1>t. n \in Int
  BY StateTyped, Sizes
<1>2. PICK u : u = [World EXCEPT !.mgr = m, !.tokens = n]
  OBVIOUS
<1>3. u = [World EXCEPT !.tokens = n, !.mgr.starved = FALSE]
  BY <1>2 DEF World
<1>4. m \in MgrRecs /\ m.used = mgr.used /\ m.desired = mgr.desired /\ m.pulled = mgr.pulled
      /\ m.paused = mgr.paused /\ m.resumable = mgr.resumable
      /\ (~mgr.starved => MgrKeeps(mgr, m))
  BY StateTyped DEF MgrRecs, MgrKeeps
<1> HIDE DEF m
<1>5. u \in Worlds /\ u.slots = slots /\ u.orders = orders /\ u.mgr = m
  BY <1>2, <1>4, <1>t, MgrSet
<1>6. PICK r : r = IF mgr.starved /\ QuotingEnabled THEN Retry(u, chk) ELSE u
  OBVIOUS
<1>8. Leaves(r) /\ eng' = eng
  BY <1>1, <1>3, <1>6 DEF TokensComeBack
<1>9. CASE mgr.starved \/ ~QuotingEnabled
  <2>1. r = Retry(u, chk) \/ (r = u /\ (~QuotingEnabled \/ mgr.desired = <<>>))
    BY <1>6, <1>9 DEF QuotingEnabled
  <2> QED BY <1>4, <1>5, <1>8, <2>1, RetryKept
<1>10. CASE ~(mgr.starved \/ ~QuotingEnabled)
  <2>1. r = u /\ MgrKeeps(World.mgr, r.mgr)
    BY <1>4, <1>5, <1>6, <1>10, StateTyped
  <2>2. Preserves(World, r)
    BY <1>5, <2>1, OnlyMgr, StateTyped DEF QuotesInv
  <2> QED BY <1>8, <2>2, PreservesKept
<1> QED BY <1>9, <1>10

LEMMA BackoffEndsStep == ASSUME QuotesInv, BackoffEnds PROVE Kept
<1> DEFINE m == [mgr EXCEPT !.backing = FALSE]
<1>1. m \in MgrRecs /\ MgrKeeps(mgr, m) /\ mgr' = m
  BY StateTyped DEF MgrRecs, MgrKeeps, BackoffEnds
<1> HIDE DEF m
<1>2. PICK r : r = [World EXCEPT !.mgr = m, !.tokens = tokens]
  OBVIOUS
<1>3. r \in Worlds /\ r.slots = slots /\ r.orders = orders /\ r.mgr = m
  BY <1>1, <1>2, MgrSet, StateTyped
<1>4. r.tokens = tokens
  BY <1>2 DEF World
<1>5. Leaves(r) /\ eng' = eng
  BY <1>1, <1>3, <1>4 DEF Leaves, BackoffEnds
<1>6. Preserves(World, r)
  BY <1>1, <1>3, OnlyMgr, StateTyped DEF QuotesInv
<1> QED BY <1>5, <1>6, PreservesKept

LEMMA IntervalPassesStep == ASSUME QuotesInv, IntervalPasses PROVE Kept
<1>1. PICK r : r = NoneRecent(World)
  OBVIOUS
<1>2. Preserves(World, r)
  BY <1>1, IntervalSound DEF QuotesInv
<1>3. Leaves(r) /\ eng' = eng
  BY <1>1 DEF NoneRecent, IntervalPasses, Leaves, World
<1> QED BY <1>2, <1>3, PreservesKept

\* An order that works, for the first time or again.
LEMMA WorksPreserves ==
  ASSUME QuotesInv, NEW h \in Handles, orders[h].st \in Pending, NEW px \in Nat,
         NEW kept \in BOOLEAN, orders[h].st = "PendingCancel" => kept, NEW why, NEW chk,
         NEW r, r = Works(h, px, kept, why, chk)
  PROVE  Preserves(World, r)
<1>1. PICK w1 : w1 = MadeLive(World, h, px, kept)
  OBVIOUS
<1>2. r = IF orders[h].tag = None THEN w1 ELSE Working(w1, chk, h, orders[h].st, why)
  BY <1>1 DEF Works, MadeLive
<1>3. Sound(World) /\ World.orders = orders /\ orders[h].tag \in 0 .. Levels
  BY OrderFields, StateTyped DEF QuotesInv
<1>4. CASE orders[h].tag = None
  <2>1. r = w1 /\ World.orders[h].tag = None
    BY <1>2, <1>3, <1>4
  <2> QED BY <1>1, <1>3, <2>1, OwnOrderSound
<1>5. CASE orders[h].tag # None
  <2>1. PICK l \in Slots : orders[h].tag = l
    BY <1>3, <1>5, Sizes DEF None, Slots
  <2>2. PICK prev : prev = orders[h].st
    OBVIOUS
  <2>3. r = Working(w1, chk, h, prev, why)
    BY <1>2, <1>5, <2>2
  <2>4. World.orders[h].st = prev /\ prev \in Pending /\ World.orders[h].tag = l
        /\ (prev = "PendingCancel" => kept)
    BY <1>3, <2>1, <2>2
  <2> QED BY <1>1, <1>3, <2>3, <2>4, WorkingSound
<1> QED BY <1>4, <1>5

LEMMA AckStep == ASSUME QuotesInv, NEW h \in Handles, Ack(h) PROVE Kept
<1> DEFINE px == IF orders[h].st = "PendingNew" THEN orders[h].px ELSE orders[h].next
<1>1. PICK chk \in Checks : Leaves(Works(h, px, FALSE, "none", chk))
  BY DEF Ack
<1>2. PICK r : r = Works(h, px, FALSE, "none", chk)
  OBVIOUS
<1>3. orders[h].st \in {"PendingNew", "PendingReplace"} /\ eng' = eng
  BY DEF Ack
<1>4. px \in Nat
  BY OrderFields, StateTyped
<1> HIDE DEF px
<1>5. Preserves(World, r)
  BY <1>2, <1>3, <1>4, WorksPreserves DEF Pending
<1> QED BY <1>1, <1>2, <1>3, <1>5, PreservesKept

LEMMA StillWorksStep == ASSUME QuotesInv, NEW h \in Handles, StillWorks(h) PROVE Kept
<1>1. PICK chk \in Checks, why \in Refusals :
        Leaves(Works(h, orders[h].px, orders[h].st = "PendingCancel", why, chk))
  BY DEF StillWorks, Refusals
<1>2. PICK r : r = Works(h, orders[h].px, orders[h].st = "PendingCancel", why, chk)
  OBVIOUS
<1>3. orders[h].st \in {"PendingCancel", "PendingReplace"} /\ eng' = eng
  BY DEF StillWorks, Refusals
<1>4. orders[h].px \in Nat /\ (orders[h].st = "PendingCancel") \in BOOLEAN
  BY OrderFields, StateTyped
<1>5. Preserves(World, r)
  BY <1>2, <1>3, <1>4, WorksPreserves DEF Pending
<1> QED BY <1>1, <1>2, <1>3, <1>5, PreservesKept

LEMMA OrderEndsStep == ASSUME QuotesInv, NEW h \in Handles, OrderEnds(h) PROVE Kept
<1>1. PICK chk \in Checks, why \in Refusals :
        Leaves(Ended([World EXCEPT !.orders[h] = Free], chk, orders[h].tag, why))
  BY DEF OrderEnds, Refusals
<1>2. PICK w : w = [World EXCEPT !.orders[h] = Free]
  OBVIOUS
<1>3. PICK r : r = Ended(w, chk, orders[h].tag, why)
  OBVIOUS
<1>4. Preserves(World, w)
  BY <1>2, FreedSound DEF QuotesInv
<1>5. orders[h].tag \in 0 .. Levels /\ eng' = eng
  BY OrderFields, StateTyped DEF OrderEnds
<1>6. Preserves(w, r)
  BY <1>3, <1>4, <1>5, EndedSound DEF Preserves
<1>7. Preserves(World, r)
  BY <1>4, <1>6, MgrKeepsTwice DEF Preserves
<1>8. Leaves(r)
  BY <1>1, <1>2, <1>3
<1> QED BY <1>5, <1>7, <1>8, PreservesKept

\* What the hooks of a fill leave: sound, and where the engine may not quote nothing is put back.
LEMMA HooksSound ==
  ASSUME NEW w, Sound(w), NEW h \in Handles, w.orders[h].st = "Free", NEW chk,
         NEW v \in FillHooks(w, chk)
  PROVE  /\ Sound(v) /\ (<<>> \notin Ladders /\ Wanted(w) => Wanted(v))
         /\ ~QuotingEnabled => v.mgr.pulled = w.mgr.pulled /\ v.mgr.paused = w.mgr.paused
<1>1. \/ v = w
      \/ v = HeldSide(w)
      \/ QuotingEnabled /\ \E d \in Ladders : v = ReconcileQuotes(w, chk, d)
      \/ v = NewOrder(w, 1, None)
  BY DEF FillHooks, QuotingEnabled
<1>2. CASE v = w
  BY <1>2
<1>3. CASE v = HeldSide(w)
  BY <1>3, HeldSideSound
<1>4. CASE QuotingEnabled /\ \E d \in Ladders : v = ReconcileQuotes(w, chk, d)
  <2>1. PICK d \in Ladders : v = ReconcileQuotes(w, chk, d)
    BY <1>4
  <2>2. Tidy(w) /\ d \in Ladders \cup {<<>>} /\ (<<>> \notin Ladders => d # <<>>)
    BY SoundIsTidy
  <2>3. Sound(v) /\ (d # <<>> => Wanted(v))
    BY <2>1, <2>2, ReconcileQuotesSound
  <2> QED BY <1>4, <2>2, <2>3
<1>5. CASE v = NewOrder(w, 1, None)
  <2>1. FreeHandles(w) # {}
    BY DEF FreeHandles
  <2> QED BY <1>5, <2>1, HedgeSound DEF Preserves, MgrKeeps
<1> QED BY <1>1, <1>2, <1>3, <1>4, <1>5

LEMMA FilledStep == ASSUME QuotesInv, NEW h \in Handles, Filled(h) PROVE Kept
<1>1. PICK chk \in Checks : \E v \in FillHooks([World EXCEPT !.orders[h] = Free], chk) :
                               Leaves(Ended(v, chk, orders[h].tag, "none"))
  BY DEF Filled
<1>2. PICK w : w = [World EXCEPT !.orders[h] = Free]
  OBVIOUS
<1>3. PICK v \in FillHooks(w, chk) : Leaves(Ended(v, chk, orders[h].tag, "none"))
  BY <1>1, <1>2
<1>4. PICK r : r = Ended(v, chk, orders[h].tag, "none")
  OBVIOUS
<1>5. Preserves(World, w) /\ w.orders[h].st = "Free" /\ Sound(w)
  <2>1. Preserves(World, w) /\ w.orders[h].st = "Free"
    BY <1>2, FreedSound DEF QuotesInv
  <2> QED BY <2>1 DEF Preserves
<1>6. orders[h].tag \in 0 .. Levels /\ eng' = eng
  BY OrderFields, StateTyped DEF Filled
<1>7. /\ Sound(v) /\ (<<>> \notin Ladders /\ Wanted(w) => Wanted(v))
      /\ ~QuotingEnabled => v.mgr.pulled = w.mgr.pulled /\ v.mgr.paused = w.mgr.paused
  BY <1>5, HooksSound
<1>8. Preserves(v, r)
  BY <1>4, <1>6, <1>7, EndedSound
<1>9. Sound(r) /\ (<<>> \notin Ladders /\ Wanted(World) => Wanted(r))
  BY <1>5, <1>7, <1>8 DEF Preserves
<1>10. ~QuotingEnabled => r.mgr.pulled = mgr.pulled /\ r.mgr.paused = mgr.paused
  BY <1>5, <1>7, <1>8, StateTyped DEF Preserves, MgrKeeps
<1>11. Leaves(r) /\ mgr' = r.mgr
  BY <1>3, <1>4 DEF Leaves
<1>12. EngineSound'
  BY <1>6, <1>10, <1>11 DEF QuotesInv, EngineSound, QuotingEnabled
<1> QED BY <1>9, <1>11, <1>12, StepKept

-----------------------------------------------------------------------------
(***************************************************************************)
(* The theorems.                                                           *)
(***************************************************************************)

LEMMA QuotesInit == ASSUME Init PROVE QuotesInv /\ Wanted(World)
<1>1. World = [slots |-> [l \in Slots |-> EmptySlot], mgr |-> NewState,
               orders |-> [h \in Handles |-> Free], tokens |-> MaxTokens]
  BY DEF Init, World
<1>2. NewState \in MgrRecs /\ PauseSound(NewState)
  BY Sizes DEF NewState, MgrRecs, PauseSound
<1>3. EmptySlot \in SlotRecs /\ EmptySlot.handle = None /\ EmptySlot.apply = FALSE
      /\ EmptySlot.waits = FALSE
  BY Sizes DEF EmptySlot, SlotRecs, None
<1>4. Free \in OrderRecs /\ Free.st = "Free"
  BY Sizes DEF Free, OrderRecs, None
<1>5. /\ World \in Worlds /\ World.mgr = NewState
      /\ \A l \in Slots : World.slots[l] = EmptySlot
      /\ \A h \in Handles : World.orders[h] = Free
  BY <1>1, <1>2, <1>3, <1>4, Sizes DEF Worlds
<1>6. \A l \in Slots : SoundAt(World, l) /\ WantedAt(World, l)
  BY <1>3, <1>4, <1>5 DEF SoundAt, WantedAt, PlacedAt, UsedAt, RecordedAt, QueuedAt, PulledAt, IsQuote
<1>7. EngineSound
  BY DEF Init, EngineSound, NewState
<1> QED BY <1>2, <1>5, <1>6, <1>7 DEF QuotesInv, Sound, Wanted

LEMMA QuotesNext == ASSUME QuotesInv, [Next]_vars PROVE Kept
<1>1. CASE UNCHANGED vars
  <2>1. Leaves(World) /\ eng' = eng
    BY <1>1 DEF vars, Leaves, World
  <2>2. Preserves(World, World)
    BY StateTyped, MgrSame DEF Preserves, QuotesInv
  <2> QED BY <2>1, <2>2, PreservesKept
<1>2. CASE Next
  <2>1. ASSUME NEW h \in Handles, Ack(h) \/ StillWorks(h) \/ OrderEnds(h) \/ Filled(h) PROVE Kept
    BY <2>1, AckStep, StillWorksStep, OrderEndsStep, FilledStep
  <2> QED BY <1>2, <2>1, SetQuotesStep, PullStep, OperatorResumesStep, ReconcileBeginStep, HoldOverStep,
             ReconcileEndStep, HoldSideStep, LiftSideStep, IntervalPassesStep, TokensComeBackStep,
             BackoffDueStep, BackoffEndsStep DEF Next
<1> QED BY <1>1, <1>2

\* The inductive invariant holds in every state of the manager.
THEOREM QuotesInvariant == Spec => []QuotesInv
<1>1. Init => QuotesInv
  BY QuotesInit
<1>2. QuotesInv /\ [Next]_vars => QuotesInv'
  BY QuotesNext DEF Kept
<1> QED BY <1>1, <1>2, PTL DEF Spec

\* A level has one order at most, the one its slot holds, among the slots reconcile() looks at.
THEOREM QuotesOneOrderPerLevel == Spec => []OneOrderPerLevel
<1>1. QuotesInv => OneOrderPerLevel
  <2> SUFFICES ASSUME QuotesInv, NEW l \in Slots, NEW h \in Quotes(l)
               PROVE  slots[l].handle = h /\ l <= mgr.used
    BY DEF OneOrderPerLevel
  <2>1. PlacedAt(World, l) /\ UsedAt(World, l)
    BY DEF QuotesInv, Sound, SoundAt
  <2>2. h \in Handles /\ IsQuote(World, h, l)
    BY StateTyped DEF Quotes, IsQuote
  <2>3. slots[l].handle = h
    BY <2>1, <2>2, StateTyped DEF PlacedAt
  <2>4. h # None
    BY <2>2, Sizes DEF Handles, None
  <2> QED BY <2>1, <2>3, <2>4, StateTyped DEF UsedAt
<1> QED BY <1>1, QuotesInvariant, PTL

\* A quote that was held back, for want of a token or by the side's backoff, is queued to be tried
\* again unless its instrument was pulled or rests.
THEOREM QuotesHeldBackIsQueued == Spec => []HeldBackIsQueued
<1>1. QuotesInv => HeldBackIsQueued
  <2> SUFFICES ASSUME QuotesInv, NEW l \in Slots, Waits(l), ~mgr.pulled, ~mgr.paused
               PROVE  mgr.starved \/ mgr.queued
    BY DEF HeldBackIsQueued
  <2>1. QueuedAt(World, l)
    BY DEF QuotesInv, Sound, SoundAt
  <2>2. World.slots[l].waits /\ Target(World, World.mgr.desired, l) # None
    BY StateTyped DEF Waits
  <2> QED BY <2>1, <2>2, StateTyped DEF QueuedAt
<1> QED BY <1>1, QuotesInvariant, PTL

\* No order keeps working at a level the ladder does not ask for, on a held side or a pulled
\* instrument, if the strategy never asks for a ladder without quotes (to stop it calls pull_quotes()).
THEOREM QuotesUnwantedQuotesGo ==
  ASSUME <<>> \notin Ladders
  PROVE  Spec => []UnwantedQuotesGo
<1>1. Init => WantedInv
  BY QuotesInit DEF WantedInv
<1>2. WantedInv /\ [Next]_vars => WantedInv'
  BY QuotesNext DEF Kept, WantedInv
<1>3. WantedInv => UnwantedQuotesGo
  <2> SUFFICES ASSUME WantedInv, NEW l \in Slots, NEW h \in Quotes(l), orders[h].st = "Live", ~mgr.paused
               PROVE  ~mgr.pulled /\ (orders[h].kept \/ Target(World, mgr.desired, l) # None)
    BY DEF UnwantedQuotesGo
  <2>0. QuotesInv
    BY DEF WantedInv
  <2>1. PulledAt(World, l) /\ WantedAt(World, l)
    BY DEF WantedInv, Wanted, QuotesInv, Sound, SoundAt
  <2>2. h \in Handles /\ IsQuote(World, h, l)
    BY <2>0, StateTyped DEF Quotes, IsQuote
  <2>3. ~mgr.pulled
    BY <2>0, <2>1, <2>2, StateTyped DEF PulledAt
  <2> QED BY <2>0, <2>1, <2>2, <2>3, StateTyped DEF WantedAt
<1> QED BY <1>1, <1>2, <1>3, PTL DEF Spec
=============================================================================
