-------------------------------- MODULE Quotes --------------------------------
(***************************************************************************)
(* QuoteManager (core/quote_manager.hpp) with the engine that drives it    *)
(* (core/engine.hpp): one instrument's bids, a level a slot and a slot an  *)
(* order at most.  An order that waits for the venue is never touched; its *)
(* slot records the target and applies it when the answer comes.  Between  *)
(* the request and the answer the strategy may quote again, pull, a        *)
(* reconciliation may begin and end, the side may be held or back off, the *)
(* order tokens run out, and the pool slot of an order that ended be taken *)
(* by another: the handle has no generation.                               *)
(*                                                                         *)
(* The engine's thread runs an event to its end: an action is an event     *)
(* with everything it calls.  Left out: quantities (a partial fill only    *)
(* matters by min_qty_bps), [capacity] prices, the accounts of a pool, the *)
(* other side and the other instruments, which share only the token        *)
(* bucket.                                                                 *)
(***************************************************************************)
EXTENDS Integers, Sequences, SequencesExt, FiniteSetsExt

CONSTANTS
    Levels,     \* the number of levels (kMaxQuoteLevels)
    Ladders,    \* the ladders the strategy may ask for: sequences of prices
    Pool,       \* the number of orders the OMS has room for
    MaxTokens,  \* the order tokens of the bucket, bounded
    MaxQuotes,  \* bound: the times the strategy quotes outside on_fill
    MaxEvents   \* bound: pulls, reconciliations, holds, fills and refusals

ASSUME LevelsAssumption == Levels \in Nat \ {0}
ASSUME PoolAssumption == Pool \in Nat \ {0} /\ MaxTokens \in Nat
ASSUME LaddersAssumption ==
    \A d \in Ladders : d \in Seq(Nat \ {0}) /\ Len(d) <= Levels

VARIABLES
    amends,     \* the venue amends in place (InstState::replace)
    slots, mgr, \* the manager: its slots, and the rest of InstState
    orders,     \* the OMS's pool
    tokens,     \* order tokens left in the [risk] bucket
    eng,        \* the engine: may quote, reconciles, ran past the hold
    asked,      \* how often the strategy quoted so far
    events      \* how many events happened so far

vars == <<amends, slots, mgr, orders, tokens, eng, asked, events>>

Slots   == 1 .. Levels
Handles == 1 .. Pool
None    == 0    \* no handle, no price, and the tag of an order of the strategy's

Pending == {"PendingNew", "PendingCancel", "PendingReplace"}

\* `kept` is history: the venue refused to cancel the order.
Free == [st |-> "Free", px |-> None, next |-> None, tag |-> None, kept |-> FALSE]

\* `waits` is history: a New or a Replace of the slot was held back.
EmptySlot == [handle |-> None, want |-> None, apply |-> FALSE, recent |-> FALSE,
              waits |-> FALSE]

\* early: the retry queued for the end of a backoff is due before the
\* backoff, which a later refusal made longer.
NewState == [desired |-> <<>>, used |-> 0, pulled |-> FALSE, paused |-> FALSE,
             resumable |-> FALSE, held |-> FALSE, backing |-> FALSE, queued |-> FALSE,
             early |-> FALSE, starved |-> FALSE]

\* What a handler works on, and what it leaves behind.
World == [slots |-> slots, mgr |-> mgr, orders |-> orders, tokens |-> tokens]
Leaves(w) == /\ slots' = w.slots
             /\ mgr' = w.mgr
             /\ orders' = w.orders
             /\ tokens' = w.tokens

\* What a check of the placer may refuse: nothing; the price (collar,
\* fat-finger); a move towards the touch for want of room; a deferred New the
\* balance does not cover; anything else.
Checks == {"none", "price", "room", "balance", "other"}

-----------------------------------------------------------------------------
(* The manager's private helpers. *)

\* owns(): the handle's order is live and carries the slot's tag.
Owns(w, l) ==
    LET h == w.slots[l].handle
    IN  h # None /\ w.orders[h].st # "Free" /\ w.orders[h].tag = l

\* back_off()
BackOff(w) == [w EXCEPT !.mgr.backing = TRUE, !.mgr.early = w.mgr.queued]

\* kept_backoff()
KeptBackoff(w, l) ==
    [w EXCEPT !.mgr.queued = TRUE, !.mgr.early = w.mgr.queued /\ w.mgr.early,
              !.slots[l].waits = TRUE]

\* held_back() of a New or Replace for which there is no token.
Starved(w, l) == [w EXCEPT !.mgr.starved = TRUE, !.slots[l].waits = TRUE]

FreeHandles(w) == {h \in Handles : w.orders[h].st = "Free"}

\* An order the engine sends takes a token and a pool slot.
NewOrder(w, px, tag) ==
    [w EXCEPT !.orders[Min(FreeHandles(w))] = [Free EXCEPT !.st = "PendingNew", !.px = px,
                                                           !.tag = tag],
              !.tokens = @ - 1]

\* submit_new() with the placer's New.
SubmitNew(w, chk, l, px, deferred) ==
    CASE deferred /\ chk = "balance" -> w
      [] w.tokens = 0                -> Starved(w, l)
      [] chk = "price"               -> BackOff(w)
      [] chk = "other" \/ FreeHandles(w) = {} -> w
      [] OTHER -> [NewOrder(w, px, l) EXCEPT !.slots[l].handle = Min(FreeHandles(w)),
                                             !.slots[l].recent = TRUE]

\* cancel(): cancels need no token, and the order is working.
Cancel(w, l) == [w EXCEPT !.orders[w.slots[l].handle].st = "PendingCancel"]

HoldsMove(w, chk, l, px) == chk = "room" /\ px > w.orders[w.slots[l].handle].px

\* move(): a cancel with the target recorded for its end.
Move(w, chk, l, px) ==
    IF HoldsMove(w, chk, l, px) THEN w
    ELSE Cancel([w EXCEPT !.slots[l].want = px, !.slots[l].apply = TRUE], l)

\* The placer's Replace.
Amend(w, chk, l, px) ==
    LET h == w.slots[l].handle
    IN  CASE HoldsMove(w, chk, l, px) -> w
          [] w.tokens = 0  -> Starved(w, l)
          [] chk = "price" -> BackOff(w)
          [] chk = "other" -> w
          [] OTHER -> [w EXCEPT !.orders[h] = [@ EXCEPT !.st = "PendingReplace", !.next = px],
                                !.slots[l].recent = TRUE, !.tokens = @ - 1]

\* reconcile_slot(): the slot goes towards px, or to no quote.
ReconcileSlot(w0, chk, l, px) ==
    LET w  == [w0 EXCEPT !.slots[l].waits = FALSE]
        o  == w.orders[w.slots[l].handle]
        w1 == [w EXCEPT !.slots[l].apply = FALSE]
        w2 == [w1 EXCEPT !.slots[l].handle = None]
    IN  IF Owns(w, l)
        THEN CASE o.st \in Pending -> [w EXCEPT !.slots[l].want = px, !.slots[l].apply = TRUE]
               [] o.st \notin Pending /\ px = None -> Cancel(w1, l)
               [] o.st \notin Pending /\ px # None /\ (px = o.px \/ w.slots[l].recent) -> w1
               [] OTHER -> IF amends /\ ~w.mgr.backing THEN Amend(w1, chk, l, px)
                                                       ELSE Move(w1, chk, l, px)
        ELSE CASE px = None -> w2
               [] px # None /\ w.mgr.backing -> KeptBackoff(w2, l)
               [] OTHER -> SubmitNew(w2, chk, l, px, FALSE)

\* What the ladder d asks of a level; nothing while the side is held.
Target(w, d, l) == IF ~w.mgr.held /\ l <= Len(d) THEN d[l] ELSE None

\* The slots 1..n in turn against the ladder d, and `used` recomputed.
ReconcileSlots(w, chk, d, n) ==
    LET done == FoldLeft(LAMBDA v, l : ReconcileSlot(v, chk, l, Target(v, d, l)), w,
                         [l \in 1 .. n |-> l])
        full == {l \in 1 .. n : done.slots[l].handle # None \/ done.slots[l].apply}
    IN  [done EXCEPT !.mgr.used = IF full = {} THEN 0 ELSE Max(full)]

-----------------------------------------------------------------------------
(* The manager's operations. *)

\* Fault: looks at the levels of the ladder only.
ReconcileLadder(w, chk, d) ==
    ReconcileSlots([w EXCEPT !.mgr.pulled = FALSE, !.mgr.paused = FALSE,
                             !.mgr.resumable = FALSE, !.mgr.desired = d], chk, d, Len(d))

\* reconcile()
ReconcileQuotes(w, chk, d) ==
    ReconcileSlots([w EXCEPT !.mgr.pulled = FALSE, !.mgr.paused = FALSE,
                             !.mgr.resumable = FALSE, !.mgr.desired = d],
                   chk, d, Max({Len(d), w.mgr.used}))

\* The loop of pull_quotes(): cancels the orders that work, drops the targets.
CancelWorking(w) ==
    LET working == {w.slots[l].handle : l \in {k \in Slots : Owns(w, k)}}
    IN  [w EXCEPT !.slots = [l \in Slots |-> [@[l] EXCEPT !.apply = FALSE]],
                  !.orders = [h \in Handles |->
                                IF h \in working /\ @[h].st = "Live"
                                THEN [@[h] EXCEPT !.st = "PendingCancel"] ELSE @[h]]]

\* Whether pause_quotes() and pull_quotes(keep_desired) keep the ladder.
Keeps(m) == m.resumable \/ (~m.pulled /\ m.desired # <<>>)

PullQuotes(w, keep) ==
    CancelWorking([w EXCEPT !.mgr.resumable = keep /\ Keeps(w.mgr),
                            !.mgr.desired = IF keep THEN @ ELSE <<>>,
                            !.mgr.pulled = TRUE, !.mgr.paused = FALSE])

PauseQuotes(w) ==
    [w EXCEPT !.mgr.resumable = Keeps(w.mgr), !.mgr.paused = TRUE,
              !.slots = [l \in Slots |-> [@[l] EXCEPT !.apply = FALSE]]]

Resume(w, chk) ==
    LET v == [w EXCEPT !.mgr.paused = FALSE]
    IN  IF v.mgr.resumable THEN ReconcileQuotes(v, chk, v.mgr.desired) ELSE v

PullSide(w) == ReconcileSlots(w, "none", <<>>, w.mgr.used)

\* retry(), retry_backed_off()
Retry(w, chk) == IF w.mgr.pulled \/ w.mgr.paused THEN w
                 ELSE ReconcileQuotes(w, chk, w.mgr.desired)

\* reapply()
Reapply(w, chk) == IF w.mgr.desired = <<>> THEN w ELSE Retry(w, chk)

\* The venue's refusals: a post-only cross or an order it no longer has do not
\* make the side back off, the others do.
Refusals == {"none", "benign", "hard"}

Refused(w, why) == IF why = "hard" THEN BackOff(w) ELSE w

\* Fault: an order that works late while pulled is left alone.
WorkingWhenWanted(w0, chk, h, prev, why) ==
    LET l == w0.orders[h].tag
    IN  IF w0.slots[l].apply
        THEN ReconcileSlot([w0 EXCEPT !.slots[l].apply = FALSE], chk, l,
                           IF w0.mgr.held THEN None ELSE w0.slots[l].want)
        ELSE w0

\* on_order_update(), an order that works now and was `prev`.
Working(w0, chk, h, prev, why) ==
    LET l == w0.orders[h].tag
        answered == prev \in {"PendingNew", "PendingReplace"}
        w == [Refused(w0, why) EXCEPT !.mgr.backing = @ /\ ~(answered /\ why = "none")]
    IN  CASE w.slots[l].handle # h -> w
          [] w.slots[l].handle = h /\ w.mgr.pulled -> Cancel(w, l)
          [] w.slots[l].handle = h /\ ~w.mgr.pulled /\ ~w.mgr.paused /\ w.slots[l].apply
                /\ answered ->
                ReconcileSlot([w EXCEPT !.slots[l].apply = FALSE], chk, l,
                              IF w.mgr.held THEN None ELSE w.slots[l].want)
          [] OTHER -> w

\* Fault: frees the slot whatever it holds by now.
EndedAlways(w0, chk, l, why) ==
    IF l = None THEN w0 ELSE [Refused(w0, why) EXCEPT !.slots[l].handle = None]

\* on_order_update(), an order of slot l that ended.
Ended(w0, chk, l, why) ==
    LET w == Refused(w0, why)
        v == [w EXCEPT !.slots[l].handle = None]
        u == [v EXCEPT !.slots[l].apply = FALSE]
    IN  CASE l = None -> w0
          [] l # None /\ Owns(w, l) -> w
          [] OTHER ->
                IF v.mgr.pulled \/ v.mgr.paused \/ ~v.slots[l].apply THEN v
                ELSE IF v.slots[l].want = None \/ v.mgr.held THEN u
                ELSE IF v.mgr.backing THEN KeptBackoff(u, l)
                ELSE SubmitNew(u, chk, l, v.slots[l].want, TRUE)

-----------------------------------------------------------------------------
(* The engine: the strategy's calls, the operator's and reconciliation. *)

Spend == events < MaxEvents /\ events' = events + 1 /\ asked' = asked

\* quoting_enabled(id)
QuotingEnabled == eng.enabled /\ ~eng.reconciling

Init ==
    /\ amends \in BOOLEAN
    /\ slots = [l \in Slots |-> EmptySlot]
    /\ mgr = NewState
    /\ orders = [h \in Handles |-> Free]
    /\ tokens = MaxTokens
    /\ eng = [enabled |-> TRUE, reconciling |-> FALSE, over |-> FALSE]
    /\ asked = 0
    /\ events = 0

\* ctx.set_quotes()
SetQuotes ==
    /\ QuotingEnabled
    /\ asked < MaxQuotes
    /\ asked' = asked + 1
    /\ \E d \in Ladders, chk \in Checks : Leaves(ReconcileQuotes(World, chk, d))
    /\ UNCHANGED <<amends, eng, events>>

\* ctx.pull_quotes(), a feed that lags, a venue's kill switch.
Pull ==
    /\ Spend
    /\ Leaves(PullQuotes(World, FALSE))
    /\ UNCHANGED <<amends, eng>>

\* ControlCommand::PullQuotes and ResumeQuotes.
OperatorPulls ==
    /\ eng.enabled
    /\ Spend
    /\ eng' = [eng EXCEPT !.enabled = FALSE]
    /\ Leaves(PullQuotes(World, FALSE))
    /\ UNCHANGED amends

OperatorResumes ==
    /\ ~eng.enabled
    /\ eng' = [eng EXCEPT !.enabled = TRUE]
    /\ UNCHANGED <<amends, slots, mgr, orders, tokens, asked, events>>

\* on_reconcile(), Begin.
ReconcileBegin ==
    /\ ~eng.reconciling
    /\ Spend
    /\ eng' = [eng EXCEPT !.reconciling = TRUE, !.over = FALSE]
    /\ Leaves(PauseQuotes(World))
    /\ UNCHANGED amends

\* check_reconcile_hold(): no End within kReconcileHold.
HoldOver ==
    /\ eng.reconciling /\ ~eng.over
    /\ eng' = [eng EXCEPT !.over = TRUE]
    /\ Leaves(IF mgr.paused THEN PullQuotes(World, TRUE) ELSE World)
    /\ UNCHANGED <<amends, asked, events>>

\* on_reconcile(), End, with resume_quotes(): where quoting is off or the book
\* is not valid, the kept quotes are pulled for good.
ReconcileEnd ==
    /\ eng.reconciling
    /\ eng' = [eng EXCEPT !.reconciling = FALSE]
    /\ \E valid \in BOOLEAN, chk \in Checks :
          Leaves(IF mgr.resumable /\ ~(eng.enabled /\ valid) THEN PullQuotes(World, FALSE)
                 ELSE Resume(World, chk))
    /\ UNCHANGED <<amends, asked, events>>

\* on_fill_cluster(): fills on many instruments hold the side.
HeldSide(w) == PullSide([w EXCEPT !.mgr.held = TRUE])

HoldSide ==
    /\ ~mgr.held
    /\ Spend
    /\ Leaves(HeldSide(World))
    /\ UNCHANGED <<amends, eng>>

\* lift_fill_cluster()
LiftSide ==
    /\ mgr.held
    /\ \E chk \in Checks :
          LET w == [World EXCEPT !.mgr.held = FALSE]
          IN  Leaves(IF QuotingEnabled THEN Reapply(w, chk) ELSE w)
    /\ UNCHANGED <<amends, eng, asked, events>>

-----------------------------------------------------------------------------
(* Time: the requote interval, the token bucket, the backoff.  The engine  *)
(* tries again at the first event at which a token, or the end of the      *)
(* backoff, is there.                                                      *)

IntervalPasses ==
    /\ \E l \in Slots : slots[l].recent
    /\ slots' = [l \in Slots |-> [slots[l] EXCEPT !.recent = FALSE]]
    /\ UNCHANGED <<amends, mgr, orders, tokens, eng, asked, events>>

\* retry_starved() once the bucket has n tokens again.
TokensComeBack ==
    /\ tokens < MaxTokens
    /\ \E n \in tokens + 1 .. MaxTokens, chk \in Checks :
          LET w == [World EXCEPT !.tokens = n, !.mgr.starved = FALSE]
          IN  Leaves(IF mgr.starved /\ QuotingEnabled THEN Retry(w, chk) ELSE w)
    /\ UNCHANGED <<amends, eng, asked, events>>

\* Fault: only an instrument that no longer backs off is
\* tried again; the other one is off the queue all the same.
RetryWhenOver(w, chk, over) ==
    LET v == [w EXCEPT !.mgr.queued = FALSE, !.mgr.early = FALSE,
                       !.mgr.backing = @ /\ ~over]
    IN  IF over /\ QuotingEnabled THEN Retry(v, chk) ELSE v

\* take_backoff_due() and retry_backed_off(); over: the backoff has ended too.
BackoffRetry(w, chk, over) ==
    LET v == [w EXCEPT !.mgr.queued = FALSE, !.mgr.early = FALSE,
                       !.mgr.backing = @ /\ ~over]
    IN  IF QuotingEnabled THEN Retry(v, chk) ELSE v

BackoffDue ==
    /\ mgr.queued
    /\ \E over \in {TRUE} \cup {~mgr.early}, chk \in Checks :
          Leaves(BackoffRetry(World, chk, over))
    /\ UNCHANGED <<amends, eng, asked, events>>

\* A backoff nothing waits for.
BackoffEnds ==
    /\ mgr.backing /\ ~mgr.queued
    /\ mgr' = [mgr EXCEPT !.backing = FALSE]
    /\ UNCHANGED <<amends, slots, orders, tokens, eng, asked, events>>

-----------------------------------------------------------------------------
(* The venue's answers, through the OMS and after_oms_update(). *)

\* An order that works again, or for the first time, at px.
Works(h, px, kept, why, chk) ==
    LET w == [World EXCEPT !.orders[h].st = "Live", !.orders[h].px = px,
                           !.orders[h].kept = kept]
    IN  IF orders[h].tag = None THEN w ELSE Working(w, chk, h, orders[h].st, why)

Ack(h) ==
    /\ orders[h].st \in {"PendingNew", "PendingReplace"}
    /\ \E chk \in Checks :
          Leaves(Works(h, IF orders[h].st = "PendingNew" THEN orders[h].px
                          ELSE orders[h].next, FALSE, "none", chk))
    /\ UNCHANGED <<amends, eng, asked, events>>

\* The venue refuses a cancel or a replace: the order works as before.
StillWorks(h) ==
    /\ orders[h].st \in {"PendingCancel", "PendingReplace"}
    /\ Spend
    /\ \E chk \in Checks,
          why \in IF orders[h].st = "PendingCancel" THEN {"none"} ELSE {"benign", "hard"} :
          Leaves(Works(h, orders[h].px, orders[h].st = "PendingCancel", why, chk))
    /\ UNCHANGED <<amends, eng>>

\* The order ends without a fill: refused, cancelled as asked, or unasked (by
\* the venue, or absent from a snapshot).
OrderEnds(h) ==
    /\ orders[h].st # "Free"
    /\ IF orders[h].st = "PendingCancel" THEN UNCHANGED <<asked, events>> ELSE Spend
    /\ \E chk \in Checks, why \in IF orders[h].st = "PendingNew" THEN Refusals ELSE {"none"} :
          Leaves(Ended([World EXCEPT !.orders[h] = Free], chk, orders[h].tag, why))
    /\ UNCHANGED <<amends, eng>>

\* The last fill.  The guard and the strategy's on_fill run before the manager
\* learns of the end: they may quote, or take the pool slot for a hedge.
FillHooks(w, chk) ==
    {w}
    \cup {HeldSide(w)}
    \cup (IF QuotingEnabled THEN {ReconcileQuotes(w, chk, d) : d \in Ladders} ELSE {})
    \cup (IF w.tokens = 0 THEN {} ELSE {NewOrder(w, 1, None)})

Filled(h) ==
    /\ orders[h].st # "Free"
    /\ Spend
    /\ \E chk \in Checks :
          \E w \in FillHooks([World EXCEPT !.orders[h] = Free], chk) :
             Leaves(Ended(w, chk, orders[h].tag, "none"))
    /\ UNCHANGED <<amends, eng>>

Next ==
    \/ SetQuotes
    \/ Pull
    \/ OperatorPulls
    \/ OperatorResumes
    \/ ReconcileBegin
    \/ HoldOver
    \/ ReconcileEnd
    \/ HoldSide
    \/ LiftSide
    \/ IntervalPasses
    \/ TokensComeBack
    \/ BackoffDue
    \/ BackoffEnds
    \/ \E h \in Handles : Ack(h) \/ StillWorks(h) \/ OrderEnds(h) \/ Filled(h)

Spec == Init /\ [][Next]_vars

\* The venue answers every request.
Fairness == \A h \in Handles : []<>(orders[h].st \notin Pending)

FairSpec == Spec /\ Fairness

-----------------------------------------------------------------------------
(* Properties. *)

\* A quote of a level the ladder asks for was held back.
Waits(l) == slots[l].waits /\ Target(World, mgr.desired, l) # None

Quotes(l) == {h \in Handles : orders[h].st # "Free" /\ orders[h].tag = l}

\* A level has one order at most, the one its slot holds, among the slots
\* reconcile() looks at (`used`): none is quoted twice or lost, though a
\* target is recorded while the order is pending, the strategy quotes inside
\* on_fill before the manager learns of the end, and pool slots are reused.
OneOrderPerLevel ==
    \A l \in Slots : \A h \in Quotes(l) : slots[l].handle = h /\ l <= mgr.used

\* No order keeps working at a level the ladder does not ask for, on a side
\* that is held or an instrument that is pulled, except where they rest while
\* paused: the cancel was sent, or is recorded for the ack.  (A cancel the
\* venue refused is repeated while pulled, and otherwise waits for the next
\* quotes.)
UnwantedQuotesGo ==
    \A l \in Slots : \A h \in Quotes(l) :
        orders[h].st = "Live" /\ ~mgr.paused =>
            ~mgr.pulled /\ (orders[h].kept \/ Target(World, mgr.desired, l) # None)

\* A quote held back for want of a token, or by the side's backoff, is not
\* forgotten: its instrument is queued to be tried again, whatever pauses,
\* refusals and longer backoffs came between, unless it was pulled.
HeldBackIsQueued ==
    \A l \in Slots : Waits(l) /\ ~mgr.pulled /\ ~mgr.paused => mgr.starved \/ mgr.queued

\* A pulled instrument ends without orders, those that were pending at the
\* pull, and those whose cancel the venue refused, included.
PulledQuotesGo ==
    mgr.pulled ~> (~mgr.pulled \/ \A l \in Slots : Quotes(l) = {})
=============================================================================
