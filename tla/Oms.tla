-------------------------------- MODULE Oms --------------------------------
(***************************************************************************)
(* The order table of the engine (include/fastmm/core/oms.hpp): a pool of  *)
(* open orders, one id map that names either an open order's pool slot or  *)
(* a record in the ring of recently terminal orders, the quantities booked *)
(* as estimates, and the cached aggregates the risk checks read (open      *)
(* quantity and best own price per side).                                  *)
(*                                                                         *)
(* One instrument and one venue: every array of the class is indexed by    *)
(* instrument or venue and the entries never meet, but for the pool and    *)
(* the id map, which the others' orders may fill.  An order's venue id,    *)
(* its times, its user tag and the statistics counters are left out; the   *)
(* gauge synthetic_pending is kept, on_fill branches on it.                *)
(*                                                                         *)
(* Here the environment may send any message about any id at any time:     *)
(* what this module claims holds whatever the venue and the connectors do. *)
(* BybitOrders composes it with a connector, a venue and the bookings.     *)
(***************************************************************************)
EXTENDS Integers, Sequences, FiniteSets, FiniteSetsExt

CONSTANTS
  PoolCap,      \* kMaxOpenOrders
  Sides,        \* a subset of {"Buy", "Sell"}
  Prices,       \* prices in ticks; 0 is a market order's Price{}
  MaxQty,       \* the largest order or message quantity
  MaxSeq,       \* max_seq_: client order ids the session may issue
  RingCap,      \* kRecentlyTerminal
  AttemptMod,   \* 2^8, the width of Order::cancel_attempts
  Execs,        \* venue execution ids
  NoExec,       \* an execution without an id
  ExecCap       \* kExecMemory

ASSUME OmsAssumption ==
  /\ PoolCap \in Nat \ {0}
  /\ Sides \subseteq {"Buy", "Sell"}
  /\ Prices \subseteq Nat
  /\ MaxQty \in Nat \ {0}
  /\ MaxSeq \in Nat \ {0}
  /\ RingCap \in Nat \ {0}
  /\ AttemptMod \in Nat \ {0}
  /\ NoExec \notin Execs
  /\ ExecCap \in Nat \ {0}

VARIABLES
  seq,          \* seq_: the last client order id issued
  pool,         \* pool_ and estimates_: slot -> open order or NoOrder
  ids,          \* ids_: client order id -> what it names
  recent,       \* recently_terminal_: ring slot -> terminal record or NoRecord
  next,         \* ring slot the next record is pushed to (next_pos() & mask)
  pending,      \* stats_.synthetic_pending: orders holding an estimate
  openQty,      \* open_qty_: side -> sum of leaves
  bestOwn,      \* best_own_: side -> best own price, 0 if none
  execs,        \* exec_seen_: the last ExecCap execution ids, oldest first
  scope,        \* recon_scope_: the bound of the reconciliation in progress
  ending        \* orders reconcile_end() has still to end (its local `unseen`)

vars == <<seq, pool, ids, recent, next, pending, openQty, bestOwn, execs, scope, ending>>

-----------------------------------------------------------------------------
Slots      == 1 .. PoolCap                \* Handle<Order>
Ids        == 1 .. MaxSeq
NoId       == 0                          \* ClientOrderId{}
Qty        == 0 .. MaxQty
RingSlots  == 0 .. RingCap - 1
OpenStates == {"PendingNew", "Live", "PartiallyFilled", "PendingCancel", "PendingReplace"}
EndStates  == {"Filled", "Canceled", "Rejected", "Expired"}

Order == [id : Ids, side : Sides, state : OpenStates, px : Nat, qty : Qty, cum : Qty,
          pend : Ids \cup {NoId}, pendPx : Nat, pendQty : Qty,
          oldCanceled : BOOLEAN, seen : BOOLEAN, attempts : 0 .. AttemptMod - 1, est : Nat]
Record == [id : Ids, side : Sides, state : EndStates, px : Nat, qty : Qty, cum : Qty,
           byRecon : BOOLEAN, est : Nat]

\* The two kinds of value ids_ holds (kTerminalRef tags the second), and "not in the map".
SlotRef(h) == [kind |-> "open", at |-> h]
TermRef(p) == [kind |-> "terminal", at |-> p]
NoRef      == [kind |-> "none"]
Refs       == {SlotRef(h) : h \in Slots} \cup {TermRef(p) : p \in RingSlots} \cup {NoRef}

NoOrder  == [state |-> "Free"]
NoRecord == [state |-> "Free"]
NoScope  == [bounded |-> FALSE, watermark |-> NoId]

Least(a, b)    == IF a < b THEN a ELSE b
Greatest(a, b) == IF a < b THEN b ELSE a
Leaves(o)      == o.qty - o.cum
Working(o)     == o.state \in {"Live", "PartiallyFilled"}
WorkState(o)   == IF o.cum = 0 THEN "Live" ELSE "PartiallyFilled"
Live(h)        == pool[h] # NoOrder
Better(s, p, q) == IF s = "Buy" THEN p > q ELSE p < q

\* lookup(): what an id names.  Any id the session has not issued is unknown.
Ref(id)        == IF id \in Ids THEN ids[id] ELSE NoRef
IsOpen(id)     == Ref(id).kind = "open"
IsTerminal(id) == Ref(id).kind = "terminal"
SlotOf(id)     == Ref(id).at
RecordOf(id)   == recent[Ref(id).at]

-----------------------------------------------------------------------------
(***************************************************************************)
(* The bookkeeping the operations share.                                   *)
(***************************************************************************)

\* Fault: nothing is recomputed when the best order leaves.
StaleBest(P, s) == bestOwn[s]

\* recompute_best_own(): the scan over the side's orders in ascending slot order.  The running best
\* is replaced by any price while it is zero, so a sell priced 0 (a market order) makes the scan
\* forget the sells before it.
BestOf(P, s) ==
  LET mine   == {h \in Slots : P[h] # NoOrder /\ P[h].side = s}
      kept   == IF s = "Sell" THEN {h \in mine : \A z \in mine : P[z].px = 0 => z < h} ELSE mine
      prices == {P[h].px : h \in kept}
      best   == {p \in prices : \A q \in prices : ~Better(s, q, p)}
  IN  IF best = {} THEN 0 ELSE CHOOSE p \in best : TRUE

\* The orders holding an estimate before and after an update of one of them (note_synthetic,
\* take_synthetic).
Holds(est)         == IF est > 0 THEN 1 ELSE 0
EstDelta(old, new) == Holds(new) - Holds(old)

\* absorb_cum(): the venue reports more filled quantity than the fills booked; the difference is
\* booked by the engine as an estimate.
AbsorbCum(o, reported) ==
  LET cum == Least(reported, o.qty)
  IN  IF cum <= o.cum THEN o
      ELSE [o EXCEPT !.cum = cum, !.est = @ + (cum - o.cum)]
MissedQty(o, reported) == AbsorbCum(o, reported).cum - o.cum

\* drop_open() of the id a replace was waiting for.
DropPending(map, o) ==
  IF o.pend # NoId /\ o.pend # o.id /\ map[o.pend].kind = "open"
  THEN [map EXCEPT ![o.pend] = NoRef] ELSE map

\* remember_terminal(): the oldest record leaves a full ring and takes its id out of the map, unless
\* the id names something newer by now; the new record's id names it.
Full == recent[next] # NoRecord
\* Fault: the overwritten record's id keeps naming its ring slot.
StillMapped(map) == map
Unmapped(map) ==
  IF Full /\ map[recent[next].id] = TermRef(next)
  THEN [map EXCEPT ![recent[next].id] = NoRef] ELSE map
Remembered(map, r) == [Unmapped(map) EXCEPT ![r.id] = TermRef(next)]
\* Fault: an estimate that leaves the ring stays counted.
NothingForgotten   == 0
ForgottenQty       == IF Full THEN recent[next].est ELSE 0
RecordFor(o, st, byRecon) ==
  [id |-> o.id, side |-> o.side, state |-> st, px |-> o.px, qty |-> o.qty, cum |-> o.cum,
   byRecon |-> byRecon, est |-> o.est]
PushRecord(r) ==
  /\ recent' = [recent EXCEPT ![next] = r]
  /\ next' = IF next = RingCap - 1 THEN 0 ELSE next + 1

\* Fault: the aggregate is not adjusted for the quantity just filled.
UpdateKeepsOpenQty(h, o) ==
  /\ pool' = [pool EXCEPT ![h] = o]
  /\ pending' = pending + EstDelta(pool[h].est, o.est)
  /\ UNCHANGED <<seq, ids, recent, next, openQty, bestOwn, scope, ending>>

\* finish_update(): the order stays open as o.
Update(h, o) ==
  /\ pool' = [pool EXCEPT ![h] = o]
  /\ openQty' = [openQty EXCEPT ![o.side] = @ - (o.cum - pool[h].cum)]
  /\ pending' = pending + EstDelta(pool[h].est, o.est)
  /\ UNCHANGED <<seq, ids, recent, next, bestOwn, scope, ending>>

\* terminate(): the order's last form is o; its slot is freed and its record remembered.
Terminate(h, o, st, byRecon) ==
  LET rest == [pool EXCEPT ![h] = NoOrder]
  IN  /\ pool' = rest
      /\ ids' = Remembered(DropPending(ids, o), RecordFor(o, st, byRecon))
      /\ PushRecord(RecordFor(o, st, byRecon))
      /\ openQty' = [openQty EXCEPT ![o.side] = @ - (o.cum - pool[h].cum) - Leaves(o)]
      /\ pending' = pending + EstDelta(pool[h].est, o.est) - Holds(ForgottenQty)
      /\ bestOwn' = IF o.px = bestOwn[o.side]
                    THEN [bestOwn EXCEPT ![o.side] = BestOf(rest, o.side)] ELSE bestOwn
      /\ UNCHANGED <<seq, scope>>

\* Fault: a message is handled inside reconcile_end()'s loop.
DispatchingReentrant == TRUE

\* No message is handled while reconcile_end() runs its loop; only its callback may send orders.
Dispatching == ending = {}
Ignored     == UNCHANGED vars

-----------------------------------------------------------------------------
(***************************************************************************)
(* Outbound.  The engine gives submit and a replace the next id            *)
(* (next_cl_ord_id) and sends nothing once the ids or the slots run out.   *)
(***************************************************************************)

Submit(h, s, px, q) ==
  /\ seq < MaxSeq
  /\ pool[h] = NoOrder
  /\ seq' = seq + 1
  /\ pool' = [pool EXCEPT ![h] =
       [id |-> seq + 1, side |-> s, state |-> "PendingNew", px |-> px, qty |-> q, cum |-> 0,
        pend |-> NoId, pendPx |-> 0, pendQty |-> 0, oldCanceled |-> FALSE, seen |-> FALSE,
        attempts |-> 0, est |-> 0]]
  /\ ids' = [ids EXCEPT ![seq + 1] = SlotRef(h)]
  /\ openQty' = [openQty EXCEPT ![s] = @ + q]
  /\ bestOwn' = IF bestOwn[s] = 0 \/ Better(s, px, bestOwn[s])
                THEN [bestOwn EXCEPT ![s] = px] ELSE bestOwn
  /\ UNCHANGED <<recent, next, pending, execs, scope, ending>>

\* The id is spent even when the pool has no slot left (RejectReason::PoolExhausted).  The pool
\* and the id map are shared by all instruments: they may be full whatever this one's orders are.
SubmitPoolExhausted ==
  /\ seq < MaxSeq
  /\ seq' = seq + 1
  /\ UNCHANGED <<pool, ids, recent, next, pending, openQty, bestOwn, execs, scope, ending>>

RequestCancel(h) ==
  /\ Live(h) /\ Working(pool[h])
  /\ pool' = [pool EXCEPT ![h].state = "PendingCancel"]
  /\ UNCHANGED <<seq, ids, recent, next, pending, openQty, bestOwn, execs, scope, ending>>

\* sweep_pending() found no ack in time; the engine cancels the order (Engine::sweep_acks).
RequestCancelUnacked(h) ==
  /\ Dispatching
  /\ Live(h) /\ pool[h].state = "PendingNew"
  /\ pool' = [pool EXCEPT ![h].state = "PendingCancel"]
  /\ UNCHANGED <<seq, ids, recent, next, pending, openQty, bestOwn, execs, scope, ending>>

RequestReplace(h, px, q) ==
  /\ seq < MaxSeq
  /\ Live(h) /\ Working(pool[h])
  /\ seq' = seq + 1
  /\ ids' = [ids EXCEPT ![seq + 1] = SlotRef(h)]
  /\ pool' = [pool EXCEPT ![h].pend = seq + 1, ![h].pendPx = px, ![h].pendQty = q,
                          ![h].state = "PendingReplace"]
  /\ UNCHANGED <<recent, next, pending, openQty, bestOwn, execs, scope, ending>>

-----------------------------------------------------------------------------
(***************************************************************************)
(* Inbound.  Each handler looks the id up (Ref) and leaves the table alone *)
(* when the message does not apply (OmsAction::Ignored).                   *)
(***************************************************************************)

OpenIn(id, st) == IsOpen(id) /\ pool[SlotOf(id)].state = st
\* The message names the id a replace is waiting for, not the order's current one.
OfReplace(id)  == OpenIn(id, "PendingReplace") /\ id = pool[SlotOf(id)].pend

\* The old leg of a cancel-replace keeps a record while an estimate of it stands.
Splits(o, inPlace) == ~inPlace /\ o.est > 0

\* The order under the replacement's id, price and quantity; a new venue order starts at zero filled.
Replaced(o, inPlace) ==
  LET cum == IF inPlace THEN Least(o.cum, o.pendQty) ELSE 0
  IN  [o EXCEPT !.id = o.pend, !.px = o.pendPx, !.qty = o.pendQty, !.cum = cum,
                !.pend = NoId, !.pendPx = 0, !.pendQty = 0, !.oldCanceled = FALSE,
                !.est = IF Splits(o, inPlace) THEN 0 ELSE @,
                !.state = IF cum = 0 THEN "Live" ELSE "PartiallyFilled"]

\* apply_replace()
ApplyReplace(h, inPlace) ==
  LET o    == pool[h]
      n    == Replaced(o, inPlace)
      leg  == RecordFor(o, IF o.cum >= o.qty THEN "Filled" ELSE "Canceled", FALSE)
      done == [pool EXCEPT ![h] = n]
  IN  /\ pool' = done
      /\ openQty' = [openQty EXCEPT ![o.side] = @ - Leaves(o) + Leaves(n)]
      /\ IF Splits(o, inPlace)
         THEN /\ ids' = Remembered(ids, leg)
              /\ PushRecord(leg)
              /\ pending' = pending - Holds(ForgottenQty)
         ELSE /\ ids' = [ids EXCEPT ![o.id] = NoRef]
              /\ UNCHANGED <<recent, next, pending>>
      /\ bestOwn' = IF bestOwn[o.side] = 0 \/ Better(o.side, n.px, bestOwn[o.side])
                    THEN [bestOwn EXCEPT ![o.side] = n.px]
                    ELSE IF o.px = bestOwn[o.side]
                    THEN [bestOwn EXCEPT ![o.side] = BestOf(done, o.side)] ELSE bestOwn
      /\ UNCHANGED <<seq, execs, scope, ending>>

OnAck(id, inPlace) ==
  /\ Dispatching
  /\ \/ /\ OpenIn(id, "PendingNew")
        /\ Update(SlotOf(id), [pool[SlotOf(id)] EXCEPT !.state = "Live"])
        /\ UNCHANGED execs
     \/ OfReplace(id) /\ ApplyReplace(SlotOf(id), inPlace)
     \/ ~OpenIn(id, "PendingNew") /\ ~OfReplace(id) /\ Ignored

\* OmsAction::CancelUnknown: the venue has an order nothing tracks, so the engine cancels it
\* (Engine::cancel_unknown).
AckOfUntracked(id) == ~IsOpen(id) /\ (IsTerminal(id) => RecordOf(id).byRecon)

\* clear_pending() for a refused replace.
Unreplaced(o) ==
  [o EXCEPT !.pend = NoId, !.pendPx = 0, !.pendQty = 0, !.oldCanceled = FALSE]

OnReject(id) ==
  /\ Dispatching
  /\ LET h == SlotOf(id)
         o == Unreplaced(pool[h])
     IN  \/ OpenIn(id, "PendingNew") /\ Terminate(h, pool[h], "Rejected", FALSE)
                                     /\ UNCHANGED <<execs, ending>>
         \/ /\ OfReplace(id) /\ pool[h].oldCanceled
            /\ Terminate(h, pool[h], "Canceled", FALSE)
            /\ UNCHANGED <<execs, ending>>
         \/ /\ OfReplace(id) /\ ~pool[h].oldCanceled
            /\ pool' = [pool EXCEPT ![h] = [o EXCEPT !.state = WorkState(o)]]
            /\ ids' = DropPending(ids, pool[h])
            /\ UNCHANGED <<seq, recent, next, pending, openQty, bestOwn, execs, scope, ending>>
         \/ ~OpenIn(id, "PendingNew") /\ ~OfReplace(id) /\ Ignored

\* on_cancel_ack() and on_expired() end the order as st, or as Filled when cum covers it.
EndsAt(h, o, st) ==
  /\ Terminate(h, o, IF o.cum >= o.qty THEN "Filled" ELSE st, FALSE)
  /\ UNCHANGED <<execs, ending>>

\* The cancel ack of the order itself while a replace is in flight is the old leg of a
\* cancel-then-new replace: the new leg's ack or reject decides.
OfOldLeg(id) == OpenIn(id, "PendingReplace") /\ id = pool[SlotOf(id)].id

OnCancelAck(id, cum) ==
  /\ Dispatching
  /\ LET h == SlotOf(id)
         o == AbsorbCum(pool[h], cum)
     IN  \/ OfOldLeg(id) /\ Update(h, [o EXCEPT !.oldCanceled = TRUE]) /\ UNCHANGED execs
         \/ IsOpen(id) /\ ~OfOldLeg(id) /\ EndsAt(h, o, "Canceled")
         \/ ~IsOpen(id) /\ Ignored

OnExpired(id, cum) ==
  /\ Dispatching
  /\ \/ IsOpen(id) /\ EndsAt(SlotOf(id), AbsorbCum(pool[SlotOf(id)], cum), "Expired")
     \/ ~IsOpen(id) /\ Ignored

\* The uint8 count of cancel rejects wraps.
NextAttempt(n) == IF n = AttemptMod - 1 THEN 0 ELSE n + 1

\* gone: RejectReason::VenueUnknownOrder.  The table leaves it to the engine to ask for a
\* reconciliation once the count passes 3 (OmsAction::ReconcileNeeded).
OnCancelReject(id, gone) ==
  /\ Dispatching
  /\ LET h == SlotOf(id)
         o == pool[h]
     IN  \/ /\ OpenIn(id, "PendingCancel") /\ gone
            /\ Terminate(h, o, "Canceled", FALSE)
            /\ UNCHANGED <<execs, ending>>
         \/ /\ OpenIn(id, "PendingCancel") /\ ~gone
            /\ Update(h, [o EXCEPT !.state = WorkState(o),
                                   !.attempts = NextAttempt(@)])
            /\ UNCHANGED execs
         \/ ~OpenIn(id, "PendingCancel") /\ Ignored

-----------------------------------------------------------------------------
(***************************************************************************)
(* Fills.  m is [id, exec, qty, cum, replayed]; cum is 0 when the venue    *)
(* does not say (always for a replayed one).                               *)
(***************************************************************************)

\* remember_exec(): an execution id given again is a duplicate; the oldest leaves a full memory.
Duplicate(m) == m.exec # NoExec /\ \E i \in DOMAIN execs : execs[i] = m.exec
RememberExec(m) ==
  execs' = IF m.exec = NoExec THEN execs
           ELSE Append(IF Len(execs) = ExecCap THEN Tail(execs) ELSE execs, m.exec)

\* Fault: only a replay is taken to name an estimate.
CorrectedQtyReplayOnly(m) ==
  LET known  == IsOpen(m.id) \/ IsTerminal(m.id)
      held   == IF IsOpen(m.id) THEN pool[SlotOf(m.id)] ELSE RecordOf(m.id)
  IN  IF pending = 0 \/ ~known \/ ~m.replayed THEN 0 ELSE Least(m.qty, held.est)

\* The part of an execution that an estimate already put in the position (take_synthetic).  A live
\* execution spans cum - qty .. cum of the venue's count, so what lies below the booked cum is the
\* estimate being named; without a cum only a replay or an ended order can tell.
CorrectedQty(m) ==
  LET known  == IsOpen(m.id) \/ IsTerminal(m.id)
      held   == IF IsOpen(m.id) THEN pool[SlotOf(m.id)] ELSE RecordOf(m.id)
      within == Least(m.qty, held.cum - (m.cum - m.qty))
  IN  IF pending = 0 \/ ~known THEN 0
      ELSE IF ~m.replayed /\ m.cum > 0 THEN Greatest(0, Least(within, held.est))
      ELSE IF m.replayed \/ IsTerminal(m.id) THEN Least(m.qty, held.est)
      ELSE 0

\* Fault: the order's quantity does not bound the count.
FilledCumUncapped(o, m) ==
  Greatest(o.cum, IF m.cum > 0 THEN m.cum ELSE o.cum + (m.qty - CorrectedQty(m)))

\* The order's cumulative quantity after the fill: the venue's count, or the part not yet booked on
\* top of ours; never beyond the order and never back.
FilledCum(o, m) ==
  Greatest(o.cum, Least(o.qty, IF m.cum > 0 THEN m.cum ELSE o.cum + (m.qty - CorrectedQty(m))))

FillOpen(m) ==
  LET h == SlotOf(m.id)
      o == [pool[h] EXCEPT !.cum = FilledCum(pool[h], m), !.est = @ - CorrectedQty(m)]
  IN  \/ o.cum >= o.qty /\ Terminate(h, o, "Filled", FALSE) /\ UNCHANGED ending
      \/ /\ o.cum < o.qty
         /\ Update(h, [o EXCEPT !.state = IF @ \in {"Live", "PendingNew"}
                                          THEN "PartiallyFilled" ELSE @])

\* OmsAction::LateFill: the terminal record takes the quantity; a Canceled or Expired order it
\* completes becomes Filled.
FillLate(m) ==
  LET p   == SlotOf(m.id)
      cum == FilledCum(recent[p], m)
  IN  /\ recent' = [recent EXCEPT
           ![p].est = @ - CorrectedQty(m),
           ![p].cum = cum,
           ![p].state = IF /\ cum > recent[p].cum /\ cum >= recent[p].qty
                           /\ @ \in {"Canceled", "Expired"} THEN "Filled" ELSE @]
      /\ pending' = pending + EstDelta(recent[p].est, recent[p].est - CorrectedQty(m))
      /\ UNCHANGED <<seq, pool, ids, next, openQty, bestOwn, scope, ending>>

OnFill(m) ==
  /\ Dispatching
  /\ \/ Duplicate(m) /\ Ignored
     \/ /\ ~Duplicate(m)
        /\ RememberExec(m)
        /\ \/ IsOpen(m.id) /\ FillOpen(m)
           \/ IsTerminal(m.id) /\ FillLate(m)
           \/ /\ ~IsOpen(m.id) /\ ~IsTerminal(m.id)          \* UnknownFill: position only
              /\ UNCHANGED <<seq, pool, ids, recent, next, pending, openQty, bestOwn, scope,
                             ending>>

-----------------------------------------------------------------------------
(***************************************************************************)
(* Reconciliation: Begin, one message per order the venue reports open,    *)
(* End.  reconcile_end() ends its orders one by one; its callback runs     *)
(* after each and may place or cancel orders.                              *)
(***************************************************************************)

ReconcileBegin(sc) ==
  /\ Dispatching
  /\ scope' = sc
  /\ pool' = [h \in Slots |-> IF Live(h) THEN [pool[h] EXCEPT !.seen = FALSE] ELSE pool[h]]
  /\ UNCHANGED <<seq, ids, recent, next, pending, openQty, bestOwn, execs, ending>>

\* The venue has the order, so a new order was accepted; a cancel or replace stays pending.  An
\* order nothing tracks is cancelled by the engine (CancelUnknown, also for a terminal id).
ReconcileOpenOrder(id, cum) ==
  /\ Dispatching
  /\ LET h == SlotOf(id)
         o == AbsorbCum(pool[h], cum)
     IN  \/ /\ IsOpen(id)
            /\ Update(h, [o EXCEPT !.seen = TRUE,
                                   !.state = IF @ = "PendingNew" THEN WorkState(o) ELSE @])
            /\ UNCHANGED execs
         \/ ~IsOpen(id) /\ Ignored

\* The open orders the snapshot did not report, except those sent after it was requested.
Unseen == {h \in Slots : Live(h) /\ ~pool[h].seen
                         /\ (scope.bounded => pool[h].id <= scope.watermark)}

ReconcileEnd ==
  /\ Dispatching
  /\ ending' = Unseen
  /\ UNCHANGED <<seq, pool, ids, recent, next, pending, openQty, bestOwn, execs, scope>>

EndUnseen(h) ==
  /\ h \in ending
  /\ ending' = ending \ {h}
  /\ Terminate(h, pool[h], "Canceled", TRUE)
  /\ UNCHANGED execs

-----------------------------------------------------------------------------
Fills == [id : Ids \cup {NoId}, exec : Execs \cup {NoExec}, qty : 1 .. MaxQty, cum : {0},
          replayed : BOOLEAN]
         \cup [id : Ids \cup {NoId}, exec : Execs \cup {NoExec}, qty : 1 .. MaxQty,
               cum : 1 .. MaxQty, replayed : {FALSE}]
Scopes == [bounded : {TRUE}, watermark : Ids \cup {NoId}] \cup {NoScope}

Init ==
  /\ seq = 0
  /\ pool = [h \in Slots |-> NoOrder]
  /\ ids = [id \in Ids |-> NoRef]
  /\ recent = [p \in RingSlots |-> NoRecord]
  /\ next = 0
  /\ pending = 0
  /\ openQty = [s \in Sides |-> 0]
  /\ bestOwn = [s \in Sides |-> 0]
  /\ execs = <<>>
  /\ scope = NoScope
  /\ ending = {}

Outbound ==
  \/ \E h \in Slots, s \in Sides, px \in Prices, q \in 1 .. MaxQty : Submit(h, s, px, q)
  \/ SubmitPoolExhausted
  \/ \E h \in Slots : RequestCancel(h)
  \/ \E h \in Slots : RequestCancelUnacked(h)
  \/ \E h \in Slots, px \in Prices, q \in 1 .. MaxQty : RequestReplace(h, px, q)

Inbound ==
  \/ \E id \in Ids, inPlace \in BOOLEAN : OnAck(id, inPlace)
  \/ \E id \in Ids : OnReject(id)
  \/ \E id \in Ids, cum \in Qty : OnCancelAck(id, cum)
  \/ \E id \in Ids, cum \in Qty : OnExpired(id, cum)
  \/ \E id \in Ids, gone \in BOOLEAN : OnCancelReject(id, gone)
  \/ \E m \in Fills : OnFill(m)

Reconciliation ==
  \/ \E sc \in Scopes : ReconcileBegin(sc)
  \/ \E id \in Ids, cum \in Qty : ReconcileOpenOrder(id, cum)
  \/ ReconcileEnd
  \/ \E h \in Slots : EndUnseen(h)

Next == Outbound \/ Inbound \/ Reconciliation

Spec == Init /\ [][Next]_vars

-----------------------------------------------------------------------------
(***************************************************************************)
(* Properties.                                                             *)
(***************************************************************************)

\* The variables have their types (what the class's members may hold).
TypeOK ==
  /\ seq \in 0 .. MaxSeq
  /\ pool \in [Slots -> Order \cup {NoOrder}]
  /\ ids \in [Ids -> Refs]
  /\ recent \in [RingSlots -> Record \cup {NoRecord}]
  /\ next \in RingSlots
  /\ pending \in Int
  /\ openQty \in [Sides -> Int]
  /\ bestOwn \in [Sides -> Nat]
  /\ execs \in Seq(Execs)
  /\ scope \in [bounded : BOOLEAN, watermark : Ids \cup {NoId}]
  /\ ending \in SUBSET Slots

\* An id mapped to a slot names the order in it, by its own id or by the id of its replace in
\* flight: a venue message never reaches a freed slot or another order (on_ack's comment).
OpenIdsNameTheirOrder ==
  \A id \in Ids : ids[id].kind = "open" =>
    /\ pool[ids[id].at] # NoOrder
    /\ id \in {pool[ids[id].at].id, pool[ids[id].at].pend}

\* An open order is found under its id, and under the id of its replace until that is answered: no
\* order the venue may still report on becomes unknown while it is open.
OpenOrdersAreNamed ==
  \A h \in Slots : pool[h] # NoOrder =>
    /\ ids[pool[h].id] = SlotRef(h)
    /\ pool[h].state = "PendingReplace" <=> pool[h].pend # NoId
    /\ pool[h].pend # NoId => ids[pool[h].pend] = SlotRef(h) /\ pool[h].pend > pool[h].id

\* An id mapped to the ring names its own record, however often the ring has wrapped: a late fill is
\* booked on the order it belongs to (remember_terminal unmaps what it overwrites).
TerminalIdsNameTheirRecord ==
  \A id \in Ids : ids[id].kind = "terminal" =>
    /\ recent[ids[id].at] # NoRecord
    /\ recent[ids[id].at].id = id

\* A record in the ring can be found: its id still names it.
RecordsAreNamed ==
  \A p \in RingSlots : recent[p] # NoRecord => ids[recent[p].id] = TermRef(p)

IdsSound ==
  /\ OpenIdsNameTheirOrder
  /\ OpenOrdersAreNamed
  /\ TerminalIdsNameTheirRecord
  /\ RecordsAreNamed

\* open_qty() is the sum of the leaves of the side's open orders: what max_position is checked
\* against has neither leaked nor been released twice along any path of replaces, fills,
\* cumulative reports and ends.
OpenQtyIsLeaves ==
  \A s \in Sides : openQty[s] =
    MapThenSumSet(LAMBDA h : Leaves(pool[h]), {h \in Slots : pool[h] # NoOrder /\ pool[h].side = s})

\* best_own_px() is the best price among the side's open orders, 0 if none: the incremental upkeep
\* in submit, apply_replace and terminate agrees with a scan (self-trade prevention reads it).
BestOwnIsBest ==
  \A s \in Sides :
    LET prices == {pool[h].px : h \in {g \in Slots : pool[g] # NoOrder /\ pool[g].side = s}}
    IN  IF prices = {} THEN bestOwn[s] = 0
        ELSE bestOwn[s] \in prices /\ \A p \in prices : ~Better(s, p, bestOwn[s])

\* synthetic_pending counts the orders, open or remembered, that hold an estimate.  on_fill corrects
\* estimates only while it is not zero: too low, and an execution is booked on top of its estimate.
PendingCountsEstimates ==
  pending = Cardinality({h \in Slots : pool[h] # NoOrder /\ pool[h].est > 0})
          + Cardinality({p \in RingSlots : recent[p] # NoRecord /\ recent[p].est > 0})

\* The orders reconcile_end() has still to end stay open until it ends them, and they are the orders
\* it found unseen: an order its callback places meanwhile, possibly in a slot just freed, is not
\* among them when it is above the watermark.
EndingOrdersAreUnseen ==
  ending \subseteq Unseen

=============================================================================
