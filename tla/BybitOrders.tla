---------------------------- MODULE BybitOrders ----------------------------
(***************************************************************************)
(* The order path of one venue, end to end: the engine with its order      *)
(* table (Oms) and the quantity it books, the Bybit spot connector         *)
(* (src/venues/bybit/bybit_venue.cpp) with its execution replay            *)
(* (ReplayScheduler), reconciliation driver (ReconcileDriver) and sent     *)
(* watermark (SentWatermark), and the venue.                               *)
(*                                                                         *)
(* The engine and the connector are two threads joined by two rings.  The  *)
(* venue answers requests on the trade connection and publishes order      *)
(* states and executions on two topics of the private stream, which may be *)
(* lost: what it carried is gone, what happens meanwhile is never          *)
(* published, and the reconnect replays the executions and then asks for   *)
(* the open orders, both over REST.                                        *)
(*                                                                         *)
(* Left out: the trade connection's loss and orders over REST, the         *)
(* start-up sweep, rate limits and venue-fatal errors, the shadow table's  *)
(* capacity (8192), prices of fills and fees.                              *)
(***************************************************************************)
EXTENDS Oms, SequencesExt

CONSTANTS
  Amends,       \* cfg_.supports_replace
  MaxRing,      \* the connector reads its next input when fewer events wait for the engine
  MaxDrops,     \* losses of the private stream
  MaxFails,     \* REST queries that fail
  Sweeps,       \* the periodic execution replay runs (sweep_ns)
  MaxTimeouts,  \* requests the venue takes longer than kUnansweredNs to answer
  MaxEnded,     \* orders the venue ends on its own
  MaxFaults     \* of these four kinds of fault, in one behaviour

ASSUME BybitAssumption ==
  /\ Amends \in BOOLEAN
  /\ MaxRing \in Nat \ {0}
  /\ Sweeps \in BOOLEAN
  /\ MaxDrops \in Nat /\ MaxFails \in Nat /\ MaxTimeouts \in Nat
  /\ MaxEnded \in Nat /\ MaxFaults \in Nat

VARIABLES
  booked,       \* quantity the engine put in the position (positions_.on_fill)
  cmds,         \* outbound ring: engine -> connector
  ring,         \* order ring: connector -> engine
  shadow,       \* shadows_: client order id -> [link, replaces], or NoShadow
  alias,        \* aliases_: orderLinkId -> the id the engine knows the order by, or NoId
  sentTo,       \* SentWatermark::high_
  unanswered,   \* in flight and not answered
  up,           \* private_conn_.is_live()
  replay,       \* the execution replay: its state, the rows read, the rows emitted so far
  recon,        \* the reconciliation driver
  wire,         \* requests on the trade connection
  resp,         \* responses on the trade connection
  ordTopic,     \* private stream, topic `order`
  exTopic,      \* private stream, topic `execution`
  orders,       \* venue: orderLinkId -> order
  trades,       \* venue: the account's executions, oldest first; the id is the position
  budget        \* what is left of MaxDrops, MaxFails, MaxTimeouts, MaxEnded and MaxFaults

engine    == <<vars, booked>>
idMaps    == <<shadow, alias>>
watermark == <<sentTo, unanswered>>
rest      == <<replay, recon>>
trade     == <<wire, resp>>
topics    == <<ordTopic, exTopic>>
venue     == <<orders, trades>>
allVars   == <<engine, cmds, ring, idMaps, watermark, up, rest, trade, topics, venue, budget>>

\* One more fault of this kind, while the bounds allow it.
Fault(kind) ==
  /\ budget[kind] > 0 /\ budget.all > 0
  /\ budget' = [budget EXCEPT ![kind] = @ - 1, !.all = @ - 1]

NoShadow  == [link |-> NoId, replaces |-> NoId]
NoVenueOrder == [st |-> "None", qty |-> 0, cum |-> 0]
TradeIds  == 1 .. Len(trades)

-----------------------------------------------------------------------------
(***************************************************************************)
(* The engine (include/fastmm/core/engine.hpp).                            *)
(***************************************************************************)

Send(c)   == cmds' = Append(cmds, c)
CancelCmd(id) == [kind |-> "Cancel", id |-> id, orig |-> NoId, qty |-> 0]

EngineSubmit ==
  /\ \E h \in Slots, s \in Sides, px \in Prices, q \in 1 .. MaxQty :
       /\ Submit(h, s, px, q)
       /\ Send([kind |-> "New", id |-> seq + 1, orig |-> NoId, qty |-> q])
  /\ UNCHANGED <<booked, ring, idMaps, watermark, up, rest, trade, topics, venue, budget>>

\* submit_cancel(), and sweep_acks() for an order without an ack.
EngineCancel ==
  /\ \E h \in Slots :
       /\ RequestCancel(h) \/ RequestCancelUnacked(h)
       /\ Send(CancelCmd(pool[h].id))
  /\ UNCHANGED <<booked, ring, idMaps, watermark, up, rest, trade, topics, venue, budget>>

\* submit_replace()
EngineReplace ==
  /\ Amends
  /\ \E h \in Slots, px \in Prices, q \in 1 .. MaxQty :
       /\ RequestReplace(h, px, q)
       /\ Send([kind |-> "Replace", id |-> seq + 1, orig |-> pool[h].id, qty |-> q])
  /\ UNCHANGED <<booked, ring, idMaps, watermark, up, rest, trade, topics, venue, budget>>

\* book_missed_fill(): the filled quantity the venue reports ahead of its executions.
Missed(id, cum) == IF IsOpen(id) THEN MissedQty(pool[SlotOf(id)], cum) ELSE 0
\* on_fill(): the part of the execution that no estimate has put in the position.
Fresh(m)        == IF Duplicate(m) THEN 0 ELSE m.qty - CorrectedQty(m)

Book(q)              == booked' = booked + q
\* cancel_unknown(): a bare cancel for an order nothing tracks.
CancelUnknown(id, b) == IF b THEN Send(CancelCmd(id)) ELSE UNCHANGED cmds

\* The order events, in the order the connector pushed them.
EngineHandle ==
  /\ ring # <<>>
  /\ ring' = Tail(ring)
  /\ LET m == Head(ring)
     IN  \/ m.t = "ack" /\ OnAck(m.id, FALSE) /\ Book(0)
                        /\ CancelUnknown(m.id, AckOfUntracked(m.id))
         \/ m.t = "reject" /\ OnReject(m.id) /\ Book(0) /\ UNCHANGED cmds
         \/ m.t = "cancelAck" /\ OnCancelAck(m.id, m.cum) /\ Book(Missed(m.id, m.cum))
                              /\ UNCHANGED cmds
         \/ m.t = "cancelReject" /\ OnCancelReject(m.id, m.gone) /\ Book(0) /\ UNCHANGED cmds
         \/ m.t = "fill" /\ OnFill(m.fill) /\ Book(Fresh(m.fill)) /\ UNCHANGED cmds
         \/ m.t = "begin" /\ ReconcileBegin([bounded |-> TRUE, watermark |-> m.mark])
                          /\ Book(0) /\ UNCHANGED cmds
         \/ m.t = "row" /\ ReconcileOpenOrder(m.id, m.cum) /\ Book(Missed(m.id, m.cum))
                        /\ CancelUnknown(m.id, ~IsOpen(m.id))
         \/ m.t = "end" /\ ReconcileEnd /\ Book(0) /\ UNCHANGED cmds
  /\ UNCHANGED <<idMaps, watermark, up, rest, trade, topics, venue, budget>>

EngineEndUnseen ==
  /\ \E h \in Slots : EndUnseen(h)
  /\ UNCHANGED <<booked, cmds, ring, idMaps, watermark, up, rest, trade, topics, venue, budget>>

-----------------------------------------------------------------------------
(***************************************************************************)
(* The connector: reactor thread.  It reads its next input while the ring  *)
(* to the engine holds fewer than MaxRing events.                          *)
(***************************************************************************)

Ready   == Len(ring) < MaxRing
Push(m) == ring' = Append(ring, m)

CurrentId(link) == IF alias[link] # NoId THEN alias[link] ELSE link
Known(id)       == shadow[id] # NoShadow

\* forget_order() for every id of a set.
ForgetAll(gone) ==
  LET links == {shadow[id].link : id \in {g \in gone : Known(g) /\ shadow[g].link # g}}
  IN  /\ shadow' = [id \in Ids |-> IF id \in gone THEN NoShadow ELSE shadow[id]]
      /\ alias' = [l \in Ids |-> IF l \in links THEN NoId ELSE alias[l]]
Forget(id) == ForgetAll({id})

Answered(id) == unanswered' = unanswered \ {id} /\ UNCHANGED sentTo

\* ReplayScheduler::run(): starts a replay, or joins the one running.
Asked(p) == IF p.st = "idle" THEN [p EXCEPT !.st = "asked", !.owed = FALSE] ELSE p

\* ReconcileDriver::request(): the replay first, then the snapshot; one already waiting for its
\* replay serves this request too, one in flight is followed by another, and a retry is replaced.
Request ==
  \/ /\ recon.st \in {"idle", "retry"}
     /\ recon' = [recon EXCEPT !.st = "waiting"]
     /\ replay' = Asked(replay)
  \/ recon.st = "waiting" /\ UNCHANGED rest
  \/ recon.st \in {"asked", "read"} /\ recon' = [recon EXCEPT !.again = TRUE] /\ UNCHANGED replay

\* write_orders() and send_command(): the watermark notes a New or a Replace, and an amend of an
\* order the connector no longer knows is refused.
TakeCommand ==
  /\ Ready /\ cmds # <<>>
  /\ cmds' = Tail(cmds)
  /\ LET c == Head(cmds)
     IN  /\ IF c.kind = "Cancel" THEN UNCHANGED watermark
            ELSE sentTo' = c.id /\ unanswered' = unanswered \cup {c.id}
         /\ \/ /\ c.kind = "New"
               /\ shadow' = [shadow EXCEPT ![c.id] = [link |-> c.id, replaces |-> NoId]]
               /\ wire' = Append(wire, [kind |-> "New", id |-> c.id, link |-> c.id, qty |-> c.qty])
               /\ UNCHANGED ring
            \/ /\ c.kind = "Cancel"
               /\ wire' = Append(wire,
                    [kind |-> "Cancel", id |-> c.id, qty |-> 0,
                     link |-> IF Known(c.id) THEN shadow[c.id].link ELSE c.id])
               /\ UNCHANGED <<shadow, ring>>
            \/ /\ c.kind = "Replace" /\ Known(c.orig)
               /\ shadow' = [shadow EXCEPT ![c.id] =
                               [link |-> shadow[c.orig].link, replaces |-> c.orig]]
               /\ wire' = Append(wire, [kind |-> "Replace", id |-> c.id, qty |-> c.qty,
                                        link |-> shadow[c.orig].link])
               /\ UNCHANGED ring
            \/ /\ c.kind = "Replace" /\ ~Known(c.orig)
               /\ Push([t |-> "reject", id |-> c.id])
               /\ UNCHANGED <<shadow, wire>>
  /\ UNCHANGED <<engine, alias, up, rest, resp, topics, venue, budget>>

\* handle_order_response(): the answer is "ok", "gone" (order does not exist) or "refused".  An amend keeps
\* the venue's order: its link is aliased to the new id.  "gone" also asks for a reconciliation
\* (VenueAction::Reconcile).
TradeResponse ==
  /\ Ready /\ resp # <<>>
  /\ resp' = Tail(resp)
  /\ LET r == Head(resp)
     IN  /\ IF r.kind = "Cancel" THEN UNCHANGED watermark ELSE Answered(r.id)
         /\ IF r.is = "gone" THEN Request ELSE UNCHANGED rest
         /\ \/ r.kind = "New" /\ r.is = "ok" /\ Push([t |-> "ack", id |-> r.id]) /\ UNCHANGED idMaps
            \/ r.kind = "New" /\ r.is # "ok" /\ Push([t |-> "reject", id |-> r.id]) /\ Forget(r.id)
            \/ r.kind = "Cancel" /\ r.is = "ok" /\ up /\ UNCHANGED <<ring, idMaps>>
            \/ /\ r.kind = "Cancel" /\ r.is = "ok" /\ ~up
               /\ Push([t |-> "cancelAck", id |-> r.id, cum |-> 0])
               /\ Forget(r.id)
            \/ /\ r.kind = "Cancel" /\ r.is # "ok"
               /\ Push([t |-> "cancelReject", id |-> r.id, gone |-> r.is = "gone"])
               /\ UNCHANGED idMaps
            \/ /\ r.kind = "Replace" /\ r.is = "ok"
               /\ Push([t |-> "ack", id |-> r.id])
               /\ IF Known(r.id)
                  THEN /\ alias' = [alias EXCEPT ![shadow[r.id].link] = r.id]
                       /\ shadow' = [shadow EXCEPT ![shadow[r.id].replaces] = NoShadow]
                  ELSE UNCHANGED idMaps
            \/ /\ r.kind = "Replace" /\ r.is # "ok"
               /\ Push([t |-> "reject", id |-> r.id])
               /\ shadow' = [shadow EXCEPT ![r.id] = NoShadow]
               /\ UNCHANGED alias
  /\ UNCHANGED <<engine, cmds, up, wire, topics, venue, budget>>

\* on_private_text() for an item of the `order` topic: New acknowledges, Rejected refuses, Cancelled
\* ends the order with its cumulative quantity; the fills are left to the executions.  Deactivated
\* is the end of a conditional order, which the connector never sends.
OrderEvent ==
  /\ Ready /\ ordTopic # <<>>
  /\ ordTopic' = Tail(ordTopic)
  /\ LET e  == Head(ordTopic)
         id == CurrentId(e.link)
     IN  /\ Answered(id)
         /\ \/ e.status = "New" /\ Push([t |-> "ack", id |-> id]) /\ UNCHANGED idMaps
            \/ e.status = "Rejected" /\ Push([t |-> "reject", id |-> id]) /\ Forget(id)
            \/ e.status = "Cancelled" /\ Push([t |-> "cancelAck", id |-> id, cum |-> e.cum])
                                      /\ Forget(id)
  /\ UNCHANGED <<engine, cmds, up, rest, trade, exTopic, venue, budget>>

\* on_private_text() for an item of the `execution` topic.
ExecutionEvent ==
  /\ Ready /\ exTopic # <<>>
  /\ exTopic' = Tail(exTopic)
  /\ LET e  == Head(exTopic)
         id == CurrentId(e.link)
     IN  /\ Answered(id)
         /\ IF e.leaves = 0 THEN Forget(id) ELSE UNCHANGED idMaps
         /\ Push([t |-> "fill", fill |-> [id |-> id, exec |-> e.exec, qty |-> e.qty,
                                          cum |-> e.cum, replayed |-> FALSE]])
  /\ UNCHANGED <<engine, cmds, up, rest, trade, ordTopic, venue, budget>>

\* on_private_state(): what the stream carried is lost with it; its return asks for a
\* reconciliation.
PrivateLost ==
  /\ up /\ Fault("drops")
  /\ up' = FALSE
  /\ ordTopic' = <<>> /\ exTopic' = <<>>
  /\ UNCHANGED <<engine, cmds, ring, idMaps, watermark, rest, trade, venue>>

PrivateLive ==
  /\ ~up
  /\ up' = TRUE
  /\ Request
  /\ UNCHANGED <<engine, cmds, ring, idMaps, watermark, trade, topics, venue, budget>>

-----------------------------------------------------------------------------
(***************************************************************************)
(* Replay and reconciliation.                                              *)
(***************************************************************************)

\* Fault: requests in flight do not hold the watermark back.
MarkLastSent == sentTo

\* SentWatermark::mark(): the id sent before the first one not answered.  One engine issues its ids
\* in the order it sends them.
Mark == IF unanswered = {} THEN sentTo ELSE Min(unanswered) - 1

\* An id without an answer for kUnansweredNs no longer holds the watermark back.
AnswerTimeout ==
  /\ unanswered # {} /\ Fault("timeouts")
  /\ unanswered' = unanswered \ {Min(unanswered)}
  /\ UNCHANGED <<engine, cmds, ring, idMaps, sentTo, up, rest, trade, topics, venue>>

\* ReconcileDriver::fetch(), when a snapshot waits for the replay that just ended.
Fetch(complete) ==
  recon' = IF recon.st = "waiting"
           THEN [recon EXCEPT !.st = "asked", !.mark = Mark, !.exact = complete] ELSE recon

\* emit_execution(): a row as a replayed fill, without a cumulative quantity.
ReplayedFill(i) ==
  [t |-> "fill", fill |-> [id |-> CurrentId(trades[i].link), exec |-> i, qty |-> trades[i].qty,
                           cum |-> 0, replayed |-> TRUE]]

\* Fault: the replay's watermark moves to now, not to the end of what was read.
ReplayDoneToNow ==
  /\ Ready /\ replay.st = "read"
  /\ ring' = ring \o [i \in 1 .. replay.rows - replay.emitted |-> ReplayedFill(replay.emitted + i)]
  /\ replay' = [st |-> "idle", rows |-> 0, emitted |-> Len(trades), owed |-> FALSE]
  /\ Fetch(TRUE)
  /\ UNCHANGED <<engine, cmds, idMaps, watermark, up, trade, topics, venue, budget>>

\* The replay read in full: the rows not emitted before, oldest first, then Hooks::finished.
ReplayDone ==
  /\ Ready /\ replay.st = "read"
  /\ ring' = ring \o [i \in 1 .. replay.rows - replay.emitted |-> ReplayedFill(replay.emitted + i)]
  /\ replay' = [st |-> "idle", rows |-> 0, emitted |-> replay.rows, owed |-> FALSE]
  /\ Fetch(TRUE)
  /\ UNCHANGED <<engine, cmds, idMaps, watermark, up, trade, topics, venue, budget>>

\* A query fails or times out: the snapshot goes ahead, not exact, and the replay runs again later.
ReplayFailed ==
  /\ replay.st = "asked" /\ Fault("fails")
  /\ replay' = [replay EXCEPT !.st = "idle", !.owed = TRUE]
  /\ Fetch(FALSE)
  /\ UNCHANGED <<engine, cmds, ring, idMaps, watermark, up, trade, topics, venue>>

\* ReplayScheduler::on_timer(): the retry of an incomplete replay, and the periodic one.
ReplayTimer ==
  /\ replay.st = "idle"
  /\ replay.owed \/ Sweeps
  /\ replay' = [replay EXCEPT !.st = "asked", !.owed = FALSE]
  /\ UNCHANGED <<engine, cmds, ring, idMaps, watermark, up, recon, trade, topics, venue, budget>>

\* fetched(ok): Begin, the rows, End; the shadows the snapshot settles are dropped; a request that
\* came meanwhile starts the next one.
SnapshotDone ==
  /\ Ready /\ recon.st = "read"
  /\ LET links == SetToSeq({l \in Ids : recon.snap[l] # NoVenueOrder})
         rows  == [i \in DOMAIN links |->
                     [t |-> "row", id |-> CurrentId(links[i]), cum |-> recon.snap[links[i]].cum]]
         named == {rows[i].id : i \in DOMAIN rows}
     IN  /\ ring' = ring \o <<[t |-> "begin", mark |-> recon.mark, exact |-> recon.exact]>>
                         \o rows \o <<[t |-> "end"]>>
         /\ ForgetAll({id \in Ids : Known(id) /\ id <= recon.mark /\ id \notin named})
  /\ recon' = [st |-> IF recon.again THEN "waiting" ELSE "idle", mark |-> NoId, exact |-> FALSE,
               again |-> FALSE, snap |-> [l \in Ids |-> NoVenueOrder]]
  /\ replay' = IF recon.again THEN Asked(replay) ELSE replay
  /\ UNCHANGED <<engine, cmds, watermark, up, trade, topics, venue, budget>>

\* fetched(not ok) or its timeout: asked again after kRetryNs.
SnapshotFailed ==
  /\ recon.st = "asked" /\ Fault("fails")
  /\ recon' = [recon EXCEPT !.st = "retry", !.mark = NoId, !.exact = FALSE, !.again = FALSE]
  /\ UNCHANGED <<engine, cmds, ring, idMaps, watermark, up, replay, trade, topics, venue>>

\* ReconcileDriver::on_timer(): the retry, replay included.
SnapshotRetry ==
  /\ recon.st = "retry"
  /\ Request
  /\ UNCHANGED <<engine, cmds, ring, idMaps, watermark, up, trade, topics, venue, budget>>

-----------------------------------------------------------------------------
(***************************************************************************)
(* The venue (external): what the connector relies on.                     *)
(***************************************************************************)

Publish(topic, e) == IF up THEN Append(topic, e) ELSE topic
Reply(r, is)      == resp' = Append(resp, [kind |-> r.kind, id |-> r.id, is |-> is])

VenueTake ==
  /\ wire # <<>>
  /\ wire' = Tail(wire)
  /\ LET r == Head(wire)
         o == orders[r.link]
         Says(status) == ordTopic' = Publish(ordTopic, [link |-> r.link, status |-> status,
                                                        cum |-> o.cum])
     IN  \/ /\ r.kind = "New"
            /\ orders' = [orders EXCEPT ![r.link] = [st |-> "Open", qty |-> r.qty, cum |-> 0]]
            /\ Reply(r, "ok") /\ Says("New")
         \/ r.kind = "New" /\ Reply(r, "refused") /\ UNCHANGED <<orders, ordTopic>>
         \/ r.kind = "New" /\ Reply(r, "ok") /\ Says("Rejected") /\ UNCHANGED orders
         \/ /\ r.kind = "Cancel" /\ o.st = "Open"
            /\ orders' = [orders EXCEPT ![r.link].st = "Done"]
            /\ Reply(r, "ok") /\ Says("Cancelled")
         \/ /\ r.kind = "Replace" /\ o.st = "Open" /\ r.qty > o.cum
            /\ orders' = [orders EXCEPT ![r.link].qty = r.qty]
            /\ Reply(r, "ok")
            /\ IF o.cum = 0 THEN Says("New") ELSE UNCHANGED ordTopic
         \/ /\ r.kind = "Replace" /\ o.st = "Open" /\ r.qty <= o.cum
            /\ Reply(r, "refused") /\ UNCHANGED <<orders, ordTopic>>
         \/ /\ r.kind # "New" /\ o.st # "Open"
            /\ Reply(r, "gone") /\ UNCHANGED <<orders, ordTopic>>
  /\ UNCHANGED <<engine, cmds, ring, idMaps, watermark, up, rest, exTopic, trades, budget>>

\* The venue ends an order nobody asked it to cancel.
VenueCancel ==
  /\ Fault("ended")
  /\ \E l \in Ids :
       /\ orders[l].st = "Open"
       /\ orders' = [orders EXCEPT ![l].st = "Done"]
       /\ ordTopic' = Publish(ordTopic, [link |-> l, status |-> "Cancelled", cum |-> orders[l].cum])
  /\ UNCHANGED <<engine, cmds, ring, idMaps, watermark, up, rest, trade, exTopic, trades>>

VenueFill ==
  /\ \E l \in Ids : orders[l].st = "Open" /\ \E q \in 1 .. orders[l].qty - orders[l].cum :
       LET cum    == orders[l].cum + q
           leaves == orders[l].qty - cum
       IN  /\ orders' = [orders EXCEPT ![l].cum = cum, ![l].st = IF leaves = 0 THEN "Done" ELSE @]
           /\ trades' = Append(trades, [link |-> l, qty |-> q])
           /\ exTopic' = Publish(exTopic, [link |-> l, exec |-> Len(trades) + 1, qty |-> q,
                                           cum |-> cum, leaves |-> leaves])
  /\ UNCHANGED <<engine, cmds, ring, idMaps, watermark, up, rest, trade, ordTopic, budget>>

\* The REST queries are answered from the venue's state at one moment between request and reply.
VenueReadsExecutions ==
  /\ replay.st = "asked"
  /\ replay' = [replay EXCEPT !.st = "read", !.rows = Len(trades)]
  /\ UNCHANGED <<engine, cmds, ring, idMaps, watermark, up, recon, trade, topics, venue, budget>>

VenueReadsOpenOrders ==
  /\ recon.st = "asked"
  /\ recon' = [recon EXCEPT !.st = "read",
                 !.snap = [l \in Ids |-> IF orders[l].st = "Open" THEN orders[l] ELSE NoVenueOrder]]
  /\ UNCHANGED <<engine, cmds, ring, idMaps, watermark, up, replay, trade, topics, venue, budget>>

-----------------------------------------------------------------------------
BybitInit ==
  /\ Init
  /\ booked = 0
  /\ cmds = <<>> /\ ring = <<>>
  /\ shadow = [id \in Ids |-> NoShadow]
  /\ alias = [l \in Ids |-> NoId]
  /\ sentTo = NoId /\ unanswered = {}
  /\ up = TRUE
  /\ replay = [st |-> "idle", rows |-> 0, emitted |-> 0, owed |-> FALSE]
  /\ recon = [st |-> "idle", mark |-> NoId, exact |-> FALSE, again |-> FALSE,
              snap |-> [l \in Ids |-> NoVenueOrder]]
  /\ wire = <<>> /\ resp = <<>> /\ ordTopic = <<>> /\ exTopic = <<>>
  /\ orders = [l \in Ids |-> NoVenueOrder]
  /\ trades = <<>>
  /\ budget = [drops |-> MaxDrops, fails |-> MaxFails, timeouts |-> MaxTimeouts,
               ended |-> MaxEnded, all |-> MaxFaults]

EngineNext    == EngineSubmit \/ EngineCancel \/ EngineReplace \/ EngineHandle \/ EngineEndUnseen
ConnectorNext == \/ TakeCommand \/ TradeResponse \/ OrderEvent \/ ExecutionEvent
                 \/ PrivateLost \/ PrivateLive \/ AnswerTimeout
                 \/ ReplayDone \/ ReplayFailed \/ ReplayTimer
                 \/ SnapshotDone \/ SnapshotFailed \/ SnapshotRetry
VenueNext     == VenueTake \/ VenueCancel \/ VenueFill \/ VenueReadsExecutions \/ VenueReadsOpenOrders
BybitNext     == EngineNext \/ ConnectorNext \/ VenueNext

BybitSpec == BybitInit /\ [][BybitNext]_allVars

\* What EngineHandle, and no other action, does to the ring.
TakesEvent == ring # <<>> /\ ring' = Tail(ring)

\* What keeps running: both threads take what waits for them, the venue answers, a lost stream
\* reconnects (Connection retries without limit) and the housekeeping timer fires.  The strategy,
\* the market and the faults owe nothing.
Fairness ==
  /\ WF_ring(TakesEvent) /\ WF_allVars(EngineEndUnseen)
  /\ WF_allVars(TakeCommand) /\ WF_allVars(TradeResponse)
  /\ WF_allVars(OrderEvent) /\ WF_allVars(ExecutionEvent)
  /\ WF_allVars(PrivateLive)
  /\ WF_allVars(ReplayTimer) /\ WF_allVars(ReplayDone)
  /\ WF_allVars(SnapshotDone) /\ WF_allVars(SnapshotRetry)
  /\ WF_allVars(VenueTake) /\ WF_allVars(VenueReadsExecutions) /\ WF_allVars(VenueReadsOpenOrders)

BybitFairSpec == BybitSpec /\ Fairness

-----------------------------------------------------------------------------
(***************************************************************************)
(* Properties.                                                             *)
(***************************************************************************)

Executed == MapThenSumSet(LAMBDA i : trades[i].qty, TradeIds)

\* No quantity is in the position twice: the estimates booked from cumulative quantities, the live
\* executions and the replayed ones together never exceed what the venue executed, in whatever
\* order acks, executions, replays and snapshots arrive (CorrectedQty, book_missed_fill).
NoDoubleBooking == booked <= Executed

\* Every execution the venue made is in the position in the end, those it made while the private
\* stream was down and those whose order ended meanwhile included (the replay, its retry and the
\* periodic one).
EventuallyBooked == <>[](booked = Executed)

\* Nothing is under way between the engine and the venue.
AtRest ==
  /\ cmds = <<>> /\ ring = <<>> /\ wire = <<>> /\ resp = <<>>
  /\ ordTopic = <<>> /\ exTopic = <<>>
  /\ up /\ replay.st = "idle" /\ ~replay.owed /\ recon.st = "idle" /\ ending = {}

TrackedIds == {pool[h].id : h \in {g \in Slots : Live(g)}}
RestingIds == {CurrentId(l) : l \in {k \in Ids : orders[k].st = "Open"}}

\* Once everything has arrived, the engine tracks every order that rests at the venue: none is left
\* live and unknown (Engine::cancel_unknown).
RestingOrdersAreTracked == AtRest => RestingIds \subseteq TrackedIds

=============================================================================
