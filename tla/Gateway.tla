---------------------------- MODULE Gateway ----------------------------
(***************************************************************************)
(* fastmm-gateway (src/src/live/gateway.cpp): one venue's router between   *)
(* the connector and the strategy processes attached to it, each of which  *)
(* trades an instrument of its own.  Strategies are killed and come back   *)
(* with what their store had written; the gateway is killed; the private   *)
(* stream is lost; the account's kill switch trips.                        *)
(*                                                                         *)
(* An execution is named by its place in `execs`, which is also its venue  *)
(* time; a client order id by its session's epoch and a number.  The       *)
(* gateway reads a strategy's outbound ring in the step that writes it     *)
(* (MsgRing is about the ring itself).  Left out: executions sent before   *)
(* their order is known (kUnresolved: some connectors other than Bybit's   *)
(* send them), and the venue's own positions, which overwrite the          *)
(* account's.                                                              *)
(***************************************************************************)
EXTENDS Integers, FiniteSets, SequencesExt

CONSTANTS Strats,       \* the strategies, by [engine] name
          HistCap,      \* kHistory
          ParkCap,      \* kMaxParked
          Overlap,      \* kResumeOverlapMs
          Fallback,     \* kFallbackOverlapNs
          Lagging,      \* the private stream may be behind the trade history
          MaxRing,      \* bound: the network thread goes on while engines lag less than this
          MaxOpen,      \* bound: orders a strategy works at a time
          Bounds        \* bounds of a behaviour: the strategies that run, and how many orders,
                        \* fills, requests (an engine's cancels and reconciliations) and faults
                        \* there are

ASSUME GatewayAssumption ==
    /\ Strats # {} /\ IsFiniteSet(Strats)
    /\ {Overlap, Fallback, MaxRing, MaxOpen} \subseteq Nat
    /\ {HistCap, ParkCap} \subseteq Nat \ {0}
    /\ Lagging \in BOOLEAN
    /\ Bounds \subseteq [who : SUBSET Strats, order : Nat, fill : Nat, request : Nat,
                    fault : Nat]

VARIABLES proc,      \* per strategy: does its process run
          eng,       \* per strategy: its engine (position, open orders)
          store,     \* per strategy: what its store holds
          gw,        \* the gateway's router and account, and the order rings it writes
          sessions,  \* the strategy each session epoch was given to (the epoch file)
          conn,      \* the connector: private stream, execution replay, reconciliation
          wire,      \* commands on their way to the venue
          resp,      \* the venue's responses to them
          stream,    \* the private stream: fills and cancels
          resting,   \* the venue's open orders
          execs,     \* the venue's executions
          tripped,   \* the account's kill switch (Account::tripped)
          left       \* what is left of the behaviour's bounds

strategy == <<proc, eng, store>>
venue == <<wire, resp, stream, resting, execs>>
vars == <<strategy, gw, sessions, conn, venue, tripped, left>>

NoId == [epoch |-> 0, n |-> 0]
NoRoute == [epoch |-> 0, from |-> 0, known |-> {}, unparked |-> {}, snap |-> FALSE]
NoSeed == [held |-> {}, from |-> 0, known |-> {}]
NoReader == <<[type |-> "no reader"]>>
NoOrders == [id \in {} |-> NoId]

NewGateway == [route |-> [s \in Strats |-> NoRoute], ring |-> [s \in Strats |-> NoReader],
               orders |-> NoOrders, hist |-> <<>>, sweep |-> FALSE, killed |-> FALSE,
               seeded |-> {}, seed |-> [s \in Strats |-> NoSeed], booked |-> {},
               parked |-> <<>>, cancels |-> {}]
NewConnector == [up |-> FALSE, answered |-> {}, active |-> FALSE, from |-> Len(execs) + 1,
                 known |-> {}, again |-> 0, phase |-> "idle", pending |-> FALSE,
                 mark |-> NoId, rows |-> {}]
NewEngine == [epoch |-> 0, start |-> 0, restored |-> {}, log |-> <<>>, mine |-> {}, last |-> 0,
              ready |-> FALSE]

NewStore == [held |-> {}, whole |-> 0, loose |-> 0, anchored |-> FALSE, first |-> 0, clean |-> 0,
             passed |-> {}]

Init ==
    /\ proc = [s \in Strats |-> FALSE]
    /\ eng = [s \in Strats |-> NewEngine]
    /\ store = [s \in Strats |-> NewStore]
    /\ execs = <<>>
    /\ gw = NewGateway
    /\ sessions = <<>>
    /\ conn = [NewConnector EXCEPT !.up = TRUE]
    /\ wire = {} /\ resp = <<>> /\ stream = <<>> /\ resting = {}
    /\ tripped = FALSE
    /\ left \in Bounds

\* One more event of a bounded kind.
Spend(kind) ==
    /\ left[kind] > 0
    /\ left' = [left EXCEPT ![kind] = @ - 1]

Trader(e) == sessions[execs[e].id.epoch]

(***************************************************************************)
(* The connector.  request_open_orders() runs the execution replay, then   *)
(* asks for the open orders; what is asked for meanwhile follows.          *)
(***************************************************************************)
RunReplay(c) == [c EXCEPT !.active = TRUE]

Request(c) ==
    IF c.phase = "idle" THEN RunReplay([c EXCEPT !.phase = "replay"])
                        ELSE [c EXCEPT !.pending = TRUE]

Resume(c, since, known) ==
    IF c.active
    THEN [c EXCEPT !.known = @ \cup known,
                   !.again = IF @ = 0 THEN since ELSE Min({@, since})]
    ELSE [c EXCEPT !.known = known, !.from = since]

\* Fault: the watermark is the last id sent, answered or not.
LastSent(g, c) == IF g.hist = <<>> THEN NoId ELSE Last(g.hist)

\* SentWatermark::mark(): the last id sent before the first one not answered.
SentMark(g, c) ==
    LET open == {j \in DOMAIN g.hist : g.hist[j] \notin c.answered}
        last == IF open = {} THEN Len(g.hist) ELSE Min(open) - 1
    IN  IF last = 0 THEN NoId ELSE g.hist[last]

(***************************************************************************)
(* The router.                                                             *)
(***************************************************************************)
Attached(g) == {s \in Strats : g.route[s] # NoRoute}
Live(g, id) == \E s \in Attached(g) : g.route[s].epoch = id.epoch

\* push_order(): what is written to a dead process's ring is gone with it.
\* m gives each strategy its message.
PushAll(g, to, m) ==
    [g EXCEPT !.ring = [s \in Strats |-> IF s \in to /\ @[s] # NoReader THEN Append(@[s], m[s])
                                                                          ELSE @[s]]]
Push(g, s, m) == PushAll(g, {s}, [x \in {s} |-> m])

\* route_by_id(): a dead session's event is dropped.
RouteById(g, id, m) == IF Live(g, id) THEN Push(g, sessions[id.epoch], m) ELSE g

Untrack(g, ids) ==
    [g EXCEPT !.orders = [id \in DOMAIN @ \ ids |-> @[id]]]

CancelSent(g, id) == id \in DOMAIN g.orders /\ g.orders[id].cancelled

QueueCancels(g, ids) ==
    [g EXCEPT !.orders = [id \in DOMAIN @ |-> [cancelled |-> @[id].cancelled \/ id \in ids,
                                               g |-> @[id].g]],
              !.cancels = @ \cup ids]

Cancels(ids) == {[op |-> "cancel", id |-> id] : id \in ids}

\* The reactor iteration ends with gateway_hook() sending the cancels queued in it.
Route(g) ==
    /\ gw' = [g EXCEPT !.cancels = {}]
    /\ wire' = wire \cup Cancels(g.cancels)

HeldBy(h, e) == e < h.from \/ e \in h.known

\* account_fill(): every execution once, unless the account's seed holds it.
AccountFill(g, m) ==
    IF m.replayed /\ HeldBy(g.seed[Trader(m.e)], m.e) THEN g
                                                      ELSE [g EXCEPT !.booked = @ \cup {m.e}]

Park(g, m) == [g EXCEPT !.parked = Append(IF Len(@) = ParkCap THEN Tail(@) ELSE @, m)]

\* deliver_fill() of an instrument with an owner: to the order's session, else to the owner.  Every
\* execution names its order (no kUnresolved copies).
DeliverFill(g, m, unparking) ==
    LET s == Trader(m.e)
        r == g.route[s]
        h == AccountFill(g, m)
    IN  CASE s \notin g.seeded -> Park(g, m)
          [] s \in g.seeded /\ s \notin Attached(g) -> Park(h, m)
          [] OTHER ->
                IF \/ m.replayed /\ execs[m.e].id.epoch # r.epoch /\ HeldBy(r, m.e)
                   \/ m.replayed /\ ~unparking /\ m.e \in r.unparked
                THEN h
                ELSE Push([h EXCEPT !.route[s].unparked = IF unparking THEN @ \cup {m.e} ELSE @],
                          s, [type |-> "fill", e |-> m.e])

EnginesKeepUp == \A s \in Strats : proc[s] => Len(gw.ring[s]) < MaxRing

\* Fault: what was parked is delivered and stays parked.
UnparkKeeps(g) == FoldLeft(LAMBDA x, m : DeliverFill(x, m, TRUE), g, g.parked)

\* unpark(): every parked execution is routed again; what nobody receives stays.
Unpark(g) == FoldLeft(LAMBDA x, m : DeliverFill(x, m, TRUE), [g EXCEPT !.parked = <<>>], g.parked)

RouteFill(g, m) ==
    LET x == execs[m.e]
    IN  DeliverFill(IF ~m.replayed /\ x.last THEN Untrack(g, {x.id}) ELSE g, m, FALSE)

\* Fault: only orders this gateway tracks are cancelled.
UnmanagedKnown(g, id) == id \in DOMAIN g.orders /\ ~Live(g, id)

\* An order at the venue nobody manages: of a dead session, or left after an account trip.
Unmanaged(g, id) == ~Live(g, id) \/ (g.killed /\ ~CancelSent(g, id))

\* route_reconcile(), Begin to End: emit() pushes them in one go.  (No Position rows.)
RouteReconcile(g, mark, rows) ==
    LET lo == IF Len(g.hist) > HistCap THEN Len(g.hist) - HistCap ELSE 0
        found == {j \in (lo + 1)..Len(g.hist) : g.hist[j] = mark}
        known == mark = NoId \/ found # {}
        upTo == IF found = {} THEN 0 ELSE Max(found)
        all == ~g.sweep /\ \A s \in Attached(g) : ~g.route[s].snap
        to == {s \in Attached(g) : all \/ g.route[s].snap}
        own(s) == {j \in (lo + 1)..upTo : g.hist[j].epoch = g.route[s].epoch}
        msg == [s \in to |->
                  [type |-> "snapshot",
                   mark |-> IF own(s) = {} THEN NoId ELSE g.hist[Max(own(s))],
                   rows |-> {id \in rows : id.epoch = g.route[s].epoch}]]
        learned == {id \in rows : Live(g, id)} \ DOMAIN g.orders
        h == [g EXCEPT
                !.sweep = FALSE,
                !.route = [s \in Strats |-> IF s \in to THEN [@[s] EXCEPT !.snap = FALSE] ELSE @[s]],
                !.orders = [id \in DOMAIN @ \cup learned |->
                              IF id \in DOMAIN @ THEN @[id] ELSE [cancelled |-> FALSE, g |-> 1]]]
        dead == {id \in rows : Unmanaged(g, id)}
        gone == {id \in DOMAIN h.orders \ rows : known /\ h.orders[id].g <= upTo}
    IN  Untrack(QueueCancels(PushAll(h, to, msg), dead), gone)

\* forward() of a new order: through the account's guards to the venue.
ForwardNew(s, id) ==
    \/ /\ s \notin Attached(gw)
       /\ UNCHANGED <<gw, wire>>
    \/ /\ s \in Attached(gw) /\ tripped
       /\ gw' = Push(gw, s, [type |-> "ended", id |-> id])
       /\ UNCHANGED wire
    \/ /\ s \in Attached(gw) /\ ~tripped
       /\ gw' = [gw EXCEPT !.hist = Append(@, id),
                          !.orders = [x \in DOMAIN @ \cup {id} |->
                                        IF x \in DOMAIN @ THEN @[x]
                                        ELSE [cancelled |-> FALSE, g |-> Len(gw.hist) + 1]]]
       /\ wire' = wire \cup {[op |-> "new", id |-> id]}

(***************************************************************************)
(* A strategy process.  Its log is what it hands its store: executions and *)
(* 0, the reconciliation that began with the executions complete.          *)
(***************************************************************************)
Executions(log) == Range(log) \ {0}

\* Orders are refused until the first reconciliation has ended (await_reconcile).
Submit(s) ==
    /\ proc[s] /\ eng[s].ready /\ Cardinality(eng[s].mine) < MaxOpen
    /\ Spend("order")
    /\ LET id == [epoch |-> eng[s].epoch, n |-> eng[s].last + 1]
       IN  /\ eng' = [eng EXCEPT ![s].last = @ + 1, ![s].mine = @ \cup {id}]
           /\ ForwardNew(s, id)
    /\ UNCHANGED <<proc, store, sessions, conn, resp, stream, resting, execs, tripped>>

SubmitCancel(s) ==
    /\ proc[s] /\ s \in Attached(gw)
    /\ Spend("request")
    /\ \E id \in eng[s].mine : wire' = wire \cup Cancels({id})
    /\ UNCHANGED <<strategy, gw, sessions, conn, resp, stream, resting, execs, tripped>>

\* The engine asks for a reconciliation (ControlCommand::Reconcile).
AskReconcile(s) ==
    /\ proc[s] /\ s \in Attached(gw)
    /\ Spend("request")
    /\ gw' = [gw EXCEPT !.route[s].snap = TRUE]
    /\ conn' = Request(conn)
    /\ UNCHANGED <<strategy, sessions, venue, tripped>>

\* What the engine makes of one message of its order ring, and the cancels it answers with.
Handle(e, m) ==
    CASE m.type = "fill" ->
           IF m.e \in Range(e.log) THEN e
           ELSE [e EXCEPT !.log = Append(@, m.e),
                          !.mine = IF execs[m.e].last THEN @ \ {execs[m.e].id} ELSE @]
      [] m.type = "ended" -> [e EXCEPT !.mine = @ \ {m.id}]
      [] m.type = "snapshot" ->
           [e EXCEPT !.mine = {id \in @ : id \in m.rows \/ id.n > m.mark.n},
                     !.log = IF 0 \in Range(@) THEN @ ELSE Append(@, 0),
                     !.ready = TRUE]
      [] m.type = "kill" -> [e EXCEPT !.ready = FALSE]

Answers(e, m) ==
    CASE m.type = "snapshot" -> m.rows \ e.mine
      [] m.type = "kill" -> e.mine
      [] OTHER -> {}

ReadRing(s) ==
    /\ proc[s] /\ gw.ring[s] # <<>>
    /\ LET m == Head(gw.ring[s])
       IN  /\ eng' = [eng EXCEPT ![s] = Handle(@, m)]
           /\ wire' = IF s \in Attached(gw) THEN wire \cup Cancels(Answers(eng[s], m)) ELSE wire
    /\ gw' = [gw EXCEPT !.ring[s] = Tail(@)]
    /\ UNCHANGED <<proc, store, sessions, conn, resp, stream, resting, execs, tripped, left>>

\* The store of a session that began at `start` and ended having written `log`; `clean`: it wrote
\* its session_close().  The record is whole up to the newest session that got past its replay; what
\* later sessions wrote is loose.  History: `passed`, the executions the record goes past without
\* them: a later one was booked, or the session closed without those made before it began.
Saved(st, start, log, clean) ==
    LET new == Executions(log)
        held == st.held \cup new
        past == 0 \in Range(log)
        loose == IF new = {} THEN st.loose
                 ELSE IF st.loose = 0 THEN Max(new) ELSE Min({st.loose, Max(new)})
        upTo == Max(new \cup {IF clean THEN start - 1 ELSE 0})
    IN  [held |-> held,
         whole |-> IF past THEN Max(held \cup {0}) ELSE st.whole,
         loose |-> IF past THEN 0 ELSE loose,
         anchored |-> st.anchored \/ past,
         first |-> IF st.first = 0 THEN start ELSE st.first,
         clean |-> IF clean THEN start ELSE st.clean,
         passed |-> (st.passed \cup 1..upTo) \ held]

\* unbooked_since_ms: from the newest session that closed cleanly, else from the oldest.
UnbookedSince(st) == Max({1, (IF st.clean > 0 THEN st.clean ELSE st.first) - Fallback})

\* Fault: with nothing stored the replay starts now.
SinceNow(st) ==
    LET last == {st.whole, st.loose} \ {0}
    IN  IF last = {} THEN Len(execs) + 1 ELSE Max({1, Min(last) - Overlap})

\* Where the next session's replay starts (resume_points(), resume_plan()).
Since(st) ==
    LET last == {st.whole, st.loose} \ {0}
    IN  IF last = {} THEN UnbookedSince(st)
        ELSE IF st.anchored THEN Max({1, Min(last) - Overlap})
        ELSE Max({1, Min({Min(last) - Overlap, UnbookedSince(st)})})

\* kill -9: the store has written some first part of what it was handed.  An exit writes all of it
\* and closes the session.
Crash(s) ==
    /\ proc[s]
    /\ Spend("fault")
    /\ \E k \in 0..Len(eng[s].log), clean \in BOOLEAN :
          /\ clean => k = Len(eng[s].log)
          /\ store' = [store EXCEPT ![s] = Saved(@, eng[s].start, SubSeq(eng[s].log, 1, k), clean)]
    /\ proc' = [proc EXCEPT ![s] = FALSE]
    /\ eng' = [eng EXCEPT ![s] = NewEngine]
    /\ gw' = [gw EXCEPT !.ring[s] = NoReader]
    /\ UNCHANGED <<sessions, conn, venue, tripped>>

\* The gateway closed the attachment: the process ends, and its session is closed like any other.
Stop(s) ==
    /\ proc[s] /\ gw.route[s] = NoRoute
    /\ store' = [store EXCEPT ![s] = Saved(@, eng[s].start, eng[s].log, TRUE)]
    /\ proc' = [proc EXCEPT ![s] = FALSE]
    /\ eng' = [eng EXCEPT ![s] = NewEngine]
    /\ gw' = [gw EXCEPT !.ring[s] = NoReader]
    /\ UNCHANGED <<sessions, conn, venue, tripped, left>>

(***************************************************************************)
(* The gateway's main thread and its network thread.                       *)
(***************************************************************************)
Attach(s) ==
    /\ s \in left.who
    /\ ~proc[s] /\ gw.route[s] = NoRoute
    /\ ~tripped
    /\ LET epoch == Len(sessions) + 1
           resume == s \in Range(sessions)
           since == IF resume THEN Since(store[s]) ELSE Len(execs) + 1
           known == {e \in store[s].held : e >= since}
           route == [NoRoute EXCEPT !.epoch = epoch, !.from = since, !.known = known]
           seed == [held |-> store[s].held, from |-> since, known |-> known]
           g == [gw EXCEPT !.route[s] = route, !.ring[s] = <<>>,
                           !.seed[s] = IF s \in gw.seeded THEN @ ELSE seed,
                           !.seeded = @ \cup {s}]
           c == IF resume THEN RunReplay(Resume(conn, since, known)) ELSE conn
       IN  /\ gw' = [Unpark(g) EXCEPT !.route[s].snap = TRUE]
           /\ conn' = Request(c)
           /\ sessions' = Append(sessions, s)
           /\ eng' = [eng EXCEPT ![s] = [NewEngine EXCEPT !.epoch = epoch, !.start = Len(execs) + 1,
                                                             !.restored = store[s].held]]
    /\ proc' = [proc EXCEPT ![s] = TRUE]
    /\ UNCHANGED <<store, venue, tripped, left>>

\* The strategy's connection closed: its orders go, and the venue is asked what it holds.
Detach(s) ==
    /\ ~proc[s] /\ gw.route[s] # NoRoute
    /\ LET g == [gw EXCEPT !.route[s] = NoRoute, !.sweep = TRUE]
           own == {id \in DOMAIN gw.orders :
                     id.epoch = gw.route[s].epoch /\ ~CancelSent(gw, id)}
       IN  Route(QueueCancels(g, own))
    /\ conn' = Request(conn)
    /\ UNCHANGED <<proc, eng, store, sessions, resp, stream, resting, execs, tripped, left>>

\* Fault: the venue is marked killed and nothing is cancelled.
KillVenueDry ==
    /\ tripped /\ ~gw.killed
    /\ gw' = [gw EXCEPT !.killed = TRUE]
    /\ UNCHANGED <<strategy, sessions, conn, venue, tripped, left>>

\* kill_venue(), from the hook: everything known goes, then everything the venue lists.
KillVenue ==
    /\ tripped /\ ~gw.killed
    /\ EnginesKeepUp
    /\ LET known == {id \in DOMAIN gw.orders : ~CancelSent(gw, id)}
           g == PushAll(gw, Attached(gw), [s \in Strats |-> [type |-> "kill"]])
       IN  Route(QueueCancels([g EXCEPT !.killed = TRUE, !.sweep = TRUE], known))
    /\ conn' = Request(conn)
    /\ UNCHANGED <<strategy, sessions, resp, stream, resting, execs, tripped, left>>

\* route_order() of an OrderAck (which changes nothing the engine keeps here).
RouteAck(g, id) ==
    IF (~Live(g, id) \/ g.killed) /\ ~CancelSent(g, id) THEN QueueCancels(g, {id}) ELSE g

\* route_order() of an OrderCancelAck, or of an OrderCancelReject that says VenueUnknownOrder.
RouteEnd(g, id) == RouteById(Untrack(g, {id}), id, [type |-> "ended", id |-> id])

\* A response of the venue: the order is taken, or the order to cancel is unknown.
OnResponse ==
    /\ resp # <<>>
    /\ EnginesKeepUp
    /\ LET m == Head(resp)
       IN  \/ /\ m.type = "ack"
              /\ Route(RouteAck(gw, m.id))
              /\ conn' = [conn EXCEPT !.answered = @ \cup {m.id}]
           \/ /\ m.type = "unknown"
              /\ Route(RouteEnd(gw, m.id))
              /\ UNCHANGED conn
    /\ resp' = Tail(resp)
    /\ UNCHANGED <<strategy, sessions, stream, resting, execs, tripped, left>>

\* An event of the private stream: a fill, or the end of a cancelled order.
OnStream ==
    /\ stream # <<>>
    /\ EnginesKeepUp
    /\ LET m == Head(stream)
           id == IF m.type = "fill" THEN execs[m.e].id ELSE m.id
       IN  /\ gw' = IF m.type = "fill" THEN RouteFill(gw, [e |-> m.e, replayed |-> FALSE])
                    ELSE RouteEnd(gw, id)
           /\ conn' = [conn EXCEPT !.answered = @ \cup {id}]
    /\ stream' = Tail(stream)
    /\ UNCHANGED <<strategy, sessions, wire, resp, resting, execs, tripped, left>>

\* An execution of the trade history, unless the replay has it already.
ReplayRow(g, c, e) ==
    IF e >= c.from /\ e \notin c.known THEN RouteFill(g, [e |-> e, replayed |-> TRUE]) ELSE g

\* The replay's rows, oldest first; a restart asked for meanwhile is read next.
OnReplay ==
    /\ conn.active
    /\ EnginesKeepUp
    /\ Lagging \/ \A i \in DOMAIN stream : stream[i].type # "fill"
    /\ LET from == Len(execs) + 1
       IN  /\ gw' = FoldLeftDomain(LAMBDA g, e : ReplayRow(g, conn, e), gw, execs)
           /\ conn' = IF conn.again > 0
                      THEN [conn EXCEPT !.from = Min({from, conn.again}), !.again = 0]
                      ELSE IF conn.phase = "replay"
                      THEN [conn EXCEPT !.from = from, !.active = FALSE, !.phase = "asked",
                                        !.mark = SentMark(gw, conn)]
                      ELSE [conn EXCEPT !.from = from, !.active = FALSE]
    /\ UNCHANGED <<strategy, sessions, venue, tripped, left>>

\* The open orders' answer arrives: the snapshot is routed.
OnSnapshot ==
    /\ conn.phase = "read"
    /\ EnginesKeepUp
    /\ Route(RouteReconcile(gw, conn.mark, conn.rows))
    /\ LET c == [conn EXCEPT !.phase = "idle", !.pending = FALSE, !.mark = NoId, !.rows = {}]
       IN  conn' = IF conn.pending THEN Request(c) ELSE c
    /\ UNCHANGED <<strategy, sessions, resp, stream, resting, execs, tripped, left>>

Reconnect ==
    /\ ~conn.up
    /\ conn' = Request([conn EXCEPT !.up = TRUE])
    /\ UNCHANGED <<strategy, gw, sessions, venue, tripped, left>>

\* The private stream is lost with what it carried.
Disconnect ==
    /\ conn.up
    /\ Spend("fault")
    /\ conn' = [conn EXCEPT !.up = FALSE]
    /\ stream' = <<>>
    /\ UNCHANGED <<strategy, gw, sessions, wire, resp, resting, execs, tripped>>

\* The gateway is killed and started again: only the epoch file is left, and what was on its way
\* to or from the venue is lost.  (One whose kill switch is latched does not start.)
GatewayCrash ==
    /\ ~tripped
    /\ Spend("fault")
    /\ gw' = [NewGateway EXCEPT !.ring = gw.ring]
    /\ conn' = NewConnector
    /\ wire' = {} /\ resp' = <<>> /\ stream' = <<>>
    /\ UNCHANGED <<strategy, sessions, resting, execs, tripped>>

\* The account's net loss passed max_loss, seen by another venue's thread.
Trip ==
    /\ ~tripped
    /\ Spend("fault")
    /\ tripped' = TRUE
    /\ UNCHANGED <<strategy, gw, sessions, conn, venue>>

(***************************************************************************)
(* The venue (external).  A cancel does not overtake its order: the        *)
(* connector sends both on its one trade connection.                       *)
(***************************************************************************)
Publish(m) == stream' = IF conn.up THEN Append(stream, m) ELSE stream

VenueTakes(m) ==
    /\ m \in wire
    /\ m.op = "cancel" => [op |-> "new", id |-> m.id] \notin wire
    /\ wire' = wire \ {m}
    /\ \/ /\ m.op = "new"
          /\ resting' = resting \cup {m.id}
          /\ resp' = Append(resp, [type |-> "ack", id |-> m.id])
          /\ UNCHANGED stream
       \/ /\ m.op = "cancel" /\ m.id \in resting
          /\ resting' = resting \ {m.id}
          /\ Publish([type |-> "ended", id |-> m.id])
          /\ UNCHANGED resp
       \/ /\ m.op = "cancel" /\ m.id \notin resting
          /\ resp' = Append(resp, [type |-> "unknown", id |-> m.id])
          /\ UNCHANGED <<resting, stream>>
    /\ UNCHANGED <<strategy, gw, sessions, conn, execs, tripped, left>>

VenueFills(id) ==
    /\ Spend("fill")
    /\ \E last \in BOOLEAN :
          /\ execs' = Append(execs, [id |-> id, last |-> last])
          /\ resting' = IF last THEN resting \ {id} ELSE resting
    /\ Publish([type |-> "fill", e |-> Len(execs) + 1])
    /\ UNCHANGED <<strategy, gw, sessions, conn, wire, resp, tripped>>

VenueLists ==
    /\ conn.phase = "asked"
    /\ conn' = [conn EXCEPT !.phase = "read", !.rows = resting]
    /\ UNCHANGED <<strategy, gw, sessions, venue, tripped, left>>

\* What happens by itself, and what a strategy, a trade or a fault brings.
Progress ==
    \/ \E s \in Strats : ReadRing(s) \/ Stop(s) \/ Attach(s) \/ Detach(s)
    \/ KillVenue \/ OnResponse \/ OnStream \/ OnReplay \/ OnSnapshot \/ Reconnect
    \/ VenueLists \/ \E m \in wire : VenueTakes(m)

Next ==
    \/ Progress
    \/ \E s \in Strats : Submit(s) \/ SubmitCancel(s) \/ AskReconcile(s) \/ Crash(s)
    \/ \E id \in resting : VenueFills(id)
    \/ Disconnect \/ GatewayCrash \/ Trip

Spec == Init /\ [][Next]_vars

FairSpec == Spec /\ WF_vars(Progress)

(***************************************************************************)
(* Properties.                                                             *)
(***************************************************************************)

\* No execution counts twice, in a strategy's position or in the account's: not when it was parked
\* for a strategy that came back, nor when a replay brings what the store holds (deliver_fill(),
\* account_fill(), unpark()).
BookedOnce ==
    \A s \in Strats :
        /\ eng[s].restored \cap Executions(eng[s].log) = {}
        /\ gw.seed[s].held \cap gw.booked = {}

\* An order that a snapshot on its way to an engine says is gone neither rests nor is on its way to
\* the venue: the watermark each attachment is given covers only its orders the venue had taken
\* when it was asked (route_reconcile(), SentWatermark).
SnapshotsTellTheTruth ==
    \A s \in Strats : proc[s] =>
        \A m \in {x \in Range(gw.ring[s]) : x.type = "snapshot"} :
            \A id \in resting \cup {x.id : x \in {y \in wire : y.op = "new"}} :
                id.epoch = eng[s].epoch => id \in m.rows \/ id.n > m.mark.n

\* In the end an engine that runs works every order resting at the venue: an order of a session
\* that is gone, or that its engine gave up, is cancelled (detach(), route_order(),
\* route_reconcile()).
RestingOrdersAreWorked ==
    <>[](\A id \in resting : \E s \in Strats : proc[s] /\ id \in eng[s].mine)

\* After a trip nothing is left resting, the orders that were on their way to the venue included
\* (kill_venue(), then route_order() and route_reconcile() of what turns up later).
NothingRestsAfterTrip == <>[](tripped => resting = {})

\* In the end every execution is in its strategy's position and in the account: what the stream
\* lost, the store had not written or no strategy was there for is parked or replayed from the
\* resume point (deliver_fill(), resume_plan(), ReplayScheduler::resume()).  The exception is an
\* execution the store's record went past without it (`passed`), when the session that runs resumed
\* after it, or, for the account alone, when the gateway's first session did.
EventuallyBooked ==
    <>[](\A e \in DOMAIN execs :
            LET s == Trader(e)
                Skipped(from) == e \in store[s].passed /\ e < from
            IN  \/ tripped
                \/ Skipped(gw.route[s].from)
                \/ /\ e \in eng[s].restored \cup Range(eng[s].log)
                   /\ e \in gw.seed[s].held \cup gw.booked \/ Skipped(gw.seed[s].from))
====
