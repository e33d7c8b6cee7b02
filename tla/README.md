# TLA+ models of FastMM

FastMM is a market-making engine: an engine thread that runs a strategy and owns the orders, and one
network thread per venue that runs a connector. Money is at stake in the order path: what the engine
believes it has working and what it believes it has traded must match the venue, through lost
connections, late and repeated messages, and requests whose answer never comes. This directory models
that path from the quote to the store of a killed strategy, the connections and the ring it runs on, and
the two ways a book is put together (REST snapshot and diffs, multicast feed and GLIMPSE); it checks them
with TLC and proves with TLAPS, for every value of the constants, what section 5 lists.

Paths below are relative to the repository root.

## 1. Inventory

### Threads and how they meet

| thread | runs | talks to |
|---|---|---|
| `fm-engine` | `Engine` (`include/fastmm/core/engine.hpp`): dispatches market data, order events, timers; runs the strategy; owns `Oms`, `RiskEngine`, positions, `QuoteManager` | connectors, by one outbound and one order ring each (`MsgRing`, single producer, single consumer) |
| `fm-net-<i>` | a reactor with one venue connector (`src/venues/*`): WebSocket and REST, parsers, `ReconcileDriver`, `ReplayScheduler`, `SentWatermark` | engine (rings), venue (connections) |
| journal writer, `fm-store`, log sink | persistence of events and records | rings from the engine |
| main | session start, control socket, shutdown | the others, by atomics and rings |
| gateway (optional process) | several engines behind one connector | shared-memory rings |

### Components

| component | state | operations | what makes it correct |
|---|---|---|---|
| `Oms` | pool of open orders, id map, ring of terminal orders, execution-id memory, open quantity and best own price per side, estimates | submit, request_cancel, request_replace, on_ack, on_reject, on_cancel_ack, on_cancel_reject, on_fill, on_expired, reconcile_begin/open_order/end, sweep_pending | an id names its order and no other; the cached aggregates are exact; no quantity is booked twice |
| `Engine` order path | position, pending reconciliation | submit_new, submit_cancel, submit_replace, on_order_*, on_fill, book_missed_fill, on_reconcile, cancel_unknown, sweep_acks | the position follows the venue's executions; no live order is unknown |
| Bybit connector | shadows, aliases, connection states | write_orders/send_command, handle_order_response, on_private_text, on_private_state, fetch_snapshot, query_executions | events are translated to the id the engine knows; what a lost stream carried is recovered |
| `ReconcileDriver` | running / pending / retry wants, mark, exact flag, rows | request, sweep, replay_done, fetched, on_timer | a snapshot reaches the engine whole or not at all, after its replay, and judges only what it can |
| `SentWatermark` | ids in flight, last id sent | note, answered, connection_lost, mark | an order the snapshot may have missed is above the mark |
| `ReplayScheduler` | per-stream watermark, rows read, active / retry / due | run, on_timer, answer, failed, restart_from, read_all | every execution since the watermark is emitted; the watermark never passes what was not read |
| `MsgRing`, `SpscRing`, `ShmRing` | head, tail, their caches, bytes | try_reserve, commit, try_peek, release | first in, first out; nothing overwritten before it is released |
| `Seqlocked` | sequence, data | store, try_load | no torn read is returned |
| `BookSyncer`, `BasicBinanceDepthSync` | state, buffered deltas, last update id; request wanted / pending, rate limit, stream wait | start, stop, on_delta, on_snapshot, on_snapshot_failed, resync, on_timer | the book the engine sees has no gap; a lost book comes back |
| `MoldUDP64` transmitter and receiver | history; expected sequence, reorder buffer, hole, requests | publish, next_packet, answer_request; on_packet, on_timer, reset | every message delivered once and in order, or given up because nobody has it |
| Nasdaq ITCH venue | feed state, books, recovery buffer, GLIMPSE session | on_datagram, on_message, start_recovery, finish_snapshot, service | a live book has seen every message; a lost one comes back |
| `QuoteManager` | target and working quotes | set_quotes, pull, pause, resume, order updates, retries | one working order per slot; no order that nobody wants |
| gateway | routes, order owners, history of ids, parked executions, account guard | attach, detach, forward, route_order, route_reconcile, kill_venue | each strategy sees its own orders and executions, once; none is left unattended |
| `RiskEngine`, kill switch | limits, kill state | checks, on_pnl, kill | no order past the limits, cancels always go out |
| `DeadMansSwitch`, `RateLimiter`, `RestChannel`, `Connection`, `Backoff`, `TimerWheel` | timers, windows, attempts | refresh, send, connect, advance | bounded retries, nothing sent past a limit, no timer lost |
| session, gateway, journal, store, status | files, sockets, shared memory | start, stop, restart | restart resumes from what was persisted |
| other connectors, codecs, simulator, strategies, config | | | |

### What is hard

* Two threads and three channels from the venue (trade responses, the `order` topic, the `execution`
  topic), unordered against each other, plus REST answers computed at a moment between question and
  answer.
* The private stream is lost with what it carried, and what happens meanwhile is never published.
* The same quantity is reported several times: by an execution, by a cumulative quantity in a cancel,
  by a snapshot row and by a replay. The table keeps *estimates* so that it is booked once.
* Requests without an answer, queries that fail and are retried later than the snapshot they belong to.
* A book is put together from two connections, diffs from one and a snapshot from the other, and the
  ring to the engine may refuse any message of it.
* Each side of a ring works from an old copy of the other's index, and records wrap around its end.
* Fixed memories: pool, ring of terminal orders, execution ids, requests in flight.
* A quote is recorded against an order that cannot be touched yet, while pulls, pauses, backoffs and the
  rate limit decide whether the record still counts when the answer comes.
* Processes die: a strategy with executions its store has not written, the gateway with every route.
* Datagrams are lost, repeated and reordered while the books are rebuilt from another connection.

`PROJECT.json` lists these hazards at their lines with the properties that watch them.

## 2. Plan

Done, each with its run and its place in section 3:

1. **`Oms`**, the table alone against an environment that may send anything, with proofs.
2. **`BybitOrders`**, the composition engine + connector + venue, on top of `Oms`.
3. **`MsgRing`** as an implementation of a FIFO channel, `MsgChannel`, which justifies the atomic rings of
   the other modules.
4. **`DepthSync`**, the book of a Binance instrument; **`MoldUdp`** and, on top of it, **`ItchFeed`**, the
   books of the multicast feed.
5. **`Replay`** and, on top of it, **`Reconcile`**: how executions are read back and how a snapshot is
   taken, with the windows, pages and failures that `BybitOrders` and `Gateway` abstract.
6. **`Connection`**, which the connectors' fairness ("the stream comes back") rests on.
7. **`Quotes`**, the quote manager with the engine that drives it.
8. **`Gateway`**, several strategies, their stores and restarts behind one connector.

Proved (section 5): every safety invariant that a run checks of `Oms`, `Connection`, `MsgRing`, `Reconcile`,
`DepthSync`, `Quotes`, `Gateway`, `MoldUdp` and `ItchFeed`, `BybitOrders`' `NoDoubleBooking`, the action property
`OneSessionAtATime`, and that the ring implements the channel.

Next, a proof: `BybitOrders`' `RestingOrdersAreTracked` for orders of one lot (section 4 says why this hypothesis).
It needs an invariant that says of each open order of the venue which answer, topic, ring, snapshot or command
will make the engine track it or end it, with amends and their aliases.

## 3. Modules

### `Oms.tla` (`include/fastmm/core/oms.hpp`)

One instrument, one venue: the class's arrays are indexed by both and their entries never meet, but for
the pool and the id map, which the others' orders may fill at any time (`SubmitPoolExhausted`).

| variable | code |
|---|---|
| `seq` | `seq_` |
| `pool` | `pool_` with `estimates_`; `NoOrder` is a free slot |
| `ids` | `ids_`: a slot, a ring position (`kTerminalRef`) or nothing |
| `recent`, `next` | `recently_terminal_` |
| `pending` | `stats_.synthetic_pending` |
| `openQty`, `bestOwn` | `open_qty_`, `best_own_` |
| `execs` | `exec_seen_` |
| `scope` | `recon_scope_` |
| `ending` | the local `unseen` of `reconcile_end()`: the loop's callback may place and cancel orders between two iterations, so each iteration is a step (`EndUnseen`) |

Each public operation is an action that carries out the whole function, the helpers it calls
(`terminate`, `remember_terminal`, `apply_replace`, `absorb_cum`, `take_synthetic`,
`recompute_best_own`, `finish_update`) as operators. The environment gives every operation any
argument in its range at any time, so nothing here depends on how venues behave. Left out: times,
venue ids, user tags, counters that nothing branches on. `on_cancel_reject`'s request for a
reconciliation after three rejects is the engine's to act on and is not in the table's state.

A market order's price is `Price{}`, that is 0, and 0 is also "no best price": `BestOf` keeps the
scan's behaviour, including that a sell priced 0 makes it forget the sells before it.

### `BybitOrders.tla`

Extends `Oms` with the quantity the engine books, the two rings, the connector and the venue.

| variables | code |
|---|---|
| `booked` | `positions_.on_fill` from `Engine::on_fill` and `book_missed_fill`, one side |
| `cmds`, `ring` | the outbound and the order ring |
| `shadow`, `alias` | `shadows_`, `aliases_` |
| `sentTo`, `unanswered` | `SentWatermark` |
| `up` | `private_conn_.is_live()` |
| `replay` | `ReplayScheduler`: idle, asked (query out) or read (answer taken by the venue, not yet handled); `rows` of the answer, `emitted` so far, `owed` for the retry |
| `recon` | `ReconcileDriver`: idle, waiting for the replay, asked, read, retry; `mark`, `exact`, `again` (`pending_`), `snap` (the rows) |
| `wire`, `resp`, `ordTopic`, `exTopic` | the trade connection both ways and the two topics; each in order, unordered against each other |
| `orders`, `trades` | the venue (external) |
| `budget` | what is left of the bounded faults |

An engine action handles one message and does everything `Engine` does for it: the table's update, the
booking, the bare cancel of an unknown order. A connector action handles one input and pushes what the
code pushes. `SnapshotDone` pushes Begin, rows and End at once, as `emit()` does, and drops the shadows
the snapshot settles. A REST query is answered from one moment of the venue between question and answer.
The connector reads its next input only while fewer than `MaxRing` events wait for the engine
(a bound on the state space: the engine is much faster than the network).

Left out: the trade connection's loss and orders over REST, the start-up sweep, rate limits, venue-fatal
errors, the shadow table's capacity, positions of linear contracts, prices and fees of fills, and the
reconciliations the engine asks for on its own.

### `MsgChannel.tla`, `MsgRing.tla` (`include/fastmm/core/msg_ring.hpp`, `include/fastmm/venues/event_sink.hpp`)

`MsgChannel` is what a ring promises: a message offered is sent, and what is sent is taken in order, once.
`MsgRing` has the two indices, each side's copy of the other's (`headCache`, `tailCache`, renewed only when it says there
is no room, or nothing to read), the records as they lie in the granules, with the padding records that
fill the ring's end, and the sink's spin. The producer's steps are offer, reserve (or find the ring full
and try again), fill, commit; the consumer's are peek, read, release. The acquire and release orders of
the indices are one atomic step each, with the bytes written before. The refinement reads the channel's
queue off the ring's bytes, so that a record overwritten, torn or skipped shows as a different queue.
Indices are unbounded naturals, cut at `MaxPos`: the code's are 64 bits wide. Assumed: twice the longest
record less one granule fits the ring, without which a record could wait for ever at an unlucky position.

### `DepthSync.tla` (`include/fastmm/core/book/book_syncer.hpp`, `include/fastmm/venues/binance/binance_depth_sync.hpp`)

| variable | code |
|---|---|
| `s` | one `BasicBinanceDepthSync` with its `BookSyncer`: `state_`, `prev_u_`, `awaiting_first_`, the buffer, `want_request_`, `pending_request_`, `awaiting_stream_` |
| `recent`, `early` | the comparisons of `now` with `last_request_ns_` and `stream_wait_since_` |
| `link`, `stream` | the market-data connection's state in `BinanceVenue`, and what it has in flight |
| `rest` | the control lane of `RestChannel`: one request at a time, answered or failed in order |
| `book` | the engine's `L2Book`: whether it has a snapshot, its `seq_`, whether an update is missing below it |
| `upd` | the venue's last update id (external) |
| `used` | the faults spent |

A callback of the reactor thread is one action, from the connector's handler down to `flush_request()`.
Its pushes are applied to the engine's book in order, but for any the full ring refuses, so the order of
the messages counts and the engine's delay in reading them does not. `OnSnapshot` finds the first gap of
the replay with a set instead of the loop. The diffs of the futures stream are taken to follow each other
without holes, as Spot's do. Left out: the venue's shutdown (`disconnect()`), which ends the process's use
of the sync, and the clock itself.

A rollover of the connection calls `start()` while the engine keeps its book: the model has it, and the
book stays whole; for how long it stands still is real time and not in the model.

### `MoldUdp.tla`, `ItchFeed.tla` (`codecs/moldudp/moldudp64.*`, `venues/nasdaq/nasdaq_itch_venue.cpp`, `venues/nasdaq/recovery_buffer.hpp`)

| variable | code |
|---|---|
| `tx` | `Transmitter`: messages published, first one of the history, first one unsent, session over |
| `net` | datagrams that may still arrive, in any order and any number of times (external) |
| `rx` | `Receiver`: `next_`, `highest_`, the `ReorderBuffer`, `gap_since_`, the request outstanding with its attempts, `eos_`; callbacks and requests made in a call are its `out` and `ask` |
| `feed` | `feed_state_`, the books, the `RecoveryBuffer`, `lost_end_`, the GLIMPSE session, the retry |
| `seen` | what the handler was told, for the properties |

A datagram, the service timer or an event of the GLIMPSE connection is one action, with the callbacks the
receiver makes inside it in their order. The books are the sequence number they stand at and whether
each message they need below it was applied once; `Unwanted` are the messages of instruments nobody asked
for. The receiver's loops (`drain`, the one of `on_ahead`, `update`) are `Repeat`: a turn that does nothing once
the loop's condition fails, as often as the loop can run at most. Left out: bytes, `follow_session`, OUCH
order entry, several channels.

### `Connection.tla` (`include/fastmm/net/connection.hpp`)

`conn` is the class: its state, the active and the pending session with their phases and sockets, the
armed timers, whether a lookup is out and how many orphaned ones are; `cfg` is one of the configurations
the connectors use. Each callback (lookup answered, socket progress, open, message, ping, end, each of the
five timers) and each call of the owner is an action. Delays are left out: an armed timer fires some time,
and how long nothing was received is fresh, stale or dead. Assumed, and true of the connectors: one that authenticates by
hand sets no lifetime (`ConnectionAssumption`); a rollover of such a connection would never authenticate,
as the pending session does not change the public state the owner acts on.

### `Replay.tla`, `Reconcile.tla` (`src/venues/replay_scheduler.cpp`, `src/venues/reconcile_driver.cpp`)

`sch` is `ReplaySchedulerBase` for one stream: watermark, rows known, the query and its window, pages,
`again_from_ms_`, due and retry. `drv` is `ReconcileDriver`: running, pending and retry wants, waiting for
the replay, fetch in flight, exact. `time` and `indexed` are the venue's executions and those its history
already shows; `net` the queries out. The two objects call each other through hooks on one thread, so an
action runs an event to its end through both. Fields of `sch` and `drv` marked as history record what was
handed out and what a request is owed. `Limits` holds how two kinds of venues page. Left out: several
streams, lookups of orders, id cursors, `can_query`, the balance leg.

### `Quotes.tla` (`include/fastmm/core/quote_manager.hpp`, the calls of `core/engine.hpp` around it)

| variable | code |
|---|---|
| `slots` | `InstState::slots`: handle, recorded target (`want`, `apply_want`), within `min_requote_interval` |
| `mgr` | the rest of `InstState`: desired, used, pulled, paused, resumable, backoff and its queue, starved |
| `orders` | the table's pool, by handle without generation |
| `tokens` | the `[risk]` order bucket |
| `eng` | may quote, reconciling, past the hold |

An event of the engine with everything it calls is one action; a fill runs the strategy's callback, which
may quote, before the manager hears of the order's end, as `Engine::on_fill` does. What the checks of the
placer refuse is a choice. Left out: quantities, `[capacity]` prices, pools of accounts, the other side.

### `Gateway.tla` (`src/live/gateway.cpp`, `src/live/session.cpp`, `src/store/sqlite_reader.cpp`)

| variable | code |
|---|---|
| `proc`, `eng`, `store` | per strategy: the process, its engine (orders, executions booked), what the store has written: executions, how far the record is whole, when the oldest and the newest cleanly closed session began |
| `gw` | `VenueRouter` and `Account`: routes, order rings, owners of orders, the history of ids, parked executions, cancels queued, seeds of the account's position |
| `sessions` | the epoch file |
| `conn` | the connector's private stream, replay and reconciliation, as `Replay` and `Reconcile` promise them |
| `wire`, `resp`, `stream`, `resting`, `execs` | the venue and the connections (external) |
| `tripped` | `Account::tripped` |

Attach reads the resume plan from the store, seeds the account and asks for a replay from the earliest
point; detach queues the cancels of the dead session; a strategy is killed at any moment with any suffix
of its records unwritten, or exits and closes its session; so does one that loses its gateway (exit reason 9 of
`session.cpp`, recorded by `session_close()` as clean like any other). The gateway is killed and starts empty.
The resume point is that of `resume_points()` and `resume_plan()`: `Overlap` before the newest execution of a
whole record, else `Fallback` before the newest session that closed cleanly or, with none, the oldest. The field
`passed` of a store is history: the executions its record goes past without holding them. The mark of a snapshot is translated per
attachment through the history of ids, of which `HistCap` are kept. Left out: failures of the replay's
queries (`Reconcile` has them), the order ring's overflow, shared instruments, replaces, guards other than
the trip, balances, market data; the copies of executions sent before their order is known (`kUnresolved`,
`gateway.cpp:1070-1104`: Bybit's connector sends none, some others do); and the position rows and updates with
which the venue overwrites the account's position (`gateway.cpp:979-990`, `1280-1290`), so what is said of the
account is about what it books from executions.

## 4. Runs

All runs set `CHECK_DEADLOCK FALSE`: ids, messages and faults are bounded, so each system may come to rest.

| run | checks | bounds and why they are enough |
|---|---|---|
| `oms_table` | `TypeOK`, `IdsSound`, `OpenQtyIsLeaves`, `PendingCountsEstimates`, `EndingOrdersAreUnseen`, `BestOwnIsBest` | two slots, one side, two prices, two ids, two lots, a ring of one record: an order, its replace, an order in a freed slot, a wrapped ring and an end that uncovers the other's price all occur. Executions without ids: the memory of ids is in the Bybit runs |
| `bybit_settles` | `NoDoubleBooking`, `EventuallyBooked` | one order of two lots (estimate, live and replayed execution of the same quantity); any two of a lost stream, a failed query, an unanswered request and an order the venue ends; periodic replays |
| `bybit_tracking` | `RestingOrdersAreTracked` | two ids with amends, one lot, any one of a lost stream, a failed query and an order the venue ends: what can be lost track of is an order, not a quantity |
| `ring_channel` | `NoOverrun`, `IsChannel`, `RoomInTheEnd` | a ring of four granules, records of one and two, positions up to ten: every offset is reached, with and without padding, after two wraps |
| `depth` | `TypeOK`, `SyncedBookIsExact`, `RepairUnderWay`, `BookComesBack` | both chaining rules, four update ids in diffs of one or two, a buffer of two, any two of a lost frame, a disconnect, a stale episode or rollover, a failed request, a refused push: late snapshots, overlaps, gaps in the buffer and a full buffer all occur |
| `itch_feed` | `NothingMissedOrRepeated`, `OnlyTheMissingIsGivenUp`, `EndComesLast`, `LiveBooksAreExact`, `FeedSettles` | three messages in datagrams of one or two, a history of two (so a request can go unanswered), one datagram held (so the buffer overflows), a recovery buffer of one, one GLIMPSE failure or refused message; with and without a rerequest server and GLIMPSE |
| `connection` | `NeverWaitsForNothing`, `LiveIsSubscribed`, `CloseIsFinal`, `OneSessionAtATime`, `ComesBack` | four faults, so that both sessions of a rollover and their successors can fail, two closes, each configuration of the connectors with and without TLS |
| `reconcile` | `NothingBelowWatermark`, `HandedOutOnce`, `ExactIsExact`, `WaitsForAReplay`, `SnapshotFollows` | four instants, three executions, a settle margin and a clock slack of one; pages of one newest first in windows of three, and pages of two oldest first with a short history; any two requests, restarts and faults |
| `quotes` | `OneOrderPerLevel`, `UnwantedQuotesGo`, `HeldBackIsQueued`, `PulledQuotesGo` | two levels and three pool slots, so that a freed handle is taken by another order; one token, so that it runs out; two ladders asked for and two events (pull, reconciliation, hold, fill, refusal), with and without amends |
| `gateway` | `BookedOnce`, `SnapshotsTellTheTruth`, `RestingOrdersAreWorked`, `NothingRestsAfterTrip`, `EventuallyBooked` | one strategy with an order, a fill and any two faults (killed or closed strategy, killed gateway, lost stream, trip); with one fault and a second fill (so that a replay resumes after the first), a second order, or an engine's cancel or request; and two strategies. A history of one id, so that a mark is not found; no overlaps, so that a resume point is exact. Two fills with two faults (1.8 million states) take longer than a run may: without `Trip` (1.5 million) TLC finished with all five properties true, with it the invariants hold |

Violations, each with a finding in `PROJECT.json`:

| run | property | what it shows |
|---|---|---|
| `bybit_amend` | `NoDoubleBooking` | an amend acknowledged without `kAmendedInPlace` books its earlier fills twice |
| `quotes_empty` | `UnwantedQuotesGo` | a ladder emptied while its order awaits the ack is forgotten by a reconciliation: the order rests unwanted |

So `NoDoubleBooking` is shown, and proved, for connectors that do not amend (`supports_replace` off), and
`UnwantedQuotesGo` for strategies that stop quoting by `pull_quotes()` rather than by an empty ladder.

### What the models show besides

Behaviours met with TLC or on reading that differ from what a comment says, without a run of their own;
the runs' bounds leave them out.

Order table and Bybit connector:

* once a session has had more executions than `kExecMemory` (65536) or ended more orders than
  `kRecentlyTerminal` (4096), a replayed execution can be booked again: with a memory of one execution id or of
  one ended order TLC finds a behaviour of `BybitOrders` that does it. `oms.hpp:25` says so of the estimates ("It
  is lost only with the order's terminal record"), and `NoDoubleBooking` is proved for sessions that fit;
* a live execution carries the venue's cumulative quantity and moves the order past one the stream lost;
  when that one is replayed its quantity is added again, and an order of two lots ends as Filled in the table
  while part of it rests (`oms.hpp:469`: "Only the part the position does not already hold moves the order
  forward"). `bybit_tracking` has orders of one lot;
* `ReplayScheduler::run()` joins an active replay, also one whose page was answered before the outage's
  executions, and the snapshot that follows is marked exact (`messages.hpp:603`: "every execution the venue
  made since the last one the engine booked was replayed before this snapshot"). `ExactIsExact` is about the
  executions the venue showed when the replay began;
* a market sell, priced 0, makes `best_own_px()` report none while priced sells of the side are open
  (`recompute_best_own`: "Price{} if none"); `oms_table` is about priced orders;
* a cancel done at the venue while the private stream is down and answered once it is back is dropped with
  its response, and the order stays `PendingCancel` in the table until another reconciliation;
* `forget_order()` drops an amended order's alias at its cancel: an execution published after it is booked
  on top of the estimate it should name;
* a cancel that overtakes its New is rejected as unknown and ends the order in the table (`oms.hpp:413`); the
  late ack is ignored and the order rests until the next snapshot.

Books:

* a snapshot answered after the stream was lost is taken, as `on_snapshot()` does not look at `stopped_`: the
  engine holds a book of a dead stream until the next stream's snapshot (`binance_depth_sync.hpp:67`: "the
  book is unusable until start() again");
* when the full ring refuses a book's snapshot and then the `Resyncing` state, the diffs replayed between
  them reach an engine without a snapshot, against the output contract at the head of
  `binance_depth_sync.hpp` (the book stays invalid, as it has no snapshot).

Replay and quotes:

* where the venue's history cuts a replay short, `begin_window()` clears the rows remembered as read
  (`replay_scheduler.cpp:257-265`), and those at or after the new start are forwarded again (`replay_scheduler.hpp:22`:
  "The rows read at or after the watermark are remembered by key, so they are not forwarded twice."); in the run's
  second instance a row of instant 2 goes out by the replay at 2 and again by the one at 4. `HandedOutOnce` excepts
  the rows forgotten there; the order table drops such a repeat by its execution id;
* `page()` asks for further pages without a look at `max_pages`, which only a new window checks
  (`replay_scheduler.hpp:16`: "More than max_pages pages in one replay: incomplete.");
* `pull_side()` during a pause cancels at once, though the pause says nothing is sent until `resume()`.

Gateway:

* with `Lagging = TRUE` `BookedOnce` fails: an execution is replayed, booked and stored, the strategy
  restarts, and the stream's late copy, which is not marked as replayed, is booked again (`gateway.cpp:1116`;
  `store/reader.hpp` says an execution the store holds is never handed to a replay as new);
* four ways an execution is never booked; `EventuallyBooked` excepts exactly those the store's record goes past
  (`passed`) when the session that runs resumes after them. (a) A session is killed with an execution not stored, and
  the next one closes before its replay has read it, by an exit or because the gateway was lost: with no fill stored
  the third starts at the second's beginning less 10 s (`sqlite_reader.cpp:1474`: "its replay at connect saw
  everything before"). (b) A fill is lost with the stream, a later one booked live, and the session ends before
  the replay: the record is taken as whole up to the later one. (c) The same in a session after one whose record
  was whole and empty: the replay starts at its newest fill, not where the record was whole
  (`sqlite_reader.cpp:1596-1611`). (d) A resume point ahead of an idle connector's watermark moves that forward
  (`replay_scheduler.cpp:98`), so that the account misses the execution too. The overlaps (`kResumeOverlapMs`, one
  second; `kFallbackOverlapNs`, ten) cover executions that close together; the run has none;
* a snapshot fetched for another strategy is given to one that attaches meanwhile, before its own replay;
* a gateway cancel refused for a reason other than "unknown" is not repeated until a snapshot lists the order;
* a detach's sweep merged with a reconnect's reconciliation keeps that snapshot from the attached strategies.

Hazards seen on reading that no property is about, besides those in `PROJECT.json`:

* `cancel_attempts` is a `uint8` and wraps (`oms.hpp:419`); the execution memory forgets ids after 65536
  (`oms.hpp:935`); `SentWatermark` holds 256 requests;
* a rollover restarts the book sync while the engine quotes on the old book (`connection.hpp:363`): it is
  whole, as `SyncedBookIsExact` says, but stands still for a time the models do not have;
* a ping does not end `Stale` (`connection.hpp:248`); each lookup starts again at the first address (`:296`);
  a `close()` inside the subscription hook would not be noticed (`:364`; no connector does it);
* an idle `restart_from()` also moves the watermark forward (`replay_scheduler.cpp:98`); a full oldest-first page
  within one millisecond is never got past (`:608`); `request_executions()` ignores its start while a replay
  is active (`bybit_venue.cpp:1482`);
* a recorded target that comes due within `min_requote_interval` is dropped (`quote_manager.hpp:696`).

### Fairness

* `bybit_settles`: weak fairness of both threads taking what waits for them, of the venue answering, of the
  private stream reconnecting (`Connection` retries without limit, which `ComesBack` checks, and losses are bounded), and of the
  housekeeping timer that retries a failed replay. Nothing is assumed of the strategy, of fills, of faults.
* `ring_channel`: both threads keep running; the producer spins until it has room, the consumer polls.
* `depth`: the reactor reads the stream and runs its timer, time passes, the venue answers (a request it
  does not answer fails by its timeout, a bounded fault), the connection is retried.
* `itch_feed`: time passes, the service timer runs, the transmitter sends what it has and its heartbeats are
  heard now and then (a feed whose every datagram is lost is not one), the GLIMPSE server answers
  between bounded faults, and a datagram does not stay in the network for ever.
* `connection`: lookups answer, a responsive peer goes on with the handshake and sends, a silent one is
  noticed as time passes, armed timers fire; the connect timer is fair only when the newest session does
  not progress, as it is longer than a handshake.
* `reconcile`: no query, fetch, retry or due replay waits for ever (the REST channel times out and the
  housekeeping timer runs).
* `quotes`: no order stays pending for ever (the venue answers, or `sweep_acks` and the reconciliation end it).
* `gateway`: some enabled step of the threads, the venue or the session loop is taken; kills, fills, orders, trips
  and lost streams are bounded and never forced. Every behaviour reaches the end of its bounded events, so
  fairness of the disjunction is enough.

## 5. Proofs

Every theorem holds for all values of the constants that the modules' named assumptions allow, the bounds of
the runs included: any number of orders, faults, rows, sizes of buffers and rings. Each has the shape
`Spec => []P` with an inductive invariant whose three obligations are lemmas of the module; TLC
checked each of these invariants on the instance of the component's run before it was proved.

| module | theorem | what it says |
|---|---|---|
| `OrderProofs` | `OmsTypes`, `OmsIdsSound` | types; the id map and the two memories name each other exactly |
| | `OmsEndsUnseenOnly` | a reconciliation ends only orders it has not seen |
| | `OmsOpenQtyIsLeaves` | `open_qty` is the sum of the open orders' leaves |
| | `OmsPendingCountsEstimates` | `synthetic_pending` counts the orders that hold an estimate |
| | `OmsBestOwnIsBest` | `best_own_px` is the best open price, if no sell is priced 0 |
| | `BooksInvariant`, `BookedWithinExecuted` | what is booked never exceeds what the venue executed, if orders are not amended and the table remembers the session |
| `TransportProofs` | `ConnNeverWaitsForNothing`, `ConnLiveIsSubscribed`, `ConnCloseIsFinal` | every state has what it waits for; live means subscribed; closed stays closed |
| | `ConnOneSessionAtATime` | an action property: no session is replaced by another before it has ended |
| | `RingNoOverrun` | the producer never passes the consumer, however old the cached indices |
| | `RingImplementsChannel` | `RingSpec => Channel!Safety`, the refinement of the FIFO channel |
| `ReconcileProofs` | `ReconNothingBelowWatermark`, `ReconHandedOutOnce` | a finished replay has read all below its watermark, and hands no row out twice between two restarts but those the history clamp made it forget |
| | `ReconExactIsExact`, `ReconWaitsForAReplay` | a snapshot marked exact is; a waiting snapshot has a replay to wait for |
| `DepthSyncProofs` | `DepthTypeOK`, `DepthSyncedBookIsExact`, `DepthRepairUnderWay` | a book called synced is the venue's; otherwise a repair is under way |
| `QuotesProofs` | `QuotesOneOrderPerLevel` | a level has one order at most, the one its slot holds |
| | `QuotesHeldBackIsQueued` | a quote that was held back is queued for a retry |
| | `QuotesUnwantedQuotesGo` | no unwanted order keeps working, if no strategy quotes an empty ladder |
| `GatewayProofs` | `BookingsInvariant`, `ExecutionsBookedOnce` | no execution is booked twice, by a strategy or the account, if the trade history does not run ahead of the stream |
| | `SnapshotsTrue` | no snapshot on its way to an engine calls an order gone that rests or is on its way to the venue |
| `ItchFeedProofs` | `FeedInvariant`, `CallsInOrder` | the receiver's calls have no hole, overlap or step back |
| | `NothingWronged` | what arrived and waits is never reported as unrecoverable |
| | `EndIsLast` | the end of the session is told after everything published in it |
| | `BooksExact` | live books have every message they need, once and in order |

`Induction.tla` holds the facts the others share.

**The order table.** `IInv == TypeOK /\ IdsSound /\ FreshIds`. `IdsSound` alone is not inductive: a submit takes
the id `seq + 1`, and only `FreshIds` (no id above `seq` is mapped, used by an order or kept in a record) says
that it overwrites nothing. One lemma per kind of update shows that the invariant survives it; the actions
are instances. `EndingOrdersAreUnseen` is proved on top of it: while `ending` is not empty only the callback's
actions are enabled, they touch only other slots or leave `seen` and the id alone, and a replace's ack cannot
come.

**Its aggregates.** `StepShapes` shows that every step of the table is one of six: nothing the aggregates
depend on changes, one order is updated, one ends, one is replaced, one is submitted, or a late fill takes an
estimate from a record. Each aggregate then has one lemma that goes through the six. A count changes by
at most one member (`CountOne`); a sum is the library's fold over a set, which takes the members in an order
nobody chose, so `SumInAnyOrder` first shows that the order does not matter and `TotalChange` then moves one
term; a best price is an extreme of a finite set (`ExtremeValues`). `BestOwnIsBest` needs `OwnPrices`, that
an order's price, or the one it is being replaced with, is a price somebody asked for, and the hypothesis
`SellsArePriced`: a market sell has price 0, which `submit()` and the scan take for "none", so with such
sells the property is false of the code.

**What is booked.** `NoDoubleBooking` compares two totals, and no step can be judged by totals: `BooksInv` says it
of each order. What is booked of an order is what its executions in the table's memory add up to (`Named`) plus the
estimate the table holds for it, and `Covered` bounds this by what the venue executed of the order and by the
cumulative quantity the table has; `Totals` sums it up. To keep `Covered`, an estimate must come from a quantity
the venue did execute, and an execution must find the estimates it replaces. So `FromVenue` says that everything
on its way (topics, ring, snapshot) is true of the venue, now or later, since nothing executed is taken back;
`ToVenue` and `AtVenue` that an order is sent once and the venue has the table's quantity for it; and `Turn` that a
live execution reaches the engine after all those it was given before, or was itself given before by the replay.
Without `Turn` the invariant is not inductive: a live execution brings the order's count after it, and that count
covers what is booked of the order only if no later execution was booked already. Each action has a lemma; those of the engine
rest on `Posted` and its like, which say what a step of the table does to the account of one order, and those
of the venue and the connector on what they leave alone. Two hypotheses: `~Amends`, because with amends the
property is false of the code (`bybit_amend`), and `SessionFits`: the ring of ended orders holds the session's
orders and the memory of execution ids its executions, because when either forgets TLC finds a double booking
(section 4). In the code these are 4096 orders and 65536 executions; `MaxRing` and the bounds on faults are arbitrary.
Proving this needed one change of the model: a snapshot's watermark in `Oms` may be `NoId`, as it is before the
connector has sent anything.

**Connection.** `ConnInv` says, of the record the member functions work on, which phase the public state
stands for, what each session has behind it, and which timer or callback each phase waits for; `Sound` is
stated of any record, so that every member function has a lemma of its own and an action composes them.
The assumption that a connector which authenticates in `on_state()` sets no lifetime is what the
connectors do: a rollover's session never changes the public state.

**The ring.** `RingInv` has, besides types and the order of the four indices, a set `B` of positions where
records start: from each the next is its length further on, none lies between, the tail is one. The
refinement maps the buffer to the sequence of messages by following these starts, a recursion on positions;
that it is what the consumer will read follows by induction on the distance to the tail. A reservation,
a padding record and an old index map to stutters, a commit to `Put`, the consumer's advance to `Take`.

**Replay and reconciliation.** `ReconcileInv` has a part each for the venue, the scheduler, the queries in flight
and the driver. Its core is `Covered`: every row older than the watermark by more than the settle margin
was read or was known before; `ReadTo` and `Window` are its versions in the middle of a replay and of a window,
with the page that is out. It needs that a page tells when rows are left, by a token or by being full
(`ReplayAssumption`, true of every connector's limits: newest-first ones page by token, the others count
rows). `ExactIsExact` and `WaitsForAReplay` follow with `DriverInv`.

**The depth book.** `DepthInv` adds to the two properties what a connection that is down, a sync never started and a
pending request have left behind. The work is in draining the buffer, a fold over the buffered diffs: each
diff takes the book a step further or starts a resync, shown by induction on the diffs delivered.

**Quotes.** `QuotesInv` is stated of a world, what a handler works on, so that it also holds between two calls of one
handler: the guard and `on_fill` run before the manager learns of an end. Of each level it says that the level's
order is in its slot (`PlacedAt`), that `used` covers the slot (`UsedAt`), that a recorded target is one the ladder
still asks for (`RecordedAt`), and what waits is queued (`QueuedAt`). `OneOrderPerLevel` is not inductive
without the half of `UsedAt` that is about recorded targets: the end of an order submits the one its slot recorded,
and the new order must be among the slots looked at; `RecordedAt` makes it one that is wanted. `Towards` describes what
`reconcile_slot()` does to its level, `SameLevel` that it leaves the others alone; the loop over the levels is a
fold, unfolded level by level. The pool slot of an order that ended may be taken before the manager hears of the
end, by a hedge or by a new quote of the same level: `owns()` tells these apart, and the proof of `EndedSound`
needs it. `EngineSound` ties the flags of the engine to those of the manager: where it may not quote, the
instrument is pulled or rests, so that a retry which is skipped loses nothing. `UnwantedQuotesGo` also needs
`Wanted`, that an order on its way is either asked for or has the cancel recorded; a ladder without quotes breaks
it, as the run `quotes_empty` shows, hence the hypothesis `<<>> \notin Ladders`.

**The gateway's bookings.** `Bookings` says that a process which runs has a session and one that does not has
left nothing behind (`Running`), that who is attached has seeded the account (`Routed`), that orders and
executions belong to sessions given out (`IdsKnown`, `ExecsKnown`) and that the stream carries an execution
once (`OneCopy`). The core holds if the trade history is not ahead of the stream: what is still in the stream
has reached nobody (`FirstCopies`), what is parked waits for a strategy that is not attached and, unless a
replay brought it, has reached nobody (`ParkedWait`), and what a strategy was restored with is neither in its
log nor on its way to it, and is refused by its route (`NotTwice`). `BookedOnce` alone is about executions
already booked: whether the next copy is refused is decided by the resume plan, the seed and the parked list,
which are filled at other times, so all of these places have to be in the invariant. Without the hypothesis
`~Lagging` the code does book twice (`gateway.cpp:1116`, section 4), so it cannot be dropped;
`BookingsInvariant` and its first five parts do not need it. A handler is a composition of updates of the
gateway's record (routes, ring, owners, parked list), each with its own lemma; `unpark()` and the routing of
replayed rows are folds over sequences, unfolded by `FoldExists` and `FoldStays`.

**Its snapshots.** `Truthful` follows an order id from the strategy to the snapshot: a session is one
strategy's (`Lived`), the history of ids has a session's orders in the order they were sent (`InOrder`), no id
is used that was not given out (`UsedIds`), an order on its way has not been at the venue (`WireFresh`), what
an attached strategy has at the venue or on its way is in the history (`Covered`). `Marked` is what the
watermark means: up to its place in the history every order was answered when the venue was asked, and is in
the rows if it rests. The step that needs them together is `route_reconcile()`'s: it translates the
connector's mark, an id of any session, to the last id of the attached session at or before it, and only
`InOrder` and `Covered` make the orders above that id the ones the snapshot may have missed. No hypothesis is
needed, also when `HistCap` makes the history forget.

**The multicast feed.** `FeedInv` says that only what was published is sent (`Sending`, `Sent`); that between
calls the receiver holds only packets ahead of `next_`, nothing when it has not begun, and `highest_` is at
most the end of what was published, exactly it once the end of the session was heard (`Resting`); that
everything that arrived and was not refused is below `next_` or in the reorder buffer (`InHand`, in
`Watching`); that the recovery buffer has what it was shown in order and all that is wanted of it since the
last gap (`Recorded`), live books everything up to `next_` or the snapshot's end (`Exact`), and a snapshot is
awaited only without live books (`Staged`, `Glimpsed`). None of the four properties is inductive without it:
that a hole given up holds nothing that arrived follows from `InHand` and from the hole ending at the lowest
packet held, and the books after a snapshot are those of `Recorded`'s buffer. Within a call, `Working` is the
invariant of the receiver's loops (the callbacks so far are chained from where the call began to `next_`, and
spare what is in hand), `Ready` adds that nothing held is due, which is what `drain()` reaches because every
turn frees a slot, and `Finished` that the end is told last. `Path` then follows the venue's handler through
the callbacks of one call. The loops are unfolded by `StepsExist` and `StepsStay`. Proving this needed the
loops of `MoldUdp` as recursive functions (`Repeat`) in place of folds over a sorted sequence; the state space
of the run is the same.

**Induction over data.** The library's induction theorems take an operator as a parameter, which these provers
cannot instantiate. `Induction` states the principle with *sets* instead (`NatSetInduction`,
`FiniteSetInduction`: a set of naturals that contains 0 and is closed under successor contains them all), and
`SubsetRecursion`, `FoldSteps`, `FoldExists` and `StepsExist` unfold the functions that recursive definitions and the library's folds
choose. Properties of folds, sums, maxima and cardinalities are proved from these.

**Only model-checked.**

* Liveness, which the prover does not do: `ComesBack`, `BookComesBack`, `RoomInTheEnd`, `SnapshotFollows`,
  `PulledQuotesGo`, `EventuallyBooked`, `FeedSettles`, `RestingOrdersAreWorked`, `NothingRestsAfterTrip`.
  `IsChannel` also states that the channel's consumer gets what it waits for; the theorem is about its safety
  part.
* `BybitOrders`: `RestingOrdersAreTracked`, which has to place every request and answer among seven queues and
  two tables, with amends; section 2 says what invariant that takes. It does not hold for every value of the
  constants: the code loses track of orders of several lots (section 4).

## 6. Not modelled

The components marked `not_modelled` in `PROJECT.json` each carry their reason. By size they are:

* the connectors other than Bybit, Binance's book and Nasdaq's feed, most of the repository's lines: what they have in
  common is modelled once, and what is their own is parsing, signing and request formats;
* codecs (FIX, OUCH, MDP3 and its generated schema, ITCH fields), configuration, command line, Python bindings:
  conversions;
* the simulator, the backtests, the strategies' pricing, the research tools: numeric, or not in the
  trading path;
* sockets, TLS, HTTP, files, SQLite, the status export: I/O;
* `Seqlocked` and the memory orders of the rings: a question about the C++ memory model, which interleavings of
  atomic steps would assume away;
* the risk checks, balances, rate limits and the dead man's switch: arithmetic on limits and real time. The
  models have a check's refusal as a choice and a limiter as tokens.

Within the modelled components each section above ends with what is left out. The next candidates are the
loss of Bybit's trade connection with requests in flight, the session's shutdown sequence, the
`SentWatermark`'s 256 entries, the FIX session's sequence recovery and the hedge executor.
