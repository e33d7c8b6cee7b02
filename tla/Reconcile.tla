------------------------------ MODULE Reconcile ------------------------------
(***************************************************************************)
(* ReconcileDriver (reconcile_driver.cpp) composed with the connector's    *)
(* ReplayScheduler: a reconciliation first replays the executions, or      *)
(* joins the replay that runs, then fetches the open orders, and passes    *)
(* the snapshot on marked exact when the replay was complete.  Requests    *)
(* meanwhile merge; what fails is asked again; answers come late, or not   *)
(* at all.                                                                 *)
(*                                                                         *)
(* The driver and the scheduler run on the reactor thread and call each    *)
(* other through hooks: an action is one event (an answer, a timer, a      *)
(* request) with everything it calls.  Both test the generation of an      *)
(* answer; of the snapshot's, one the driver moved on from changes         *)
(* nothing, so only the current fetch is kept.  Left out: the balance leg, *)
(* the watermark and the shadow sweep (BybitOrders has them), close().     *)
(***************************************************************************)
EXTENDS Replay, Sequences

CONSTANTS
    MaxNow, MaxRows,    \* bounds: of the venue's time and of its rows
    MaxBurst,           \* bound: rows of one millisecond
    MaxEvents           \* bound: requests, restarts and faults together

VARIABLES
    net,        \* the history queries sent and not answered to the connector
    drv,        \* the driver
    events      \* the requests, restarts and faults so far

vars == <<lim, time, indexed, now, sch, net, drv, events>>

\* Want: a merge keeps the stronger.
None  == 0
Sweep == 1
Full  == 2

\* History: gap, the replay behind the exact mark left out a row it owed;
\* owed, a request has had no snapshot yet.
NewDriver == [pending |-> None, running |-> None, waiting |-> FALSE, inFlight |-> FALSE,
              exact |-> FALSE, retry |-> FALSE, retryWant |-> None, gap |-> FALSE,
              owed |-> FALSE]

Busy(d) == d.inFlight \/ d.waiting

\* What a handler tries may fail: the scheduler is not ready, its query
\* cannot be sent, or the snapshot cannot be asked for; one of `what` at most.
AllWell == [ready |-> TRUE, sent |-> TRUE, asked |-> TRUE]
Tries(what) == {AllWell} \cup {[AllWell EXCEPT ![w] = FALSE] : w \in what}
\* What a start of the replay tries; joining the one that runs tries nothing.
Starting == IF sch.active THEN {} ELSE {"ready", "sent"}

\* n requests, restarts or things that go wrong, and what t says of the
\* handler's tries, within the bound.
Spend(n, t) ==
    LET m == IF t = AllWell THEN n ELSE n + 1
    IN  events + m <= MaxEvents /\ events' = events + m

\* Fault: only a fetch that was running is asked again.
FailForgets(d) == [d EXCEPT !.inFlight = FALSE, !.waiting = FALSE, !.retry = d.inFlight,
                            !.retryWant = Max({d.running, d.pending, d.retryWant}),
                            !.running = None, !.pending = None]

\* fail()
Fail(d) == [d EXCEPT !.inFlight = FALSE, !.waiting = FALSE, !.retry = TRUE,
                     !.retryWant = Max({d.running, d.pending, d.retryWant}),
                     !.running = None, !.pending = None]

\* fetch(); `asked`: the connector could ask for the snapshot.
Fetch(d, asked) ==
    LET e == [d EXCEPT !.running = Greatest(@, d.pending), !.pending = None, !.inFlight = TRUE]
    IN  IF asked THEN e ELSE Fail(e)

\* The rows a replay owed whoever waited for it and did not hand out.
Owed(s) == {r \in s.shown : time[r] >= s.floor} \ (s.handed \cup s.known)

\* replay_done(), if the scheduler called Hooks::finished and anyone waits.
ReplayDone(d, s, asked) ==
    IF s.fin = "no" \/ ~d.waiting THEN d
    ELSE Fetch([d EXCEPT !.waiting = FALSE, !.exact = (s.fin = "complete"),
                         !.gap = Owed(s) # {}], asked)

\* A handler leaves the scheduler s and the driver d, with the queries msgs
\* still out: the scheduler's query goes out, a generation moved on makes
\* the others an earlier one's, and its finished() reaches the driver.
Outcome(s, d, msgs, t) ==
    LET old  == {[m EXCEPT !.current = @ /\ ~s.moved,
                           !.ans = IF @ = <<>> /\ ~s.awaiting THEN <<Answer(m.q)>> ELSE @]
                     : m \in msgs}
        asks == IF s.ask THEN {[q |-> s.q, current |-> TRUE, ans |-> <<>>]} ELSE {}
    IN  /\ sch' = [s EXCEPT !.ask = FALSE, !.moved = FALSE, !.fin = "no",
                            !.ok = @ \/ ~s.active, !.shown = IF s.active THEN @ ELSE {}]
        /\ net' = old \cup asks
        /\ drv' = ReplayDone(d, s, t.asked)

\* Scheduler run(), as a reconciliation and request_executions() call it.
Run(s, t) == IF s.active \/ ~t.ready THEN s ELSE Start(s, t.sent)

\* Fault: the wait is latched after the replay was started.
StartThenLatch(d, t) ==
    LET e == [d EXCEPT !.running = d.pending, !.pending = None, !.retry = FALSE,
                       !.retryWant = None]
        s == Run(sch, t)
    IN  IF sch.active \/ t.ready
          THEN Outcome([s EXCEPT !.fin = "no"], [e EXCEPT !.waiting = TRUE], net, t)
          ELSE Outcome(sch, Fetch([e EXCEPT !.exact = FALSE, !.gap = FALSE], t.asked), net, t)

\* start() of the driver: a scheduler that is not active and not ready
\* cannot replay: the snapshot goes now, not exact.
StartDriver(d, t) ==
    LET e == [d EXCEPT !.running = d.pending, !.pending = None, !.retry = FALSE,
                       !.retryWant = None, !.waiting = TRUE]
    IN  IF sch.active \/ t.ready
          THEN Outcome(Run(sch, t), e, net, t)
          ELSE Outcome(sch, Fetch([e EXCEPT !.waiting = FALSE, !.exact = FALSE, !.gap = FALSE],
                                  t.asked), net, t)

\* want()
Want(d, w, t) ==
    LET e == [d EXCEPT !.pending = Greatest(@, w)]
    IN  IF Busy(d) THEN Outcome(sch, e, net, t) ELSE StartDriver(e, t)

venueVars == <<lim, time, indexed, now>>
-----------------------------------------------------------------------------
\* sweep() when the private stream is first live, request() later.
Request ==
    \E t \in Tries(IF Busy(drv) THEN {} ELSE Starting) :
        /\ Spend(1, t)
        /\ Want([drv EXCEPT !.owed = TRUE], IF events = 0 THEN Sweep ELSE Full, t)
        /\ UNCHANGED venueVars

\* The driver's timer: a retry that is due.
RetryTimer ==
    \E t \in Tries(Starting) :
        /\ drv.retry
        /\ Spend(0, t)
        /\ Want([drv EXCEPT !.retry = FALSE, !.retryWant = None],
                IF drv.retryWant = None THEN Full ELSE drv.retryWant, t)
        /\ UNCHANGED venueVars

\* fetched(), ok: the snapshot goes out and what was asked for meanwhile starts.
Fetched ==
    \E t \in Tries(IF drv.pending = None THEN {} ELSE Starting) :
        /\ drv.inFlight
        /\ Spend(0, t)
        /\ LET d == [drv EXCEPT !.inFlight = FALSE, !.exact = FALSE, !.running = None, !.gap = FALSE,
                                !.owed = drv.pending # None]
           IN  IF d.pending # None THEN StartDriver(d, t)
               ELSE Outcome(sch, d, net, t)
        /\ UNCHANGED venueVars

\* fetched(), failed, or no answer within kFetchTimeoutNs.
FetchFailed ==
    /\ drv.inFlight
    /\ Spend(1, AllWell)
    /\ drv' = Fail(drv)
    /\ UNCHANGED <<venueVars, sch, net>>

\* The scheduler's timer: the retry, the restart that is due, or the sweep.
ReplayTimer ==
    \E t \in Tries({"sent"}) :
        /\ ~sch.active
        /\ \/ sch.retry \/ sch.due
           \/ now > sch.at
        /\ Spend(0, t)
        /\ Outcome(Start([sch EXCEPT !.due = FALSE], t.sent), drv, net, t)
        /\ UNCHANGED venueVars

\* page() of an answer that reaches the connector; one the replay does not
\* expect is dropped.
OnPage ==
    \E m \in net, t \in Tries(IF drv.waiting THEN {"sent", "asked"} ELSE {"sent"}) :
        /\ Expects(sch, m.q, m.current) \/ t = AllWell
        /\ Spend(0, t)
        /\ IF Expects(sch, m.q, m.current)
             THEN Outcome(Page(sch, IF m.ans = <<>> THEN Answer(m.q) ELSE m.ans[1], t.sent), drv, net \ {m}, t)
             ELSE Outcome(sch, drv, net \ {m}, t)
        /\ UNCHANGED venueVars

\* failed(): the answer is an error or unreadable.
OnFailed ==
    \E m \in net, t \in Tries(IF drv.waiting THEN {"asked"} ELSE {}) :
        /\ Expects(sch, m.q, m.current)
        /\ Spend(1, t)
        /\ Outcome(StreamDone(sch, FALSE), drv, net \ {m}, t)
        /\ UNCHANGED venueVars

\* expire(): no answer within kQueryTimeoutNs; it may still come.
Expire ==
    \E t \in Tries(IF drv.waiting THEN {"asked"} ELSE {}) :
        /\ sch.active /\ sch.awaiting
        /\ Spend(1, t)
        /\ Outcome(StreamDone(sch, FALSE), drv, net, t)
        /\ UNCHANGED venueVars

\* The connection the queries went out on is lost (Deribit): abort(), then
\* transport_lost().
TransportLost ==
    /\ sch.active \/ Busy(drv)
    /\ Spend(1, AllWell)
    /\ Outcome(Abort(sch), IF Busy(drv) THEN Fail(drv) ELSE drv, net, AllWell)
    /\ UNCHANGED venueVars

\* request_executions(from) of the fill auditor: a replay that runs goes on
\* as it is.
Audit ==
    \E from \in 1..(now - 1), t \in Tries(Starting) :
        /\ Spend(1, t)
        /\ LET s == IF sch.active THEN sch ELSE RestartFrom(sch, from)
           IN  Outcome(Run(s, t), drv, net, t)
        /\ UNCHANGED venueVars

\* fastmm-gateway attaches a strategy whose store ends at `from`, having
\* booked what was handed out: resume_executions(), then request_executions().
Attach ==
    \E from \in 1..(now - 1), t \in Tries(Starting) :
        /\ Spend(1, t)
        /\ LET s == Resume(sch, from, {r \in sch.handed : time[r] >= from})
           IN  Outcome(Run(s, t), drv, net, t)
        /\ UNCHANGED venueVars
-----------------------------------------------------------------------------
\* External: the venue executes orders and indexes the executions at most
\* Settle late.

Execute ==
    /\ Cardinality(Rows) < MaxRows
    /\ Cardinality({r \in Rows : time[r] = now}) < MaxBurst
    /\ time' = Append(time, now)
    /\ UNCHANGED <<lim, indexed, now, sch, net, drv, events>>

Index ==
    \E r \in Rows \ indexed :
        /\ indexed' = indexed \cup {r}
        /\ UNCHANGED <<lim, time, now, sch, net, drv, events>>

Tick ==
    /\ now < MaxNow
    /\ \A r \in Rows \ indexed : time[r] + Settle > now
    /\ now' = now + 1
    /\ UNCHANGED <<lim, time, indexed, sch, net, drv, events>>

Init ==
    /\ lim \in Limits
    /\ time = <<>> /\ indexed = {} /\ now = 1
    /\ sch = NewScheduler(1)
    /\ net = {} /\ drv = NewDriver
    /\ events = 0

Next == \/ Request \/ RetryTimer \/ Fetched \/ FetchFailed \/ ReplayTimer \/ OnPage
        \/ OnFailed \/ Expire \/ TransportLost \/ Audit \/ Attach
        \/ Execute \/ Index \/ Tick

Spec == Init /\ [][Next]_vars

\* Fairness: no query and no fetch stays unanswered for ever, which expire()
\* and the fetch timeout see to, and the timers run: a retry and a restart
\* that are due start.  Stated of the states rather than of the actions: each
\* of these waits ends whenever it began.
FairSpec ==
    /\ Spec
    /\ \A p \in 1..(MaxPages + WindowPages) : []<>~(sch.awaiting /\ sch.pages = p)
    /\ []<>~drv.inFlight /\ []<>~drv.retry /\ []<>~sch.due
-----------------------------------------------------------------------------
\* Rows before the watermark are never asked for again (replay_scheduler.hpp,
\* "the watermark"), so every row from the last restart's start up to it was
\* handed out, or is one an earlier session booked: also those the venue
\* indexed late, those of windows read again, and whatever was answered late.
NothingBelowWatermark ==
    sch.again = 0 =>
        \A r \in Rows : sch.floor <= time[r] /\ time[r] < sch.since
                            => r \in sch.handed \cup sch.known

\* No row is handed out twice (replay_scheduler.hpp, "so they are not
\* forwarded twice"), though windows overlap by the settle margin and pages by
\* their newest millisecond.  Two exceptions: a restart asks for rows again,
\* and the history clamp forgets what was read (begin_window()), so a row at
\* or after the clamped start goes out once more for each clamp.
HandedOutOnce == ~sch.twice

\* A snapshot marked kExecutionsExact follows a replay that handed out every
\* row the venue showed when it began, from where any restart asked for
\* before it ended: a joined replay's too.
ExactIsExact == drv.exact => ~drv.gap

\* The driver never waits for a replay that is not running and not due: its
\* snapshot would never be asked for.
WaitsForAReplay == drv.waiting => sch.active \/ sch.due

\* A reconciliation asked for is followed by a snapshot, whatever failed,
\* was retried or was merged with it.
SnapshotFollows == drv.owed ~> ~drv.owed
=============================================================================
