------------------------------- MODULE Replay -------------------------------
(***************************************************************************)
(* ReplayScheduler (replay_scheduler.cpp), for one stream: the paged,      *)
(* watermarked read of a venue's execution history.  A replay walks        *)
(* windows of venue time from the watermark `since`, pages each window,    *)
(* hands out the rows it has not handed out before and moves the           *)
(* watermark, but never past its own start less the settle margin: the     *)
(* venue may index a row that late.                                        *)
(*                                                                         *)
(* The scheduler is reactor-thread code, so a handler is one step.  Its    *)
(* state is the record `sch`; the operators below map a scheduler to the   *)
(* scheduler a method leaves, with three fields for what the method did    *)
(* outside: `ask` (a query left), `moved` (the generation moved on) and    *)
(* `fin` (Hooks::finished was called, with what).  The module that uses    *)
(* them takes these three and clears them.  Five more fields are history:  *)
(* the rows handed out since the last restart (`handed`), those of them    *)
(* the scheduler had read and forgot at the history clamp (`forgot`),      *)
(* whether a row it had not forgotten was handed out twice (`twice`), the  *)
(* time from which the restarts ask for every row (`floor`), and the rows  *)
(* the venue showed when the replay began (`shown`).                       *)
(*                                                                         *)
(* A row is its number: rows are numbered in the order the venue executed  *)
(* them, which is the order of their times.  Left out: several streams,    *)
(* order lookups and held rows, id cursors, quiet streams, the two         *)
(* endpoints of recent_ms, queries deferred by can_query, close().         *)
(***************************************************************************)
EXTENDS Integers, FiniteSets, FiniteSetsExt

CONSTANTS
    Slack,          \* kClockSlackMs
    Settle,         \* settle_ms: how late the venue may index a row
    WindowPages,    \* window_pages: pages of a window before it is narrowed
    MaxPages,       \* max_pages: pages of one replay
    Limits          \* how the connectors' venues page: the rows of a full page
                    \* (pageRows), newest first and by token or oldest first
                    \* (newestFirst), whether a full page means more (counts),
                    \* the longest range of one query (window_ms) and how far
                    \* back the venue answers (history_ms); 0: any

\* There is always a sign that rows are left: the token, or a full page.
ASSUME ReplayAssumption ==
    /\ {WindowPages, MaxPages} \subseteq Nat \ {0}
    /\ {Slack, Settle} \subseteq Nat
    /\ \A l \in Limits : /\ l.pageRows \in Nat \ {0}
                         /\ l.newestFirst \in BOOLEAN /\ l.counts \in BOOLEAN
                         /\ l.window \in Nat /\ l.history \in Nat
                         /\ (l.newestFirst \/ l.counts)

VARIABLES
    lim,        \* the connector's limits_, a member of Limits
    time,       \* the venue's time of each row, in the order they happened
    indexed,    \* the rows the venue's history shows
    now,        \* the venue's time
    sch         \* the scheduler

replayVars == <<lim, time, indexed, now, sch>>

Rows == DOMAIN time
Least(a, b) == IF a < b THEN a ELSE b
Greatest(a, b) == IF a > b THEN a ELSE b

\* A query: the window [start, end] (end = 0: open-ended), and the last row
\* of the page before (0: the first page).
Query(start, end, page) == [start |-> start, end |-> end, page |-> page]

NewScheduler(since) ==
    [since |-> since, read |-> {}, known |-> {}, active |-> FALSE, ok |-> TRUE,
     at |-> 0, q |-> Query(0, 0, 0), awaiting |-> FALSE, pages |-> 0, wpages |-> 0,
     rows |-> {}, again |-> 0, due |-> FALSE, retry |-> FALSE,
     ask |-> FALSE, moved |-> FALSE, fin |-> "no",
     handed |-> {}, forgot |-> {}, twice |-> FALSE, floor |-> since, shown |-> {}]

\* take_again(): a restart asked for while a replay ran.
TakeAgain(s) ==
    IF s.again = 0 THEN s
    ELSE LET since == Least(s.since, s.again)
         IN  [s EXCEPT !.since = since, !.read = {}, !.again = 0,
                       !.handed = {r \in @ : time[r] < since}, !.forgot = {}]

\* What the last replay leaves in the fields start() sets anew is forgotten.
Idle(s) == [s EXCEPT !.active = FALSE, !.q = Query(0, 0, 0), !.awaiting = FALSE,
                     !.pages = 0, !.wpages = 0, !.rows = {}]

\* Fault: the replay that ran is reported, the restart follows.
FinishAndTell(s) ==
    [TakeAgain(Idle(s)) EXCEPT !.due = s.again > 0, !.retry = @ \/ ~s.ok,
                               !.fin = IF s.ok THEN "complete" ELSE "incomplete"]

\* finish(): a restart asked for meanwhile goes on at the next tick, and
\* whoever waits waits for that one.
Finish(s) ==
    IF s.again > 0 THEN [TakeAgain(Idle(s)) EXCEPT !.due = TRUE]
    ELSE [Idle(s) EXCEPT !.retry = @ \/ ~s.ok,
                         !.fin = IF s.ok THEN "complete" ELSE "incomplete"]

\* stream_done(), of the only stream.
StreamDone(s, ok) ==
    Finish([s EXCEPT !.ok = @ /\ ok])

\* send(); `sent`: the connector could send the query.
Send(s, sent) ==
    LET t == [s EXCEPT !.pages = @ + 1, !.awaiting = TRUE]
    IN  IF sent THEN [t EXCEPT !.ask = TRUE] ELSE StreamDone(t, FALSE)

\* The end of the window that starts at `start` in a replay begun at `at`;
\* 0: open-ended.  Never past the settle margin.
WindowEnd(start, at) ==
    IF lim.window > 0 /\ at - start > lim.window - Slack
      THEN Greatest(start, Least(start + lim.window - 1, at - Settle))
      ELSE 0

\* begin_window().  A start beyond the venue's history is clamped, and the
\* rows read are forgotten, those at or after the new start too.
BeginWindow(s, cursor, sent) ==
    LET cut   == lim.history > 0 /\ cursor < s.at - lim.history
        start == IF cut THEN s.at - lim.history ELSE cursor
        t     == [s EXCEPT !.q = Query(start, WindowEnd(start, s.at), 0),
                           !.since = IF cut THEN start ELSE @,
                           !.read = IF cut THEN {} ELSE @,
                           !.forgot = IF cut THEN @ \cup s.read ELSE @,
                           !.floor = IF cut THEN start ELSE @,
                           !.ok = @ /\ ~cut, !.wpages = 0, !.rows = {}]
    IN  IF s.pages >= MaxPages THEN StreamDone(s, FALSE) ELSE Send(t, sent)

\* Fault: the rows of the watermark's millisecond are forgotten.
CommitForgets(s, readTo) ==
    LET since == Greatest(s.since, Least(readTo, s.at - Settle))
    IN  [s EXCEPT !.since = since, !.read = {r \in @ : time[r] > since}]

\* commit()
Commit(s, readTo) ==
    LET since == Greatest(s.since, Least(readTo, s.at - Settle))
    IN  [s EXCEPT !.since = since, !.read = {r \in @ : time[r] >= since}]

\* emit_window(): the rows not handed out before go out, the watermark
\* moves, and the next window begins or the replay ends.
EmitWindow(s, more, sent) ==
    LET asked  == {r \in s.rows : time[r] >= s.q.start}
        new    == asked \ (s.read \cup s.known)
        newest == Max({time[r] : r \in s.rows} \cup {0})
        t      == [s EXCEPT !.read = @ \cup asked, !.rows = {},
                            !.handed = @ \cup new, !.forgot = @ \ new,
                            !.twice = @ \/ ~(new \cap s.handed \subseteq s.forgot)]
    IN  IF more
          THEN IF newest > s.q.start
                 THEN BeginWindow(Commit(t, newest), newest, sent)
                 ELSE StreamDone(t, FALSE)
        ELSE IF s.q.end # 0
          THEN BeginWindow(Commit(t, s.q.end + 1), s.q.end + 1, sent)
        ELSE StreamDone(Commit(t, s.at), TRUE)

\* page(): an answer to the query the replay waits for.  A window of too
\* many pages is read again up to its oldest row seen.
Page(s, ans, sent) ==
    LET more == ans.next # 0 \/ (lim.counts /\ Cardinality(ans.rows) >= lim.pageRows)
        t    == [s EXCEPT !.awaiting = FALSE, !.rows = @ \cup ans.rows]
        low  == Min({time[r] : r \in t.rows})
    IN  IF ans.next = 0 THEN EmitWindow(t, more, sent)
        ELSE IF s.wpages + 1 < WindowPages
          THEN Send([t EXCEPT !.wpages = @ + 1, !.q.page = ans.next], sent)
        ELSE IF low <= s.q.start THEN StreamDone(t, FALSE)
        ELSE Send([t EXCEPT !.q = Query(s.q.start, low, 0), !.wpages = 0, !.rows = {}], sent)

\* start()
Start(s, sent) ==
    BeginWindow([s EXCEPT !.active = TRUE, !.ok = TRUE, !.retry = FALSE, !.at = now,
                          !.pages = 0, !.moved = TRUE, !.shown = indexed], s.since, sent)

\* restart_from() and resume(); `known`: the rows an earlier session booked.
RestartFrom(s, from) ==
    IF s.active
      THEN [s EXCEPT !.again = IF @ > 0 THEN Least(@, from) ELSE from,
                     !.floor = Least(@, from)]
      ELSE [s EXCEPT !.since = from, !.read = {}, !.handed = {}, !.forgot = {}, !.floor = from]
Resume(s, from, known) ==
    RestartFrom([s EXCEPT !.known = IF s.active THEN @ \cup known ELSE known], from)

\* abort()
Abort(s) ==
    IF s.active
      THEN [TakeAgain(Idle(s)) EXCEPT !.retry = TRUE, !.moved = TRUE]
      ELSE s

\* Fault: an answer of an earlier replay is taken.
ExpectsAny(s, q, current) == s.active /\ s.awaiting /\ s.q = q

\* expects(), of a query of this replay's generation (`current`) or of an
\* earlier one.
Expects(s, q, current) == s.active /\ current /\ s.awaiting /\ s.q = q

-----------------------------------------------------------------------------
\* External: the venue's history.

Hits(q) == {r \in indexed : /\ time[r] >= q.start
                            /\ q.end # 0 => time[r] <= q.end
                            /\ q.page # 0 => r < q.page}

\* The page the venue answers a query with: the newest (or the oldest)
\* pageRows rows, and the token of the next page when rows are left.
Answer(q) ==
    LET hits == Hits(q)
        Before(r) == IF lim.newestFirst THEN {h \in hits : h > r} ELSE {h \in hits : h < r}
        page == {r \in hits : Cardinality(Before(r)) < lim.pageRows}
    IN  [rows |-> page,
         next |-> IF lim.newestFirst /\ page # hits THEN Min(page) ELSE 0]
=============================================================================
