----------------------------- MODULE DepthSync -----------------------------
(***************************************************************************)
(* The order book of one Binance instrument: BookSyncer wrapped by         *)
(* BasicBinanceDepthSync, between a websocket stream of diffs that can     *)
(* lose frames and reconnect, a REST channel that answers snapshot         *)
(* requests late, in order or not at all, and the market-data ring to the  *)
(* engine, whose pushes fail when it is full.                              *)
(*                                                                         *)
(* One callback of the reactor thread is one action.  Levels and prices    *)
(* are left out: a book is the update id it stands at, plus whether an     *)
(* update below that id is missing from it.  Time is two facts, each set   *)
(* by a call and cleared by a clock action: the last snapshot request is   *)
(* less than min_interval_ns_ old (recent), and start() is less than       *)
(* kStreamWait ago (early).                                                *)
(***************************************************************************)
EXTENDS Naturals, Sequences, FiniteSets, FiniteSetsExt, SequencesExt

CONSTANTS
    Traits,      \* the chaining rules considered: of "spot" and "futures"
    MaxBuffered, \* kMaxBuffered
    MaxUpd,      \* update ids the venue hands out
    MaxBatch,    \* update ids one diff covers
    MaxLost,     \* frames the decoder drops (malformed, or too large)
    MaxDown,     \* disconnects of the stream
    MaxResync,   \* stale episodes, explicit resyncs and rollovers
    MaxFail,     \* snapshot requests refused or failed
    MaxFull,     \* pushes refused by a full ring
    MaxFaults    \* of these five kinds of fault, in one behaviour

ASSUME DepthSyncAssumption ==
    /\ Traits \subseteq {"spot", "futures"}
    /\ MaxBuffered \in Nat \ {0} /\ MaxBatch \in Nat \ {0}
    /\ {MaxUpd, MaxLost, MaxDown, MaxResync, MaxFail, MaxFull, MaxFaults} \subseteq Nat

VARIABLES
    trait,   \* the chaining rule of this instrument's diffs, never changed
    upd,     \* the update id of the venue's book
    stream,  \* diffs sent on the current connection and not yet read
    link,    \* the stream: "down", "live" or "stale"
    rest,    \* snapshot requests in flight: NoAnswer, or the answer's lastUpdateId
    s,       \* the sync object
    recent, early,  \* the two facts about time
    book,    \* the engine's book
    used     \* how much of each fault bound is spent

vars == <<trait, upd, stream, link, rest, s, recent, early, book, used>>

NoAnswer == MaxUpd + 1

Delta == [type : {"delta"}, U : 1..MaxUpd, u : 1..MaxUpd]
Snapshot(L) == [type |-> "snapshot", u |-> L]
\* Any ConnectionState of channel 0 other than Live: the engine clears the book.
NotLive == [type |-> "notlive"]

-----------------------------------------------------------------------------
(***************************************************************************)
(* The chaining rules.  A diff of this venue starts right after the one    *)
(* before it, so the futures' pu is U - 1.                                 *)
(***************************************************************************)
IsStale(d, snap) == IF trait = "spot" THEN d.u <= snap ELSE d.u < snap

FirstApplies(d, snap) ==
    IF trait = "spot" THEN d.U <= snap + 1 /\ snap + 1 <= d.u
                       ELSE d.U <= snap /\ d.u >= snap
NextApplies(d, prev) == d.U = prev + 1

(***************************************************************************)
(* BookSyncer.  Each operator returns the sync object after the call and   *)
(* the messages it pushed, [s, out].                                       *)
(***************************************************************************)
Start(t) == [t EXCEPT !.buf = <<>>, !.first = FALSE, !.state = "Buffering", !.want = TRUE]

Resync(t) == [s |-> Start(t), out |-> <<NotLive>>]

\* Fault: the buffer has no end.
BufferedAlways(t, d) == [s |-> [t EXCEPT !.buf = Append(@, d)], out |-> <<>>]

Buffered(t, d) ==
    IF Len(t.buf) < MaxBuffered
    THEN [s |-> [t EXCEPT !.buf = Append(@, d)], out |-> <<>>]
    ELSE Resync(t)

\* The diff that shows a gap is the first one of the next attempt.
ResyncKeeping(t, d) ==
    [s |-> Buffered(Start(t), d).s, out |-> <<NotLive>>]

Applied(t, d) == [s |-> [t EXCEPT !.prev = d.u, !.first = FALSE], out |-> <<d>>]

OnDelta(t, d) ==
    LET fits == IF t.first THEN FirstApplies(d, t.prev) ELSE NextApplies(d, t.prev)
        drop == IsStale(d, t.prev) /\ (t.first \/ ~fits)
    IN  IF t.state = "Buffering" THEN Buffered(t, d)
        ELSE IF t.state = "Idle" \/ drop THEN [s |-> t, out |-> <<>>]
        ELSE IF fits THEN Applied(t, d)
        ELSE ResyncKeeping(t, d)

\* The buffered diffs from the n-th on (drop_front).
From(buf, n) == SubSeq(buf, n, Len(buf))

\* The buffered diffs start after the snapshot: keep them, ask for a newer one.
TooOld(t, fresh) == [s |-> [t EXCEPT !.buf = fresh, !.want = TRUE], out |-> <<NotLive>>]

\* Fault: the replay stops at the gap and waits for the next snapshot to come.
ReplayedAndWaits(t, L, fresh, gap) ==
    [s   |-> [t EXCEPT !.prev = fresh[gap - 1].u, !.buf = From(fresh, gap), !.first = FALSE,
                       !.state = "Buffering"],
     out |-> <<Snapshot(L)>> \o SubSeq(fresh, 1, gap - 1) \o <<NotLive>>]

\* The stream itself has a gap before fresh[gap]: that diff starts the next attempt.
ReplayedToGap(t, L, fresh, gap) ==
    [s   |-> [t EXCEPT !.prev = fresh[gap - 1].u, !.buf = From(fresh, gap), !.first = FALSE,
                       !.state = "Buffering", !.want = TRUE],
     out |-> <<Snapshot(L)>> \o SubSeq(fresh, 1, gap - 1) \o <<NotLive>>]

Replayed(t, L, fresh) ==
    [s   |-> [t EXCEPT !.prev = IF fresh = <<>> THEN L ELSE Last(fresh).u, !.buf = <<>>,
                       !.first = (fresh = <<>>), !.state = "Synced"],
     out |-> <<Snapshot(L)>> \o fresh]

OnSnapshot(t, L) ==
    LET i     == Min({j \in DOMAIN t.buf : ~IsStale(t.buf[j], L)} \cup {Len(t.buf) + 1})
        fresh == From(t.buf, i)  \* from the first diff newer than the snapshot
        gaps  == {j \in 2..Len(fresh) : ~NextApplies(fresh[j], fresh[j - 1].u)}
    IN  IF t.state = "Idle" THEN [s |-> t, out |-> <<>>]
        ELSE IF fresh # <<>> /\ ~FirstApplies(fresh[1], L) THEN TooOld(t, fresh)
        ELSE IF gaps # {} THEN ReplayedToGap(t, L, fresh, Min(gaps))
        ELSE Replayed(t, L, fresh)

-----------------------------------------------------------------------------
(***************************************************************************)
(* The engine's side: a message that reaches the ring changes the book.    *)
(***************************************************************************)
NoBook == [have |-> FALSE, seq |-> 0, gap |-> FALSE]

BookAfter(b, m) ==
    CASE m.type = "notlive"  -> NoBook
      [] m.type = "snapshot" -> [have |-> TRUE, seq |-> m.u, gap |-> FALSE]
      [] m.type = "delta"    ->
             [b EXCEPT !.seq = m.u,
                       !.gap = @ \/ ~b.have \/ m.U > b.seq + 1 \/ m.u < b.seq]

\* The book b once the messages out, but for those at the indices in lost, have reached the engine.
Delivered(b, out, lost) ==
    FoldLeft(LAMBDA c, i : IF i \in lost THEN c ELSE BookAfter(c, out[i]), b,
             [i \in DOMAIN out |-> i])

-----------------------------------------------------------------------------
(***************************************************************************)
(* BasicBinanceDepthSync.  flush_request() sends the snapshot request      *)
(* unless one is pending, the rate limit defers it or a new stream has     *)
(* shown nothing yet.  The requester may refuse it from inside the call:   *)
(* it then counts for the rate limit and the retry is left to the timer.   *)
(* t, r and e are the sync object, the requests in flight and the fact     *)
(* early after the rest of the callback.                                   *)
(***************************************************************************)
Wanted(t, e) == t.want /\ ~t.pending /\ ~(t.wait /\ e)

FlushRequest(t, r, e, refused) ==
    /\ refused => Wanted(t, e) /\ ~recent
    /\ IF Wanted(t, e) /\ ~recent /\ ~refused
       THEN /\ s' = [t EXCEPT !.wait = FALSE, !.want = FALSE, !.pending = TRUE]
            /\ rest' = Append(r, NoAnswer)
       ELSE /\ s' = [t EXCEPT !.wait = @ /\ ~Wanted(t, e)]
            /\ rest' = r
    /\ recent' = (recent \/ Wanted(t, e))
    /\ early' = e

Limit == [lost |-> MaxLost, down |-> MaxDown, resync |-> MaxResync, fail |-> MaxFail,
          full |-> MaxFull]

Spent(f) == [used EXCEPT ![f] = @ + 1]

Charge(cost) ==
    /\ \A f \in DOMAIN cost : cost[f] <= Limit[f]
    /\ SumFunction(cost) <= MaxFaults
    /\ used' = cost

\* The end of every callback that can ask for a snapshot.
Finish(t, r, e, cost) ==
    \E refused \in BOOLEAN :
        /\ FlushRequest(t, r, e, refused)
        /\ Charge([cost EXCEPT !.fail = @ + IF refused THEN 1 ELSE 0])

(***************************************************************************)
(* The messages res.out of a callback are pushed; the ring may refuse any  *)
(* of them.  A refused snapshot or diff forces a resync once the callback  *)
(* has pushed the rest; a refused ConnectionState is simply lost.          *)
(***************************************************************************)
\* Fault: only a refused snapshot is noticed.
OverflowedSnapshot(out, lost) == \E i \in lost : out[i].type = "snapshot"

Overflowed(out, lost) == \E i \in lost : out[i].type # "notlive"

Handled(res, r, e, cost) ==
    \E lost \in SUBSET DOMAIN res.out :
        LET after == IF Overflowed(res.out, lost) THEN Resync(res.s)
                                                  ELSE [s |-> res.s, out |-> <<>>]
        IN  \E also \in SUBSET DOMAIN after.out :
                /\ book' = Delivered(Delivered(book, res.out, lost), after.out, also)
                /\ Finish(after.s, r, e,
                          [cost EXCEPT !.full = @ + Cardinality(lost) + Cardinality(also)])

-----------------------------------------------------------------------------
Init ==
    /\ trait \in Traits
    /\ upd = 0 /\ stream = <<>> /\ link = "down" /\ rest = <<>>
    /\ s = [state |-> "Idle", prev |-> 0, first |-> FALSE, buf |-> <<>>,
            want |-> FALSE, pending |-> FALSE, wait |-> FALSE]
    /\ recent = FALSE /\ early = FALSE
    /\ book = NoBook
    /\ used = [lost |-> 0, down |-> 0, resync |-> 0, fail |-> 0, full |-> 0]

\* The venue's book moves; the diff goes to whoever is connected.
VenueUpdate ==
    \E n \in 1..MaxBatch :
        /\ upd + n <= MaxUpd
        /\ upd' = upd + n
        /\ stream' = IF link = "down" THEN stream
                     ELSE Append(stream, [type |-> "delta", U |-> upd + 1, u |-> upd + n])
        /\ UNCHANGED <<trait, link, rest, s, recent, early, book, used>>

\* Whatever is received ends a stale episode before it is handled.
Receive ==
    /\ stream # <<>>
    /\ stream' = Tail(stream)
    /\ link' = "live"
    /\ LET res == OnDelta(s, Head(stream))
       IN  Handled([res EXCEPT !.s.wait = FALSE], rest, early, used)
    /\ UNCHANGED <<trait, upd>>

LoseFrame ==
    /\ stream # <<>>
    /\ stream' = Tail(stream)
    /\ link' = "live"
    /\ Charge(Spent("lost"))
    /\ UNCHANGED <<trait, upd, rest, s, recent, early, book>>

\* on_md_open(): start() of every sync.
Connect ==
    /\ link = "down"
    /\ link' = "live"
    /\ Handled([s |-> [Start(s) EXCEPT !.wait = TRUE], out |-> <<>>], rest, TRUE, used)
    /\ UNCHANGED <<trait, upd, stream>>

\* A second session replaces the first before the venue ends it: start() again, and the engine keeps
\* the book it has.  What the first session had not delivered is not read any more.
Rollover ==
    /\ link # "down"
    /\ link' = "live"
    /\ stream' = <<>>
    /\ Handled([s |-> [Start(s) EXCEPT !.wait = TRUE], out |-> <<>>], rest, TRUE, Spent("resync"))
    /\ UNCHANGED <<trait, upd>>

Stopped(t) == [t EXCEPT !.wait = FALSE, !.want = FALSE, !.pending = FALSE]

\* stop() of every sync, then the Disconnected state to the engine.
Disconnect ==
    /\ link # "down"
    /\ link' = "down"
    /\ stream' = <<>>
    /\ s' = Stopped(s)
    /\ \E lost \in SUBSET {1} :
           /\ book' = Delivered(book, <<NotLive>>, lost)
           /\ Charge([Spent("down") EXCEPT !.full = @ + Cardinality(lost)])
    /\ UNCHANGED <<trait, upd, rest, recent, early>>

\* Nothing received for stale_ms: the engine clears its books, the syncs start over.
GoStale ==
    /\ link = "live"
    /\ link' = "stale"
    /\ Handled([Resync(s) EXCEPT !.out = <<NotLive>> \o @], rest, early, Spent("resync"))
    /\ UNCHANGED <<trait, upd, stream>>

\* A new consumer of the market data needs whole books.
ResyncBooks ==
    /\ link = "live"
    /\ Handled(Resync(s), rest, early, Spent("resync"))
    /\ UNCHANGED <<trait, upd, stream, link>>

\* The REST lane has one request at a time with the venue.
VenueSnapshot ==
    /\ rest # <<>> /\ Head(rest) = NoAnswer
    /\ rest' = [rest EXCEPT ![1] = upd]
    /\ UNCHANGED <<trait, upd, stream, link, s, recent, early, book, used>>

OnSnapshotBody ==
    /\ rest # <<>> /\ Head(rest) # NoAnswer
    /\ LET answered == [s EXCEPT !.pending = FALSE, !.want = FALSE]
       IN  Handled(OnSnapshot(answered, Head(rest)), Tail(rest), early, used)
    /\ UNCHANGED <<trait, upd, stream, link>>

\* Fault: the failed request stays pending.
FailedAndPending(t) == [t EXCEPT !.want = TRUE]

Failed(t) == [t EXCEPT !.pending = FALSE, !.want = TRUE]

\* An HTTP error, a timeout or a body that does not parse.
OnSnapshotFailed ==
    /\ rest # <<>>
    /\ Finish(Failed(s), Tail(rest), early, Spent("fail"))
    /\ UNCHANGED <<trait, upd, stream, link, book>>

OnTimer ==
    /\ Finish(s, rest, early, used)
    /\ UNCHANGED <<trait, upd, stream, link, book>>

IntervalPasses == recent /\ recent' = FALSE
                  /\ UNCHANGED <<trait, upd, stream, link, rest, s, early, book, used>>

StreamWaitPasses == early /\ early' = FALSE
                    /\ UNCHANGED <<trait, upd, stream, link, rest, s, recent, book, used>>

Next ==
    \/ VenueUpdate \/ Receive \/ LoseFrame \/ Connect \/ Disconnect
    \/ Rollover \/ GoStale \/ ResyncBooks \/ VenueSnapshot \/ OnSnapshotBody \/ OnSnapshotFailed
    \/ OnTimer \/ IntervalPasses \/ StreamWaitPasses

Spec == Init /\ [][Next]_vars

(***************************************************************************)
(* Fairness.  The reactor reads its sockets and runs its timers, the venue *)
(* answers, time passes.  Each conjunct names what the callback does to    *)
(* one variable (and not the callback's whole action, which TLC would      *)
(* evaluate again on every edge of the graph): a frame is taken off the    *)
(* stream, the stream is opened, the request at the head is answered, its  *)
(* answer is taken, a snapshot that is wanted and may be asked for is.     *)
(***************************************************************************)
TakesFrame  == stream # <<>> /\ stream' = Tail(stream)
Opens       == link = "down" /\ link' = "live"
TakesAnswer == /\ rest # <<>> /\ Head(rest) # NoAnswer
               /\ rest' \in {Tail(rest), Append(Tail(rest), NoAnswer)}
Asks        == Wanted(s, early) /\ ~recent /\ recent' = TRUE

Fairness ==
    /\ WF_stream(TakesFrame) /\ WF_link(Opens) /\ WF_vars(VenueSnapshot)
    /\ WF_rest(TakesAnswer) /\ WF_recent(Asks)
    /\ WF_vars(IntervalPasses) /\ WF_vars(StreamWaitPasses)

FairSpec == Spec /\ Fairness

-----------------------------------------------------------------------------
TypeOK ==
    /\ upd \in 0..MaxUpd
    /\ stream \in Seq(Delta) /\ link \in {"down", "live", "stale"}
    /\ rest \in Seq(0..NoAnswer)
    /\ s \in [state : {"Idle", "Buffering", "Synced"}, prev : 0..MaxUpd, first : BOOLEAN,
              buf : Seq(Delta), want : BOOLEAN, pending : BOOLEAN, wait : BOOLEAN]
    /\ Len(s.buf) <= MaxBuffered
    /\ recent \in BOOLEAN /\ early \in BOOLEAN
    /\ book \in [have : BOOLEAN, seq : 0..MaxUpd, gap : BOOLEAN]
    /\ used \in [lost : Nat, down : Nat, resync : Nat, fail : Nat, full : Nat]

(***************************************************************************)
(* A sync that is Synced on a connected stream and the engine agree: the   *)
(* engine holds a book, at the update id the sync will chain the next      *)
(* diff to, with no update missing.  Whatever the ring refused, whichever  *)
(* late snapshot was applied.                                              *)
(***************************************************************************)
SyncedBookIsExact ==
    s.state = "Synced" /\ link # "down" => book.have /\ ~book.gap /\ book.seq = s.prev

(***************************************************************************)
(* While the stream is up, an engine without a whole book is never left    *)
(* without a snapshot request: one is wanted, or pending and really in     *)
(* flight.                                                                 *)
(***************************************************************************)
RepairUnderWay ==
    link # "down" /\ (~book.have \/ book.gap) => s.want \/ (s.pending /\ rest # <<>>)

\* The books come back: once the faults stop, the engine has a whole book for good.
BookComesBack == <>[](book.have /\ ~book.gap)

=============================================================================
