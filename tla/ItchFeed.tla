------------------------------ MODULE ItchFeed ------------------------------
(***************************************************************************)
(* The market data of the Nasdaq ITCH venue: the MoldUDP64 receiver's      *)
(* messages go to the books while they are live, and to the recovery       *)
(* buffer while a GLIMPSE snapshot is taken; an unrecoverable gap or a     *)
(* book that contradicts itself starts a snapshot.                         *)
(*                                                                         *)
(* One call of the venue's reactor (a datagram, the service timer, an      *)
(* event of the GLIMPSE connection) is one action; the callbacks the       *)
(* receiver makes during it are run in their order.  The books are the     *)
(* sequence number they stand at, and whether every message below it that  *)
(* they need was applied once and in order.  The GLIMPSE server takes its  *)
(* snapshot between two messages, of everything published.                 *)
(*                                                                         *)
(* Left out: order entry over OUCH, the event ring to the engine           *)
(* (mark_all_complete is retried until it fits), the bytes of the recovery *)
(* buffer, receive timestamps.  A GLIMPSE connection that cannot be opened *)
(* is one that goes down at once.                                          *)
(***************************************************************************)
EXTENDS MoldUdp

CONSTANTS
  Rerequests,  \* the values of !cfg_.rerequest.empty() considered
  Glimpses,    \* the values of !cfg_.glimpse_url.empty() considered
  Unwanted,    \* messages of instruments the venue has no book for
  RecCap,      \* recovery_buffer_packets
  MaxDown,     \* GLIMPSE connections lost or timed out
  MaxErrors,   \* snapshots or messages a book refuses
  MaxFaults    \* of both kinds

ASSUME FeedAssumption ==
  /\ Rerequests \subseteq BOOLEAN /\ Glimpses \subseteq BOOLEAN
  /\ Unwanted \subseteq 1..MaxMsg
  /\ {RecCap, MaxDown, MaxErrors, MaxFaults} \subseteq Nat

VARIABLES
  feed,        \* feed_state_ and the members of the venue that go with it
  seen,        \* what the receiver's handler saw of it: for the properties only
  budget       \* what is left of MaxDown, MaxErrors and MaxFaults

feedVars == <<tx, net, rx, feed, seen, budget>>

NoBooks == [seq |-> 0, whole |-> FALSE]
EmptyBuffer == [packets |-> 0, open |-> <<0, 0>>, kept |-> <<>>, last |-> 0, gapEnd |-> 0]

-----------------------------------------------------------------------------
(***************************************************************************)
(* The books and the recovery buffer.                                      *)
(***************************************************************************)

Applied(b, q) ==
  [seq |-> q, whole |-> b.whole /\ q > b.seq /\ (b.seq + 1)..(q - 1) \subseteq Unwanted]

\* seen(): the latest number that came right after a gap, or the first.
Noticed(rec, q) ==
  [rec EXCEPT !.last = q,
              !.gapEnd = IF q # rec.last + 1 \/ rec.last = 0 THEN Greater(@, q) ELSE @]

\* append() opens a record for each datagram it has not seen.
NeedsRecord(rec, pkt) == rec.open # pkt
HasRoom(rec, pkt) == NeedsRecord(rec, pkt) => rec.packets < RecCap
Buffer(rec, q, pkt) ==
  Noticed([rec EXCEPT !.packets = IF NeedsRecord(rec, pkt) THEN @ + 1 ELSE @,
                      !.open = pkt, !.kept = Append(@, q)], q)

-----------------------------------------------------------------------------
(***************************************************************************)
(* The venue's steps, on its state f.                                      *)
(***************************************************************************)

FeedLost(f) == [f EXCEPT !.state = "Lost", !.glimpse = "none", !.end = 0, !.retry = FALSE,
                         !.rec = EmptyBuffer, !.books = NoBooks]

StartSnapshot(f) == [f EXCEPT !.glimpse = "open", !.end = 0, !.books = NoBooks, !.rec = EmptyBuffer,
                              !.lostEnd = 0, !.retry = FALSE]

StartRecovery(f) ==
  IF ~f.hasGlimpse THEN FeedLost(f) ELSE StartSnapshot([f EXCEPT !.state = "Snapshot"])

\* Fault: nothing is tried again after a GLIMPSE connection is lost.
NoRetry(f) == [f EXCEPT !.books = NoBooks]

\* mark_incomplete() and a retry after kRetryNs.
RetryLater(f) == [f EXCEPT !.books = NoBooks, !.retry = TRUE]

\* lost_end_ is not read again before start_snapshot() clears it.
GoLive(f, from) ==
  [f EXCEPT !.state = "Live", !.liveFrom = from, !.streak = 0, !.lostEnd = 0]

Apply(f, q) == IF q < f.liveFrom THEN f ELSE [f EXCEPT !.books = Applied(@, q)]

OnMessage(f, q, pkt) ==
  IF f.state = "Live" THEN Apply(f, q)
  ELSE IF f.state = "Lost" THEN f
  ELSE IF ~f.hasGlimpse
  THEN IF q = 1 THEN Apply([GoLive(f, 1) EXCEPT !.books = [seq |-> 0, whole |-> TRUE]], q) ELSE f
  ELSE IF f.retry THEN f
  ELSE IF q \in Unwanted THEN [f EXCEPT !.rec = Noticed(@, q)]
  ELSE IF HasRoom(f.rec, pkt) THEN [f EXCEPT !.rec = Buffer(@, q, pkt)]
  ELSE IF f.streak + 1 >= 2 THEN FeedLost([f EXCEPT !.streak = @ + 1])
  ELSE StartSnapshot([f EXCEPT !.streak = @ + 1])

OnGapUnrecoverable(f0, from, to) ==
  LET f == [f0 EXCEPT !.lostEnd = Greater(@, to)]
  IN  IF f.state = "Live" THEN StartRecovery(f)
      ELSE IF f.state = "Snapshot" /\ ~f.hasGlimpse THEN FeedLost(f) ELSE f

Callback(f, c) ==
  CASE c.call = "message"       -> OnMessage(f, c.from, c.pkt)
    [] c.call = "unrecoverable" -> OnGapUnrecoverable(f, c.from, c.to)
    [] c.call = "ended"         -> f

\* after_packet(): a book that refused a message.
AfterPacket(f, bookError) ==
  IF bookError /\ f.state = "Live" THEN StartRecovery(f) ELSE f

NoneLostAfter(f, end) == f.lostEnd <= end

\* Fault: a message lost after the snapshot's end is not noticed.
NoGapAfter(rec, end) == FALSE

\* gap_after(): a message from the snapshot's end on was never received.
GapAfter(rec, end) == rec.gapEnd > end

\* finish_snapshot(): [f, reset], where reset is the sequence the receiver is reset to, or 0.  What
\* a book refuses: nothing, part of the snapshot or a buffered message.
FinishSnapshot(f, end, refused) ==
  LET done     == [f EXCEPT !.glimpse = "none", !.end = 0]
      books    == FoldLeft(LAMBDA b, q : IF q >= end THEN Applied(b, q) ELSE b,
                           [seq |-> end - 1, whole |-> TRUE], f.rec.kept)
      expected == Greater(end, f.rec.last + 1)
      behind   == rx.next > expected
      again    == [f |-> StartSnapshot(done), reset |-> 0]
      later    == [f |-> [RetryLater(done) EXCEPT !.rec = EmptyBuffer], reset |-> 0]
      live     == GoLive([done EXCEPT !.books = books, !.rec = EmptyBuffer], expected)
  IN  IF ~NoneLostAfter(f, end) THEN again
      ELSE IF refused = "snapshot" THEN later
      ELSE IF GapAfter(f.rec, end) THEN again
      ELSE IF refused = "buffered" THEN later
      ELSE IF behind /\ ~rx.can THEN again
      ELSE [f |-> live, reset |-> IF rx.next = 0 \/ behind THEN expected ELSE 0]

-----------------------------------------------------------------------------
(***************************************************************************)
(* What the handler saw: the sequence its next call must start at, whether *)
(* every call so far did, the sequences received and not yet delivered,    *)
(* whether one of those was ever reported as unrecoverable, and whether    *)
(* the end of the session ever came before all of it.                      *)
(***************************************************************************)

Observed(s, c) ==
  IF c.call = "ended" THEN [s EXCEPT !.early = @ \/ s.upto # tx.count + 1]
  ELSE [s EXCEPT !.upto = c.to, !.inOrder = @ /\ c.from = s.upto,
                 !.wronged = @ \/ (c.call = "unrecoverable"
                                   /\ c.from..(c.to - 1) \cap s.have # {})]

\* An ahead packet that is neither held nor delivered.
Dropped(p) == /\ rx.can /\ rx.next # 0 /\ p.seq > rx.next
              /\ ~Covered(rx, p) /\ (Full(rx) \/ ~Fits(p))

Arrived(s, p) ==
  [s EXCEPT !.upto = IF @ = 0 THEN Greater(p.seq, 1) ELSE @,
            !.have = IF Dropped(p) THEN @ ELSE @ \cup p.seq..(p.end - 1)]

-----------------------------------------------------------------------------
\* One more fault of this kind, while the bounds allow it.
Fault(kind) ==
  /\ budget[kind] > 0 /\ budget.all > 0
  /\ budget' = [budget EXCEPT ![kind] = @ - 1, !.all = @ - 1]

\* The end of a call into the receiver, which left it as x: its callbacks have run.
Ran(x, s, bookError) ==
  LET f == FoldLeft(Callback, feed, x.out)
      o == FoldLeft(Observed, s, x.out)
  IN  /\ bookError => f.state = "Live" /\ x.out # <<>>
      /\ IF bookError THEN Fault("errors") ELSE UNCHANGED budget
      /\ rx' = Settled([x EXCEPT !.out = <<>>, !.ask = {}])
      /\ \E answered \in SUBSET x.ask :
           /\ net' = net \cup Answers(answered)
           /\ answered # {} => Cardinality(net') <= MaxNet
      /\ feed' = AfterPacket(f, bookError)
      /\ seen' = [o EXCEPT !.have = {q \in @ : q >= x.next}]

\* on_datagram(): the network keeps the datagram, whose copy may follow, until it loses it.  A
\* venue that lost its feed does not look at it.
Datagram(p, bookError) ==
  /\ feed.state # "Lost"
  /\ Ran(OnPacket(rx, p), Arrived(seen, p), bookError)
  /\ UNCHANGED tx

OnData         == \E p \in net, bookError \in BOOLEAN : Datagram(p, bookError)
OnAnnouncement == \E p \in Announcements, bookError \in BOOLEAN : Datagram(p, bookError)

\* service(): the receiver's timer.
Service ==
  /\ rx.next # 0 /\ rx.next < rx.highest
  /\ \E bookError \in BOOLEAN : Ran(OnTimer(rx), seen, bookError)
  /\ UNCHANGED tx

ServiceRetry ==
  /\ feed.retry /\ feed.state = "Snapshot"
  /\ feed' = StartSnapshot(feed)
  /\ UNCHANGED <<tx, net, rx, seen, budget>>

\* The server answers the login with a snapshot of everything published.
GlimpseTaken ==
  /\ feed.glimpse = "open"
  /\ feed' = [feed EXCEPT !.glimpse = "taken", !.end = tx.count + 1]
  /\ UNCHANGED <<tx, net, rx, seen, budget>>

\* on_glimpse_data() with the End of Snapshot.
GlimpseEnd ==
  /\ feed.glimpse = "taken"
  /\ \E refused \in {"nothing", "snapshot", "buffered"} :
       LET d == FinishSnapshot(feed, feed.end, refused)
       IN  /\ IF refused = "nothing" THEN UNCHANGED budget ELSE Fault("errors")
           /\ feed' = d.f
           /\ rx' = IF d.reset = 0 THEN rx ELSE Reset(rx, d.reset)
           /\ seen' = IF d.reset = 0 THEN seen ELSE [seen EXCEPT !.upto = d.reset, !.have = {}]
  /\ UNCHANGED <<tx, net>>

\* on_glimpse_down(), a session that ends or times out.
GlimpseDown ==
  /\ feed.glimpse # "none" /\ Fault("downs")
  /\ feed' = RetryLater([feed EXCEPT !.glimpse = "none", !.end = 0])
  /\ UNCHANGED <<tx, net, rx, seen>>

Tick ==
  /\ rx' = Older(rx)
  /\ UNCHANGED <<tx, net, feed, seen, budget>>

Init ==
  \E g \in Glimpses, c \in Rerequests :
    /\ MoldInit
    /\ rx = Receiver(IF g THEN 0 ELSE 1, c)
    /\ feed = [state |-> "Snapshot", hasGlimpse |-> g, glimpse |-> IF g THEN "open" ELSE "none",
               end |-> 0, retry |-> FALSE, books |-> NoBooks, rec |-> EmptyBuffer, lostEnd |-> 0,
               liveFrom |-> 0, streak |-> 0]
    /\ seen = [upto |-> IF g THEN 0 ELSE 1, inOrder |-> TRUE, have |-> {}, wronged |-> FALSE,
            early |-> FALSE]
    /\ budget = [downs |-> MaxDown, errors |-> MaxErrors, all |-> MaxFaults]

Next ==
  \/ MoldNext /\ UNCHANGED <<feed, seen, budget>>
  \/ OnData \/ OnAnnouncement \/ Service \/ ServiceRetry \/ GlimpseTaken \/ GlimpseEnd \/ GlimpseDown \/ Tick

Spec == Init /\ [][Next]_feedVars

(***************************************************************************)
(* Fairness: time passes and the timers run, the GLIMPSE server answers,   *)
(* the transmitter sends what it has and repeats its heartbeat, which is   *)
(* heard in the end; a datagram does not stay in the network for ever.     *)
(* For the calls with long actions it is stated on their guards: what is   *)
(* due does not stay due for ever.                                         *)
(***************************************************************************)
TimerDue    == OnTimer(rx) # rx
HeardAll    == feed.state = "Lost" \/ rx.highest >= tx.unsent
SnapshotDue == feed.glimpse = "taken"

Fairness ==
  /\ WF_rx(rx' = Older(rx)) /\ []<>~TimerDue
  /\ WF_feedVars(ServiceRetry) /\ WF_feedVars(GlimpseTaken) /\ []<>~SnapshotDue
  /\ WF_tx(SendNext) /\ []<>HeardAll
  /\ WF_net(Lose)

FairSpec == Spec /\ Fairness

-----------------------------------------------------------------------------
(***************************************************************************)
(* Properties.                                                             *)
(***************************************************************************)

\* The receiver's calls follow one another without a hole, an overlap or a step back, whichever
\* copies arrive in whichever order, overflow the buffer or come back as retransmissions: every
\* sequence number is delivered or reported as unrecoverable, once (deliver, drain, skip_hole).
NothingMissedOrRepeated == seen.inOrder /\ seen.upto = rx.next

\* What has arrived and is waiting for its turn is never reported as unrecoverable (skip_hole).
OnlyTheMissingIsGivenUp == ~seen.wronged

\* The handler hears of the end of the session after everything published in it (update).
EndComesLast == ~seen.early

Standing(b, upto) == b.whole /\ (b.seq + 1)..(upto - 1) \subseteq Unwanted

\* Live books hold every message up to where the receiver, or the snapshot if it is ahead of it,
\* stands: none missing, none applied twice, whatever was lost, buffered or replayed while the
\* snapshot was taken (finish_snapshot, on_gap_unrecoverable, RecoveryBuffer).
LiveBooksAreExact ==
  feed.state = "Live" => Standing(feed.books, Greater(rx.next, feed.liveFrom))

\* Once the faults stop, the venue has whole books of everything sent, or it has stopped and said so.
\* Without GLIMPSE the books start with the first message.
FeedSettles ==
  <>[](\/ feed.state = "Lost"
       \/ feed.state = "Live" /\ Standing(feed.books, tx.unsent)
       \/ ~feed.hasGlimpse /\ tx.unsent = 1)

=============================================================================
