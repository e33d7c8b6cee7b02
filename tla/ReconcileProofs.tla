-------------------------- MODULE ReconcileProofs --------------------------
(***************************************************************************)
(* The watermark of the execution history and the exact mark of a snapshot *)
(* are true, for every way of paging the assumption allows, every settle   *)
(* margin and every order of answers, timers, restarts and faults.         *)
(***************************************************************************)
EXTENDS Reconcile, Induction

-----------------------------------------------------------------------------
(***************************************************************************)
(* The inductive invariant.                                                *)
(***************************************************************************)

\* The venue: rows are numbered in the order of their times, and none is indexed later than Settle.
VenueSound ==
  /\ lim \in Limits
  /\ time \in Seq(Nat \ {0}) /\ now \in Nat \ {0} /\ indexed \subseteq Rows
  /\ \A r \in Rows : time[r] <= now
  /\ \A r, x \in Rows : r < x => time[r] <= time[x]
  /\ \A r \in Rows \ indexed : time[r] + Settle >= now

Schedulers ==
  [since : Nat \ {0}, read : SUBSET Nat, known : SUBSET Nat, active : BOOLEAN, ok : BOOLEAN,
   at : Nat, q : [start : Nat, end : Nat, page : Nat], awaiting : BOOLEAN, pages : Nat,
   wpages : Nat, rows : SUBSET Nat, again : Nat, due : BOOLEAN, retry : BOOLEAN,
   ask : BOOLEAN, moved : BOOLEAN, fin : {"no", "complete", "incomplete"},
   handed : SUBSET Nat, forgot : SUBSET Nat, twice : BOOLEAN, floor : Nat, shown : SUBSET Nat]

\* A restart asked for meanwhile reads again from `again` on: what was handed out counts only below.
Upto(s, x) == IF s.again = 0 THEN x ELSE Least(x, s.again)

\* The rows of R from the last restart's start up to x are handed out, or known.
Covered(s, R, x) ==
  \A r \in R : s.floor <= time[r] /\ time[r] < Upto(s, x) => r \in s.handed \cup s.known

\* What is handed out is accounted for: below the watermark, or in the sets that keep it from going
\* out again, or forgotten at the history clamp.
Accounted(s) ==
  /\ s.read \subseteq s.handed \cup s.known
  /\ \A r \in s.handed : time[r] < s.since \/ r \in s.read \cup s.known \cup s.forgot

\* Of every scheduler, also in the midst of a handler.
Sound(s) ==
  /\ s \in Schedulers
  /\ s.read \subseteq Rows /\ s.known \subseteq Rows /\ s.handed \subseteq Rows
  /\ s.since <= now /\ s.floor <= now
  /\ ~s.twice
  /\ Accounted(s)
  /\ Covered(s, Rows, s.since)

\* Of a replay that began at `at`: what the settle margin no longer protects was shown to it.
Begun(s) ==
  /\ s.at <= now
  /\ s.shown \subseteq indexed
  /\ \A r \in Rows : time[r] + Settle < s.at => r \in s.shown

\* Of a replay that goes on at x.
ReadTo(s, x) == s.since <= x /\ Covered(s, s.shown, x)

\* The rows shown to the replay in the window of a query, and the part its earlier pages answered.
InWindow(s) == {r \in s.shown : time[r] >= s.q.start /\ (s.q.end # 0 => time[r] <= s.q.end)}

Window(s) ==
  /\ s.q.end # 0 => s.q.start <= s.q.end
  /\ s.rows \subseteq Rows
  /\ s.q.end # 0 => \A r \in s.rows : time[r] <= s.q.end
  /\ s.q.page = 0 => s.rows = {}
  /\ ~lim.newestFirst => s.q.page = 0
  /\ s.q.page # 0 => \A r \in InWindow(s) : r >= s.q.page => r \in s.rows

Running(s) == Begun(s) /\ ReadTo(s, s.q.start) /\ Window(s)

SchedInv ==
  /\ Sound(sch)
  /\ sch.active => sch.awaiting /\ Running(sch)
  /\ ~sch.ask /\ ~sch.moved /\ sch.fin = "no"

\* A query of the replay that runs has not been answered.
NetInv ==
  \A m \in net :
    /\ m \in [q : {m.q}, current : {m.current}, ans : {m.ans}]
    /\ m.current /\ sch.active => m.ans = <<>>

Drivers ==
  [pending : 0 .. 2, running : 0 .. 2, waiting : BOOLEAN, inFlight : BOOLEAN, exact : BOOLEAN,
   retry : BOOLEAN, retryWant : 0 .. 2, gap : BOOLEAN, owed : BOOLEAN]

DriverInv ==
  /\ drv \in Drivers
  /\ drv.exact => ~drv.gap
  /\ drv.waiting => sch.active \/ sch.due

ReconcileInv == VenueSound /\ SchedInv /\ NetInv /\ DriverInv

-----------------------------------------------------------------------------
(***************************************************************************)
(* What a page of the venue's history says of the rows that match.         *)
(***************************************************************************)

More(ans) == ans.next # 0 \/ (lim.counts /\ Cardinality(ans.rows) >= lim.pageRows)

LEMMA LimFacts ==
  ASSUME VenueSound
  PROVE  /\ lim.pageRows \in Nat \ {0} /\ lim.newestFirst \in BOOLEAN /\ lim.counts \in BOOLEAN
         /\ lim.window \in Nat /\ lim.history \in Nat /\ (lim.newestFirst \/ lim.counts)
         /\ Settle \in Nat /\ Slack \in Nat /\ MaxPages \in Nat \ {0} /\ WindowPages \in Nat \ {0}
  BY ReplayAssumption DEF VenueSound

LEMMA RowFacts ==
  ASSUME VenueSound
  PROVE  /\ Len(time) \in Nat /\ Rows = 1 .. Len(time) /\ IsFiniteSet(Rows)
         /\ \A r \in Rows : r \in Nat \ {0} /\ time[r] \in Nat \ {0} /\ time[r] <= now
<1>1. Len(time) \in Nat /\ Rows = 1 .. Len(time)
  BY DEF VenueSound, Rows
<1>2. IsFiniteSet(Rows)
  BY <1>1, FS_Interval
<1>3. ASSUME NEW r \in Rows PROVE r \in Nat \ {0} /\ time[r] \in Nat \ {0} /\ time[r] <= now
  BY <1>1 DEF VenueSound
<1> QED BY <1>1, <1>2, <1>3

LEMMA HitsFacts ==
  ASSUME VenueSound, NEW q
  PROVE  /\ Hits(q) \subseteq indexed /\ Hits(q) \subseteq Rows /\ IsFiniteSet(Hits(q))
         /\ Hits(q) \subseteq Nat \ {0}
<1>1. Hits(q) \subseteq indexed /\ Hits(q) \subseteq Rows
  BY DEF Hits, VenueSound
<1> QED BY <1>1, RowFacts, FS_Subset

\* Newest first: a page with a token holds everything from its oldest row on.
LEMMA AnswerNewest ==
  ASSUME VenueSound, NEW q, lim.newestFirst
  PROVE  /\ Answer(q).rows \subseteq Hits(q) /\ Answer(q).next \in Nat
         /\ Answer(q).next = 0 => Answer(q).rows = Hits(q)
         /\ Answer(q).next # 0 =>
              /\ Answer(q).rows # {}
              /\ \A h \in Hits(q) : h >= Answer(q).next => h \in Answer(q).rows
<1> DEFINE H == Hits(q)
           Before(r) == {h \in H : h > r}
           P == {r \in H : Cardinality(Before(r)) < lim.pageRows}
<1>1. Answer(q) = [rows |-> P, next |-> IF P # H THEN Min(P) ELSE 0]
  BY DEF Answer
<1>2. H \subseteq Nat \ {0} /\ IsFiniteSet(H) /\ H \subseteq 1 .. Len(time) /\ Len(time) \in Nat
  BY HitsFacts, RowFacts
<1>3. lim.pageRows \in Nat \ {0}
  BY LimFacts
<1> HIDE DEF H
<1>4. ASSUME NEW r \in H PROVE IsFiniteSet(Before(r)) /\ Cardinality(Before(r)) \in Nat
  BY <1>2, FS_Subset, FS_CardinalityType
<1>5. ASSUME P # H
      PROVE  P # {} /\ Min(P) \in Nat \ {0} /\ \A h \in H : h >= Min(P) => h \in P
  <2>1. P # {}
    <3>1. H # {} /\ H \in SUBSET (0 .. Len(time))
      BY <1>2, <1>5
    <3>2. PICK x \in H : \A y \in H : x >= y
      BY <1>2, <3>1, MaxIsMember
    <3>3. Before(x) = {}
      <4>1. x \in Nat /\ \A y \in H : y \in Nat /\ x >= y
        BY <1>2, <3>2
      <4>2. \A y \in H : ~(y > x)
        BY <4>1
      <4> QED BY <4>2
    <3>4. Cardinality(Before(x)) = 0
      BY <3>3, FS_EmptySet
    <3> QED BY <1>3, <3>4
  <2>2. PICK x \in P : x = Min(P)
    BY <1>2, <2>1, MinIsMember
  <2>3. ASSUME NEW h \in H, h >= x PROVE h \in P
    <3>1. Before(h) \subseteq Before(x)
      <4>1. h \in Nat /\ x \in Nat /\ \A y \in H : y \in Nat
        BY <1>2
      <4>2. \A y \in H : y > h => y > x
        BY <2>3, <4>1
      <4> QED BY <4>2
    <3>2. Cardinality(Before(h)) <= Cardinality(Before(x))
      BY <1>4, <3>1, FS_Subset
    <3>3. Cardinality(Before(x)) < lim.pageRows /\ Cardinality(Before(x)) \in Nat /\ Cardinality(Before(h)) \in Nat
      BY <1>4
    <3>4. Cardinality(Before(h)) < lim.pageRows
      <4> HIDE DEF Before
      <4> QED BY <1>3, <3>2, <3>3
    <3> QED BY <3>4
  <2> QED BY <1>2, <2>1, <2>2, <2>3
<1> HIDE DEF P
<1>6. P \subseteq H
  BY DEF P
<1> QED BY <1>1, <1>5, <1>6 DEF H

\* Oldest first: a page holds everything before its newest row, and everything if it is not full.
LEMMA AnswerOldest ==
  ASSUME VenueSound, NEW q, ~lim.newestFirst
  PROVE  /\ Answer(q).rows \subseteq Hits(q) /\ Answer(q).next = 0
         /\ Cardinality(Answer(q).rows) < lim.pageRows => Answer(q).rows = Hits(q)
         /\ \A h \in Hits(q), x \in Answer(q).rows : h < x => h \in Answer(q).rows
<1> DEFINE H == Hits(q)
           Before(r) == {h \in H : h < r}
           P == {r \in H : Cardinality(Before(r)) < lim.pageRows}
<1>1. Answer(q) = [rows |-> P, next |-> 0]
  BY DEF Answer
<1>2. H \subseteq Nat \ {0} /\ IsFiniteSet(H) /\ H \subseteq 1 .. Len(time) /\ Len(time) \in Nat
  BY HitsFacts, RowFacts
<1>3. lim.pageRows \in Nat \ {0}
  BY LimFacts
<1> HIDE DEF H
<1>4. ASSUME NEW r \in H PROVE IsFiniteSet(Before(r)) /\ Cardinality(Before(r)) \in Nat
  BY <1>2, FS_Subset, FS_CardinalityType
<1>5. P \subseteq H /\ IsFiniteSet(P) /\ Cardinality(P) \in Nat
  <2>1. P \subseteq H
    OBVIOUS
  <2> QED BY <1>2, <2>1, FS_Subset, FS_CardinalityType
<1>6. ASSUME Cardinality(P) < lim.pageRows PROVE P = H
  <2>1. SUFFICES ASSUME H \ P # {} PROVE FALSE
    BY <1>5
  <2>2. PICK h \in H \ P : \A y \in H \ P : h <= y
    BY <1>2, <2>1, LeastNatural
  <2>3. Before(h) \subseteq P
    <3>1. h \in Nat /\ \A y \in H : y \in Nat
      BY <1>2
    <3>2. \A y \in H : y < h => y \in P
      <4> HIDE DEF P
      <4> QED BY <2>2, <3>1
    <3> QED BY <3>2
  <2>4. Cardinality(Before(h)) <= Cardinality(P) /\ Cardinality(Before(h)) \in Nat
    BY <1>4, <1>5, <2>3, FS_Subset
  <2>5. ~(Cardinality(Before(h)) < lim.pageRows)
    BY <2>2
  <2> HIDE DEF P, Before
  <2> QED BY <1>3, <1>5, <1>6, <2>4, <2>5
<1>7. ASSUME NEW h \in H, NEW x \in P, h < x PROVE h \in P
  <2>1. Before(h) \subseteq Before(x)
    <3>1. h \in Nat /\ x \in Nat /\ \A y \in H : y \in Nat
      BY <1>2
    <3>2. \A y \in H : y < h => y < x
      <4> HIDE DEF P
      <4> QED BY <1>7, <3>1
    <3> QED BY <3>2
  <2>2. Cardinality(Before(h)) <= Cardinality(Before(x))
    BY <1>4, <1>5, <2>1, FS_Subset
  <2>3. Cardinality(Before(x)) < lim.pageRows /\ Cardinality(Before(x)) \in Nat /\ Cardinality(Before(h)) \in Nat
    BY <1>4, <1>5
  <2>4. Cardinality(Before(h)) < lim.pageRows
    <3> HIDE DEF Before
    <3> QED BY <1>3, <2>2, <2>3
  <2> QED BY <2>4
<1> HIDE DEF P
<1> QED BY <1>1, <1>5, <1>6, <1>7 DEF H

\* A page with no token and no sign of more is all there is; one that is only full holds every row
\* older than one of its rows.
LEMMA AnswerCovers ==
  ASSUME VenueSound, NEW q
  PROVE  /\ Answer(q).rows \subseteq Hits(q) /\ Answer(q).next \in Nat
         /\ Answer(q).next # 0 => lim.newestFirst
         /\ ~More(Answer(q)) => Answer(q).rows = Hits(q)
         /\ Answer(q).next = 0 =>
              \A h \in Hits(q), x \in Answer(q).rows : time[h] < time[x] => h \in Answer(q).rows
<1> DEFINE a == Answer(q)
<1>1. CASE lim.newestFirst
  <2>1. a.rows \subseteq Hits(q) /\ a.next \in Nat /\ (a.next = 0 => a.rows = Hits(q))
    BY <1>1, AnswerNewest
  <2> HIDE DEF a
  <2>2. QED BY <1>1, <2>1 DEF More, a
<1>2. CASE ~lim.newestFirst
  <2>1. /\ a.rows \subseteq Hits(q) /\ a.next = 0
        /\ Cardinality(a.rows) < lim.pageRows => a.rows = Hits(q)
        /\ \A h \in Hits(q), x \in a.rows : h < x => h \in a.rows
    BY <1>2, AnswerOldest
  <2> HIDE DEF a
  <2>2. lim.counts /\ lim.pageRows \in Nat
    BY <1>2, LimFacts
  <2>3. Cardinality(a.rows) \in Nat
    BY <2>1, HitsFacts, FS_Subset, FS_CardinalityType
  <2>4. ~More(a) => a.rows = Hits(q)
    BY <2>1, <2>2, <2>3 DEF More
  <2>5. ASSUME NEW h \in Hits(q), NEW x \in a.rows, time[h] < time[x] PROVE h \in a.rows
    <3>1. h \in Rows /\ x \in Rows /\ x \in Hits(q)
      BY <2>1, HitsFacts
    <3>2. h \in Nat /\ x \in Nat /\ time[h] \in Nat /\ time[x] \in Nat
      BY <3>1, RowFacts
    <3>3. ~(x < h) /\ x # h
      BY <2>5, <3>1, <3>2 DEF VenueSound
    <3> QED BY <2>1, <3>2, <3>3
  <2> QED BY <1>2, <2>1, <2>4, <2>5 DEF a
<1> QED BY <1>1, <1>2

-----------------------------------------------------------------------------
(***************************************************************************)
(* The scheduler's methods, from the innermost out.                        *)
(***************************************************************************)

\* What a method that goes on with a replay leaves: a replay that waits for an answer, or one that
\* ended and was reported, or a restart that is due; complete only if nothing it owed is missing.
\* While it runs, the generation moved on only if it began here (moved).
Left(s, moved) ==
  /\ Sound(s)
  /\ s.active => s.awaiting /\ Running(s) /\ s.moved = moved
  /\ s.fin = "complete" => Owed(s) = {}
  /\ s.active \/ s.due \/ s.fin # "no"

SameBooks(s, t) ==
  /\ t.since = s.since /\ t.read = s.read /\ t.known = s.known /\ t.handed = s.handed
  /\ t.again = s.again /\ t.floor = s.floor /\ t.twice = s.twice /\ t.forgot = s.forgot

LEMMA SoundSame ==
  ASSUME NEW s, NEW t \in Schedulers, Sound(s), SameBooks(s, t)
  PROVE  Sound(t)
  BY DEF Sound, SameBooks, Accounted, Covered, Upto

LEMMA TakeAgainSound ==
  ASSUME VenueSound, NEW s, Sound(s)
  PROVE  /\ Sound(TakeAgain(s)) /\ TakeAgain(s).again = 0
         /\ TakeAgain(s).active = s.active /\ TakeAgain(s).fin = s.fin
<1>1. CASE s.again = 0
  BY <1>1 DEF TakeAgain
<1>2. CASE s.again # 0
  <2> DEFINE since == Least(s.since, s.again)
             t == TakeAgain(s)
  <2>1. s \in Schedulers
    BY DEF Sound
  <2>2. since \in Nat \ {0} /\ since <= s.since /\ since <= s.again
    BY <1>2, <2>1 DEF Schedulers, Least
  <2>3. t = [s EXCEPT !.since = since, !.read = {}, !.again = 0,
                      !.handed = {r \in s.handed : time[r] < since}, !.forgot = {}]
    BY <1>2 DEF TakeAgain
  <2> HIDE DEF since, t
  <2>4. /\ t \in Schedulers /\ t.since = since /\ t.read = {} /\ t.again = 0
        /\ t.handed = {r \in s.handed : time[r] < since}
        /\ t.known = s.known /\ t.floor = s.floor /\ t.twice = s.twice
        /\ t.active = s.active /\ t.fin = s.fin
    BY <2>1, <2>2, <2>3 DEF Schedulers
  <2>5. Covered(t, Rows, t.since)
    <3>1. ASSUME NEW r \in Rows, s.floor <= time[r], time[r] < since PROVE r \in s.handed \cup s.known
      <4>1. time[r] \in Nat /\ s.since \in Nat /\ s.again \in Nat
        BY <2>1, RowFacts DEF Schedulers
      <4>2. time[r] < Upto(s, s.since)
        BY <1>2, <2>2, <3>1, <4>1 DEF Upto, Least
      <4> QED BY <3>1, <4>2 DEF Sound, Covered
    <3> QED BY <2>4, <3>1 DEF Covered, Upto
  <2>6. since <= now
    BY <2>1, <2>2 DEF Sound, Schedulers, VenueSound
  <2> QED BY <2>4, <2>5, <2>6 DEF Sound, Accounted, t
<1> QED BY <1>1, <1>2

LEMMA IdleSound ==
  ASSUME NEW s, Sound(s)
  PROVE  /\ Sound(Idle(s)) /\ SameBooks(s, Idle(s)) /\ ~Idle(s).active /\ ~Idle(s).awaiting
         /\ Idle(s).ok = s.ok /\ Idle(s).shown = s.shown /\ Idle(s).fin = s.fin
<1> DEFINE t == Idle(s)
<1>1. s \in Schedulers
  BY DEF Sound
<1>2. t \in Schedulers
  BY <1>1 DEF Idle, Schedulers, Query
<1>3. /\ SameBooks(s, t) /\ ~t.active /\ ~t.awaiting /\ t.ok = s.ok /\ t.shown = s.shown
      /\ t.fin = s.fin
  BY <1>1 DEF Idle, Schedulers, SameBooks
<1> QED BY <1>2, <1>3, SoundSame

LEMMA FinishLeft ==
  ASSUME VenueSound, NEW s, Sound(s), s.fin = "no", s.ok /\ s.again = 0 => Owed(s) = {},
         NEW moved
  PROVE  Left(Finish(s), moved)
<1> DEFINE i == Idle(s)
<1>1. /\ Sound(i) /\ SameBooks(s, i) /\ ~i.active /\ i.ok = s.ok /\ i.shown = s.shown
      /\ i.fin = "no"
  BY IdleSound
<1>2. s \in Schedulers /\ i \in Schedulers
  BY <1>1 DEF Sound
<1> HIDE DEF i
<1>3. CASE s.again > 0
  <2> DEFINE a == TakeAgain(i)
             t == [a EXCEPT !.due = TRUE]
  <2>1. Sound(a) /\ ~a.active /\ a.fin = "no"
    BY <1>1, TakeAgainSound
  <2>2. a \in Schedulers
    BY <2>1 DEF Sound
  <2> HIDE DEF a
  <2>3. t \in Schedulers /\ t.due /\ ~t.active /\ t.fin = "no" /\ SameBooks(a, t)
    BY <2>1, <2>2 DEF Schedulers, SameBooks
  <2>4. Finish(s) = t
    BY <1>3 DEF Finish, a, i
  <2> HIDE DEF t
  <2>5. Sound(t)
    BY <2>1, <2>3, SoundSame
  <2> QED BY <2>3, <2>4, <2>5 DEF Left
<1>4. CASE ~(s.again > 0)
  <2> DEFINE t == [i EXCEPT !.retry = i.retry \/ ~s.ok,
                            !.fin = IF s.ok THEN "complete" ELSE "incomplete"]
  <2>1. s.again = 0
    BY <1>2, <1>4 DEF Schedulers
  <2>2. /\ t \in Schedulers /\ SameBooks(i, t) /\ ~t.active /\ t.shown = s.shown
        /\ t.fin = IF s.ok THEN "complete" ELSE "incomplete"
    BY ZenonT(30), <1>1, <1>2 DEF Schedulers, SameBooks
  <2>3. Finish(s) = t
    BY <1>4 DEF Finish, i
  <2> HIDE DEF t
  <2>4. Sound(t)
    BY <1>1, <2>2, SoundSame
  <2>5. t.fin = "complete" => Owed(t) = {}
    BY <1>1, <2>1, <2>2 DEF Owed, SameBooks
  <2> QED BY <2>2, <2>3, <2>4, <2>5 DEF Left
<1> QED BY <1>3, <1>4

LEMMA FailedLeft ==
  ASSUME VenueSound, NEW s, Sound(s), s.fin = "no", NEW moved
  PROVE  Left(StreamDone(s, FALSE), moved)
<1> DEFINE t == [s EXCEPT !.ok = s.ok /\ FALSE]
<1>1. s \in Schedulers
  BY DEF Sound
<1>2. t \in Schedulers /\ SameBooks(s, t) /\ ~t.ok /\ t.fin = "no"
  BY <1>1 DEF Schedulers, SameBooks
<1>3. StreamDone(s, FALSE) = Finish(t)
  BY DEF StreamDone
<1> HIDE DEF t
<1>4. Sound(t)
  BY <1>2, SoundSame
<1> QED BY <1>2, <1>3, <1>4, FinishLeft

\* The end of a replay that read everything it was shown.
LEMMA CompleteLeft ==
  ASSUME VenueSound, NEW s, Sound(s), s.fin = "no", s.again = 0 => Owed(s) = {}, NEW moved
  PROVE  Left(StreamDone(s, TRUE), moved)
<1> DEFINE t == [s EXCEPT !.ok = s.ok /\ TRUE]
<1>1. s \in Schedulers
  BY DEF Sound
<1>2. t \in Schedulers /\ SameBooks(s, t) /\ t.fin = "no" /\ t.shown = s.shown
  BY <1>1 DEF Schedulers, SameBooks
<1>3. StreamDone(s, TRUE) = Finish(t)
  BY DEF StreamDone
<1> HIDE DEF t
<1>4. Sound(t)
  BY <1>2, SoundSame
<1>5. t.again = 0 => Owed(t) = {}
  BY <1>2 DEF Owed, SameBooks
<1> QED BY <1>2, <1>3, <1>4, <1>5, FinishLeft

SameWindow(s, t) ==
  /\ t.at = s.at /\ t.shown = s.shown /\ t.q = s.q /\ t.rows = s.rows

LEMMA RunningSame ==
  ASSUME NEW s, NEW t, SameBooks(s, t), SameWindow(s, t), Running(s)
  PROVE  Running(t)
  BY DEF SameBooks, SameWindow, Running, Begun, ReadTo, Covered, Upto, Window, InWindow

LEMMA SendLeft ==
  ASSUME VenueSound, NEW s, Sound(s), s.fin = "no", s.active, Running(s), NEW sent \in BOOLEAN
  PROVE  Left(Send(s, sent), s.moved)
<1> DEFINE t == [s EXCEPT !.pages = s.pages + 1, !.awaiting = TRUE]
           u == [t EXCEPT !.ask = TRUE]
<1>1. s \in Schedulers
  BY DEF Sound
<1>2. /\ t \in Schedulers /\ SameBooks(s, t) /\ SameWindow(s, t) /\ t.fin = "no"
      /\ t.active /\ t.awaiting /\ t.moved = s.moved
  <2>1. s.pages + 1 \in Nat
    BY <1>1 DEF Schedulers
  <2>2. t \in Schedulers
    BY <1>1, <2>1 DEF Schedulers
  <2>3. SameBooks(s, t) /\ SameWindow(s, t)
    BY <1>1 DEF Schedulers, SameBooks, SameWindow
  <2>4. t.fin = "no" /\ t.active /\ t.awaiting /\ t.moved = s.moved
    BY <1>1 DEF Schedulers
  <2> QED BY <2>2, <2>3, <2>4
<1>3. Send(s, sent) = IF sent THEN u ELSE StreamDone(t, FALSE)
  BY DEF Send
<1> HIDE DEF t
<1>4. Sound(t) /\ Running(t)
  BY <1>2, SoundSame, RunningSame
<1>5. /\ u \in Schedulers /\ SameBooks(t, u) /\ SameWindow(t, u) /\ u.fin = "no"
      /\ u.active /\ u.awaiting /\ u.moved = t.moved
  BY <1>2 DEF Schedulers, SameBooks, SameWindow
<1> HIDE DEF u
<1>6. Sound(u) /\ Running(u)
  BY <1>4, <1>5, SoundSame, RunningSame
<1>7. Left(u, s.moved)
  BY <1>2, <1>5, <1>6 DEF Left
<1>8. Left(StreamDone(t, FALSE), s.moved)
  BY <1>2, <1>4, FailedLeft
<1> QED BY <1>3, <1>7, <1>8

LEMMA WindowEndFacts ==
  ASSUME VenueSound, NEW start \in Nat, NEW at \in Nat
  PROVE  WindowEnd(start, at) \in Nat /\ (WindowEnd(start, at) # 0 => start <= WindowEnd(start, at))
  BY LimFacts DEF WindowEnd, Greatest, Least

NewWindow(s, q, since, read, forgot, floor, ok) ==
  [s EXCEPT !.q = q, !.since = since, !.read = read, !.forgot = forgot, !.floor = floor,
            !.ok = ok, !.wpages = 0, !.rows = {}]

IsNewWindow(s, t, q, since, read, forgot, floor) ==
  /\ t \in Schedulers /\ t.active = s.active /\ t.fin = s.fin /\ t.q = q /\ t.rows = {}
  /\ t.at = s.at /\ t.shown = s.shown /\ t.again = s.again /\ t.twice = s.twice
  /\ t.moved = s.moved /\ t.known = s.known /\ t.handed = s.handed
  /\ t.since = since /\ t.read = read /\ t.forgot = forgot /\ t.floor = floor

LEMMA NewWindowFacts ==
  ASSUME NEW s \in Schedulers, NEW q \in [start : Nat, end : Nat, page : Nat],
         NEW since \in Nat \ {0}, NEW read \in SUBSET Nat, NEW forgot \in SUBSET Nat,
         NEW floor \in Nat, NEW ok \in BOOLEAN
  PROVE  IsNewWindow(s, NewWindow(s, q, since, read, forgot, floor, ok), q, since, read, forgot, floor)
  BY DEF NewWindow, IsNewWindow, Schedulers

LEMMA BeginWindowLeft ==
  ASSUME VenueSound, NEW s, Sound(s), Begun(s), s.fin = "no", s.active,
         NEW cursor \in Nat \ {0}, ReadTo(s, cursor), NEW sent \in BOOLEAN
  PROVE  Left(BeginWindow(s, cursor, sent), s.moved)
<1> DEFINE cut   == lim.history > 0 /\ cursor < s.at - lim.history
           start == IF cut THEN s.at - lim.history ELSE cursor
           query == Query(start, WindowEnd(start, s.at), 0)
           t     == [s EXCEPT !.q = query,
                              !.since = IF cut THEN start ELSE s.since,
                              !.read = IF cut THEN {} ELSE s.read,
                              !.forgot = IF cut THEN s.forgot \cup s.read ELSE s.forgot,
                              !.floor = IF cut THEN start ELSE s.floor,
                              !.ok = s.ok /\ ~cut, !.wpages = 0, !.rows = {}]
<1>1. s \in Schedulers
  BY DEF Sound
<1>2. BeginWindow(s, cursor, sent) =
        IF s.pages >= MaxPages THEN StreamDone(s, FALSE) ELSE Send(t, sent)
  BY DEF BeginWindow
<1>3. /\ cut \in BOOLEAN /\ start \in Nat \ {0} /\ (cut => start <= now) /\ (~cut => start = cursor)
      /\ cursor <= start
  <2>1. lim.history \in Nat /\ s.at \in Nat /\ now \in Nat /\ s.at <= now
    BY <1>1, LimFacts DEF Schedulers, VenueSound, Begun
  <2> QED BY <2>1
<1> HIDE DEF cut, start
<1>4. /\ query \in [start : Nat, end : Nat, page : Nat] /\ query.start = start /\ query.page = 0
      /\ query.end # 0 => start <= query.end
  <2>1. s.at \in Nat
    BY <1>1 DEF Schedulers
  <2> QED BY <1>3, <2>1, WindowEndFacts DEF Query
<1> HIDE DEF query
<1>5. /\ t \in Schedulers /\ t.active /\ t.fin = "no" /\ t.q = query /\ t.rows = {}
      /\ t.at = s.at /\ t.shown = s.shown /\ t.again = s.again /\ t.twice = s.twice
      /\ t.known = s.known /\ t.handed = s.handed /\ t.moved = s.moved
      /\ cut => t.since = start /\ t.read = {} /\ t.forgot = s.forgot \cup s.read /\ t.floor = start
      /\ ~cut => t.since = s.since /\ t.read = s.read /\ t.forgot = s.forgot /\ t.floor = s.floor
  <2>1. s.since \in Nat \ {0} /\ s.read \in SUBSET Nat /\ s.forgot \in SUBSET Nat /\ s.floor \in Nat
        /\ s.forgot \cup s.read \in SUBSET Nat
        /\ s.ok \in BOOLEAN /\ FALSE \in BOOLEAN /\ {} \in SUBSET Nat /\ start \in Nat
    BY <1>1, <1>3 DEF Schedulers
  <2>3. CASE cut
    <3>1. t = NewWindow(s, query, start, {}, s.forgot \cup s.read, start, FALSE)
      BY <2>3 DEF NewWindow
    <3> HIDE DEF t
    <3>2. IsNewWindow(s, t, query, start, {}, s.forgot \cup s.read, start)
      BY <1>1, <1>3, <1>4, <2>1, <3>1, NewWindowFacts
    <3> QED BY <2>3, <3>2 DEF IsNewWindow
  <2>4. CASE ~cut
    <3>1. t = NewWindow(s, query, s.since, s.read, s.forgot, s.floor, s.ok)
      BY <2>1, <2>4 DEF NewWindow
    <3> HIDE DEF t
    <3>2. IsNewWindow(s, t, query, s.since, s.read, s.forgot, s.floor)
      BY <1>1, <1>4, <2>1, <3>1, NewWindowFacts
    <3> QED BY <2>4, <3>2 DEF IsNewWindow
  <2> QED BY <1>3, <2>3, <2>4
<1> HIDE DEF t
<1>6. Sound(t) /\ ReadTo(t, start)
  <2>1. CASE cut
    <3>1. \A x \in Nat : Upto(t, start) <= start
      BY <1>3, <1>5 DEF Upto, Least, Schedulers
    <3>2. \A r \in Rows : ~(t.floor <= time[r] /\ time[r] < Upto(t, start))
      <4>1. ASSUME NEW r \in Rows PROVE ~(start <= time[r] /\ time[r] < Upto(t, start))
        <5>1. time[r] \in Nat /\ t.again \in Nat
          BY <1>5, RowFacts DEF Schedulers
        <5> QED BY <1>3, <5>1 DEF Upto, Least
      <4> QED BY <1>5, <2>1, <4>1
    <3>3. t.shown \subseteq Rows
      BY <1>5 DEF Begun, VenueSound
    <3>4. Covered(t, Rows, t.since) /\ Covered(t, t.shown, start)
      BY <1>5, <2>1, <3>2, <3>3 DEF Covered
    <3>5. t.since <= start
      BY <1>3, <1>5, <2>1
    <3>6. Accounted(t)
      <4>1. ASSUME NEW r \in s.handed PROVE time[r] < start \/ r \in t.known \cup t.forgot
        <5>1. time[r] \in Nat /\ s.since \in Nat /\ s.since <= cursor
          BY <1>1, RowFacts DEF Sound, Schedulers, ReadTo
        <5>2. time[r] < s.since \/ r \in s.read \cup s.known \cup s.forgot
          BY DEF Sound, Accounted
        <5> QED BY <1>3, <1>5, <2>1, <5>1, <5>2
      <4> QED BY <1>5, <2>1, <4>1 DEF Accounted
    <3> QED BY <1>3, <1>5, <2>1, <3>4, <3>5, <3>6 DEF Sound, ReadTo
  <2>2. CASE ~cut
    <3>1. SameBooks(s, t)
      BY <1>5, <2>2 DEF SameBooks
    <3>2. Sound(t)
      BY <1>5, <3>1, SoundSame
    <3>3. ReadTo(t, start)
      BY <1>3, <1>5, <2>2, <3>1 DEF ReadTo, Covered, Upto, SameBooks
    <3> QED BY <3>2, <3>3
  <2> QED BY <2>1, <2>2
<1>7. Running(t)
  <2>1. Begun(t)
    BY <1>5 DEF Begun
  <2>2. Window(t)
    BY <1>4, <1>5 DEF Window
  <2> QED BY <1>4, <1>5, <1>6, <2>1, <2>2 DEF Running
<1>8. Left(Send(t, sent), s.moved)
  BY <1>5, <1>6, <1>7, SendLeft
<1>9. Left(StreamDone(s, FALSE), s.moved)
  BY FailedLeft
<1> QED BY <1>2, <1>8, <1>9

\* The watermark moves over what was read, and not into the settle margin.
LEMMA CommitSound ==
  ASSUME VenueSound, NEW s, Sound(s), Begun(s), NEW x \in Nat, Covered(s, s.shown, x)
  PROVE  LET t == Commit(s, x)
         IN  /\ Sound(t) /\ Begun(t) /\ Covered(t, t.shown, x)
             /\ s.since <= x => t.since <= x
             /\ t.active = s.active /\ t.fin = s.fin /\ t.again = s.again /\ Owed(t) = Owed(s)
             /\ t.moved = s.moved
<1> DEFINE since == Greatest(s.since, Least(x, s.at - Settle))
           t == Commit(s, x)
<1>1. s \in Schedulers /\ Settle \in Nat
  BY LimFacts DEF Sound
<1>2. s.at \in Nat /\ s.since \in Nat \ {0} /\ s.at <= now /\ now \in Nat /\ s.since <= now
  BY <1>1 DEF Schedulers, Begun, Sound, VenueSound
<1>3. /\ since \in Nat \ {0} /\ s.since <= since /\ since <= now
      /\ s.since <= x => since <= x
      /\ since = s.since \/ (since <= x /\ since + Settle <= s.at)
  BY <1>1, <1>2 DEF Greatest, Least
<1>4. t = [s EXCEPT !.since = since, !.read = {r \in s.read : time[r] >= since}]
  BY DEF Commit
<1> HIDE DEF since, t
<1>5. /\ t \in Schedulers /\ t.since = since /\ t.read = {r \in s.read : time[r] >= since}
      /\ t.known = s.known /\ t.handed = s.handed /\ t.again = s.again /\ t.floor = s.floor
      /\ t.twice = s.twice /\ t.at = s.at /\ t.shown = s.shown /\ t.active = s.active /\ t.fin = s.fin
      /\ t.moved = s.moved /\ t.forgot = s.forgot
  BY <1>1, <1>3, <1>4 DEF Schedulers
<1>6. Begun(t) /\ Covered(t, t.shown, x) /\ Owed(t) = Owed(s)
  BY <1>5 DEF Begun, Covered, Upto, Owed
<1>7. Accounted(t)
  <2>1. ASSUME NEW r \in s.handed PROVE time[r] < since \/ r \in t.read \cup t.known \cup t.forgot
    <3>1. time[r] \in Nat
      BY RowFacts DEF Sound
    <3>2. time[r] < s.since \/ r \in s.read \cup s.known \cup s.forgot
      BY DEF Sound, Accounted
    <3> QED BY <1>2, <1>3, <1>5, <3>1, <3>2
  <2> QED BY <1>5, <2>1 DEF Sound, Accounted
<1>8. Covered(t, Rows, since)
  <2>1. ASSUME NEW r \in Rows, s.floor <= time[r], time[r] < Upto(s, since)
        PROVE  r \in s.handed \cup s.known
    <3>1. time[r] \in Nat /\ s.again \in Nat
      BY <1>1, RowFacts DEF Schedulers
    <3>2. CASE time[r] < s.since
      <4>1. time[r] < Upto(s, s.since)
        BY <1>2, <1>3, <2>1, <3>1, <3>2 DEF Upto, Least
      <4> QED BY <2>1, <4>1 DEF Sound, Covered
    <3>3. CASE ~(time[r] < s.since)
      <4>1. time[r] < since
        BY <1>3, <2>1, <3>1 DEF Upto, Least
      <4>2. since <= x /\ since + Settle <= s.at
        BY <1>2, <1>3, <3>1, <3>3, <4>1
      <4>3. time[r] + Settle < s.at
        BY <1>1, <1>2, <1>3, <3>1, <4>1, <4>2
      <4>4. r \in s.shown
        BY <4>3 DEF Begun
      <4>5. time[r] < Upto(s, x)
        BY <1>2, <1>3, <2>1, <3>1, <4>1, <4>2 DEF Upto, Least
      <4> QED BY <2>1, <4>4, <4>5 DEF Covered
    <3> QED BY <3>2, <3>3
  <2>2. Upto(t, since) = Upto(s, since)
    BY <1>5 DEF Upto
  <2> QED BY <1>5, <2>1, <2>2 DEF Covered
<1>9. Sound(t)
  BY <1>3, <1>5, <1>7, <1>8 DEF Sound
<1> QED BY <1>3, <1>5, <1>6, <1>9 DEF t

\* The rows of a window go out.
Asked(s)   == {r \in s.rows : time[r] >= s.q.start}
Unread(s)  == Asked(s) \ (s.read \cup s.known)
Emitted(s) ==
  [s EXCEPT !.read = @ \cup Asked(s), !.rows = {},
            !.handed = @ \cup Unread(s), !.forgot = @ \ Unread(s),
            !.twice = @ \/ ~(Unread(s) \cap s.handed \subseteq s.forgot)]

\* None but a forgotten one goes out twice: what was handed out is read, known, forgotten, or older
\* than the window.
LEMMA EmittedSound ==
  ASSUME VenueSound, NEW s, Sound(s), Begun(s), ReadTo(s, s.q.start), s.rows \subseteq Rows
  PROVE  LET t == Emitted(s)
         IN  /\ Sound(t) /\ Begun(t) /\ ReadTo(t, s.q.start)
             /\ Asked(s) \subseteq t.handed \cup t.known
             /\ t.active = s.active /\ t.fin = s.fin /\ t.since = s.since /\ t.moved = s.moved
             /\ t.shown = s.shown /\ t.again = s.again /\ t.floor = s.floor /\ t.at = s.at
<1> DEFINE t == Emitted(s)
<1>1. s \in Schedulers /\ s.q.start \in Nat /\ s.since \in Nat /\ s.since <= s.q.start
  BY DEF Sound, Schedulers, ReadTo
<1>2. Asked(s) \subseteq Rows /\ Asked(s) \subseteq Nat /\ Unread(s) \subseteq Asked(s)
  BY RowFacts DEF Asked, Unread
<1>3. Unread(s) \cap s.handed \subseteq s.forgot
  <2>1. ASSUME NEW r \in Unread(s), r \in s.handed PROVE r \in s.forgot
    <3>1. time[r] >= s.q.start /\ r \notin s.read \cup s.known /\ time[r] \in Nat
      BY <1>2, RowFacts DEF Unread, Asked
    <3>2. ~(time[r] < s.since)
      BY <1>1, <3>1
    <3> QED BY <2>1, <3>1, <3>2 DEF Sound, Accounted
  <2> QED BY <2>1
<1>4. ~s.twice /\ s.handed \in SUBSET Nat /\ s.read \in SUBSET Nat /\ s.forgot \in SUBSET Nat
  BY <1>1 DEF Sound, Schedulers
<1>5. t = [s EXCEPT !.read = s.read \cup Asked(s), !.rows = {}, !.handed = s.handed \cup Unread(s),
                    !.forgot = s.forgot \ Unread(s),
                    !.twice = s.twice \/ ~(Unread(s) \cap s.handed \subseteq s.forgot)]
  BY DEF Emitted
<1> HIDE DEF t
<1>6. /\ t \in Schedulers /\ t.read = s.read \cup Asked(s) /\ t.handed = s.handed \cup Unread(s)
      /\ t.known = s.known /\ t.since = s.since /\ t.again = s.again /\ t.floor = s.floor
      /\ t.at = s.at /\ t.shown = s.shown /\ t.active = s.active /\ t.fin = s.fin
      /\ t.moved = s.moved /\ t.forgot = s.forgot \ Unread(s)
  <2>1. /\ s.read \cup Asked(s) \in SUBSET Nat /\ s.handed \cup Unread(s) \in SUBSET Nat
        /\ s.forgot \ Unread(s) \in SUBSET Nat
    BY <1>2, <1>4
  <2>2. (s.twice \/ ~(Unread(s) \cap s.handed \subseteq s.forgot)) \in BOOLEAN
    OBVIOUS
  <2> QED BY ZenonT(30), <1>1, <1>5, <2>1, <2>2 DEF Schedulers
<1>7. ~t.twice
  BY <1>1, <1>3, <1>4, <1>5 DEF Schedulers
<1>8. Asked(s) \subseteq t.handed \cup t.known
  BY <1>6 DEF Unread, Sound, Accounted
<1>9. Begun(t) /\ ReadTo(t, s.q.start) /\ Covered(t, Rows, t.since)
  BY <1>6 DEF Begun, ReadTo, Covered, Upto, Sound
<1>10. Accounted(t)
  BY <1>2, <1>6, <1>8 DEF Accounted, Sound
<1>11. Sound(t)
  BY <1>2, <1>6, <1>7, <1>9, <1>10 DEF Sound
<1> QED BY <1>6, <1>8, <1>9, <1>11 DEF t

LEMMA EmitLeft ==
  ASSUME VenueSound, NEW s, Sound(s), Begun(s), ReadTo(s, s.q.start), s.rows \subseteq Rows,
         s.fin = "no", s.active, s.q.end # 0 => s.q.start <= s.q.end,
         s.q.end # 0 => \A r \in s.rows : time[r] <= s.q.end,
         NEW sent \in BOOLEAN, NEW more \in BOOLEAN,
         ~more => InWindow(s) \subseteq s.rows,
         more => \A h \in InWindow(s), x \in s.rows : time[h] < time[x] => h \in s.rows
  PROVE  Left(EmitWindow(s, more, sent), s.moved)
<1> DEFINE t == Emitted(s)
           newest == Max({time[r] : r \in s.rows} \cup {0})
<1>1. s \in Schedulers /\ s.q.start \in Nat /\ s.q.end \in Nat /\ s.at \in Nat /\ s.since \in Nat \ {0}
      /\ s.again \in Nat /\ s.floor \in Nat /\ s.since <= s.q.start
  BY DEF Sound, Schedulers, ReadTo
<1>2. /\ Sound(t) /\ Begun(t) /\ ReadTo(t, s.q.start)
      /\ Asked(s) \subseteq t.handed \cup t.known
      /\ t.active = s.active /\ t.fin = s.fin /\ t.since = s.since /\ t.moved = s.moved
      /\ t.shown = s.shown /\ t.again = s.again /\ t.floor = s.floor /\ t.at = s.at
  BY EmittedSound
<1>3. EmitWindow(s, more, sent) =
        IF more
          THEN IF newest > s.q.start
                 THEN BeginWindow(Commit(t, newest), newest, sent)
                 ELSE StreamDone(t, FALSE)
        ELSE IF s.q.end # 0
          THEN BeginWindow(Commit(t, s.q.end + 1), s.q.end + 1, sent)
        ELSE StreamDone(Commit(t, s.at), TRUE)
  BY DEF EmitWindow, Emitted, Asked, Unread
<1> HIDE DEF t
\* What was read before the window and in it up to x is handed out.
<1>4. ASSUME NEW x \in Nat,
             \A r \in s.shown : s.q.start <= time[r] /\ time[r] < x => r \in s.rows
      PROVE  Covered(t, t.shown, x)
  <2>1. ASSUME NEW r \in s.shown, s.floor <= time[r], time[r] < Upto(s, x)
        PROVE  r \in t.handed \cup t.known
    <3>1. time[r] \in Nat
      BY RowFacts DEF Begun, VenueSound
    <3>2. CASE time[r] < s.q.start
      <4>1. time[r] < Upto(s, s.q.start)
        BY <1>1, <2>1, <3>1, <3>2 DEF Upto, Least
      <4>2. Upto(t, s.q.start) = Upto(s, s.q.start)
        BY <1>2 DEF Upto
      <4> QED BY <1>2, <2>1, <4>1, <4>2 DEF ReadTo, Covered
    <3>3. CASE ~(time[r] < s.q.start)
      <4>1. s.q.start <= time[r] /\ time[r] < x
        BY <1>1, <2>1, <3>1, <3>3 DEF Upto, Least
      <4>2. r \in Asked(s)
        BY <1>1, <1>4, <3>1, <4>1 DEF Asked
      <4> QED BY <1>2, <4>2
    <3> QED BY <3>2, <3>3
  <2>2. Upto(t, x) = Upto(s, x)
    BY <1>2 DEF Upto
  <2> QED BY <1>2, <2>1, <2>2 DEF Covered
<1>5. ASSUME NEW x \in Nat \ {0}, s.q.start <= x,
             \A r \in s.shown : s.q.start <= time[r] /\ time[r] < x => r \in s.rows
      PROVE  Left(BeginWindow(Commit(t, x), x, sent), s.moved)
  <2> DEFINE u == Commit(t, x)
  <2>1. Covered(t, t.shown, x) /\ t.since <= x
    BY <1>1, <1>2, <1>4, <1>5
  <2>2. /\ Sound(u) /\ Begun(u) /\ Covered(u, u.shown, x)
        /\ u.since <= x /\ u.active = t.active /\ u.fin = t.fin /\ u.moved = s.moved
    BY <1>2, <2>1, CommitSound
  <2> HIDE DEF u
  <2>3. u.active /\ u.fin = "no" /\ ReadTo(u, x)
    BY <1>2, <2>2 DEF ReadTo
  <2> QED BY <2>2, <2>3, BeginWindowLeft DEF u
<1>6. CASE more /\ newest > s.q.start
  <2>1. {time[r] : r \in s.rows} \cup {0} \in SUBSET (0 .. now) /\ now \in Nat
    BY RowFacts DEF VenueSound
  <2>2. newest \in {time[r] : r \in s.rows} \cup {0} /\ newest \in 0 .. now
    <3>1. {time[r] : r \in s.rows} \cup {0} # {}
      OBVIOUS
    <3> QED BY <2>1, <3>1, MaxIsMember
  <2> HIDE DEF newest
  <2>3. newest \in Nat \ {0} /\ s.q.start <= newest
    BY <1>1, <1>6, <2>2
  <2>4. PICK y \in s.rows : newest = time[y]
    BY <2>2, <2>3
  <2>5. ASSUME NEW r \in s.shown, s.q.start <= time[r], time[r] < newest PROVE r \in s.rows
    <3>1. r \in InWindow(s)
      <4>1. time[r] \in Nat /\ time[y] \in Nat
        BY RowFacts DEF Begun, VenueSound
      <4>2. s.q.end # 0 => time[r] <= s.q.end
        BY <1>1, <2>4, <2>5, <4>1
      <4> QED BY <1>1, <2>5, <4>1, <4>2 DEF InWindow
    <3> QED BY <1>6, <2>4, <2>5, <3>1
  <2>6. Left(BeginWindow(Commit(t, newest), newest, sent), s.moved)
    BY <1>5, <2>3, <2>5
  <2> QED BY <1>3, <1>6, <2>6 DEF newest
<1>7. CASE more /\ ~(newest > s.q.start)
  <2>1. Left(StreamDone(t, FALSE), s.moved)
    BY <1>2, FailedLeft
  <2> QED BY <1>3, <1>7, <2>1
<1>8. CASE ~more /\ s.q.end # 0
  <2>1. s.q.end + 1 \in Nat \ {0} /\ s.q.start <= s.q.end + 1
    BY <1>1, <1>8
  <2>2. ASSUME NEW r \in s.shown, s.q.start <= time[r], time[r] < s.q.end + 1 PROVE r \in s.rows
    <3>1. time[r] \in Nat
      BY RowFacts DEF Begun, VenueSound
    <3>2. r \in InWindow(s)
      BY <1>1, <2>2, <3>1 DEF InWindow
    <3> QED BY <1>8, <3>2
  <2>3. Left(BeginWindow(Commit(t, s.q.end + 1), s.q.end + 1, sent), s.moved)
    BY <1>5, <2>1, <2>2
  <2> QED BY <1>3, <1>8, <2>3
<1>9. CASE ~more /\ s.q.end = 0
  <2>1. ASSUME NEW r \in s.shown, s.q.start <= time[r] PROVE r \in s.rows
    <3>1. time[r] \in Nat
      BY RowFacts DEF Begun, VenueSound
    <3>2. r \in InWindow(s)
      BY <1>1, <1>9, <2>1, <3>1 DEF InWindow
    <3> QED BY <1>9, <3>2
  <2>2. Covered(t, t.shown, s.at) /\ Covered(t, t.shown, now + 1)
    <3>1. now + 1 \in Nat
      BY DEF VenueSound
    <3> QED BY <1>1, <1>4, <2>1, <3>1
  <2>3. t.again = 0 => Owed(t) = {}
    <3>1. ASSUME NEW r \in t.shown, time[r] >= t.floor, t.again = 0 PROVE r \in t.handed \cup t.known
      <4>1. time[r] \in Nat /\ time[r] <= now /\ now \in Nat
        BY <1>2, RowFacts DEF Begun, VenueSound
      <4>2. time[r] < Upto(t, now + 1)
        BY <3>1, <4>1 DEF Upto
      <4>3. t.floor <= time[r]
        BY <1>1, <1>2, <3>1, <4>1
      <4> QED BY <2>2, <4>2, <4>3 DEF Covered
    <3> QED BY <3>1 DEF Owed
  <2> DEFINE u == Commit(t, s.at)
  <2>4. /\ Sound(u) /\ u.fin = t.fin /\ u.again = t.again /\ Owed(u) = Owed(t)
    BY <1>1, <1>2, <2>2, CommitSound
  <2> HIDE DEF u
  <2>5. Left(StreamDone(u, TRUE), s.moved)
    BY <1>2, <2>3, <2>4, CompleteLeft
  <2> QED BY <1>3, <1>9, <2>5 DEF u
<1> QED BY <1>6, <1>7, <1>8, <1>9

\* An answer to the query the replay waits for.
LEMMA PageLeft ==
  ASSUME VenueSound, NEW s, Sound(s), Running(s), s.fin = "no", s.active, NEW sent \in BOOLEAN
  PROVE  Left(Page(s, Answer(s.q), sent), s.moved)
<1> DEFINE ans == Answer(s.q)
           more == More(ans)
           t == [s EXCEPT !.awaiting = FALSE, !.rows = s.rows \cup ans.rows]
           low == Min({time[r] : r \in t.rows})
           again == [t EXCEPT !.wpages = t.wpages + 1, !.q.page = ans.next]
           narrowed == [t EXCEPT !.q = Query(s.q.start, low, 0), !.wpages = 0, !.rows = {}]
<1>1. s \in Schedulers /\ s.q \in [start : Nat, end : Nat, page : Nat] /\ s.rows \subseteq Rows
  BY DEF Sound, Schedulers, Running, Window
<1>2. /\ ans.rows \subseteq Hits(s.q) /\ ans.next \in Nat /\ more \in BOOLEAN
      /\ ans.next # 0 => lim.newestFirst
      /\ ~more => ans.rows = Hits(s.q)
      /\ ans.next = 0 => \A h \in Hits(s.q), x \in ans.rows : time[h] < time[x] => h \in ans.rows
  BY AnswerCovers DEF More
<1>3. Page(s, ans, sent) =
        IF ans.next = 0 THEN EmitWindow(t, more, sent)
        ELSE IF s.wpages + 1 < WindowPages THEN Send(again, sent)
        ELSE IF low <= s.q.start THEN StreamDone(t, FALSE)
        ELSE Send(narrowed, sent)
  BY DEF Page, More
<1>4. Hits(s.q) \subseteq Rows /\ Rows \subseteq Nat /\ Hits(s.q) \subseteq indexed
  BY HitsFacts, RowFacts
<1>5. ans.next # 0 => ans.rows # {} /\ \A h \in Hits(s.q) : h >= ans.next => h \in ans.rows
  BY <1>2, AnswerNewest
<1> HIDE DEF ans, more
<1>6. /\ t \in Schedulers /\ SameBooks(s, t) /\ t.fin = "no" /\ t.active /\ t.q = s.q
      /\ t.rows = s.rows \cup ans.rows /\ t.at = s.at /\ t.shown = s.shown /\ t.moved = s.moved
  <2>1. s.rows \cup ans.rows \in SUBSET Nat
    BY <1>1, <1>2, <1>4
  <2>2. t \in Schedulers
    BY <1>1, <2>1 DEF Schedulers
  <2> QED BY <1>1, <2>2 DEF Schedulers, SameBooks
<1> HIDE DEF t
<1>7. Sound(t) /\ Begun(t) /\ ReadTo(t, t.q.start) /\ t.rows \subseteq Rows
  <2>1. Sound(t)
    BY <1>6, SoundSame
  <2>2. Begun(t) /\ ReadTo(t, t.q.start)
    BY <1>6 DEF Running, Begun, ReadTo, Covered, Upto, SameBooks
  <2> QED BY <1>1, <1>2, <1>4, <1>6, <2>1, <2>2
<1>8. /\ t.q.end # 0 => t.q.start <= t.q.end
      /\ t.q.end # 0 => \A r \in t.rows : time[r] <= t.q.end
  BY <1>2, <1>6 DEF Running, Window, Hits
\* The rows of the window are answered by this page, or by an earlier one.
<1>9. ASSUME NEW r \in InWindow(t) PROVE r \in Hits(s.q) \/ r \in s.rows
  <2>1. r \in s.shown /\ r \in indexed /\ r \in Nat /\ time[r] >= s.q.start
        /\ (s.q.end # 0 => time[r] <= s.q.end) /\ r \in InWindow(s)
    BY <1>4, <1>6, RowFacts DEF InWindow, Running, Begun, VenueSound
  <2>2. CASE s.q.page = 0 \/ r < s.q.page
    BY <2>1, <2>2 DEF Hits
  <2>3. CASE s.q.page # 0 /\ ~(r < s.q.page)
    <3>1. r >= s.q.page
      BY <1>1, <2>1, <2>3
    <3> QED BY <2>1, <2>3, <3>1 DEF Running, Window
  <2> QED BY <2>2, <2>3
<1>10. CASE ans.next = 0
  <2>1. ~more => InWindow(t) \subseteq t.rows
    BY <1>2, <1>6, <1>9
  <2>2. ASSUME NEW h \in InWindow(t), NEW x \in t.rows, time[h] < time[x] PROVE h \in t.rows
    <3>1. CASE h \in s.rows
      BY <1>6, <3>1
    <3>2. CASE h \in Hits(s.q) /\ lim.newestFirst
      <4>1. ans.rows = Hits(s.q)
        BY <1>10, <3>2, AnswerNewest DEF ans
      <4> QED BY <1>6, <3>2, <4>1
    <3>3. CASE h \in Hits(s.q) /\ ~lim.newestFirst
      <4>1. s.rows = {}
        BY <3>3 DEF Running, Window
      <4> QED BY <1>2, <1>6, <1>10, <2>2, <3>3, <4>1
    <3> QED BY <1>9, <3>1, <3>2, <3>3
  <2>3. Left(EmitWindow(t, more, sent), s.moved)
    BY <1>2, <1>6, <1>7, <1>8, <2>1, <2>2, EmitLeft
  <2> QED BY <1>3, <1>10, <2>3 DEF ans
<1>11. CASE ans.next # 0 /\ s.wpages + 1 < WindowPages
  <2>1. /\ again \in Schedulers /\ SameBooks(t, again) /\ again.fin = "no" /\ again.active
        /\ again.q = [t.q EXCEPT !.page = ans.next]
        /\ again.rows = t.rows /\ again.at = t.at /\ again.shown = t.shown /\ again.moved = s.moved
    <3>1. t.wpages + 1 \in Nat /\ [t.q EXCEPT !.page = ans.next] \in [start : Nat, end : Nat, page : Nat]
      BY <1>1, <1>2, <1>6 DEF Schedulers
    <3>2. again = [t EXCEPT !.wpages = t.wpages + 1, !.q = [t.q EXCEPT !.page = ans.next]]
      BY <1>6 DEF Schedulers
    <3> HIDE DEF again
    <3>3. again \in Schedulers
      BY <1>6, <3>1, <3>2 DEF Schedulers
    <3> QED BY <1>6, <3>2, <3>3 DEF Schedulers, SameBooks
  <2>2. again.q.start = s.q.start /\ again.q.end = s.q.end /\ again.q.page = ans.next
    BY <1>1, <1>6, <2>1
  <2> HIDE DEF again
  <2>3. Sound(again)
    BY <1>7, <2>1, SoundSame
  <2>4. Begun(again) /\ ReadTo(again, again.q.start)
    BY <1>6, <1>7, <2>1, <2>2 DEF Begun, ReadTo, Covered, Upto, SameBooks
  <2>5. InWindow(again) = InWindow(t)
    BY <1>6, <2>1, <2>2 DEF InWindow
  <2>6. ASSUME NEW r \in InWindow(t), r >= ans.next PROVE r \in t.rows
    BY <1>5, <1>6, <1>9, <1>11, <2>6
  <2>7. Window(again)
    BY <1>2, <1>6, <1>7, <1>8, <1>11, <2>1, <2>2, <2>5, <2>6 DEF Window
  <2>8. Left(Send(again, sent), s.moved)
    BY <2>1, <2>3, <2>4, <2>7, SendLeft DEF Running
  <2> QED BY <1>3, <1>11, <2>8 DEF ans
<1>12. CASE ans.next # 0 /\ ~(s.wpages + 1 < WindowPages) /\ low <= s.q.start
  <2>1. Left(StreamDone(t, FALSE), s.moved)
    BY <1>6, <1>7, FailedLeft
  <2> QED BY <1>3, <1>12, <2>1 DEF ans
<1>13. CASE ans.next # 0 /\ ~(s.wpages + 1 < WindowPages) /\ ~(low <= s.q.start)
  <2>1. low \in Nat
    <3>1. {time[r] : r \in t.rows} \in SUBSET Nat /\ {time[r] : r \in t.rows} # {}
      BY <1>5, <1>6, <1>7, <1>13, RowFacts
    <3> QED BY <3>1, MinIsMember
  <2> HIDE DEF low
  <2> DEFINE query == Query(s.q.start, low, 0)
  <2>2. /\ query \in [start : Nat, end : Nat, page : Nat] /\ query.start = s.q.start
        /\ query.end = low /\ query.page = 0
    BY <1>1, <2>1 DEF Query
  <2>3. narrowed = [t EXCEPT !.q = query, !.wpages = 0, !.rows = {}]
    OBVIOUS
  <2> HIDE DEF query, narrowed
  <2>4. /\ narrowed \in Schedulers /\ SameBooks(t, narrowed) /\ narrowed.fin = "no" /\ narrowed.active
        /\ narrowed.q = query /\ narrowed.rows = {} /\ narrowed.at = t.at /\ narrowed.shown = t.shown
        /\ narrowed.moved = s.moved
    <3>1. narrowed \in Schedulers
      BY ZenonT(30), <1>6, <2>2, <2>3 DEF Schedulers
    <3> QED BY <1>6, <2>3, <3>1 DEF Schedulers, SameBooks
  <2>5. Sound(narrowed)
    BY <1>7, <2>4, SoundSame
  <2>6. Begun(narrowed) /\ ReadTo(narrowed, narrowed.q.start)
    BY <1>6, <1>7, <2>2, <2>4 DEF Begun, ReadTo, Covered, Upto, SameBooks
  <2>7. s.q.start <= low
    BY <1>1, <1>13, <2>1
  <2>8. Window(narrowed)
    BY <2>2, <2>4, <2>7 DEF Window
  <2>9. Left(Send(narrowed, sent), s.moved)
    BY <2>4, <2>5, <2>6, <2>8, SendLeft DEF Running
  <2> QED BY <1>3, <1>13, <2>9 DEF ans
<1> QED BY <1>10, <1>11, <1>12, <1>13

\* start(): the replay is shown what the venue has indexed, and that is everything the settle margin
\* does not protect.
LEMMA StartLeft ==
  ASSUME VenueSound, NEW s, Sound(s), s.fin = "no", NEW sent \in BOOLEAN
  PROVE  Left(Start(s, sent), TRUE)
<1> DEFINE t == [s EXCEPT !.active = TRUE, !.ok = TRUE, !.retry = FALSE, !.at = now,
                          !.pages = 0, !.moved = TRUE, !.shown = indexed]
<1>1. s \in Schedulers /\ now \in Nat /\ indexed \in SUBSET Nat /\ indexed \subseteq Rows
  BY RowFacts DEF Sound, VenueSound
<1>2. t \in Schedulers
  BY <1>1 DEF Schedulers
<1>3. /\ SameBooks(s, t) /\ t.fin = "no" /\ t.active /\ t.at = now /\ t.shown = indexed
      /\ t.since = s.since /\ t.moved = TRUE
  BY <1>1 DEF Schedulers, SameBooks
<1>4. Start(s, sent) = BeginWindow(t, s.since, sent)
  BY DEF Start
<1> HIDE DEF t
<1>5. Sound(t)
  BY <1>2, <1>3, SoundSame
<1>6. Begun(t)
  <2>1. ASSUME NEW r \in Rows, time[r] + Settle < now PROVE r \in indexed
    <3>1. time[r] \in Nat /\ Settle \in Nat
      BY RowFacts, LimFacts
    <3> QED BY <1>1, <2>1, <3>1 DEF VenueSound
  <2> QED BY <1>1, <1>3, <2>1 DEF Begun
<1>7. ReadTo(t, s.since) /\ s.since \in Nat \ {0}
  <2>1. s.since \in Nat \ {0}
    BY <1>1 DEF Schedulers
  <2>2. Covered(t, t.shown, s.since)
    BY <1>1, <1>3, <1>5 DEF Sound, Covered
  <2> QED BY <1>3, <2>1, <2>2 DEF ReadTo
<1> QED BY <1>3, <1>4, <1>5, <1>6, <1>7, BeginWindowLeft

\* restart_from() and resume(): below `from` nothing is owed; a replay that runs reads on, and what
\* it hands out counts below the restart.
LEMMA RestartSound ==
  ASSUME VenueSound, NEW s, Sound(s), s.active => s.awaiting /\ Running(s),
         NEW from \in Nat \ {0}, from <= now, NEW K \in SUBSET Rows, s.active => s.known \subseteq K
  PROVE  LET t == RestartFrom([s EXCEPT !.known = K], from)
         IN  /\ Sound(t) /\ (t.active => t.awaiting /\ Running(t))
             /\ t.active = s.active /\ t.due = s.due /\ t.fin = s.fin
<1> DEFINE k == [s EXCEPT !.known = K]
           t == RestartFrom(k, from)
<1>1. s \in Schedulers /\ now \in Nat /\ K \in SUBSET Nat
  BY RowFacts DEF Sound, VenueSound
<1>2. k \in Schedulers
  BY <1>1 DEF Schedulers
<1>3. /\ k.since = s.since /\ k.read = s.read /\ k.known = K /\ k.handed = s.handed
      /\ k.again = s.again /\ k.floor = s.floor /\ k.twice = s.twice /\ k.active = s.active
      /\ k.awaiting = s.awaiting /\ k.due = s.due /\ k.fin = s.fin /\ SameWindow(s, k)
      /\ k.forgot = s.forgot
  BY <1>1 DEF Schedulers, SameWindow
<1> HIDE DEF k
<1>4. CASE s.active
  <2> DEFINE again == IF k.again > 0 THEN Least(k.again, from) ELSE from
             floor == Least(k.floor, from)
  <2>1. t = [k EXCEPT !.again = again, !.floor = floor]
    BY <1>3, <1>4 DEF RestartFrom
  <2>2. /\ again \in Nat \ {0} /\ again <= from /\ (s.again # 0 => again <= s.again)
        /\ floor \in Nat /\ floor <= from
        /\ floor = s.floor \/ floor = from
    BY <1>2, <1>3 DEF Schedulers, Least
  <2> HIDE DEF again, floor, t
  <2>3. /\ t \in Schedulers /\ t.since = s.since /\ t.read = s.read /\ t.known = K /\ t.handed = s.handed
        /\ t.again = again /\ t.floor = floor /\ t.twice = s.twice /\ t.active = s.active
        /\ t.awaiting = s.awaiting /\ t.due = s.due /\ t.fin = s.fin /\ SameWindow(k, t)
        /\ t.forgot = s.forgot
    BY <1>2, <1>3, <2>1, <2>2 DEF Schedulers, SameWindow
  <2>4. SameWindow(s, t)
    BY <1>3, <2>3 DEF SameWindow
  <2>5. ASSUME NEW R \in SUBSET Rows, NEW x \in Nat, Covered(s, R, x) PROVE Covered(t, R, x)
    <3>1. ASSUME NEW r \in R, floor <= time[r], time[r] < Upto(t, x) PROVE r \in t.handed \cup t.known
      <4>1. time[r] \in Nat /\ s.again \in Nat
        BY <1>1, RowFacts DEF Schedulers
      <4>2. time[r] < again /\ time[r] < x
        BY <2>2, <2>3, <3>1, <4>1 DEF Upto, Least
      <4>3. floor = s.floor
        BY <2>2, <3>1, <4>1, <4>2
      <4>4. time[r] < Upto(s, x)
        BY <2>2, <4>1, <4>2 DEF Upto, Least
      <4> QED BY <1>4, <2>3, <2>5, <3>1, <4>3, <4>4 DEF Covered
    <3> QED BY <2>3, <3>1 DEF Covered
  <2>6. Sound(t)
    <3>1. Covered(t, Rows, t.since)
      BY <1>1, <2>3, <2>5 DEF Sound, Schedulers
    <3>2. Accounted(t)
      BY <1>4, <2>3 DEF Accounted, Sound
    <3>3. t.floor <= now
      BY <1>1, <2>2, <2>3
    <3> QED BY <2>3, <3>1, <3>2, <3>3 DEF Sound
  <2>7. Running(t)
    <3>1. s.q.start \in Nat /\ s.shown \subseteq Rows
      BY <1>1, <1>4 DEF Schedulers, Running, Begun, VenueSound
    <3>2. Covered(t, t.shown, t.q.start)
      BY <1>4, <2>4, <2>5, <3>1 DEF SameWindow, Running, ReadTo
    <3>3. Begun(t) /\ Window(t)
      BY <1>4, <2>4 DEF SameWindow, Running, Begun, Window, InWindow
    <3>4. t.since <= t.q.start
      BY <1>4, <2>3, <2>4 DEF SameWindow, Running, ReadTo
    <3> QED BY <3>2, <3>3, <3>4 DEF Running, ReadTo
  <2> QED BY <1>4, <2>3, <2>6, <2>7 DEF t, k
<1>5. CASE ~s.active
  <2>1. t = [k EXCEPT !.since = from, !.read = {}, !.handed = {}, !.forgot = {}, !.floor = from]
    BY <1>3, <1>5 DEF RestartFrom
  <2> HIDE DEF t
  <2>2. /\ t \in Schedulers /\ t.since = from /\ t.read = {} /\ t.known = K /\ t.handed = {}
        /\ t.again = s.again /\ t.floor = from /\ t.twice = s.twice /\ t.active = s.active
        /\ t.due = s.due /\ t.fin = s.fin
    BY <1>2, <1>3, <2>1 DEF Schedulers
  <2>3. Covered(t, Rows, from)
    <3>1. ASSUME NEW r \in Rows, from <= time[r], time[r] < Upto(t, from) PROVE FALSE
      <4>1. time[r] \in Nat /\ s.again \in Nat
        BY <1>1, RowFacts DEF Schedulers
      <4> QED BY <2>2, <3>1, <4>1 DEF Upto, Least
    <3> QED BY <2>2, <3>1 DEF Covered
  <2>4. Sound(t)
    BY <2>2, <2>3 DEF Sound, Accounted
  <2> QED BY <1>5, <2>2, <2>4 DEF t, k
<1> QED BY <1>4, <1>5

LEMMA AbortSound ==
  ASSUME VenueSound, NEW s, Sound(s), s.active, s.fin = "no"
  PROVE  Sound(Abort(s)) /\ ~Abort(s).active /\ Abort(s).fin = "no"
<1> DEFINE a == TakeAgain(Idle(s))
           t == [a EXCEPT !.retry = TRUE, !.moved = TRUE]
<1>1. Sound(a) /\ ~a.active /\ a.fin = "no"
  BY IdleSound, TakeAgainSound
<1>2. a \in Schedulers
  BY <1>1 DEF Sound
<1>3. Abort(s) = t
  BY DEF Abort
<1> HIDE DEF a
<1>4. t \in Schedulers /\ SameBooks(a, t) /\ ~t.active /\ t.fin = "no"
  BY <1>1, <1>2 DEF Schedulers, SameBooks
<1> HIDE DEF t
<1> QED BY <1>1, <1>3, <1>4, SoundSame

-----------------------------------------------------------------------------
(***************************************************************************)
(* The driver's methods.                                                   *)
(***************************************************************************)

LEMMA FailFacts ==
  ASSUME NEW d \in Drivers
  PROVE  /\ Fail(d) \in Drivers /\ ~Fail(d).waiting
         /\ Fail(d).exact = d.exact /\ Fail(d).gap = d.gap
<1> DEFINE w == Max({d.running, d.pending, d.retryWant})
<1>1. w \in 0 .. 2
  <2>1. {d.running, d.pending, d.retryWant} \in SUBSET (0 .. 2)
    BY DEF Drivers
  <2>2. {d.running, d.pending, d.retryWant} # {}
    OBVIOUS
  <2> QED BY <2>1, <2>2, MaxIsMember
<1>2. Fail(d) = [d EXCEPT !.inFlight = FALSE, !.waiting = FALSE, !.retry = TRUE, !.retryWant = w,
                          !.running = 0, !.pending = 0]
  BY DEF Fail, None
<1>3. 0 \in 0 .. 2
  OBVIOUS
<1> HIDE DEF w
<1>4. Fail(d) \in Drivers
  BY <1>1, <1>2, <1>3 DEF Drivers
<1>5. Fail(d).waiting = FALSE /\ Fail(d).exact = d.exact /\ Fail(d).gap = d.gap
  BY <1>2 DEF Drivers
<1> QED BY <1>4, <1>5

LEMMA FetchFacts ==
  ASSUME NEW d \in Drivers, NEW asked \in BOOLEAN, ~d.waiting
  PROVE  LET f == Fetch(d, asked)
         IN  f \in Drivers /\ ~f.waiting /\ f.exact = d.exact /\ f.gap = d.gap
<1> DEFINE w == Greatest(d.running, d.pending)
           e == [d EXCEPT !.running = w, !.pending = 0, !.inFlight = TRUE]
<1>1. w \in 0 .. 2
  BY DEF Drivers, Greatest
<1> HIDE DEF w
<1>2. e \in Drivers /\ ~e.waiting /\ e.exact = d.exact /\ e.gap = d.gap
  <2>1. 0 \in 0 .. 2
    OBVIOUS
  <2>2. e \in Drivers
    BY <1>1, <2>1 DEF Drivers
  <2>3. e.waiting = d.waiting /\ e.exact = d.exact /\ e.gap = d.gap
    BY DEF Drivers
  <2> QED BY <2>2, <2>3
<1>3. Fetch(d, asked) = IF asked THEN e ELSE Fail(e)
  BY DEF Fetch, None, w
<1> HIDE DEF e
<1> QED BY <1>2, <1>3, FailFacts

\* finished(): the snapshot is marked exact only if the replay left nothing out.
LEMMA ReplayDoneFacts ==
  ASSUME NEW d \in Drivers, d.exact => ~d.gap, NEW s, s.fin = "complete" => Owed(s) = {},
         d.waiting => s.active \/ s.due \/ s.fin # "no", NEW asked \in BOOLEAN
  PROVE  LET e == ReplayDone(d, s, asked)
         IN  /\ e \in Drivers /\ (e.exact => ~e.gap)
             /\ e.waiting => s.active \/ s.due
<1>1. CASE s.fin = "no" \/ ~d.waiting
  BY <1>1 DEF ReplayDone
<1>2. CASE ~(s.fin = "no" \/ ~d.waiting)
  <2> DEFINE exact == (s.fin = "complete")
             gap == (Owed(s) # {})
             c == [d EXCEPT !.waiting = FALSE, !.exact = exact, !.gap = gap]
  <2>1. ReplayDone(d, s, asked) = Fetch(c, asked)
    BY <1>2 DEF ReplayDone
  <2>2. exact \in BOOLEAN /\ gap \in BOOLEAN /\ (exact => ~gap)
    OBVIOUS
  <2> HIDE DEF exact, gap
  <2>3. c \in Drivers
    BY <2>2 DEF Drivers
  <2>4. c.waiting = FALSE /\ c.exact = exact /\ c.gap = gap
    BY DEF Drivers
  <2> HIDE DEF c
  <2>5. LET f == Fetch(c, asked) IN f \in Drivers /\ ~f.waiting /\ f.exact = c.exact /\ f.gap = c.gap
    BY <2>3, <2>4, FetchFacts
  <2> QED BY <2>1, <2>2, <2>4, <2>5
<1> QED BY <1>1, <1>2

-----------------------------------------------------------------------------
(***************************************************************************)
(* The steps.                                                              *)
(***************************************************************************)

\* What a handler may leave of the scheduler.
Sane(s) ==
  /\ Sound(s)
  /\ s.active => s.awaiting /\ Running(s)
  /\ s.fin = "complete" => Owed(s) = {}

LEMMA SaneNext ==
  ASSUME UNCHANGED venueVars, NEW s, Sound(s), s.active => s.awaiting /\ Running(s), sch' = s
  PROVE  Sound(sch)' /\ (sch.active => sch.awaiting /\ Running(sch))'
<1>1. lim' = lim /\ time' = time /\ indexed' = indexed /\ now' = now
  BY DEF venueVars
<1>2. Sound(sch)'
  BY <1>1 DEF Sound, Accounted, Covered, Upto, Rows
<1>3. (sch.active => sch.awaiting /\ Running(sch))'
  BY <1>1 DEF Running, Begun, ReadTo, Covered, Upto, Rows, Window, InWindow
<1> QED BY <1>2, <1>3

LEMMA OutcomeInv ==
  ASSUME VenueSound, NetInv, UNCHANGED venueVars, NEW s, Sane(s),
         NEW d \in Drivers, d.exact => ~d.gap, d.waiting => s.active \/ s.due \/ s.fin # "no",
         NEW msgs \in SUBSET net, s.active => sch.active \/ s.moved,
         NEW t, t.asked \in BOOLEAN, Outcome(s, d, msgs, t)
  PROVE  ReconcileInv'
<1> DEFINE ok == s.ok \/ ~s.active
           shown == IF s.active THEN s.shown ELSE {}
           u == [s EXCEPT !.ask = FALSE, !.moved = FALSE, !.fin = "no", !.ok = ok, !.shown = shown]
<1>1. VenueSound'
  BY DEF VenueSound, venueVars, Rows
<1>2. s \in Schedulers
  BY DEF Sane, Sound
<1>3. sch' = u
  BY DEF Outcome
<1>4. /\ u \in Schedulers /\ SameBooks(s, u) /\ (s.active => SameWindow(s, u)) /\ u.active = s.active
      /\ u.awaiting = s.awaiting /\ u.due = s.due
      /\ ~u.ask /\ ~u.moved /\ u.fin = "no"
  <2>1. ok \in BOOLEAN /\ shown \in SUBSET Nat /\ (s.active => shown = s.shown)
    BY <1>2 DEF Schedulers
  <2> HIDE DEF ok, shown
  <2>2. u \in Schedulers
    BY <1>2, <2>1 DEF Schedulers
  <2>3. SameBooks(s, u) /\ u.active = s.active /\ u.awaiting = s.awaiting /\ u.due = s.due
    BY <1>2 DEF Schedulers, SameBooks
  <2>4. u.ask = FALSE /\ u.moved = FALSE /\ u.fin = "no"
    BY <1>2 DEF Schedulers
  <2>5. s.active => SameWindow(s, u)
    BY <1>2, <2>1 DEF Schedulers, SameWindow
  <2> QED BY <2>2, <2>3, <2>4, <2>5
<1> HIDE DEF u
<1>5. Sound(u) /\ (u.active => u.awaiting /\ Running(u))
  BY <1>4, SoundSame, RunningSame DEF Sane
<1>6. SchedInv'
  BY <1>3, <1>4, <1>5, SaneNext DEF SchedInv
<1>7. NetInv'
  <2> DEFINE Old(m) == [m EXCEPT !.current = @ /\ ~s.moved,
                                 !.ans = IF @ = <<>> /\ ~s.awaiting THEN <<Answer(m.q)>> ELSE @]
             new == [q |-> s.q, current |-> TRUE, ans |-> <<>>]
  <2>1. net' = {Old(m) : m \in msgs} \cup (IF s.ask THEN {new} ELSE {})
    BY DEF Outcome
  <2>2. ASSUME NEW m \in msgs
        PROVE  /\ Old(m) \in [q : {Old(m).q}, current : {Old(m).current}, ans : {Old(m).ans}]
               /\ Old(m).current /\ s.active => Old(m).ans = <<>>
    <3>1. m \in [q : {m.q}, current : {m.current}, ans : {m.ans}]
          /\ (m.current /\ sch.active => m.ans = <<>>)
      BY DEF NetInv
    <3> DEFINE c == m.current /\ ~s.moved
               a == IF m.ans = <<>> /\ ~s.awaiting THEN <<Answer(m.q)>> ELSE m.ans
    <3>2. Old(m) = [m EXCEPT !.current = c, !.ans = a]
      OBVIOUS
    <3>3. c /\ s.active => a = <<>>
      BY <3>1 DEF Sane
    <3> HIDE DEF c, a, Old
    <3>4. Old(m).q = m.q /\ Old(m).current = c /\ Old(m).ans = a
      BY <3>1, <3>2
    <3>5. Old(m) \in [q : {m.q}, current : {c}, ans : {a}]
      BY <3>1, <3>2
    <3> QED BY <3>3, <3>4, <3>5
  <2>3. new \in [q : {new.q}, current : {new.current}, ans : {new.ans}] /\ new.ans = <<>>
    OBVIOUS
  <2> HIDE DEF Old, new
  <2>4. sch'.active = s.active
    BY <1>3, <1>4
  <2> QED BY <2>1, <2>2, <2>3, <2>4 DEF NetInv
<1>8. DriverInv'
  <2>1. drv' = ReplayDone(d, s, t.asked)
    BY DEF Outcome
  <2>2. LET e == ReplayDone(d, s, t.asked)
        IN  e \in Drivers /\ (e.exact => ~e.gap) /\ (e.waiting => s.active \/ s.due)
    BY ReplayDoneFacts DEF Sane
  <2> QED BY <1>3, <1>4, <2>1, <2>2 DEF DriverInv
<1> QED BY <1>1, <1>6, <1>7, <1>8 DEF ReconcileInv

LEMMA SchedulerSane ==
  ASSUME SchedInv
  PROVE  Sane(sch) /\ sch.fin = "no"
  BY DEF SchedInv, Sane

LEMMA TriesFacts ==
  ASSUME NEW what \in SUBSET {"ready", "sent", "asked"}, NEW t \in Tries(what)
  PROVE  t.ready \in BOOLEAN /\ t.sent \in BOOLEAN /\ t.asked \in BOOLEAN
<1> DEFINE Trials == [ready : BOOLEAN, sent : BOOLEAN, asked : BOOLEAN]
<1>1. AllWell \in Trials
  BY DEF AllWell
<1>2. ASSUME NEW w \in what PROVE [AllWell EXCEPT ![w] = FALSE] \in Trials
  <2>1. CASE w = "ready"
    BY <1>1, <2>1
  <2>2. CASE w = "sent"
    BY <1>1, <2>2
  <2>3. CASE w = "asked"
    BY <1>1, <2>3
  <2> QED BY <2>1, <2>2, <2>3
<1>3. t \in Trials
  BY <1>1, <1>2 DEF Tries
<1> QED BY <1>3

\* run(): a replay runs, or one was begun, or nothing changed.
LEMMA RunSane ==
  ASSUME VenueSound, NEW s, Sane(s), s.fin = "no", NEW t, t.ready \in BOOLEAN, t.sent \in BOOLEAN
  PROVE  /\ Sane(Run(s, t)) /\ (Run(s, t).active => s.active \/ Run(s, t).moved)
         /\ s.active \/ s.due \/ t.ready
              => Run(s, t).active \/ Run(s, t).due \/ Run(s, t).fin # "no"
<1>1. CASE s.active \/ ~t.ready
  BY <1>1 DEF Run
<1>2. CASE ~(s.active \/ ~t.ready)
  <2>1. Run(s, t) = Start(s, t.sent)
    BY <1>2 DEF Run
  <2>2. Left(Start(s, t.sent), TRUE)
    BY StartLeft DEF Sane
  <2> QED BY <2>1, <2>2 DEF Left, Sane
<1> QED BY <1>1, <1>2

LEMMA StartDriverInv ==
  ASSUME ReconcileInv, UNCHANGED venueVars, NEW d \in Drivers, d.exact => ~d.gap,
         NEW t, t.ready \in BOOLEAN, t.sent \in BOOLEAN, t.asked \in BOOLEAN, StartDriver(d, t)
  PROVE  ReconcileInv'
<1> DEFINE e == [d EXCEPT !.running = d.pending, !.pending = None, !.retry = FALSE,
                          !.retryWant = None, !.waiting = TRUE]
           c == [e EXCEPT !.waiting = FALSE, !.exact = FALSE, !.gap = FALSE]
<1>1. 0 \in 0 .. 2
  OBVIOUS
<1>2. e \in Drivers
  BY <1>1 DEF Drivers, None
<1>3. e.exact = d.exact /\ e.gap = d.gap
  BY DEF Drivers
<1>4. /\ sch.active \/ t.ready => Outcome(Run(sch, t), e, net, t)
      /\ ~(sch.active \/ t.ready) => Outcome(sch, Fetch(c, t.asked), net, t)
  BY DEF StartDriver
<1> HIDE DEF e
<1>5. Sane(sch) /\ sch.fin = "no" /\ VenueSound /\ NetInv
  BY SchedulerSane DEF ReconcileInv
<1>6. CASE sch.active \/ t.ready
  <2>1. /\ Sane(Run(sch, t)) /\ (Run(sch, t).active => sch.active \/ Run(sch, t).moved)
        /\ Run(sch, t).active \/ Run(sch, t).due \/ Run(sch, t).fin # "no"
    BY <1>5, <1>6, RunSane
  <2> QED BY <1>2, <1>3, <1>4, <1>5, <1>6, <2>1, OutcomeInv
<1>7. CASE ~(sch.active \/ t.ready)
  <2>1. c \in Drivers
    BY <1>2 DEF Drivers
  <2>2. c.waiting = FALSE /\ c.exact = FALSE /\ c.gap = FALSE
    BY <1>2 DEF Drivers
  <2> HIDE DEF c
  <2>3. LET f == Fetch(c, t.asked)
        IN  f \in Drivers /\ ~f.waiting /\ f.exact = c.exact /\ f.gap = c.gap
    BY <2>1, <2>2, FetchFacts
  <2> QED BY <1>4, <1>5, <1>7, <2>2, <2>3, OutcomeInv
<1> QED BY <1>6, <1>7

LEMMA WantInv ==
  ASSUME ReconcileInv, UNCHANGED venueVars, NEW d \in Drivers, d.exact => ~d.gap,
         d.waiting => sch.active \/ sch.due, NEW w \in 0 .. 2,
         NEW t, t.ready \in BOOLEAN, t.sent \in BOOLEAN, t.asked \in BOOLEAN, Want(d, w, t)
  PROVE  ReconcileInv'
<1> DEFINE p == Greatest(d.pending, w)
           e == [d EXCEPT !.pending = p]
<1>1. p \in 0 .. 2
  BY DEF Drivers, Greatest
<1>2. IF Busy(d) THEN Outcome(sch, e, net, t) ELSE StartDriver(e, t)
  BY DEF Want
<1> HIDE DEF p
<1>3. e \in Drivers
  BY <1>1 DEF Drivers
<1>4. e.exact = d.exact /\ e.gap = d.gap /\ e.waiting = d.waiting
  BY DEF Drivers
<1> HIDE DEF e
<1>5. Sane(sch) /\ sch.fin = "no" /\ VenueSound /\ NetInv
  BY SchedulerSane DEF ReconcileInv
<1>6. CASE Busy(d)
  BY <1>2, <1>3, <1>4, <1>5, <1>6, OutcomeInv
<1>7. CASE ~Busy(d)
  BY <1>2, <1>3, <1>4, <1>7, StartDriverInv
<1> QED BY <1>6, <1>7

\* The requests, the driver's timer and the snapshot's answers.
LEMMA DriverSteps ==
  ASSUME ReconcileInv, Request \/ RetryTimer \/ Fetched \/ FetchFailed
  PROVE  ReconcileInv'
<1>1. /\ drv \in Drivers /\ (drv.exact => ~drv.gap) /\ (drv.waiting => sch.active \/ sch.due)
      /\ Sane(sch) /\ sch.fin = "no" /\ VenueSound /\ NetInv
  BY SchedulerSane DEF ReconcileInv, DriverInv
<1>2. 0 \in 0 .. 2 /\ 1 \in 0 .. 2 /\ 2 \in 0 .. 2
  OBVIOUS
<1>3. Starting \in SUBSET {"ready", "sent", "asked"} /\ {} \in SUBSET {"ready", "sent", "asked"}
  BY DEF Starting
<1>4. CASE Request
  <2> DEFINE d == [drv EXCEPT !.owed = TRUE]
             w == IF events = 0 THEN Sweep ELSE Full
  <2>1. PICK t \in Tries(IF Busy(drv) THEN {} ELSE Starting) : Want(d, w, t) /\ UNCHANGED venueVars
    BY <1>4 DEF Request
  <2>2. t.ready \in BOOLEAN /\ t.sent \in BOOLEAN /\ t.asked \in BOOLEAN
    BY <1>3, TriesFacts
  <2>3. d \in Drivers
    BY <1>1 DEF Drivers
  <2>4. d.exact = drv.exact /\ d.gap = drv.gap /\ d.waiting = drv.waiting
    BY <1>1 DEF Drivers
  <2>5. w \in 0 .. 2
    BY <1>2 DEF Sweep, Full
  <2> HIDE DEF d, w
  <2> QED BY <1>1, <2>1, <2>2, <2>3, <2>4, <2>5, WantInv
<1>5. CASE RetryTimer
  <2> DEFINE d == [drv EXCEPT !.retry = FALSE, !.retryWant = None]
             w == IF drv.retryWant = None THEN Full ELSE drv.retryWant
  <2>1. PICK t \in Tries(Starting) : Want(d, w, t) /\ UNCHANGED venueVars
    BY <1>5 DEF RetryTimer
  <2>2. t.ready \in BOOLEAN /\ t.sent \in BOOLEAN /\ t.asked \in BOOLEAN
    BY <1>3, TriesFacts
  <2>3. d \in Drivers
    BY <1>1, <1>2 DEF Drivers, None
  <2>4. d.exact = drv.exact /\ d.gap = drv.gap /\ d.waiting = drv.waiting
    BY <1>1 DEF Drivers
  <2>5. w \in 0 .. 2
    BY <1>1, <1>2 DEF Full, Drivers
  <2> HIDE DEF d, w
  <2> QED BY <1>1, <2>1, <2>2, <2>3, <2>4, <2>5, WantInv
<1>6. CASE Fetched
  <2> DEFINE owed == drv.pending # None
             d == [drv EXCEPT !.inFlight = FALSE, !.exact = FALSE, !.running = None, !.gap = FALSE,
                              !.owed = owed]
  <2>1. PICK t \in Tries(IF drv.pending = None THEN {} ELSE Starting) :
          /\ IF d.pending # None THEN StartDriver(d, t) ELSE Outcome(sch, d, net, t)
          /\ UNCHANGED venueVars
    BY <1>6 DEF Fetched
  <2>2. t.ready \in BOOLEAN /\ t.sent \in BOOLEAN /\ t.asked \in BOOLEAN
    BY <1>3, TriesFacts
  <2>3. owed \in BOOLEAN
    OBVIOUS
  <2> HIDE DEF owed
  <2>4. d \in Drivers
    BY <1>1, <1>2, <2>3 DEF Drivers, None
  <2>5. d.exact = FALSE /\ d.waiting = drv.waiting
    BY <1>1 DEF Drivers
  <2> HIDE DEF d
  <2>6. CASE d.pending # None
    BY <2>1, <2>2, <2>4, <2>5, <2>6, StartDriverInv
  <2>7. CASE d.pending = None
    BY <1>1, <2>1, <2>2, <2>4, <2>5, <2>7, OutcomeInv
  <2> QED BY <2>6, <2>7
<1>7. CASE FetchFailed
  <2>1. drv' = Fail(drv) /\ UNCHANGED <<venueVars, sch, net>>
    BY <1>7 DEF FetchFailed
  <2>2. DriverInv'
    BY <1>1, <2>1, FailFacts DEF DriverInv
  <2>3. VenueSound' /\ NetInv'
    BY <1>1, <2>1 DEF VenueSound, venueVars, Rows, NetInv
  <2>4. SchedInv'
    <3>1. Sound(sch)' /\ (sch.active => sch.awaiting /\ Running(sch))'
      BY <1>1, <2>1, SaneNext DEF Sane
    <3> QED BY <2>1, <3>1 DEF SchedInv, ReconcileInv
  <2> QED BY <2>2, <2>3, <2>4 DEF ReconcileInv
<1> QED BY <1>4, <1>5, <1>6, <1>7

\* The scheduler's timer, its answers, its timeouts and the lost connection.
LEMMA ReplaySteps ==
  ASSUME ReconcileInv, ReplayTimer \/ OnPage \/ OnFailed \/ Expire \/ TransportLost
  PROVE  ReconcileInv'
<1>1. /\ drv \in Drivers /\ (drv.exact => ~drv.gap) /\ (drv.waiting => sch.active \/ sch.due)
      /\ Sane(sch) /\ sch.fin = "no" /\ ~sch.moved /\ VenueSound /\ NetInv /\ sch \in Schedulers
  BY SchedulerSane DEF ReconcileInv, DriverInv, SchedInv, Sound
<1>2. ASSUME NEW s, Sane(s), s.active => sch.active \/ s.moved, s.active \/ s.due \/ s.fin # "no",
             UNCHANGED venueVars, NEW msgs \in SUBSET net, NEW t, t.asked \in BOOLEAN,
             Outcome(s, drv, msgs, t)
      PROVE  ReconcileInv'
  BY <1>1, <1>2, OutcomeInv
<1>3. CASE ReplayTimer
  <2> DEFINE s == [sch EXCEPT !.due = FALSE]
  <2>1. PICK t \in Tries({"sent"}) : Outcome(Start(s, t.sent), drv, net, t) /\ UNCHANGED venueVars
    BY <1>3 DEF ReplayTimer
  <2>2. t.sent \in BOOLEAN /\ t.asked \in BOOLEAN
    BY TriesFacts
  <2>3. s \in Schedulers
    BY <1>1 DEF Schedulers
  <2>4. SameBooks(sch, s) /\ s.fin = "no"
    BY <1>1 DEF Schedulers, SameBooks
  <2> HIDE DEF s
  <2>5. Sound(s)
    BY <1>1, <2>3, <2>4, SoundSame DEF Sane
  <2>6. Left(Start(s, t.sent), TRUE)
    BY <1>1, <2>2, <2>4, <2>5, StartLeft
  <2>7. LET u == Start(s, t.sent)
        IN  Sane(u) /\ (u.active => u.moved) /\ (u.active \/ u.due \/ u.fin # "no")
    BY <2>6 DEF Left, Sane
  <2> QED BY <1>2, <2>1, <2>2, <2>7
<1>4. CASE OnPage
  <2>1. PICK m \in net, t \in Tries(IF drv.waiting THEN {"sent", "asked"} ELSE {"sent"}) :
          /\ IF Expects(sch, m.q, m.current)
               THEN Outcome(Page(sch, IF m.ans = <<>> THEN Answer(m.q) ELSE m.ans[1], t.sent), drv,
                            net \ {m}, t)
               ELSE Outcome(sch, drv, net \ {m}, t)
          /\ UNCHANGED venueVars
    BY <1>4 DEF OnPage
  <2>2. t.sent \in BOOLEAN /\ t.asked \in BOOLEAN
    BY TriesFacts
  <2>3. net \ {m} \in SUBSET net
    OBVIOUS
  <2>4. CASE Expects(sch, m.q, m.current)
    <3>1. sch.active /\ m.current /\ sch.q = m.q /\ m.ans = <<>>
      BY <1>1, <2>4 DEF Expects, NetInv
    <3>2. Left(Page(sch, Answer(sch.q), t.sent), sch.moved)
      BY <1>1, <2>2, <3>1, PageLeft DEF Sane
    <3>3. Outcome(Page(sch, Answer(sch.q), t.sent), drv, net \ {m}, t)
      BY <2>1, <2>4, <3>1
    <3>4. LET u == Page(sch, Answer(sch.q), t.sent)
          IN  Sane(u) /\ (u.active \/ u.due \/ u.fin # "no")
      BY <3>2 DEF Left, Sane
    <3> QED BY <1>2, <2>1, <2>2, <2>3, <3>1, <3>3, <3>4
  <2>5. CASE ~Expects(sch, m.q, m.current)
    BY <1>1, <2>1, <2>2, <2>3, <2>5, OutcomeInv
  <2> QED BY <2>4, <2>5
<1>5. ASSUME NEW what \in SUBSET {"ready", "sent", "asked"}, NEW t \in Tries(what), UNCHANGED venueVars,
             NEW msgs \in SUBSET net, Outcome(StreamDone(sch, FALSE), drv, msgs, t), sch.active
      PROVE  ReconcileInv'
  <2>1. t.asked \in BOOLEAN
    BY TriesFacts
  <2> DEFINE u == StreamDone(sch, FALSE)
  <2>2. Left(u, sch.moved)
    BY <1>1, FailedLeft DEF Sane
  <2>3. Outcome(u, drv, msgs, t)
    BY <1>5
  <2> HIDE DEF u
  <2>4. Sane(u) /\ (u.active \/ u.due \/ u.fin # "no")
    BY <2>2 DEF Left, Sane
  <2> QED BY <1>2, <1>5, <2>1, <2>3, <2>4
<1>6. CASE OnFailed
  <2>1. PICK m \in net, t \in Tries(IF drv.waiting THEN {"asked"} ELSE {}) :
          /\ Expects(sch, m.q, m.current) /\ Outcome(StreamDone(sch, FALSE), drv, net \ {m}, t)
          /\ UNCHANGED venueVars
    BY <1>6 DEF OnFailed
  <2>2. sch.active /\ net \ {m} \in SUBSET net
    BY <2>1 DEF Expects
  <2> QED BY <1>5, <2>1, <2>2
<1>7. CASE Expire
  BY <1>5, <1>7 DEF Expire
<1>8. CASE TransportLost
  <2> DEFINE d == IF Busy(drv) THEN Fail(drv) ELSE drv
  <2>1. Outcome(Abort(sch), d, net, AllWell) /\ UNCHANGED venueVars
    BY <1>8 DEF TransportLost
  <2>2. d \in Drivers /\ (d.exact => ~d.gap) /\ ~d.waiting
    BY <1>1, FailFacts DEF Busy
  <2>3. Sane(Abort(sch)) /\ (Abort(sch).active => sch.active)
    <3>1. CASE sch.active
      BY <1>1, <3>1, AbortSound DEF Sane
    <3>2. CASE ~sch.active
      BY <1>1, <3>2 DEF Abort
    <3> QED BY <3>1, <3>2
  <2>4. AllWell.asked \in BOOLEAN
    BY DEF AllWell
  <2> HIDE DEF d
  <2> QED BY <1>1, <2>1, <2>2, <2>3, <2>4, OutcomeInv
<1> QED BY <1>3, <1>4, <1>6, <1>7, <1>8

\* Restarts: the fill auditor's and the gateway's.
LEMMA RestartSteps ==
  ASSUME ReconcileInv, Audit \/ Attach
  PROVE  ReconcileInv'
<1>1. /\ drv \in Drivers /\ (drv.exact => ~drv.gap) /\ (drv.waiting => sch.active \/ sch.due)
      /\ Sane(sch) /\ sch.fin = "no" /\ VenueSound /\ NetInv /\ sch \in Schedulers
      /\ now \in Nat
  BY SchedulerSane DEF ReconcileInv, DriverInv, SchedInv, Sound, VenueSound
<1>2. Starting \in SUBSET {"ready", "sent", "asked"}
  BY DEF Starting
<1>3. ASSUME NEW s, Sane(s), s.active = sch.active, s.due = sch.due, s.fin = "no",
             UNCHANGED venueVars, NEW t \in Tries(Starting), Outcome(Run(s, t), drv, net, t)
      PROVE  ReconcileInv'
  <2>1. t.ready \in BOOLEAN /\ t.sent \in BOOLEAN /\ t.asked \in BOOLEAN
    BY <1>2, TriesFacts
  <2>2. /\ Sane(Run(s, t)) /\ (Run(s, t).active => sch.active \/ Run(s, t).moved)
        /\ sch.active \/ sch.due => Run(s, t).active \/ Run(s, t).due \/ Run(s, t).fin # "no"
    BY <1>1, <1>3, <2>1, RunSane
  <2> QED BY <1>1, <1>3, <2>1, <2>2, OutcomeInv
<1>4. ASSUME NEW from \in 1 .. (now - 1), NEW K \in SUBSET Rows, sch.active => sch.known \subseteq K
      PROVE  LET s == RestartFrom([sch EXCEPT !.known = K], from)
             IN  Sane(s) /\ s.active = sch.active /\ s.due = sch.due /\ s.fin = "no"
  <2> DEFINE s == RestartFrom([sch EXCEPT !.known = K], from)
  <2>1. from \in Nat \ {0} /\ from <= now
    BY <1>1
  <2>2. /\ Sound(s) /\ (s.active => s.awaiting /\ Running(s))
        /\ s.active = sch.active /\ s.due = sch.due /\ s.fin = sch.fin
    BY <1>1, <1>4, <2>1, RestartSound DEF Sane
  <2> HIDE DEF s
  <2>3. Sane(s) /\ s.active = sch.active /\ s.due = sch.due /\ s.fin = "no"
    BY <1>1, <2>2 DEF Sane
  <2> QED BY <2>3 DEF s
<1>5. CASE Audit
  <2>1. PICK from \in 1 .. (now - 1), t \in Tries(Starting) :
          /\ Outcome(Run(IF sch.active THEN sch ELSE RestartFrom(sch, from), t), drv, net, t)
          /\ UNCHANGED venueVars
    BY <1>5 DEF Audit
  <2>2. CASE sch.active
    BY <1>1, <1>3, <2>1, <2>2
  <2>3. CASE ~sch.active
    <3>1. sch = [sch EXCEPT !.known = sch.known] /\ sch.known \in SUBSET Rows
      BY <1>1 DEF Schedulers, Sane, Sound
    <3>2. LET s == RestartFrom(sch, from)
          IN  Sane(s) /\ s.active = sch.active /\ s.due = sch.due /\ s.fin = "no"
      BY <1>4, <2>3, <3>1
    <3> QED BY <1>3, <2>1, <2>3, <3>2
  <2> QED BY <2>2, <2>3
<1>6. CASE Attach
  <2> DEFINE Booked(from) == {r \in sch.handed : time[r] >= from}
             K(from) == IF sch.active THEN sch.known \cup Booked(from) ELSE Booked(from)
  <2>1. PICK from \in 1 .. (now - 1), t \in Tries(Starting) :
          /\ Outcome(Run(Resume(sch, from, Booked(from)), t), drv, net, t)
          /\ UNCHANGED venueVars
    BY <1>6 DEF Attach
  <2>2. K(from) \in SUBSET Rows /\ (sch.active => sch.known \subseteq K(from))
    BY <1>1 DEF Sane, Sound
  <2>3. Resume(sch, from, Booked(from)) = RestartFrom([sch EXCEPT !.known = K(from)], from)
    BY DEF Resume
  <2> HIDE DEF K, Booked
  <2>4. LET s == Resume(sch, from, Booked(from))
        IN  Sane(s) /\ s.active = sch.active /\ s.due = sch.due /\ s.fin = "no"
    BY <1>4, <2>2, <2>3
  <2> QED BY <1>3, <2>1, <2>4
<1> QED BY <1>5, <1>6

\* The venue: a row executed now lies at or above the watermark, and one not indexed yet is within
\* the settle margin.
LEMMA VenueSteps ==
  ASSUME ReconcileInv, Execute \/ Index \/ Tick
  PROVE  ReconcileInv'
<1>1. /\ VenueSound /\ Sound(sch) /\ sch \in Schedulers /\ now \in Nat \ {0} /\ Settle \in Nat
      /\ (sch.active => sch.awaiting /\ Running(sch))
  BY LimFacts DEF ReconcileInv, SchedInv, Sound, VenueSound
<1>2. lim' = lim /\ UNCHANGED <<sch, net, drv>>
  BY DEF Execute, Index, Tick
<1>3. NetInv' /\ DriverInv'
  BY <1>2 DEF ReconcileInv, NetInv, DriverInv
<1>4. CASE Execute
  <2> DEFINE n == Len(time) + 1
  <2>1. time' = Append(time, now) /\ indexed' = indexed /\ now' = now
    BY <1>4 DEF Execute
  <2>2. time \in Seq(Nat \ {0}) /\ Len(time) \in Nat /\ Rows = 1 .. Len(time)
    BY <1>1, RowFacts DEF VenueSound
  <2>3. /\ time' \in Seq(Nat \ {0}) /\ Rows' = Rows \cup {n} /\ time'[n] = now
        /\ \A r \in Rows : time'[r] = time[r] /\ r < n /\ time[r] \in Nat \ {0} /\ time[r] <= now
    <3>1. time' \in Seq(Nat \ {0}) /\ Len(time') = n /\ time'[n] = now
      BY <1>1, <2>1, <2>2
    <3>2. Rows' = 1 .. n
      BY <3>1 DEF Rows
    <3>3. \A r \in Rows : time'[r] = time[r] /\ r < n
      BY <1>1, <2>1, <2>2
    <3> QED BY <1>1, <2>2, <3>1, <3>2, <3>3, RowFacts
  <2> HIDE DEF n
  <2>4. VenueSound'
    <3>1. \A r, x \in Rows' : r < x => time'[r] <= time'[x]
      <4>1. n \in Nat /\ \A r \in Rows : r \in Nat
        BY <2>2 DEF n
      <4>2. SUFFICES ASSUME NEW r \in Rows', NEW x \in Rows', r < x PROVE time'[r] <= time'[x]
        OBVIOUS
      <4>3. r \in Rows
        BY <2>3, <4>1, <4>2
      <4>4. CASE x \in Rows
        BY <1>1, <2>3, <4>2, <4>3, <4>4 DEF VenueSound
      <4>5. CASE x = n
        BY <2>3, <4>3, <4>5
      <4> QED BY <2>3, <4>4, <4>5
    <3>2. \A r \in Rows' : time'[r] <= now
      BY <1>1, <2>3
    <3>3. \A r \in Rows' \ indexed : time'[r] + Settle >= now
      BY <1>1, <2>3 DEF VenueSound
    <3>4. indexed \subseteq Rows' /\ lim \in Limits
      BY <1>1, <2>3 DEF VenueSound
    <3> QED BY <1>1, <1>2, <2>1, <2>3, <3>1, <3>2, <3>3, <3>4 DEF VenueSound
  <2>5. ASSUME NEW R \in SUBSET Rows, NEW x, Covered(sch, R, x)
        PROVE  \A r \in R : sch.floor <= time'[r] /\ time'[r] < Upto(sch, x) => r \in sch.handed \cup sch.known
    BY <2>3, <2>5 DEF Covered
  <2>6. Sound(sch)'
    <3>1. Accounted(sch)'
      BY <1>1, <1>2, <2>3 DEF Accounted, Sound
    <3>2. ASSUME NEW r \in Rows', sch.floor <= time'[r], time'[r] < Upto(sch, sch.since)
          PROVE  r \in sch.handed \cup sch.known
      <4>1. CASE r \in Rows
        BY <1>1, <2>5, <3>2, <4>1 DEF Sound
      <4>2. CASE r = n
        <5>1. sch.since \in Nat /\ sch.again \in Nat /\ sch.since <= now
          BY <1>1 DEF Sound, Schedulers
        <5>2. now < sch.since
          BY <1>1, <2>3, <3>2, <4>2, <5>1 DEF Upto, Least
        <5> QED BY <1>1, <5>1, <5>2
      <4> QED BY <2>3, <4>1, <4>2
    <3>3. Covered(sch, Rows, sch.since)'
      BY <1>2, <3>2 DEF Covered, Upto
    <3> QED BY <1>1, <1>2, <2>1, <2>3, <3>1, <3>3 DEF Sound, Schedulers
  <2>7. ASSUME sch.active PROVE Running(sch)'
    <3>1. Begun(sch) /\ ReadTo(sch, sch.q.start) /\ Window(sch) /\ sch.shown \subseteq Rows
      BY <1>1, <2>7 DEF Running, Begun, VenueSound
    <3>2. Begun(sch)'
      <4>1. ASSUME NEW r \in Rows', time'[r] + Settle < sch.at PROVE r \in sch.shown
        <5>1. sch.at \in Nat /\ sch.at <= now
          BY <1>1, <3>1 DEF Schedulers, Begun
        <5>2. r # n
          BY <1>1, <2>3, <4>1, <5>1
        <5> QED BY <2>3, <3>1, <4>1, <5>2 DEF Begun
      <4> QED BY <1>2, <2>1, <3>1, <4>1 DEF Begun
    <3>3. ReadTo(sch, sch.q.start)'
      BY <1>2, <2>5, <3>1 DEF ReadTo, Covered, Upto
    <3>4. Window(sch)'
      <4>1. sch.rows \subseteq Rows /\ \A r \in sch.rows \cup sch.shown : time'[r] = time[r]
        BY <2>3, <3>1 DEF Window
      <4>2. InWindow(sch)' = InWindow(sch)
        BY <1>2, <4>1 DEF InWindow
      <4> QED BY <1>2, <2>3, <3>1, <4>1, <4>2 DEF Window
    <3> QED BY <3>2, <3>3, <3>4 DEF Running
  <2> QED BY <1>1, <1>2, <1>3, <2>4, <2>6, <2>7 DEF ReconcileInv, SchedInv
<1>5. CASE Index \/ Tick
  <2>1. time' = time /\ now' \in Nat \ {0} /\ now <= now' /\ indexed \subseteq indexed'
    BY <1>1, <1>5 DEF Index, Tick
  <2>2. VenueSound'
    <3>1. CASE Index
      BY <1>1, <1>2, <3>1 DEF VenueSound, Index, Rows
    <3>2. CASE Tick
      <4>1. now' = now + 1 /\ indexed' = indexed /\ \A r \in Rows \ indexed : time[r] + Settle > now
        BY <3>2 DEF Tick
      <4>2. \A r \in Rows : time[r] \in Nat /\ time[r] <= now
        BY <1>1, RowFacts
      <4>3. \A r \in Rows \ indexed : time[r] + Settle >= now + 1
        BY <1>1, <4>1, <4>2
      <4>4. \A r \in Rows : time[r] <= now + 1
        BY <1>1, <4>2
      <4>5. Rows' = Rows
        BY <2>1 DEF Rows
      <4> QED BY <1>1, <1>2, <2>1, <4>1, <4>3, <4>4, <4>5 DEF VenueSound
    <3> QED BY <1>5, <3>1, <3>2
  <2>3. Rows' = Rows
    BY <2>1 DEF Rows
  <2>4. Sound(sch)'
    <3>1. sch.since \in Nat /\ sch.floor \in Nat /\ sch.since <= now /\ sch.floor <= now
      BY <1>1 DEF Sound, Schedulers
    <3>2. sch.since <= now' /\ sch.floor <= now'
      BY <1>1, <2>1, <3>1
    <3> QED BY <1>1, <1>2, <2>1, <2>3, <3>2 DEF Sound, Schedulers, Accounted, Covered, Upto
  <2>5. ASSUME sch.active PROVE Running(sch)'
    <3>1. Running(sch)
      BY <1>1, <2>5
    <3>2. sch.at <= now'
      <4>1. sch.at \in Nat /\ sch.at <= now
        BY <1>1, <3>1 DEF Running, Begun, Schedulers
      <4> QED BY <1>1, <2>1, <4>1
    <3>3. Begun(sch)'
      BY <1>2, <2>1, <2>3, <3>1, <3>2 DEF Running, Begun
    <3>4. ReadTo(sch, sch.q.start)' /\ Window(sch)'
      BY <1>2, <2>1, <2>3, <3>1 DEF Running, ReadTo, Covered, Upto, Window, InWindow
    <3> QED BY <3>3, <3>4 DEF Running
  <2> QED BY <1>1, <1>2, <1>3, <2>2, <2>4, <2>5 DEF ReconcileInv, SchedInv
<1> QED BY <1>4, <1>5

LEMMA InitInv == Init => ReconcileInv
<1> SUFFICES ASSUME Init PROVE ReconcileInv
  OBVIOUS
<1> DEFINE q == Query(0, 0, 0)
<1>1. lim \in Limits /\ time = <<>> /\ indexed = {} /\ now = 1 /\ net = {} /\ drv = NewDriver
      /\ sch = NewScheduler(1)
  BY DEF Init
<1>2. Rows = {}
  BY <1>1 DEF Rows
<1>3. VenueSound
  <2>1. time \in Seq(Nat \ {0}) /\ now \in Nat \ {0}
    BY <1>1
  <2> QED BY <1>1, <1>2, <2>1 DEF VenueSound
<1>4. q \in [start : Nat, end : Nat, page : Nat] /\ {} \in SUBSET Nat /\ 1 \in Nat \ {0} /\ 0 \in Nat
  BY DEF Query
<1> HIDE DEF q
<1>5. sch \in Schedulers
  <2>1. sch = [since |-> 1, read |-> {}, known |-> {}, active |-> FALSE, ok |-> TRUE,
               at |-> 0, q |-> q, awaiting |-> FALSE, pages |-> 0, wpages |-> 0,
               rows |-> {}, again |-> 0, due |-> FALSE, retry |-> FALSE,
               ask |-> FALSE, moved |-> FALSE, fin |-> "no",
               handed |-> {}, forgot |-> {}, twice |-> FALSE, floor |-> 1, shown |-> {}]
    BY <1>1 DEF NewScheduler, q
  <2> QED BY <1>4, <2>1 DEF Schedulers
<1>6. /\ sch.since = 1 /\ sch.read = {} /\ sch.known = {} /\ sch.handed = {} /\ sch.floor = 1
      /\ sch.twice = FALSE /\ sch.active = FALSE /\ sch.ask = FALSE /\ sch.moved = FALSE
      /\ sch.fin = "no"
  BY <1>1 DEF NewScheduler
<1>7. SchedInv
  <2>1. 1 <= now
    BY <1>1
  <2> QED BY <1>2, <1>5, <1>6, <2>1 DEF SchedInv, Sound, Accounted, Covered
<1>8. NetInv
  BY <1>1 DEF NetInv
<1>9. DriverInv
  <2>1. 0 \in 0 .. 2
    OBVIOUS
  <2>2. drv \in Drivers
    BY <1>1, <2>1 DEF NewDriver, Drivers, None
  <2>3. drv.exact = FALSE /\ drv.waiting = FALSE
    BY <1>1 DEF NewDriver
  <2> QED BY <2>2, <2>3 DEF DriverInv
<1> QED BY <1>3, <1>7, <1>8, <1>9 DEF ReconcileInv

\* Every event of the venue, the scheduler and the driver keeps the invariant.
THEOREM ReconcileInvariant == Spec => []ReconcileInv
<1>1. ReconcileInv /\ [Next]_vars => ReconcileInv'
  <2>1. SUFFICES ASSUME ReconcileInv, [Next]_vars PROVE ReconcileInv'
    OBVIOUS
  <2>2. CASE Next
    BY <2>1, <2>2, DriverSteps, ReplaySteps, RestartSteps, VenueSteps DEF Next
  <2>3. CASE UNCHANGED vars
    <3>1. UNCHANGED <<lim, time, indexed, now, sch, net, drv>>
      BY <2>3 DEF vars
    <3>2. VenueSound' /\ NetInv' /\ DriverInv'
      BY <2>1, <3>1 DEF ReconcileInv, VenueSound, NetInv, DriverInv, Rows
    <3>3. Sound(sch)' /\ (sch.active => sch.awaiting /\ Running(sch))'
      BY <2>1, <3>1, SaneNext DEF ReconcileInv, SchedInv, venueVars
    <3> QED BY <2>1, <3>1, <3>2, <3>3 DEF ReconcileInv, SchedInv
  <2> QED BY <2>1, <2>2, <2>3
<1> QED BY <1>1, InitInv, PTL DEF Spec

-----------------------------------------------------------------------------
\* Every row from the last restart's start up to the watermark was handed out, or is one an earlier
\* session booked (replay_scheduler.cpp, commit() and begin_window()).
THEOREM ReconNothingBelowWatermark == Spec => []NothingBelowWatermark
<1>1. ReconcileInv => NothingBelowWatermark
  BY DEF ReconcileInv, SchedInv, Sound, Covered, Upto, NothingBelowWatermark
<1> QED BY <1>1, ReconcileInvariant, PTL

\* Between two restarts a row is handed out again only after the history clamp made the scheduler
\* forget it (emit_window(), begin_window()).
THEOREM ReconHandedOutOnce == Spec => []HandedOutOnce
<1>1. ReconcileInv => HandedOutOnce
  BY DEF ReconcileInv, SchedInv, Sound, HandedOutOnce
<1> QED BY <1>1, ReconcileInvariant, PTL

\* A snapshot marked exact follows a replay that left out no row it owed (replay_done()).
THEOREM ReconExactIsExact == Spec => []ExactIsExact
<1>1. ReconcileInv => ExactIsExact
  BY DEF ReconcileInv, DriverInv, ExactIsExact
<1> QED BY <1>1, ReconcileInvariant, PTL

\* The driver waits only for a replay that runs or is due (start() of the driver, finish()).
THEOREM ReconWaitsForAReplay == Spec => []WaitsForAReplay
<1>1. ReconcileInv => WaitsForAReplay
  BY DEF ReconcileInv, DriverInv, WaitsForAReplay
<1> QED BY <1>1, ReconcileInvariant, PTL
=============================================================================
