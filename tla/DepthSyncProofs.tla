-------------------------- MODULE DepthSyncProofs --------------------------
(***************************************************************************)
(* The engine's book is exact whenever the sync says so, and a repair is   *)
(* under way whenever it is not, for every chaining rule, every size of    *)
(* the buffer and of the diffs, and any number of faults.                  *)
(***************************************************************************)
EXTENDS DepthSync, Induction

-----------------------------------------------------------------------------
(***************************************************************************)
(* The inductive invariant.                                                *)
(***************************************************************************)

\* A diff covers its ids in order.
Diffs == {d \in Delta : d.U <= d.u}

Syncs == [state : {"Idle", "Buffering", "Synced"}, prev : 0 .. MaxUpd, first : BOOLEAN,
          buf : Seq(Diffs), want : BOOLEAN, pending : BOOLEAN, wait : BOOLEAN]

Books == [have : BOOLEAN, seq : 0 .. MaxUpd, gap : BOOLEAN]

Costs == [lost : Nat, down : Nat, resync : Nat, fail : Nat, full : Nat]

SyncSound(t) == t \in Syncs /\ Len(t.buf) <= MaxBuffered /\ (t.state = "Synced" => t.buf = <<>>)

DepthType ==
  /\ trait \in Traits /\ upd \in 0 .. MaxUpd
  /\ stream \in Seq(Diffs) /\ link \in {"down", "live", "stale"}
  /\ rest \in Seq(0 .. NoAnswer) /\ SyncSound(s)
  /\ recent \in BOOLEAN /\ early \in BOOLEAN /\ book \in Books /\ used \in Costs

\* A connection that is down has nothing to read, one that is up has been started; a sync never
\* started has asked for nothing, and a request that is pending is in flight.
DepthInv ==
  /\ DepthType
  /\ link = "down" => stream = <<>>
  /\ s.state = "Idle" => link = "down" /\ ~s.want /\ ~s.pending /\ rest = <<>>
  /\ s.pending => rest # <<>>
  /\ SyncedBookIsExact
  /\ RepairUnderWay

-----------------------------------------------------------------------------
(***************************************************************************)
(* What the messages that are delivered make of the book.                  *)
(***************************************************************************)

Messages == Diffs \cup {Snapshot(L) : L \in 0 .. MaxUpd} \cup {NotLive}

LEMMA Numbers ==
  /\ MaxUpd \in Nat /\ MaxBuffered \in Nat \ {0} /\ MaxBatch \in Nat \ {0}
  /\ NoAnswer = MaxUpd + 1
  BY DepthSyncAssumption DEF NoAnswer

LEMMA DiffFacts ==
  ASSUME NEW d \in Diffs
  PROVE  /\ d.type = "delta" /\ d.U \in Nat /\ d.u \in Nat /\ d.u \in 0 .. MaxUpd
         /\ 1 <= d.U /\ d.U <= d.u /\ d.u <= MaxUpd /\ d \in Messages
  BY Numbers DEF Diffs, Delta, Messages

LEMMA BookAfterFacts ==
  ASSUME NEW b \in Books, NEW m \in Messages
  PROVE  /\ BookAfter(b, m) \in Books
         /\ m \in Diffs => /\ BookAfter(b, m).have = b.have
                           /\ BookAfter(b, m).seq = m.u
                           /\ BookAfter(b, m).gap = (b.gap \/ ~b.have \/ m.U > b.seq + 1 \/ m.u < b.seq)
         /\ \A L \in 0 .. MaxUpd : m = Snapshot(L) =>
               BookAfter(b, m).have = TRUE /\ BookAfter(b, m).seq = L /\ BookAfter(b, m).gap = FALSE
<1>1. CASE m \in Diffs
  <2> DEFINE gap == b.gap \/ ~b.have \/ m.U > b.seq + 1 \/ m.u < b.seq
  <2>1. m.type = "delta" /\ m.u \in 0 .. MaxUpd
    BY <1>1, DiffFacts
  <2>2. BookAfter(b, m) = [b EXCEPT !.seq = m.u, !.gap = gap]
    BY <2>1 DEF BookAfter
  <2>3. gap \in BOOLEAN
    OBVIOUS
  <2> HIDE DEF gap
  <2>4. BookAfter(b, m) \in Books
    BY <2>1, <2>2, <2>3 DEF Books
  <2>5. BookAfter(b, m).have = b.have /\ BookAfter(b, m).seq = m.u /\ BookAfter(b, m).gap = gap
    BY <2>2 DEF Books
  <2>6. \A L \in 0 .. MaxUpd : m # Snapshot(L)
    BY <2>1 DEF Snapshot
  <2> QED BY <2>4, <2>5, <2>6 DEF gap
<1>2. CASE \E L \in 0 .. MaxUpd : m = Snapshot(L)
  <2>1. PICK L \in 0 .. MaxUpd : m = Snapshot(L)
    BY <1>2
  <2>2. m.type = "snapshot" /\ m.u = L
    BY <2>1 DEF Snapshot
  <2>3. BookAfter(b, m) = [have |-> TRUE, seq |-> L, gap |-> FALSE]
    BY <2>2 DEF BookAfter
  <2>4. m \notin Diffs
    BY <2>2, DiffFacts
  <2>5. \A K \in 0 .. MaxUpd : m = Snapshot(K) => K = L
    BY <2>2 DEF Snapshot
  <2>6. BookAfter(b, m) \in Books
    BY <2>3 DEF Books
  <2>7. BookAfter(b, m).have = TRUE /\ BookAfter(b, m).seq = L /\ BookAfter(b, m).gap = FALSE
    BY <2>3
  <2> QED BY <2>4, <2>5, <2>6, <2>7
<1>3. CASE m = NotLive
  <2>1. m.type = "notlive"
    BY <1>3 DEF NotLive
  <2>2. BookAfter(b, m) = [have |-> FALSE, seq |-> 0, gap |-> FALSE]
    BY <2>1 DEF BookAfter, NoBook
  <2>3. 0 \in 0 .. MaxUpd
    BY Numbers
  <2>4. m \notin Diffs
    BY <2>1, DiffFacts
  <2>5. \A L \in 0 .. MaxUpd : m # Snapshot(L)
    BY <2>1 DEF Snapshot
  <2>6. BookAfter(b, m) \in Books
    BY <2>2, <2>3 DEF Books
  <2> QED BY <2>4, <2>5, <2>6
<1> QED BY <1>1, <1>2, <1>3 DEF Messages

DeliverIter(b, out, lost) ==
  CHOOSE f : f = [t \in SUBSET DOMAIN [i \in DOMAIN out |-> i] |->
                    IF t = {} THEN b
                    ELSE IF [i \in DOMAIN out |-> i][Max(t)] \in lost THEN f[t \ {Max(t)}]
                         ELSE BookAfter(f[t \ {Max(t)}], out[[i \in DOMAIN out |-> i][Max(t)]])]

LEMMA DeliverIsIter ==
  ASSUME NEW b, NEW out, NEW lost
  PROVE  Delivered(b, out, lost) = DeliverIter(b, out, lost)[DOMAIN [i \in DOMAIN out |-> i]]
  BY Zenon DEF Delivered, FoldLeft, MapThenFoldSet, DeliverIter

\* g holds the books on the way.
Delivers(g, b, out, lost) ==
  /\ g[0] = b /\ g[Len(out)] = Delivered(b, out, lost)
  /\ \A i \in 1 .. Len(out) : g[i] = IF i \in lost THEN g[i - 1] ELSE BookAfter(g[i - 1], out[i])

LEMMA DeliverSteps ==
  ASSUME NEW b \in Books, NEW out \in Seq(Messages), NEW lost
  PROVE  \E g : Delivers(g, b, out, lost)
<1> DEFINE n == Len(out)
           Q == SUBSET (1 .. n)
           ch == [t \in Q |-> Max(t)]
           D == [x \in (1 .. n) \X Books |->
                   IF x[1] \in lost THEN x[2] ELSE BookAfter(x[2], out[x[1]])]
           f == DeliverIter(b, out, lost)
           Step(i, c) == IF i \in lost THEN c ELSE BookAfter(c, out[i])
<1>1. n \in Nat /\ DOMAIN out = 1 .. n /\ \A i \in 1 .. n : out[i] \in Messages
  OBVIOUS
<1>2. \A i \in 1 .. n : \A c \in Books : Step(i, c) \in Books /\ D[<<i, c>>] = Step(i, c)
  BY <1>1, BookAfterFacts
<1>3. D \in [(1 .. n) \X Books -> Books]
  BY <1>1, BookAfterFacts
<1>4. \A t \in Q : t # {} => ch[t] = Max(t) /\ ch[t] \in t
  <2>1. ASSUME NEW t \in Q, t # {} PROVE Max(t) \in t
    <3>1. t \in SUBSET (0 .. n)
      BY <1>1
    <3> QED BY <1>1, <2>1, <3>1, MaxIsMember
  <2> QED BY <2>1
<1>5. IsFiniteSet(1 .. n)
  BY <1>1, FS_Interval
<1>6. PICK e \in [Q -> Books] : Iterates(e, Q, b, ch, D)
  <2> HIDE DEF D, ch, n
  <2> QED BY <1>3, <1>4, <1>5, SubsetRecursion
<1> DEFINE F(h) == [t \in Q |-> IF t = {} THEN b ELSE Step(Max(t), h[t \ {Max(t)}])]
<1>7. e = F(e)
  <2>1. ASSUME NEW t \in Q, t # {} PROVE D[<<ch[t], e[t \ {ch[t]}]>>] = Step(Max(t), e[t \ {Max(t)}])
    <3>1. ch[t] = Max(t) /\ Max(t) \in 1 .. n /\ t \ {Max(t)} \in Q
      BY <1>4, <2>1
    <3>2. e[t \ {Max(t)}] \in Books
      BY <3>1
    <3> HIDE DEF D, ch, Step, Q, n
    <3> QED BY <1>2, <3>1, <3>2
  <2>2. ASSUME NEW t \in Q
        PROVE  e[t] = IF t = {} THEN b ELSE Step(Max(t), e[t \ {Max(t)}])
    <3>1. e[t] = IF t = {} THEN b ELSE D[<<ch[t], e[t \ {ch[t]}]>>]
      <4> HIDE DEF D, ch, Q
      <4> QED BY <1>6, Zenon DEF Iterates
    <3> HIDE DEF D, ch, Step, Q, n
    <3> QED BY <2>1, <3>1
  <2>3. e = [t \in Q |-> e[t]]
    OBVIOUS
  <2> HIDE DEF Q, Step, D, ch
  <2> QED BY <2>2, <2>3
<1>8. f = F(f)
  <2> DEFINE id == [i \in DOMAIN out |-> i]
             G(h) == [t \in SUBSET DOMAIN id |->
                        IF t = {} THEN b
                        ELSE IF id[Max(t)] \in lost THEN h[t \ {Max(t)}]
                             ELSE BookAfter(h[t \ {Max(t)}], out[id[Max(t)]])]
  <2>1. ASSUME NEW h PROVE G(h) = F(h)
    <3>1. DOMAIN id = 1 .. n
      BY <1>1
    <3>2. \A t \in Q : t # {} => id[Max(t)] = Max(t)
      BY <1>1, <1>4
    <3> HIDE DEF id, n
    <3> QED BY <3>1, <3>2
  <2>2. f = CHOOSE h : h = G(h)
    BY Zenon DEF DeliverIter
  <2> HIDE DEF G, F, f
  <2>3. e = G(e)
    BY <1>7, <2>1
  <2>4. f = G(f)
    BY <2>2, <2>3
  <2> QED BY <2>1, <2>4
<1> HIDE DEF f
<1>9. f[1 .. 0] = b
  <2>1. 1 .. 0 = {} /\ {} \in Q
    OBVIOUS
  <2> QED BY <1>8, <2>1
<1>10. ASSUME NEW i \in 1 .. n PROVE f[1 .. i] = Step(i, f[1 .. i - 1])
  <2>1. 1 .. i \in Q /\ 1 .. i # {} /\ (1 .. i) \ {i} = 1 .. i - 1
    BY <1>1
  <2>2. Max(1 .. i) = i
    BY <1>1, MaxOfInterval
  <2>3. f[1 .. i] = Step(Max(1 .. i), f[(1 .. i) \ {Max(1 .. i)}])
    <3> HIDE DEF Step, Q
    <3> QED BY <1>8, <2>1
  <2> HIDE DEF Step
  <2> QED BY <2>1, <2>2, <2>3
<1>11. f[1 .. n] = Delivered(b, out, lost)
  <2>1. DOMAIN [i \in DOMAIN out |-> i] = 1 .. n
    BY <1>1
  <2> QED BY <2>1, DeliverIsIter DEF f
<1> DEFINE g == [i \in 0 .. n |-> f[1 .. i]]
<1>12. g[0] = b /\ g[n] = Delivered(b, out, lost)
  BY <1>1, <1>9, <1>11
<1>13. ASSUME NEW i \in 1 .. n PROVE g[i] = Step(i, g[i - 1])
  <2>1. i \in 0 .. n /\ i - 1 \in 0 .. n
    BY <1>1
  <2> HIDE DEF Step
  <2> QED BY <1>10, <2>1
<1> HIDE DEF g
<1>14. Delivers(g, b, out, lost)
  BY <1>12, <1>13 DEF Delivers
<1> QED BY <1>14

\* The book stays a book, and nothing delivered leaves it as it is.
LEMMA DeliveredType ==
  ASSUME NEW b \in Books, NEW out \in Seq(Messages), NEW lost
  PROVE  Delivered(b, out, lost) \in Books
<1>1. PICK g : Delivers(g, b, out, lost)
  BY DeliverSteps
<1> DEFINE n == Len(out)
           T == {i \in Nat : i <= n => g[i] \in Books}
<1>2. n \in Nat /\ \A i \in 1 .. n : out[i] \in Messages
  OBVIOUS
<1>3. 0 \in T
  BY <1>1 DEF Delivers
<1>4. ASSUME NEW i \in Nat, i \in T PROVE i + 1 \in T
  <2>1. SUFFICES ASSUME i + 1 <= n PROVE g[i + 1] \in Books
    OBVIOUS
  <2>2. i + 1 \in 1 .. n /\ (i + 1) - 1 = i /\ g[i] \in Books
    BY <1>2, <1>4, <2>1
  <2>3. g[i + 1] = IF i + 1 \in lost THEN g[i] ELSE BookAfter(g[i], out[i + 1])
    BY <1>1, <2>2 DEF Delivers
  <2> QED BY <1>2, <2>2, <2>3, BookAfterFacts
<1> HIDE DEF T
<1>5. n \in T
  BY <1>2, <1>3, <1>4, NatSetInduction
<1>6. n <= n
  BY <1>2
<1>7. g[n] \in Books
  BY <1>5, <1>6 DEF T
<1> QED BY <1>1, <1>7 DEF Delivers

LEMMA DeliveredNothing ==
  ASSUME NEW b \in Books, NEW lost
  PROVE  Delivered(b, <<>>, lost) = b
<1>1. <<>> \in Seq(Messages) /\ Len(<<>>) = 0
  OBVIOUS
<1>2. PICK g : Delivers(g, b, <<>>, lost)
  BY <1>1, DeliverSteps
<1> QED BY <1>1, <1>2 DEF Delivers

LEMMA DeliveredDiff ==
  ASSUME NEW b \in Books, NEW d \in Diffs
  PROVE  Delivered(b, <<d>>, {}) = BookAfter(b, d)
<1>1. <<d>> \in Seq(Messages) /\ Len(<<d>>) = 1 /\ <<d>>[1] = d
  BY DiffFacts
<1>2. PICK g : Delivers(g, b, <<d>>, {})
  BY <1>1, DeliverSteps
<1>3. 1 \in 1 .. 1 /\ 1 - 1 = 0
  OBVIOUS
<1> QED BY <1>1, <1>2, <1>3 DEF Delivers

\* The diffs of c start at the snapshot and follow each other: the book is whole at the last.
Chained(L, c) ==
  /\ c # <<>> => FirstApplies(c[1], L)
  /\ \A j \in 2 .. Len(c) : NextApplies(c[j], c[j - 1].u)

Exact(b, u) == b.have /\ ~b.gap /\ b.seq = u

LEMMA DiffKeepsExact ==
  ASSUME NEW b \in Books, NEW d \in Diffs, Exact(b, b.seq), NextApplies(d, b.seq) \/ FirstApplies(d, b.seq)
  PROVE  BookAfter(b, d) \in Books /\ Exact(BookAfter(b, d), d.u)
<1>1. /\ BookAfter(b, d) \in Books /\ BookAfter(b, d).have = b.have /\ BookAfter(b, d).seq = d.u
      /\ BookAfter(b, d).gap = (b.gap \/ ~b.have \/ d.U > b.seq + 1 \/ d.u < b.seq)
  BY BookAfterFacts DEF Messages
<1>2. d.U \in Nat /\ d.u \in Nat /\ d.U <= d.u /\ b.seq \in Nat
  BY DiffFacts, Numbers DEF Books
<1>3. ~(d.U > b.seq + 1 \/ d.u < b.seq)
  BY <1>2 DEF NextApplies, FirstApplies
<1>4. BookAfter(b, d).gap = FALSE
  BY <1>1, <1>3 DEF Exact
<1> QED BY <1>1, <1>4 DEF Exact

LEMMA DeliveredChain ==
  ASSUME NEW b \in Books, NEW L \in 0 .. MaxUpd, NEW c \in Seq(Diffs), Chained(L, c)
  PROVE  Exact(Delivered(b, <<Snapshot(L)>> \o c, {}), IF c = <<>> THEN L ELSE Last(c).u)
<1> DEFINE out == <<Snapshot(L)>> \o c
           n == Len(c)
           At(i) == IF i = 0 THEN L ELSE c[i].u
<1>1. n \in Nat /\ \A i \in 1 .. n : c[i] \in Diffs
  OBVIOUS
<1>2. Snapshot(L) \in Messages
  BY DEF Messages
<1>3. out \in Seq(Messages) /\ Len(out) = n + 1 /\ out[1] = Snapshot(L)
      /\ \A i \in 1 .. n : out[i + 1] = c[i]
  <2>1. c \in Seq(Messages)
    BY DiffFacts
  <2> QED BY <1>1, <1>2, <2>1
<1> HIDE DEF out
<1>4. PICK g : Delivers(g, b, out, {})
  BY <1>3, DeliverSteps
<1>5. \A i \in 1 .. n + 1 : g[i] = BookAfter(g[i - 1], out[i])
  BY <1>3, <1>4 DEF Delivers
<1> DEFINE T == {i \in Nat : i <= n => g[i + 1] \in Books /\ Exact(g[i + 1], At(i))}
<1>6. 0 \in T
  <2>1. 1 \in 1 .. n + 1 /\ 1 - 1 = 0 /\ 0 + 1 = 1
    BY <1>1
  <2>2. g[1] = BookAfter(b, Snapshot(L))
    BY <1>3, <1>4, <1>5, <2>1 DEF Delivers
  <2>3. g[1] \in Books /\ g[1].have = TRUE /\ g[1].seq = L /\ g[1].gap = FALSE
    <3>1. PICK m \in Messages : m = Snapshot(L)
      BY <1>2
    <3>2. /\ BookAfter(b, m) \in Books
          /\ \A K \in 0 .. MaxUpd : m = Snapshot(K) =>
               BookAfter(b, m).have = TRUE /\ BookAfter(b, m).seq = K /\ BookAfter(b, m).gap = FALSE
      BY BookAfterFacts
    <3> QED BY <2>2, <3>1, <3>2
  <2>4. g[0 + 1] \in Books /\ Exact(g[0 + 1], At(0))
    BY <2>1, <2>3 DEF Exact
  <2> QED BY <2>4
<1>7. ASSUME NEW i \in Nat, i \in T PROVE i + 1 \in T
  <2>1. SUFFICES ASSUME i + 1 <= n PROVE g[(i + 1) + 1] \in Books /\ Exact(g[(i + 1) + 1], At(i + 1))
    OBVIOUS
  <2>2. i <= n /\ i + 1 \in 1 .. n /\ (i + 1) + 1 \in 1 .. n + 1 /\ ((i + 1) + 1) - 1 = i + 1
    BY <1>1, <2>1
  <2>3. g[i + 1] \in Books /\ Exact(g[i + 1], At(i))
    BY <1>7, <2>2
  <2>4. g[(i + 1) + 1] = BookAfter(g[i + 1], c[i + 1]) /\ c[i + 1] \in Diffs
    BY <1>1, <1>3, <1>5, <2>2
  <2>5. g[i + 1].seq = At(i)
    BY <2>3 DEF Exact
  <2>6. NextApplies(c[i + 1], At(i)) \/ FirstApplies(c[i + 1], At(i))
    <3>1. CASE i = 0
      <4>1. c # <<>> /\ c[1] = c[i + 1]
        BY <2>2, <3>1
      <4> QED BY <3>1, <4>1 DEF Chained
    <3>2. CASE i # 0
      <4>1. i + 1 \in 2 .. n /\ (i + 1) - 1 = i
        BY <1>1, <2>2, <3>2
      <4> QED BY <3>2, <4>1 DEF Chained
    <3> QED BY <3>1, <3>2
  <2>7. At(i + 1) = c[i + 1].u
    BY <2>2
  <2> HIDE DEF At
  <2> QED BY <2>3, <2>4, <2>5, <2>6, <2>7, DiffKeepsExact
<1> HIDE DEF T
<1>8. n \in T
  BY <1>1, <1>6, <1>7, NatSetInduction
<1>9. n <= n
  BY <1>1
<1>10. Exact(g[n + 1], At(n))
  BY <1>8, <1>9 DEF T
<1>11. At(n) = IF c = <<>> THEN L ELSE Last(c).u
  <2>1. c = <<>> => n = 0
    OBVIOUS
  <2>2. c # <<>> => n # 0 /\ Last(c) = c[n]
    BY DEF Last
  <2> QED BY <2>1, <2>2
<1>12. g[n + 1] = Delivered(b, out, {})
  BY <1>3, <1>4 DEF Delivers
<1> HIDE DEF At
<1> QED BY <1>10, <1>11, <1>12 DEF out

-----------------------------------------------------------------------------
(***************************************************************************)
(* The end of a callback: the messages are pushed, the request is flushed. *)
(***************************************************************************)

\* A repair of the sync object t is under way, with the requests r in flight.
Repairs(t, r) == t.want \/ (t.pending /\ r # <<>>)

LEMMA FinishFacts ==
  ASSUME recent \in BOOLEAN, NEW t, SyncSound(t), NEW r \in Seq(0 .. NoAnswer), NEW e \in BOOLEAN,
         NEW cost \in Costs, t.pending => r # <<>>, Finish(t, r, e, cost)
  PROVE  /\ SyncSound(s') /\ s'.state = t.state /\ s'.prev = t.prev
         /\ (Repairs(t, r) => Repairs(s', rest')) /\ (s'.pending => rest' # <<>>)
         /\ rest' \in Seq(0 .. NoAnswer) /\ recent' \in BOOLEAN /\ early' \in BOOLEAN /\ used' \in Costs
<1>1. PICK refused \in BOOLEAN :
        /\ FlushRequest(t, r, e, refused)
        /\ Charge([cost EXCEPT !.fail = @ + IF refused THEN 1 ELSE 0])
  BY DEF Finish
<1>2. used' \in Costs
  <2> DEFINE f == cost.fail + (IF refused THEN 1 ELSE 0)
  <2>1. f \in Nat
    BY DEF Costs
  <2>2. used' = [cost EXCEPT !.fail = f]
    BY <1>1 DEF Charge
  <2> HIDE DEF f
  <2> QED BY <2>1, <2>2 DEF Costs
<1>3. t \in Syncs /\ Len(t.buf) <= MaxBuffered /\ (t.state = "Synced" => t.buf = <<>>)
  BY DEF SyncSound
<1>4. recent' \in BOOLEAN /\ early' \in BOOLEAN
  BY <1>1 DEF FlushRequest
<1>5. CASE Wanted(t, e) /\ ~recent /\ ~refused
  <2>1. s' = [t EXCEPT !.wait = FALSE, !.want = FALSE, !.pending = TRUE] /\ rest' = Append(r, NoAnswer)
    BY <1>1, <1>5 DEF FlushRequest
  <2>2. s' \in Syncs
    BY <1>3, <2>1 DEF Syncs
  <2>3. s'.state = t.state /\ s'.prev = t.prev /\ s'.buf = t.buf /\ s'.pending = TRUE
    BY <1>3, <2>1 DEF Syncs
  <2>4. rest' \in Seq(0 .. NoAnswer) /\ rest' # <<>>
    <3>1. NoAnswer \in 0 .. NoAnswer
      BY Numbers
    <3> QED BY <2>1, <3>1
  <2> QED BY <1>2, <1>3, <1>4, <2>2, <2>3, <2>4 DEF SyncSound, Repairs
<1>6. CASE ~(Wanted(t, e) /\ ~recent /\ ~refused)
  <2> DEFINE w == t.wait /\ ~Wanted(t, e)
  <2>1. s' = [t EXCEPT !.wait = w] /\ rest' = r
    BY <1>1, <1>6 DEF FlushRequest
  <2>2. w \in BOOLEAN
    OBVIOUS
  <2> HIDE DEF w
  <2>3. s' \in Syncs
    BY <1>3, <2>1, <2>2 DEF Syncs
  <2>4. /\ s'.state = t.state /\ s'.prev = t.prev /\ s'.buf = t.buf /\ s'.pending = t.pending
        /\ s'.want = t.want
    BY <1>3, <2>1 DEF Syncs
  <2> QED BY <1>2, <1>3, <1>4, <2>1, <2>3, <2>4 DEF SyncSound, Repairs
<1> QED BY <1>5, <1>6

\* What a callback may leave, with the book b and the requests r, before its messages are pushed: a
\* synced object pushes no state change and all it pushes makes the book exact; one that is not
\* either wants a snapshot or pushes nothing.
Good(res, b, r) ==
  /\ SyncSound(res.s) /\ res.out \in Seq(Messages)
  /\ res.s.state # "Idle"
  /\ res.s.pending => r # <<>>
  /\ res.s.state = "Synced" =>
       /\ \A i \in DOMAIN res.out : res.out[i].type # "notlive"
       /\ Exact(Delivered(b, res.out, {}), res.s.prev)
  /\ res.s.state # "Synced" =>
       res.s.want \/ (res.out = <<>> /\ (Exact(b, b.seq) \/ Repairs(res.s, r)))

LEMMA StartFacts ==
  ASSUME NEW t, SyncSound(t)
  PROVE  /\ SyncSound(Start(t)) /\ Start(t).state = "Buffering" /\ Start(t).want = TRUE
         /\ Start(t).pending = t.pending /\ Start(t).buf = <<>>
<1>1. t \in Syncs /\ <<>> \in Seq(Diffs) /\ Len(<<>>) = 0
  BY DEF SyncSound
<1>2. Start(t) \in Syncs
  BY <1>1 DEF Start, Syncs
<1>3. /\ Start(t).state = "Buffering" /\ Start(t).want = TRUE
      /\ Start(t).pending = t.pending /\ Start(t).buf = <<>>
  BY <1>1 DEF Start, Syncs
<1> QED BY <1>1, <1>2, <1>3, Numbers DEF SyncSound

\* The book and the sync object a callback ends with.
Ends(t, r, b) ==
  /\ SyncSound(t) /\ b \in Books /\ (t.pending => r # <<>>) /\ t.state # "Idle"
  /\ t.state = "Synced" => Exact(b, t.prev)
  /\ Exact(b, b.seq) \/ Repairs(t, r)

LEMMA HandledEnds ==
  ASSUME DepthType, NEW res, NEW r \in Seq(0 .. NoAnswer), NEW e, NEW cost \in Costs,
         Good(res, book, r), Handled(res, r, e, cost)
  PROVE  \E t, c : c \in Costs /\ Ends(t, r, book') /\ Finish(t, r, e, c)
<1> DEFINE After(lost) == IF Overflowed(res.out, lost) THEN Resync(res.s) ELSE [s |-> res.s, out |-> <<>>]
<1>0. PICK lost \in SUBSET DOMAIN res.out : \E also \in SUBSET DOMAIN After(lost).out :
        /\ book' = Delivered(Delivered(book, res.out, lost), After(lost).out, also)
        /\ Finish(After(lost).s, r, e, [cost EXCEPT !.full = @ + Cardinality(lost) + Cardinality(also)])
  BY Zenon DEF Handled
<1> DEFINE after == After(lost)
<1>1. PICK also \in SUBSET DOMAIN after.out :
        /\ book' = Delivered(Delivered(book, res.out, lost), after.out, also)
        /\ Finish(after.s, r, e, [cost EXCEPT !.full = @ + Cardinality(lost) + Cardinality(also)])
  BY <1>0, Zenon
<1> DEFINE
           full == cost.full + Cardinality(lost) + Cardinality(also)
           c == [cost EXCEPT !.full = full]
<1>2. /\ Overflowed(res.out, lost) => after.s = Start(res.s) /\ after.out = <<NotLive>>
      /\ ~Overflowed(res.out, lost) => after.s = res.s /\ after.out = <<>>
  BY DEF Resync
<1>3. res.out \in Seq(Messages) /\ book \in Books /\ NotLive \in Messages /\ SyncSound(res.s)
      /\ res.s \in Syncs
  BY DEF Good, Messages, DepthType, SyncSound
<1>4. after.out \in Seq(Messages)
  <2>1. <<NotLive>> \in Seq(Messages) /\ <<>> \in Seq(Messages)
    BY <1>3
  <2> HIDE DEF after
  <2> QED BY <1>2, <2>1
<1>5. c \in Costs
  <2>1. IsFiniteSet(lost) /\ IsFiniteSet(also)
    <3>1. IsFiniteSet(DOMAIN res.out) /\ IsFiniteSet(DOMAIN after.out)
      <4>1. ASSUME NEW o \in Seq(Messages) PROVE IsFiniteSet(DOMAIN o)
        <5>1. DOMAIN o = 1 .. Len(o) /\ Len(o) \in Nat
          OBVIOUS
        <5> QED BY <5>1, FS_Interval
      <4> HIDE DEF after
      <4> QED BY <1>3, <1>4, <4>1
    <3> QED BY <3>1, FS_Subset
  <2>2. Cardinality(lost) \in Nat /\ Cardinality(also) \in Nat
    BY <2>1, FS_CardinalityType
  <2>3. full \in Nat
    BY <2>2 DEF Costs
  <2> HIDE DEF full
  <2> QED BY <2>3 DEF Costs
<1>6. Finish(after.s, r, e, c)
  BY <1>1
<1>7. book' = Delivered(Delivered(book, res.out, lost), after.out, also)
  BY <1>1
<1> HIDE DEF after, c
<1>8. Delivered(book, res.out, lost) \in Books /\ book' \in Books
  BY <1>3, <1>4, <1>7, DeliveredType
<1>9. CASE Overflowed(res.out, lost)
  <2>1. /\ SyncSound(after.s) /\ after.s.state = "Buffering" /\ after.s.want = TRUE
        /\ after.s.pending = res.s.pending
    <3>1. /\ SyncSound(Start(res.s)) /\ Start(res.s).state = "Buffering"
          /\ Start(res.s).want = TRUE /\ Start(res.s).pending = res.s.pending
      BY <1>3, StartFacts
    <3>2. after.s = Start(res.s)
      BY <1>2, <1>9
    <3> QED BY <3>1, <3>2
  <2>2. Ends(after.s, r, book')
    BY <1>8, <2>1 DEF Ends, Good, Repairs
  <2> QED BY <1>5, <1>6, <2>2
<1>10. CASE ~Overflowed(res.out, lost)
  <2>1. after.s = res.s /\ book' = Delivered(book, res.out, lost)
    BY <1>2, <1>7, <1>8, <1>10, DeliveredNothing
  <2>2. CASE res.s.state = "Synced"
    <3>1. lost = {}
      BY <1>10, <2>2 DEF Overflowed, Good
    <3>2. Exact(book', res.s.prev)
      BY <2>1, <2>2, <3>1 DEF Good
    <3>3. Ends(after.s, r, book')
      BY <1>3, <1>8, <2>1, <3>2 DEF Ends, Good, Exact
    <3> QED BY <1>5, <1>6, <3>3
  <2>3. CASE res.s.state # "Synced"
    <3>1. CASE res.s.want
      <4>1. Ends(after.s, r, book')
        BY <1>3, <1>8, <2>1, <2>3, <3>1 DEF Ends, Good, Repairs
      <4> QED BY <1>5, <1>6, <4>1
    <3>2. CASE ~res.s.want
      <4>1. book' = book
        BY <1>3, <2>1, <2>3, <3>2, DeliveredNothing DEF Good
      <4>2. Ends(after.s, r, book')
        BY <1>3, <1>8, <2>1, <2>3, <3>2, <4>1 DEF Ends, Good
      <4> QED BY <1>5, <1>6, <4>2
    <3> QED BY <3>1, <3>2
  <2> QED BY <2>2, <2>3
<1> QED BY <1>9, <1>10

\* What the callbacks leave alone, or change in the connection only.
Outside ==
  /\ trait' = trait /\ upd' = upd
  /\ stream' \in Seq(Diffs) /\ link' \in {"down", "live", "stale"} /\ (link' = "down" => stream' = <<>>)

LEMMA HandledInv ==
  ASSUME DepthInv, Outside, NEW res, NEW r \in Seq(0 .. NoAnswer), NEW e \in BOOLEAN,
         NEW cost \in Costs, Good(res, book, r), Handled(res, r, e, cost)
  PROVE  DepthInv'
<1>1. DepthType /\ recent \in BOOLEAN
  BY DEF DepthInv, DepthType
<1>2. PICK t, c : c \in Costs /\ Ends(t, r, book') /\ Finish(t, r, e, c)
  BY <1>1, HandledEnds
<1>3. /\ SyncSound(s') /\ s'.state = t.state /\ s'.prev = t.prev
      /\ (Repairs(t, r) => Repairs(s', rest')) /\ (s'.pending => rest' # <<>>)
      /\ rest' \in Seq(0 .. NoAnswer) /\ recent' \in BOOLEAN /\ early' \in BOOLEAN /\ used' \in Costs
  BY <1>1, <1>2, FinishFacts DEF Ends
<1>4. DepthType'
  BY <1>1, <1>2, <1>3 DEF DepthType, Outside, Ends, SyncSound
<1>5. SyncedBookIsExact'
  BY <1>2, <1>3 DEF SyncedBookIsExact, Ends, Exact
<1>6. RepairUnderWay'
  BY <1>2, <1>3 DEF RepairUnderWay, Ends, Exact, Repairs
<1> QED BY <1>2, <1>3, <1>4, <1>5, <1>6 DEF DepthInv, Ends, Outside

\* A callback that pushes nothing and leaves the state of the sync.
LEMMA FinishInv ==
  ASSUME DepthInv, Outside, link' = link, book' = book, NEW t, SyncSound(t), NEW r \in Seq(0 .. NoAnswer),
         NEW cost \in Costs, t.pending => r # <<>>, t.state = s.state, t.prev = s.prev,
         Repairs(s, rest) => Repairs(t, r), s.state = "Idle" => t = s /\ r = rest,
         Finish(t, r, early, cost)
  PROVE  DepthInv'
<1>1. DepthType /\ recent \in BOOLEAN /\ early \in BOOLEAN
  BY DEF DepthInv, DepthType
<1>2. /\ SyncSound(s') /\ s'.state = t.state /\ s'.prev = t.prev
      /\ (Repairs(t, r) => Repairs(s', rest')) /\ (s'.pending => rest' # <<>>)
      /\ rest' \in Seq(0 .. NoAnswer) /\ recent' \in BOOLEAN /\ early' \in BOOLEAN /\ used' \in Costs
  BY <1>1, FinishFacts
<1>3. DepthType'
  BY <1>1, <1>2 DEF DepthType, Outside, SyncSound
<1>4. SyncedBookIsExact'
  BY <1>2 DEF DepthInv, SyncedBookIsExact
<1>5. RepairUnderWay'
  BY <1>2 DEF DepthInv, RepairUnderWay, Repairs
<1>6. s'.state = "Idle" => link' = "down" /\ ~s'.want /\ ~s'.pending /\ rest' = <<>>
  <2>1. SUFFICES ASSUME s.state = "Idle"
                 PROVE  link = "down" /\ ~s'.want /\ ~s'.pending /\ rest' = <<>>
    BY <1>2
  <2>2. t = s /\ r = rest /\ link = "down" /\ ~s.want /\ ~s.pending /\ rest = <<>>
    BY <2>1 DEF DepthInv
  <2>3. PICK refused \in BOOLEAN : FlushRequest(t, r, early, refused)
    BY DEF Finish
  <2>4. ~Wanted(t, early)
    BY <2>2 DEF Wanted
  <2> DEFINE w == t.wait /\ ~Wanted(t, early)
  <2>5. s' = [t EXCEPT !.wait = w] /\ rest' = r
    BY <2>3, <2>4 DEF FlushRequest
  <2>6. s'.want = t.want /\ s'.pending = t.pending
    BY <2>5 DEF SyncSound, Syncs
  <2> QED BY <2>2, <2>5, <2>6
<1> QED BY <1>2, <1>3, <1>4, <1>5, <1>6 DEF DepthInv, Outside

-----------------------------------------------------------------------------
(***************************************************************************)
(* BookSyncer.                                                             *)
(***************************************************************************)

LEMMA ResyncGood ==
  ASSUME NEW t, SyncSound(t), NEW b, NEW r, t.pending => r # <<>>
  PROVE  Good(Resync(t), b, r)
<1>1. Resync(t).s = Start(t) /\ Resync(t).out = <<NotLive>>
  BY DEF Resync
<1>2. <<NotLive>> \in Seq(Messages)
  BY DEF Messages
<1>3. /\ SyncSound(Start(t)) /\ Start(t).state = "Buffering" /\ Start(t).want = TRUE
      /\ Start(t).pending = t.pending
  BY StartFacts
<1> QED BY <1>1, <1>2, <1>3 DEF Good

LEMMA BufferedFacts ==
  ASSUME NEW t, SyncSound(t), t.state = "Buffering", NEW d \in Diffs, Len(t.buf) < MaxBuffered
  PROVE  /\ Buffered(t, d).out = <<>> /\ SyncSound(Buffered(t, d).s)
         /\ Buffered(t, d).s.state = t.state /\ Buffered(t, d).s.want = t.want
         /\ Buffered(t, d).s.pending = t.pending
<1> DEFINE buf == Append(t.buf, d)
           u == [t EXCEPT !.buf = buf]
<1>1. Buffered(t, d).s = u /\ Buffered(t, d).out = <<>>
  BY DEF Buffered
<1>2. t \in Syncs /\ t.buf \in Seq(Diffs)
  BY DEF SyncSound, Syncs
<1>3. buf \in Seq(Diffs) /\ Len(buf) <= MaxBuffered
  BY <1>2, Numbers
<1> HIDE DEF buf
<1>4. u \in Syncs
  BY <1>2, <1>3 DEF Syncs
<1>5. u.buf = buf /\ u.state = t.state /\ u.want = t.want /\ u.pending = t.pending
  BY <1>2 DEF Syncs
<1> HIDE DEF u
<1> QED BY <1>1, <1>3, <1>4, <1>5 DEF SyncSound

\* A diff that is read: buffered, dropped, applied, or the first of the next attempt.
LEMMA OnDeltaGood ==
  ASSUME DepthInv, link # "down", NEW d \in Diffs
  PROVE  Good(OnDelta(s, d), book, rest)
<1>1. /\ SyncSound(s) /\ s \in Syncs /\ book \in Books /\ s.state \in {"Buffering", "Synced"}
      /\ (s.pending => rest # <<>>) /\ s.prev \in 0 .. MaxUpd
  BY DEF DepthInv, DepthType, SyncSound, Syncs
<1>2. <<>> \in Seq(Messages)
  OBVIOUS
<1>3. CASE s.state = "Buffering"
  <2>1. OnDelta(s, d) = Buffered(s, d)
    BY <1>3 DEF OnDelta
  <2>2. CASE Len(s.buf) < MaxBuffered
    <3>1. /\ Buffered(s, d).out = <<>> /\ SyncSound(Buffered(s, d).s)
          /\ Buffered(s, d).s.state = s.state /\ Buffered(s, d).s.want = s.want
          /\ Buffered(s, d).s.pending = s.pending
      BY <1>1, <1>3, <2>2, BufferedFacts
    <3>2. Exact(book, book.seq) \/ Repairs(s, rest)
      BY DEF DepthInv, RepairUnderWay, Exact, Repairs
    <3>3. Exact(book, book.seq) \/ Repairs(Buffered(s, d).s, rest)
      BY <3>1, <3>2 DEF Repairs
    <3> QED BY <1>1, <1>2, <1>3, <2>1, <3>1, <3>3 DEF Good
  <2>3. CASE ~(Len(s.buf) < MaxBuffered)
    <3>1. OnDelta(s, d) = Resync(s)
      BY <2>1, <2>3 DEF Buffered
    <3> QED BY <1>1, <3>1, ResyncGood
  <2> QED BY <2>2, <2>3
<1>4. CASE s.state = "Synced"
  <2> DEFINE fits == IF s.first THEN FirstApplies(d, s.prev) ELSE NextApplies(d, s.prev)
             drop == IsStale(d, s.prev) /\ (s.first \/ ~fits)
  <2>1. OnDelta(s, d) = IF drop THEN [s |-> s, out |-> <<>>]
                        ELSE IF fits THEN Applied(s, d) ELSE ResyncKeeping(s, d)
    BY <1>4 DEF OnDelta
  <2>2. Exact(book, s.prev) /\ Exact(book, book.seq) /\ book.seq = s.prev
    BY <1>4 DEF DepthInv, SyncedBookIsExact, Exact
  <2>3. CASE drop
    <3>1. OnDelta(s, d).s = s /\ OnDelta(s, d).out = <<>>
      BY <2>1, <2>3
    <3>2. Delivered(book, <<>>, {}) = book
      BY <1>1, DeliveredNothing
    <3> QED BY <1>1, <1>2, <1>4, <2>2, <3>1, <3>2 DEF Good
  <2>4. CASE ~drop /\ fits
    <3> DEFINE u == [s EXCEPT !.prev = d.u, !.first = FALSE]
    <3>1. OnDelta(s, d).s = u /\ OnDelta(s, d).out = <<d>>
      BY <2>1, <2>4 DEF Applied
    <3>2. NextApplies(d, book.seq) \/ FirstApplies(d, book.seq)
      BY <2>2, <2>4
    <3>3. Exact(Delivered(book, <<d>>, {}), d.u)
      BY <1>1, <2>2, <3>2, DiffKeepsExact, DeliveredDiff
    <3>4. u \in Syncs
      BY <1>1, DiffFacts DEF Syncs
    <3>5. u.prev = d.u /\ u.state = s.state /\ u.buf = s.buf /\ u.pending = s.pending
      BY <1>1 DEF Syncs
    <3> HIDE DEF u
    <3>6. SyncSound(u)
      BY <1>1, <3>4, <3>5 DEF SyncSound
    <3>7. <<d>> \in Seq(Messages) /\ \A i \in DOMAIN <<d>> : <<d>>[i].type # "notlive"
      BY DiffFacts
    <3> QED BY <1>1, <1>4, <3>1, <3>3, <3>5, <3>6, <3>7 DEF Good
  <2>5. CASE ~drop /\ ~fits
    <3>1. OnDelta(s, d).s = Buffered(Start(s), d).s /\ OnDelta(s, d).out = <<NotLive>>
      BY <2>1, <2>5 DEF ResyncKeeping
    <3>2. /\ SyncSound(Start(s)) /\ Start(s).state = "Buffering" /\ Start(s).want = TRUE
          /\ Start(s).pending = s.pending /\ Start(s).buf = <<>>
      BY <1>1, StartFacts
    <3>3. Len(Start(s).buf) < MaxBuffered
      BY <3>2, Numbers
    <3>4. LET u == Buffered(Start(s), d).s
          IN  SyncSound(u) /\ u.state = "Buffering" /\ u.want = TRUE /\ u.pending = s.pending
      BY <3>2, <3>3, BufferedFacts
    <3>5. <<NotLive>> \in Seq(Messages)
      BY DEF Messages
    <3> QED BY <1>1, <3>1, <3>4, <3>5 DEF Good
  <2> QED BY <2>3, <2>4, <2>5
<1> QED BY <1>1, <1>3, <1>4

LEMMA FromFacts ==
  ASSUME NEW buf \in Seq(Diffs), NEW n \in 1 .. Len(buf) + 1
  PROVE  /\ From(buf, n) \in Seq(Diffs) /\ Len(From(buf, n)) = Len(buf) - n + 1
         /\ Len(From(buf, n)) <= Len(buf)
<1>1. Len(buf) \in Nat
  OBVIOUS
<1> QED BY <1>1 DEF From

\* A snapshot, awaited or late: the buffered diffs that are newer follow it, or another is wanted.
LEMMA OnSnapshotGood ==
  ASSUME NEW t, SyncSound(t), t.state # "Idle", t.pending = FALSE, NEW b \in Books,
         NEW L \in 0 .. MaxUpd, NEW r
  PROVE  Good(OnSnapshot(t, L), b, r)
<1> DEFINE i == Min({j \in DOMAIN t.buf : ~IsStale(t.buf[j], L)} \cup {Len(t.buf) + 1})
           fresh == From(t.buf, i)
           gaps == {j \in 2 .. Len(fresh) : ~NextApplies(fresh[j], fresh[j - 1].u)}
<1>1. t \in Syncs /\ t.buf \in Seq(Diffs) /\ Len(t.buf) \in Nat /\ Len(t.buf) <= MaxBuffered
  BY DEF SyncSound, Syncs
<1>2. i \in 1 .. Len(t.buf) + 1
  <2> DEFINE S == {j \in DOMAIN t.buf : ~IsStale(t.buf[j], L)} \cup {Len(t.buf) + 1}
  <2>1. S \in SUBSET (1 .. Len(t.buf) + 1) /\ Len(t.buf) + 1 \in S
    BY <1>1
  <2>2. S \in SUBSET Nat /\ S # {}
    BY <1>1, <2>1
  <2> HIDE DEF S
  <2>3. Min(S) \in S
    BY <2>2, MinIsMember
  <2> QED BY <2>1, <2>3 DEF S
<1> HIDE DEF i
<1>3. fresh \in Seq(Diffs) /\ Len(fresh) \in Nat /\ Len(fresh) <= MaxBuffered
  <2>1. fresh \in Seq(Diffs) /\ Len(fresh) <= Len(t.buf)
    BY <1>1, <1>2, FromFacts
  <2> QED BY <1>1, <2>1, Numbers
<1>4. OnSnapshot(t, L) = IF fresh # <<>> /\ ~FirstApplies(fresh[1], L) THEN TooOld(t, fresh)
                         ELSE IF gaps # {} THEN ReplayedToGap(t, L, fresh, Min(gaps))
                         ELSE Replayed(t, L, fresh)
  BY DEF OnSnapshot, i
<1> HIDE DEF fresh
<1>5. <<NotLive>> \in Seq(Messages) /\ <<Snapshot(L)>> \in Seq(Messages) /\ fresh \in Seq(Messages)
  <2>1. NotLive \in Messages /\ Snapshot(L) \in Messages /\ Diffs \subseteq Messages
    BY DEF Messages
  <2> QED BY <1>3, <2>1
<1>6. \A j \in 1 .. Len(fresh) : fresh[j] \in Diffs /\ fresh[j].u \in 0 .. MaxUpd
  BY <1>3, DiffFacts
<1>7. CASE fresh # <<>> /\ ~FirstApplies(fresh[1], L)
  <2>0. t.state # "Synced"
    <3>1. SUFFICES ASSUME t.buf = <<>> PROVE fresh = <<>>
      BY <1>7 DEF SyncSound
    <3>2. Len(fresh) = 0
      <4>1. Len(fresh) <= Len(t.buf)
        BY <1>1, <1>2, FromFacts DEF fresh
      <4> QED BY <1>3, <3>1, <4>1
    <3> QED BY <1>3, <3>2
  <2> DEFINE u == [t EXCEPT !.buf = fresh, !.want = TRUE]
  <2>1. OnSnapshot(t, L).s = u /\ OnSnapshot(t, L).out = <<NotLive>>
    BY <1>4, <1>7 DEF TooOld
  <2>2. u \in Syncs
    BY <1>1, <1>3 DEF Syncs
  <2>3. u.buf = fresh /\ u.want = TRUE /\ u.state = t.state /\ u.pending = t.pending
    BY <1>1 DEF Syncs
  <2> HIDE DEF u
  <2>4. SyncSound(u)
    BY <1>3, <2>0, <2>2, <2>3 DEF SyncSound
  <2> QED BY <1>5, <2>0, <2>1, <2>3, <2>4 DEF Good
<1>8. CASE ~(fresh # <<>> /\ ~FirstApplies(fresh[1], L)) /\ gaps # {}
  <2> DEFINE gap == Min(gaps)
             buf == From(fresh, gap)
             p == fresh[gap - 1].u
             out == <<Snapshot(L)>> \o SubSeq(fresh, 1, gap - 1) \o <<NotLive>>
             u == [t EXCEPT !.prev = p, !.buf = buf, !.first = FALSE, !.state = "Buffering",
                            !.want = TRUE]
  <2>1. gap \in 2 .. Len(fresh)
    <3>1. gaps \in SUBSET Nat
      BY <1>3
    <3>2. gap \in gaps
      BY <1>8, <3>1, MinIsMember
    <3> QED BY <3>2
  <2> HIDE DEF gaps
  <2>2. OnSnapshot(t, L) = ReplayedToGap(t, L, fresh, gap)
    BY <1>4, <1>8
  <2> HIDE DEF gap
  <2>9. OnSnapshot(t, L).s = u /\ OnSnapshot(t, L).out = out
    <3>1. OnSnapshot(t, L) = [s |-> u, out |-> out]
      BY <2>2, Zenon DEF ReplayedToGap
    <3> HIDE DEF u, out
    <3> QED BY <3>1
  <2>3. gap - 1 \in 1 .. Len(fresh) /\ gap \in 1 .. Len(fresh) + 1
    BY <1>3, <2>1
  <2>4. p \in 0 .. MaxUpd
    BY <1>6, <2>3
  <2>5. buf \in Seq(Diffs) /\ Len(buf) <= MaxBuffered
    <3>1. buf \in Seq(Diffs) /\ Len(buf) <= Len(fresh)
      BY <1>3, <2>3, FromFacts
    <3> QED BY <1>3, <3>1, Numbers
  <2>6. out \in Seq(Messages)
    <3>1. SubSeq(fresh, 1, gap - 1) \in Seq(Messages)
      BY <1>3, <1>5, <2>3
    <3> QED BY <1>5, <3>1
  <2> HIDE DEF buf, p, out
  <2>7. u \in Syncs
    BY <1>1, <2>4, <2>5 DEF Syncs
  <2>8. u.buf = buf /\ u.want = TRUE /\ u.state = "Buffering" /\ u.pending = t.pending
    BY <1>1 DEF Syncs
  <2> HIDE DEF u
  <2> QED BY <2>5, <2>6, <2>7, <2>8, <2>9 DEF Good, SyncSound
<1>9. CASE ~(fresh # <<>> /\ ~FirstApplies(fresh[1], L)) /\ gaps = {}
  <2> DEFINE p == IF fresh = <<>> THEN L ELSE Last(fresh).u
             f == (fresh = <<>>)
             out == <<Snapshot(L)>> \o fresh
             u == [t EXCEPT !.prev = p, !.buf = <<>>, !.first = f, !.state = "Synced"]
  <2>1. OnSnapshot(t, L).s = u /\ OnSnapshot(t, L).out = out
    BY <1>4, <1>9 DEF Replayed
  <2>2. Chained(L, fresh)
    BY <1>9 DEF Chained
  <2>3. Exact(Delivered(b, out, {}), p)
    BY <1>3, <2>2, DeliveredChain
  <2>4. out \in Seq(Messages) /\ \A j \in DOMAIN out : out[j].type # "notlive"
    <3>1. out \in Seq(Messages) /\ DOMAIN out = 1 .. Len(fresh) + 1
      BY <1>3, <1>5
    <3>2. ASSUME NEW j \in DOMAIN out PROVE out[j].type # "notlive"
      <4>1. CASE j = 1
        BY <1>3, <4>1 DEF Snapshot
      <4>2. CASE j # 1
        <5>1. j - 1 \in 1 .. Len(fresh) /\ out[j] = fresh[j - 1]
          BY <1>3, <1>5, <3>1, <4>2
        <5> QED BY <1>6, <5>1, DiffFacts
      <4> QED BY <4>1, <4>2
    <3> QED BY <3>1, <3>2
  <2>5. p \in 0 .. MaxUpd /\ f \in BOOLEAN
    <3>1. fresh # <<>> => Last(fresh).u \in 0 .. MaxUpd
      BY <1>3, <1>6 DEF Last
    <3> QED BY <3>1
  <2>6. <<>> \in Seq(Diffs) /\ Len(<<>>) <= MaxBuffered
    BY Numbers
  <2> HIDE DEF p, f, out
  <2>7. u \in Syncs
    BY <1>1, <2>5, <2>6 DEF Syncs
  <2>8. u.buf = <<>> /\ u.prev = p /\ u.state = "Synced" /\ u.pending = t.pending
    BY <1>1 DEF Syncs
  <2> HIDE DEF u
  <2> QED BY <2>1, <2>3, <2>4, <2>6, <2>7, <2>8 DEF Good, SyncSound
<1> QED BY <1>7, <1>8, <1>9

-----------------------------------------------------------------------------
(***************************************************************************)
(* The steps.                                                              *)
(***************************************************************************)

LEMMA SpentFacts ==
  ASSUME used \in Costs
  PROVE  /\ Spent("lost") \in Costs /\ Spent("down") \in Costs /\ Spent("resync") \in Costs
         /\ Spent("fail") \in Costs
  BY DEF Spent, Costs

\* Nothing the callbacks read has changed.
LEMMA Untouched ==
  ASSUME DepthInv, trait' = trait, upd' \in 0 .. MaxUpd, UNCHANGED <<s, book>>,
         stream' \in Seq(Diffs), link' \in {"down", "live", "stale"}, link' = "down" <=> link = "down",
         link' = "down" => stream' = <<>>, rest' \in Seq(0 .. NoAnswer), rest' = <<>> <=> rest = <<>>,
         recent' \in BOOLEAN, early' \in BOOLEAN, used' \in Costs
  PROVE  DepthInv'
  BY DEF DepthInv, DepthType, SyncedBookIsExact, RepairUnderWay, SyncSound

LEMMA VenueUpdateInv ==
  ASSUME DepthInv, VenueUpdate
  PROVE  DepthInv'
<1>1. DepthType
  BY DEF DepthInv
<1>2. PICK n \in 1 .. MaxBatch :
        /\ upd + n <= MaxUpd /\ upd' = upd + n
        /\ stream' = IF link = "down" THEN stream
                     ELSE Append(stream, [type |-> "delta", U |-> upd + 1, u |-> upd + n])
        /\ UNCHANGED <<trait, link, rest, s, recent, early, book, used>>
  BY DEF VenueUpdate
<1>3. upd \in Nat /\ n \in Nat /\ 1 <= n /\ MaxUpd \in Nat
  BY <1>1, Numbers DEF DepthType
<1> DEFINE d == [type |-> "delta", U |-> upd + 1, u |-> upd + n]
<1>4. d \in Diffs
  <2>1. upd + 1 \in 1 .. MaxUpd /\ upd + n \in 1 .. MaxUpd /\ upd + 1 <= upd + n
    BY <1>2, <1>3
  <2> QED BY <2>1 DEF Diffs, Delta
<1>5. stream' \in Seq(Diffs) /\ (link = "down" => stream' = <<>>)
  <2> HIDE DEF d
  <2>1. stream' = IF link = "down" THEN stream ELSE Append(stream, d)
    BY <1>2 DEF d
  <2> QED BY <1>1, <1>4, <2>1 DEF DepthType, DepthInv
<1>6. upd' \in 0 .. MaxUpd
  BY <1>2, <1>3
<1> QED BY <1>1, <1>2, <1>5, <1>6, Untouched DEF DepthType

LEMMA ReceiveInv ==
  ASSUME DepthInv, Receive
  PROVE  DepthInv'
<1>1. DepthType /\ stream # <<>> /\ link # "down"
  BY DEF DepthInv, Receive
<1>2. Head(stream) \in Diffs /\ Tail(stream) \in Seq(Diffs)
  BY <1>1 DEF DepthType
<1> DEFINE res == OnDelta(s, Head(stream))
           t == [res.s EXCEPT !.wait = FALSE]
           q == [res EXCEPT !.s.wait = FALSE]
<1>3. Good(res, book, rest)
  BY <1>1, <1>2, OnDeltaGood
<1>4. Handled(q, rest, early, used)
  BY DEF Receive
<1>5. \E o, v : res = [s |-> v, out |-> o]
  BY DEF OnDelta, Buffered, Resync, ResyncKeeping, Applied
<1> HIDE DEF res
<1>6. q.s = t /\ q.out = res.out
  BY <1>5
<1>7. res.s \in Syncs
  BY <1>3 DEF Good, SyncSound
<1>8. t \in Syncs
  BY <1>7 DEF Syncs
<1>9. /\ t.state = res.s.state /\ t.prev = res.s.prev /\ t.buf = res.s.buf /\ t.want = res.s.want
      /\ t.pending = res.s.pending
  BY <1>7 DEF Syncs
<1> HIDE DEF t, q
<1>10. SyncSound(t)
  BY <1>3, <1>8, <1>9 DEF Good, SyncSound
<1>11. Good(q, book, rest)
  BY <1>3, <1>6, <1>9, <1>10 DEF Good, Repairs
<1>12. Outside
  BY <1>2 DEF Receive, Outside
<1>13. rest \in Seq(0 .. NoAnswer) /\ early \in BOOLEAN /\ used \in Costs
  BY <1>1 DEF DepthType
<1> QED BY <1>4, <1>11, <1>12, <1>13, HandledInv

\* start() of the sync, on the first session and on the one that replaces it.
LEMMA StartedGood ==
  ASSUME DepthInv
  PROVE  Good([s |-> [Start(s) EXCEPT !.wait = TRUE], out |-> <<>>], book, rest)
<1> DEFINE t == [Start(s) EXCEPT !.wait = TRUE]
           res == [s |-> t, out |-> <<>>]
<1>1. SyncSound(s) /\ (s.pending => rest # <<>>)
  BY DEF DepthInv, DepthType
<1>2. /\ SyncSound(Start(s)) /\ Start(s).state = "Buffering" /\ Start(s).want = TRUE
      /\ Start(s).pending = s.pending /\ Start(s).buf = <<>> /\ Start(s) \in Syncs
  BY <1>1, StartFacts DEF SyncSound
<1>3. t \in Syncs
  BY <1>2 DEF Syncs
<1>4. t.state = "Buffering" /\ t.want = TRUE /\ t.pending = s.pending /\ t.buf = <<>>
  BY <1>2 DEF Syncs
<1>5. res.s = t /\ res.out = <<>>
  OBVIOUS
<1>6. <<>> \in Seq(Messages) /\ Len(<<>>) <= MaxBuffered
  BY Numbers
<1> HIDE DEF t, res
<1>7. Good(res, book, rest)
  BY <1>1, <1>3, <1>4, <1>5, <1>6 DEF Good, SyncSound
<1> QED BY <1>7 DEF res, t

LEMMA SessionInv ==
  ASSUME DepthInv, Connect \/ Rollover \/ GoStale \/ ResyncBooks
  PROVE  DepthInv'
<1>1. /\ DepthType /\ rest \in Seq(0 .. NoAnswer) /\ early \in BOOLEAN /\ used \in Costs
      /\ Spent("resync") \in Costs /\ stream \in Seq(Diffs) /\ SyncSound(s) /\ (s.pending => rest # <<>>)
      /\ (link = "down" => stream = <<>>) /\ link \in {"down", "live", "stale"}
  BY SpentFacts DEF DepthInv, DepthType
<1>2. Outside
  <2>1. /\ trait' = trait /\ upd' = upd /\ link' \in {"live", "stale"}
        /\ stream' = stream \/ stream' = <<>>
    <3>1. CASE Connect
      BY <3>1, Zenon DEF Connect
    <3>2. CASE Rollover
      BY <3>2, Zenon DEF Rollover
    <3>3. CASE GoStale
      BY <3>3, Zenon DEF GoStale
    <3>4. CASE ResyncBooks
      BY <3>4, Zenon DEF ResyncBooks
    <3> QED BY <3>1, <3>2, <3>3, <3>4
  <2>2. <<>> \in Seq(Diffs)
    OBVIOUS
  <2>3. stream' \in Seq(Diffs)
    BY <1>1, <2>1, <2>2
  <2>4. link' \in {"down", "live", "stale"} /\ link' # "down"
    BY <2>1
  <2> QED BY <2>1, <2>3, <2>4 DEF Outside
<1>3. CASE Connect \/ Rollover
  <2> DEFINE res == [s |-> [Start(s) EXCEPT !.wait = TRUE], out |-> <<>>]
  <2>1. \E c \in Costs : Handled(res, rest, TRUE, c)
    BY <1>1, <1>3 DEF Connect, Rollover
  <2>2. Good(res, book, rest)
    BY StartedGood
  <2> HIDE DEF res
  <2> QED BY <1>1, <1>2, <2>1, <2>2, HandledInv
<1>4. Good(Resync(s), book, rest)
  BY <1>1, ResyncGood
<1>5. CASE ResyncBooks
  <2>1. Handled(Resync(s), rest, early, Spent("resync"))
    BY <1>5 DEF ResyncBooks
  <2> QED BY <1>1, <1>2, <1>4, <2>1, HandledInv
<1>6. CASE GoStale
  <2> DEFINE res == [Resync(s) EXCEPT !.out = <<NotLive>> \o @]
  <2>1. Handled(res, rest, early, Spent("resync"))
    BY <1>6 DEF GoStale
  <2>2. res.s = Resync(s).s /\ res.out = <<NotLive>> \o <<NotLive>> /\ Resync(s).s = Start(s)
    BY DEF Resync
  <2> HIDE DEF res
  <2>3. <<NotLive>> \o <<NotLive>> \in Seq(Messages)
    BY DEF Messages
  <2>4. Start(s).want = TRUE /\ Start(s).state = "Buffering"
    BY <1>1, StartFacts
  <2>5. Good(res, book, rest)
    BY <1>4, <2>2, <2>3, <2>4 DEF Good
  <2> QED BY <1>1, <1>2, <2>1, <2>5, HandledInv
<1> QED BY <1>3, <1>5, <1>6

LEMMA DisconnectInv ==
  ASSUME DepthInv, Disconnect
  PROVE  DepthInv'
<1>1. /\ DepthType /\ SyncSound(s) /\ s \in Syncs /\ s.state # "Idle" /\ book \in Books /\ used \in Costs
      /\ Spent("down") \in Costs
  BY SpentFacts DEF DepthInv, DepthType, SyncSound, Disconnect
<1>2. PICK lost \in SUBSET {1} :
        /\ book' = Delivered(book, <<NotLive>>, lost)
        /\ Charge([Spent("down") EXCEPT !.full = @ + Cardinality(lost)])
  BY DEF Disconnect
<1>3. /\ link' = "down" /\ stream' = <<>> /\ s' = Stopped(s)
      /\ UNCHANGED <<trait, upd, rest, recent, early>>
  BY DEF Disconnect
<1>4. book' \in Books
  <2>1. <<NotLive>> \in Seq(Messages)
    BY DEF Messages
  <2> QED BY <1>1, <1>2, <2>1, DeliveredType
<1>5. used' \in Costs
  <2> DEFINE full == Spent("down").full + Cardinality(lost)
  <2>1. IsFiniteSet(lost)
    BY FS_Singleton, FS_Subset
  <2>2. Cardinality(lost) \in Nat
    BY <2>1, FS_CardinalityType
  <2>3. full \in Nat
    BY <1>1, <2>2 DEF Costs
  <2>4. used' = [Spent("down") EXCEPT !.full = full]
    BY <1>2 DEF Charge
  <2> HIDE DEF full
  <2> QED BY <1>1, <2>3, <2>4 DEF Costs
<1>6. s' \in Syncs
  BY <1>1, <1>3 DEF Stopped, Syncs
<1>7. s'.state = s.state /\ s'.buf = s.buf /\ s'.pending = FALSE
  BY <1>1, <1>3 DEF Stopped, Syncs
<1>8. <<>> \in Seq(Diffs)
  OBVIOUS
<1> QED BY <1>1, <1>3, <1>4, <1>5, <1>6, <1>7, <1>8
        DEF DepthInv, DepthType, SyncSound, SyncedBookIsExact, RepairUnderWay

LEMMA RestInv ==
  ASSUME DepthInv, VenueSnapshot \/ OnSnapshotBody \/ OnSnapshotFailed \/ OnTimer
  PROVE  DepthInv'
<1>1. /\ DepthType /\ rest \in Seq(0 .. NoAnswer) /\ early \in BOOLEAN /\ used \in Costs /\ book \in Books
      /\ upd \in 0 .. MaxUpd /\ SyncSound(s) /\ s \in Syncs /\ (s.pending => rest # <<>>)
      /\ stream \in Seq(Diffs) /\ link \in {"down", "live", "stale"} /\ (link = "down" => stream = <<>>)
      /\ Spent("fail") \in Costs /\ (rest # <<>> => s.state # "Idle")
  BY SpentFacts DEF DepthInv, DepthType, SyncSound
<1>2. CASE VenueSnapshot
  <2>1. rest # <<>> /\ rest' = [rest EXCEPT ![1] = upd]
        /\ UNCHANGED <<trait, upd, stream, link, s, recent, early, book, used>>
    BY <1>2 DEF VenueSnapshot
  <2>2. upd \in 0 .. NoAnswer
    BY <1>1, Numbers
  <2>3. rest' \in Seq(0 .. NoAnswer) /\ rest' # <<>>
    BY <1>1, <2>1, <2>2
  <2> QED BY <1>1, <2>1, <2>3, Untouched DEF DepthType
<1>3. CASE OnSnapshotBody
  <2> DEFINE t == [s EXCEPT !.pending = FALSE, !.want = FALSE]
             L == Head(rest)
  <2>1. /\ rest # <<>> /\ L # NoAnswer /\ Handled(OnSnapshot(t, L), Tail(rest), early, used)
        /\ UNCHANGED <<trait, upd, stream, link>>
    BY <1>3 DEF OnSnapshotBody
  <2>2. t \in Syncs
    BY <1>1 DEF Syncs
  <2>3. t.state = s.state /\ t.buf = s.buf /\ t.pending = FALSE
    BY <1>1 DEF Syncs
  <2>4. Tail(rest) \in Seq(0 .. NoAnswer) /\ L \in 0 .. NoAnswer
    <3>1. ASSUME NEW S, NEW q \in Seq(S), q # <<>> PROVE Tail(q) \in Seq(S) /\ Head(q) \in S
      BY <3>1
    <3> QED BY <1>1, <2>1, <3>1
  <2>5. L \in 0 .. MaxUpd
    BY <2>1, <2>4, Numbers
  <2> HIDE DEF t, L
  <2>6. SyncSound(t)
    BY <1>1, <2>2, <2>3 DEF SyncSound
  <2>7. Good(OnSnapshot(t, L), book, Tail(rest))
    BY <1>1, <2>1, <2>3, <2>5, <2>6, OnSnapshotGood
  <2>8. Outside
    BY <1>1, <2>1 DEF Outside
  <2> QED BY <1>1, <2>1, <2>4, <2>7, <2>8, HandledInv
<1>4. CASE OnSnapshotFailed
  <2> DEFINE t == Failed(s)
  <2>1. /\ rest # <<>> /\ Finish(t, Tail(rest), early, Spent("fail"))
        /\ UNCHANGED <<trait, upd, stream, link, book>>
    BY <1>4 DEF OnSnapshotFailed
  <2>2. t \in Syncs
    BY <1>1 DEF Syncs, Failed
  <2>3. t.state = s.state /\ t.buf = s.buf /\ t.prev = s.prev /\ t.pending = FALSE /\ t.want = TRUE
    BY <1>1 DEF Syncs, Failed
  <2>4. Tail(rest) \in Seq(0 .. NoAnswer)
    BY <1>1, <2>1
  <2> HIDE DEF t
  <2>5. SyncSound(t)
    BY <1>1, <2>2, <2>3 DEF SyncSound
  <2>6. Outside
    BY <1>1, <2>1 DEF Outside
  <2>7. Repairs(t, Tail(rest))
    BY <2>3 DEF Repairs
  <2> QED BY <1>1, <2>1, <2>3, <2>4, <2>5, <2>6, <2>7, FinishInv
<1>5. CASE OnTimer
  <2>1. Finish(s, rest, early, used) /\ UNCHANGED <<trait, upd, stream, link, book>>
    BY <1>5 DEF OnTimer
  <2>2. Outside
    BY <1>1, <2>1 DEF Outside
  <2> QED BY <1>1, <2>1, <2>2, FinishInv
<1> QED BY <1>2, <1>3, <1>4, <1>5

LEMMA DepthInitInv == Init => DepthInv
<1> SUFFICES ASSUME Init PROVE DepthInv
  OBVIOUS
<1>1. <<>> \in Seq(Diffs) /\ <<>> \in Seq(0 .. NoAnswer) /\ 0 \in 0 .. MaxUpd /\ Len(<<>>) <= MaxBuffered
  BY Numbers
<1>2. s \in Syncs
  BY <1>1 DEF Init, Syncs
<1>3. s.state = "Idle" /\ s.buf = <<>> /\ s.want = FALSE /\ s.pending = FALSE
  BY DEF Init
<1>4. book \in Books /\ used \in Costs
  BY <1>1 DEF Init, Books, Costs, NoBook
<1> QED BY <1>1, <1>2, <1>3, <1>4
        DEF Init, DepthInv, DepthType, SyncSound, SyncedBookIsExact, RepairUnderWay

\* Every event of the connector, the stream and the REST channel keeps the invariant.
THEOREM DepthInvariant == Spec => []DepthInv
<1>1. DepthInv /\ [Next]_vars => DepthInv'
  <2>1. SUFFICES ASSUME DepthInv, [Next]_vars PROVE DepthInv'
    OBVIOUS
  <2>2. CASE LoseFrame
    <3>1. /\ stream # <<>> /\ stream' = Tail(stream) /\ link' = "live" /\ used' = Spent("lost")
          /\ UNCHANGED <<trait, upd, rest, s, recent, early, book>>
      BY <2>2 DEF LoseFrame, Charge
    <3>2. DepthType /\ link # "down" /\ Tail(stream) \in Seq(Diffs) /\ used' \in Costs
      BY <2>1, <3>1, SpentFacts DEF DepthInv, DepthType
    <3> QED BY <2>1, <3>1, <3>2, Untouched DEF DepthType
  <2>3. CASE IntervalPasses \/ StreamWaitPasses \/ UNCHANGED vars
    <3>1. /\ recent' \in {recent, FALSE} /\ early' \in {early, FALSE}
          /\ UNCHANGED <<trait, upd, stream, link, rest, s, book, used>>
      BY <2>3 DEF IntervalPasses, StreamWaitPasses, vars
    <3> QED BY <2>1, <3>1, Untouched DEF DepthInv, DepthType
  <2> QED BY <2>1, <2>2, <2>3, VenueUpdateInv, ReceiveInv, SessionInv, DisconnectInv, RestInv DEF Next
<1> QED BY <1>1, DepthInitInv, PTL DEF Spec

-----------------------------------------------------------------------------
\* The variables keep their types; the buffer never outgrows kMaxBuffered (BookSyncer::buffer()).
THEOREM DepthTypeOK == Spec => []TypeOK
<1>1. DepthInv => TypeOK
  <2>1. SUFFICES ASSUME DepthInv PROVE TypeOK
    OBVIOUS
  <2>2. Diffs \subseteq Delta
    BY DEF Diffs
  <2>3. \A q \in Seq(Diffs) : q \in Seq(Delta)
    BY <2>2
  <2>4. /\ s \in [state : {"Idle", "Buffering", "Synced"}, prev : 0..MaxUpd, first : BOOLEAN,
                    buf : Seq(Delta), want : BOOLEAN, pending : BOOLEAN, wait : BOOLEAN]
        /\ Len(s.buf) <= MaxBuffered
    <3>1. s \in Syncs /\ Len(s.buf) <= MaxBuffered
      BY <2>1 DEF DepthInv, DepthType, SyncSound
    <3>2. s.buf \in Seq(Delta)
      BY <2>3, <3>1 DEF Syncs
    <3> QED BY <3>1, <3>2 DEF Syncs
  <2> QED BY <2>1, <2>3, <2>4 DEF DepthInv, DepthType, TypeOK, Books, Costs
<1> QED BY <1>1, DepthInvariant, PTL

\* A synced sync object on a stream that is up and the engine agree on a whole book, whatever frames
\* were lost, whatever the ring refused and however late a snapshot came (BookSyncer::on_snapshot(),
\* BookSyncer::on_delta() and the overflow of BasicBinanceDepthSync).
THEOREM DepthSyncedBookIsExact == Spec => []SyncedBookIsExact
<1>1. DepthInv => SyncedBookIsExact
  BY DEF DepthInv
<1> QED BY <1>1, DepthInvariant, PTL

\* On a stream that is up, an engine without a whole book has a snapshot request wanted, or pending
\* and in flight (BasicBinanceDepthSync::flush_request()).
THEOREM DepthRepairUnderWay == Spec => []RepairUnderWay
<1>1. DepthInv => RepairUnderWay
  BY DEF DepthInv
<1> QED BY <1>1, DepthInvariant, PTL
=============================================================================
