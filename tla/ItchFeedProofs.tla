--------------------------- MODULE ItchFeedProofs ---------------------------
(***************************************************************************)
(* Proofs about ItchFeed, for every network, buffer size and timeout: the  *)
(* receiver's calls follow one another, nothing that has arrived is given  *)
(* up, the end of the session comes last, and live books are exact.        *)
(***************************************************************************)
EXTENDS ItchFeed, Induction

(***************************************************************************)
(* Types.                                                                  *)
(***************************************************************************)
Transmitters == [count : Nat, first : Nat, unsent : Nat, over : BOOLEAN]
Packets == [kind : {"data", "heartbeat", "eos"}, seq : Nat, end : Nat]
HeldPackets == [seq : Nat, end : Nat, age : Nat]
Messages == [call : {"message"}, from : Nat, to : Nat, pkt : Nat \X Nat]
Gaps == [call : {"unrecoverable"}, from : Nat, to : Nat]
Calls == Messages \cup Gaps \cup [call : {"ended"}]
Requests == [seq : Nat, n : Nat]
Buffers == {H \in SUBSET HeldPackets : IsFiniteSet(H)}
Receivers ==
  [next : Nat, highest : Nat, hiAge : Nat, held : Buffers, state : {"Down", "Up", "Recovering"},
   requested : Nat, attempts : Nat, overflow : Nat, gap : Int, reqAge : Nat, eos : BOOLEAN,
   told : BOOLEAN, can : BOOLEAN, out : Seq(Calls), ask : SUBSET Requests]
Books == [seq : Nat, whole : BOOLEAN]
Recoveries == [packets : Nat, open : Nat \X Nat, kept : Seq(Nat), last : Nat, gapEnd : Nat]
Feeds ==
  [state : {"Snapshot", "Live", "Lost"}, hasGlimpse : BOOLEAN, glimpse : {"none", "open", "taken"},
   end : Nat, retry : BOOLEAN, books : Books, rec : Recoveries, lostEnd : Nat, liveFrom : Nat,
   streak : Nat]
Views == [upto : Nat, inOrder : BOOLEAN, have : SUBSET Nat, wronged : BOOLEAN, early : BOOLEAN]

\* The types of the state.
TypeOK ==
  /\ tx \in Transmitters /\ net \in SUBSET Packets /\ rx \in Receivers
  /\ feed \in Feeds /\ seen \in Views

(***************************************************************************)
(* The inductive invariant.                                                *)
(***************************************************************************)

\* What is sent was published, and nothing is published once the session is over.
Sending ==
  /\ tx.first >= 1 /\ tx.unsent >= 1 /\ tx.unsent <= tx.count + 1
  /\ tx.over => tx.unsent = tx.count + 1
Sent(p) == 1 <= p.seq /\ p.seq <= p.end /\ p.end <= tx.count + 1

\* Every packet held is ahead of next_.
Ahead(r) == \A h \in r.held : h.seq > r.next /\ h.end <= r.highest

\* Between calls of the receiver.
Resting ==
  /\ rx.out = <<>> /\ rx.ask = {} /\ Ahead(rx)
  /\ rx.next = 0 => rx.held = {} /\ feed.state # "Live"
  /\ rx.next <= Greater(rx.highest, 1) /\ rx.highest <= tx.count + 1
  /\ rx.eos => tx.over /\ rx.highest = tx.count + 1

\* What has arrived is below next_ or in the reorder buffer.
InHand(r, K) == \A q \in K : q < r.next \/ \E h \in r.held : h.seq <= q /\ q < h.end

\* The recovery buffer has what it was shown, in order, and all that is wanted of it since the last
\* gap; u is the sequence that comes next.
Recorded(b, u) ==
  /\ b.last = 0 \/ b.last < u
  /\ b.gapEnd <= b.last
  /\ \A i \in DOMAIN b.kept : b.kept[i] <= b.last
  /\ \A i, j \in DOMAIN b.kept : i < j => b.kept[i] < b.kept[j]
  /\ \A q \in b.gapEnd .. b.last : q >= 1 => q \in Unwanted \/ q \in Range(b.kept)

\* The books stand at what comes next, u, or at the end of the snapshot.
Exact(f, u) ==
  f.state = "Live" => /\ Standing(f.books, Greater(u, f.liveFrom))
                      /\ f.books.seq < Greater(u, f.liveFrom)

\* There is a snapshot only while there are no live books, and only with GLIMPSE.
Staged(f) == /\ f.glimpse # "none" => f.state = "Snapshot"
             /\ ~f.hasGlimpse => f.glimpse = "none" /\ ~f.retry

FeedOK(f, u) == Exact(f, u) /\ Recorded(f.rec, u) /\ Staged(f)
Glimpsed == feed.glimpse = "taken" => feed.end >= 1 /\ feed.end <= tx.count + 1

Watching ==
  /\ seen.inOrder /\ seen.upto = rx.next /\ ~seen.wronged /\ ~seen.early
  /\ InHand(rx, seen.have)

FeedInv ==
  /\ Sending /\ (\A p \in net : Sent(p) /\ p.kind = "data") /\ Resting /\ Watching
  /\ FeedOK(feed, rx.next) /\ Glimpsed

-----------------------------------------------------------------------------
(***************************************************************************)
(* The loops.                                                              *)
(***************************************************************************)

DrainN(r, n) == Repeat(DrainTurn, r, n)
RoomN(r, p, n) == Repeat(LAMBDA x : RoomTurn(x, p), r, n)
UpdateN(r, n) == Repeat(UpdateTurn, r, n)

\* f lists what r becomes over n turns of the drain loop, each of them in V.
DrainRun(f, n, r, V) ==
  /\ f[0] = r /\ \A i \in 0 .. n : f[i] \in V
  /\ \A i \in 1 .. n : f[i] = DrainTurn(f[i - 1])
  /\ DrainN(r, n) = f[n]

LEMMA DrainRuns ==
  ASSUME NEW n \in Nat, NEW V, NEW r \in V, \A x \in V : DrainTurn(x) \in V
  PROVE  \E f : DrainRun(f, n, r, V)
<1> DEFINE Step(x) == DrainTurn(x)
           D == [x \in V |-> Step(x)]
           F(h) == [i \in 0 .. n |-> IF i = 0 THEN r ELSE Step(h[i - 1])]
           f == CHOOSE h : h = F(h)
<1>1. DrainN(r, n) = f[n]
  BY Zenon DEF Repeat, DrainN, RoomN, UpdateN
<1>2. \A x \in V : Step(x) \in V
  OBVIOUS
<1>d. \A x : Step(x) = DrainTurn(x)
  OBVIOUS
<1> HIDE DEF Step
<1>3. D \in [V -> V] /\ \A x \in V : D[x] = Step(x)
  BY <1>2
<1> HIDE DEF D
<1>4. PICK e \in [0 .. n -> V] : Steps(e, n, r, D)
  BY <1>3, StepsExist
<1>5. e = F(e)
  <2>1. \A i \in 0 .. n : e[i] = IF i = 0 THEN r ELSE D[e[i - 1]]
    BY <1>4, Zenon DEF Steps
  <2>2. ASSUME NEW i \in 0 .. n PROVE e[i] = IF i = 0 THEN r ELSE Step(e[i - 1])
    <3>1. i # 0 => i - 1 \in 0 .. n
      OBVIOUS
    <3> QED BY <1>3, <2>1, <3>1
  <2>3. e = [i \in 0 .. n |-> e[i]]
    OBVIOUS
  <2> QED BY <2>2, <2>3
<1> HIDE DEF F
<1>6. f = F(f)
  BY <1>5
<1> HIDE DEF f
<1>7. \A i \in 0 .. n : f[i] = IF i = 0 THEN r ELSE Step(f[i - 1])
  BY <1>6 DEF F
<1>8. f[0] = r /\ \A i \in 1 .. n : f[i] = Step(f[i - 1])
  BY <1>7
<1>9. \A i \in 0 .. n : f[i] \in V
  BY <1>2, <1>8, StepsStay
<1>10. f[0] = r /\ (\A i \in 0 .. n : f[i] \in V) /\ \A i \in 1 .. n : f[i] = DrainTurn(f[i - 1])
  BY <1>8, <1>9, <1>d
<1>11. DrainRun(f, n, r, V)
  BY <1>1, <1>10, Zenon DEF DrainRun
<1> QED BY <1>11, Zenon

LEMMA RoomRuns ==
  ASSUME NEW n \in Nat, NEW V, NEW r \in V, NEW p, \A x \in V : RoomTurn(x, p) \in V
  PROVE  \E f : /\ f[0] = r /\ \A i \in 0 .. n : f[i] \in V
                /\ \A i \in 1 .. n : f[i] = RoomTurn(f[i - 1], p)
                /\ RoomN(r, p, n) = f[n]
<1> DEFINE Step(x) == RoomTurn(x, p)
           D == [x \in V |-> Step(x)]
           F(h) == [i \in 0 .. n |-> IF i = 0 THEN r ELSE Step(h[i - 1])]
           f == CHOOSE h : h = F(h)
<1>1. RoomN(r, p, n) = f[n]
  BY Zenon DEF Repeat, DrainN, RoomN, UpdateN
<1>2. \A x \in V : Step(x) \in V
  OBVIOUS
<1>d. \A x : Step(x) = RoomTurn(x, p)
  OBVIOUS
<1> HIDE DEF Step
<1>3. D \in [V -> V] /\ \A x \in V : D[x] = Step(x)
  BY <1>2
<1> HIDE DEF D
<1>4. PICK e \in [0 .. n -> V] : Steps(e, n, r, D)
  BY <1>3, StepsExist
<1>5. e = F(e)
  <2>1. \A i \in 0 .. n : e[i] = IF i = 0 THEN r ELSE D[e[i - 1]]
    BY <1>4, Zenon DEF Steps
  <2>2. ASSUME NEW i \in 0 .. n PROVE e[i] = IF i = 0 THEN r ELSE Step(e[i - 1])
    <3>1. i # 0 => i - 1 \in 0 .. n
      OBVIOUS
    <3> QED BY <1>3, <2>1, <3>1
  <2>3. e = [i \in 0 .. n |-> e[i]]
    OBVIOUS
  <2> QED BY <2>2, <2>3
<1> HIDE DEF F
<1>6. f = F(f)
  BY <1>5
<1> HIDE DEF f
<1>7. \A i \in 0 .. n : f[i] = IF i = 0 THEN r ELSE Step(f[i - 1])
  BY <1>6 DEF F
<1>8. f[0] = r /\ \A i \in 1 .. n : f[i] = Step(f[i - 1])
  BY <1>7
<1>9. \A i \in 0 .. n : f[i] \in V
  BY <1>2, <1>8, StepsStay
<1> QED BY <1>1, <1>8, <1>9, <1>d

LEMMA UpdateRuns ==
  ASSUME NEW n \in Nat, NEW V, NEW r \in V, \A x \in V : UpdateTurn(x) \in V
  PROVE  \E f : /\ f[0] = r /\ \A i \in 0 .. n : f[i] \in V
                /\ \A i \in 1 .. n : f[i] = UpdateTurn(f[i - 1])
                /\ UpdateN(r, n) = f[n]
<1> DEFINE Step(x) == UpdateTurn(x)
           D == [x \in V |-> Step(x)]
           F(h) == [i \in 0 .. n |-> IF i = 0 THEN r ELSE Step(h[i - 1])]
           f == CHOOSE h : h = F(h)
<1>1. UpdateN(r, n) = f[n]
  BY Zenon DEF Repeat, DrainN, RoomN, UpdateN
<1>2. \A x \in V : Step(x) \in V
  OBVIOUS
<1>d. \A x : Step(x) = UpdateTurn(x)
  OBVIOUS
<1> HIDE DEF Step
<1>3. D \in [V -> V] /\ \A x \in V : D[x] = Step(x)
  BY <1>2
<1> HIDE DEF D
<1>4. PICK e \in [0 .. n -> V] : Steps(e, n, r, D)
  BY <1>3, StepsExist
<1>5. e = F(e)
  <2>1. \A i \in 0 .. n : e[i] = IF i = 0 THEN r ELSE D[e[i - 1]]
    BY <1>4, Zenon DEF Steps
  <2>2. ASSUME NEW i \in 0 .. n PROVE e[i] = IF i = 0 THEN r ELSE Step(e[i - 1])
    <3>1. i # 0 => i - 1 \in 0 .. n
      OBVIOUS
    <3> QED BY <1>3, <2>1, <3>1
  <2>3. e = [i \in 0 .. n |-> e[i]]
    OBVIOUS
  <2> QED BY <2>2, <2>3
<1> HIDE DEF F
<1>6. f = F(f)
  BY <1>5
<1> HIDE DEF f
<1>7. \A i \in 0 .. n : f[i] = IF i = 0 THEN r ELSE Step(f[i - 1])
  BY <1>6 DEF F
<1>8. f[0] = r /\ \A i \in 1 .. n : f[i] = Step(f[i - 1])
  BY <1>7
<1>9. \A i \in 0 .. n : f[i] \in V
  BY <1>2, <1>8, StepsStay
<1> QED BY <1>1, <1>8, <1>9, <1>d

\* A buffered message, when the snapshot up to end has been read.
Replayed(b, k, end) == IF k >= end THEN Applied(b, k) ELSE b
ReplayAll(b, ks, end) == FoldLeft(LAMBDA x, k : Replayed(x, k, end), b, ks)

LEMMA ObservedRuns ==
  ASSUME NEW C, NEW q \in Seq(C), NEW V, NEW s \in V,
         \A i \in DOMAIN q : \A x \in V : Observed(x, q[i]) \in V
  PROVE  \E v : /\ v[0] = s /\ \A i \in 0 .. Len(q) : v[i] \in V
                /\ \A i \in 1 .. Len(q) : v[i] = Observed(v[i - 1], q[i])
                /\ FoldLeft(Observed, s, q) = v[Len(q)]
<1> DEFINE n == Len(q)
           Step(i, x) == Observed(x, q[i])
           D == [z \in (1 .. n) \X V |-> Step(z[1], z[2])]
           F(h) == [t \in SUBSET DOMAIN q |-> IF t = {} THEN s ELSE Step(Max(t), h[t \ {Max(t)}])]
           f == CHOOSE h : h = F(h)
<1>1. n \in Nat /\ DOMAIN q = 1 .. n
  OBVIOUS
<1>2. FoldLeft(Observed, s, q) = f[DOMAIN q]
  BY Zenon DEF FoldLeft, MapThenFoldSet
<1>3. \A i \in 1 .. n : \A x \in V : Step(i, x) \in V
  BY <1>1
<1>d. \A i, x : Step(i, x) = Observed(x, q[i])
  OBVIOUS
<1> HIDE DEF n, Step
<1>4. D \in [(1 .. n) \X V -> V] /\ \A i \in 1 .. n : \A x \in V : D[<<i, x>>] = Step(i, x)
  BY <1>3
<1> HIDE DEF D
<1>5. PICK e \in [SUBSET (1 .. n) -> V] : FoldsBy(e, n, s, D)
  BY <1>1, <1>4, FoldExists
<1>6. /\ e[{}] = s
      /\ \A t \in SUBSET (1 .. n) : t # {} =>
           Max(t) \in t /\ e[t] = D[<<Max(t), e[t \ {Max(t)}]>>]
  BY <1>5 DEF FoldsBy
<1>7. e = F(e)
  <2>1. ASSUME NEW t \in SUBSET (1 .. n)
        PROVE  e[t] = IF t = {} THEN s ELSE Step(Max(t), e[t \ {Max(t)}])
    <3>1. CASE t = {}
      BY <1>6, <3>1
    <3>2. CASE t # {}
      <4>1. Max(t) \in 1 .. n /\ t \ {Max(t)} \in SUBSET (1 .. n)
        BY <1>6, <3>2
      <4>2. e[t] = D[<<Max(t), e[t \ {Max(t)}]>>] /\ e[t \ {Max(t)}] \in V
        BY <1>6, <3>2, <4>1
      <4>3. D[<<Max(t), e[t \ {Max(t)}]>>] = Step(Max(t), e[t \ {Max(t)}])
        BY <1>4, <4>1, <4>2
      <4> QED BY <3>2, <4>1, <4>2, <4>3
    <3> QED BY <3>1, <3>2
  <2>2. e = [t \in SUBSET (1 .. n) |-> e[t]]
    OBVIOUS
  <2> QED BY <1>1, <2>1, <2>2
<1> HIDE DEF F
<1>8. f = F(f)
  BY <1>7
<1> HIDE DEF f
<1>9. \A t \in SUBSET (1 .. n) : f[t] = IF t = {} THEN s ELSE Step(Max(t), f[t \ {Max(t)}])
  BY <1>1, <1>8 DEF F
<1> DEFINE v == [i \in 0 .. n |-> f[1 .. i]]
<1>10. v[0] = s /\ v[n] = f[DOMAIN q]
  <2>1. 1 .. 0 = {} /\ {} \in SUBSET (1 .. n)
    OBVIOUS
  <2>2. f[{}] = s
    BY <1>9, <2>1
  <2>3. v[0] = f[1 .. 0] /\ v[n] = f[1 .. n]
    BY <1>1
  <2> QED BY <1>1, <2>1, <2>2, <2>3
<1>11. ASSUME NEW i \in 1 .. n PROVE v[i] = Step(i, v[i - 1])
  <2>1. 1 .. i \in SUBSET (1 .. n) /\ 1 .. i # {} /\ (1 .. i) \ {i} = 1 .. i - 1
    BY <1>1
  <2>2. Max(1 .. i) = i
    BY <1>1, MaxOfInterval
  <2>3. f[1 .. i] = Step(i, f[1 .. i - 1])
    BY <1>9, <2>1, <2>2
  <2>4. v[i] = f[1 .. i] /\ v[i - 1] = f[1 .. i - 1]
    BY <1>1
  <2> QED BY <2>3, <2>4
<1> HIDE DEF v
<1>12. \A i \in 0 .. n : v[i] \in V
  <2>1. \A i \in 1 .. n : v[i - 1] \in V => v[i] \in V
    BY <1>3, <1>11
  <2> QED BY <1>1, <1>10, <2>1, StepsStay
<1> QED BY <1>2, <1>10, <1>11, <1>12, <1>d DEF n

LEMMA CallbackRuns ==
  ASSUME NEW C, NEW q \in Seq(C), NEW V, NEW s \in V,
         \A i \in DOMAIN q : \A x \in V : Callback(x, q[i]) \in V
  PROVE  \E v : /\ v[0] = s /\ \A i \in 0 .. Len(q) : v[i] \in V
                /\ \A i \in 1 .. Len(q) : v[i] = Callback(v[i - 1], q[i])
                /\ FoldLeft(Callback, s, q) = v[Len(q)]
<1> DEFINE n == Len(q)
           Step(i, x) == Callback(x, q[i])
           D == [z \in (1 .. n) \X V |-> Step(z[1], z[2])]
           F(h) == [t \in SUBSET DOMAIN q |-> IF t = {} THEN s ELSE Step(Max(t), h[t \ {Max(t)}])]
           f == CHOOSE h : h = F(h)
<1>1. n \in Nat /\ DOMAIN q = 1 .. n
  OBVIOUS
<1>2. FoldLeft(Callback, s, q) = f[DOMAIN q]
  BY Zenon DEF FoldLeft, MapThenFoldSet
<1>3. \A i \in 1 .. n : \A x \in V : Step(i, x) \in V
  BY <1>1
<1>d. \A i, x : Step(i, x) = Callback(x, q[i])
  OBVIOUS
<1> HIDE DEF n, Step
<1>4. D \in [(1 .. n) \X V -> V] /\ \A i \in 1 .. n : \A x \in V : D[<<i, x>>] = Step(i, x)
  BY <1>3
<1> HIDE DEF D
<1>5. PICK e \in [SUBSET (1 .. n) -> V] : FoldsBy(e, n, s, D)
  BY <1>1, <1>4, FoldExists
<1>6. /\ e[{}] = s
      /\ \A t \in SUBSET (1 .. n) : t # {} =>
           Max(t) \in t /\ e[t] = D[<<Max(t), e[t \ {Max(t)}]>>]
  BY <1>5 DEF FoldsBy
<1>7. e = F(e)
  <2>1. ASSUME NEW t \in SUBSET (1 .. n)
        PROVE  e[t] = IF t = {} THEN s ELSE Step(Max(t), e[t \ {Max(t)}])
    <3>1. CASE t = {}
      BY <1>6, <3>1
    <3>2. CASE t # {}
      <4>1. Max(t) \in 1 .. n /\ t \ {Max(t)} \in SUBSET (1 .. n)
        BY <1>6, <3>2
      <4>2. e[t] = D[<<Max(t), e[t \ {Max(t)}]>>] /\ e[t \ {Max(t)}] \in V
        BY <1>6, <3>2, <4>1
      <4>3. D[<<Max(t), e[t \ {Max(t)}]>>] = Step(Max(t), e[t \ {Max(t)}])
        BY <1>4, <4>1, <4>2
      <4> QED BY <3>2, <4>1, <4>2, <4>3
    <3> QED BY <3>1, <3>2
  <2>2. e = [t \in SUBSET (1 .. n) |-> e[t]]
    OBVIOUS
  <2> QED BY <1>1, <2>1, <2>2
<1> HIDE DEF F
<1>8. f = F(f)
  BY <1>7
<1> HIDE DEF f
<1>9. \A t \in SUBSET (1 .. n) : f[t] = IF t = {} THEN s ELSE Step(Max(t), f[t \ {Max(t)}])
  BY <1>1, <1>8 DEF F
<1> DEFINE v == [i \in 0 .. n |-> f[1 .. i]]
<1>10. v[0] = s /\ v[n] = f[DOMAIN q]
  <2>1. 1 .. 0 = {} /\ {} \in SUBSET (1 .. n)
    OBVIOUS
  <2>2. f[{}] = s
    BY <1>9, <2>1
  <2>3. v[0] = f[1 .. 0] /\ v[n] = f[1 .. n]
    BY <1>1
  <2> QED BY <1>1, <2>1, <2>2, <2>3
<1>11. ASSUME NEW i \in 1 .. n PROVE v[i] = Step(i, v[i - 1])
  <2>1. 1 .. i \in SUBSET (1 .. n) /\ 1 .. i # {} /\ (1 .. i) \ {i} = 1 .. i - 1
    BY <1>1
  <2>2. Max(1 .. i) = i
    BY <1>1, MaxOfInterval
  <2>3. f[1 .. i] = Step(i, f[1 .. i - 1])
    BY <1>9, <2>1, <2>2
  <2>4. v[i] = f[1 .. i] /\ v[i - 1] = f[1 .. i - 1]
    BY <1>1
  <2> QED BY <2>3, <2>4
<1> HIDE DEF v
<1>12. \A i \in 0 .. n : v[i] \in V
  <2>1. \A i \in 1 .. n : v[i - 1] \in V => v[i] \in V
    BY <1>3, <1>11
  <2> QED BY <1>1, <1>10, <2>1, StepsStay
<1> QED BY <1>2, <1>10, <1>11, <1>12, <1>d DEF n

LEMMA ReplayRuns ==
  ASSUME NEW C, NEW q \in Seq(C), NEW V, NEW s \in V, NEW end,
         \A i \in DOMAIN q : \A x \in V : Replayed(x, q[i], end) \in V
  PROVE  \E v : /\ v[0] = s /\ \A i \in 0 .. Len(q) : v[i] \in V
                /\ \A i \in 1 .. Len(q) : v[i] = Replayed(v[i - 1], q[i], end)
                /\ ReplayAll(s, q, end) = v[Len(q)]
<1> DEFINE n == Len(q)
           Step(i, x) == Replayed(x, q[i], end)
           D == [z \in (1 .. n) \X V |-> Step(z[1], z[2])]
           F(h) == [t \in SUBSET DOMAIN q |-> IF t = {} THEN s ELSE Step(Max(t), h[t \ {Max(t)}])]
           f == CHOOSE h : h = F(h)
<1>1. n \in Nat /\ DOMAIN q = 1 .. n
  OBVIOUS
<1>2. ReplayAll(s, q, end) = f[DOMAIN q]
  BY Zenon DEF ReplayAll, FoldLeft, MapThenFoldSet
<1>3. \A i \in 1 .. n : \A x \in V : Step(i, x) \in V
  BY <1>1
<1>d. \A i, x : Step(i, x) = Replayed(x, q[i], end)
  OBVIOUS
<1> HIDE DEF n, Step
<1>4. D \in [(1 .. n) \X V -> V] /\ \A i \in 1 .. n : \A x \in V : D[<<i, x>>] = Step(i, x)
  BY <1>3
<1> HIDE DEF D
<1>5. PICK e \in [SUBSET (1 .. n) -> V] : FoldsBy(e, n, s, D)
  BY <1>1, <1>4, FoldExists
<1>6. /\ e[{}] = s
      /\ \A t \in SUBSET (1 .. n) : t # {} =>
           Max(t) \in t /\ e[t] = D[<<Max(t), e[t \ {Max(t)}]>>]
  BY <1>5 DEF FoldsBy
<1>7. e = F(e)
  <2>1. ASSUME NEW t \in SUBSET (1 .. n)
        PROVE  e[t] = IF t = {} THEN s ELSE Step(Max(t), e[t \ {Max(t)}])
    <3>1. CASE t = {}
      BY <1>6, <3>1
    <3>2. CASE t # {}
      <4>1. Max(t) \in 1 .. n /\ t \ {Max(t)} \in SUBSET (1 .. n)
        BY <1>6, <3>2
      <4>2. e[t] = D[<<Max(t), e[t \ {Max(t)}]>>] /\ e[t \ {Max(t)}] \in V
        BY <1>6, <3>2, <4>1
      <4>3. D[<<Max(t), e[t \ {Max(t)}]>>] = Step(Max(t), e[t \ {Max(t)}])
        BY <1>4, <4>1, <4>2
      <4> QED BY <3>2, <4>1, <4>2, <4>3
    <3> QED BY <3>1, <3>2
  <2>2. e = [t \in SUBSET (1 .. n) |-> e[t]]
    OBVIOUS
  <2> QED BY <1>1, <2>1, <2>2
<1> HIDE DEF F
<1>8. f = F(f)
  BY <1>7
<1> HIDE DEF f
<1>9. \A t \in SUBSET (1 .. n) : f[t] = IF t = {} THEN s ELSE Step(Max(t), f[t \ {Max(t)}])
  BY <1>1, <1>8 DEF F
<1> DEFINE v == [i \in 0 .. n |-> f[1 .. i]]
<1>10. v[0] = s /\ v[n] = f[DOMAIN q]
  <2>1. 1 .. 0 = {} /\ {} \in SUBSET (1 .. n)
    OBVIOUS
  <2>2. f[{}] = s
    BY <1>9, <2>1
  <2>3. v[0] = f[1 .. 0] /\ v[n] = f[1 .. n]
    BY <1>1
  <2> QED BY <1>1, <2>1, <2>2, <2>3
<1>11. ASSUME NEW i \in 1 .. n PROVE v[i] = Step(i, v[i - 1])
  <2>1. 1 .. i \in SUBSET (1 .. n) /\ 1 .. i # {} /\ (1 .. i) \ {i} = 1 .. i - 1
    BY <1>1
  <2>2. Max(1 .. i) = i
    BY <1>1, MaxOfInterval
  <2>3. f[1 .. i] = Step(i, f[1 .. i - 1])
    BY <1>9, <2>1, <2>2
  <2>4. v[i] = f[1 .. i] /\ v[i - 1] = f[1 .. i - 1]
    BY <1>1
  <2> QED BY <2>3, <2>4
<1> HIDE DEF v
<1>12. \A i \in 0 .. n : v[i] \in V
  <2>1. \A i \in 1 .. n : v[i - 1] \in V => v[i] \in V
    BY <1>3, <1>11
  <2> QED BY <1>1, <1>10, <2>1, StepsStay
<1> QED BY <1>2, <1>10, <1>11, <1>12, <1>d DEF n

-----------------------------------------------------------------------------
(***************************************************************************)
(* During a call of the receiver: c is what it started with, the sequence  *)
(* its first callback starts at, what has arrived, highest_ and eos_.      *)
(***************************************************************************)
Contexts == [from : Nat, have : SUBSET Nat, top : Nat, eos : BOOLEAN]

\* The callbacks of q go from a to b without a hole.
Chained(q, a, b) ==
  /\ \A i \in DOMAIN q : /\ q[i] \in Messages \cup Gaps
                         /\ q[i].from = IF i = 1 THEN a ELSE q[i - 1].to
                         /\ q[i].from <= q[i].to
                         /\ q[i].call = "message" => q[i].to = q[i].from + 1
  /\ b = IF Len(q) = 0 THEN a ELSE q[Len(q)].to

\* They give up nothing of H.
Spares(q, H) ==
  \A i \in DOMAIN q : q[i].call = "unrecoverable" =>
                        \A x \in H : x < q[i].from \/ x >= q[i].to

Working(r, c, K) ==
  /\ r \in Receivers /\ Chained(r.out, c.from, r.next) /\ Spares(r.out, c.have)
  /\ InHand(r, K) /\ (\A h \in r.held : h.end <= c.top)
  /\ 1 <= r.next /\ r.next <= c.top /\ r.highest = c.top /\ r.eos = c.eos

Ready(r, c, K) == Working(r, c, K) /\ \A h \in r.held : h.seq > r.next

LEMMA LesserFacts ==
  ASSUME NEW a \in Int, NEW b \in Int
  PROVE  /\ Lesser(a, b) \in {a, b} /\ Lesser(a, b) <= a /\ Lesser(a, b) <= b
         /\ Greater(a, b) \in {a, b} /\ Greater(a, b) >= a /\ Greater(a, b) >= b
  BY DEF Lesser, Greater

LEMMA HoleEndFacts ==
  ASSUME NEW r \in Receivers, NEW limit \in Nat, NEW e, e = HoleEnd(r, limit)
  PROVE  /\ e \in Nat /\ e <= limit /\ (\A h \in r.held : e <= h.seq)
         /\ e = limit \/ \E h \in r.held : e = h.seq
<1> DEFINE S == {h.seq : h \in r.held} \cup {limit}
<1>1. r.held \in SUBSET HeldPackets
  BY DEF Receivers, Buffers
<1>2. S \in SUBSET Nat /\ S # {}
  BY <1>1 DEF HeldPackets
<1>3. e = Min(S)
  BY DEF HoleEnd
<1>4. e \in S /\ \A y \in S : e <= y
  <2> HIDE DEF S
  <2> QED BY <1>2, <1>3, MinIsMember
<1> QED BY <1>1, <1>2, <1>4

LEMMA HoleAgeType ==
  ASSUME NEW r \in Receivers
  PROVE  HoleAge(r) \in Nat
<1> DEFINE S == {h.age : h \in r.held} \cup {r.hiAge}
<1>1. r.held \in SUBSET HeldPackets /\ IsFiniteSet(r.held) /\ r.hiAge \in Nat
  BY DEF Receivers, Buffers
<1>2. S \in SUBSET Nat /\ S # {}
  BY <1>1 DEF HeldPackets
<1>3. IsFiniteSet(S)
  <2> DEFINE A == {h.age : h \in r.held}
  <2>1. IsFiniteSet(A)
    <3> DEFINE f == [h \in r.held |-> h.age]
    <3>1. f \in Surjection(r.held, A)
      BY DEF Surjection
    <3> HIDE DEF f, A
    <3> QED BY <1>1, <3>1, FS_Surjection
  <2> HIDE DEF A
  <2>2. IsFiniteSet(A \cup {r.hiAge})
    BY <2>1, FS_AddElement
  <2> QED BY <2>2 DEF A
<1>4. \E x \in S : \A y \in S : x >= y
  <2> HIDE DEF S
  <2> DEFINE f == [x \in S |-> x]
  <2>1. f \in [S -> Nat] /\ \A x \in S : f[x] = x
    BY <1>2
  <2> HIDE DEF f
  <2>2. \E x \in S : \A y \in S : f[y] <= f[x]
    BY <1>2, <1>3, <2>1, ExtremeValues
  <2> QED BY <1>2, <2>1, <2>2
<1>5. HoleAge(r) = CHOOSE x \in S : \A y \in S : x >= y
  BY Zenon DEF HoleAge, Max
<1>6. HoleAge(r) \in S
  <2> HIDE DEF S
  <2> QED BY <1>4, <1>5
<1> QED BY <1>2, <1>6

LEMMA ChainAppend ==
  ASSUME NEW a \in Nat, NEW b \in Nat, NEW q \in Seq(Calls), Chained(q, a, b),
         NEW k \in Messages \cup Gaps, k.from = b, k.from <= k.to,
         k.call = "message" => k.to = k.from + 1
  PROVE  Append(q, k) \in Seq(Calls) /\ Chained(Append(q, k), a, k.to)
<1> DEFINE w == Append(q, k)
           n == Len(q)
<1>1. /\ n \in Nat /\ w \in Seq(Calls) /\ Len(w) = n + 1 /\ DOMAIN w = 1 .. n + 1 /\ DOMAIN q = 1 .. n
      /\ (\A i \in 1 .. n : w[i] = q[i]) /\ w[n + 1] = k
  BY DEF Calls
<1> HIDE DEF w
<1>2. ASSUME NEW i \in 1 .. n + 1
      PROVE  /\ w[i] \in Messages \cup Gaps
             /\ w[i].from = IF i = 1 THEN a ELSE w[i - 1].to
             /\ w[i].from <= w[i].to
             /\ w[i].call = "message" => w[i].to = w[i].from + 1
  <2>1. CASE i \in 1 .. n
    <3>1. w[i] = q[i] /\ (i # 1 => w[i - 1] = q[i - 1])
      BY <1>1, <2>1
    <3> QED BY <1>1, <2>1, <3>1 DEF Chained
  <2>2. CASE i = n + 1
    <3>1. w[i] = k /\ (n # 0 => w[i - 1] = q[n])
      BY <1>1, <2>2
    <3>2. b = IF n = 0 THEN a ELSE q[n].to
      BY DEF Chained
    <3> QED BY <1>1, <2>2, <3>1, <3>2
  <2> QED BY <1>1, <2>1, <2>2
<1>3. k.to = IF Len(w) = 0 THEN a ELSE w[Len(w)].to
  BY <1>1
<1>4. Chained(w, a, k.to)
  BY <1>1, <1>2, <1>3 DEF Chained
<1> QED BY <1>1, <1>4 DEF w

LEMMA SparesAppend ==
  ASSUME NEW q \in Seq(Calls), NEW H, Spares(q, H), NEW k \in Calls,
         k.call = "unrecoverable" => \A x \in H : x < k.from \/ x >= k.to
  PROVE  Spares(Append(q, k), H)
<1> DEFINE w == Append(q, k)
<1>1. /\ Len(q) \in Nat /\ DOMAIN w = 1 .. Len(q) + 1 /\ DOMAIN q = 1 .. Len(q)
      /\ (\A i \in 1 .. Len(q) : w[i] = q[i]) /\ w[Len(q) + 1] = k
  OBVIOUS
<1> HIDE DEF w
<1>2. ASSUME NEW i \in DOMAIN w, w[i].call = "unrecoverable"
      PROVE  \A x \in H : x < w[i].from \/ x >= w[i].to
  <2>1. CASE i \in 1 .. Len(q)
    BY <1>1, <1>2, <2>1 DEF Spares
  <2>2. CASE i = Len(q) + 1
    BY <1>1, <1>2, <2>2
  <2> QED BY <1>1, <2>1, <2>2
<1> QED BY <1>2 DEF Spares, w

Joined(w, q, u) ==
  /\ w \in Seq(Calls) /\ Len(w) = Len(q) + Len(u)
  /\ (\A i \in 1 .. Len(q) : w[i] = q[i]) /\ (\A i \in 1 .. Len(u) : w[Len(q) + i] = u[i])

\* The messages of a packet, from the first one that is due.
Follows(u, b, m) ==
  /\ u \in Seq(Messages) /\ Len(u) = m
  /\ \A i \in 1 .. m : u[i].from = b + i - 1 /\ u[i].to = b + i

LEMMA JoinFacts ==
  ASSUME NEW q \in Seq(Calls), NEW u \in Seq(Messages), NEW w, w = q \o u
  PROVE  Joined(w, q, u)
<1>1. u \in Seq(Calls)
  BY DEF Calls
<1> QED BY <1>1 DEF Joined

LEMMA ChainMessages ==
  ASSUME NEW a \in Nat, NEW b \in Nat, NEW q \in Seq(Calls), Chained(q, a, b),
         NEW m \in Nat \ {0}, NEW u, Follows(u, b, m), NEW H, Spares(q, H), NEW w, Joined(w, q, u)
  PROVE  w \in Seq(Calls) /\ Chained(w, a, b + m) /\ Spares(w, H)
<1> DEFINE n == Len(q)
<1>0. \A i \in 1 .. m : u[i] \in Messages /\ u[i].from = b + i - 1 /\ u[i].to = b + i
  BY DEF Follows
<1>1. /\ n \in Nat /\ w \in Seq(Calls) /\ Len(w) = n + m /\ DOMAIN w = 1 .. n + m /\ DOMAIN q = 1 .. n
      /\ (\A i \in 1 .. n : w[i] = q[i]) /\ (\A i \in 1 .. m : w[n + i] = u[i])
  BY DEF Joined, Follows
<1>2. ASSUME NEW i \in 1 .. n + m, i > n
      PROVE  /\ w[i] \in Messages /\ w[i].from = b + (i - n) - 1 /\ w[i].to = b + (i - n)
  <2>1. i - n \in 1 .. m /\ n + (i - n) = i
    BY <1>1, <1>2
  <2> QED BY <1>0, <1>1, <2>1
<1>3. ASSUME NEW i \in 1 .. n + m
      PROVE  /\ w[i] \in Messages \cup Gaps
             /\ w[i].from = IF i = 1 THEN a ELSE w[i - 1].to
             /\ w[i].from <= w[i].to
             /\ w[i].call = "message" => w[i].to = w[i].from + 1
  <2>1. CASE i \in 1 .. n
    <3>1. w[i] = q[i] /\ (i # 1 => w[i - 1] = q[i - 1])
      BY <1>1, <2>1
    <3> QED BY <1>1, <2>1, <3>1 DEF Chained
  <2>2. CASE i > n
    <3>1. w[i] \in Messages /\ w[i].from = b + (i - n) - 1 /\ w[i].to = b + (i - n)
      BY <1>2, <2>2
    <3>2. w[i].from = IF i = 1 THEN a ELSE w[i - 1].to
      <4>1. CASE i = n + 1
        <5>1. b = IF n = 0 THEN a ELSE q[n].to
          BY DEF Chained
        <5>2. n # 0 => w[i - 1] = q[n]
          BY <1>1, <4>1
        <5> QED BY <1>1, <3>1, <4>1, <5>1, <5>2
      <4>2. CASE i > n + 1
        <5>1. i - 1 \in 1 .. n + m /\ i - 1 > n
          BY <1>1, <4>2
        <5>2. w[i - 1].to = b + ((i - 1) - n)
          BY <1>2, <5>1
        <5> QED BY <1>1, <3>1, <4>2, <5>2
      <4> QED BY <1>1, <2>2, <4>1, <4>2
    <3> QED BY <1>1, <3>1, <3>2
  <2> QED BY <1>1, <2>1, <2>2
<1>4. b + m = IF Len(w) = 0 THEN a ELSE w[Len(w)].to
  <2>1. n + m \in 1 .. n + m /\ n + m > n
    BY <1>1
  <2>2. w[n + m].to = b + ((n + m) - n)
    BY <1>2, <2>1
  <2> QED BY <1>1, <2>2
<1>5. Chained(w, a, b + m)
  BY <1>1, <1>3, <1>4 DEF Chained
<1>6. Spares(w, H)
  <2>1. ASSUME NEW i \in 1 .. n + m, w[i].call = "unrecoverable"
        PROVE  \A x \in H : x < w[i].from \/ x >= w[i].to
    <3>1. CASE i \in 1 .. n
      BY <1>1, <2>1, <3>1 DEF Spares
    <3>2. CASE i > n
      BY <1>2, <2>1, <3>2 DEF Messages
    <3> QED BY <1>1, <3>1, <3>2
  <2> QED BY <1>1, <2>1 DEF Spares
<1> QED BY <1>1, <1>5, <1>6

LEMMA InHandMore ==
  ASSUME NEW r \in Receivers, NEW x \in Receivers, NEW K \in SUBSET Nat, InHand(r, K),
         x.next >= r.next, \A h \in r.held : h \in x.held \/ h.end <= x.next
  PROVE  InHand(x, K)
<1>1. ASSUME NEW q \in K PROVE q < x.next \/ \E h \in x.held : h.seq <= q /\ q < h.end
  <2>1. r.next \in Nat /\ x.next \in Nat /\ q \in Nat
    BY DEF Receivers
  <2>2. CASE q < r.next
    BY <2>1, <2>2
  <2>3. CASE \E h \in r.held : h.seq <= q /\ q < h.end
    <3>1. PICK h \in r.held : h.seq <= q /\ q < h.end
      BY <2>3
    <3>2. h.end \in Nat
      BY DEF Receivers, Buffers, HeldPackets
    <3> QED BY <2>1, <3>1, <3>2
  <2> QED BY <2>2, <2>3 DEF InHand
<1> QED BY <1>1 DEF InHand

LEMMA DeliverWorks ==
  ASSUME NEW c \in Contexts, NEW K \in SUBSET Nat, NEW r, Working(r, c, K),
         NEW p, p.seq \in Nat, p.end \in Nat,
         p.seq <= r.next, r.next < p.end, p.end <= c.top, NEW x, x = Deliver(r, p)
  PROVE  Working(x, c, K) /\ x.next = p.end /\ x.held = r.held
<1>1. /\ r \in Receivers /\ r.next \in Nat /\ r.out \in Seq(Calls) /\ r.held \in Buffers
      /\ Chained(r.out, c.from, r.next) /\ Spares(r.out, c.have) /\ c.from \in Nat /\ c.top \in Nat
  BY DEF Working, Receivers, Contexts
<1>2. PICK m \in Nat \ {0} : m = p.end - r.next
  BY <1>1
<1>3. FirstOf(r, p) = r.next /\ Greater(r.next, p.end) = p.end
  BY <1>1 DEF FirstOf, Greater
<1>4. PICK u : u = [i \in 1 .. m |-> Message(r.next + i - 1, p)]
  OBVIOUS
<1>5. ASSUME NEW i \in 1 .. m
      PROVE  u[i] \in Messages /\ u[i].from = r.next + i - 1 /\ u[i].to = r.next + i
  <2>1. PICK k \in Nat : k = r.next + i - 1
    BY <1>1
  <2>2. u[i] = Message(k, p)
    BY <1>4, <2>1
  <2>3. u[i] = [call |-> "message", from |-> k, to |-> k + 1, pkt |-> <<p.seq, p.end>>]
    BY <2>2 DEF Message
  <2>0. r.next \in Nat /\ i \in Nat
    BY <1>1
  <2>4. k + 1 = r.next + i /\ k + 1 \in Nat
    BY <2>0, <2>1
  <2>5. <<p.seq, p.end>> \in Nat \X Nat
    OBVIOUS
  <2> QED BY <2>1, <2>3, <2>4, <2>5 DEF Messages
<1>6. u \in Seq(Messages) /\ Len(u) = m
  <2>1. u \in [1 .. m -> Messages]
    BY <1>4, <1>5
  <2> QED BY <2>1
<1>m. \A i \in 1 .. m : u[i].from = r.next + i - 1 /\ u[i].to = r.next + i
  BY <1>5
<1>7. PICK w : w = r.out \o u
  OBVIOUS
<1>8. w \in Seq(Calls) /\ Chained(w, c.from, r.next + m) /\ Spares(w, c.have)
  <2>1. Follows(u, r.next, m)
    BY <1>m, <1>6 DEF Follows
  <2>2. Joined(w, r.out, u)
    BY <1>1, <1>6, <1>7, JoinFacts
  <2> QED BY <1>1, <2>1, <2>2, ChainMessages
<1>9. r.next + m = p.end
  BY <1>1, <1>2
<1>10. x = [r EXCEPT !.next = p.end, !.out = w]
  <2>1. x = [r EXCEPT !.next = Greater(r.next, p.end),
                      !.out = r.out \o [i \in 1 .. (p.end - FirstOf(r, p)) |->
                                          Message(FirstOf(r, p) + i - 1, p)]]
    BY Zenon DEF Deliver
  <2>2. [i \in 1 .. (p.end - FirstOf(r, p)) |-> Message(FirstOf(r, p) + i - 1, p)] = u
    BY <1>2, <1>3, <1>4
  <2> QED BY <1>3, <1>7, <2>1, <2>2
<1>11. /\ x \in Receivers /\ x.next = p.end /\ x.out = w /\ x.held = r.held /\ x.highest = r.highest
       /\ x.eos = r.eos
  BY <1>1, <1>8, <1>10 DEF Receivers
<1>12. InHand(x, K)
  <2>1. x.next >= r.next
    BY <1>1, <1>11
  <2> QED BY <1>1, <1>11, <2>1, InHandMore DEF Working
<1> QED BY <1>1, <1>8, <1>9, <1>11, <1>12 DEF Working

\* Nothing was due, or a packet left the buffer.
Drained(r, x) == \/ x = r /\ \A h \in r.held : h.seq > r.next
                 \/ \E h \in r.held : x.held = r.held \ {h}

LEMMA DrainTurnWorks ==
  ASSUME NEW c \in Contexts, NEW K \in SUBSET Nat, NEW r, Working(r, c, K), NEW x, x = DrainTurn(r)
  PROVE  /\ Working(x, c, K)
         /\ Drained(r, x)
<1> DEFINE due == {h \in r.held : h.seq <= r.next}
<1>1. r \in Receivers /\ r.next \in Nat /\ r.held \in SUBSET HeldPackets /\ IsFiniteSet(r.held)
  BY DEF Working, Receivers, Buffers
<1>2. CASE due = {}
  <2>1. x = r
    BY <1>2 DEF DrainTurn
  <2>2. ASSUME NEW h \in r.held PROVE h.seq > r.next
    <3>1. h.seq \in Nat /\ ~(h.seq <= r.next)
      BY <1>1, <1>2 DEF HeldPackets
    <3> QED BY <1>1, <3>1
  <2> QED BY <2>1, <2>2 DEF Drained
<1>3. CASE due # {}
  <2>1. PICK h : h = CHOOSE z \in due : TRUE
    OBVIOUS
  <2>2. h \in due
    BY <1>3, <2>1
  <2>3. h \in r.held /\ h.seq \in Nat /\ h.end \in Nat /\ h.seq <= r.next /\ h.end <= c.top
    BY <1>1, <2>2 DEF HeldPackets, Working
  <2>4. PICK y : y = IF h.end > r.next THEN Deliver(r, h) ELSE r
    OBVIOUS
  <2>5. Working(y, c, K) /\ y.held = r.held /\ h.end <= y.next /\ r.next <= y.next
    <3>1. CASE h.end > r.next
      <4>1. y = Deliver(r, h) /\ r.next < h.end
        BY <1>1, <2>3, <2>4, <3>1
      <4>2. Working(y, c, K) /\ y.next = h.end /\ y.held = r.held
        BY <2>3, <4>1, DeliverWorks
      <4> QED BY <1>1, <2>3, <4>1, <4>2
    <3>2. CASE ~(h.end > r.next)
      BY <1>1, <2>3, <2>4, <3>2
    <3> QED BY <3>1, <3>2
  <2>6. x = [y EXCEPT !.held = @ \ {h}]
    <3> HIDE DEF due
    <3>1. x = LET hh == CHOOSE z \in due : TRUE
                  yy == IF hh.end > r.next THEN Deliver(r, hh) ELSE r
              IN  [yy EXCEPT !.held = @ \ {hh}]
      BY <1>3, Zenon DEF DrainTurn, due
    <3> QED BY <2>1, <2>4, <3>1
  <2>7. y \in Receivers /\ y.held \ {h} \in Buffers
    <3>1. IsFiniteSet(r.held \ {h})
      BY <1>1, FS_RemoveElement
    <3> QED BY <1>1, <2>5, <3>1 DEF Working, Buffers
  <2>8. /\ x \in Receivers /\ x.next = y.next /\ x.held = y.held \ {h} /\ x.out = y.out
        /\ x.highest = y.highest /\ x.eos = y.eos
    BY <2>6, <2>7 DEF Receivers
  <2>9. InHand(x, K)
    <3>1. x.next >= y.next
      BY <2>7, <2>8 DEF Receivers
    <3>2. \A k \in y.held : k \in x.held \/ k.end <= x.next
      BY <2>5, <2>8
    <3> QED BY <2>5, <2>7, <2>8, <3>1, <3>2, InHandMore DEF Working
  <2>10. Working(x, c, K)
    BY <2>5, <2>8, <2>9 DEF Working
  <2> QED BY <2>3, <2>5, <2>8, <2>10 DEF Drained
<1> QED BY <1>2, <1>3

LEMMA DrainAhead ==
  ASSUME NEW r, r \in Receivers, \A h \in r.held : h.seq > r.next, NEW x, x = DrainTurn(r)
  PROVE  x = r
<1>1. r.next \in Nat /\ r.held \in SUBSET HeldPackets
  BY DEF Receivers, Buffers
<1>2. {h \in r.held : h.seq <= r.next} = {}
  BY <1>1 DEF HeldPackets
<1> QED BY <1>2, Zenon DEF DrainTurn

LEMMA DrainTurnLeft ==
  ASSUME NEW c \in Contexts, NEW K \in SUBSET Nat, NEW r, Working(r, c, K), NEW x, x = DrainTurn(r),
         NEW k \in Int, \/ \A h \in r.held : h.seq > r.next
                        \/ IsFiniteSet(r.held) /\ Cardinality(r.held) <= k
  PROVE  \/ \A h \in x.held : h.seq > x.next
         \/ IsFiniteSet(x.held) /\ Cardinality(x.held) <= k - 1
<1>0. Drained(r, x)
  BY DrainTurnWorks
<1>1. \/ x = r /\ \A h \in r.held : h.seq > r.next
      \/ \E h \in r.held : x.held = r.held \ {h}
  BY <1>0 DEF Drained
<1>2. CASE \A h \in r.held : h.seq > r.next
  <2>1. x = r
    BY <1>2, DrainAhead DEF Working
  <2> QED BY <1>2, <2>1
<1>3. CASE /\ IsFiniteSet(r.held) /\ Cardinality(r.held) <= k
           /\ \E h \in r.held : x.held = r.held \ {h}
  <2>1. PICK h \in r.held : x.held = r.held \ {h}
    BY <1>3
  <2>2. /\ IsFiniteSet(x.held) /\ Cardinality(r.held) \in Nat
        /\ Cardinality(x.held) = Cardinality(r.held) - 1
    BY <1>3, <2>1, FS_RemoveElement, FS_CardinalityType
  <2> QED BY <1>3, <2>2
<1> QED BY <1>1, <1>2, <1>3

LEMMA DrainWorks ==
  ASSUME NEW c \in Contexts, NEW K \in SUBSET Nat, NEW r, Working(r, c, K), NEW x, x = Drain(r)
  PROVE  Ready(x, c, K)
<1> DEFINE n == Cardinality(r.held)
           V == {y \in Receivers : Working(y, c, K)}
<1>1. r \in Receivers /\ IsFiniteSet(r.held) /\ n \in Nat
  BY FS_CardinalityType DEF Working, Receivers, Buffers
<1>2. r \in V
  BY <1>1
<1>3. \A y \in V : DrainTurn(y) \in V
  <2> TAKE y \in V
  <2>1. PICK z : z = DrainTurn(y)
    OBVIOUS
  <2>2. Working(z, c, K)
    BY <2>1, DrainTurnWorks
  <2>3. z \in Receivers
    BY <2>2 DEF Working
  <2> QED BY <2>1, <2>2, <2>3
<1> HIDE DEF V, n
<1>m. n \in Nat
  BY <1>1
<1>a. \E f : DrainRun(f, n, r, V)
  BY <1>2, <1>3, <1>m, DrainRuns
<1>b. PICK f : DrainRun(f, n, r, V)
  BY <1>a, Zenon
<1>4. /\ f[0] = r /\ \A i \in 0 .. n : f[i] \in V
      /\ \A i \in 1 .. n : f[i] = DrainTurn(f[i - 1])
      /\ DrainN(r, n) = f[n]
  BY <1>b, Zenon DEF DrainRun
<1>5. x = f[n]
  BY <1>4 DEF Drain, DrainN, n
\* After i turns at most n - i packets are left, or nothing is due.
<1> DEFINE Left(y, i) == \/ \A h \in y.held : h.seq > y.next
                         \/ IsFiniteSet(y.held) /\ Cardinality(y.held) <= n - i
           G == {i \in Nat : i <= n => Left(f[i], i)}
<1>6. 0 \in G
  <2>1. Left(f[0], 0)
    BY <1>1, <1>4 DEF n
  <2> QED BY <2>1
<1>7. ASSUME NEW i \in Nat, i \in G PROVE i + 1 \in G
  <2>1. SUFFICES ASSUME i + 1 <= n PROVE Left(f[i + 1], i + 1)
    OBVIOUS
  <2>2. /\ Left(f[i], i) /\ f[i] \in V /\ i + 1 \in 1 .. n /\ (i + 1) - 1 = i
    BY <1>1, <1>4, <1>7, <2>1
  <2>3. PICK y : y = f[i]
    OBVIOUS
  <2>4. PICK z : z = f[i + 1]
    OBVIOUS
  <2>5. z = DrainTurn(y) /\ Working(y, c, K)
    BY <1>4, <2>2, <2>3, <2>4 DEF V
  <2>6. Left(z, i + 1)
    <3>1. n - i \in Int /\ (n - i) - 1 = n - (i + 1)
      BY <1>1
    <3> QED BY <2>2, <2>3, <2>5, <3>1, DrainTurnLeft
  <2> QED BY <2>4, <2>6
<1> HIDE DEF G
<1>8. n \in G
  BY <1>1, <1>6, <1>7, NatSetInduction
<1>9. Working(x, c, K) /\ Left(x, n)
  BY <1>1, <1>4, <1>5, <1>8 DEF V, G
<1>10. \A h \in x.held : h.seq > x.next
  <2>1. CASE IsFiniteSet(x.held) /\ Cardinality(x.held) <= n - n
    <3>1. Cardinality(x.held) = 0
      BY <1>1, <2>1, FS_CardinalityType
    <3>2. x.held = {}
      BY <2>1, <3>1, FS_EmptySet
    <3> QED BY <3>2
  <2> QED BY <1>9, <2>1
<1> QED BY <1>9, <1>10 DEF Ready

LEMMA ReadyAlike ==
  ASSUME NEW c, NEW K, NEW r, Ready(r, c, K), NEW x \in Receivers,
         x.next = r.next, x.held = r.held, x.out = r.out, x.highest = r.highest, x.eos = r.eos
  PROVE  Ready(x, c, K)
<1>1. Working(x, c, K)
  BY DEF Ready, Working, InHand
<1> QED BY <1>1 DEF Ready

LEMMA OnProgressReady ==
  ASSUME NEW c, NEW K, NEW r, Ready(r, c, K), NEW x, x = OnProgress(r)
  PROVE  Ready(x, c, K) /\ x.next = r.next
<1>1. r \in Receivers
  BY DEF Ready, Working
<1>2. PICK g \in Int : g = IF r.next < r.highest THEN HoleAge(r) ELSE NoGap
  BY <1>1, HoleAgeType DEF NoGap
<1>3. x = [r EXCEPT !.gap = g]
  BY <1>2 DEF OnProgress
<1>4. /\ x \in Receivers /\ x.next = r.next /\ x.held = r.held /\ x.out = r.out
      /\ x.highest = r.highest /\ x.eos = r.eos
  BY <1>1, <1>3 DEF Receivers
<1> QED BY <1>4, ReadyAlike

\* Nothing that has arrived is below the end of the hole.
LEMMA SkipHoleReady ==
  ASSUME NEW c \in Contexts, NEW K \in SUBSET Nat, NEW r, Ready(r, c, K), NEW limit \in Nat,
         r.next < limit, limit <= c.top, \A q \in c.have : q \in K \/ q >= limit,
         NEW x, x = SkipHole(r, limit)
  PROVE  Ready(x, c, K)
<1>1. /\ r \in Receivers /\ r.next \in Nat /\ r.out \in Seq(Calls) /\ c.from \in Nat /\ c.top \in Nat
      /\ c.have \in SUBSET Nat /\ r.held \in SUBSET HeldPackets /\ Working(r, c, K)
      /\ \A h \in r.held : h.seq > r.next /\ h.end <= c.top
  BY DEF Ready, Working, Receivers, Contexts, Buffers
<1>2. PICK to : to = HoleEnd(r, limit)
  OBVIOUS
<1>0. r \in Receivers
  BY <1>1
<1>3. /\ to \in Nat /\ to <= limit /\ (\A h \in r.held : to <= h.seq)
      /\ to = limit \/ \E h \in r.held : to = h.seq
  BY <1>0, <1>2, HoleEndFacts
<1>4. r.next <= to
  <2>1. CASE to = limit
    BY <1>1, <2>1
  <2>2. CASE \E h \in r.held : to = h.seq
    BY <1>1, <1>3, <2>2
  <2> QED BY <1>3, <2>1, <2>2
<1>5. PICK k : k = Unrecoverable(r.next, to)
  OBVIOUS
<1>6. k \in Gaps /\ k.call = "unrecoverable" /\ k.from = r.next /\ k.to = to
  BY <1>1, <1>3, <1>5 DEF Unrecoverable, Gaps
<1>7. ASSUME NEW q \in c.have PROVE q < k.from \/ q >= k.to
  <2>1. q \in Nat
    BY <1>1
  <2>2. CASE q >= limit
    BY <1>3, <1>6, <2>1, <2>2
  <2>3. CASE q \in K
    <3>1. q < r.next \/ \E h \in r.held : h.seq <= q
      BY <1>1, <2>3 DEF Working, InHand
    <3>2. CASE \E h \in r.held : h.seq <= q
      <4>1. PICK h \in r.held : h.seq <= q
        BY <3>2
      <4>2. h.seq \in Nat /\ to <= h.seq
        BY <1>1, <1>3 DEF HeldPackets
      <4> QED BY <1>3, <1>6, <2>1, <4>1, <4>2
    <3> QED BY <1>6, <3>1, <3>2
  <2> QED BY <2>2, <2>3
<1>8. PICK w : w = Append(r.out, k)
  OBVIOUS
<1>9. w \in Seq(Calls) /\ Chained(w, c.from, to) /\ Spares(w, c.have)
  <2>1. k \in Calls /\ k \in Messages \cup Gaps /\ k.from <= k.to /\ k.call # "message"
    BY <1>1, <1>3, <1>4, <1>6 DEF Calls
  <2>2. Chained(r.out, c.from, r.next) /\ Spares(r.out, c.have)
    BY <1>1 DEF Working
  <2>3. Append(r.out, k) \in Seq(Calls) /\ Chained(Append(r.out, k), c.from, k.to)
    BY <1>1, <1>6, <2>1, <2>2, ChainAppend
  <2>4. Spares(Append(r.out, k), c.have)
    BY <1>1, <1>7, <2>1, <2>2, SparesAppend
  <2> QED BY <1>6, <1>8, <2>3, <2>4
<1>10. PICK y : y = [r EXCEPT !.next = to, !.out = w]
  OBVIOUS
<1>11. /\ y \in Receivers /\ y.next = to /\ y.out = w /\ y.held = r.held /\ y.highest = r.highest
       /\ y.eos = r.eos
  BY <1>1, <1>3, <1>9, <1>10 DEF Receivers
<1>12. Working(y, c, K)
  <2>1. InHand(y, K)
    BY <1>1, <1>4, <1>11, InHandMore DEF Working
  <2>2. 1 <= to /\ to <= c.top
    BY <1>1, <1>3, <1>4 DEF Working
  <2> QED BY <1>1, <1>9, <1>11, <2>1, <2>2 DEF Working
<1>13. x = OnProgress(Drain(y))
  BY <1>2, <1>5, <1>8, <1>10, Zenon DEF SkipHole, SkippedTo
<1>14. PICK z : z = Drain(y)
  OBVIOUS
<1>15. Ready(z, c, K)
  BY <1>12, <1>14, DrainWorks
<1> QED BY <1>13, <1>14, <1>15, OnProgressReady

LEMMA RequestReady ==
  ASSUME NEW c \in Contexts, NEW K, NEW r, Ready(r, c, K), NEW x, x = Request(r)
  PROVE  Ready(x, c, K) /\ x.next = r.next
<1>1. /\ r \in Receivers /\ r.next \in Nat /\ r.held \in SUBSET HeldPackets /\ r.highest \in Nat
      /\ r.next <= r.highest /\ (\A h \in r.held : h.seq > r.next) /\ r.ask \in SUBSET Requests
      /\ r.attempts \in Nat
  BY DEF Ready, Working, Receivers, Buffers
<1>2. PICK e : e = HoleEnd(r, r.highest)
  OBVIOUS
<1>3. e \in Nat /\ r.next <= e
  <2>1. e \in Nat /\ (e = r.highest \/ \E h \in r.held : e = h.seq)
    BY <1>1, <1>2, HoleEndFacts
  <2>2. CASE \E h \in r.held : e = h.seq
    BY <1>1, <2>1, <2>2
  <2> QED BY <1>1, <2>1, <2>2
<1>4. PICK n \in Nat : n = Lesser(e - r.next, MaxReq)
  <2>1. e - r.next \in Nat /\ MaxReq \in Nat
    BY <1>1, <1>3, MoldAssumption
  <2> QED BY <2>1 DEF Lesser
<1>5. PICK a \in Nat : a = AttemptsNow(r)
  BY <1>1 DEF AttemptsNow
<1>6. PICK s : s = r.ask \cup {[seq |-> r.next, n |-> n]}
  OBVIOUS
<1>7. s \in SUBSET Requests
  BY <1>1, <1>6 DEF Requests
<1>8. x = [r EXCEPT !.attempts = a, !.requested = r.next, !.reqAge = 0, !.ask = s]
  BY <1>2, <1>4, <1>5, <1>6 DEF Request
<1>0. r \in Receivers /\ r.next \in Nat
  BY <1>1
<1>9. /\ x \in Receivers /\ x.next = r.next /\ x.held = r.held /\ x.out = r.out
      /\ x.highest = r.highest /\ x.eos = r.eos
  <2>1. PICK y : y = [r EXCEPT !.attempts = a, !.requested = r.next, !.reqAge = 0]
    OBVIOUS
  <2>2. y \in Receivers
    BY <1>0, <2>1 DEF Receivers
  <2>3. /\ y.next = r.next /\ y.held = r.held /\ y.out = r.out /\ y.highest = r.highest
        /\ y.eos = r.eos
    BY <1>0, <2>1 DEF Receivers
  <2>4. x = [y EXCEPT !.ask = s]
    BY <1>0, <1>8, <2>1 DEF Receivers
  <2>5. /\ x \in Receivers /\ x.next = y.next /\ x.held = y.held /\ x.out = y.out
        /\ x.highest = y.highest /\ x.eos = y.eos
    BY <1>7, <2>2, <2>4 DEF Receivers
  <2> QED BY <2>3, <2>5
<1> QED BY <1>9, ReadyAlike

LEMMA UpdateTurnReady ==
  ASSUME NEW c \in Contexts, NEW r, Ready(r, c, c.have), NEW z, z = UpdateTurn(r)
  PROVE  Ready(z, c, c.have)
<1>1. /\ r \in Receivers /\ r.next \in Nat /\ r.highest \in Nat /\ r.highest = c.top /\ r.gap \in Int
      /\ r.state \in {"Down", "Up", "Recovering"} /\ c.have \in SUBSET Nat
  BY DEF Ready, Working, Receivers, Contexts
<1>2. PICK g \in Int : g = IF r.gap = NoGap THEN HoleAge(r) ELSE r.gap
  BY <1>1, HoleAgeType
<1>3. PICK x : x = [r EXCEPT !.gap = g]
  OBVIOUS
<1>4. x = IF r.gap = NoGap THEN [r EXCEPT !.gap = HoleAge(r)] ELSE r
  <2>1. r.gap # NoGap => [r EXCEPT !.gap = r.gap] = r
    BY <1>1 DEF Receivers
  <2> QED BY <1>2, <1>3, <2>1
<1>5. /\ x \in Receivers /\ x.next = r.next /\ x.held = r.held /\ x.out = r.out
      /\ x.highest = r.highest /\ x.eos = r.eos
  BY <1>1, <1>3 DEF Receivers
<1>6. Ready(x, c, c.have)
  BY <1>5, ReadyAlike
<1>7. PICK y : y = [x EXCEPT !.state = "Recovering"]
  OBVIOUS
<1>8. Ready(y, c, c.have)
  <2>1. /\ y \in Receivers /\ y.next = x.next /\ y.held = x.held /\ y.out = x.out
        /\ y.highest = x.highest /\ y.eos = x.eos
    BY <1>5, <1>7 DEF Receivers
  <2> QED BY <1>6, <2>1, ReadyAlike
<1>9. CASE r.next >= r.highest
  <2>1. PICK st \in {"Down", "Up", "Recovering"} : st = IF r.state = "Down" THEN r.state ELSE "Up"
    BY <1>1
  <2>2. z = [r EXCEPT !.gap = NoGap, !.state = st]
    BY <1>9, <2>1 DEF UpdateTurn
  <2>0. r \in Receivers /\ NoGap \in Int
    BY <1>1 DEF NoGap
  <2>3. /\ z \in Receivers /\ z.next = r.next /\ z.held = r.held /\ z.out = r.out
        /\ z.highest = r.highest /\ z.eos = r.eos
    BY <2>0, <2>2 DEF Receivers
  <2> QED BY <2>3, ReadyAlike
<1>10. CASE ~(r.next >= r.highest)
  <2>1. z \in {x, SkipHole(x, x.highest), Request(y), Request(x)}
    BY <1>4, <1>7, <1>10, Zenon DEF UpdateTurn
  <2>2. CASE z = SkipHole(x, x.highest)
    <3>1. x.highest \in Nat /\ x.next < x.highest /\ x.highest <= c.top
      BY <1>1, <1>5, <1>10
    <3> QED BY <1>1, <1>6, <2>2, <3>1, SkipHoleReady
  <2>3. CASE z = Request(y)
    BY <1>8, <2>3, RequestReady
  <2>4. CASE z = Request(x)
    BY <1>6, <2>4, RequestReady
  <2> QED BY <1>6, <2>1, <2>2, <2>3, <2>4
<1> QED BY <1>9, <1>10

LEMMA UpdateLoopReady ==
  ASSUME NEW c \in Contexts, NEW r, Ready(r, c, c.have), NEW n \in Nat, NEW z, z = UpdateN(r, n)
  PROVE  Ready(z, c, c.have)
<1> DEFINE V == {y \in Receivers : Ready(y, c, c.have)}
<1>1. r \in V
  BY DEF Ready, Working
<1>2. ASSUME NEW y \in V PROVE UpdateTurn(y) \in V
  <2>1. PICK x : x = UpdateTurn(y)
    OBVIOUS
  <2>2. Ready(x, c, c.have)
    BY <2>1, UpdateTurnReady
  <2>3. x \in Receivers
    BY <2>2 DEF Ready, Working
  <2> QED BY <2>1, <2>2, <2>3
<1> HIDE DEF V
<1>3. PICK f : /\ f[0] = r /\ \A i \in 0 .. n : f[i] \in V
               /\ \A i \in 1 .. n : f[i] = UpdateTurn(f[i - 1])
               /\ UpdateN(r, n) = f[n]
  BY <1>1, <1>2, UpdateRuns
<1>4. z \in V
  BY <1>3
<1> QED BY <1>4 DEF V

\* What a call leaves: the end of the session, if it is told, comes after everything else.
Concluded(r, c) == c.eos /\ r.next = c.top
Told(r) == [r EXCEPT !.told = TRUE, !.out = Append(@, Ended)]
Finished(x, c) ==
  \E r : Ready(r, c, c.have) /\ (x = r \/ (Concluded(r, c) /\ x = Told(r)))

LEMMA UpdateFinished ==
  ASSUME NEW c \in Contexts, NEW r, Ready(r, c, c.have), NEW z, z = Update(r)
  PROVE  Finished(z, c)
<1>1. PICK y : y = UpdateN(r, MaxHeld + 2)
  OBVIOUS
<1>2. MaxHeld + 2 \in Nat
  BY MoldAssumption
<1>3. Ready(y, c, c.have)
  BY <1>1, <1>2, UpdateLoopReady
<1>4. z = Tell(y)
  BY <1>1, Zenon DEF Update, UpdateN
<1>5. /\ y.next \in Nat /\ c.top \in Nat /\ y.next <= c.top /\ y.highest = c.top /\ y.eos = c.eos
  BY <1>3 DEF Ready, Working, Receivers, Contexts
<1>6. CASE MayTell(y) /\ ~y.told
  <2>1. Concluded(y, c)
    BY <1>5, <1>6 DEF MayTell, Concluded
  <2>2. z = Told(y)
    BY <1>4, <1>6 DEF Tell, Told
  <2> QED BY <1>3, <2>1, <2>2 DEF Finished
<1>7. CASE ~(MayTell(y) /\ ~y.told)
  <2>1. z = y
    BY <1>4, <1>7 DEF Tell
  <2>2. Ready(z, c, c.have)
    BY <1>3, <2>1
  <2> QED BY <2>2 DEF Finished
<1> QED BY <1>6, <1>7

LEMMA ReadyMore ==
  ASSUME NEW c, NEW K, NEW r, Ready(r, c, K), NEW H,
         \A q \in H : q \in K \/ q < r.next \/ \E h \in r.held : h.seq <= q /\ q < h.end
  PROVE  Ready(r, c, H)
<1>1. InHand(r, H)
  BY DEF InHand, Ready, Working
<1> QED BY <1>1 DEF Ready, Working

LEMMA MakeRoomReady ==
  ASSUME NEW c \in Contexts, NEW K \in SUBSET Nat, NEW r, Ready(r, c, K), NEW p,
         p.seq \in Nat, r.next < p.seq, p.seq <= c.top, \A q \in c.have : q \in K \/ q >= p.seq,
         NEW z, z = MakeRoom(r, p)
  PROVE  Ready(z, c, K)
<1> DEFINE V == {y \in Receivers : Ready(y, c, K)}
<1>1. PICK s : s = SkipHole(r, p.seq)
  OBVIOUS
<1>2. Ready(s, c, K)
  BY <1>1, SkipHoleReady
<1>3. s \in V
  BY <1>2 DEF Ready, Working
<1>4. ASSUME NEW y \in V PROVE RoomTurn(y, p) \in V
  <2>1. PICK x : x = RoomTurn(y, p)
    OBVIOUS
  <2>2. Ready(x, c, K)
    <3>1. CASE p.seq <= y.next \/ (~Full(y) /\ Fits(p))
      BY <2>1, <3>1 DEF RoomTurn
    <3>2. CASE ~(p.seq <= y.next \/ (~Full(y) /\ Fits(p)))
      <4>1. x = SkipHole(y, p.seq)
        BY <2>1, <3>2 DEF RoomTurn
      <4>2. y.next < p.seq
        BY <3>2 DEF Receivers
      <4> QED BY <4>1, <4>2, SkipHoleReady
    <3> QED BY <3>1, <3>2
  <2>3. x \in Receivers
    BY <2>2 DEF Ready, Working
  <2> QED BY <2>1, <2>2, <2>3
<1> HIDE DEF V
<1>5. MaxHeld \in Nat
  BY MoldAssumption
<1>6. PICK f : /\ f[0] = s /\ \A i \in 0 .. MaxHeld : f[i] \in V
               /\ \A i \in 1 .. MaxHeld : f[i] = RoomTurn(f[i - 1], p)
               /\ RoomN(s, p, MaxHeld) = f[MaxHeld]
  BY <1>3, <1>4, <1>5, RoomRuns
<1>7. z = RoomN(s, p, MaxHeld)
  BY <1>1, Zenon DEF MakeRoom, RoomN
<1>8. z \in V
  BY <1>5, <1>6, <1>7
<1> QED BY <1>8 DEF V

LEMMA HoldReady ==
  ASSUME NEW c \in Contexts, NEW K \in SUBSET Nat, NEW r, Ready(r, c, K), NEW p,
         p.seq \in Nat, p.end \in Nat, r.next < p.seq, p.end <= c.top,
         NEW H, \A q \in H : q \in K \/ q \in p.seq .. p.end - 1, NEW z, z = Hold(r, p)
  PROVE  Ready(z, c, H)
<1>1. /\ r \in Receivers /\ r.held \in SUBSET HeldPackets /\ IsFiniteSet(r.held) /\ Working(r, c, K)
      /\ \A h \in r.held : h.seq > r.next
  BY DEF Ready, Working, Receivers, Buffers
<1>2. PICK k : k = [seq |-> p.seq, end |-> p.end, age |-> 0]
  OBVIOUS
<1>3. k \in HeldPackets /\ k.seq = p.seq /\ k.end = p.end
  BY <1>2 DEF HeldPackets
<1>4. PICK B : B = r.held \cup {k}
  OBVIOUS
<1>5. B \in Buffers
  BY <1>1, <1>3, <1>4, FS_AddElement DEF Buffers
<1>6. z = [r EXCEPT !.held = B]
  BY <1>2, <1>4 DEF Hold
<1>7. /\ z \in Receivers /\ z.next = r.next /\ z.held = B /\ z.out = r.out /\ z.highest = r.highest
      /\ z.eos = r.eos
  BY <1>1, <1>5, <1>6 DEF Receivers
<1>8. ASSUME NEW q \in H PROVE q < z.next \/ \E h \in z.held : h.seq <= q /\ q < h.end
  <2>1. CASE q \in K
    <3>1. q < r.next \/ \E h \in r.held : h.seq <= q /\ q < h.end
      BY <1>1, <2>1 DEF Working, InHand
    <3> QED BY <1>4, <1>7, <3>1
  <2>2. CASE q \in p.seq .. p.end - 1
    BY <1>3, <1>4, <1>7, <2>2
  <2> QED BY <2>1, <2>2
<1>9. InHand(z, H)
  BY <1>8 DEF InHand
<1>10. \A h \in z.held : h.seq > z.next /\ h.end <= c.top
  BY <1>1, <1>3, <1>4, <1>7 DEF Working, Receivers
<1>11. Working(z, c, H)
  BY <1>1, <1>7, <1>9, <1>10 DEF Working
<1> QED BY <1>10, <1>11 DEF Ready

\* A packet that is due.
LEMMA DueReady ==
  ASSUME NEW c \in Contexts, NEW K \in SUBSET Nat, NEW r, Ready(r, c, K), NEW p,
         p.seq \in Nat, p.end \in Nat, p.seq <= r.next, r.next < p.end, p.end <= c.top,
         NEW H, \A q \in H : q \in K \/ q \in p.seq .. p.end - 1, NEW z, z = Drain(Deliver(r, p))
  PROVE  Ready(z, c, H)
<1>1. PICK y : y = Deliver(r, p)
  OBVIOUS
<1>2. Working(r, c, K)
  BY DEF Ready
<1>3. Working(y, c, K) /\ y.next = p.end
  BY <1>1, <1>2, DeliverWorks
<1>4. PICK G : G = K \cup p.seq .. p.end - 1
  OBVIOUS
<1>5. G \in SUBSET Nat
  <2>1. p.seq .. p.end - 1 \in SUBSET Nat
    OBVIOUS
  <2> QED BY <1>4, <2>1
<1>6. InHand(y, G)
  BY <1>3, <1>4 DEF Working, InHand
<1>7. Working(y, c, G)
  BY <1>3, <1>6 DEF Working
<1>8. Ready(z, c, G)
  BY <1>1, <1>5, <1>7, DrainWorks
<1> QED BY <1>4, <1>8, ReadyMore

\* What the venue may lose because nobody has room for it.
Refused(r, p) == r.can /\ ~Covered(r, p) /\ (Full(r) \/ ~Fits(p))

LEMMA OnAheadReady ==
  ASSUME NEW c \in Contexts, NEW K \in SUBSET Nat, NEW r, Ready(r, c, K), NEW p,
         p.seq \in Nat, p.end \in Nat, r.next < p.seq, p.seq <= p.end, p.end <= c.top,
         c.have = IF Refused(r, p) THEN K ELSE K \cup p.seq .. p.end - 1,
         NEW z, z = OnAhead(r, p)
  PROVE  Ready(z, c, c.have)
<1>1. /\ r \in Receivers /\ r.next \in Nat /\ r.held \in SUBSET HeldPackets /\ c.top \in Nat
      /\ c.have \in SUBSET Nat /\ r.overflow \in Nat
  BY DEF Ready, Working, Receivers, Buffers, Contexts
<1>2. \A q \in c.have : q \in K \/ q \in p.seq .. p.end - 1
  OBVIOUS
<1>3. CASE Covered(r, p)
  <2>1. z = r
    BY <1>3 DEF OnAhead
  <2>2. PICK h \in r.held : h.seq <= p.seq /\ h.end >= p.end
    BY <1>3 DEF Covered
  <2>3. h.seq \in Nat /\ h.end \in Nat
    BY <1>1 DEF HeldPackets
  <2>4. ASSUME NEW q \in c.have
        PROVE  q \in K \/ q < r.next \/ \E k \in r.held : k.seq <= q /\ q < k.end
    <3>1. CASE q \in p.seq .. p.end - 1
      <4>1. h.seq <= q /\ q < h.end
        BY <2>2, <2>3, <3>1
      <4> QED BY <4>1
    <3> QED BY <1>2, <3>1
  <2> QED BY <2>1, <2>4, ReadyMore
<1>4. CASE ~Covered(r, p) /\ ~Full(r) /\ Fits(p)
  <2>1. z = Hold(r, p)
    BY <1>4 DEF OnAhead
  <2> QED BY <1>2, <2>1, HoldReady
<1>5. CASE ~Covered(r, p) /\ ~(~Full(r) /\ Fits(p)) /\ r.can
  <2>0. c.have = K
    BY <1>5 DEF Refused
  <2>1. PICK o \in Nat : o = Greater(r.overflow, p.end)
    BY <1>1 DEF Greater
  <2>2. PICK x : x = [r EXCEPT !.overflow = o]
    OBVIOUS
  <2>3. PICK y : y = [x EXCEPT !.state = "Recovering"]
    OBVIOUS
  <2>4. z \in {x, Request(y)}
    BY <1>5, <2>1, <2>2, <2>3, Zenon DEF OnAhead
  <2>5. /\ x \in Receivers /\ x.next = r.next /\ x.held = r.held /\ x.out = r.out
        /\ x.highest = r.highest /\ x.eos = r.eos
    BY <1>1, <2>2 DEF Receivers
  <2>6. /\ y \in Receivers /\ y.next = x.next /\ y.held = x.held /\ y.out = x.out
        /\ y.highest = x.highest /\ y.eos = x.eos
    BY <2>3, <2>5 DEF Receivers
  <2>7. Ready(x, c, K)
    BY <2>5, ReadyAlike
  <2>8. Ready(y, c, K)
    BY <2>6, <2>7, ReadyAlike
  <2>9. CASE z = Request(y)
    BY <2>0, <2>8, <2>9, RequestReady
  <2> QED BY <2>0, <2>4, <2>7, <2>9
<1>6. CASE ~Covered(r, p) /\ ~(~Full(r) /\ Fits(p)) /\ ~r.can
  <2>1. PICK x : x = MakeRoom(r, p)
    OBVIOUS
  <2>2. z = IF p.seq > x.next THEN Hold(x, p)
            ELSE IF p.end > x.next THEN Drain(Deliver(x, p)) ELSE x
    BY <1>6, <2>1, Zenon DEF OnAhead
  <2>3. Ready(x, c, K)
    <3>1. \A q \in c.have : q \in K \/ q >= p.seq
      BY <1>2
    <3>2. p.seq <= c.top
      BY <1>1
    <3> QED BY <2>1, <3>1, <3>2, MakeRoomReady
  <2>4. x.next \in Nat
    BY <2>3 DEF Ready, Working, Receivers
  <2>5. CASE p.seq > x.next
    <3>1. z = Hold(x, p) /\ x.next < p.seq
      BY <2>2, <2>4, <2>5
    <3> QED BY <1>2, <2>3, <3>1, HoldReady
  <2>6. CASE ~(p.seq > x.next) /\ p.end > x.next
    <3>1. z = Drain(Deliver(x, p)) /\ p.seq <= x.next /\ x.next < p.end
      BY <2>2, <2>4, <2>6
    <3> QED BY <1>2, <2>3, <3>1, DueReady
  <2>7. CASE ~(p.seq > x.next) /\ ~(p.end > x.next)
    <3>1. z = x
      BY <2>2, <2>7
    <3>2. \A q \in c.have : q \in K \/ q < x.next \/ \E h \in x.held : h.seq <= q /\ q < h.end
      BY <1>2, <2>4, <2>7
    <3> QED BY <2>3, <3>1, <3>2, ReadyMore
  <2> QED BY <2>5, <2>6, <2>7
<1> QED BY <1>3, <1>4, <1>5, <1>6

\* The receiver once it has looked at the header of p.
Looked(r0, p) ==
  [r0 EXCEPT !.next = IF @ = 0 THEN Greater(p.seq, 1) ELSE @,
             !.state = IF @ = "Down" THEN "Up" ELSE @,
             !.highest = Greater(@, p.end),
             !.hiAge = IF p.end > r0.highest THEN 0 ELSE @,
             !.eos = @ \/ p.kind = "eos"]

LEMMA OnPacketFinished ==
  ASSUME NEW c \in Contexts, NEW K \in SUBSET Nat, NEW p, NEW r0, NEW r, r = Looked(r0, p), Ready(r, c, K),
         p.seq \in Nat, p.end \in Nat, p.seq <= p.end, p.end <= c.top,
         p.kind # "data" => p.seq = p.end,
         c.have = IF r.next < p.seq /\ Refused(r, p) THEN K ELSE K \cup p.seq .. p.end - 1,
         NEW z, z = OnPacket(r0, p)
  PROVE  Finished(z, c)
<1>1. r.next \in Nat /\ r \in Receivers
  BY DEF Ready, Working, Receivers
<1>2. PICK x : x = IF p.kind # "data" \/ p.end <= r.next THEN r
                   ELSE IF p.seq <= r.next THEN Drain(Deliver(r, p)) ELSE OnAhead(r, p)
  OBVIOUS
<1>3. \A q \in c.have : q \in K \/ q \in p.seq .. p.end - 1
  OBVIOUS
<1>4. Ready(x, c, c.have)
  <2>1. CASE p.kind # "data" \/ p.end <= r.next
    <3>1. x = r
      BY <1>2, <2>1
    <3>2. \A q \in c.have : q \in K \/ q < x.next \/ \E h \in x.held : h.seq <= q /\ q < h.end
      BY <1>1, <1>3, <2>1, <3>1
    <3> QED BY <3>1, <3>2, ReadyMore
  <2>2. CASE ~(p.kind # "data" \/ p.end <= r.next) /\ p.seq <= r.next
    <3>1. x = Drain(Deliver(r, p)) /\ r.next < p.end
      BY <1>1, <1>2, <2>2
    <3> QED BY <1>3, <2>2, <3>1, DueReady
  <2>3. CASE ~(p.kind # "data" \/ p.end <= r.next) /\ ~(p.seq <= r.next)
    <3>1. x = OnAhead(r, p) /\ r.next < p.seq
      BY <1>1, <1>2, <2>3
    <3>2. c.have = IF Refused(r, p) THEN K ELSE K \cup p.seq .. p.end - 1
      BY <3>1
    <3> QED BY <3>1, <3>2, OnAheadReady
  <2> QED BY <2>1, <2>2, <2>3
<1>5. PICK y : y = IF x.next # r.next THEN OnProgress(x) ELSE x
  OBVIOUS
<1>6. Ready(y, c, c.have)
  BY <1>4, <1>5, OnProgressReady
<1>7. z = Update(y)
  <2>1. z = LET rr == Looked(r0, p)
                xx == IF p.kind # "data" \/ p.end <= rr.next THEN rr
                      ELSE IF p.seq <= rr.next THEN Drain(Deliver(rr, p)) ELSE OnAhead(rr, p)
            IN  Update(IF xx.next # rr.next THEN OnProgress(xx) ELSE xx)
    BY Zenon DEF OnPacket, Looked
  <2> QED BY <1>2, <1>5, <2>1, Zenon
<1> QED BY <1>6, <1>7, UpdateFinished

-----------------------------------------------------------------------------
(***************************************************************************)
(* The callbacks of a call: P is where each of them leaves the handler.    *)
(***************************************************************************)
Moves(k, a, b, c) ==
  \/ /\ k \in Messages \cup Gaps /\ k.from = a /\ k.to = b /\ a <= b
     /\ k.call = "message" => b = a + 1
     /\ k.call = "unrecoverable" => \A x \in c.have : x < a \/ x >= b
  \/ k = Ended /\ a = b /\ a = c.top /\ c.eos

Path(q, c, P) ==
  /\ q \in Seq(Calls) /\ P \in [0 .. Len(q) -> Nat] /\ P[0] = c.from
  /\ \A i \in 1 .. Len(q) : Moves(q[i], P[i - 1], P[i], c)

LEMMA ChainPath ==
  ASSUME NEW c \in Contexts, NEW q \in Seq(Calls), NEW b \in Nat, Chained(q, c.from, b),
         Spares(q, c.have)
  PROVE  \E P : Path(q, c, P) /\ P[Len(q)] = b
<1> DEFINE n == Len(q)
           P == [i \in 0 .. n |-> IF i = 0 THEN c.from ELSE q[i].to]
<1>1. n \in Nat /\ DOMAIN q = 1 .. n /\ c.from \in Nat
  BY DEF Contexts
<1>2. ASSUME NEW i \in 1 .. n
      PROVE  /\ q[i] \in Messages \cup Gaps /\ q[i].to \in Nat /\ q[i].from \in Nat
             /\ q[i].from = IF i = 1 THEN c.from ELSE q[i - 1].to
             /\ q[i].from <= q[i].to
             /\ q[i].call = "message" => q[i].to = q[i].from + 1
             /\ q[i].call = "unrecoverable" => \A x \in c.have : x < q[i].from \/ x >= q[i].to
  BY <1>1 DEF Chained, Spares, Messages, Gaps
<1>3. P \in [0 .. n -> Nat] /\ P[0] = c.from /\ P[n] = b
  BY <1>1, <1>2 DEF Chained
<1>4. ASSUME NEW i \in 1 .. n PROVE Moves(q[i], P[i - 1], P[i], c)
  <2>1. P[i] = q[i].to /\ P[i - 1] = q[i].from
    BY <1>1, <1>2
  <2> HIDE DEF P
  <2> QED BY <1>2, <2>1 DEF Moves
<1> HIDE DEF P
<1>5. Path(q, c, P)
  BY <1>3, <1>4 DEF Path
<1> QED BY <1>3, <1>5

LEMMA PathToEnd ==
  ASSUME NEW c \in Contexts, NEW q \in Seq(Calls), NEW P, Path(q, c, P), P[Len(q)] = c.top, c.eos,
         NEW w, w = Append(q, Ended)
  PROVE  \E Q : Path(w, c, Q) /\ Q[Len(w)] = c.top
<1> DEFINE n == Len(q)
           Q == [i \in 0 .. n + 1 |-> IF i = n + 1 THEN c.top ELSE P[i]]
<1>1. n \in Nat /\ c.top \in Nat /\ P \in [0 .. n -> Nat] /\ P[0] = c.from
  BY DEF Contexts, Path
<1>2. /\ w \in Seq(Calls) /\ Len(w) = n + 1 /\ w[n + 1] = Ended /\ \A i \in 1 .. n : w[i] = q[i]
  BY DEF Calls, Ended
<1>3. Q \in [0 .. n + 1 -> Nat] /\ Q[0] = c.from /\ Q[n + 1] = c.top
  BY <1>1
<1>4. ASSUME NEW i \in 1 .. n + 1 PROVE Moves(w[i], Q[i - 1], Q[i], c)
  <2>1. CASE i \in 1 .. n
    <3>1. Q[i] = P[i] /\ Q[i - 1] = P[i - 1] /\ w[i] = q[i]
      BY <1>1, <1>2, <2>1
    <3> HIDE DEF Q
    <3> QED BY <2>1, <3>1 DEF Path
  <2>2. CASE i = n + 1
    <3>1. Q[i] = c.top /\ Q[i - 1] = c.top /\ w[i] = Ended
      BY <1>1, <1>2, <2>2
    <3> HIDE DEF Q
    <3> QED BY <3>1 DEF Moves
  <2> QED BY <1>1, <2>1, <2>2
<1> HIDE DEF Q
<1>5. Path(w, c, Q)
  BY <1>2, <1>3, <1>4 DEF Path
<1> QED BY <1>2, <1>3, <1>5

\* What a call leaves of the receiver.
Left(x, c) ==
  /\ x \in Receivers /\ InHand(x, c.have) /\ Ahead(x)
  /\ 1 <= x.next /\ x.next <= c.top /\ x.highest = c.top /\ x.eos = c.eos

LEMMA FinishedLeft ==
  ASSUME NEW c \in Contexts, NEW x, Finished(x, c)
  PROVE  Left(x, c) /\ \E P : Path(x.out, c, P) /\ P[Len(x.out)] = x.next
<1>1. PICK r : Ready(r, c, c.have) /\ (x = r \/ (Concluded(r, c) /\ x = Told(r)))
  BY DEF Finished
<1>2. /\ r \in Receivers /\ r.next \in Nat /\ r.out \in Seq(Calls) /\ Chained(r.out, c.from, r.next)
      /\ Spares(r.out, c.have)
  BY <1>1 DEF Ready, Working, Receivers
<1>3. Left(r, c)
  BY <1>1 DEF Left, Ready, Working, Ahead
<1>4. PICK P : Path(r.out, c, P) /\ P[Len(r.out)] = r.next
  BY <1>2, ChainPath
<1>5. CASE x = r
  BY <1>3, <1>4, <1>5
<1>6. CASE Concluded(r, c) /\ x = Told(r)
  <2>1. PICK w : w = Append(r.out, Ended)
    OBVIOUS
  <2>2. w \in Seq(Calls)
    BY <1>2, <2>1 DEF Calls, Ended
  <2>3. x = [r EXCEPT !.told = TRUE, !.out = w]
    BY <1>6, <2>1 DEF Told
  <2>4. /\ x \in Receivers /\ x.next = r.next /\ x.held = r.held /\ x.out = w
        /\ x.highest = r.highest /\ x.eos = r.eos
    BY <1>2, <2>2, <2>3 DEF Receivers
  <2>5. Left(x, c)
    BY <1>3, <2>4 DEF Left, InHand, Ahead
  <2>6. \E Q : Path(w, c, Q) /\ Q[Len(w)] = c.top
    BY <1>2, <1>4, <1>6, <2>1, PathToEnd DEF Concluded
  <2> QED BY <1>6, <2>4, <2>5, <2>6 DEF Concluded
<1> QED BY <1>1, <1>5, <1>6

\* What the handler saw is as it must be, up to a.
Sound(s, c, a) ==
  s \in Views /\ s.upto = a /\ s.inOrder /\ ~s.wronged /\ ~s.early /\ s.have = c.have

LEMMA ObservedType ==
  ASSUME NEW s \in Views, NEW k \in Calls
  PROVE  Observed(s, k) \in Views
<1>1. CASE k.call = "ended"
  BY <1>1 DEF Observed, Views
<1>2. CASE k.call # "ended"
  <2>1. k.to \in Nat
    BY <1>2 DEF Calls, Messages, Gaps
  <2> QED BY <1>2, <2>1 DEF Observed, Views
<1> QED BY <1>1, <1>2

LEMMA ObservedMove ==
  ASSUME NEW c \in Contexts, c.eos => c.top = tx.count + 1, NEW a \in Nat, NEW b \in Nat,
         NEW k, Moves(k, a, b, c), NEW s, Sound(s, c, a)
  PROVE  Sound(Observed(s, k), c, b)
<1>0. s \in Views /\ c.have \in SUBSET Nat
  BY DEF Sound, Contexts
<1>1. CASE /\ k \in Messages \cup Gaps /\ k.from = a /\ k.to = b
           /\ k.call = "unrecoverable" => \A x \in c.have : x < a \/ x >= b
  <2>1. k.call # "ended"
    BY <1>1 DEF Messages, Gaps
  <2>2. Observed(s, k) = [s EXCEPT !.upto = b, !.inOrder = @ /\ a = s.upto,
                            !.wronged = @ \/ (k.call = "unrecoverable" /\ a..(b - 1) \cap s.have # {})]
    BY <1>1, <2>1 DEF Observed
  <2>3. ~(k.call = "unrecoverable" /\ a..(b - 1) \cap s.have # {})
    BY <1>0, <1>1 DEF Sound
  <2> QED BY <1>0, <2>2, <2>3 DEF Sound, Views
<1>2. CASE k = Ended /\ a = b /\ a = c.top /\ c.eos
  <2>1. Observed(s, k) = [s EXCEPT !.early = @ \/ s.upto # tx.count + 1]
    BY <1>2 DEF Observed, Ended
  <2>2. s.upto = tx.count + 1
    BY <1>2 DEF Sound
  <2> QED BY <1>0, <1>2, <2>1, <2>2 DEF Sound, Views
<1> QED BY <1>1, <1>2 DEF Moves

LEMMA ObservedPath ==
  ASSUME NEW c \in Contexts, c.eos => c.top = tx.count + 1, NEW q, NEW P, Path(q, c, P),
         NEW s, Sound(s, c, c.from), NEW o, o = FoldLeft(Observed, s, q)
  PROVE  Sound(o, c, P[Len(q)])
<1> DEFINE n == Len(q)
<1>1. /\ n \in Nat /\ q \in Seq(Calls) /\ DOMAIN q = 1 .. n /\ s \in Views /\ P \in [0 .. n -> Nat]
  BY DEF Path, Sound
<1>2. \A i \in DOMAIN q : \A x \in Views : Observed(x, q[i]) \in Views
  BY <1>1, ObservedType
<1>3. PICK v : /\ v[0] = s /\ \A i \in 0 .. Len(q) : v[i] \in Views
               /\ \A i \in 1 .. Len(q) : v[i] = Observed(v[i - 1], q[i])
               /\ FoldLeft(Observed, s, q) = v[Len(q)]
  BY <1>1, <1>2, ObservedRuns
<1> DEFINE G == {i \in Nat : i <= n => Sound(v[i], c, P[i])}
<1>4. 0 \in G
  BY <1>3 DEF Path
<1>5. ASSUME NEW i \in Nat, i \in G PROVE i + 1 \in G
  <2>1. SUFFICES ASSUME i + 1 <= n PROVE Sound(v[i + 1], c, P[i + 1])
    OBVIOUS
  <2>2. i + 1 \in 1 .. n /\ (i + 1) - 1 = i /\ i \in 0 .. n /\ i + 1 \in 0 .. n /\ i <= n
    BY <1>1, <2>1
  <2>3. v[i + 1] = Observed(v[i], q[i + 1]) /\ Sound(v[i], c, P[i])
    BY <1>3, <1>5, <2>2
  <2>4. Moves(q[i + 1], P[i], P[i + 1], c) /\ P[i] \in Nat /\ P[i + 1] \in Nat
    BY <1>1, <2>2 DEF Path
  <2>5. Sound(Observed(v[i], q[i + 1]), c, P[i + 1])
    BY <2>3, <2>4, ObservedMove
  <2> QED BY <2>3, <2>5
<1> HIDE DEF G
<1>6. n \in G
  BY <1>1, <1>4, <1>5, NatSetInduction
<1>7. Sound(v[n], c, P[n])
  BY <1>1, <1>6 DEF G
<1> QED BY <1>3, <1>7

-----------------------------------------------------------------------------
(***************************************************************************)
(* The venue's part of a call.                                             *)
(***************************************************************************)

\* A snapshot that is being read was being read before.
Kept(f, g) == /\ g.hasGlimpse = f.hasGlimpse
              /\ g.glimpse = "taken" => f.glimpse = "taken" /\ g.end = f.end

LEMMA RecordedLater ==
  ASSUME NEW b \in Recoveries, NEW u \in Nat, NEW v \in Nat, u <= v, Recorded(b, u)
  PROVE  Recorded(b, v)
<1>1. b.last \in Nat
  BY DEF Recoveries
<1> QED BY <1>1 DEF Recorded

LEMMA EmptyRecorded ==
  ASSUME NEW u
  PROVE  EmptyBuffer \in Recoveries /\ Recorded(EmptyBuffer, u)
<1>1. /\ EmptyBuffer.last = 0 /\ EmptyBuffer.gapEnd = 0 /\ EmptyBuffer.kept = <<>>
      /\ EmptyBuffer \in Recoveries
  BY DEF EmptyBuffer, Recoveries
<1> QED BY <1>1 DEF Recorded

Ordered(ks, a) == /\ \A i \in DOMAIN ks : ks[i] <= a
                  /\ \A i, j \in DOMAIN ks : i < j => ks[i] < ks[j]

\* Messages before the last gap are not wanted of the buffer any more.
LEMMA NoticedRecorded ==
  ASSUME NEW b \in Recoveries, NEW a \in Nat, a >= 1, Recorded(b, a), NEW ks \in Seq(Nat),
         NEW pk \in Nat, NEW op \in Nat \X Nat,
         Ordered(ks, a), Range(b.kept) \subseteq Range(ks), a \in Unwanted \/ a \in Range(ks),
         NEW z, z = Noticed([b EXCEPT !.packets = pk, !.open = op, !.kept = ks], a)
  PROVE  z \in Recoveries /\ Recorded(z, a + 1)
<1>1. b.last \in Nat /\ b.gapEnd \in Nat /\ b.last < a /\ b.gapEnd <= b.last
  BY DEF Recoveries, Recorded
<1>2. PICK g : g = IF a # b.last + 1 \/ b.last = 0 THEN Greater(b.gapEnd, a) ELSE b.gapEnd
  OBVIOUS
<1>3. g \in Nat /\ (g = a \/ (g = b.gapEnd /\ a = b.last + 1))
  BY <1>1, <1>2 DEF Greater
<1>4. z = [b EXCEPT !.packets = pk, !.open = op, !.kept = ks, !.last = a, !.gapEnd = g]
  BY <1>2 DEF Noticed, Recoveries
<1>5. z \in Recoveries /\ z.last = a /\ z.gapEnd = g /\ z.kept = ks
  BY <1>3, <1>4 DEF Recoveries
<1>6. ASSUME NEW q \in g .. a, q >= 1 PROVE q \in Unwanted \/ q \in Range(ks)
  <2>1. CASE q = a
    BY <2>1
  <2>2. CASE q # a
    <3>1. g = b.gapEnd /\ q \in b.gapEnd .. b.last
      BY <1>1, <1>3, <2>2
    <3> QED BY <1>6, <3>1 DEF Recorded
  <2> QED BY <2>1, <2>2
<1>7. g <= a
  BY <1>1, <1>3
<1> QED BY <1>5, <1>6, <1>7 DEF Recorded, Ordered

LEMMA LostFine ==
  ASSUME NEW f \in Feeds, NEW u, NEW g, g = FeedLost(f)
  PROVE  g \in Feeds /\ FeedOK(g, u) /\ Kept(f, g)
<1>1. EmptyBuffer \in Recoveries /\ Recorded(EmptyBuffer, u) /\ NoBooks \in Books
  BY EmptyRecorded DEF NoBooks, Books
<1>2. g \in Feeds /\ g.state = "Lost" /\ g.rec = EmptyBuffer /\ Kept(f, g) /\ Staged(g)
  BY <1>1 DEF FeedLost, Feeds, Kept, Staged
<1> QED BY <1>1, <1>2 DEF FeedOK, Exact

LEMMA StartSnapshotFine ==
  ASSUME NEW f \in Feeds, f.state = "Snapshot", f.hasGlimpse, NEW u, NEW g, g = StartSnapshot(f)
  PROVE  g \in Feeds /\ FeedOK(g, u) /\ Kept(f, g)
<1>1. EmptyBuffer \in Recoveries /\ Recorded(EmptyBuffer, u) /\ NoBooks \in Books
  BY EmptyRecorded DEF NoBooks, Books
<1>2. g \in Feeds /\ g.state = "Snapshot" /\ g.rec = EmptyBuffer /\ Kept(f, g) /\ Staged(g)
  BY <1>1 DEF StartSnapshot, Feeds, Kept, Staged
<1> QED BY <1>1, <1>2 DEF FeedOK, Exact

LEMMA StartRecoveryFine ==
  ASSUME NEW f \in Feeds, NEW u, NEW g, g = StartRecovery(f)
  PROVE  g \in Feeds /\ FeedOK(g, u) /\ Kept(f, g)
<1>1. CASE ~f.hasGlimpse
  BY <1>1, LostFine DEF StartRecovery
<1>2. CASE f.hasGlimpse
  <2>1. PICK y : y = [f EXCEPT !.state = "Snapshot"]
    OBVIOUS
  <2>2. /\ y \in Feeds /\ y.state = "Snapshot" /\ y.hasGlimpse = f.hasGlimpse /\ y.glimpse = f.glimpse
        /\ y.end = f.end
    BY <2>1 DEF Feeds
  <2>3. g = StartSnapshot(y)
    BY <1>2, <2>1 DEF StartRecovery
  <2>4. g \in Feeds /\ FeedOK(g, u) /\ Kept(y, g)
    BY <1>2, <2>2, <2>3, StartSnapshotFine
  <2> QED BY <2>2, <2>4 DEF Kept
<1> QED BY <1>1, <1>2

LEMMA AppliedFine ==
  ASSUME NEW f \in Feeds, NEW a \in Nat, a >= 1, f.state = "Live", FeedOK(f, a),
         NEW g, g = Apply(f, a)
  PROVE  g \in Feeds /\ FeedOK(g, a + 1) /\ Kept(f, g)
<1>1. /\ f.liveFrom \in Nat /\ f.books \in Books /\ f.books.seq \in Nat /\ f.rec \in Recoveries
      /\ Recorded(f.rec, a + 1)
  BY RecordedLater DEF Feeds, Books, FeedOK
<1>2. Standing(f.books, Greater(a, f.liveFrom)) /\ f.books.seq < Greater(a, f.liveFrom)
  BY DEF FeedOK, Exact
<1>3. CASE a < f.liveFrom
  <2>1. g = f
    BY <1>3 DEF Apply
  <2>2. Greater(a, f.liveFrom) = f.liveFrom /\ Greater(a + 1, f.liveFrom) = f.liveFrom
    BY <1>1, <1>3 DEF Greater
  <2> QED BY <1>1, <1>2, <2>1, <2>2 DEF FeedOK, Exact, Kept
<1>4. CASE ~(a < f.liveFrom)
  <2>1. Greater(a, f.liveFrom) = a /\ Greater(a + 1, f.liveFrom) = a + 1
    BY <1>1, <1>4 DEF Greater
  <2>2. PICK b : b = Applied(f.books, a)
    OBVIOUS
  <2>3. f.books.whole /\ a > f.books.seq /\ (f.books.seq + 1) .. (a - 1) \subseteq Unwanted
    BY <1>1, <1>2, <2>1 DEF Standing
  <2>4. b = [seq |-> a, whole |-> TRUE]
    BY <2>2, <2>3 DEF Applied
  <2>5. g = [f EXCEPT !.books = b]
    BY <1>4, <2>2 DEF Apply
  <2>6. b \in Books /\ b.seq = a /\ b.whole
    BY <2>4 DEF Books
  <2>7. /\ g \in Feeds /\ g.books = b /\ g.rec = f.rec /\ g.liveFrom = f.liveFrom /\ Kept(f, g)
        /\ Staged(g)
    BY <2>5, <2>6 DEF Feeds, Kept, FeedOK, Staged
  <2>8. Standing(b, a + 1)
    <3>1. (b.seq + 1) .. ((a + 1) - 1) = {}
      BY <2>6
    <3> QED BY <2>6, <3>1 DEF Standing
  <2> QED BY <1>1, <2>1, <2>6, <2>7, <2>8 DEF FeedOK, Exact
<1> QED BY <1>3, <1>4

LEMMA FirstFine ==
  ASSUME NEW f \in Feeds, Recorded(f.rec, 1), Staged(f), ~f.hasGlimpse,
         NEW g, g = Apply([GoLive(f, 1) EXCEPT !.books = [seq |-> 0, whole |-> TRUE]], 1)
  PROVE  g \in Feeds /\ FeedOK(g, 2) /\ Kept(f, g)
<1>1. PICK b : b = [seq |-> 0, whole |-> TRUE]
  OBVIOUS
<1>2. b \in Books /\ b.seq = 0 /\ b.whole
  BY <1>1 DEF Books
<1>3. PICK y : y = [GoLive(f, 1) EXCEPT !.books = b]
  OBVIOUS
<1>4. /\ y \in Feeds /\ y.state = "Live" /\ y.books = b /\ y.liveFrom = 1 /\ y.rec = f.rec
      /\ Kept(f, y) /\ Staged(y)
  BY <1>2, <1>3 DEF GoLive, Feeds, Kept, Staged
<1>5. Greater(1, 1) = 1
  BY DEF Greater
<1>6. (b.seq + 1) .. (1 - 1) = {}
  BY <1>2
<1>7. FeedOK(y, 1)
  BY <1>2, <1>4, <1>5, <1>6 DEF FeedOK, Exact, Standing
<1>8. g = Apply(y, 1)
  BY <1>1, <1>3
<1>9. g \in Feeds /\ FeedOK(g, 1 + 1) /\ Kept(y, g)
  BY <1>4, <1>7, <1>8, AppliedFine
<1> QED BY <1>4, <1>9 DEF Kept

\* A message is put into the recovery buffer.
LEMMA BufferFine ==
  ASSUME NEW b \in Recoveries, NEW a \in Nat, a >= 1, Recorded(b, a), NEW pkt \in Nat \X Nat,
         NEW z, z = Buffer(b, a, pkt)
  PROVE  z \in Recoveries /\ Recorded(z, a + 1)
<1>1. b.packets \in Nat /\ b.kept \in Seq(Nat) /\ b.last \in Nat
  BY DEF Recoveries
<1>2. PICK pk \in Nat : pk = IF NeedsRecord(b, pkt) THEN b.packets + 1 ELSE b.packets
  BY <1>1
<1>3. PICK ks : ks = Append(b.kept, a)
  OBVIOUS
<1>4. PICK n : n = Len(b.kept)
  OBVIOUS
<1>5. /\ ks \in Seq(Nat) /\ n \in Nat /\ DOMAIN b.kept = 1 .. n /\ DOMAIN ks = 1 .. n + 1
      /\ (\A i \in 1 .. n : ks[i] = b.kept[i]) /\ ks[n + 1] = a
  BY <1>1, <1>3, <1>4
<1>6. /\ \A i \in 1 .. n : b.kept[i] <= b.last /\ b.kept[i] \in Nat
      /\ \A i, j \in 1 .. n : i < j => b.kept[i] < b.kept[j]
      /\ b.last < a
  <2>0. b.kept \in Seq(Nat)
    BY <1>1
  <2>1. ASSUME NEW i \in 1 .. n PROVE b.kept[i] \in Nat
    <3>1. b.kept \in [1 .. n -> Nat]
      BY <1>4, <2>0
    <3> QED BY <3>1
  <2>2. b.last < a
    BY <1>1 DEF Recorded
  <2>3. DOMAIN b.kept = 1 .. n
    BY <1>5
  <2> QED BY <2>1, <2>2, <2>3 DEF Recorded
<1>7. ASSUME NEW i \in 1 .. n + 1 PROVE ks[i] <= a
  <2>1. CASE i \in 1 .. n
    <3>1. ks[i] = b.kept[i] /\ b.kept[i] <= b.last /\ b.kept[i] \in Nat
      BY <1>5, <1>6, <2>1
    <3> QED BY <1>1, <1>6, <3>1
  <2>2. CASE i = n + 1
    BY <1>5, <2>2
  <2>3. i \in 1 .. n \/ i = n + 1
    BY <1>5
  <2> QED BY <2>1, <2>2, <2>3
<1>8. ASSUME NEW i \in 1 .. n + 1, NEW j \in 1 .. n + 1, i < j PROVE ks[i] < ks[j]
  <2>1. CASE j \in 1 .. n
    <3>1. i \in 1 .. n
      BY <1>5, <1>8, <2>1
    <3>2. ks[i] = b.kept[i] /\ ks[j] = b.kept[j] /\ b.kept[i] < b.kept[j]
      BY <1>5, <1>6, <1>8, <2>1, <3>1
    <3> QED BY <3>2
  <2>2. CASE j = n + 1
    <3>1. i \in 1 .. n
      BY <1>5, <1>8, <2>2
    <3> QED BY <1>1, <1>5, <1>6, <2>2, <3>1
  <2> QED BY <1>5, <2>1, <2>2
<1>9. Range(b.kept) \subseteq Range(ks) /\ a \in Range(ks)
  <2>1. ASSUME NEW q \in Range(b.kept) PROVE q \in Range(ks)
    <3>1. PICK i \in 1 .. n : q = b.kept[i]
      BY <1>5 DEF Range
    <3>2. i \in DOMAIN ks /\ q = ks[i]
      BY <1>5, <3>1
    <3> QED BY <3>2 DEF Range
  <2>2. n + 1 \in DOMAIN ks /\ a = ks[n + 1]
    BY <1>5
  <2>3. a \in Range(ks)
    BY <2>2 DEF Range
  <2> QED BY <2>1, <2>3
<1>10. z = Noticed([b EXCEPT !.packets = pk, !.open = pkt, !.kept = ks], a)
  BY <1>2, <1>3 DEF Buffer
<1>11. Ordered(ks, a)
  BY <1>5, <1>7, <1>8 DEF Ordered
<1>12. ks \in Seq(Nat)
  BY <1>5
<1> QED BY <1>9, <1>10, <1>11, <1>12, NoticedRecorded

LEMMA UnwantedFine ==
  ASSUME NEW b \in Recoveries, NEW a \in Nat, a >= 1, Recorded(b, a), a \in Unwanted,
         NEW z, z = Noticed(b, a)
  PROVE  z \in Recoveries /\ Recorded(z, a + 1)
<1>1. b.packets \in Nat /\ b.open \in Nat \X Nat /\ b.kept \in Seq(Nat) /\ b.last \in Nat
  BY DEF Recoveries
<1>2. b = [b EXCEPT !.packets = b.packets, !.open = b.open, !.kept = b.kept]
  BY DEF Recoveries
<1>3. \A i \in DOMAIN b.kept : b.kept[i] <= a
  BY <1>1 DEF Recorded
<1>4. Ordered(b.kept, a)
  BY <1>3 DEF Recorded, Ordered
<1>5. z = Noticed([b EXCEPT !.packets = b.packets, !.open = b.open, !.kept = b.kept], a)
  BY <1>2
<1> QED BY <1>1, <1>4, <1>5, NoticedRecorded

LEMMA RecFine ==
  ASSUME NEW f \in Feeds, f.state # "Live", Staged(f), NEW r \in Recoveries, NEW u, Recorded(r, u),
         NEW g, g = [f EXCEPT !.rec = r]
  PROVE  g \in Feeds /\ FeedOK(g, u) /\ Kept(f, g)
<1>1. g \in Feeds /\ g.state = f.state /\ g.rec = r /\ Kept(f, g) /\ Staged(g)
  BY DEF Feeds, Kept, Staged
<1> QED BY <1>1 DEF FeedOK, Exact

LEMMA FeedLater ==
  ASSUME NEW f \in Feeds, f.state # "Live", NEW u \in Nat, NEW v \in Nat, u <= v, FeedOK(f, u)
  PROVE  FeedOK(f, v) /\ Kept(f, f)
<1>1. f.rec \in Recoveries
  BY DEF Feeds
<1> QED BY <1>1, RecordedLater DEF FeedOK, Exact, Kept

LEMMA OnMessageFine ==
  ASSUME NEW f \in Feeds, NEW a \in Nat, a >= 1, FeedOK(f, a), NEW pkt \in Nat \X Nat,
         NEW g, g = OnMessage(f, a, pkt)
  PROVE  g \in Feeds /\ FeedOK(g, a + 1) /\ Kept(f, g)
<1>1. f.rec \in Recoveries /\ f.streak \in Nat /\ Recorded(f.rec, a) /\ Staged(f)
  BY DEF Feeds, FeedOK
<1>2. CASE f.state = "Live"
  BY <1>2, AppliedFine DEF OnMessage
<1>3. CASE f.state # "Live"
  <2>0. PICK y : y = [f EXCEPT !.streak = @ + 1]
    OBVIOUS
  <2>1. /\ y \in Feeds /\ y.state = f.state /\ y.hasGlimpse = f.hasGlimpse
        /\ y.glimpse = f.glimpse /\ y.end = f.end
    BY <1>1, <2>0 DEF Feeds
  <2>2. \/ g = f
        \/ /\ ~f.hasGlimpse /\ a = 1
           /\ g = Apply([GoLive(f, 1) EXCEPT !.books = [seq |-> 0, whole |-> TRUE]], 1)
        \/ a \in Unwanted /\ g = [f EXCEPT !.rec = Noticed(@, a)]
        \/ g = [f EXCEPT !.rec = Buffer(@, a, pkt)]
        \/ g = FeedLost(y)
        \/ f.hasGlimpse /\ f.state # "Lost" /\ g = StartSnapshot(y)
    BY <1>3, <2>0, Zenon DEF OnMessage
  <2>3. CASE g = f
    BY <1>3, <2>3, FeedLater
  <2>4. CASE /\ ~f.hasGlimpse /\ a = 1
             /\ g = Apply([GoLive(f, 1) EXCEPT !.books = [seq |-> 0, whole |-> TRUE]], 1)
    BY <1>1, <2>4, FirstFine
  <2>5. CASE a \in Unwanted /\ g = [f EXCEPT !.rec = Noticed(@, a)]
    <3>1. PICK r : r = Noticed(f.rec, a)
      OBVIOUS
    <3>2. r \in Recoveries /\ Recorded(r, a + 1)
      BY <1>1, <2>5, <3>1, UnwantedFine
    <3> QED BY <1>1, <1>3, <2>5, <3>1, <3>2, RecFine
  <2>6. CASE g = [f EXCEPT !.rec = Buffer(@, a, pkt)]
    <3>1. PICK r : r = Buffer(f.rec, a, pkt)
      OBVIOUS
    <3>2. r \in Recoveries /\ Recorded(r, a + 1)
      BY <1>1, <3>1, BufferFine
    <3> QED BY <1>1, <1>3, <2>6, <3>1, <3>2, RecFine
  <2>7. CASE g = FeedLost(y)
    BY <2>1, <2>7, LostFine DEF Kept
  <2>8. CASE f.hasGlimpse /\ f.state # "Lost" /\ g = StartSnapshot(y)
    <3>1. y.state = "Snapshot" /\ y.hasGlimpse
      BY <1>3, <2>1, <2>8 DEF Feeds
    <3> QED BY <2>1, <2>8, <3>1, StartSnapshotFine DEF Kept
  <2> QED BY <2>2, <2>3, <2>4, <2>5, <2>6, <2>7, <2>8
<1> QED BY <1>2, <1>3

LEMMA OnGapFine ==
  ASSUME NEW f \in Feeds, NEW a \in Nat, NEW b \in Nat, a <= b, FeedOK(f, a),
         NEW g, g = OnGapUnrecoverable(f, a, b)
  PROVE  g \in Feeds /\ FeedOK(g, b) /\ Kept(f, g)
<1>1. PICK e \in Nat : e = Greater(f.lostEnd, b)
  BY DEF Feeds, Greater
<1>2. PICK y : y = [f EXCEPT !.lostEnd = e]
  OBVIOUS
<1>3. /\ y \in Feeds /\ y.state = f.state /\ y.hasGlimpse = f.hasGlimpse /\ y.rec = f.rec
      /\ y.glimpse = f.glimpse /\ y.end = f.end /\ y.books = f.books /\ y.liveFrom = f.liveFrom
      /\ y.retry = f.retry
  BY <1>2 DEF Feeds
<1>4. \/ g = StartRecovery(y) \/ g = FeedLost(y) \/ (y.state # "Live" /\ g = y)
  BY <1>1, <1>2, Zenon DEF OnGapUnrecoverable
<1>5. CASE g = StartRecovery(y)
  BY <1>3, <1>5, StartRecoveryFine DEF Kept
<1>6. CASE g = FeedLost(y)
  BY <1>3, <1>6, LostFine DEF Kept
<1>7. CASE y.state # "Live" /\ g = y
  <2>1. FeedOK(y, a)
    BY <1>3 DEF FeedOK, Exact, Staged
  <2>2. FeedOK(y, b)
    BY <1>3, <1>7, <2>1, FeedLater
  <2> QED BY <1>3, <1>7, <2>2 DEF Kept
<1> QED BY <1>4, <1>5, <1>6, <1>7

LEMMA CallbackMove ==
  ASSUME NEW c \in Contexts, NEW a \in Nat, NEW b \in Nat, a >= 1, NEW k \in Calls, Moves(k, a, b, c),
         NEW f \in Feeds, FeedOK(f, a), NEW g, g = Callback(f, k)
  PROVE  g \in Feeds /\ FeedOK(g, b) /\ Kept(f, g) /\ a <= b
<1>1. CASE k \in Messages /\ k.from = a /\ b = a + 1
  <2>1. k.call = "message" /\ k.pkt \in Nat \X Nat
    BY <1>1 DEF Messages
  <2>2. g = OnMessage(f, a, k.pkt)
    BY <1>1, <2>1 DEF Callback
  <2> QED BY <1>1, <2>1, <2>2, OnMessageFine
<1>2. CASE k \in Gaps /\ k.from = a /\ k.to = b /\ a <= b
  <2>1. k.call = "unrecoverable"
    BY <1>2 DEF Gaps
  <2>2. g = OnGapUnrecoverable(f, a, b)
    BY <1>2, <2>1 DEF Callback
  <2> QED BY <1>2, <2>2, OnGapFine
<1>3. CASE k = Ended /\ a = b
  <2>1. g = f
    BY <1>3 DEF Callback, Ended
  <2> QED BY <1>3, <2>1 DEF Kept
<1>4. k \in Messages => k.call = "message"
  BY DEF Messages
<1> QED BY <1>1, <1>2, <1>3, <1>4 DEF Moves

LEMMA StartSnapshotType ==
  ASSUME NEW f \in Feeds
  PROVE  StartSnapshot(f) \in Feeds
<1>1. EmptyBuffer \in Recoveries /\ NoBooks \in Books
  BY EmptyRecorded DEF NoBooks, Books
<1>2. PICK e \in Recoveries : e = EmptyBuffer
  BY <1>1
<1>3. PICK b \in Books : b = NoBooks
  BY <1>1
<1>4. PICK y : y = [f EXCEPT !.glimpse = "open", !.end = 0, !.books = b, !.rec = e, !.lostEnd = 0,
                             !.retry = FALSE]
  OBVIOUS
<1>5. y \in Feeds
  BY <1>4 DEF Feeds
<1> QED BY <1>2, <1>3, <1>4, <1>5 DEF StartSnapshot

LEMMA AppliedType ==
  ASSUME NEW b \in Books, NEW q \in Nat
  PROVE  Applied(b, q) \in Books
  BY DEF Applied, Books

LEMMA ApplyType ==
  ASSUME NEW f \in Feeds, NEW q \in Nat
  PROVE  Apply(f, q) \in Feeds
<1>1. f.books \in Books
  BY DEF Feeds
<1>2. PICK b \in Books : b = Applied(f.books, q)
  BY <1>1, AppliedType
<1> QED BY <1>2 DEF Apply, Feeds

LEMMA NoticedType ==
  ASSUME NEW b \in Recoveries, NEW q \in Nat
  PROVE  Noticed(b, q) \in Recoveries
<1>1. b.gapEnd \in Nat
  BY DEF Recoveries
<1>2. PICK g \in Nat : g = IF q # b.last + 1 \/ b.last = 0 THEN Greater(b.gapEnd, q) ELSE b.gapEnd
  BY <1>1 DEF Greater
<1>3. Noticed(b, q) = [b EXCEPT !.last = q, !.gapEnd = g]
  BY <1>2 DEF Noticed
<1> QED BY <1>3 DEF Recoveries

LEMMA BufferType ==
  ASSUME NEW b \in Recoveries, NEW q \in Nat, NEW pkt \in Nat \X Nat
  PROVE  Buffer(b, q, pkt) \in Recoveries
<1>1. b.packets \in Nat /\ b.kept \in Seq(Nat)
  BY DEF Recoveries
<1>2. PICK pk \in Nat : pk = IF NeedsRecord(b, pkt) THEN b.packets + 1 ELSE b.packets
  BY <1>1
<1>0. PICK kp \in Seq(Nat) : kp = b.kept
  BY <1>1
<1>3. PICK ks : ks = Append(kp, q)
  OBVIOUS
<1>7. ks \in Seq(Nat)
  BY <1>3
<1>4. PICK y : y = [b EXCEPT !.packets = pk, !.open = pkt, !.kept = ks]
  OBVIOUS
<1>5. y \in Recoveries
  BY <1>4, <1>7 DEF Recoveries
<1>6. Buffer(b, q, pkt) = Noticed(y, q)
  BY <1>0, <1>2, <1>3, <1>4 DEF Buffer
<1> QED BY <1>5, <1>6, NoticedType

LEMMA OnMessageType ==
  ASSUME NEW f \in Feeds, NEW q \in Nat, NEW pkt \in Nat \X Nat, NEW g, g = OnMessage(f, q, pkt)
  PROVE  g \in Feeds
<1>1. f.rec \in Recoveries /\ f.streak \in Nat
  BY DEF Feeds
<1>2. PICK y : y = [f EXCEPT !.streak = @ + 1]
  OBVIOUS
<1>3. y \in Feeds
  BY <1>1, <1>2 DEF Feeds
<1>4. PICK b : b = [seq |-> 0, whole |-> TRUE]
  OBVIOUS
<1>5. PICK x : x = [GoLive(f, 1) EXCEPT !.books = b]
  OBVIOUS
<1>6. x \in Feeds
  <2>1. b \in Books
    BY <1>4 DEF Books
  <2> QED BY <1>5, <2>1 DEF GoLive, Feeds
<1>7. \/ g \in {f, Apply(f, q), Apply(x, q), FeedLost(y), StartSnapshot(y)}
      \/ g = [f EXCEPT !.rec = Noticed(@, q)]
      \/ g = [f EXCEPT !.rec = Buffer(@, q, pkt)]
  BY <1>2, <1>4, <1>5, Zenon DEF OnMessage
<1>8. CASE g \in {Apply(f, q), Apply(x, q)}
  BY <1>6, <1>8, ApplyType
<1>9. CASE g = FeedLost(y)
  BY <1>3, <1>9, LostFine
<1>10. CASE g = StartSnapshot(y)
  BY <1>3, <1>10, StartSnapshotType
<1>11. CASE g = [f EXCEPT !.rec = Noticed(@, q)]
  <2>1. PICK r \in Recoveries : r = Noticed(f.rec, q)
    BY <1>1, NoticedType
  <2> QED BY <1>11, <2>1 DEF Feeds
<1>12. CASE g = [f EXCEPT !.rec = Buffer(@, q, pkt)]
  <2>1. PICK r \in Recoveries : r = Buffer(f.rec, q, pkt)
    BY <1>1, BufferType
  <2> QED BY <1>12, <2>1 DEF Feeds
<1> QED BY <1>7, <1>8, <1>9, <1>10, <1>11, <1>12

LEMMA OnGapType ==
  ASSUME NEW f \in Feeds, NEW a, NEW b \in Nat, NEW g, g = OnGapUnrecoverable(f, a, b)
  PROVE  g \in Feeds
<1>1. PICK e \in Nat : e = Greater(f.lostEnd, b)
  BY DEF Feeds, Greater
<1>2. PICK y : y = [f EXCEPT !.lostEnd = e]
  OBVIOUS
<1>3. y \in Feeds
  BY <1>2 DEF Feeds
<1>4. g \in {StartRecovery(y), FeedLost(y), y}
  BY <1>1, <1>2, Zenon DEF OnGapUnrecoverable
<1> QED BY <1>3, <1>4, StartRecoveryFine, LostFine

LEMMA CallbackType ==
  ASSUME NEW f \in Feeds, NEW k \in Calls
  PROVE  Callback(f, k) \in Feeds
<1>1. CASE k \in Messages
  <2>1. k.call = "message" /\ k.from \in Nat /\ k.pkt \in Nat \X Nat
    BY <1>1 DEF Messages
  <2> QED BY <2>1, OnMessageType DEF Callback
<1>2. CASE k \in Gaps
  <2>1. k.call = "unrecoverable" /\ k.to \in Nat
    BY <1>2 DEF Gaps
  <2> QED BY <2>1, OnGapType DEF Callback
<1>3. CASE k \in [call : {"ended"}]
  BY <1>3 DEF Callback
<1> QED BY <1>1, <1>2, <1>3 DEF Calls

LEMMA CallbackPath ==
  ASSUME NEW c \in Contexts, c.from >= 1, NEW q, NEW P, Path(q, c, P),
         NEW f \in Feeds, FeedOK(f, c.from), NEW g, g = FoldLeft(Callback, f, q)
  PROVE  g \in Feeds /\ FeedOK(g, P[Len(q)]) /\ Kept(f, g)
<1> DEFINE n == Len(q)
<1>1. /\ n \in Nat /\ q \in Seq(Calls) /\ DOMAIN q = 1 .. n /\ P \in [0 .. n -> Nat] /\ P[0] = c.from
      /\ \A i \in 1 .. n : q[i] \in Calls
  BY DEF Path
<1>2. \A i \in DOMAIN q : \A x \in Feeds : Callback(x, q[i]) \in Feeds
  BY <1>1, CallbackType
<1>3. PICK v : /\ v[0] = f /\ \A i \in 0 .. Len(q) : v[i] \in Feeds
               /\ \A i \in 1 .. Len(q) : v[i] = Callback(v[i - 1], q[i])
               /\ FoldLeft(Callback, f, q) = v[Len(q)]
  BY <1>1, <1>2, CallbackRuns
<1> DEFINE G == {i \in Nat : i <= n => FeedOK(v[i], P[i]) /\ Kept(f, v[i]) /\ P[i] >= 1}
<1>4. 0 \in G
  BY <1>1, <1>3 DEF Kept
<1>5. ASSUME NEW i \in Nat, i \in G PROVE i + 1 \in G
  <2>1. SUFFICES ASSUME i + 1 <= n
                 PROVE  FeedOK(v[i + 1], P[i + 1]) /\ Kept(f, v[i + 1]) /\ P[i + 1] >= 1
    OBVIOUS
  <2>2. i + 1 \in 1 .. n /\ (i + 1) - 1 = i /\ i \in 0 .. n /\ i + 1 \in 0 .. n /\ i <= n
    BY <1>1, <2>1
  <2>3. /\ v[i + 1] = Callback(v[i], q[i + 1]) /\ v[i] \in Feeds
        /\ FeedOK(v[i], P[i]) /\ Kept(f, v[i]) /\ P[i] >= 1
    BY <1>3, <1>5, <2>2
  <2>4. /\ Moves(q[i + 1], P[i], P[i + 1], c) /\ P[i] \in Nat /\ P[i + 1] \in Nat
        /\ q[i + 1] \in Calls
    BY <1>1, <2>2 DEF Path
  <2>5. PICK y : y = v[i + 1]
    OBVIOUS
  <2>6. FeedOK(y, P[i + 1]) /\ Kept(v[i], y) /\ P[i] <= P[i + 1]
    BY <2>3, <2>4, <2>5, CallbackMove
  <2>7. Kept(f, y) /\ P[i + 1] >= 1
    BY <2>3, <2>4, <2>6 DEF Kept
  <2> QED BY <2>5, <2>6, <2>7
<1> HIDE DEF G
<1>6. n \in G
  BY <1>1, <1>4, <1>5, NatSetInduction
<1>7. FeedOK(v[n], P[n]) /\ Kept(f, v[n]) /\ v[n] \in Feeds
  BY <1>1, <1>3, <1>6 DEF G
<1> QED BY <1>3, <1>7

-----------------------------------------------------------------------------
(***************************************************************************)
(* The actions.                                                            *)
(***************************************************************************)

LEMMA SettledFine ==
  ASSUME NEW x \in Receivers, NEW z, z = Settled([x EXCEPT !.out = <<>>, !.ask = {}])
  PROVE  /\ z \in Receivers /\ z.next = x.next /\ z.held = x.held /\ z.highest = x.highest
         /\ z.eos = x.eos /\ z.out = <<>> /\ z.ask = {}
<1>1. PICK y : y = [x EXCEPT !.out = <<>>, !.ask = {}]
  OBVIOUS
<1>2. /\ y \in Receivers /\ y.next = x.next /\ y.held = x.held /\ y.highest = x.highest
      /\ y.eos = x.eos /\ y.out = <<>> /\ y.ask = {}
  <2>1. <<>> \in Seq(Calls) /\ {} \in SUBSET Requests
    OBVIOUS
  <2> QED BY <1>1, <2>1 DEF Receivers
<1>3. /\ y.requested \in Nat /\ y.attempts \in Nat /\ y.reqAge \in Nat /\ y.overflow \in Nat
      /\ ReqTicks \in Nat
  BY <1>2, MoldAssumption DEF Receivers
<1>4. PICK a \in Nat : a = IF y.requested < y.next THEN 0 ELSE y.requested
  BY <1>3
<1>5. PICK b \in Nat : b = IF y.requested < y.next THEN 0 ELSE y.attempts
  BY <1>3
<1>6. PICK d \in Nat : d = IF y.requested < y.next THEN ReqTicks ELSE y.reqAge
  BY <1>3
<1>7. PICK e \in Nat : e = IF y.overflow <= y.next THEN 0 ELSE y.overflow
  BY <1>3
<1>8. z = [y EXCEPT !.requested = a, !.attempts = b, !.reqAge = d, !.overflow = e]
  BY <1>1, <1>4, <1>5, <1>6, <1>7 DEF Settled
<1>9. PICK w : w = [y EXCEPT !.requested = a, !.attempts = b]
  OBVIOUS
<1>10. /\ w \in Receivers /\ w.next = y.next /\ w.held = y.held /\ w.highest = y.highest
       /\ w.eos = y.eos /\ w.out = y.out /\ w.ask = y.ask
  BY <1>2, <1>9 DEF Receivers
<1>11. z = [w EXCEPT !.reqAge = d, !.overflow = e]
  BY <1>2, <1>8, <1>9 DEF Receivers
<1>12. /\ z \in Receivers /\ z.next = w.next /\ z.held = w.held /\ z.highest = w.highest
       /\ z.eos = w.eos /\ z.out = w.out /\ z.ask = w.ask
  BY <1>10, <1>11 DEF Receivers
<1> QED BY <1>2, <1>10, <1>12

LEMMA PacketSent ==
  ASSUME tx \in Transmitters, Sending, NEW a \in Nat, NEW n \in Nat, NEW p \in PacketAt(a, n)
  PROVE  p \in Packets /\ Sent(p) /\ p.kind = "data"
<1>1. tx.count \in Nat /\ tx.first \in Nat /\ tx.first >= 1 /\ MaxPkt \in Nat
  BY MoldAssumption DEF Transmitters, Sending
<1>2. ~(a < tx.first \/ a > tx.count)
  BY DEF PacketAt
<1>3. a >= 1 /\ a <= tx.count /\ tx.count + 1 - a \in Nat
  BY <1>1, <1>2
<1>4. PICK m : m = Lesser(Lesser(n, MaxPkt), tx.count + 1 - a)
  OBVIOUS
<1>5. m \in Nat /\ m <= tx.count + 1 - a
  BY <1>1, <1>3, <1>4 DEF Lesser
<1>6. p = Data(a, a + m)
  BY <1>2, <1>4 DEF PacketAt
<1>7. p.kind = "data" /\ p.seq = a /\ p.end = a + m /\ p \in Packets
  BY <1>5, <1>6 DEF Data, Packets
<1> QED BY <1>1, <1>3, <1>5, <1>7 DEF Sent

LEMMA AnswersSent ==
  ASSUME tx \in Transmitters, Sending, NEW asked \in SUBSET Requests, NEW p \in Answers(asked)
  PROVE  p \in Packets /\ Sent(p) /\ p.kind = "data"
<1>1. PICK q \in asked : p \in PacketAt(q.seq, q.n)
  BY DEF Answers
<1>2. q.seq \in Nat /\ q.n \in Nat
  BY DEF Requests
<1> QED BY <1>1, <1>2, PacketSent

LEMMA AfterPacketFine ==
  ASSUME NEW f \in Feeds, NEW u, FeedOK(f, u), NEW e, NEW g, g = AfterPacket(f, e)
  PROVE  g \in Feeds /\ FeedOK(g, u) /\ Kept(f, g)
<1>1. CASE g = f
  BY <1>1 DEF Kept
<1>2. CASE g = StartRecovery(f)
  BY <1>2, StartRecoveryFine
<1> QED BY <1>1, <1>2 DEF AfterPacket

Fresh(c) == /\ c.from >= 1 /\ c.top <= tx.count + 1
            /\ c.eos => tx.over /\ c.top = tx.count + 1

LEMMA RanFine ==
  ASSUME TypeOK, FeedInv, NEW c \in Contexts, NEW x, Finished(x, c), NEW s, Sound(s, c, c.from),
         Fresh(c), FeedOK(feed, c.from), NEW bookError \in BOOLEAN, Ran(x, s, bookError), UNCHANGED tx
  PROVE  TypeOK' /\ FeedInv'
<1>1. /\ Left(x, c) /\ x \in Receivers /\ x.next \in Nat /\ x.ask \in SUBSET Requests
      /\ x.highest \in Nat
  BY FinishedLeft DEF Left, Receivers
<1>2. PICK P : Path(x.out, c, P) /\ P[Len(x.out)] = x.next
  BY FinishedLeft
<1>3. PICK f : f = FoldLeft(Callback, feed, x.out)
  OBVIOUS
<1>4. PICK o : o = FoldLeft(Observed, s, x.out)
  OBVIOUS
<1>5. /\ rx' = Settled([x EXCEPT !.out = <<>>, !.ask = {}])
      /\ \E answered \in SUBSET x.ask : net' = net \cup Answers(answered)
      /\ feed' = AfterPacket(f, bookError)
      /\ seen' = [o EXCEPT !.have = {q \in @ : q >= x.next}]
  BY <1>3, <1>4, Zenon DEF Ran
<1>6. f \in Feeds /\ FeedOK(f, x.next) /\ Kept(feed, f)
  <2>1. feed \in Feeds /\ c.from >= 1
    BY DEF TypeOK, Fresh
  <2> QED BY <1>2, <1>3, <2>1, CallbackPath
<1>7. Sound(o, c, x.next)
  <2>1. c.eos => c.top = tx.count + 1
    BY DEF Fresh
  <2> QED BY <1>2, <1>4, <2>1, ObservedPath
<1>8. /\ rx' \in Receivers /\ rx'.next = x.next /\ rx'.held = x.held /\ rx'.highest = x.highest
      /\ rx'.eos = x.eos /\ rx'.out = <<>> /\ rx'.ask = {}
  <2>1. PICK z : z = Settled([x EXCEPT !.out = <<>>, !.ask = {}])
    OBVIOUS
  <2>2. /\ z \in Receivers /\ z.next = x.next /\ z.held = x.held /\ z.highest = x.highest
        /\ z.eos = x.eos /\ z.out = <<>> /\ z.ask = {}
    BY <1>1, <2>1, SettledFine
  <2> QED BY <1>5, <2>1, <2>2
<1>9. feed' \in Feeds /\ FeedOK(feed', x.next) /\ Kept(feed, feed')
  <2>1. PICK g : g = AfterPacket(f, bookError)
    OBVIOUS
  <2>2. g \in Feeds /\ FeedOK(g, x.next) /\ Kept(f, g)
    BY <1>6, <2>1, AfterPacketFine
  <2>3. Kept(feed, g)
    BY <1>6, <2>2 DEF Kept
  <2> QED BY <1>5, <2>1, <2>2, <2>3
<1>10. ASSUME NEW p \in net' PROVE p \in Packets /\ Sent(p)' /\ p.kind = "data"
  <2>1. p \in Packets /\ Sent(p) /\ p.kind = "data"
    <3>1. CASE p \in net
      BY <3>1 DEF TypeOK, FeedInv
    <3>2. CASE p \notin net
      <4>1. PICK answered \in SUBSET x.ask : net' = net \cup Answers(answered)
        BY <1>5
      <4>2. p \in Answers(answered) /\ answered \in SUBSET Requests
        BY <1>1, <3>2, <4>1
      <4> QED BY <4>2, AnswersSent DEF TypeOK, FeedInv
    <3> QED BY <3>1, <3>2
  <2> QED BY <2>1 DEF Sent
<1>11. /\ seen' \in Views /\ seen'.upto = x.next /\ seen'.inOrder /\ ~seen'.wronged /\ ~seen'.early
       /\ seen'.have \in SUBSET c.have
  BY <1>5, <1>7 DEF Sound, Views
<1>12. TypeOK'
  BY <1>8, <1>9, <1>10, <1>11 DEF TypeOK
<1>13. Sending'
  BY DEF FeedInv, Sending
<1>14. Resting'
  <2>1. Greater(rx'.highest, 1) >= rx'.highest
    BY <1>1, <1>8 DEF Greater
  <2>2. /\ 1 <= x.next /\ x.next <= x.highest /\ x.highest <= tx.count + 1
        /\ x.eos => tx.over /\ x.highest = tx.count + 1
    BY <1>1 DEF Left, Fresh
  <2>3. rx'.next <= Greater(rx'.highest, 1)
    BY <1>1, <1>8, <2>1, <2>2 DEF Greater
  <2>4. Ahead(rx')
    BY <1>1, <1>8 DEF Left, Ahead
  <2>5. rx'.next # 0
    BY <1>1, <1>8, <2>2
  <2> QED BY <1>8, <2>2, <2>3, <2>4, <2>5 DEF Resting, Ahead
<1>15. Watching'
  <2>1. InHand(rx', seen'.have)
    BY <1>1, <1>8, <1>11 DEF Left, InHand
  <2> QED BY <1>8, <1>11, <2>1 DEF Watching, InHand
<1>16. FeedOK(feed', rx'.next)
  BY <1>8, <1>9
<1>17. Glimpsed'
  BY <1>9 DEF Glimpsed, Kept, FeedInv
<1>18. FeedOK(feed, rx.next)'
  BY <1>16 DEF FeedOK, Exact, Recorded, Staged
<1> QED BY <1>10, <1>12, <1>13, <1>14, <1>15, <1>17, <1>18 DEF FeedInv

\* The receiver's call for a datagram starts from where it stands.
LEMMA LookedReady ==
  ASSUME TypeOK, FeedInv, NEW p \in Packets, Sent(p),
         p.kind = "eos" => tx.over /\ p.end = tx.count + 1,
         NEW r, r = Looked(rx, p), NEW H \in SUBSET Nat,
         NEW c, c = [from |-> r.next, have |-> H, top |-> r.highest, eos |-> r.eos]
  PROVE  /\ c \in Contexts /\ Ready(r, c, seen.have) /\ Fresh(c) /\ p.end <= c.top
         /\ r.held = rx.held /\ r.can = rx.can
         /\ r.next = IF rx.next = 0 THEN p.seq ELSE rx.next
<1>1. /\ rx \in Receivers /\ rx.next \in Nat /\ rx.highest \in Nat /\ tx.count \in Nat /\ rx.hiAge \in Nat
      /\ p.seq \in Nat /\ p.end \in Nat /\ rx.eos \in BOOLEAN /\ seen.have \in SUBSET Nat
      /\ rx.state \in {"Down", "Up", "Recovering"} /\ rx.out = <<>>
  BY DEF TypeOK, Receivers, Transmitters, Packets, Views, FeedInv, Resting
<1>2. 1 <= p.seq /\ p.seq <= p.end /\ p.end <= tx.count + 1
  BY DEF Sent
<1>3. PICK n \in Nat : n = IF rx.next = 0 THEN Greater(p.seq, 1) ELSE rx.next
  BY <1>1 DEF Greater
<1>4. PICK st \in {"Down", "Up", "Recovering"} : st = IF rx.state = "Down" THEN "Up" ELSE rx.state
  BY <1>1
<1>5. PICK t \in Nat : t = Greater(rx.highest, p.end)
  BY <1>1 DEF Greater
<1>6. PICK ag \in Nat : ag = IF p.end > rx.highest THEN 0 ELSE rx.hiAge
  BY <1>1
<1>7. PICK e \in BOOLEAN : e = (rx.eos \/ p.kind = "eos")
  BY <1>1
<1>8. r = [rx EXCEPT !.next = n, !.state = st, !.highest = t, !.hiAge = ag, !.eos = e]
  BY <1>3, <1>4, <1>5, <1>6, <1>7 DEF Looked
<1>9. /\ r \in Receivers /\ r.next = n /\ r.highest = t /\ r.eos = e /\ r.held = rx.held
      /\ r.out = rx.out /\ r.can = rx.can
  <2>1. PICK y : y = [rx EXCEPT !.next = n, !.state = st, !.highest = t]
    OBVIOUS
  <2>2. /\ y \in Receivers /\ y.next = n /\ y.highest = t /\ y.held = rx.held /\ y.out = rx.out
        /\ y.can = rx.can
    BY <1>1, <2>1 DEF Receivers
  <2>3. r = [y EXCEPT !.hiAge = ag, !.eos = e]
    BY <1>1, <1>8, <2>1 DEF Receivers
  <2>4. /\ r \in Receivers /\ r.next = y.next /\ r.highest = y.highest /\ r.eos = e
        /\ r.held = y.held /\ r.out = y.out /\ r.can = y.can
    BY <2>2, <2>3 DEF Receivers
  <2> QED BY <2>2, <2>4
<1>10. n = IF rx.next = 0 THEN p.seq ELSE rx.next
  BY <1>1, <1>2, <1>3 DEF Greater
<1>11. /\ rx.next <= Greater(rx.highest, 1) /\ rx.highest <= tx.count + 1 /\ Ahead(rx)
       /\ rx.next = 0 => rx.held = {}
       /\ rx.eos => tx.over /\ rx.highest = tx.count + 1
  BY DEF FeedInv, Resting
<1>12. /\ 1 <= n /\ n <= t /\ p.end <= t /\ rx.highest <= t /\ t <= tx.count + 1 /\ rx.next <= n
  BY <1>1, <1>2, <1>5, <1>10, <1>11 DEF Greater
<1>13. e => tx.over /\ t = tx.count + 1
  <2>1. CASE rx.eos
    BY <1>1, <1>2, <1>5, <1>11, <2>1 DEF Greater
  <2>2. CASE p.kind = "eos"
    BY <1>1, <1>5, <1>11, <2>2 DEF Greater
  <2> QED BY <1>7, <2>1, <2>2
<1>14. /\ c \in Contexts /\ c.from = n /\ c.top = t /\ c.eos = e /\ c.have = H
  BY <1>9 DEF Contexts
<1>15. InHand(r, seen.have)
  <2>1. InHand(rx, seen.have)
    BY DEF FeedInv, Watching
  <2> QED BY <1>1, <1>9, <1>12, <2>1, InHandMore
<1>16. \A h \in r.held : h.seq > r.next /\ h.end <= c.top
  <2>1. CASE rx.next = 0
    BY <1>9, <1>11, <2>1
  <2>2. CASE rx.next # 0
    <3>1. r.next = rx.next
      BY <1>9, <1>10, <2>2
    <3>2. ASSUME NEW h \in r.held PROVE h.end <= c.top
      <4>1. h.end \in Nat /\ h.end <= rx.highest
        BY <1>1, <1>9, <1>11 DEF Ahead, Receivers, Buffers, HeldPackets
      <4> QED BY <1>1, <1>12, <1>14, <4>1
    <3> QED BY <1>9, <1>11, <3>1, <3>2 DEF Ahead
  <2> QED BY <2>1, <2>2
<1>17. Chained(r.out, c.from, r.next) /\ Spares(r.out, c.have)
  BY <1>1, <1>9, <1>14 DEF Chained, Spares
<1>18. Ready(r, c, seen.have)
  BY <1>9, <1>12, <1>14, <1>15, <1>16, <1>17 DEF Ready, Working
<1>19. Fresh(c)
  BY <1>12, <1>13, <1>14 DEF Fresh
<1> QED BY <1>9, <1>10, <1>12, <1>14, <1>18, <1>19

LEMMA DatagramFine ==
  ASSUME TypeOK, FeedInv, NEW p \in Packets, Sent(p), p.kind # "data" => p.seq = p.end,
         p.kind = "eos" => tx.over /\ p.end = tx.count + 1,
         NEW bookError \in BOOLEAN, Datagram(p, bookError)
  PROVE  TypeOK' /\ FeedInv'
<1>1. PICK r : r = Looked(rx, p)
  OBVIOUS
<1>2. PICK s : s = Arrived(seen, p)
  OBVIOUS
<1>3. PICK K : K = seen.have
  OBVIOUS
<1>4. PICK H : H = IF Dropped(p) THEN K ELSE K \cup p.seq .. p.end - 1
  OBVIOUS
<1>5. /\ seen \in Views /\ seen.upto \in Nat /\ K \in SUBSET Nat /\ p.seq \in Nat /\ p.end \in Nat
      /\ rx.next \in Nat /\ feed \in Feeds /\ p.seq <= p.end /\ 1 <= p.seq
  BY <1>3 DEF TypeOK, Views, Packets, Receivers, Sent
<1>6. H \in SUBSET Nat
  <2>1. p.seq .. p.end - 1 \in SUBSET Nat
    BY <1>5
  <2> QED BY <1>4, <1>5, <2>1
<1>7. PICK c : c = [from |-> r.next, have |-> H, top |-> r.highest, eos |-> r.eos]
  OBVIOUS
<1>8. /\ c \in Contexts /\ Ready(r, c, K) /\ Fresh(c) /\ p.end <= c.top /\ r.held = rx.held
      /\ r.can = rx.can /\ r.next = IF rx.next = 0 THEN p.seq ELSE rx.next
  BY <1>1, <1>3, <1>6, <1>7, LookedReady
<1>9. c.from = r.next /\ c.have = H
  BY <1>7
<1>10. c.have = IF r.next < p.seq /\ Refused(r, p) THEN K ELSE K \cup p.seq .. p.end - 1
  <2>1. CASE rx.next = 0
    <3>1. ~Dropped(p) /\ ~(r.next < p.seq)
      BY <1>5, <1>8, <2>1 DEF Dropped
    <3> QED BY <1>4, <1>9, <3>1
  <2>2. CASE rx.next # 0
    <3>1. r.next = rx.next
      BY <1>8, <2>2
    <3>2. (p.seq > rx.next) <=> (r.next < p.seq)
      BY <1>5, <3>1
    <3>3. Covered(r, p) <=> Covered(rx, p)
      BY <1>8 DEF Covered
    <3>4. Full(r) <=> Full(rx)
      BY <1>8 DEF Full
    <3>5. Dropped(p) <=> (r.next < p.seq /\ Refused(r, p))
      BY <1>8, <2>2, <3>2, <3>3, <3>4 DEF Dropped, Refused
    <3> QED BY <1>4, <1>9, <3>5
  <2> QED BY <2>1, <2>2
<1>11. PICK x : x = OnPacket(rx, p)
  OBVIOUS
<1>12. Finished(x, c)
  BY <1>1, <1>5, <1>8, <1>10, <1>11, OnPacketFinished
<1>13. Sound(s, c, c.from)
  <2>1. PICK a \in Nat : a = IF seen.upto = 0 THEN Greater(p.seq, 1) ELSE seen.upto
    BY <1>5 DEF Greater
  <2>2. s = [seen EXCEPT !.upto = a, !.have = H]
    BY <1>2, <1>3, <1>4, <2>1 DEF Arrived
  <2>3. seen.upto = rx.next /\ seen.inOrder /\ ~seen.wronged /\ ~seen.early
    BY DEF FeedInv, Watching
  <2>4. a = r.next
    BY <1>5, <1>8, <2>1, <2>3 DEF Greater
  <2>5. /\ s \in Views /\ s.upto = a /\ s.have = H /\ s.inOrder /\ ~s.wronged /\ ~s.early
    BY <1>5, <1>6, <2>2, <2>3 DEF Views
  <2> QED BY <1>9, <2>4, <2>5 DEF Sound
<1>14. FeedOK(feed, c.from)
  <2>1. CASE rx.next # 0
    BY <1>8, <1>9, <2>1 DEF FeedInv
  <2>2. CASE rx.next = 0
    <3>1. FeedOK(feed, rx.next) /\ feed.state # "Live"
      BY <2>2 DEF FeedInv, Resting
    <3>2. c.from = p.seq /\ rx.next <= p.seq
      BY <1>5, <1>8, <1>9, <2>2
    <3> QED BY <1>5, <3>1, <3>2, FeedLater
  <2> QED BY <2>1, <2>2
<1>15. Ran(x, s, bookError) /\ UNCHANGED tx
  BY <1>2, <1>11 DEF Datagram
<1> QED BY <1>8, <1>12, <1>13, <1>14, <1>15, RanFine

LEMMA OnDataFine ==
  ASSUME TypeOK, FeedInv, OnData
  PROVE  TypeOK' /\ FeedInv'
<1>1. PICK p \in net, bookError \in BOOLEAN : Datagram(p, bookError)
  BY DEF OnData
<1>2. p \in Packets /\ Sent(p) /\ p.kind = "data"
  BY DEF TypeOK, FeedInv
<1>3. (p.kind # "data" => p.seq = p.end) /\ (p.kind = "eos" => tx.over /\ p.end = tx.count + 1)
  BY <1>2
<1> QED BY <1>1, <1>2, <1>3, DatagramFine

LEMMA OnAnnouncementFine ==
  ASSUME TypeOK, FeedInv, OnAnnouncement
  PROVE  TypeOK' /\ FeedInv'
<1>1. PICK p \in Announcements, bookError \in BOOLEAN : Datagram(p, bookError)
  BY DEF OnAnnouncement
<1>2. /\ tx.count \in Nat /\ tx.unsent \in Nat /\ tx.unsent >= 1 /\ tx.unsent <= tx.count + 1
      /\ tx.over => tx.unsent = tx.count + 1
  BY DEF TypeOK, Transmitters, FeedInv, Sending
<1>3. /\ p \in Packets /\ Sent(p) /\ p.seq = p.end
      /\ p.kind = "eos" => tx.over /\ p.end = tx.count + 1
  <2>1. CASE \E n \in 1 .. tx.unsent : p = Heartbeat(n)
    <3>1. PICK n \in 1 .. tx.unsent : p = Heartbeat(n)
      BY <2>1
    <3>2. p.kind = "heartbeat" /\ p.seq = n /\ p.end = n /\ p \in Packets
      BY <1>2, <3>1 DEF Heartbeat, Packets
    <3> QED BY <1>2, <3>2 DEF Sent
  <2>2. CASE tx.over /\ p = EndOfSession(tx.unsent)
    <3>1. p.kind = "eos" /\ p.seq = tx.unsent /\ p.end = tx.unsent /\ p \in Packets
      BY <1>2, <2>2 DEF EndOfSession, Packets
    <3> QED BY <1>2, <2>2, <3>1 DEF Sent
  <2> QED BY <1>1, <2>1, <2>2 DEF Announcements
<1> QED BY <1>1, <1>3, DatagramFine

LEMMA ServiceFine ==
  ASSUME TypeOK, FeedInv, Service
  PROVE  TypeOK' /\ FeedInv'
<1>1. /\ rx \in Receivers /\ rx.next \in Nat /\ rx.highest \in Nat /\ rx.eos \in BOOLEAN
      /\ seen \in Views /\ seen.have \in SUBSET Nat /\ rx.next # 0 /\ rx.next < rx.highest
  BY DEF TypeOK, Receivers, Views, Service
<1>2. PICK c : c = [from |-> rx.next, have |-> seen.have, top |-> rx.highest, eos |-> rx.eos]
  OBVIOUS
<1>3. /\ c \in Contexts /\ c.from = rx.next /\ c.have = seen.have /\ c.top = rx.highest
      /\ c.eos = rx.eos
  BY <1>1, <1>2 DEF Contexts
<1>4. Ready(rx, c, c.have)
  <2>1. rx.out = <<>> /\ Ahead(rx) /\ InHand(rx, seen.have)
    BY DEF FeedInv, Resting, Watching
  <2>2. Chained(rx.out, c.from, rx.next) /\ Spares(rx.out, c.have)
    BY <1>3, <2>1 DEF Chained, Spares
  <2>3. 1 <= rx.next /\ rx.next <= c.top
    BY <1>1, <1>3
  <2> QED BY <1>1, <1>3, <2>1, <2>2, <2>3 DEF Ready, Working, Ahead
<1>5. PICK x : x = OnTimer(rx)
  OBVIOUS
<1>6. x = Update(rx)
  BY <1>1, <1>5 DEF OnTimer
<1>7. Finished(x, c)
  BY <1>3, <1>4, <1>6, UpdateFinished
<1>8. Sound(seen, c, c.from)
  BY <1>1, <1>3 DEF FeedInv, Watching, Sound
<1>9. Fresh(c) /\ FeedOK(feed, c.from)
  <2>1. 1 <= c.from
    BY <1>1, <1>3
  <2> QED BY <1>3, <2>1 DEF FeedInv, Resting, Fresh
<1>10. PICK bookError \in BOOLEAN : Ran(x, seen, bookError) /\ UNCHANGED tx
  BY <1>5 DEF Service
<1> QED BY <1>3, <1>7, <1>8, <1>9, <1>10, RanFine

(***************************************************************************)
(* The end of a snapshot.                                                  *)
(***************************************************************************)
ReplayedBooks(ks, end) == ReplayAll([seq |-> end - 1, whole |-> TRUE], ks, end)

LEMMA ReplayedType ==
  ASSUME NEW b \in Books, NEW k \in Nat, NEW end
  PROVE  Replayed(b, k, end) \in Books
  BY AppliedType DEF Replayed

\* What was kept, k of it: the books stand at the last message from the snapshot's end on.
Caught(b, ks, k, end) ==
  b.whole /\ b.seq = IF k >= 1 /\ ks[k] >= end THEN ks[k] ELSE end - 1

\* The buffer keeps, in order, what is wanted from lo to hi.
Keeps(ks, n, lo, hi) ==
  /\ \A j \in 1 .. n : ks[j] <= hi
  /\ \A j, k \in 1 .. n : j < k => ks[j] < ks[k]
  /\ \A q \in lo .. hi : q >= 1 => q \in Unwanted \/ \E j \in 1 .. n : q = ks[j]

LEMMA KeepsOrder ==
  ASSUME NEW n \in Nat, NEW ks \in [1 .. n -> Nat], NEW lo \in Nat, NEW hi \in Nat, Keeps(ks, n, lo, hi),
         NEW j \in 1 .. n, NEW k \in 1 .. n
  PROVE  (ks[j] < ks[k] => j < k) /\ (j <= k => ks[j] <= ks[k])
<1>1. ks[j] \in Nat /\ ks[k] \in Nat /\ (j < k => ks[j] < ks[k]) /\ (k < j => ks[k] < ks[j])
  BY DEF Keeps
<1>2. j < k \/ j = k \/ k < j
  OBVIOUS
<1> QED BY <1>1, <1>2

LEMMA ReplayStep ==
  ASSUME NEW n \in Nat, NEW ks \in [1 .. n -> Nat], NEW lo \in Nat, NEW hi \in Nat, Keeps(ks, n, lo, hi),
         NEW end \in Nat, end >= 1, lo <= end,
         NEW i \in Nat, i + 1 <= n, NEW b \in Books, Caught(b, ks, i, end)
  PROVE  Caught(Replayed(b, ks[i + 1], end), ks, i + 1, end)
<1>1. i + 1 \in 1 .. n /\ (i >= 1 => i \in 1 .. n)
  OBVIOUS
<1>2. PICK k \in Nat : k = ks[i + 1]
  BY <1>1
<1>3. k <= hi
  BY <1>1, <1>2 DEF Keeps
<1>4. i >= 1 => ks[i] \in Nat /\ ks[i] < k
  BY <1>1, <1>2 DEF Keeps
<1>6. b.seq \in Nat /\ b.whole
  BY DEF Books, Caught
<1>7. CASE k < end
  <2>1. Replayed(b, k, end) = b
    BY <1>7 DEF Replayed
  <2>2. ~(i >= 1 /\ ks[i] >= end)
    BY <1>4, <1>7
  <2>3. b.seq = end - 1
    BY <2>2 DEF Caught
  <2> QED BY <1>2, <1>6, <1>7, <2>1, <2>3 DEF Caught
<1>8. CASE k >= end
  <2>1. Replayed(b, k, end) = Applied(b, k)
    BY <1>8 DEF Replayed
  <2>2. k > b.seq /\ b.seq >= end - 1
    <3>1. CASE i >= 1 /\ ks[i] >= end
      BY <1>4, <3>1 DEF Caught
    <3>2. CASE ~(i >= 1 /\ ks[i] >= end)
      BY <1>8, <3>2 DEF Caught
    <3> QED BY <3>1, <3>2
  <2>3. ASSUME NEW z \in (b.seq + 1) .. (k - 1) PROVE z \in Unwanted
    <3>1. z \in Nat /\ z >= end /\ z < k /\ b.seq < z
      BY <1>6, <2>2
    <3>2. z \in lo .. hi /\ z >= 1
      BY <1>3, <3>1
    <3>3. ASSUME NEW j \in 1 .. n, z = ks[j] PROVE FALSE
      <4>1. j < i + 1
        BY <1>1, <1>2, <3>1, <3>3, KeepsOrder
      <4>2. i >= 1 /\ i \in 1 .. n /\ j <= i
        BY <1>1, <4>1
      <4>3. ks[j] <= ks[i]
        BY <4>2, KeepsOrder
      <4>4. ks[i] \in Nat /\ z <= ks[i]
        BY <1>4, <3>3, <4>2, <4>3
      <4>5. ks[i] >= end
        BY <3>1, <4>4
      <4>6. b.seq = ks[i]
        BY <4>2, <4>5 DEF Caught
      <4> QED BY <3>1, <4>4, <4>6
    <3> QED BY <3>2, <3>3 DEF Keeps
  <2>4. Applied(b, k) = [seq |-> k, whole |-> TRUE]
    BY <1>6, <2>2, <2>3 DEF Applied
  <2>5. i + 1 >= 1
    OBVIOUS
  <2> QED BY <1>2, <1>8, <2>1, <2>4, <2>5 DEF Caught
<1> QED BY <1>2, <1>7, <1>8

\* The books once everything kept is replayed.
LEMMA CaughtExact ==
  ASSUME NEW n \in Nat, NEW ks \in [1 .. n -> Nat], NEW lo \in Nat, NEW hi \in Nat, Keeps(ks, n, lo, hi),
         NEW end \in Nat, end >= 1, lo <= end, NEW b \in Books, Caught(b, ks, n, end),
         NEW e, e = Greater(end, hi + 1)
  PROVE  Standing(b, e) /\ b.seq < e
<1>1. b.seq \in Nat /\ b.whole
  BY DEF Books, Caught
<1>2. e \in Nat /\ e >= end /\ e >= hi + 1 /\ (e = end \/ e = hi + 1)
  BY DEF Greater
<1>3. n >= 1 => n \in 1 .. n /\ ks[n] \in Nat /\ ks[n] <= hi
  BY DEF Keeps
<1>4. b.seq < e /\ b.seq >= end - 1
  <2>1. CASE n >= 1 /\ ks[n] >= end
    <3>1. b.seq = ks[n]
      BY <2>1 DEF Caught
    <3> QED BY <1>2, <1>3, <2>1, <3>1
  <2>2. CASE ~(n >= 1 /\ ks[n] >= end)
    <3>1. b.seq = end - 1
      BY <2>2 DEF Caught
    <3> QED BY <1>2, <3>1
  <2> QED BY <2>1, <2>2
<1>5. ASSUME NEW z \in (b.seq + 1) .. (e - 1) PROVE z \in Unwanted
  <2>1. z \in Nat /\ z >= end /\ z <= hi /\ z >= 1 /\ b.seq < z
    BY <1>1, <1>2, <1>4
  <2>2. z \in lo .. hi
    BY <2>1
  <2>3. ASSUME NEW j \in 1 .. n, z = ks[j] PROVE FALSE
    <3>1. n >= 1 /\ n \in 1 .. n /\ j <= n
      OBVIOUS
    <3>2. ks[j] <= ks[n]
      BY <3>1, KeepsOrder
    <3>3. ks[n] \in Nat /\ ks[n] >= end /\ z <= ks[n]
      BY <1>3, <2>1, <2>3, <3>1, <3>2
    <3>4. b.seq = ks[n]
      BY <3>1, <3>3 DEF Caught
    <3> QED BY <2>1, <3>3, <3>4
  <2> QED BY <2>1, <2>2, <2>3 DEF Keeps
<1> QED BY <1>1, <1>4, <1>5 DEF Standing

LEMMA ReplayExact ==
  ASSUME NEW rec \in Recoveries, NEW u \in Nat, Recorded(rec, u), NEW end \in Nat, end >= 1,
         rec.gapEnd <= end, NEW b, b = ReplayedBooks(rec.kept, end),
         NEW e, e = Greater(end, rec.last + 1)
  PROVE  b \in Books /\ Standing(b, e) /\ b.seq < e
<1>1. rec.last \in Nat /\ rec.gapEnd \in Nat /\ rec.kept \in Seq(Nat)
  BY DEF Recoveries
<1>2. PICK ks \in Seq(Nat) : ks = rec.kept
  BY <1>1
<1>3. PICK n \in Nat : n = Len(ks)
  OBVIOUS
<1>4. ks \in [1 .. n -> Nat] /\ DOMAIN ks = 1 .. n
  BY <1>3
<1>5. PICK s : s = [seq |-> end - 1, whole |-> TRUE]
  OBVIOUS
<1>6. s \in Books /\ s.seq = end - 1 /\ s.whole
  BY <1>5 DEF Books
<1>7. \A i \in DOMAIN ks : \A x \in Books : Replayed(x, ks[i], end) \in Books
  BY <1>4, ReplayedType
<1>8. PICK v : /\ v[0] = s /\ \A i \in 0 .. Len(ks) : v[i] \in Books
               /\ \A i \in 1 .. Len(ks) : v[i] = Replayed(v[i - 1], ks[i], end)
               /\ ReplayAll(s, ks, end) = v[Len(ks)]
  BY <1>6, <1>7, ReplayRuns
<1>9. b = v[n]
  BY <1>2, <1>3, <1>5, <1>8, Zenon DEF ReplayedBooks
<1>k. Keeps(ks, n, rec.gapEnd, rec.last)
  <2>1. /\ \A j \in 1 .. n : ks[j] <= rec.last
        /\ \A j, k \in 1 .. n : j < k => ks[j] < ks[k]
    BY <1>2, <1>4 DEF Recorded
  <2>2. ASSUME NEW q \in rec.gapEnd .. rec.last, q >= 1
        PROVE  q \in Unwanted \/ \E j \in 1 .. n : q = ks[j]
    <3>1. q \in Unwanted \/ q \in Range(ks)
      BY <1>2, <2>2 DEF Recorded
    <3> QED BY <1>4, <3>1 DEF Range
  <2> QED BY <2>1, <2>2 DEF Keeps
<1> DEFINE G == {i \in Nat : i <= n => Caught(v[i], ks, i, end)}
<1>10. 0 \in G
  BY <1>6, <1>8 DEF Caught
<1>11. ASSUME NEW i \in Nat, i \in G PROVE i + 1 \in G
  <2>1. SUFFICES ASSUME i + 1 <= n PROVE Caught(v[i + 1], ks, i + 1, end)
    OBVIOUS
  <2>2. i + 1 \in 1 .. n /\ (i + 1) - 1 = i /\ i \in 0 .. n /\ i <= n
    BY <2>1
  <2>3. v[i + 1] = Replayed(v[i], ks[i + 1], end) /\ v[i] \in Books /\ Caught(v[i], ks, i, end)
    BY <1>3, <1>8, <1>11, <2>2
  <2>4. Caught(Replayed(v[i], ks[i + 1], end), ks, i + 1, end)
    BY <1>1, <1>4, <1>k, <2>1, <2>3, ReplayStep
  <2> QED BY <2>3, <2>4
<1> HIDE DEF G
<1>12. n \in G
  BY <1>10, <1>11, NatSetInduction
<1>13. b \in Books /\ Caught(b, ks, n, end)
  <2>1. Caught(v[n], ks, n, end)
    BY <1>12 DEF G
  <2>2. v[n] \in Books
    BY <1>3, <1>8
  <2> QED BY <1>9, <2>1, <2>2
<1> QED BY <1>1, <1>4, <1>k, <1>13, CaughtExact

Done(f) == [f EXCEPT !.glimpse = "none", !.end = 0]
Expected(f, end) == Greater(end, f.rec.last + 1)
LiveAgain(f, end) ==
  GoLive([Done(f) EXCEPT !.books = ReplayedBooks(f.rec.kept, end), !.rec = EmptyBuffer],
         Expected(f, end))
Later(f) == [RetryLater(Done(f)) EXCEPT !.rec = EmptyBuffer]
ResetTo(f, end) == IF rx.next = 0 \/ rx.next > Expected(f, end) THEN Expected(f, end) ELSE 0

LEMMA FinishOutcomes ==
  ASSUME NEW f, NEW end, NEW refused, NEW d, d = FinishSnapshot(f, end, refused)
  PROVE  \/ d = [f |-> StartSnapshot(Done(f)), reset |-> 0]
         \/ d = [f |-> Later(f), reset |-> 0]
         \/ ~GapAfter(f.rec, end) /\ d = [f |-> LiveAgain(f, end), reset |-> ResetTo(f, end)]
  BY Zenon DEF FinishSnapshot, ReplayedBooks, ReplayAll, Replayed, Done, Expected, LiveAgain, Later,
               ResetTo

LEMMA DoneFine ==
  ASSUME NEW f \in Feeds, NEW g, g = Done(f)
  PROVE  /\ g \in Feeds /\ g.state = f.state /\ g.hasGlimpse = f.hasGlimpse /\ g.glimpse = "none"
         /\ g.end = 0 /\ g.rec = f.rec /\ g.retry = f.retry
  BY DEF Done, Feeds

LEMMA RetryLaterFine ==
  ASSUME NEW f \in Feeds, f.state = "Snapshot", f.hasGlimpse, f.glimpse = "none",
         NEW r \in Recoveries, NEW u, Recorded(r, u), NEW g, g = [RetryLater(f) EXCEPT !.rec = r]
  PROVE  g \in Feeds /\ FeedOK(g, u) /\ g.glimpse = "none"
<1>1. NoBooks \in Books
  BY DEF NoBooks, Books
<1>2. PICK b \in Books : b = NoBooks
  BY <1>1
<1>3. g = [f EXCEPT !.books = b, !.retry = TRUE, !.rec = r]
  BY <1>2 DEF RetryLater, Feeds
<1>4. /\ g \in Feeds /\ g.state = "Snapshot" /\ g.hasGlimpse /\ g.glimpse = "none" /\ g.rec = r
  BY <1>3 DEF Feeds
<1> QED BY <1>4 DEF FeedOK, Exact, Staged

LEMMA GoLiveFine ==
  ASSUME NEW x \in Feeds, NEW n \in Nat, NEW g, g = GoLive(x, n)
  PROVE  /\ g \in Feeds /\ g.hasGlimpse = x.hasGlimpse /\ g.glimpse = x.glimpse /\ g.books = x.books
         /\ g.rec = x.rec /\ g.liveFrom = n /\ g.state = "Live"
<1>1. g = [x EXCEPT !.state = "Live", !.liveFrom = n, !.streak = 0, !.lostEnd = 0]
  BY DEF GoLive
<1>2. PICK y : y = [x EXCEPT !.state = "Live", !.liveFrom = n]
  OBVIOUS
<1>3. /\ y \in Feeds /\ y.hasGlimpse = x.hasGlimpse /\ y.glimpse = x.glimpse /\ y.books = x.books
      /\ y.rec = x.rec /\ y.liveFrom = n /\ y.state = "Live"
  BY <1>2 DEF Feeds
<1>4. g = [y EXCEPT !.streak = 0, !.lostEnd = 0]
  BY <1>1, <1>2 DEF Feeds
<1>5. /\ g \in Feeds /\ g.hasGlimpse = y.hasGlimpse /\ g.glimpse = y.glimpse /\ g.books = y.books
      /\ g.rec = y.rec /\ g.liveFrom = y.liveFrom /\ g.state = y.state
  <2>1. y \in Feeds
    BY <1>3
  <2>2. PICK w : w = [y EXCEPT !.streak = 0]
    OBVIOUS
  <2>3. /\ w \in Feeds /\ w.hasGlimpse = y.hasGlimpse /\ w.glimpse = y.glimpse /\ w.books = y.books
        /\ w.rec = y.rec /\ w.liveFrom = y.liveFrom /\ w.state = y.state
    BY <2>1, <2>2 DEF Feeds
  <2>4. g = [w EXCEPT !.lostEnd = 0]
    BY <1>4, <2>1, <2>2 DEF Feeds
  <2>5. /\ g \in Feeds /\ g.hasGlimpse = w.hasGlimpse /\ g.glimpse = w.glimpse /\ g.books = w.books
        /\ g.rec = w.rec /\ g.liveFrom = w.liveFrom /\ g.state = w.state
    BY <2>3, <2>4 DEF Feeds
  <2> QED BY <2>3, <2>5
<1> QED BY <1>3, <1>5

LEMMA LiveAgainFine ==
  ASSUME NEW f \in Feeds, f.hasGlimpse, NEW u \in Nat, FeedOK(f, u), NEW end \in Nat, end >= 1,
         ~GapAfter(f.rec, end), NEW g, g = LiveAgain(f, end), NEW n, n = Expected(f, end),
         NEW v \in Nat, v <= n
  PROVE  g \in Feeds /\ FeedOK(g, v) /\ g.glimpse = "none" /\ n \in Nat /\ n >= 1
<1>1. f.rec \in Recoveries /\ Recorded(f.rec, u) /\ f.rec.last \in Nat /\ f.rec.gapEnd \in Nat
  BY DEF Feeds, FeedOK, Recoveries
<1>2. f.rec.gapEnd <= end
  BY <1>1 DEF GapAfter
<1>3. PICK b : b = ReplayedBooks(f.rec.kept, end)
  OBVIOUS
<1>4. b \in Books /\ Standing(b, n) /\ b.seq < n
  BY <1>1, <1>2, <1>3, ReplayExact DEF Expected
<1>5. n \in Nat /\ n >= 1
  BY <1>1 DEF Expected, Greater
<1>6. EmptyBuffer \in Recoveries /\ Recorded(EmptyBuffer, v)
  BY EmptyRecorded
<1>7. PICK y : y = Done(f)
  OBVIOUS
<1>8. y \in Feeds /\ y.hasGlimpse /\ y.glimpse = "none"
  BY <1>7, DoneFine
<1>9. PICK x : x = [y EXCEPT !.books = b, !.rec = EmptyBuffer]
  OBVIOUS
<1>10. x \in Feeds /\ x.hasGlimpse /\ x.glimpse = "none" /\ x.books = b /\ x.rec = EmptyBuffer
  BY <1>4, <1>6, <1>8, <1>9 DEF Feeds
<1>11. g = GoLive(x, n)
  BY <1>3, <1>7, <1>9 DEF LiveAgain
<1>12. /\ g \in Feeds /\ g.hasGlimpse /\ g.glimpse = "none" /\ g.books = b /\ g.rec = EmptyBuffer
       /\ g.liveFrom = n /\ g.state = "Live"
  <2>1. /\ g \in Feeds /\ g.hasGlimpse = x.hasGlimpse /\ g.glimpse = x.glimpse /\ g.books = x.books
        /\ g.rec = x.rec /\ g.liveFrom = n /\ g.state = "Live"
    <3>1. x \in Feeds /\ n \in Nat
      BY <1>5, <1>10
    <3> QED BY <1>11, <3>1, GoLiveFine
  <2> QED BY <1>10, <2>1
<1>13. Greater(v, g.liveFrom) = n
  BY <1>5, <1>12 DEF Greater
<1> QED BY <1>4, <1>5, <1>6, <1>12, <1>13 DEF FeedOK, Exact, Staged

LEMMA ResetFine ==
  ASSUME NEW r \in Receivers, NEW n \in Nat, n >= 1, NEW z, z = Reset(r, n)
  PROVE  /\ z \in Receivers /\ z.next = n /\ z.held = {} /\ z.highest = Greater(r.highest, n)
         /\ z.eos = r.eos /\ z.out = r.out /\ z.ask = r.ask
<1>1. r.highest \in Nat /\ r.hiAge \in Nat /\ r.state \in {"Down", "Up", "Recovering"}
  BY DEF Receivers
<1>2. PICK st \in {"Down", "Up", "Recovering"} : st = IF r.state = "Recovering" THEN "Up" ELSE r.state
  BY <1>1
<1>3. PICK t \in Nat : t = Greater(r.highest, n)
  BY <1>1 DEF Greater
<1>4. PICK ag \in Nat : ag = IF r.highest < n THEN 0 ELSE r.hiAge
  BY <1>1
<1>5. PICK w : w = [r EXCEPT !.next = n, !.held = {}, !.requested = 0]
  OBVIOUS
<1>6. {} \in Buffers
  BY FS_EmptySet DEF Buffers
<1>7. /\ w \in Receivers /\ w.next = n /\ w.held = {} /\ w.eos = r.eos /\ w.out = r.out
      /\ w.ask = r.ask
  BY <1>5, <1>6 DEF Receivers
<1>8. PICK y : y = [w EXCEPT !.attempts = 0, !.overflow = 0, !.state = st]
  OBVIOUS
<1>9. /\ y \in Receivers /\ y.next = n /\ y.held = {} /\ y.eos = r.eos /\ y.out = r.out
      /\ y.ask = r.ask
  BY <1>7, <1>8 DEF Receivers
<1>10. PICK x : x = [y EXCEPT !.highest = t, !.hiAge = ag]
  OBVIOUS
<1>11. /\ x \in Receivers /\ x.next = n /\ x.held = {} /\ x.eos = r.eos /\ x.out = r.out
       /\ x.ask = r.ask /\ x.highest = t
  BY <1>9, <1>10 DEF Receivers
<1>12. PICK g \in Int : g = IF n # 0 /\ n < x.highest THEN 0 ELSE NoGap
  BY DEF NoGap
<1>13. x = [r EXCEPT !.next = n, !.held = {}, !.requested = 0, !.attempts = 0, !.overflow = 0,
                     !.state = st, !.highest = t, !.hiAge = ag]
  BY <1>5, <1>8, <1>10 DEF Receivers
<1>14. z = [x EXCEPT !.gap = g]
  BY <1>2, <1>3, <1>4, <1>12, <1>13 DEF Reset
<1>15. /\ z \in Receivers /\ z.next = x.next /\ z.held = x.held /\ z.eos = x.eos /\ z.out = x.out
       /\ z.ask = x.ask /\ z.highest = x.highest
  BY <1>11, <1>14 DEF Receivers
<1> QED BY <1>3, <1>11, <1>15

LEMMA GlimpseEndFine ==
  ASSUME TypeOK, FeedInv, GlimpseEnd
  PROVE  TypeOK' /\ FeedInv'
<1>1. PICK refused \in {"nothing", "snapshot", "buffered"} :
        LET d == FinishSnapshot(feed, feed.end, refused)
        IN  /\ feed' = d.f /\ rx' = IF d.reset = 0 THEN rx ELSE Reset(rx, d.reset)
            /\ seen' = IF d.reset = 0 THEN seen ELSE [seen EXCEPT !.upto = d.reset, !.have = {}]
  BY Zenon DEF GlimpseEnd
<1>2. PICK d : d = FinishSnapshot(feed, feed.end, refused)
  OBVIOUS
<1>3. /\ feed' = d.f /\ rx' = IF d.reset = 0 THEN rx ELSE Reset(rx, d.reset)
      /\ seen' = IF d.reset = 0 THEN seen ELSE [seen EXCEPT !.upto = d.reset, !.have = {}]
  BY <1>1, <1>2, Zenon
<1>4. UNCHANGED <<tx, net>> /\ feed.glimpse = "taken"
  BY DEF GlimpseEnd
<1>5. /\ feed \in Feeds /\ feed.end \in Nat /\ feed.end >= 1 /\ feed.end <= tx.count + 1
      /\ FeedOK(feed, rx.next) /\ feed.state = "Snapshot" /\ feed.hasGlimpse /\ rx.next \in Nat
      /\ tx.count \in Nat /\ rx \in Receivers /\ rx.highest \in Nat
  BY <1>4 DEF TypeOK, Feeds, FeedInv, FeedOK, Staged, Glimpsed, Receivers, Transmitters
<1>6. Sending' /\ (\A p \in net' : Sent(p)' /\ p.kind = "data") /\ tx' \in Transmitters
      /\ net' \in SUBSET Packets
  BY <1>4 DEF FeedInv, Sending, Sent, TypeOK
<1>7. PICK y : y = Done(feed)
  OBVIOUS
<1>8. y \in Feeds /\ y.state = "Snapshot" /\ y.hasGlimpse /\ y.glimpse = "none"
  BY <1>5, <1>7, DoneFine
\* The receiver is left alone.
<1>9. ASSUME d.reset = 0, feed' \in Feeds, FeedOK(feed', rx.next), feed'.glimpse # "taken",
             feed'.state = "Live" => rx.next # 0
      PROVE  TypeOK' /\ FeedInv'
  <2>1. rx' = rx /\ seen' = seen
    BY <1>3, <1>9
  <2>2. TypeOK'
    BY <1>6, <1>9, <2>1 DEF TypeOK
  <2>3. Resting'
    BY <1>4, <1>9, <2>1 DEF FeedInv, Resting, Ahead
  <2>4. Watching'
    BY <2>1 DEF FeedInv, Watching, InHand
  <2>5. FeedOK(feed, rx.next)' /\ Glimpsed'
    BY <1>9, <2>1 DEF FeedOK, Exact, Recorded, Staged, Glimpsed
  <2> QED BY <1>6, <2>2, <2>3, <2>4, <2>5 DEF FeedInv
<1>10. CASE d = [f |-> StartSnapshot(y), reset |-> 0]
  <2>1. PICK g : g = StartSnapshot(y)
    OBVIOUS
  <2>2. g \in Feeds /\ FeedOK(g, rx.next) /\ Kept(y, g)
    BY <1>8, <2>1, StartSnapshotFine
  <2>3. g.glimpse = "open" /\ g.state = "Snapshot"
    BY <1>8, <2>1 DEF StartSnapshot, Feeds
  <2>4. feed' = g /\ d.reset = 0
    BY <1>3, <1>10, <2>1
  <2> QED BY <1>9, <2>2, <2>3, <2>4
<1>11. CASE d = [f |-> Later(feed), reset |-> 0]
  <2>1. PICK g : g = Later(feed)
    OBVIOUS
  <2>2. EmptyBuffer \in Recoveries /\ Recorded(EmptyBuffer, rx.next)
    BY EmptyRecorded
  <2>3. g = [RetryLater(y) EXCEPT !.rec = EmptyBuffer]
    BY <1>7, <2>1 DEF Later
  <2>4. g \in Feeds /\ FeedOK(g, rx.next) /\ g.glimpse = "none"
    BY <1>8, <2>2, <2>3, RetryLaterFine
  <2>5. g.state = "Snapshot"
    BY <1>8, <2>3 DEF RetryLater, Feeds
  <2>6. feed' = g /\ d.reset = 0
    BY <1>3, <1>11, <2>1
  <2> QED BY <1>9, <2>4, <2>5, <2>6
<1>12. CASE ~GapAfter(feed.rec, feed.end)
            /\ d = [f |-> LiveAgain(feed, feed.end), reset |-> ResetTo(feed, feed.end)]
  <2>1. PICK g : g = LiveAgain(feed, feed.end)
    OBVIOUS
  <2>2. PICK n : n = Expected(feed, feed.end)
    OBVIOUS
  <2>3. n \in Nat /\ n >= 1 /\ n <= tx.count + 1
    <3>1. feed.rec.last \in Nat /\ (feed.rec.last = 0 \/ feed.rec.last < rx.next)
      BY <1>5 DEF Feeds, Recoveries, FeedOK, Recorded
    <3>2. rx.next <= Greater(rx.highest, 1) /\ rx.highest <= tx.count + 1
      BY DEF FeedInv, Resting
    <3> QED BY <1>5, <2>2, <3>1, <3>2 DEF Expected, Greater
  <2>4. feed' = g /\ d.reset = ResetTo(feed, feed.end)
    BY <1>3, <1>12, <2>1
  <2>5. ASSUME NEW v \in Nat, v <= n PROVE g \in Feeds /\ FeedOK(g, v) /\ g.glimpse = "none"
    BY <1>5, <1>12, <2>1, <2>2, <2>5, LiveAgainFine
  <2>6. CASE rx.next = 0 \/ rx.next > n
    <3>1. d.reset = n /\ n # 0
      BY <2>2, <2>3, <2>4, <2>6 DEF ResetTo
    <3>2. PICK z : z = Reset(rx, n)
      OBVIOUS
    <3>3. /\ z \in Receivers /\ z.next = n /\ z.held = {} /\ z.highest = Greater(rx.highest, n)
          /\ z.eos = rx.eos /\ z.out = rx.out /\ z.ask = rx.ask
      BY <1>5, <2>3, <3>2, ResetFine
    <3>4. rx' = z
      BY <1>3, <3>1, <3>2
    <3>5. seen' = [seen EXCEPT !.upto = n, !.have = {}]
      BY <1>3, <3>1
    <3>6. /\ seen' \in Views /\ seen'.upto = n /\ seen'.have = {} /\ seen'.inOrder
          /\ ~seen'.wronged /\ ~seen'.early
      BY <2>3, <3>5 DEF TypeOK, Views, FeedInv, Watching
    <3>7. g \in Feeds /\ FeedOK(g, n) /\ g.glimpse = "none"
      BY <2>3, <2>5
    <3>8. TypeOK'
      BY <1>6, <2>4, <3>3, <3>4, <3>6, <3>7 DEF TypeOK
    <3>9. Resting'
      <4>1. /\ rx.out = <<>> /\ rx.ask = {} /\ rx.highest <= tx.count + 1
            /\ rx.eos => tx.over /\ rx.highest = tx.count + 1
        BY DEF FeedInv, Resting
      <4>2. rx'.highest <= tx.count + 1 /\ rx'.next <= Greater(rx'.highest, 1)
        BY <1>5, <2>3, <3>3, <3>4, <4>1 DEF Greater
      <4>3. rx'.eos => tx.over /\ rx'.highest = tx.count + 1
        BY <1>5, <2>3, <3>3, <3>4, <4>1 DEF Greater
      <4>4. rx'.next # 0 /\ Ahead(rx')
        BY <2>3, <3>3, <3>4 DEF Ahead
      <4> QED BY <1>4, <3>3, <3>4, <4>1, <4>2, <4>3, <4>4 DEF Resting, Ahead
    <3>10. Watching'
      BY <3>3, <3>4, <3>6 DEF Watching, InHand
    <3>11. FeedOK(feed', rx'.next) /\ feed'.glimpse = "none"
      BY <2>4, <3>3, <3>4, <3>7
    <3>12. FeedOK(feed, rx.next)' /\ Glimpsed'
      BY <3>11 DEF FeedOK, Exact, Recorded, Staged, Glimpsed
    <3> QED BY <1>6, <3>8, <3>9, <3>10, <3>12 DEF FeedInv
  <2>7. CASE ~(rx.next = 0 \/ rx.next > n)
    <3>1. d.reset = 0
      BY <2>2, <2>4, <2>7 DEF ResetTo
    <3>2. rx.next <= n /\ rx.next # 0
      BY <1>5, <2>3, <2>7
    <3>3. g \in Feeds /\ FeedOK(g, rx.next) /\ g.glimpse = "none"
      BY <1>5, <2>5, <3>2
    <3> QED BY <1>9, <2>4, <3>1, <3>2, <3>3
  <2> QED BY <2>6, <2>7
<1> QED BY <1>2, <1>7, <1>10, <1>11, <1>12, FinishOutcomes

\* The venue's steps that leave the receiver alone.
LEMMA VenueFine ==
  ASSUME TypeOK, FeedInv, UNCHANGED <<tx, net, rx, seen>>, feed' \in Feeds, FeedOK(feed', rx.next),
         feed'.state = "Live" => feed.state = "Live", Glimpsed'
  PROVE  TypeOK' /\ FeedInv'
<1>1. TypeOK'
  BY DEF TypeOK
<1>2. Sending' /\ (\A p \in net' : Sent(p)' /\ p.kind = "data")
  BY DEF FeedInv, Sending, Sent
<1>3. Resting'
  BY DEF FeedInv, Resting, Ahead
<1>4. Watching'
  BY DEF FeedInv, Watching, InHand
<1>5. FeedOK(feed, rx.next)'
  BY DEF FeedOK, Exact, Recorded, Staged
<1> QED BY <1>1, <1>2, <1>3, <1>4, <1>5 DEF FeedInv

LEMMA ServiceRetryFine ==
  ASSUME TypeOK, FeedInv, ServiceRetry
  PROVE  TypeOK' /\ FeedInv'
<1>1. feed \in Feeds /\ feed.state = "Snapshot" /\ feed.hasGlimpse
  BY DEF ServiceRetry, TypeOK, Feeds, FeedInv, FeedOK, Staged
<1>2. feed' = StartSnapshot(feed) /\ UNCHANGED <<tx, net, rx, seen>>
  BY DEF ServiceRetry
<1>3. PICK g : g = StartSnapshot(feed)
  OBVIOUS
<1>4. g \in Feeds /\ FeedOK(g, rx.next)
  BY <1>1, <1>3, StartSnapshotFine
<1>5. g.glimpse = "open" /\ g.state = "Snapshot"
  BY <1>1, <1>3 DEF StartSnapshot, Feeds
<1>6. feed' = g
  BY <1>2, <1>3
<1>7. Glimpsed'
  BY <1>5, <1>6 DEF Glimpsed
<1> QED BY <1>2, <1>4, <1>5, <1>6, <1>7, VenueFine

LEMMA GlimpseTakenFine ==
  ASSUME TypeOK, FeedInv, GlimpseTaken
  PROVE  TypeOK' /\ FeedInv'
<1>1. /\ feed \in Feeds /\ feed.state = "Snapshot" /\ feed.hasGlimpse /\ tx.count \in Nat
      /\ Recorded(feed.rec, rx.next)
  BY DEF GlimpseTaken, TypeOK, Feeds, FeedInv, FeedOK, Staged, Transmitters
<1>2. feed' = [feed EXCEPT !.glimpse = "taken", !.end = tx.count + 1] /\ UNCHANGED <<tx, net, rx, seen>>
  BY DEF GlimpseTaken
<1>3. /\ feed' \in Feeds /\ feed'.state = "Snapshot" /\ feed'.hasGlimpse /\ feed'.rec = feed.rec
      /\ feed'.end = tx.count + 1
  <2>1. PICK e \in Nat : e = tx.count + 1
    BY <1>1
  <2>2. PICK g : g = [feed EXCEPT !.glimpse = "taken", !.end = e]
    OBVIOUS
  <2>3. feed \in Feeds
    BY <1>1
  <2>4. /\ g \in Feeds /\ g.state = feed.state /\ g.hasGlimpse = feed.hasGlimpse
        /\ g.rec = feed.rec /\ g.end = e
    BY <2>2, <2>3 DEF Feeds
  <2> QED BY <1>1, <1>2, <2>1, <2>2, <2>4
<1>4. FeedOK(feed', rx.next)
  BY <1>1, <1>3 DEF FeedOK, Exact, Staged
<1>5. Glimpsed'
  BY <1>1, <1>2, <1>3 DEF Glimpsed
<1> QED BY <1>2, <1>3, <1>4, <1>5, VenueFine

LEMMA GlimpseDownFine ==
  ASSUME TypeOK, FeedInv, GlimpseDown
  PROVE  TypeOK' /\ FeedInv'
<1>1. /\ feed \in Feeds /\ feed.state = "Snapshot" /\ feed.hasGlimpse /\ feed.rec \in Recoveries
      /\ Recorded(feed.rec, rx.next)
  BY DEF GlimpseDown, TypeOK, Feeds, FeedInv, FeedOK, Staged
<1>2. feed' = RetryLater(Done(feed)) /\ UNCHANGED <<tx, net, rx, seen>>
  BY DEF GlimpseDown, Done
<1>3. PICK y : y = Done(feed)
  OBVIOUS
<1>4. y \in Feeds /\ y.state = "Snapshot" /\ y.hasGlimpse /\ y.glimpse = "none" /\ y.rec = feed.rec
  BY <1>1, <1>3, DoneFine
<1>5. feed' = [RetryLater(y) EXCEPT !.rec = feed.rec]
  <2>1. RetryLater(y) = [RetryLater(y) EXCEPT !.rec = y.rec]
    BY <1>4 DEF RetryLater, Feeds
  <2> QED BY <1>2, <1>3, <1>4, <2>1
<1>6. feed' \in Feeds /\ FeedOK(feed', rx.next) /\ feed'.glimpse = "none"
  BY <1>1, <1>4, <1>5, RetryLaterFine
<1>7. feed'.state = "Snapshot"
  BY <1>4, <1>5 DEF RetryLater, Feeds
<1>8. Glimpsed'
  BY <1>6 DEF Glimpsed
<1> QED BY <1>2, <1>6, <1>7, <1>8, VenueFine

LEMMA AgedType ==
  ASSUME NEW a \in Nat, NEW m \in Nat
  PROVE  Aged(a, m) \in Nat
  BY DEF Aged, Lesser

OldHeld(H) == {[h EXCEPT !.age = Aged(@, GapTicks)] : h \in H}
Alike(H, G) == /\ \A h \in H : \E k \in G : k.seq = h.seq /\ k.end = h.end
               /\ \A k \in G : \E h \in H : k.seq = h.seq /\ k.end = h.end

LEMMA OlderHeld ==
  ASSUME NEW H \in Buffers, NEW G, G = OldHeld(H)
  PROVE  G \in Buffers /\ Alike(H, G)
<1> DEFINE o(h) == [h EXCEPT !.age = Aged(@, GapTicks)]
<1>1. H \in SUBSET HeldPackets /\ IsFiniteSet(H) /\ GapTicks \in Nat
  BY MoldAssumption DEF Buffers
<1>2. ASSUME NEW h \in H PROVE o(h) \in HeldPackets /\ o(h).seq = h.seq /\ o(h).end = h.end
  <2>1. PICK a \in Nat : a = Aged(h.age, GapTicks)
    BY <1>1, AgedType DEF HeldPackets
  <2>2. o(h) = [h EXCEPT !.age = a]
    BY <2>1
  <2> HIDE DEF o
  <2> QED BY <1>1, <2>2 DEF HeldPackets
<1>3. G = {o(h) : h \in H}
  BY DEF OldHeld
<1> HIDE DEF o
<1>4. IsFiniteSet(G)
  <2> DEFINE f == [h \in H |-> o(h)]
  <2>1. f \in Surjection(H, G)
    BY <1>3 DEF Surjection
  <2> HIDE DEF f
  <2> QED BY <1>1, <2>1, FS_Surjection
<1> QED BY <1>2, <1>3, <1>4 DEF Buffers, Alike

LEMMA TickFine ==
  ASSUME TypeOK, FeedInv, Tick
  PROVE  TypeOK' /\ FeedInv'
<1>1. /\ rx \in Receivers /\ rx.hiAge \in Nat /\ rx.reqAge \in Nat /\ rx.gap \in Int
      /\ rx.held \in Buffers /\ GapTicks \in Nat /\ ReqTicks \in Nat
  BY MoldAssumption DEF TypeOK, Receivers
<1>2. rx' = Older(rx) /\ UNCHANGED <<tx, net, feed, seen>>
  BY DEF Tick
<1>3. PICK a \in Nat : a = Aged(rx.hiAge, GapTicks)
  BY <1>1, AgedType
<1>4. PICK b \in Nat : b = Aged(rx.reqAge, ReqTicks)
  BY <1>1, AgedType
<1>5. PICK g \in Int : g = IF rx.gap = NoGap THEN rx.gap ELSE Aged(rx.gap, GapTicks)
  BY <1>1 DEF Aged, Lesser
<1>6. PICK G : G = OldHeld(rx.held)
  OBVIOUS
<1>7. /\ G \in Buffers
      /\ \A h \in rx.held : \E k \in G : k.seq = h.seq /\ k.end = h.end
      /\ \A k \in G : \E h \in rx.held : k.seq = h.seq /\ k.end = h.end
  <2>1. G \in Buffers /\ Alike(rx.held, G)
    BY <1>1, <1>6, OlderHeld
  <2> QED BY <2>1 DEF Alike
<1>8. PICK z : z = [rx EXCEPT !.hiAge = a, !.reqAge = b, !.gap = g, !.held = G]
  OBVIOUS
<1>9. rx' = z
  BY <1>2, <1>3, <1>4, <1>5, <1>6, <1>8 DEF Older, OldHeld
<1>10. /\ z \in Receivers /\ z.next = rx.next /\ z.held = G /\ z.highest = rx.highest /\ z.eos = rx.eos
       /\ z.out = rx.out /\ z.ask = rx.ask
  <2>0. rx \in Receivers /\ G \in Buffers
    BY <1>1, <1>7
  <2>1. PICK y : y = [rx EXCEPT !.hiAge = a, !.reqAge = b]
    OBVIOUS
  <2>2. /\ y \in Receivers /\ y.next = rx.next /\ y.highest = rx.highest /\ y.eos = rx.eos
        /\ y.out = rx.out /\ y.ask = rx.ask
    BY <2>0, <2>1 DEF Receivers
  <2>3. z = [y EXCEPT !.gap = g, !.held = G]
    BY <1>8, <2>0, <2>1 DEF Receivers
  <2>4. /\ z \in Receivers /\ z.next = y.next /\ z.held = G /\ z.highest = y.highest
        /\ z.eos = y.eos /\ z.out = y.out /\ z.ask = y.ask
    BY <2>0, <2>2, <2>3 DEF Receivers
  <2> QED BY <2>2, <2>4
<1>11. TypeOK'
  BY <1>2, <1>9, <1>10 DEF TypeOK
<1>12. Sending' /\ (\A p \in net' : Sent(p)' /\ p.kind = "data") /\ Glimpsed'
  BY <1>2 DEF FeedInv, Sending, Sent, Glimpsed
<1>13. Ahead(z)
  <2>1. Ahead(rx)
    BY DEF FeedInv, Resting
  <2> QED BY <1>7, <1>10, <2>1 DEF Ahead
<1>14. rx.held = {} => G = {}
  BY <1>7
<1>15. Resting'
  BY <1>2, <1>9, <1>10, <1>13, <1>14 DEF FeedInv, Resting, Ahead
<1>16. InHand(z, seen.have)
  <2>1. InHand(rx, seen.have)
    BY DEF FeedInv, Watching
  <2>2. ASSUME NEW q \in seen.have PROVE q < z.next \/ \E h \in z.held : h.seq <= q /\ q < h.end
    <3>1. CASE q < rx.next
      BY <1>10, <3>1
    <3>2. CASE \E h \in rx.held : h.seq <= q /\ q < h.end
      <4>1. PICK h \in rx.held : h.seq <= q /\ q < h.end
        BY <3>2
      <4>2. PICK k \in G : k.seq = h.seq /\ k.end = h.end
        BY <1>7
      <4> QED BY <1>10, <4>1, <4>2
    <3> QED BY <2>1, <3>1, <3>2 DEF InHand
  <2> QED BY <2>2 DEF InHand
<1>17. Watching'
  BY <1>2, <1>9, <1>10, <1>16 DEF FeedInv, Watching, InHand
<1>18. FeedOK(feed, rx.next)'
  BY <1>2, <1>9, <1>10 DEF FeedInv, FeedOK, Exact, Recorded, Staged
<1> QED BY <1>11, <1>12, <1>15, <1>17, <1>18 DEF FeedInv

\* The transmitter's and the network's steps.
LEMMA NetworkFine ==
  ASSUME TypeOK, FeedInv, UNCHANGED <<rx, feed, seen>>, tx' \in Transmitters,
         net' \in SUBSET Packets, Sending', \A p \in net' : Sent(p)' /\ p.kind = "data",
         tx.count <= tx'.count, tx.over => tx'.over /\ tx'.count = tx.count
  PROVE  TypeOK' /\ FeedInv'
<1>1. TypeOK'
  BY DEF TypeOK
<1>2. tx.count \in Nat /\ tx'.count \in Nat /\ rx.highest \in Nat /\ feed.end \in Nat
  BY DEF TypeOK, Transmitters, Receivers, Feeds
<1>3. Resting'
  <2>1. rx.highest <= tx'.count + 1
    BY <1>2 DEF FeedInv, Resting
  <2>2. rx.eos => tx'.over /\ rx.highest = tx'.count + 1
    BY DEF FeedInv, Resting
  <2> QED BY <2>1, <2>2 DEF FeedInv, Resting, Ahead
<1>4. Watching'
  BY DEF FeedInv, Watching, InHand
<1>5. FeedOK(feed, rx.next)'
  BY DEF FeedInv, FeedOK, Exact, Recorded, Staged
<1>6. Glimpsed'
  BY <1>2 DEF FeedInv, Glimpsed
<1> QED BY <1>1, <1>3, <1>4, <1>5, <1>6 DEF FeedInv

LEMMA PublishFine ==
  ASSUME TypeOK, FeedInv, Publish, UNCHANGED <<feed, seen>>
  PROVE  TypeOK' /\ FeedInv'
<1>1. /\ tx \in Transmitters /\ tx.count \in Nat /\ tx.first \in Nat /\ tx.unsent \in Nat /\ ~tx.over
      /\ net \in SUBSET Packets
  BY DEF TypeOK, Transmitters, Publish
<1>2. PICK a \in Nat : /\ a = (IF tx.count + 1 - tx.first >= HistCap THEN tx.first + 1 ELSE tx.first)
                       /\ a >= tx.first
  BY <1>1
<1>3. tx' = [tx EXCEPT !.count = tx.count + 1, !.first = a] /\ UNCHANGED <<net, rx>>
  BY <1>2 DEF Publish
<1>4. /\ tx' \in Transmitters /\ tx'.count = tx.count + 1 /\ tx'.first = a /\ tx'.unsent = tx.unsent
      /\ ~tx'.over
  <2>1. PICK n \in Nat : n = tx.count + 1
    BY <1>1
  <2>2. PICK z : z = [tx EXCEPT !.count = n, !.first = a]
    OBVIOUS
  <2>3. z \in Transmitters /\ z.count = n /\ z.first = a /\ z.unsent = tx.unsent /\ z.over = tx.over
    BY <1>1, <2>2 DEF Transmitters
  <2> QED BY <1>1, <1>3, <2>1, <2>2, <2>3
<1>5. Sending'
  BY <1>1, <1>2, <1>4 DEF FeedInv, Sending
<1>6. ASSUME NEW p \in net' PROVE Sent(p)' /\ p.kind = "data"
  <2>1. Sent(p) /\ p.kind = "data" /\ p.end \in Nat
    BY <1>1, <1>3 DEF FeedInv, Packets
  <2> QED BY <1>1, <1>4, <2>1 DEF Sent
<1>7. tx.count <= tx'.count
  BY <1>1, <1>4
<1> QED BY <1>1, <1>3, <1>4, <1>5, <1>6, <1>7, NetworkFine

LEMMA SendNextFine ==
  ASSUME TypeOK, FeedInv, SendNext, UNCHANGED <<feed, seen>>
  PROVE  TypeOK' /\ FeedInv'
<1>1. /\ tx \in Transmitters /\ tx.count \in Nat /\ tx.first \in Nat /\ tx.unsent \in Nat
      /\ net \in SUBSET Packets /\ Sending /\ MaxPkt \in Nat
  BY MoldAssumption DEF TypeOK, Transmitters, FeedInv
<1>2. PICK a : a = Greater(tx.unsent, tx.first)
  OBVIOUS
<1>3. PICK n \in 1 .. MaxPkt :
        /\ a <= tx.count /\ net' = net \cup PacketAt(a, n)
        /\ tx' = [tx EXCEPT !.unsent = a + Lesser(n, tx.count + 1 - a)] /\ UNCHANGED rx
  BY <1>2 DEF SendNext
<1>4. a \in Nat /\ a >= tx.unsent /\ a >= 1 /\ n \in Nat
  BY <1>1, <1>2, <1>3 DEF Greater, Sending
<1>5. ~tx.over
  BY <1>1, <1>3, <1>4 DEF Sending
<1>6. PICK u \in Nat : u = a + Lesser(n, tx.count + 1 - a) /\ u >= 1 /\ u <= tx.count + 1
  BY <1>1, <1>3, <1>4 DEF Lesser
<1>7. /\ tx' \in Transmitters /\ tx'.count = tx.count /\ tx'.first = tx.first /\ tx'.unsent = u
      /\ tx'.over = tx.over
  BY <1>1, <1>3, <1>6 DEF Transmitters
<1>8. Sending'
  BY <1>1, <1>5, <1>6, <1>7 DEF Sending
<1>9. ASSUME NEW p \in net' PROVE p \in Packets /\ Sent(p)' /\ p.kind = "data"
  <2>1. p \in Packets /\ Sent(p) /\ p.kind = "data"
    <3>1. CASE p \in net
      BY <1>1, <3>1 DEF FeedInv
    <3>2. CASE p \in PacketAt(a, n)
      BY <1>1, <1>4, <3>2, PacketSent
    <3> QED BY <1>3, <3>1, <3>2
  <2> QED BY <1>7, <2>1 DEF Sent
<1>10. tx.count <= tx'.count
  BY <1>1, <1>7
<1> QED BY <1>3, <1>5, <1>7, <1>8, <1>9, <1>10, NetworkFine

LEMMA CloseSessionFine ==
  ASSUME TypeOK, FeedInv, CloseSession, UNCHANGED <<feed, seen>>
  PROVE  TypeOK' /\ FeedInv'
<1>1. /\ tx \in Transmitters /\ tx.count \in Nat /\ net \in SUBSET Packets /\ tx.unsent = tx.count + 1
  BY DEF TypeOK, Transmitters, CloseSession
<1>2. tx' = [tx EXCEPT !.over = TRUE] /\ UNCHANGED <<net, rx>>
  BY DEF CloseSession
<1>3. /\ tx' \in Transmitters /\ tx'.count = tx.count /\ tx'.first = tx.first
      /\ tx'.unsent = tx.unsent /\ tx'.over
  BY <1>1, <1>2 DEF Transmitters
<1>4. Sending'
  BY <1>1, <1>3 DEF FeedInv, Sending
<1>5. \A p \in net' : Sent(p)' /\ p.kind = "data"
  BY <1>2, <1>3 DEF FeedInv, Sent
<1>6. tx.count <= tx'.count
  BY <1>1, <1>3
<1> QED BY <1>1, <1>2, <1>3, <1>4, <1>5, <1>6, NetworkFine

LEMMA LoseFine ==
  ASSUME TypeOK, FeedInv, Lose, UNCHANGED <<feed, seen>>
  PROVE  TypeOK' /\ FeedInv'
<1>1. net' \in SUBSET net /\ UNCHANGED <<tx, rx>>
  BY DEF Lose
<1>2. tx' \in Transmitters /\ net' \in SUBSET Packets /\ tx.count <= tx'.count
  BY <1>1 DEF TypeOK, Transmitters
<1>3. Sending' /\ \A p \in net' : Sent(p)' /\ p.kind = "data"
  BY <1>1 DEF FeedInv, Sending, Sent
<1> QED BY <1>1, <1>2, <1>3, NetworkFine

LEMMA InitFine ==
  ASSUME Init
  PROVE  TypeOK /\ FeedInv
<1>1. PICK gl \in Glimpses, cn \in Rerequests :
        /\ MoldInit
        /\ rx = Receiver(IF gl THEN 0 ELSE 1, cn)
        /\ feed = [state |-> "Snapshot", hasGlimpse |-> gl, glimpse |-> IF gl THEN "open" ELSE "none",
                   end |-> 0, retry |-> FALSE, books |-> NoBooks, rec |-> EmptyBuffer, lostEnd |-> 0,
                   liveFrom |-> 0, streak |-> 0]
        /\ seen = [upto |-> IF gl THEN 0 ELSE 1, inOrder |-> TRUE, have |-> {}, wronged |-> FALSE,
                   early |-> FALSE]
  BY DEF Init
<1>2. gl \in BOOLEAN /\ cn \in BOOLEAN /\ GapTicks \in Nat /\ ReqTicks \in Nat
  BY MoldAssumption, FeedAssumption
<1>3. PICK n \in {0, 1} : n = IF gl THEN 0 ELSE 1
  OBVIOUS
<1>4. PICK gs \in {"none", "open"} : gs = IF gl THEN "open" ELSE "none"
  OBVIOUS
<1>5. /\ tx \in Transmitters /\ tx.count = 0 /\ tx.first = 1 /\ tx.unsent = 1 /\ tx.over = FALSE
      /\ net = {}
  BY <1>1 DEF MoldInit, Transmitters
<1>6. /\ rx \in Receivers /\ rx.next = n /\ rx.held = {} /\ rx.highest = 0 /\ rx.eos = FALSE
      /\ rx.out = <<>> /\ rx.ask = {}
  <2>1. {} \in Buffers /\ <<>> \in Seq(Calls) /\ {} \in SUBSET Requests /\ NoGap \in Int
    BY FS_EmptySet DEF Buffers, NoGap
  <2>2. rx = [next |-> n, highest |-> 0, hiAge |-> GapTicks, held |-> {}, state |-> "Down",
              requested |-> 0, attempts |-> 0, overflow |-> 0, gap |-> NoGap, reqAge |-> ReqTicks,
              eos |-> FALSE, told |-> FALSE, can |-> cn, out |-> <<>>, ask |-> {}]
    BY <1>1, <1>3 DEF Receiver
  <2> QED BY <1>2, <2>1, <2>2 DEF Receivers
<1>7. /\ feed \in Feeds /\ feed.state = "Snapshot" /\ feed.glimpse = gs /\ feed.hasGlimpse = gl
      /\ feed.retry = FALSE /\ feed.rec = EmptyBuffer
  <2>1. EmptyBuffer \in Recoveries /\ NoBooks \in Books
    BY EmptyRecorded DEF NoBooks, Books
  <2>2. PICK e \in Recoveries : e = EmptyBuffer
    BY <2>1
  <2>3. PICK b \in Books : b = NoBooks
    BY <2>1
  <2>4. feed = [state |-> "Snapshot", hasGlimpse |-> gl, glimpse |-> gs, end |-> 0, retry |-> FALSE,
                books |-> b, rec |-> e, lostEnd |-> 0, liveFrom |-> 0, streak |-> 0]
    BY <1>1, <1>4, <2>2, <2>3
  <2> QED BY <1>2, <2>2, <2>4 DEF Feeds
<1>8. /\ seen \in Views /\ seen.upto = n /\ seen.inOrder /\ seen.have = {} /\ ~seen.wronged
      /\ ~seen.early
  BY <1>1, <1>3 DEF Views
<1>9. TypeOK
  BY <1>5, <1>6, <1>7, <1>8 DEF TypeOK
<1>10. Sending /\ \A p \in net : Sent(p) /\ p.kind = "data"
  BY <1>5 DEF Sending
<1>11. Resting
  BY <1>3, <1>5, <1>6, <1>7 DEF Resting, Ahead, Greater
<1>12. Watching
  BY <1>6, <1>8 DEF Watching, InHand
<1>13. FeedOK(feed, rx.next)
  <2>1. Recorded(EmptyBuffer, rx.next)
    BY EmptyRecorded
  <2>2. Staged(feed)
    BY <1>4, <1>7 DEF Staged
  <2> QED BY <1>7, <2>1, <2>2 DEF FeedOK, Exact
<1>14. Glimpsed
  BY <1>4, <1>7 DEF Glimpsed
<1> QED BY <1>9, <1>10, <1>11, <1>12, <1>13, <1>14 DEF FeedInv

LEMMA NextFine ==
  ASSUME TypeOK, FeedInv, [Next]_feedVars
  PROVE  TypeOK' /\ FeedInv'
<1>1. CASE MoldNext /\ UNCHANGED <<feed, seen, budget>>
  BY <1>1, PublishFine, SendNextFine, CloseSessionFine, LoseFine DEF MoldNext
<1>2. CASE OnData
  BY <1>2, OnDataFine
<1>3. CASE OnAnnouncement
  BY <1>3, OnAnnouncementFine
<1>4. CASE Service
  BY <1>4, ServiceFine
<1>5. CASE ServiceRetry
  BY <1>5, ServiceRetryFine
<1>6. CASE GlimpseTaken
  BY <1>6, GlimpseTakenFine
<1>7. CASE GlimpseEnd
  BY <1>7, GlimpseEndFine
<1>8. CASE GlimpseDown
  BY <1>8, GlimpseDownFine
<1>9. CASE Tick
  BY <1>9, TickFine
<1>10. CASE UNCHANGED feedVars
  BY <1>10 DEF feedVars, TypeOK, FeedInv, Sending, Sent, Resting, Ahead, Watching, InHand, FeedOK, Exact,
               Recorded, Staged, Glimpsed
<1> QED BY <1>1, <1>2, <1>3, <1>4, <1>5, <1>6, <1>7, <1>8, <1>9, <1>10 DEF Next

-----------------------------------------------------------------------------
\* The inductive invariant: what was sent was published; between its calls the receiver holds only
\* packets ahead of next_, and all that arrived and was not refused is below next_ or held; the
\* venue's recovery buffer has all that is wanted since the last gap, its live books everything.
THEOREM FeedInvariant == Spec => [](TypeOK /\ FeedInv)
<1>1. Init => TypeOK /\ FeedInv
  BY InitFine
<1>2. (TypeOK /\ FeedInv) /\ [Next]_feedVars => (TypeOK /\ FeedInv)'
  BY NextFine
<1> QED BY <1>1, <1>2, PTL DEF Spec

\* For every network, reorder buffer, timeout and number of attempts: the calls of the MoldUDP64
\* receiver follow one another without a hole, an overlap or a step back (deliver, drain, skip_hole).
THEOREM CallsInOrder == Spec => []NothingMissedOrRepeated
<1>1. TypeOK /\ FeedInv => NothingMissedOrRepeated
  BY DEF FeedInv, Watching, NothingMissedOrRepeated
<1> QED BY <1>1, FeedInvariant, PTL

\* What has arrived and waits for its turn is never reported as unrecoverable, also when the reorder
\* buffer is full and holes are given up to make room (skip_hole, on_ahead).
THEOREM NothingWronged == Spec => []OnlyTheMissingIsGivenUp
<1>1. TypeOK /\ FeedInv => OnlyTheMissingIsGivenUp
  BY DEF FeedInv, Watching, OnlyTheMissingIsGivenUp
<1> QED BY <1>1, FeedInvariant, PTL

\* The end of the session is told after everything published in it (update, on_end_of_session).
THEOREM EndIsLast == Spec => []EndComesLast
<1>1. TypeOK /\ FeedInv => EndComesLast
  BY DEF FeedInv, Watching, EndComesLast
<1> QED BY <1>1, FeedInvariant, PTL

\* Live books hold every message they need, once and in order, up to where the receiver or the
\* snapshot stands, whatever was lost, buffered or replayed (finish_snapshot, RecoveryBuffer).
THEOREM BooksExact == Spec => []LiveBooksAreExact
<1>1. TypeOK /\ FeedInv => LiveBooksAreExact
  BY DEF FeedInv, FeedOK, Exact, LiveBooksAreExact
<1> QED BY <1>1, FeedInvariant, PTL

=============================================================================
