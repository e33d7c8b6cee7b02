--------------------------- MODULE GatewayProofs ---------------------------
(***************************************************************************)
(* Proofs about Gateway: the types of its state, that no execution counts  *)
(* twice, and that what a snapshot says of an order is true.               *)
(***************************************************************************)
EXTENDS Gateway, Induction

(***************************************************************************)
(* Types.                                                                  *)
(***************************************************************************)
Ids == [epoch : Nat, n : Nat]
Routes == [epoch : Nat, from : Nat, known : SUBSET Nat, unparked : SUBSET Nat, snap : BOOLEAN]
Seeds == [held : SUBSET Nat, from : Nat, known : SUBSET Nat]
Parkable == [e : Nat, replayed : BOOLEAN]
Snapshots == [type : {"snapshot"}, mark : Ids, rows : SUBSET Ids]
Messages == [type : {"no reader", "kill"}] \cup [type : {"fill"}, e : Nat]
              \cup [type : {"ended"}, id : Ids] \cup Snapshots
OrderEntries == [cancelled : BOOLEAN, g : Nat]
Orders == UNION {[I -> OrderEntries] : I \in SUBSET Ids}
Gateways == [route : [Strats -> Routes], ring : [Strats -> Seq(Messages)], orders : Orders,
             hist : Seq(Ids), sweep : BOOLEAN, killed : BOOLEAN, seeded : SUBSET Strats,
             seed : [Strats -> Seeds], booked : SUBSET Nat, parked : Seq(Parkable),
             cancels : SUBSET Ids]
Engines == [epoch : Nat, start : Nat, restored : SUBSET Nat, log : Seq(Nat), mine : SUBSET Ids,
            last : Nat, ready : BOOLEAN]
Stores == [held : SUBSET Nat, whole : Nat, loose : Nat, anchored : BOOLEAN, first : Nat,
           clean : Nat, passed : SUBSET Nat]
Connectors == [up : BOOLEAN, answered : SUBSET Ids, active : BOOLEAN, from : Nat,
               known : SUBSET Nat, again : Nat, phase : {"idle", "replay", "asked", "read"},
               pending : BOOLEAN, mark : Ids, rows : SUBSET Ids]
Commands == [op : {"new", "cancel"}, id : Ids]
Responses == [type : {"ack", "unknown"}, id : Ids]
Events == [type : {"fill"}, e : Nat] \cup [type : {"ended"}, id : Ids]
Trades == [id : Ids, last : BOOLEAN]
Budgets == [who : SUBSET Strats, order : Nat, fill : Nat, request : Nat, fault : Nat]

\* The types of the state.
TypeOK ==
  /\ proc \in [Strats -> BOOLEAN]
  /\ eng \in [Strats -> Engines]
  /\ store \in [Strats -> Stores]
  /\ gw \in Gateways
  /\ sessions \in Seq(Strats)
  /\ conn \in Connectors
  /\ wire \in SUBSET Commands
  /\ resp \in Seq(Responses)
  /\ stream \in Seq(Events)
  /\ resting \in SUBSET Ids
  /\ execs \in Seq(Trades)
  /\ tripped \in BOOLEAN
  /\ left \in Budgets

(***************************************************************************)
(* The inductive invariant of the bookings.                                *)
(***************************************************************************)

\* The executions among the messages of q.
FillsOf(q) == {m.e : m \in {x \in Range(q) : x.type = "fill"}}

NewOnWire == {m.id : m \in {w \in wire : w.op = "new"}}

\* The executions that have reached strategy s or the account's seed for it.
Reached(s) ==
  UNION {store[s].held, Executions(eng[s].log), eng[s].restored, FillsOf(gw.ring[s]),
         gw.seed[s].held}

\* A process that runs has a session; of one that does not, nothing is left.
Running ==
  \A s \in Strats :
    /\ proc[s] => /\ eng[s].epoch \in DOMAIN sessions
                  /\ \A x \in Range(gw.ring[s]) : x.type # "no reader"
    /\ ~proc[s] => eng[s] = NewEngine /\ gw.ring[s] = NoReader

\* Who is attached has seeded the account.
Routed == \A s \in Attached(gw) : s \in gw.seeded /\ gw.route[s].epoch \in DOMAIN sessions

\* Orders belong to sessions that were given out.
IdsKnown ==
  /\ \A id \in resting \cup NewOnWire : id.epoch \in DOMAIN sessions
  /\ \A e \in DOMAIN execs : execs[e].id.epoch \in DOMAIN sessions

\* What has reached a strategy is an execution of one of its orders.
ExecsKnown ==
  /\ \A s \in Strats : \A e \in Reached(s) : e \in DOMAIN execs /\ Trader(e) = s
  /\ \A m \in Range(gw.parked) : m.e \in DOMAIN execs
  /\ FillsOf(stream) \subseteq DOMAIN execs
  /\ \A e \in gw.booked : e \in DOMAIN execs /\ Trader(e) \in gw.seeded

\* The stream brings an execution once.
OneCopy(q) == \A i, j \in DOMAIN q : q[i].type = "fill" /\ q[j] = q[i] => i = j

\* The stream brings an execution first.
FirstCopies ==
  /\ \A s \in Strats : FillsOf(stream) \cap Reached(s) = {}
  /\ \A m \in Range(gw.parked) : m.e \notin FillsOf(stream)

\* What is parked waits for a strategy that is not attached; if the stream brought it, it has
\* reached nobody.
ParkedWait ==
  \A m \in Range(gw.parked) :
    /\ Trader(m.e) \notin Attached(gw)
    /\ ~m.replayed => \A s \in Strats : m.e \notin Reached(s)

\* What a strategy came back with is kept from it, and what the account's seed holds from the
\* account.
NotTwice ==
  \A s \in Strats :
    /\ eng[s].restored \cap (Executions(eng[s].log) \cup FillsOf(gw.ring[s])) = {}
    /\ proc[s] /\ s \in Attached(gw) =>
         \A e \in eng[s].restored :
           HeldBy(gw.route[s], e) /\ execs[e].id.epoch # gw.route[s].epoch
    /\ \A e \in gw.seed[s].held : HeldBy(gw.seed[s], e) /\ e \notin gw.booked

\* The last three hold as long as the stream is not behind the trade history.
Bookings ==
  /\ Running /\ Routed /\ IdsKnown /\ ExecsKnown /\ OneCopy(stream)
  /\ ~Lagging => FirstCopies /\ ParkedWait /\ NotTwice

-----------------------------------------------------------------------------
(***************************************************************************)
(* Sequences.                                                              *)
(***************************************************************************)

LEMMA RangeAppend ==
  ASSUME NEW S, NEW q \in Seq(S), NEW m \in S
  PROVE  Append(q, m) \in Seq(S) /\ Range(Append(q, m)) = Range(q) \cup {m}
<1> DEFINE a == Append(q, m)
<1>1. a \in Seq(S) /\ Len(a) = Len(q) + 1 /\ a[Len(q) + 1] = m /\ \A i \in 1 .. Len(q) : a[i] = q[i]
  OBVIOUS
<1>2. DOMAIN a = 1 .. Len(q) + 1 /\ DOMAIN q = 1 .. Len(q) /\ Len(q) \in Nat
  BY <1>1
<1> HIDE DEF a
<1>3. ASSUME NEW x PROVE x \in Range(a) <=> x \in Range(q) \cup {m}
  <2>1. ASSUME x \in Range(a) PROVE x \in Range(q) \cup {m}
    <3>1. PICK i \in DOMAIN a : x = a[i]
      BY <2>1 DEF Range
    <3>2. i = Len(q) + 1 \/ i \in DOMAIN q
      BY <1>2
    <3> QED BY <1>1, <1>2, <3>1, <3>2 DEF Range
  <2>2. ASSUME x \in Range(q) \cup {m} PROVE x \in Range(a)
    <3>1. CASE x = m
      <4>1. Len(q) + 1 \in DOMAIN a
        BY <1>2
      <4> QED BY <1>1, <3>1, <4>1 DEF Range
    <3>2. CASE x # m
      <4>1. PICK i \in DOMAIN q : x = q[i]
        BY <2>2, <3>2 DEF Range
      <4>2. i \in DOMAIN a /\ a[i] = x
        BY <1>1, <1>2, <4>1
      <4> QED BY <4>2 DEF Range
    <3> QED BY <3>1, <3>2
  <2> QED BY <2>1, <2>2
<1> QED BY <1>1, <1>3 DEF a

LEMMA RangeTail ==
  ASSUME NEW S, NEW q \in Seq(S), q # <<>>
  PROVE  /\ Tail(q) \in Seq(S) /\ Range(Tail(q)) \subseteq Range(q)
         /\ Head(q) \in S /\ Head(q) \in Range(q)
         /\ DOMAIN Tail(q) = 1 .. Len(q) - 1 /\ Len(q) \in Nat \ {0}
         /\ \A i \in DOMAIN Tail(q) : i + 1 \in DOMAIN q /\ Tail(q)[i] = q[i + 1] /\ i + 1 # 1
         /\ 1 \in DOMAIN q /\ Head(q) = q[1]
<1> DEFINE t == Tail(q)
<1>1. /\ Tail(q) \in Seq(S) /\ Len(q) \in Nat \ {0} /\ Len(t) = Len(q) - 1
      /\ \A i \in 1 .. Len(q) - 1 : t[i] = q[i + 1]
      /\ Head(q) = q[1] /\ DOMAIN q = 1 .. Len(q)
  OBVIOUS
<1>2. DOMAIN t = 1 .. Len(q) - 1
  BY <1>1
<1>3. 1 \in DOMAIN q /\ q[1] \in S
  BY <1>1
<1>4. \A i \in DOMAIN t : i + 1 \in DOMAIN q /\ t[i] = q[i + 1] /\ i + 1 # 1
  BY <1>1, <1>2
<1>5. Head(q) \in Range(q)
  BY <1>1, <1>3 DEF Range
<1> HIDE DEF t
<1>6. Range(t) \subseteq Range(q)
  BY <1>4 DEF Range
<1> QED BY <1>1, <1>2, <1>3, <1>4, <1>5, <1>6 DEF t

LEMMA RangeIn ==
  ASSUME NEW S, NEW q \in Seq(S)
  PROVE  \A x \in Range(q) : x \in S
  BY DEF Range

LEMMA RangeEmpty == Range(<<>>) = {}
  BY DEF Range

\* A sequence of no more messages has no more fills.
LEMMA FillsSubset ==
  ASSUME NEW q, NEW r, Range(r) \subseteq Range(q)
  PROVE  FillsOf(r) \subseteq FillsOf(q)
  BY DEF FillsOf

LEMMA FillsEmpty == FillsOf(<<>>) = {}
  BY RangeEmpty DEF FillsOf

LEMMA Single ==
  ASSUME NEW S, NEW x \in S
  PROVE  <<x>> \in Seq(S) /\ Range(<<x>>) = {x} /\ <<x>> # <<>>
<1>1. <<x>> \in Seq(S) /\ Len(<<x>>) = 1 /\ DOMAIN <<x>> = {1} /\ <<x>>[1] = x
  OBVIOUS
<1>2. Range(<<x>>) = {x}
  BY <1>1 DEF Range
<1>3. Len(<<x>>) # Len(<<>>)
  BY <1>1
<1> QED BY <1>1, <1>2, <1>3

LEMMA MessageFields ==
  ASSUME NEW m \in Messages
  PROVE  /\ m.type \in {"no reader", "kill", "fill", "ended", "snapshot"}
         /\ m.type = "fill" => m.e \in Nat
         /\ m.type = "ended" => m.id \in Ids
         /\ m.type = "snapshot" => m.mark \in Ids /\ m.rows \in SUBSET Ids
<1>1. CASE m \in [type : {"no reader", "kill"}]
  BY <1>1
<1>2. CASE m \in [type : {"fill"}, e : Nat]
  BY <1>2
<1>3. CASE m \in [type : {"ended"}, id : Ids]
  BY <1>3
<1>4. CASE m \in Snapshots
  BY <1>4 DEF Snapshots
<1> QED BY <1>1, <1>2, <1>3, <1>4 DEF Messages

LEMMA NoReaderFacts == NoReader \in Seq(Messages) /\ FillsOf(NoReader) = {} /\ NoReader # <<>>
<1> DEFINE x == [type |-> "no reader"]
<1>1. x \in Messages /\ x.type = "no reader"
  BY DEF Messages
<1> HIDE DEF x
<1>2. NoReader = <<x>>
  BY DEF NoReader, x
<1>3. NoReader \in Seq(Messages) /\ Range(NoReader) = {x} /\ NoReader # <<>>
  BY <1>1, <1>2, Single
<1> QED BY <1>1, <1>3 DEF FillsOf

-----------------------------------------------------------------------------
(***************************************************************************)
(* What the router's operators change.                                     *)
(***************************************************************************)

LEMMA GatewayFields ==
  ASSUME NEW g \in Gateways
  PROVE  /\ g.route \in [Strats -> Routes] /\ g.ring \in [Strats -> Seq(Messages)]
         /\ g.orders \in Orders /\ g.hist \in Seq(Ids) /\ g.sweep \in BOOLEAN
         /\ g.killed \in BOOLEAN /\ g.seeded \in SUBSET Strats /\ g.seed \in [Strats -> Seeds]
         /\ g.booked \in SUBSET Nat /\ g.parked \in Seq(Parkable) /\ g.cancels \in SUBSET Ids
  BY DEF Gateways

\* An execution of M that is delivered to strategy t, or booked in the account.
Pushed(g, M, t, e) ==
  \E m \in M : /\ m.e = e /\ Trader(e) = t /\ t \in Attached(g)
               /\ ~(m.replayed /\ execs[e].id.epoch # g.route[t].epoch /\ HeldBy(g.route[t], e))
Booked(g, M, e) ==
  \E m \in M : /\ m.e = e /\ Trader(e) \in g.seeded
               /\ ~(m.replayed /\ HeldBy(g.seed[Trader(e)], e))

SameRoute(r, q) ==
  q.epoch = r.epoch /\ q.from = r.from /\ q.known = r.known /\ (q = NoRoute <=> r = NoRoute)

\* h is g after executions of M have been routed, and what else does not matter to bookings.
Moves(g, h, M) ==
  /\ h \in Gateways /\ h.seeded = g.seeded /\ h.seed = g.seed
  /\ \A t \in Strats : /\ SameRoute(g.route[t], h.route[t])
                       /\ g.ring[t] = NoReader => h.ring[t] = NoReader
                       /\ \A x \in Range(h.ring[t]) :
                            \/ x \in Range(g.ring[t])
                            \/ x.type # "no reader" /\ (x.type = "fill" => Pushed(g, M, t, x.e))
  /\ \A e \in h.booked : e \in g.booked \/ Booked(g, M, e)
  /\ \A m \in Range(h.parked) :
       m \in Range(g.parked) \/ (m \in M /\ Trader(m.e) \notin Attached(g))

\* No order is sent and no snapshot is written between g and h.
Silent(g, h) ==
  /\ h.hist = g.hist
  /\ \A t \in Strats : \A x \in Range(h.ring[t]) : x.type = "snapshot" => x \in Range(g.ring[t])

LEMMA MovesSelf ==
  ASSUME NEW g \in Gateways, NEW M
  PROVE  Moves(g, g, M) /\ Silent(g, g)
  BY DEF Moves, Silent, SameRoute

LEMMA MovesAttached ==
  ASSUME NEW g, NEW h, NEW M, Moves(g, h, M)
  PROVE  Attached(h) = Attached(g)
  BY DEF Moves, SameRoute, Attached

LEMMA MovesTransitive ==
  ASSUME NEW g, NEW h, NEW k, NEW M, Moves(g, h, M), Moves(h, k, M)
  PROVE  Moves(g, k, M)
<1>0. Attached(h) = Attached(g)
  BY MovesAttached
<1>1. k \in Gateways /\ k.seeded = g.seeded /\ k.seed = g.seed /\ h.seeded = g.seeded /\ h.seed = g.seed
  BY DEF Moves
<1>2. ASSUME NEW t \in Strats
      PROVE  SameRoute(g.route[t], k.route[t]) /\ (g.ring[t] = NoReader => k.ring[t] = NoReader)
  BY DEF Moves, SameRoute
<1>3. ASSUME NEW t \in Strats, NEW e, Pushed(h, M, t, e) PROVE Pushed(g, M, t, e)
  <2>1. SameRoute(g.route[t], h.route[t])
    BY DEF Moves
  <2> QED BY <1>0, <1>3, <2>1 DEF SameRoute, Pushed, HeldBy
<1>4. ASSUME NEW e, Booked(h, M, e) PROVE Booked(g, M, e)
  BY <1>1, <1>4 DEF Booked
<1>5. ASSUME NEW t \in Strats, NEW x \in Range(k.ring[t])
      PROVE  \/ x \in Range(g.ring[t])
             \/ x.type # "no reader" /\ (x.type = "fill" => Pushed(g, M, t, x.e))
  <2>1. \/ x \in Range(h.ring[t])
        \/ x.type # "no reader" /\ (x.type = "fill" => Pushed(h, M, t, x.e))
    BY DEF Moves
  <2>2. x \in Range(h.ring[t]) =>
          \/ x \in Range(g.ring[t])
          \/ x.type # "no reader" /\ (x.type = "fill" => Pushed(g, M, t, x.e))
    BY DEF Moves
  <2> QED BY <1>3, <2>1, <2>2
<1>6. ASSUME NEW e \in k.booked PROVE e \in g.booked \/ Booked(g, M, e)
  BY <1>4 DEF Moves
<1>7. ASSUME NEW m \in Range(k.parked)
      PROVE  m \in Range(g.parked) \/ (m \in M /\ Trader(m.e) \notin Attached(g))
  BY <1>0 DEF Moves
<1> QED BY <1>1, <1>2, <1>5, <1>6, <1>7 DEF Moves

\* Nothing that bookings or snapshots look at.
Quiet(g, h) ==
  /\ h \in Gateways /\ h.seeded = g.seeded /\ h.seed = g.seed /\ h.booked = g.booked
  /\ h.parked = g.parked /\ h.hist = g.hist
  /\ \A t \in Strats : /\ SameRoute(g.route[t], h.route[t])
                       /\ g.ring[t] = NoReader => h.ring[t] = NoReader
                       /\ \A x \in Range(h.ring[t]) :
                            x \in Range(g.ring[t]) \/ x.type \in {"ended", "kill"}

LEMMA QuietMoves ==
  ASSUME NEW g, NEW h, NEW M, Quiet(g, h)
  PROVE  Moves(g, h, M) /\ Silent(g, h)
  BY DEF Quiet, Moves, Silent

LEMMA QuietTransitive ==
  ASSUME NEW g, NEW h, NEW k, Quiet(g, h), Quiet(h, k)
  PROVE  Quiet(g, k)
<1>1. ASSUME NEW t \in Strats PROVE SameRoute(g.route[t], k.route[t])
  BY DEF Quiet, SameRoute
<1> QED BY <1>1 DEF Quiet

LEMMA QuietSelf ==
  ASSUME NEW g \in Gateways
  PROVE  Quiet(g, g)
  BY DEF Quiet, SameRoute

LEMMA SilentTransitive ==
  ASSUME NEW g, NEW h, NEW k, Silent(g, h), Silent(h, k)
  PROVE  Silent(g, k)
  BY DEF Silent

-----------------------------------------------------------------------------

\* r is g with the message m[t] in the ring of some t of to.
RingsGrow(g, r, to, m) ==
  /\ r \in Gateways
  /\ r.route = g.route /\ r.orders = g.orders /\ r.hist = g.hist /\ r.seeded = g.seeded
  /\ r.seed = g.seed /\ r.booked = g.booked /\ r.parked = g.parked
  /\ \A t \in Strats :
       /\ g.ring[t] = NoReader => r.ring[t] = NoReader
       /\ \A x \in Range(r.ring[t]) : x \in Range(g.ring[t]) \/ (t \in to /\ x = m[t])

LEMMA PushAllFacts ==
  ASSUME NEW g \in Gateways, NEW to \in SUBSET Strats, NEW m, \A s \in to : m[s] \in Messages,
         NEW r, r = PushAll(g, to, m)
  PROVE  RingsGrow(g, r, to, m)
<1> DEFINE ring == [s \in Strats |-> IF s \in to /\ g.ring[s] # NoReader THEN Append(g.ring[s], m[s])
                                                                          ELSE g.ring[s]]
<1>1. g.ring \in [Strats -> Seq(Messages)]
  BY GatewayFields
<1>2. ASSUME NEW t \in Strats
      PROVE  /\ ring[t] \in Seq(Messages)
             /\ g.ring[t] = NoReader => ring[t] = NoReader
             /\ \A x \in Range(ring[t]) : x \in Range(g.ring[t]) \/ (t \in to /\ x = m[t])
  <2>1. g.ring[t] \in Seq(Messages)
    BY <1>1
  <2>2. CASE t \in to /\ g.ring[t] # NoReader
    <3>1. /\ Append(g.ring[t], m[t]) \in Seq(Messages)
          /\ Range(Append(g.ring[t], m[t])) = Range(g.ring[t]) \cup {m[t]}
      BY <2>1, <2>2, RangeAppend
    <3> QED BY <2>2, <3>1
  <2>3. CASE ~(t \in to /\ g.ring[t] # NoReader)
    BY <2>1, <2>3
  <2> QED BY <2>2, <2>3
<1>3. ring \in [Strats -> Seq(Messages)]
  BY <1>2
<1>4. r = [g EXCEPT !.ring = ring]
  BY Zenon DEF PushAll
<1> HIDE DEF ring
<1>5. /\ r \in Gateways /\ r.ring = ring
      /\ r.route = g.route /\ r.orders = g.orders /\ r.hist = g.hist /\ r.seeded = g.seeded
      /\ r.seed = g.seed /\ r.booked = g.booked /\ r.parked = g.parked
  BY <1>3, <1>4 DEF Gateways
<1> QED BY <1>2, <1>5 DEF RingsGrow

LEMMA PushFacts ==
  ASSUME NEW g \in Gateways, NEW s \in Strats, NEW m \in Messages, NEW r, r = Push(g, s, m)
  PROVE  RingsGrow(g, r, {s}, [x \in {s} |-> m])
<1> DEFINE f == [x \in {s} |-> m]
<1>1. {s} \in SUBSET Strats /\ \A x \in {s} : f[x] \in Messages
  OBVIOUS
<1>2. r = PushAll(g, {s}, f)
  BY DEF Push
<1> HIDE DEF f
<1>3. RingsGrow(g, r, {s}, f)
  BY <1>1, <1>2, PushAllFacts
<1> QED BY <1>3 DEF f

\* A message that is no fill and no snapshot.
LEMMA PushQuiet ==
  ASSUME NEW g \in Gateways, NEW s \in Strats, NEW m \in Messages,
         m.type \in {"ended", "kill"}, NEW r, r = Push(g, s, m)
  PROVE  Quiet(g, r)
<1>1. RingsGrow(g, r, {s}, [x \in {s} |-> m])
  BY PushFacts
<1> QED BY <1>1 DEF RingsGrow, Quiet, SameRoute

LEMMA OrdersFacts ==
  ASSUME NEW o
  PROVE  o \in Orders <=> /\ DOMAIN o \in SUBSET Ids
                          /\ o = [id \in DOMAIN o |-> o[id]]
                          /\ \A id \in DOMAIN o : o[id] \in OrderEntries
<1>1. ASSUME o \in Orders
      PROVE  /\ DOMAIN o \in SUBSET Ids /\ o = [id \in DOMAIN o |-> o[id]]
             /\ \A id \in DOMAIN o : o[id] \in OrderEntries
  <2>1. PICK I \in SUBSET Ids : o \in [I -> OrderEntries]
    BY <1>1 DEF Orders
  <2> QED BY <2>1
<1>2. ASSUME /\ DOMAIN o \in SUBSET Ids /\ o = [id \in DOMAIN o |-> o[id]]
             /\ \A id \in DOMAIN o : o[id] \in OrderEntries
      PROVE  o \in Orders
  <2>1. o \in [DOMAIN o -> OrderEntries]
    BY <1>2
  <2> QED BY <1>2, <2>1 DEF Orders
<1> QED BY <1>1, <1>2

\* Only the orders tracked and the cancels queued differ.
OnlyOrders(g, h) ==
  /\ h \in Gateways /\ h.route = g.route /\ h.ring = g.ring /\ h.seeded = g.seeded
  /\ h.seed = g.seed /\ h.booked = g.booked /\ h.parked = g.parked /\ h.hist = g.hist

LEMMA OnlyOrdersQuiet ==
  ASSUME NEW g, NEW h, OnlyOrders(g, h)
  PROVE  Quiet(g, h)
  BY DEF OnlyOrders, Quiet, SameRoute

LEMMA UntrackQuiet ==
  ASSUME NEW g \in Gateways, NEW ids, NEW r, r = Untrack(g, ids)
  PROVE  Quiet(g, r)
<1> DEFINE o == [id \in DOMAIN g.orders \ ids |-> g.orders[id]]
<1>1. g.orders \in Orders
  BY GatewayFields
<1>2. o \in Orders
  <2>1. /\ DOMAIN o \in SUBSET Ids /\ o = [id \in DOMAIN o |-> o[id]]
        /\ \A id \in DOMAIN o : o[id] \in OrderEntries
    BY <1>1, OrdersFacts
  <2> HIDE DEF o
  <2> QED BY <2>1, OrdersFacts
<1>3. r = [g EXCEPT !.orders = o]
  BY Zenon DEF Untrack
<1> HIDE DEF o
<1>4. OnlyOrders(g, r)
  BY <1>2, <1>3 DEF OnlyOrders, Gateways
<1> QED BY <1>4, OnlyOrdersQuiet

LEMMA QueueCancelsQuiet ==
  ASSUME NEW g \in Gateways, NEW ids \in SUBSET Ids, NEW r, r = QueueCancels(g, ids)
  PROVE  Quiet(g, r) /\ DOMAIN r.orders = DOMAIN g.orders
<1> DEFINE o == [id \in DOMAIN g.orders |->
                   [cancelled |-> g.orders[id].cancelled \/ id \in ids, g |-> g.orders[id].g]]
           c == g.cancels \cup ids
<1>1. g.orders \in Orders /\ c \in SUBSET Ids
  BY GatewayFields
<1>2. o \in Orders
  <2>1. ASSUME NEW id \in DOMAIN g.orders
        PROVE  [cancelled |-> g.orders[id].cancelled \/ id \in ids, g |-> g.orders[id].g]
                 \in OrderEntries
    <3>1. g.orders[id] \in OrderEntries
      BY <1>1, OrdersFacts
    <3> QED BY <3>1 DEF OrderEntries
  <2>2. DOMAIN g.orders \in SUBSET Ids
    BY <1>1, OrdersFacts
  <2>3. /\ DOMAIN o \in SUBSET Ids /\ o = [id \in DOMAIN o |-> o[id]]
        /\ \A id \in DOMAIN o : o[id] \in OrderEntries
    BY <2>1, <2>2
  <2> HIDE DEF o
  <2> QED BY <2>3, OrdersFacts
<1>3. r = [g EXCEPT !.orders = o, !.cancels = c]
  BY Zenon DEF QueueCancels
<1>4. DOMAIN o = DOMAIN g.orders
  OBVIOUS
<1> HIDE DEF o, c
<1>5. OnlyOrders(g, r) /\ r.orders = o
  BY <1>1, <1>2, <1>3 DEF OnlyOrders, Gateways
<1> QED BY <1>4, <1>5, OnlyOrdersQuiet

-----------------------------------------------------------------------------
(***************************************************************************)
(* Routing an execution.                                                   *)
(***************************************************************************)

\* Executions are of orders of sessions that were given out.
Traded ==
  /\ execs \in Seq(Trades) /\ sessions \in Seq(Strats)
  /\ \A e \in DOMAIN execs : execs[e].id.epoch \in DOMAIN sessions

LEMMA TraderType ==
  ASSUME Traded, NEW e \in DOMAIN execs
  PROVE  /\ Trader(e) \in Strats /\ e \in Nat \ {0} /\ execs[e].id \in Ids
         /\ execs[e] \in Trades
<1>1. execs \in Seq(Trades) /\ sessions \in Seq(Strats) /\ execs[e].id.epoch \in DOMAIN sessions
  BY DEF Traded
<1>2. execs[e] \in Trades /\ e \in Nat \ {0}
  BY <1>1
<1>3. sessions[execs[e].id.epoch] \in Strats
  BY <1>1
<1>4. execs[e].id \in Ids
  BY <1>2 DEF Trades
<1> QED BY <1>2, <1>3, <1>4 DEF Trader

AccountBooks(g, h, m) ==
  /\ h \in Gateways /\ h.route = g.route /\ h.ring = g.ring /\ h.seeded = g.seeded
  /\ h.seed = g.seed /\ h.parked = g.parked /\ h.hist = g.hist
  /\ \A e \in h.booked : \/ e \in g.booked
                         \/ e = m.e /\ ~(m.replayed /\ HeldBy(g.seed[Trader(m.e)], m.e))

LEMMA AccountFillFacts ==
  ASSUME NEW g \in Gateways, NEW m \in Parkable, NEW h, h = AccountFill(g, m)
  PROVE  AccountBooks(g, h, m)
<1>1. CASE m.replayed /\ HeldBy(g.seed[Trader(m.e)], m.e)
  <2>1. h = g
    BY <1>1, Zenon DEF AccountFill
  <2> QED BY <2>1 DEF AccountBooks
<1>2. CASE ~(m.replayed /\ HeldBy(g.seed[Trader(m.e)], m.e))
  <2> DEFINE b == g.booked \cup {m.e}
  <2>1. h = [g EXCEPT !.booked = b]
    BY <1>2, Zenon DEF AccountFill
  <2>2. b \in SUBSET Nat
    BY GatewayFields DEF Parkable
  <2> HIDE DEF b
  <2>3. /\ h \in Gateways /\ h.route = g.route /\ h.ring = g.ring /\ h.seeded = g.seeded
        /\ h.seed = g.seed /\ h.parked = g.parked /\ h.hist = g.hist
        /\ h.booked = b
    BY <2>1, <2>2 DEF Gateways
  <2> QED BY <1>2, <2>3 DEF AccountBooks, b
<1> QED BY <1>1, <1>2

Parks(g, h, m) ==
  /\ h \in Gateways /\ h.route = g.route /\ h.ring = g.ring /\ h.seeded = g.seeded
  /\ h.seed = g.seed /\ h.booked = g.booked /\ h.hist = g.hist
  /\ \A x \in Range(h.parked) : x \in Range(g.parked) \/ x = m

LEMMA ParkFacts ==
  ASSUME NEW g \in Gateways, NEW m \in Parkable, NEW h, h = Park(g, m)
  PROVE  Parks(g, h, m)
<1> DEFINE q == IF Len(g.parked) = ParkCap THEN Tail(g.parked) ELSE g.parked
           p == Append(q, m)
<1>1. g.parked \in Seq(Parkable)
  BY GatewayFields
<1>2. q \in Seq(Parkable) /\ Range(q) \subseteq Range(g.parked)
  <2>1. CASE Len(g.parked) = ParkCap
    <3>1. g.parked # <<>>
      BY <2>1, GatewayAssumption
    <3> QED BY <1>1, <2>1, <3>1, RangeTail
  <2>2. CASE Len(g.parked) # ParkCap
    BY <1>1, <2>2
  <2> QED BY <2>1, <2>2
<1> HIDE DEF q
<1>3. p \in Seq(Parkable) /\ Range(p) = Range(q) \cup {m}
  BY <1>2, RangeAppend
<1>4. h = [g EXCEPT !.parked = p]
  BY Zenon DEF Park, p, q
<1> HIDE DEF p
<1>5. /\ h \in Gateways /\ h.route = g.route /\ h.ring = g.ring /\ h.seeded = g.seeded
      /\ h.seed = g.seed /\ h.booked = g.booked /\ h.hist = g.hist /\ h.parked = p
  BY <1>3, <1>4 DEF Gateways
<1> QED BY <1>2, <1>3, <1>5 DEF Parks

\* The fills of an attachment are noted as unparked.
Notes(g, h) ==
  /\ h \in Gateways /\ h.ring = g.ring /\ h.seeded = g.seeded /\ h.parked = g.parked
  /\ h.seed = g.seed /\ h.booked = g.booked /\ h.hist = g.hist
  /\ \A t \in Strats : SameRoute(g.route[t], h.route[t])

LEMMA NotesFacts ==
  ASSUME NEW g \in Gateways, NEW s \in Strats, g.route[s] # NoRoute, NEW e \in Nat,
         NEW u \in BOOLEAN, NEW h, h = [g EXCEPT !.route[s].unparked = IF u THEN @ \cup {e} ELSE @]
  PROVE  Notes(g, h)
<1> DEFINE a == IF u THEN g.route[s].unparked \cup {e} ELSE g.route[s].unparked
           q == [g.route[s] EXCEPT !.unparked = a]
           w == [g.route EXCEPT ![s] = q]
<1>1. g.route \in [Strats -> Routes]
  BY GatewayFields
<1>2. g.route[s] \in Routes
  BY <1>1
<1>3. a \in SUBSET Nat /\ g.route[s].unparked \subseteq a
  BY <1>2 DEF Routes
<1>0. h = [g EXCEPT !.route = w]
  BY <1>1 DEF Gateways
<1> HIDE DEF a
<1>4. /\ q \in Routes /\ q.epoch = g.route[s].epoch /\ q.from = g.route[s].from
      /\ q.known = g.route[s].known /\ q.unparked = a /\ q.snap = g.route[s].snap
  BY <1>2, <1>3 DEF Routes
<1>5. q # NoRoute
  <2>1. SUFFICES ASSUME q = NoRoute PROVE FALSE
    OBVIOUS
  <2>2. /\ g.route[s].epoch = 0 /\ g.route[s].from = 0 /\ g.route[s].known = {}
        /\ g.route[s].unparked = {} /\ g.route[s].snap = FALSE
    BY <1>3, <1>4, <2>1 DEF NoRoute
  <2> QED BY <1>2, <2>2 DEF Routes, NoRoute
<1> HIDE DEF q
<1>6. w \in [Strats -> Routes] /\ w[s] = q /\ \A t \in Strats \ {s} : w[t] = g.route[t]
  BY <1>1, <1>4
<1> HIDE DEF w
<1>7. /\ h \in Gateways /\ h.ring = g.ring /\ h.seeded = g.seeded /\ h.parked = g.parked
      /\ h.seed = g.seed /\ h.booked = g.booked /\ h.hist = g.hist /\ h.route = w
  BY <1>0, <1>6 DEF Gateways
<1>8. ASSUME NEW t \in Strats PROVE SameRoute(g.route[t], h.route[t])
  BY <1>4, <1>5, <1>6, <1>7 DEF SameRoute
<1> QED BY <1>7, <1>8 DEF Notes

LEMMA DeliverMoves ==
  ASSUME Traded, NEW g \in Gateways, Attached(g) \subseteq g.seeded, NEW m \in Parkable,
         m.e \in DOMAIN execs, NEW u \in BOOLEAN, NEW M, m \in M,
         NEW r, r = DeliverFill(g, m, u)
  PROVE  Moves(g, r, M) /\ Silent(g, r)
<1> DEFINE s == Trader(m.e)
<1>0. s \in Strats /\ m.e \in Nat
  BY TraderType
<1> HIDE DEF s
<1>p. PICK h : h = AccountFill(g, m)
  OBVIOUS
<1>1. AccountBooks(g, h, m)
  BY <1>p, AccountFillFacts
<1>2. h \in Gateways
  BY <1>1 DEF AccountBooks
<1>3. CASE s \notin g.seeded
  <2>1. r = Park(g, m)
    BY <1>3 DEF DeliverFill, s
  <2>2. Parks(g, r, m)
    BY <2>1, ParkFacts
  <2>3. s \notin Attached(g)
    BY <1>3
  <2> QED BY <2>2, <2>3 DEF Parks, Moves, Silent, SameRoute, s
<1>4. CASE s \in g.seeded /\ s \notin Attached(g)
  <2>1. r = Park(h, m)
    BY <1>4, <1>p DEF DeliverFill, s
  <2>2. Parks(h, r, m)
    BY <1>2, <2>1, ParkFacts
  <2>3. ASSUME NEW e \in r.booked PROVE e \in g.booked \/ Booked(g, M, e)
    BY <1>1, <1>4, <2>2 DEF Parks, AccountBooks, Booked, s
  <2> QED BY <1>1, <1>4, <2>2, <2>3 DEF Parks, AccountBooks, Moves, Silent, SameRoute, s
<1>5. CASE s \in g.seeded /\ s \in Attached(g)
  <2> DEFINE held == \/ m.replayed /\ execs[m.e].id.epoch # g.route[s].epoch /\ HeldBy(g.route[s], m.e)
                     \/ m.replayed /\ ~u /\ m.e \in g.route[s].unparked
             k == [h EXCEPT !.route[s].unparked = IF u THEN @ \cup {m.e} ELSE @]
             f == [type |-> "fill", e |-> m.e]
  <2>b. ASSUME NEW e \in h.booked PROVE e \in g.booked \/ Booked(g, M, e)
    BY <1>1, <1>5 DEF AccountBooks, Booked, s
  <2>1. CASE held
    <3>1. r = h
      BY <1>5, <1>p, <2>1 DEF DeliverFill, s
    <3> QED BY <1>1, <2>b, <3>1 DEF AccountBooks, Moves, Silent, SameRoute
  <2>2. CASE ~held
    <3>1. r = Push(k, s, f)
      BY <1>5, <1>p, <2>2 DEF DeliverFill, s
    <3>2. h.route[s] # NoRoute
      BY <1>1, <1>5 DEF AccountBooks, Attached
    <3>3. Notes(h, k)
      BY <1>0, <1>2, <3>2, NotesFacts
    <3> HIDE DEF k
    <3>4. f \in Messages /\ f.e = m.e /\ f.type = "fill"
      BY <1>0 DEF Messages
    <3> HIDE DEF f
    <3>5. k \in Gateways
      BY <3>3 DEF Notes
    <3>6. RingsGrow(k, r, {s}, [x \in {s} |-> f])
      BY <1>0, <3>1, <3>4, <3>5, PushFacts
    <3>7. Pushed(g, M, s, m.e)
      BY <1>5, <2>2 DEF Pushed, s
    <3>8. ASSUME NEW t \in Strats
          PROVE  /\ SameRoute(g.route[t], r.route[t])
                 /\ g.ring[t] = NoReader => r.ring[t] = NoReader
                 /\ \A x \in Range(r.ring[t]) : x \in Range(g.ring[t]) \/ (t = s /\ x = f)
      <4>1. r.route[t] = k.route[t] /\ h.route[t] = g.route[t] /\ SameRoute(h.route[t], k.route[t])
        BY <1>1, <3>3, <3>6 DEF AccountBooks, Notes, RingsGrow
      <4>2. k.ring[t] = g.ring[t]
        BY <1>1, <3>3 DEF AccountBooks, Notes
      <4>3. [x \in {s} |-> f][s] = f
        OBVIOUS
      <4>4. /\ k.ring[t] = NoReader => r.ring[t] = NoReader
            /\ \A x \in Range(r.ring[t]) : x \in Range(k.ring[t]) \/ (t \in {s} /\ x = [y \in {s} |-> f][t])
        BY <3>6 DEF RingsGrow
      <4> QED BY <4>1, <4>2, <4>3, <4>4
    <3>9. /\ r \in Gateways /\ r.seeded = g.seeded /\ r.seed = g.seed /\ r.booked = h.booked
          /\ r.parked = g.parked /\ r.hist = g.hist
      BY <1>1, <3>3, <3>6 DEF AccountBooks, Notes, RingsGrow
    <3>10. Moves(g, r, M)
      BY <2>b, <3>4, <3>7, <3>8, <3>9 DEF Moves
    <3>11. Silent(g, r)
      BY <3>4, <3>8, <3>9 DEF Silent
    <3> QED BY <3>10, <3>11
  <2> QED BY <2>1, <2>2
<1> QED BY <1>3, <1>4, <1>5

LEMMA RouteFillMoves ==
  ASSUME Traded, NEW g \in Gateways, Attached(g) \subseteq g.seeded, NEW m \in Parkable,
         m.e \in DOMAIN execs, NEW M, m \in M, NEW r, r = RouteFill(g, m)
  PROVE  Moves(g, r, M) /\ Silent(g, r)
<1>1. PICK h : h = IF ~m.replayed /\ execs[m.e].last THEN Untrack(g, {execs[m.e].id}) ELSE g
  OBVIOUS
<1>2. Quiet(g, h)
  BY <1>1, UntrackQuiet, QuietSelf
<1>3. Moves(g, h, M) /\ Silent(g, h) /\ h \in Gateways
  BY <1>2, QuietMoves DEF Quiet
<1>4. Attached(h) \subseteq h.seeded
  BY <1>3, MovesAttached DEF Moves
<1>5. r = DeliverFill(h, m, FALSE)
  BY <1>1, Zenon DEF RouteFill
<1>6. Moves(h, r, M) /\ Silent(h, r)
  BY <1>3, <1>4, <1>5, DeliverMoves
<1> QED BY <1>3, <1>6, MovesTransitive, SilentTransitive

-----------------------------------------------------------------------------
(***************************************************************************)
(* The loops over executions: a fold whose steps stay in a set.            *)
(***************************************************************************)

\* Where routing executions of M takes the gateway g.
Reach(g, M) == {h \in Gateways : Moves(g, h, M) /\ Silent(g, h)}

LEMMA ReachSelf ==
  ASSUME NEW g \in Gateways, NEW M
  PROVE  g \in Reach(g, M)
  BY MovesSelf DEF Reach

LEMMA ReachDeliver ==
  ASSUME Traded, NEW g \in Gateways, Attached(g) \subseteq g.seeded, NEW M,
         NEW m \in Parkable, m \in M, m.e \in DOMAIN execs, NEW h \in Reach(g, M)
  PROVE  DeliverFill(h, m, TRUE) \in Reach(g, M) /\ RouteFill(h, m) \in Reach(g, M)
<1>1. h \in Gateways /\ Moves(g, h, M) /\ Silent(g, h)
  BY DEF Reach
<1>2. Attached(h) \subseteq h.seeded
  BY <1>1, MovesAttached DEF Moves
<1>3. ASSUME NEW r, Moves(h, r, M), Silent(h, r) PROVE r \in Reach(g, M)
  <2>1. Moves(g, r, M) /\ Silent(g, r)
    BY <1>1, <1>3, MovesTransitive, SilentTransitive
  <2> QED BY <2>1 DEF Reach, Moves
<1>4. PICK r : r = DeliverFill(h, m, TRUE)
  OBVIOUS
<1>5. PICK k : k = RouteFill(h, m)
  OBVIOUS
<1>6. Moves(h, r, M) /\ Silent(h, r)
  BY <1>1, <1>2, <1>4, DeliverMoves
<1>7. Moves(h, k, M) /\ Silent(h, k)
  BY <1>1, <1>2, <1>5, RouteFillMoves
<1> QED BY <1>3, <1>4, <1>5, <1>6, <1>7

DeliverAll(g, q) == FoldLeft(LAMBDA x, m : DeliverFill(x, m, TRUE), g, q)
DeliverIter(g, q) ==
  CHOOSE f : f = [t \in SUBSET DOMAIN q |->
                    IF t = {} THEN g ELSE DeliverFill(f[t \ {Max(t)}], q[Max(t)], TRUE)]

LEMMA DeliverAllIsIter ==
  ASSUME NEW g, NEW q
  PROVE  DeliverAll(g, q) = DeliverIter(g, q)[DOMAIN q]
  BY Zenon DEF DeliverAll, FoldLeft, MapThenFoldSet, DeliverIter

LEMMA DeliverAllMoves ==
  ASSUME Traded, NEW g \in Gateways, Attached(g) \subseteq g.seeded, NEW q \in Seq(Parkable),
         \A m \in Range(q) : m.e \in DOMAIN execs
  PROVE  DeliverAll(g, q) \in Reach(g, Range(q))
<1> DEFINE n == Len(q)
           M == Range(q)
           V == Reach(g, M)
           Step(i, v) == DeliverFill(v, q[i], TRUE)
           D == [x \in (1 .. n) \X V |-> Step(x[1], x[2])]
           f == DeliverIter(g, q)
           F(h) == [t \in SUBSET DOMAIN q |-> IF t = {} THEN g ELSE Step(Max(t), h[t \ {Max(t)}])]
<1>1. n \in Nat /\ DOMAIN q = 1 .. n
  OBVIOUS
<1>2. ASSUME NEW i \in 1 .. n, NEW v \in V PROVE Step(i, v) \in V
  <2>1. q[i] \in Parkable /\ q[i] \in Range(q)
    BY <1>1 DEF Range
  <2> QED BY <2>1, ReachDeliver
<1>3. g \in V
  BY ReachSelf
<1> HIDE DEF V, n, Step
<1>4. D \in [(1 .. n) \X V -> V] /\ \A i \in 1 .. n : \A v \in V : D[<<i, v>>] = Step(i, v)
  BY <1>2
<1> HIDE DEF D
<1>p. PICK e \in [SUBSET (1 .. n) -> V] : FoldsBy(e, n, g, D)
  BY <1>1, <1>3, <1>4, FoldExists
<1>5. /\ e[{}] = g
      /\ \A t \in SUBSET (1 .. n) : t # {} =>
           Max(t) \in t /\ e[t] = D[<<Max(t), e[t \ {Max(t)}]>>]
  BY <1>p DEF FoldsBy
<1>6. e = F(e)
  <2>1. ASSUME NEW t \in SUBSET (1 .. n)
        PROVE  e[t] = IF t = {} THEN g ELSE Step(Max(t), e[t \ {Max(t)}])
    <3>1. CASE t = {}
      BY <1>5, <3>1
    <3>2. CASE t # {}
      <4>1. Max(t) \in 1 .. n /\ t \ {Max(t)} \in SUBSET (1 .. n)
        BY <1>5, <3>2
      <4>2. e[t] = D[<<Max(t), e[t \ {Max(t)}]>>] /\ e[t \ {Max(t)}] \in V
        BY <1>5, <3>2, <4>1
      <4>3. D[<<Max(t), e[t \ {Max(t)}]>>] = Step(Max(t), e[t \ {Max(t)}])
        BY <1>4, <4>1, <4>2
      <4> QED BY <3>2, <4>1, <4>2, <4>3
    <3> QED BY <3>1, <3>2
  <2>2. e = [t \in SUBSET (1 .. n) |-> e[t]]
    OBVIOUS
  <2> QED BY <1>1, <2>1, <2>2
<1>7. f = CHOOSE h : h = F(h)
  BY Zenon DEF DeliverIter, Step
<1> HIDE DEF f, F
<1>8. f = F(f)
  BY <1>6, <1>7
<1>9. ASSUME NEW t \in SUBSET (1 .. n)
      PROVE  f[t] = IF t = {} THEN g ELSE Step(Max(t), f[t \ {Max(t)}])
  BY <1>1, <1>8 DEF F
<1>10. f[{}] = g
  BY <1>9
<1>11. ASSUME NEW t \in SUBSET (1 .. n), t # {}, f[t \ {Max(t)}] \in V PROVE f[t] \in V
  <2>1. Max(t) \in 1 .. n
    BY <1>5, <1>11
  <2>2. f[t] = Step(Max(t), f[t \ {Max(t)}])
    BY <1>9, <1>11
  <2> QED BY <1>2, <1>11, <2>1, <2>2
<1>12. f[1 .. n] \in V
  BY <1>1, <1>3, <1>10, <1>11, FoldStays
<1> QED BY <1>1, <1>12, DeliverAllIsIter DEF f, V

\* The rows of a replay.
Rows == {[e |-> e, replayed |-> TRUE] : e \in DOMAIN execs}

ReplayAll(g, c) == FoldLeftDomain(LAMBDA x, e : ReplayRow(x, c, e), g, execs)
ReplayIter(g, c) ==
  CHOOSE f : f = [t \in SUBSET DOMAIN [i \in DOMAIN execs |-> i] |->
                    IF t = {} THEN g
                    ELSE ReplayRow(f[t \ {Max(t)}], c, [i \in DOMAIN execs |-> i][Max(t)])]

LEMMA ReplayAllIsIter ==
  ASSUME NEW g, NEW c
  PROVE  ReplayAll(g, c) = ReplayIter(g, c)[DOMAIN [i \in DOMAIN execs |-> i]]
  BY Zenon DEF ReplayAll, FoldLeftDomain, FoldLeft, MapThenFoldSet, ReplayIter

LEMMA ReplayAllMoves ==
  ASSUME Traded, NEW g \in Gateways, Attached(g) \subseteq g.seeded, NEW c
  PROVE  ReplayAll(g, c) \in Reach(g, Rows)
<1> DEFINE n == Len(execs)
           V == Reach(g, Rows)
           Step(i, v) == ReplayRow(v, c, i)
           D == [x \in (1 .. n) \X V |-> Step(x[1], x[2])]
           f == ReplayIter(g, c)
           id == [i \in DOMAIN execs |-> i]
           F(h) == [t \in SUBSET DOMAIN id |-> IF t = {} THEN g ELSE Step(id[Max(t)], h[t \ {Max(t)}])]
<1>0. execs \in Seq(Trades)
  BY DEF Traded
<1>1. n \in Nat /\ DOMAIN execs = 1 .. n /\ DOMAIN id = 1 .. n /\ \A i \in 1 .. n : id[i] = i
  BY <1>0
<1>2. ASSUME NEW i \in 1 .. n, NEW v \in V PROVE Step(i, v) \in V
  <2> DEFINE m == [e |-> i, replayed |-> TRUE]
  <2>a. i \in Nat /\ i \in DOMAIN execs
    BY <1>1
  <2>b. m \in Rows
    BY <2>a, Zenon DEF Rows
  <2>1. m \in Parkable /\ m \in Rows /\ m.e \in DOMAIN execs
    BY <2>a, <2>b DEF Parkable
  <2>2. RouteFill(v, m) \in V
    <3> HIDE DEF m
    <3> QED BY <2>1, ReachDeliver
  <2>3. Step(i, v) \in {v, RouteFill(v, m)}
    BY Zenon DEF ReplayRow
  <2> QED BY <2>2, <2>3
<1>3. g \in V
  BY ReachSelf
<1> HIDE DEF V, n, Step, id
<1>4. D \in [(1 .. n) \X V -> V] /\ \A i \in 1 .. n : \A v \in V : D[<<i, v>>] = Step(i, v)
  BY <1>2
<1> HIDE DEF D
<1>p. PICK e \in [SUBSET (1 .. n) -> V] : FoldsBy(e, n, g, D)
  BY <1>1, <1>3, <1>4, FoldExists
<1>5. /\ e[{}] = g
      /\ \A t \in SUBSET (1 .. n) : t # {} =>
           Max(t) \in t /\ e[t] = D[<<Max(t), e[t \ {Max(t)}]>>]
  BY <1>p DEF FoldsBy
<1>6. e = F(e)
  <2>1. ASSUME NEW t \in SUBSET (1 .. n)
        PROVE  e[t] = IF t = {} THEN g ELSE Step(id[Max(t)], e[t \ {Max(t)}])
    <3>1. CASE t = {}
      BY <1>5, <3>1
    <3>2. CASE t # {}
      <4>1. Max(t) \in 1 .. n /\ t \ {Max(t)} \in SUBSET (1 .. n) /\ id[Max(t)] = Max(t)
        BY <1>1, <1>5, <3>2
      <4>2. e[t] = D[<<Max(t), e[t \ {Max(t)}]>>] /\ e[t \ {Max(t)}] \in V
        BY <1>5, <3>2, <4>1
      <4>3. D[<<Max(t), e[t \ {Max(t)}]>>] = Step(Max(t), e[t \ {Max(t)}])
        BY <1>4, <4>1, <4>2
      <4> QED BY <3>2, <4>1, <4>2, <4>3
    <3> QED BY <3>1, <3>2
  <2>2. e = [t \in SUBSET (1 .. n) |-> e[t]]
    OBVIOUS
  <2> QED BY <1>1, <2>1, <2>2
<1>7. f = CHOOSE h : h = F(h)
  BY Zenon DEF ReplayIter, Step, id
<1> HIDE DEF f, F
<1>8. f = F(f)
  BY <1>6, <1>7
<1>9. ASSUME NEW t \in SUBSET (1 .. n)
      PROVE  f[t] = IF t = {} THEN g ELSE Step(id[Max(t)], f[t \ {Max(t)}])
  BY <1>1, <1>8 DEF F
<1>10. f[{}] = g
  BY <1>9
<1>11. ASSUME NEW t \in SUBSET (1 .. n), t # {}, f[t \ {Max(t)}] \in V PROVE f[t] \in V
  <2>1. Max(t) \in 1 .. n /\ id[Max(t)] = Max(t)
    BY <1>1, <1>5, <1>11
  <2>2. f[t] = Step(Max(t), f[t \ {Max(t)}])
    BY <1>9, <1>11, <2>1
  <2> QED BY <1>2, <1>11, <2>1, <2>2
<1>12. f[1 .. n] \in V
  BY <1>1, <1>3, <1>10, <1>11, FoldStays
<1> QED BY <1>1, <1>12, ReplayAllIsIter DEF f, V, id

-----------------------------------------------------------------------------
(***************************************************************************)
(* Routing a reconciliation.                                               *)
(***************************************************************************)

\* What a snapshot for t says: the rows of its session, and a watermark among the orders sent
\* before the connector's.
SnapshotOf(g, mark, rows, t, x) ==
  /\ x.type = "snapshot" /\ t \in Attached(g)
  /\ x.rows = {id \in rows : id.epoch = g.route[t].epoch}
  /\ \/ x.mark = NoId
     \/ \E i, k \in DOMAIN g.hist : /\ i <= k /\ g.hist[k] = mark /\ x.mark = g.hist[i]
                                    /\ g.hist[i].epoch = g.route[t].epoch

Snapped(g, r, mark, rows) ==
  /\ Moves(g, r, {}) /\ r.hist = g.hist
  /\ \A t \in Strats : \A x \in Range(r.ring[t]) :
       x.type = "snapshot" => x \in Range(g.ring[t]) \/ SnapshotOf(g, mark, rows, t, x)

LEMMA ReconcileFacts ==
  ASSUME NEW g \in Gateways, \A s \in Attached(g) : g.route[s].epoch # 0,
         NEW mark \in Ids, NEW rows \in SUBSET Ids, NEW r, r = RouteReconcile(g, mark, rows)
  PROVE  Snapped(g, r, mark, rows)
<1> DEFINE lo == IF Len(g.hist) > HistCap THEN Len(g.hist) - HistCap ELSE 0
           found == {j \in (lo + 1)..Len(g.hist) : g.hist[j] = mark}
           known == mark = NoId \/ found # {}
           upTo == IF found = {} THEN 0 ELSE Max(found)
           all == ~g.sweep /\ \A s \in Attached(g) : ~g.route[s].snap
           to == {s \in Attached(g) : all \/ g.route[s].snap}
           own(s) == {j \in (lo + 1)..upTo : g.hist[j].epoch = g.route[s].epoch}
           msg == [s \in to |->
                     [type |-> "snapshot",
                      mark |-> IF own(s) = {} THEN NoId ELSE g.hist[Max(own(s))],
                      rows |-> {id \in rows : id.epoch = g.route[s].epoch}]]
           learned == {id \in rows : Live(g, id)} \ DOMAIN g.orders
           route == [s \in Strats |-> IF s \in to THEN [g.route[s] EXCEPT !.snap = FALSE] ELSE g.route[s]]
           orders == [id \in DOMAIN g.orders \cup learned |->
                        IF id \in DOMAIN g.orders THEN g.orders[id] ELSE [cancelled |-> FALSE, g |-> 1]]
           h == [g EXCEPT !.sweep = FALSE, !.route = route, !.orders = orders]
           dead == {id \in rows : Unmanaged(g, id)}
           gone == {id \in DOMAIN h.orders \ rows : known /\ h.orders[id].g <= upTo}
<1>1. r = Untrack(QueueCancels(PushAll(h, to, msg), dead), gone)
  BY Zenon DEF RouteReconcile
<1>2. g.route \in [Strats -> Routes] /\ g.hist \in Seq(Ids) /\ g.orders \in Orders
  BY GatewayFields
<1>3. Len(g.hist) \in Nat /\ DOMAIN g.hist = 1 .. Len(g.hist) /\ \A j \in DOMAIN g.hist : g.hist[j] \in Ids
  BY <1>2
<1>4. lo \in Nat
  BY <1>3, GatewayAssumption
<1>5. found # {} => upTo \in found
  <2>1. found \in SUBSET (0 .. Len(g.hist))
    BY <1>3, <1>4
  <2> QED BY <1>3, <2>1, MaxIsMember
<1> HIDE DEF lo
<1>6. upTo \in Nat /\ upTo <= Len(g.hist) /\ (upTo # 0 => g.hist[upTo] = mark)
  BY <1>3, <1>4, <1>5
<1> HIDE DEF upTo, found
<1>7. ASSUME NEW s \in Strats, own(s) # {}
      PROVE  /\ Max(own(s)) \in DOMAIN g.hist /\ Max(own(s)) <= upTo /\ upTo \in DOMAIN g.hist
             /\ g.hist[upTo] = mark /\ g.hist[Max(own(s))].epoch = g.route[s].epoch
  <2>1. own(s) \in SUBSET (0 .. upTo)
    BY <1>4, <1>6
  <2>2. Max(own(s)) \in own(s)
    BY <1>6, <1>7, <2>1, MaxIsMember
  <2>3. Max(own(s)) \in (lo + 1) .. upTo /\ g.hist[Max(own(s))].epoch = g.route[s].epoch
    BY <2>2
  <2> HIDE DEF own
  <2> QED BY <1>3, <1>4, <1>6, <2>3
<1> HIDE DEF own
<1>8. NoId \in Ids
  BY DEF NoId, Ids
<1>9. to \in SUBSET Strats /\ to \subseteq Attached(g)
  BY DEF Attached
<1>10. ASSUME NEW s \in to PROVE msg[s] \in Messages /\ SnapshotOf(g, mark, rows, s, msg[s])
  <2> DEFINE k == IF own(s) = {} THEN NoId ELSE g.hist[Max(own(s))]
             w == {id \in rows : id.epoch = g.route[s].epoch}
             x == [type |-> "snapshot", mark |-> k, rows |-> w]
  <2>1. msg[s] = x
    OBVIOUS
  <2>2. k \in Ids
    BY <1>3, <1>7, <1>8, <1>9
  <2>3. k = NoId \/ \E i, j \in DOMAIN g.hist : /\ i <= j /\ g.hist[j] = mark /\ k = g.hist[i]
                                               /\ g.hist[i].epoch = g.route[s].epoch
    BY <1>7, <1>9
  <2>4. w \in SUBSET Ids
    OBVIOUS
  <2> HIDE DEF k
  <2>5. x \in Snapshots /\ x.type = "snapshot" /\ x.mark = k /\ x.rows = w
    BY <2>2, <2>4 DEF Snapshots
  <2> HIDE DEF x
  <2>6. x \in Messages
    BY <2>5 DEF Messages
  <2>7. SnapshotOf(g, mark, rows, s, x)
    BY <1>9, <2>3, <2>5 DEF SnapshotOf
  <2> HIDE DEF msg
  <2> QED BY <2>1, <2>6, <2>7
<1> HIDE DEF to, msg
<1>11. ASSUME NEW s \in Strats PROVE route[s] \in Routes /\ SameRoute(g.route[s], route[s])
  <2>1. CASE s \in to
    <3> DEFINE q == [g.route[s] EXCEPT !.snap = FALSE]
    <3>1. g.route[s] \in Routes /\ g.route[s] # NoRoute /\ g.route[s].epoch # 0
      BY <1>2, <1>9, <2>1 DEF Attached
    <3>2. /\ q \in Routes /\ q.epoch = g.route[s].epoch /\ q.from = g.route[s].from
          /\ q.known = g.route[s].known
      BY <3>1 DEF Routes
    <3> HIDE DEF q
    <3>3. q # NoRoute
      BY <3>1, <3>2 DEF NoRoute
    <3>4. route[s] = q
      BY <2>1 DEF q
    <3> HIDE DEF route
    <3> QED BY <3>1, <3>2, <3>3, <3>4 DEF SameRoute
  <2>2. CASE s \notin to
    BY <1>2, <2>2 DEF SameRoute
  <2> QED BY <2>1, <2>2
<1>12. route \in [Strats -> Routes]
  BY <1>11
<1> HIDE DEF route
<1>13. orders \in Orders
  <2>1. learned \in SUBSET Ids
    OBVIOUS
  <2> HIDE DEF learned
  <2>2. [cancelled |-> FALSE, g |-> 1] \in OrderEntries
    BY DEF OrderEntries
  <2>3. DOMAIN g.orders \in SUBSET Ids /\ \A id \in DOMAIN g.orders : g.orders[id] \in OrderEntries
    BY <1>2, OrdersFacts
  <2>4. /\ DOMAIN orders \in SUBSET Ids /\ orders = [id \in DOMAIN orders |-> orders[id]]
        /\ \A id \in DOMAIN orders : orders[id] \in OrderEntries
    BY <2>1, <2>2, <2>3
  <2> HIDE DEF orders
  <2> QED BY <2>4, OrdersFacts
<1> HIDE DEF orders
<1>14. /\ h \in Gateways /\ h.route = route /\ h.ring = g.ring /\ h.seeded = g.seeded
       /\ h.seed = g.seed /\ h.booked = g.booked /\ h.parked = g.parked /\ h.hist = g.hist
  BY <1>12, <1>13 DEF Gateways
<1> HIDE DEF h
<1>15. Quiet(g, h)
  BY <1>11, <1>14 DEF Quiet
<1>16. PICK p : p = PushAll(h, to, msg)
  OBVIOUS
<1>17. RingsGrow(h, p, to, msg)
  BY <1>9, <1>10, <1>14, <1>16, PushAllFacts
<1>18. p \in Gateways
  BY <1>17 DEF RingsGrow
<1>19. PICK c : c = QueueCancels(p, dead)
  OBVIOUS
<1>20. Quiet(p, c) /\ c \in Gateways
  <2>1. dead \in SUBSET Ids
    OBVIOUS
  <2> HIDE DEF dead
  <2> QED BY <1>18, <1>19, <2>1, QueueCancelsQuiet DEF Quiet
<1>21. r = Untrack(c, gone)
  BY <1>1, <1>16, <1>19
<1> HIDE DEF gone, dead
<1>22. Quiet(c, r)
  BY <1>20, <1>21, UntrackQuiet
<1>23. Quiet(p, r)
  BY <1>20, <1>22, QuietTransitive
<1>24. ASSUME NEW t \in Strats, NEW x \in Range(r.ring[t])
       PROVE  x \in Range(g.ring[t]) \/ SnapshotOf(g, mark, rows, t, x) \/ x.type \in {"ended", "kill"}
  <2>1. x \in Range(p.ring[t]) \/ x.type \in {"ended", "kill"}
    BY <1>23 DEF Quiet
  <2>2. x \in Range(p.ring[t]) => x \in Range(g.ring[t]) \/ (t \in to /\ x = msg[t])
    BY <1>14, <1>17 DEF RingsGrow
  <2> QED BY <1>10, <2>1, <2>2
<1>25. /\ r \in Gateways /\ r.seeded = g.seeded /\ r.seed = g.seed /\ r.booked = g.booked
       /\ r.parked = g.parked /\ r.hist = g.hist
  BY <1>14, <1>17, <1>23 DEF Quiet, RingsGrow
<1>26. ASSUME NEW t \in Strats
       PROVE  SameRoute(g.route[t], r.route[t]) /\ (g.ring[t] = NoReader => r.ring[t] = NoReader)
  <2>1. SameRoute(g.route[t], h.route[t]) /\ p.route[t] = h.route[t] /\ SameRoute(p.route[t], r.route[t])
    BY <1>15, <1>17, <1>23 DEF Quiet, RingsGrow
  <2>2. g.ring[t] = NoReader => r.ring[t] = NoReader
    BY <1>14, <1>17, <1>23 DEF Quiet, RingsGrow
  <2> QED BY <2>1, <2>2 DEF SameRoute
<1>27. ASSUME NEW t \in Strats, NEW x \in Range(r.ring[t])
       PROVE  x \in Range(g.ring[t]) \/ x.type \notin {"fill", "no reader"}
  BY <1>24 DEF SnapshotOf
<1>28. Moves(g, r, {})
  BY <1>25, <1>26, <1>27 DEF Moves
<1> QED BY <1>24, <1>25, <1>28 DEF Snapped

-----------------------------------------------------------------------------
(***************************************************************************)
(* The connector's, the engine's and the store's operators.                *)
(***************************************************************************)

LEMMA MaxOfPair ==
  ASSUME NEW a \in Int, NEW b \in Int
  PROVE  Max({a, b}) \in {a, b} /\ Max({a, b}) >= a /\ Max({a, b}) >= b
<1>1. \E x \in {a, b} : \A y \in {a, b} : x >= y
  <2>1. CASE a >= b
    BY <2>1
  <2>2. CASE ~(a >= b)
    BY <2>2
  <2> QED BY <2>1, <2>2
<1>2. Max({a, b}) = CHOOSE x \in {a, b} : \A y \in {a, b} : x >= y
  BY Zenon DEF Max
<1> QED BY <1>1, <1>2

LEMMA RequestType ==
  ASSUME NEW c \in Connectors, NEW r, r = Request(c)
  PROVE  r \in Connectors
<1>1. CASE c.phase = "idle"
  <2>1. r = RunReplay([c EXCEPT !.phase = "replay"])
    BY <1>1, Zenon DEF Request
  <2> QED BY <2>1 DEF RunReplay, Connectors
<1>2. CASE c.phase # "idle"
  <2>1. r = [c EXCEPT !.pending = TRUE]
    BY <1>2, Zenon DEF Request
  <2> QED BY <2>1 DEF Connectors
<1> QED BY <1>1, <1>2

LEMMA RunReplayType ==
  ASSUME NEW c \in Connectors
  PROVE  RunReplay(c) \in Connectors
  BY DEF RunReplay, Connectors

LEMMA ResumeType ==
  ASSUME NEW c \in Connectors, NEW since \in Nat, NEW known \in SUBSET Nat,
         NEW r, r = Resume(c, since, known)
  PROVE  r \in Connectors
<1>1. CASE c.active
  <2> DEFINE k == c.known \cup known
             a == IF c.again = 0 THEN since ELSE Min({c.again, since})
  <2>1. r = [c EXCEPT !.known = k, !.again = a]
    BY <1>1, Zenon DEF Resume
  <2>2. c.again \in Nat /\ k \in SUBSET Nat
    BY DEF Connectors
  <2>3. a \in Nat
    <3>1. {c.again, since} \in SUBSET Nat /\ {c.again, since} # {}
      BY <2>2
    <3> QED BY <3>1, MinIsMember
  <2> HIDE DEF k, a
  <2> QED BY <2>1, <2>2, <2>3 DEF Connectors
<1>2. CASE ~c.active
  <2>1. r = [c EXCEPT !.known = known, !.from = since]
    BY <1>2, Zenon DEF Resume
  <2> QED BY <2>1 DEF Connectors
<1> QED BY <1>1, <1>2

LEMMA SentMarkType ==
  ASSUME NEW g \in Gateways, NEW c \in Connectors, NEW r, r = SentMark(g, c)
  PROVE  /\ r \in Ids
         /\ r = NoId \/ \E k \in DOMAIN g.hist : /\ g.hist[k] = r
                                                /\ \A j \in 1 .. k : g.hist[j] \in c.answered
<1> DEFINE open == {j \in DOMAIN g.hist : g.hist[j] \notin c.answered}
           last == IF open = {} THEN Len(g.hist) ELSE Min(open) - 1
<1>1. g.hist \in Seq(Ids)
  BY GatewayFields
<1>2. Len(g.hist) \in Nat /\ DOMAIN g.hist = 1 .. Len(g.hist) /\ \A j \in DOMAIN g.hist : g.hist[j] \in Ids
  BY <1>1
<1>3. last \in 0 .. Len(g.hist) /\ \A j \in 1 .. last : j \in DOMAIN g.hist /\ j \notin open
  <2>1. CASE open = {}
    BY <1>2, <2>1
  <2>2. CASE open # {}
    <3>1. open \in SUBSET Nat
      BY <1>2
    <3>2. Min(open) \in open /\ \A y \in open : Min(open) <= y
      BY <2>2, <3>1, MinIsMember
    <3>3. Min(open) \in 1 .. Len(g.hist)
      BY <1>2, <3>2
    <3> HIDE DEF open
    <3> QED BY <1>2, <2>2, <3>1, <3>2, <3>3
  <2> QED BY <2>1, <2>2
<1>4. r = IF last = 0 THEN NoId ELSE g.hist[last]
  BY Zenon DEF SentMark
<1>5. \A j \in 1 .. last : g.hist[j] \in c.answered
  BY <1>3
<1> HIDE DEF last, open
<1>6. NoId \in Ids
  BY DEF NoId, Ids
<1>7. last # 0 => last \in DOMAIN g.hist
  BY <1>2, <1>3
<1> QED BY <1>2, <1>4, <1>5, <1>6, <1>7

LEMMA CancelsType ==
  ASSUME NEW ids \in SUBSET Ids
  PROVE  Cancels(ids) \in SUBSET Commands /\ \A m \in Cancels(ids) : m.op = "cancel"
  BY DEF Cancels, Commands

\* What the engine makes of a message: it may log an execution.
Handled(e, m, r) ==
  /\ r \in Engines /\ r.epoch = e.epoch /\ r.restored = e.restored /\ r.last = e.last
  /\ Executions(r.log) \subseteq Executions(e.log) \cup (IF m.type = "fill" THEN {m.e} ELSE {})

LEMMA ExecutionsAppend ==
  ASSUME NEW q \in Seq(Nat), NEW x \in Nat
  PROVE  Append(q, x) \in Seq(Nat) /\ Executions(Append(q, x)) \subseteq Executions(q) \cup {x}
  BY RangeAppend DEF Executions

LEMMA AnchorAppend ==
  ASSUME NEW q \in Seq(Nat)
  PROVE  Append(q, 0) \in Seq(Nat) /\ Executions(Append(q, 0)) \subseteq Executions(q)
<1>1. PICK z \in Nat : z = 0
  OBVIOUS
<1>2. Append(q, z) \in Seq(Nat) /\ Executions(Append(q, z)) \subseteq Executions(q) \cup {z}
  BY ExecutionsAppend
<1>3. z \notin Executions(Append(q, z))
  BY <1>1 DEF Executions
<1> QED BY <1>1, <1>2, <1>3

LEMMA HandleFacts ==
  ASSUME NEW e \in Engines, NEW m \in Messages, m.type # "no reader", NEW r, r = Handle(e, m)
  PROVE  Handled(e, m, r)
<1>0. e.log \in Seq(Nat) /\ e.mine \in SUBSET Ids
  BY DEF Engines
<1>1. CASE m.type = "fill"
  <2>1. m.e \in Nat
    BY <1>1, MessageFields
  <2>2. CASE m.e \in Range(e.log)
    <3>1. r = e
      BY <1>1, <2>2 DEF Handle
    <3> QED BY <3>1 DEF Handled
  <2>3. CASE m.e \notin Range(e.log)
    <3> DEFINE l == Append(e.log, m.e)
               n == IF execs[m.e].last THEN e.mine \ {execs[m.e].id} ELSE e.mine
    <3>1. r = [e EXCEPT !.log = l, !.mine = n]
      BY <1>1, <2>3 DEF Handle
    <3>2. l \in Seq(Nat) /\ Executions(l) \subseteq Executions(e.log) \cup {m.e}
      BY <1>0, <2>1, ExecutionsAppend
    <3>3. n \in SUBSET Ids
      BY <1>0
    <3> HIDE DEF l, n
    <3>4. r \in Engines /\ r.epoch = e.epoch /\ r.restored = e.restored /\ r.last = e.last /\ r.log = l
      BY <3>1, <3>2, <3>3 DEF Engines
    <3> QED BY <1>1, <3>2, <3>4 DEF Handled
  <2> QED BY <2>2, <2>3
<1>2. CASE m.type = "ended"
  <2>1. r = [e EXCEPT !.mine = @ \ {m.id}]
    BY <1>2 DEF Handle
  <2>2. r \in Engines /\ r.epoch = e.epoch /\ r.restored = e.restored /\ r.last = e.last /\ r.log = e.log
    BY <2>1 DEF Engines
  <2> QED BY <2>2 DEF Handled
<1>3. CASE m.type = "snapshot"
  <2> DEFINE l == IF 0 \in Range(e.log) THEN e.log ELSE Append(e.log, 0)
             n == {id \in e.mine : id \in m.rows \/ id.n > m.mark.n}
  <2>1. r = [e EXCEPT !.mine = n, !.log = l, !.ready = TRUE]
    BY <1>3 DEF Handle
  <2>2. l \in Seq(Nat) /\ Executions(l) \subseteq Executions(e.log)
    <3>1. Append(e.log, 0) \in Seq(Nat) /\ Executions(Append(e.log, 0)) \subseteq Executions(e.log)
      BY <1>0, AnchorAppend
    <3> QED BY <1>0, <3>1
  <2>3. n \in SUBSET Ids
    BY <1>0
  <2> HIDE DEF l, n
  <2>4. r \in Engines /\ r.epoch = e.epoch /\ r.restored = e.restored /\ r.last = e.last /\ r.log = l
    BY <2>1, <2>2, <2>3 DEF Engines
  <2> QED BY <2>2, <2>4 DEF Handled
<1>4. CASE m.type = "kill"
  <2>1. r = [e EXCEPT !.ready = FALSE]
    BY <1>4 DEF Handle
  <2>2. r \in Engines /\ r.epoch = e.epoch /\ r.restored = e.restored /\ r.last = e.last /\ r.log = e.log
    BY <2>1 DEF Engines
  <2> QED BY <2>2 DEF Handled
<1>5. m.type \in {"fill", "ended", "snapshot", "kill"}
  BY MessageFields
<1> QED BY <1>1, <1>2, <1>3, <1>4, <1>5

LEMMA AnswersType ==
  ASSUME NEW e \in Engines, NEW m \in Messages
  PROVE  Answers(e, m) \in SUBSET Ids
<1>0. e.mine \in SUBSET Ids
  BY DEF Engines
<1>1. CASE m.type = "snapshot"
  <2>1. m.rows \in SUBSET Ids
    BY <1>1, MessageFields
  <2>2. Answers(e, m) = m.rows \ e.mine
    BY <1>1 DEF Answers
  <2> QED BY <2>1, <2>2
<1>2. CASE m.type = "kill"
  <2>1. Answers(e, m) = e.mine
    BY <1>2 DEF Answers
  <2> QED BY <1>0, <2>1
<1>3. CASE m.type \notin {"snapshot", "kill"}
  <2>1. Answers(e, m) = {}
    BY <1>3 DEF Answers
  <2> QED BY <2>1
<1> QED BY <1>1, <1>2, <1>3

LEMMA MinOfPair ==
  ASSUME NEW a \in Int, NEW b \in Int
  PROVE  Min({a, b}) \in {a, b}
<1>1. \E x \in {a, b} : \A y \in {a, b} : x <= y
  <2>1. CASE a <= b
    BY <2>1
  <2>2. CASE ~(a <= b)
    BY <2>2
  <2> QED BY <2>1, <2>2
<1>2. Min({a, b}) = CHOOSE x \in {a, b} : \A y \in {a, b} : x <= y
  BY Zenon DEF Min
<1> QED BY <1>1, <1>2

LEMMA SavedFacts ==
  ASSUME NEW n \in Nat, NEW st \in Stores, st.held \subseteq 1 .. n, NEW log \in Seq(Nat),
         Executions(log) \subseteq 1 .. n, NEW start \in Nat, NEW clean,
         NEW r, r = Saved(st, start, log, clean)
  PROVE  r \in Stores /\ r.held = st.held \cup Executions(log)
<1> DEFINE new == Executions(log)
           held == st.held \cup new
           past == 0 \in Range(log)
           loose == IF new = {} THEN st.loose
                    ELSE IF st.loose = 0 THEN Max(new) ELSE Min({st.loose, Max(new)})
           upTo == Max(new \cup {IF clean THEN start - 1 ELSE 0})
           w == IF past THEN Max(held \cup {0}) ELSE st.whole
           l == IF past THEN 0 ELSE loose
           a == st.anchored \/ past
           f == IF st.first = 0 THEN start ELSE st.first
           c == IF clean THEN start ELSE st.clean
           p == (st.passed \cup 1 .. upTo) \ held
<1>0. r = [held |-> held, whole |-> w, loose |-> l, anchored |-> a, first |-> f, clean |-> c,
           passed |-> p]
  BY Zenon DEF Saved
<1>1. /\ held \in SUBSET Nat /\ held \cup {0} \in SUBSET (0 .. n) /\ held \cup {0} # {}
      /\ new \in SUBSET (0 .. n) /\ new \in SUBSET Nat
  BY DEF Stores
<1>m. ASSUME NEW s \in SUBSET (0 .. n), s # {} PROVE Max(s) \in Nat
  <2>1. Max(s) \in s
    BY <1>m, MaxIsMember
  <2>2. Max(s) \in 0 .. n
    BY <2>1
  <2> QED BY <2>2
<1>2. Max(held \cup {0}) \in Nat
  <2> HIDE DEF held
  <2> QED BY <1>1, <1>m
<1>3. new # {} => Max(new) \in Nat
  <2> HIDE DEF new
  <2> QED BY <1>1, <1>m
<1>4. /\ st.loose \in Nat /\ st.whole \in Nat /\ st.anchored \in BOOLEAN /\ st.first \in Nat
      /\ st.clean \in Nat /\ st.passed \in SUBSET Nat
  BY DEF Stores
<1> HIDE DEF held, new, past
<1>5. w \in Nat /\ f \in Nat /\ c \in Nat
  BY <1>2, <1>4
<1>6. l \in Nat
  <2>1. CASE new = {}
    BY <1>4, <2>1
  <2>2. CASE new # {}
    <3>1. {st.loose, Max(new)} \in SUBSET Nat /\ {st.loose, Max(new)} # {} /\ Max(new) \in Nat
      BY <1>3, <1>4, <2>2
    <3>2. Min({st.loose, Max(new)}) \in Nat
      BY <3>1, MinIsMember
    <3> QED BY <1>4, <3>1, <3>2
  <2> QED BY <2>1, <2>2
<1>7. a \in BOOLEAN
  BY <1>4, Zenon DEF past
<1>8. p \in SUBSET Nat
  <2> HIDE DEF upTo
  <2>1. 1 .. upTo \in SUBSET Nat
    OBVIOUS
  <2> QED BY <1>4, <2>1, Zenon
<1> HIDE DEF w, l, a, f, c, p
<1>9. r \in Stores /\ r.held = held
  BY <1>0, <1>1, <1>5, <1>6, <1>7, <1>8 DEF Stores
<1> QED BY <1>9 DEF held, new

LEMMA SinceType ==
  ASSUME NEW st \in Stores
  PROVE  Since(st) \in Nat
<1> DEFINE last == {st.whole, st.loose} \ {0}
           w == Min(last) - Overlap
<1>1. last \in SUBSET Nat /\ st.clean \in Nat /\ st.first \in Nat /\ Overlap \in Nat /\ Fallback \in Nat
  BY GatewayAssumption DEF Stores
<1>2. ASSUME NEW b \in Int PROVE Max({1, b}) \in Nat
  <2>1. Max({1, b}) \in {1, b} /\ Max({1, b}) >= 1
    BY MaxOfPair
  <2> QED BY <2>1
<1>3. UnbookedSince(st) \in Nat
  <2>1. PICK b \in Int : b = (IF st.clean > 0 THEN st.clean ELSE st.first) - Fallback
    BY <1>1
  <2>2. UnbookedSince(st) = Max({1, b})
    BY <2>1 DEF UnbookedSince
  <2> QED BY <1>2, <2>2
<1>4. CASE last = {}
  <2>1. Since(st) = UnbookedSince(st)
    BY <1>4, Zenon DEF Since
  <2> QED BY <1>3, <2>1
<1>5. CASE last # {}
  <2>1. Min(last) \in Nat
    BY <1>1, <1>5, MinIsMember
  <2>2. Since(st) \in {Max({1, w}), Max({1, Min({w, UnbookedSince(st)})})}
    BY <1>5, Zenon DEF Since
  <2> HIDE DEF last
  <2>3. w \in Int
    BY <1>1, <2>1
  <2> HIDE DEF w
  <2>4. UnbookedSince(st) \in Int
    BY <1>3
  <2>5. Min({w, UnbookedSince(st)}) \in Int
    BY <2>3, <2>4, MinOfPair
  <2>6. Max({1, w}) \in Nat
    BY <1>2, <2>3
  <2>7. Max({1, Min({w, UnbookedSince(st)})}) \in Nat
    BY <1>2, <2>5
  <2> QED BY <2>2, <2>6, <2>7
<1> QED BY <1>4, <1>5

LEMMA PrefixExecutions ==
  ASSUME NEW q \in Seq(Nat), NEW k \in 0 .. Len(q)
  PROVE  SubSeq(q, 1, k) \in Seq(Nat) /\ Executions(SubSeq(q, 1, k)) \subseteq Executions(q)
<1> DEFINE p == SubSeq(q, 1, k)
<1>1. p \in Seq(Nat) /\ Len(p) = k /\ \A i \in 1 .. k : p[i] = q[i]
  OBVIOUS
<1>2. DOMAIN p = 1 .. k /\ DOMAIN q = 1 .. Len(q) /\ Len(q) \in Nat
  BY <1>1
<1> HIDE DEF p
<1>3. Range(p) \subseteq Range(q)
  BY <1>1, <1>2 DEF Range
<1> QED BY <1>1, <1>3 DEF Executions, p

-----------------------------------------------------------------------------
(***************************************************************************)
(* Steps that bring no execution any further.                              *)
(***************************************************************************)

\* A step after which executions have reached no more places than before, except that they move
\* on from a ring to a log and from a log to a store.
Shrinks ==
  /\ sessions' = sessions /\ execs' = execs /\ Running'
  /\ \A s \in Strats :
       /\ proc'[s] => proc[s]
       /\ Reached(s)' \subseteq Reached(s)
       /\ eng'[s].restored \subseteq eng[s].restored
       /\ (Executions(eng[s].log) \cup FillsOf(gw.ring[s]))'
            \subseteq Executions(eng[s].log) \cup FillsOf(gw.ring[s])
       /\ gw'.route[s] # NoRoute => /\ gw.route[s] # NoRoute /\ SameRoute(gw.route[s], gw'.route[s])
                                    /\ s \in gw'.seeded
       /\ gw'.seed[s] = gw.seed[s] \/ gw'.seed[s].held = {}
  /\ gw'.booked \subseteq gw.booked /\ (gw'.booked = {} \/ gw'.seeded = gw.seeded)
  /\ Range(gw'.parked) \subseteq Range(gw.parked)
  /\ FillsOf(stream') \subseteq FillsOf(stream) /\ OneCopy(stream')
  /\ \A id \in resting' \cup NewOnWire' : id.epoch \in DOMAIN sessions

LEMMA BookingsShrink ==
  ASSUME TypeOK, Bookings, Shrinks
  PROVE  Bookings'
<1>0. /\ sessions' = sessions /\ execs' = execs /\ Running'
      /\ \A s \in Strats : Reached(s)' \subseteq Reached(s)
  BY DEF Shrinks
<1>t. \A e : Trader(e)' = Trader(e)
  BY <1>0 DEF Trader
<1>1. Routed'
  <2>1. ASSUME NEW s \in Strats, gw'.route[s] # NoRoute
        PROVE  s \in gw'.seeded /\ gw'.route[s].epoch \in DOMAIN sessions'
    <3>1. gw.route[s] # NoRoute /\ SameRoute(gw.route[s], gw'.route[s]) /\ s \in gw'.seeded
      BY <2>1 DEF Shrinks
    <3>2. gw.route[s].epoch \in DOMAIN sessions
      BY <3>1 DEF Bookings, Routed, Attached
    <3> QED BY <1>0, <3>1, <3>2 DEF SameRoute
  <2> QED BY <2>1 DEF Routed, Attached
<1>2. IdsKnown'
  BY <1>0 DEF Shrinks, Bookings, IdsKnown
<1>3. ExecsKnown'
  <2>1. ASSUME NEW s \in Strats, NEW e \in Reached(s)' PROVE e \in DOMAIN execs' /\ Trader(e)' = s
    BY <1>0, <1>t DEF Bookings, ExecsKnown
  <2>2. ASSUME NEW m \in Range(gw'.parked) PROVE m.e \in DOMAIN execs'
    BY <1>0 DEF Bookings, ExecsKnown, Shrinks
  <2>3. FillsOf(stream)' \subseteq DOMAIN execs'
    BY <1>0 DEF Bookings, ExecsKnown, Shrinks, FillsOf
  <2>4. ASSUME NEW e \in gw'.booked PROVE e \in DOMAIN execs' /\ Trader(e)' \in gw'.seeded
    BY <1>0, <1>t DEF Bookings, ExecsKnown, Shrinks
  <2> QED BY <2>1, <2>2, <2>3, <2>4 DEF ExecsKnown
<1>o. OneCopy(stream)'
  BY DEF Shrinks, OneCopy
<1>4. ASSUME ~Lagging PROVE FirstCopies'
  <2>l. FirstCopies
    BY <1>4 DEF Bookings
  <2>1. ASSUME NEW s \in Strats PROVE FillsOf(stream)' \cap Reached(s)' = {}
    BY <1>0, <2>l DEF FirstCopies, Shrinks, FillsOf
  <2>3. ASSUME NEW m \in Range(gw'.parked) PROVE m.e \notin FillsOf(stream)'
    BY <2>l DEF FirstCopies, Shrinks, FillsOf
  <2> QED BY <2>1, <2>3 DEF FirstCopies
<1>5. ASSUME ~Lagging PROVE ParkedWait'
  <2>1. ASSUME NEW m \in Range(gw'.parked)
        PROVE  /\ gw'.route[Trader(m.e)] = NoRoute \/ Trader(m.e) \notin Strats
               /\ ~m.replayed => \A s \in Strats : m.e \notin Reached(s)'
    <3>1. m \in Range(gw.parked)
      BY DEF Shrinks
    <3>2. Trader(m.e) \notin Attached(gw) /\ (~m.replayed => \A s \in Strats : m.e \notin Reached(s))
      BY <1>5, <3>1 DEF Bookings, ParkedWait
    <3> QED BY <1>0, <3>2 DEF Shrinks, Attached
  <2> QED BY <1>t, <2>1 DEF ParkedWait, Attached
<1>6. ASSUME ~Lagging PROVE NotTwice'
  <2> SUFFICES ASSUME NEW s \in Strats
               PROVE  /\ (eng[s].restored \cap (Executions(eng[s].log) \cup FillsOf(gw.ring[s])))' = {}
                      /\ proc'[s] /\ gw'.route[s] # NoRoute =>
                           \A e \in eng'[s].restored :
                             HeldBy(gw'.route[s], e) /\ execs'[e].id.epoch # gw'.route[s].epoch
                      /\ \A e \in gw'.seed[s].held : HeldBy(gw'.seed[s], e) /\ e \notin gw'.booked
    BY DEF NotTwice, Attached, HeldBy
  <2>1. /\ eng[s].restored \cap (Executions(eng[s].log) \cup FillsOf(gw.ring[s])) = {}
        /\ proc[s] /\ gw.route[s] # NoRoute =>
             \A e \in eng[s].restored :
               HeldBy(gw.route[s], e) /\ execs[e].id.epoch # gw.route[s].epoch
        /\ \A e \in gw.seed[s].held : HeldBy(gw.seed[s], e) /\ e \notin gw.booked
    BY <1>6 DEF Bookings, NotTwice, Attached
  <2>2. (eng[s].restored \cap (Executions(eng[s].log) \cup FillsOf(gw.ring[s])))' = {}
    BY <2>1 DEF Shrinks
  <2>3. ASSUME proc'[s], gw'.route[s] # NoRoute, NEW e \in eng'[s].restored
        PROVE  HeldBy(gw'.route[s], e) /\ execs'[e].id.epoch # gw'.route[s].epoch
    <3>1. /\ proc[s] /\ gw.route[s] # NoRoute /\ SameRoute(gw.route[s], gw'.route[s])
          /\ e \in eng[s].restored
      BY <2>3 DEF Shrinks
    <3> QED BY <1>0, <2>1, <3>1 DEF SameRoute, HeldBy
  <2>4. ASSUME NEW e \in gw'.seed[s].held PROVE HeldBy(gw'.seed[s], e) /\ e \notin gw'.booked
    BY <2>1 DEF Shrinks
  <2> QED BY <2>2, <2>3, <2>4
<1> QED BY <1>0, <1>1, <1>2, <1>3, <1>o, <1>4, <1>5, <1>6 DEF Bookings

\* The engines keep what was booked.
EnginesKept ==
  \A s \in Strats : /\ eng'[s].epoch = eng[s].epoch /\ eng'[s].restored = eng[s].restored
                    /\ eng'[s].log = eng[s].log /\ (~proc[s] => eng'[s] = eng[s])

LEMMA MovesShrink ==
  ASSUME TypeOK, Bookings, Moves(gw, gw', {}), EnginesKept,
         proc' = proc, store' = store, sessions' = sessions, execs' = execs,
         FillsOf(stream') \subseteq FillsOf(stream), OneCopy(stream'),
         \A id \in resting' \cup NewOnWire' : id.epoch \in DOMAIN sessions
  PROVE  Bookings'
<1>1. ASSUME NEW s \in Strats PROVE FillsOf(gw.ring[s])' \subseteq FillsOf(gw.ring[s])
  <2>1. ASSUME NEW x \in Range(gw'.ring[s]), x.type = "fill" PROVE x \in Range(gw.ring[s])
    BY <2>1 DEF Moves, Pushed
  <2> QED BY <2>1 DEF FillsOf
<1>2. gw'.seed = gw.seed /\ gw'.seeded = gw.seeded
  BY DEF Moves
<1>3. ASSUME NEW s \in Strats PROVE Reached(s)' \subseteq Reached(s)
  <2>1. /\ store'[s].held = store[s].held /\ Executions(eng[s].log)' = Executions(eng[s].log)
        /\ eng'[s].restored = eng[s].restored /\ gw'.seed[s].held = gw.seed[s].held
    BY <1>2 DEF EnginesKept, Executions
  <2> QED BY <1>1, <2>1 DEF Reached
<1>4. Running'
  <2> SUFFICES ASSUME NEW s \in Strats
               PROVE  /\ proc'[s] => /\ eng'[s].epoch \in DOMAIN sessions'
                                     /\ \A x \in Range(gw'.ring[s]) : x.type # "no reader"
                      /\ ~proc'[s] => eng'[s] = NewEngine /\ gw'.ring[s] = NoReader
    BY DEF Running, NewEngine, NoReader
  <2>1. /\ proc[s] => /\ eng[s].epoch \in DOMAIN sessions
                      /\ \A x \in Range(gw.ring[s]) : x.type # "no reader"
        /\ ~proc[s] => eng[s] = NewEngine /\ gw.ring[s] = NoReader
    BY DEF Bookings, Running
  <2>2. /\ gw.ring[s] = NoReader => gw'.ring[s] = NoReader
        /\ \A x \in Range(gw'.ring[s]) : x \in Range(gw.ring[s]) \/ x.type # "no reader"
    BY DEF Moves
  <2> QED BY <2>1, <2>2 DEF EnginesKept
<1>5. ASSUME NEW s \in Strats
      PROVE  /\ proc'[s] => proc[s]
             /\ Reached(s)' \subseteq Reached(s)
             /\ eng'[s].restored \subseteq eng[s].restored
             /\ (Executions(eng[s].log) \cup FillsOf(gw.ring[s]))'
                  \subseteq Executions(eng[s].log) \cup FillsOf(gw.ring[s])
             /\ gw'.route[s] # NoRoute => /\ gw.route[s] # NoRoute /\ SameRoute(gw.route[s], gw'.route[s])
                                          /\ s \in gw'.seeded
             /\ gw'.seed[s] = gw.seed[s]
  <2>1. Executions(eng[s].log)' = Executions(eng[s].log) /\ eng'[s].restored = eng[s].restored
    BY DEF EnginesKept, Executions
  <2>2. SameRoute(gw.route[s], gw'.route[s])
    BY DEF Moves
  <2>3. gw.route[s] # NoRoute => s \in gw.seeded
    BY DEF Bookings, Routed, Attached
  <2> QED BY <1>1, <1>2, <1>3, <2>1, <2>2, <2>3 DEF SameRoute
<1>6. gw'.booked \subseteq gw.booked /\ Range(gw'.parked) \subseteq Range(gw.parked)
  BY DEF Moves, Booked
<1>7. Shrinks
  BY <1>2, <1>4, <1>5, <1>6 DEF Shrinks
<1> QED BY <1>7, BookingsShrink

LEMMA TypeFacts ==
  ASSUME TypeOK, Bookings
  PROVE  /\ Traded /\ gw \in Gateways /\ conn \in Connectors
         /\ Attached(gw) \subseteq gw.seeded /\ Attached(gw) \subseteq Strats
         /\ \A s \in Attached(gw) : gw.route[s].epoch # 0
         /\ OneCopy(stream) /\ \A id \in resting \cup NewOnWire : id.epoch \in DOMAIN sessions
<1>1. Traded
  BY DEF TypeOK, Bookings, IdsKnown, Traded
<1>2. \A s \in Attached(gw) : s \in gw.seeded /\ gw.route[s].epoch # 0
  <2>1. 0 \notin DOMAIN sessions
    BY DEF TypeOK
  <2> QED BY <2>1 DEF Bookings, Routed
<1>3. OneCopy(stream) /\ \A id \in resting \cup NewOnWire : id.epoch \in DOMAIN sessions
  BY DEF Bookings, IdsKnown
<1> QED BY <1>1, <1>2, <1>3 DEF TypeOK, Attached

LEMMA SpendType ==
  ASSUME left \in Budgets, NEW k \in {"order", "fill", "request", "fault"}, Spend(k)
  PROVE  left' \in Budgets
<1>1. CASE k = "order"
  BY <1>1 DEF Spend, Budgets
<1>2. CASE k = "fill"
  BY <1>2 DEF Spend, Budgets
<1>3. CASE k = "request"
  BY <1>3 DEF Spend, Budgets
<1>4. CASE k = "fault"
  BY <1>4 DEF Spend, Budgets
<1> QED BY <1>1, <1>2, <1>3, <1>4

\* Both parts of the induction step.
Stays == TypeOK' /\ Bookings'

\* A cancel is no new order.
LEMMA CancelsAreNotNew ==
  ASSUME NEW ids \in SUBSET Ids, wire \in SUBSET Commands, wire' = wire \cup Cancels(ids)
  PROVE  wire' \in SUBSET Commands /\ NewOnWire' = NewOnWire
<1>1. wire' \in SUBSET Commands /\ \A m \in wire' : m.op = "new" => m \in wire
  BY CancelsType
<1> QED BY <1>1 DEF NewOnWire

LEMMA RouteQuiet ==
  ASSUME NEW g \in Gateways, wire \in SUBSET Commands, Route(g)
  PROVE  Quiet(g, gw') /\ wire' \in SUBSET Commands /\ NewOnWire' = NewOnWire
<1>1. g.cancels \in SUBSET Ids
  BY GatewayFields
<1>2. wire' \in SUBSET Commands /\ NewOnWire' = NewOnWire
  BY <1>1, CancelsAreNotNew DEF Route
<1>3. PICK h : h = gw'
  OBVIOUS
<1>4. h = [g EXCEPT !.cancels = {}]
  BY <1>3 DEF Route
<1>5. OnlyOrders(g, h)
  BY <1>4 DEF OnlyOrders, Gateways
<1> QED BY <1>2, <1>3, <1>5, OnlyOrdersQuiet

-----------------------------------------------------------------------------
(***************************************************************************)
(* What each step does to the router and to the commands on the wire.      *)
(***************************************************************************)

LEMMA RouteEndQuiet ==
  ASSUME TypeOK, Bookings, NEW id \in Ids, NEW r, r = RouteEnd(gw, id)
  PROVE  Quiet(gw, r)
<1>1. PICK h : h = Untrack(gw, {id})
  OBVIOUS
<1>2. Quiet(gw, h) /\ h \in Gateways
  BY <1>1, UntrackQuiet, TypeFacts DEF Quiet
<1> DEFINE m == [type |-> "ended", id |-> id]
<1>3. m \in Messages /\ m.type = "ended"
  BY DEF Messages
<1>4. r = RouteById(h, id, m)
  BY <1>1, Zenon DEF RouteEnd
<1> HIDE DEF m
<1>5. CASE Live(h, id)
  <2>1. r = Push(h, sessions[id.epoch], m)
    BY <1>4, <1>5, Zenon DEF RouteById
  <2>2. PICK s \in Attached(h) : h.route[s].epoch = id.epoch
    BY <1>5 DEF Live
  <2>3. s \in Attached(gw) /\ gw.route[s].epoch = id.epoch
    BY <1>2, <2>2 DEF Quiet, SameRoute, Attached
  <2>4. sessions[id.epoch] \in Strats
    BY <2>3 DEF Bookings, Routed, TypeOK
  <2>5. Quiet(h, r)
    BY <1>2, <1>3, <2>1, <2>4, PushQuiet
  <2> QED BY <1>2, <2>5, QuietTransitive
<1>6. CASE ~Live(h, id)
  BY <1>2, <1>4, <1>6 DEF RouteById
<1> QED BY <1>5, <1>6

LEMMA RouteAckQuiet ==
  ASSUME NEW g \in Gateways, NEW id \in Ids, NEW r, r = RouteAck(g, id)
  PROVE  Quiet(g, r)
<1>1. r = g \/ r = QueueCancels(g, {id})
  BY Zenon DEF RouteAck
<1>2. {id} \in SUBSET Ids
  OBVIOUS
<1> QED BY <1>1, <1>2, QuietSelf, QueueCancelsQuiet

LEMMA AskReconcileQuiet ==
  ASSUME TypeOK, Bookings, NEW s \in Strats, AskReconcile(s)
  PROVE  Quiet(gw, gw')
<1>1. PICK r : r = gw'
  OBVIOUS
<1> DEFINE q == [gw.route[s] EXCEPT !.snap = TRUE]
           w == [gw.route EXCEPT ![s] = q]
<1>2. gw \in Gateways /\ gw.route[s] # NoRoute
  BY TypeFacts DEF AskReconcile, Attached
<1>3. gw.route \in [Strats -> Routes] /\ gw.route[s] \in Routes
  BY <1>2, GatewayFields
<1>4. r = [gw EXCEPT !.route = w]
  BY <1>1, <1>2, <1>3 DEF AskReconcile, Gateways
<1>5. /\ q \in Routes /\ q.epoch = gw.route[s].epoch /\ q.from = gw.route[s].from
      /\ q.known = gw.route[s].known /\ q.snap = TRUE
  BY <1>3 DEF Routes
<1> HIDE DEF q
<1>6. q # NoRoute
  BY <1>5 DEF NoRoute
<1>7. w \in [Strats -> Routes] /\ w[s] = q /\ \A t \in Strats \ {s} : w[t] = gw.route[t]
  BY <1>3, <1>5
<1> HIDE DEF w
<1>8. /\ r \in Gateways /\ r.ring = gw.ring /\ r.seeded = gw.seeded /\ r.seed = gw.seed
      /\ r.booked = gw.booked /\ r.parked = gw.parked /\ r.hist = gw.hist /\ r.route = w
  BY <1>2, <1>4, <1>7 DEF Gateways
<1>9. ASSUME NEW t \in Strats PROVE SameRoute(gw.route[t], r.route[t])
  BY <1>2, <1>5, <1>6, <1>7, <1>8 DEF SameRoute
<1> QED BY <1>1, <1>8, <1>9 DEF Quiet

LEMMA KillVenueQuiet ==
  ASSUME TypeOK, Bookings, KillVenue
  PROVE  Quiet(gw, gw') /\ wire' \in SUBSET Commands /\ NewOnWire' = NewOnWire
<1> DEFINE known == {id \in DOMAIN gw.orders : ~CancelSent(gw, id)}
           msg == [s \in Strats |-> [type |-> "kill"]]
<1>1. gw \in Gateways /\ Attached(gw) \in SUBSET Strats /\ wire \in SUBSET Commands
  BY TypeFacts DEF TypeOK
<1>2. PICK g : g = PushAll(gw, Attached(gw), msg)
  OBVIOUS
<1>3. PICK h : h = [g EXCEPT !.killed = TRUE, !.sweep = TRUE]
  OBVIOUS
<1>4. PICK k : k = QueueCancels(h, known)
  OBVIOUS
<1>5. Route(k)
  BY <1>2, <1>3, <1>4 DEF KillVenue
<1>6. known \in SUBSET Ids
  <2>1. gw.orders \in Orders
    BY <1>1, GatewayFields
  <2> QED BY <2>1, OrdersFacts
<1> HIDE DEF known
<1>7. \A s \in Strats : msg[s] \in Messages /\ msg[s].type = "kill"
  BY DEF Messages
<1> HIDE DEF msg
<1>8. RingsGrow(gw, g, Attached(gw), msg)
  BY <1>1, <1>2, <1>7, PushAllFacts
<1>9. Quiet(gw, g) /\ g \in Gateways
  BY <1>7, <1>8 DEF RingsGrow, Quiet, SameRoute
<1>10. OnlyOrders(g, h)
  BY <1>3, <1>9 DEF OnlyOrders, Gateways
<1>11. Quiet(g, h) /\ h \in Gateways
  BY <1>10, OnlyOrdersQuiet DEF OnlyOrders
<1>12. Quiet(h, k) /\ k \in Gateways
  BY <1>4, <1>6, <1>11, QueueCancelsQuiet DEF Quiet
<1>13. Quiet(k, gw') /\ wire' \in SUBSET Commands /\ NewOnWire' = NewOnWire
  BY <1>1, <1>5, <1>12, RouteQuiet
<1> QED BY <1>9, <1>11, <1>12, <1>13, QuietTransitive

LEMMA OnResponseQuiet ==
  ASSUME TypeOK, Bookings, OnResponse
  PROVE  /\ Quiet(gw, gw') /\ wire' \in SUBSET Commands /\ NewOnWire' = NewOnWire
         /\ conn' \in Connectors
<1>1. gw \in Gateways /\ wire \in SUBSET Commands /\ conn \in Connectors
  BY DEF TypeOK
<1>2. PICK m : m = Head(resp)
  OBVIOUS
<1>3. m \in Responses
  <2>1. resp \in Seq(Responses) /\ resp # <<>>
    BY DEF TypeOK, OnResponse
  <2> QED BY <1>2, <2>1, RangeTail
<1>4. m.id \in Ids
  BY <1>3 DEF Responses
<1>5. CASE m.type = "ack" /\ Route(RouteAck(gw, m.id)) /\ conn' = [conn EXCEPT !.answered = @ \cup {m.id}]
  <2>1. PICK r : r = RouteAck(gw, m.id)
    OBVIOUS
  <2>2. Quiet(gw, r) /\ r \in Gateways
    BY <1>1, <1>4, <2>1, RouteAckQuiet DEF Quiet
  <2>3. Quiet(r, gw') /\ wire' \in SUBSET Commands /\ NewOnWire' = NewOnWire
    BY <1>1, <1>5, <2>1, <2>2, RouteQuiet
  <2>4. conn' \in Connectors
    BY <1>1, <1>4, <1>5 DEF Connectors
  <2> QED BY <2>2, <2>3, <2>4, QuietTransitive
<1>6. CASE Route(RouteEnd(gw, m.id)) /\ conn' = conn
  <2>1. PICK r : r = RouteEnd(gw, m.id)
    OBVIOUS
  <2>2. Quiet(gw, r) /\ r \in Gateways
    BY <1>4, <2>1, RouteEndQuiet DEF Quiet
  <2>3. Quiet(r, gw') /\ wire' \in SUBSET Commands /\ NewOnWire' = NewOnWire
    BY <1>1, <1>6, <2>1, <2>2, RouteQuiet
  <2> QED BY <1>1, <1>6, <2>2, <2>3, QuietTransitive
<1> QED BY <1>2, <1>5, <1>6 DEF OnResponse

\* A new order is sent, or refused.
Forwarded(s, id) ==
  /\ Moves(gw, gw', {}) /\ gw' \in Gateways /\ wire' \in SUBSET Commands
  /\ \A t \in Strats : \A x \in Range(gw'.ring[t]) : x.type = "snapshot" => x \in Range(gw.ring[t])
  /\ \/ gw'.hist = gw.hist /\ wire' = wire
     \/ gw'.hist = Append(gw.hist, id) /\ wire' = wire \cup {[op |-> "new", id |-> id]}

LEMMA ForwardFacts ==
  ASSUME TypeOK, Bookings, NEW s \in Strats, NEW id \in Ids, ForwardNew(s, id)
  PROVE  Forwarded(s, id)
<1>1. gw \in Gateways /\ wire \in SUBSET Commands
  BY DEF TypeOK
<1>2. CASE gw' = gw /\ wire' = wire
  <2>1. Moves(gw, gw', {})
    BY <1>1, <1>2, MovesSelf
  <2> QED BY <1>1, <1>2, <2>1 DEF Forwarded
<1>3. CASE gw' = Push(gw, s, [type |-> "ended", id |-> id]) /\ wire' = wire
  <2> DEFINE m == [type |-> "ended", id |-> id]
  <2>1. m \in Messages /\ m.type = "ended"
    BY DEF Messages
  <2> HIDE DEF m
  <2>2. PICK r : r = gw'
    OBVIOUS
  <2>3. r = Push(gw, s, m)
    BY <1>3, <2>2 DEF m
  <2>4. Quiet(gw, r)
    BY <1>1, <2>1, <2>3, PushQuiet
  <2>5. Moves(gw, r, {}) /\ Silent(gw, r)
    BY <2>4, QuietMoves
  <2> QED BY <1>1, <1>3, <2>2, <2>5 DEF Forwarded, Silent, Moves
<1>4. CASE /\ gw' = [gw EXCEPT !.hist = Append(@, id),
                               !.orders = [x \in DOMAIN @ \cup {id} |->
                                             IF x \in DOMAIN @ THEN @[x]
                                             ELSE [cancelled |-> FALSE, g |-> Len(gw.hist) + 1]]]
           /\ wire' = wire \cup {[op |-> "new", id |-> id]}
  <2> DEFINE h == Append(gw.hist, id)
             x == [cancelled |-> FALSE, g |-> Len(gw.hist) + 1]
             o == [y \in DOMAIN gw.orders \cup {id} |->
                     IF y \in DOMAIN gw.orders THEN gw.orders[y] ELSE x]
  <2>1. PICK r : r = gw'
    OBVIOUS
  <2>2. r = [gw EXCEPT !.hist = h, !.orders = o]
    BY <1>4, <2>1
  <2>3. gw.hist \in Seq(Ids) /\ gw.orders \in Orders
    BY <1>1, GatewayFields
  <2>4. h \in Seq(Ids) /\ Len(gw.hist) \in Nat
    BY <2>3
  <2>5. x \in OrderEntries
    BY <2>4 DEF OrderEntries
  <2> HIDE DEF x, h
  <2>6. o \in Orders
    <3>2. DOMAIN gw.orders \in SUBSET Ids /\ \A y \in DOMAIN gw.orders : gw.orders[y] \in OrderEntries
      BY <2>3, OrdersFacts
    <3>3. /\ DOMAIN o \in SUBSET Ids /\ o = [y \in DOMAIN o |-> o[y]]
          /\ \A y \in DOMAIN o : o[y] \in OrderEntries
      BY <2>5, <3>2
    <3> HIDE DEF o
    <3> QED BY <3>3, OrdersFacts
  <2> HIDE DEF o
  <2>7. /\ r \in Gateways /\ r.route = gw.route /\ r.ring = gw.ring /\ r.seeded = gw.seeded
        /\ r.seed = gw.seed /\ r.booked = gw.booked /\ r.parked = gw.parked /\ r.hist = h
    BY <1>1, <2>2, <2>4, <2>6 DEF Gateways
  <2>8. Moves(gw, r, {})
    BY <2>7 DEF Moves, SameRoute
  <2>9. wire' \in SUBSET Commands
    BY <1>1, <1>4 DEF Commands
  <2> QED BY <1>4, <2>1, <2>7, <2>8, <2>9 DEF Forwarded, h
<1> QED BY <1>2, <1>3, <1>4 DEF ForwardNew

-----------------------------------------------------------------------------
(***************************************************************************)
(* The steps, one by one.                                                  *)
(***************************************************************************)

LEMMA SameEngines ==
  ASSUME eng' = eng
  PROVE  EnginesKept
  BY DEF EnginesKept

LEMMA SubmitStays ==
  ASSUME TypeOK, Bookings, NEW s \in Strats, Submit(s)
  PROVE  Stays
<1> DEFINE id == [epoch |-> eng[s].epoch, n |-> eng[s].last + 1]
           l == eng[s].last + 1
           m == eng[s].mine \cup {id}
           x == [eng[s] EXCEPT !.last = l, !.mine = m]
<1>1. eng \in [Strats -> Engines] /\ eng[s] \in Engines
  BY DEF TypeOK
<1>2. id \in Ids /\ id.epoch = eng[s].epoch
  BY <1>1 DEF Ids, Engines
<1>3. eng' = [eng EXCEPT ![s] = x] /\ ForwardNew(s, id)
  BY <1>1 DEF Submit
<1>l. l \in Nat /\ m \in SUBSET Ids
  BY <1>1, <1>2 DEF Engines
<1> HIDE DEF id, l, m
<1>4. /\ x \in Engines /\ x.epoch = eng[s].epoch /\ x.restored = eng[s].restored
      /\ x.log = eng[s].log
  BY <1>1, <1>l DEF Engines
<1> HIDE DEF x
<1>5. eng' \in [Strats -> Engines] /\ eng'[s] = x /\ \A t \in Strats \ {s} : eng'[t] = eng[t]
  BY <1>1, <1>3, <1>4
<1>6. proc[s] /\ eng[s].epoch \in DOMAIN sessions
  BY DEF Submit, Bookings, Running
<1>7. EnginesKept
  BY <1>4, <1>5, <1>6 DEF EnginesKept
<1>8. Forwarded(s, id)
  BY <1>2, <1>3, ForwardFacts
<1>9. ASSUME NEW i \in resting' \cup NewOnWire' PROVE i.epoch \in DOMAIN sessions
  <2>1. resting' = resting
    BY DEF Submit
  <2>2. NewOnWire' \subseteq NewOnWire \cup {id}
    BY <1>8 DEF Forwarded, NewOnWire
  <2>3. \A j \in resting \cup NewOnWire : j.epoch \in DOMAIN sessions
    BY TypeFacts
  <2> QED BY <1>2, <1>6, <2>1, <2>2, <2>3
<1>10. TypeOK'
  <2>1. left' \in Budgets
    BY SpendType DEF Submit, TypeOK
  <2> QED BY <1>5, <1>8, <2>1 DEF Submit, TypeOK, Forwarded
<1>11. Bookings'
  <2>1. /\ proc' = proc /\ store' = store /\ sessions' = sessions /\ execs' = execs
        /\ stream' = stream
    BY DEF Submit
  <2>2. Moves(gw, gw', {}) /\ OneCopy(stream') /\ FillsOf(stream') \subseteq FillsOf(stream)
    BY <1>8, <2>1, TypeFacts DEF Forwarded
  <2> QED BY <1>7, <1>9, <2>1, <2>2, MovesShrink
<1> QED BY <1>10, <1>11 DEF Stays

\* A step of the router and the wire that sends no new order and carries no execution.
QuietStep ==
  /\ Moves(gw, gw', {}) /\ wire' \in SUBSET Commands /\ NewOnWire' = NewOnWire
  /\ resting' = resting /\ stream' = stream
  /\ proc' = proc /\ eng' = eng /\ store' = store /\ sessions' = sessions /\ execs' = execs
  /\ conn' \in Connectors /\ resp' \in Seq(Responses) /\ tripped' \in BOOLEAN /\ left' \in Budgets

LEMMA QuietStays ==
  ASSUME TypeOK, Bookings, QuietStep
  PROVE  Stays
<1>1. TypeOK'
  BY DEF QuietStep, TypeOK, Moves
<1>2. Bookings'
  <2>1. EnginesKept
    BY SameEngines DEF QuietStep
  <2>2. \A id \in resting' \cup NewOnWire' : id.epoch \in DOMAIN sessions
    BY TypeFacts DEF QuietStep
  <2>3. OneCopy(stream') /\ FillsOf(stream') \subseteq FillsOf(stream)
    BY TypeFacts DEF QuietStep
  <2> QED BY <2>1, <2>2, <2>3, MovesShrink DEF QuietStep
<1> QED BY <1>1, <1>2 DEF Stays

LEMMA SameGateway ==
  ASSUME TypeOK, gw' = gw
  PROVE  Moves(gw, gw', {}) /\ Silent(gw, gw')
  BY MovesSelf DEF TypeOK

LEMMA SameWire ==
  ASSUME TypeOK, wire' = wire
  PROVE  wire' \in SUBSET Commands /\ NewOnWire' = NewOnWire
  BY DEF TypeOK, NewOnWire

LEMMA SubmitCancelStays ==
  ASSUME TypeOK, Bookings, NEW s \in Strats, SubmitCancel(s)
  PROVE  Stays
<1>1. PICK id \in eng[s].mine : wire' = wire \cup Cancels({id})
  BY DEF SubmitCancel
<1>2. {id} \in SUBSET Ids
  BY <1>1 DEF TypeOK, Engines
<1>3. wire' \in SUBSET Commands /\ NewOnWire' = NewOnWire
  BY <1>1, <1>2, CancelsAreNotNew DEF TypeOK
<1>4. left' \in Budgets
  BY SpendType DEF SubmitCancel, TypeOK
<1>5. Moves(gw, gw', {})
  BY SameGateway DEF SubmitCancel
<1>6. QuietStep
  BY <1>3, <1>4, <1>5 DEF SubmitCancel, QuietStep, TypeOK, strategy
<1> QED BY <1>6, QuietStays

LEMMA AskReconcileStays ==
  ASSUME TypeOK, Bookings, NEW s \in Strats, AskReconcile(s)
  PROVE  Stays
<1>1. Moves(gw, gw', {})
  BY AskReconcileQuiet, QuietMoves
<1>2. left' \in Budgets
  BY SpendType DEF AskReconcile, TypeOK
<1>3. conn' \in Connectors
  BY RequestType DEF AskReconcile, TypeOK
<1>4. wire' \in SUBSET Commands /\ NewOnWire' = NewOnWire
  BY SameWire DEF AskReconcile, venue
<1>5. QuietStep
  BY <1>1, <1>2, <1>3, <1>4 DEF AskReconcile, QuietStep, TypeOK, strategy, venue
<1> QED BY <1>5, QuietStays

LEMMA KillVenueStays ==
  ASSUME TypeOK, Bookings, KillVenue
  PROVE  Stays
<1>1. Moves(gw, gw', {}) /\ wire' \in SUBSET Commands /\ NewOnWire' = NewOnWire
  BY KillVenueQuiet, QuietMoves
<1>2. conn' \in Connectors
  BY RequestType DEF KillVenue, TypeOK
<1>3. QuietStep
  BY <1>1, <1>2 DEF KillVenue, QuietStep, TypeOK, strategy
<1> QED BY <1>3, QuietStays

LEMMA OnResponseStays ==
  ASSUME TypeOK, Bookings, OnResponse
  PROVE  Stays
<1>1. Moves(gw, gw', {}) /\ wire' \in SUBSET Commands /\ NewOnWire' = NewOnWire /\ conn' \in Connectors
  BY OnResponseQuiet, QuietMoves
<1>2. resp' \in Seq(Responses)
  BY RangeTail DEF OnResponse, TypeOK
<1>3. QuietStep
  BY <1>1, <1>2 DEF OnResponse, QuietStep, TypeOK, strategy
<1> QED BY <1>3, QuietStays

LEMMA OnSnapshotEffect ==
  ASSUME TypeOK, Bookings, OnSnapshot
  PROVE  \E r : /\ Snapped(gw, r, conn.mark, conn.rows) /\ Quiet(r, gw')
                /\ wire' \in SUBSET Commands /\ NewOnWire' = NewOnWire
<1>1. gw \in Gateways /\ wire \in SUBSET Commands /\ conn.mark \in Ids /\ conn.rows \in SUBSET Ids
  BY DEF TypeOK, Connectors
<1>2. PICK r : r = RouteReconcile(gw, conn.mark, conn.rows)
  OBVIOUS
<1>3. \A s \in Attached(gw) : gw.route[s].epoch # 0
  BY TypeFacts
<1>4. Snapped(gw, r, conn.mark, conn.rows)
  BY <1>1, <1>2, <1>3, ReconcileFacts
<1>5. r \in Gateways
  BY <1>4 DEF Snapped, Moves
<1>6. Route(r)
  BY <1>2 DEF OnSnapshot
<1>7. Quiet(r, gw') /\ wire' \in SUBSET Commands /\ NewOnWire' = NewOnWire
  BY <1>1, <1>5, <1>6, RouteQuiet
<1> QED BY <1>4, <1>7

LEMMA OnSnapshotConn ==
  ASSUME TypeOK, OnSnapshot
  PROVE  /\ conn' \in Connectors /\ conn'.answered = conn.answered
         /\ conn'.phase \in {"idle", "replay"} /\ conn'.rows = {}
<1> DEFINE c == [conn EXCEPT !.phase = "idle", !.pending = FALSE, !.mark = NoId, !.rows = {}]
<1>1. NoId \in Ids /\ conn \in Connectors
  BY DEF NoId, Ids, TypeOK
<1>2. c \in Connectors /\ c.answered = conn.answered /\ c.phase = "idle" /\ c.rows = {}
  BY <1>1 DEF Connectors
<1>3. conn' = IF conn.pending THEN Request(c) ELSE c
  BY DEF OnSnapshot
<1> HIDE DEF c
<1>4. PICK r : r = Request(c)
  OBVIOUS
<1>5. r \in Connectors
  BY <1>2, <1>4, RequestType
<1>6. r.answered = conn.answered /\ r.phase = "replay" /\ r.rows = {}
  <2>1. r = RunReplay([c EXCEPT !.phase = "replay"])
    BY <1>2, <1>4 DEF Request
  <2> QED BY <1>2, <2>1 DEF RunReplay, Connectors
<1> QED BY <1>2, <1>3, <1>4, <1>5, <1>6

LEMMA OnSnapshotStays ==
  ASSUME TypeOK, Bookings, OnSnapshot
  PROVE  Stays
<1>1. PICK r : /\ Snapped(gw, r, conn.mark, conn.rows) /\ Quiet(r, gw')
               /\ wire' \in SUBSET Commands /\ NewOnWire' = NewOnWire
  BY OnSnapshotEffect
<1>2. Moves(gw, gw', {})
  BY <1>1, QuietMoves, MovesTransitive DEF Snapped
<1>3. conn' \in Connectors
  BY OnSnapshotConn
<1>4. QuietStep
  BY <1>1, <1>2, <1>3 DEF OnSnapshot, QuietStep, TypeOK, strategy
<1> QED BY <1>4, QuietStays

LEMMA ReconnectStays ==
  ASSUME TypeOK, Bookings, Reconnect
  PROVE  Stays
<1>1. [conn EXCEPT !.up = TRUE] \in Connectors
  BY DEF TypeOK, Connectors
<1>2. conn' \in Connectors
  BY <1>1, RequestType DEF Reconnect
<1>3. Moves(gw, gw', {})
  BY SameGateway DEF Reconnect
<1>4. wire' \in SUBSET Commands /\ NewOnWire' = NewOnWire
  BY SameWire DEF Reconnect, venue
<1>5. QuietStep
  BY <1>2, <1>3, <1>4 DEF Reconnect, QuietStep, TypeOK, strategy, venue
<1> QED BY <1>5, QuietStays

LEMMA TripStays ==
  ASSUME TypeOK, Bookings, Trip
  PROVE  Stays
<1>1. Moves(gw, gw', {})
  BY SameGateway DEF Trip
<1>2. wire' \in SUBSET Commands /\ NewOnWire' = NewOnWire
  BY SameWire DEF Trip, venue
<1>3. left' \in Budgets
  BY SpendType DEF Trip, TypeOK
<1>4. QuietStep
  BY <1>1, <1>2, <1>3 DEF Trip, QuietStep, TypeOK, strategy, venue
<1> QED BY <1>4, QuietStays

LEMMA VenueListsStays ==
  ASSUME TypeOK, Bookings, VenueLists
  PROVE  Stays
<1>1. Moves(gw, gw', {})
  BY SameGateway DEF VenueLists
<1>2. wire' \in SUBSET Commands /\ NewOnWire' = NewOnWire
  BY SameWire DEF VenueLists, venue
<1>3. conn' \in Connectors
  BY DEF VenueLists, TypeOK, Connectors
<1>4. QuietStep
  BY <1>1, <1>2, <1>3 DEF VenueLists, QuietStep, TypeOK, strategy, venue
<1> QED BY <1>4, QuietStays

-----------------------------------------------------------------------------

LEMMA OneCopyTail ==
  ASSUME NEW S, NEW q \in Seq(S), q # <<>>, OneCopy(q)
  PROVE  /\ OneCopy(Tail(q)) /\ FillsOf(Tail(q)) \subseteq FillsOf(q)
         /\ Head(q).type = "fill" => Head(q).e \in FillsOf(q)
<1>1. /\ \A i \in DOMAIN Tail(q) : i + 1 \in DOMAIN q /\ Tail(q)[i] = q[i + 1]
      /\ Range(Tail(q)) \subseteq Range(q) /\ Head(q) \in Range(q)
      /\ DOMAIN Tail(q) = 1 .. Len(q) - 1 /\ Len(q) \in Nat
  BY RangeTail
<1>2. ASSUME NEW i \in DOMAIN Tail(q), NEW j \in DOMAIN Tail(q), Tail(q)[i].type = "fill",
             Tail(q)[j] = Tail(q)[i]
      PROVE  i = j
  <2>1. i + 1 = j + 1
    BY <1>1, <1>2 DEF OneCopy
  <2> QED BY <1>1, <2>1
<1>3. OneCopy(Tail(q))
  BY <1>2 DEF OneCopy
<1> QED BY <1>1, <1>3, FillsSubset DEF FillsOf

\* The execution the stream brings is not in it again.
LEMMA OneCopyHead ==
  ASSUME NEW q \in Seq(Events), q # <<>>, OneCopy(q), Head(q).type = "fill"
  PROVE  Head(q).e \notin FillsOf(Tail(q))
<1>1. /\ \A i \in DOMAIN Tail(q) : i + 1 \in DOMAIN q /\ Tail(q)[i] = q[i + 1] /\ i + 1 # 1
      /\ 1 \in DOMAIN q /\ Head(q) = q[1] /\ Head(q) \in Events /\ Tail(q) \in Seq(Events)
  BY RangeTail
<1>2. SUFFICES ASSUME Head(q).e \in FillsOf(Tail(q)) PROVE FALSE
  OBVIOUS
<1>3. PICK x \in Range(Tail(q)) : x.type = "fill" /\ x.e = Head(q).e
  BY <1>2 DEF FillsOf
<1>4. PICK i \in DOMAIN Tail(q) : x = Tail(q)[i]
  BY <1>3 DEF Range
<1>5. x \in Events
  BY <1>1, <1>3, RangeIn
<1>6. x = Head(q)
  BY <1>1, <1>3, <1>5 DEF Events
<1> QED BY <1>1, <1>4, <1>6 DEF OneCopy

LEMMA OneCopyAppend ==
  ASSUME NEW q \in Seq(Events), NEW m \in Events, OneCopy(q), m.type = "fill" => m.e \notin FillsOf(q)
  PROVE  /\ Append(q, m) \in Seq(Events) /\ OneCopy(Append(q, m))
         /\ FillsOf(Append(q, m)) \subseteq FillsOf(q) \cup (IF m.type = "fill" THEN {m.e} ELSE {})
<1>1. Append(q, m) \in Seq(Events) /\ Range(Append(q, m)) = Range(q) \cup {m}
  BY RangeAppend
<1> DEFINE a == Append(q, m)
<1>2. /\ DOMAIN a = 1 .. Len(q) + 1 /\ a[Len(q) + 1] = m /\ Len(q) \in Nat /\ DOMAIN q = 1 .. Len(q)
      /\ \A i \in 1 .. Len(q) : a[i] = q[i]
  OBVIOUS
<1> HIDE DEF a
<1>3. ASSUME NEW i \in DOMAIN q, q[i] = m PROVE m.type # "fill"
  BY <1>3 DEF FillsOf, Range
<1>4. ASSUME NEW i \in DOMAIN a, NEW j \in DOMAIN a, a[i].type = "fill", a[j] = a[i] PROVE i = j
  <2>1. CASE i \in DOMAIN q /\ j \in DOMAIN q
    BY <1>2, <1>4, <2>1 DEF OneCopy
  <2>2. CASE i = Len(q) + 1 /\ j \in DOMAIN q
    BY <1>2, <1>3, <1>4, <2>2
  <2>3. CASE i \in DOMAIN q /\ j = Len(q) + 1
    BY <1>2, <1>3, <1>4, <2>3
  <2>4. i \in DOMAIN q \/ i = Len(q) + 1
    BY <1>2
  <2>5. j \in DOMAIN q \/ j = Len(q) + 1
    BY <1>2
  <2> QED BY <2>1, <2>2, <2>3, <2>4, <2>5
<1>5. OneCopy(a)
  BY <1>4 DEF OneCopy
<1>6. FillsOf(a) \subseteq FillsOf(q) \cup (IF m.type = "fill" THEN {m.e} ELSE {})
  BY <1>1 DEF FillsOf, a
<1> QED BY <1>1, <1>5, <1>6 DEF a

LEMMA OneCopyEmpty == OneCopy(<<>>) /\ <<>> \in Seq(Events) /\ FillsOf(<<>>) = {}
  BY FillsEmpty DEF OneCopy

LEMMA DisconnectStays ==
  ASSUME TypeOK, Bookings, Disconnect
  PROVE  Stays
<1>1. left' \in Budgets
  BY SpendType DEF Disconnect, TypeOK
<1>2. conn' \in Connectors
  BY DEF Disconnect, TypeOK, Connectors
<1>3. stream' \in Seq(Events) /\ FillsOf(stream') \subseteq FillsOf(stream) /\ OneCopy(stream')
  BY OneCopyEmpty DEF Disconnect
<1>4. TypeOK'
  BY <1>1, <1>2, <1>3 DEF Disconnect, TypeOK, strategy
<1>5. EnginesKept
  BY SameEngines DEF Disconnect, strategy
<1>6. \A id \in resting' \cup NewOnWire' : id.epoch \in DOMAIN sessions
  BY TypeFacts, SameWire DEF Disconnect
<1>7. Moves(gw, gw', {})
  BY SameGateway DEF Disconnect
<1>8. Bookings'
  BY <1>3, <1>5, <1>6, <1>7, MovesShrink DEF Disconnect, strategy
<1> QED BY <1>4, <1>8 DEF Stays

\* What a command does at the venue.
Took(m) ==
  /\ wire' \in SUBSET Commands /\ NewOnWire' \subseteq NewOnWire
  /\ resting' \in SUBSET Ids /\ resting' \subseteq resting \cup NewOnWire
  /\ resp' \in Seq(Responses) /\ stream' \in Seq(Events)
  /\ FillsOf(stream') \subseteq FillsOf(stream) /\ OneCopy(stream')

LEMMA TookFacts ==
  ASSUME TypeOK, Bookings, NEW m, VenueTakes(m)
  PROVE  Took(m)
<1>1. /\ wire \in SUBSET Commands /\ m \in wire /\ m \in Commands /\ m.id \in Ids
      /\ resting \in SUBSET Ids /\ resp \in Seq(Responses) /\ stream \in Seq(Events)
  BY DEF TypeOK, VenueTakes, Commands
<1>2. wire' \in SUBSET Commands /\ NewOnWire' \subseteq NewOnWire
  BY <1>1 DEF VenueTakes, NewOnWire
<1>3. OneCopy(stream)
  BY TypeFacts
<1>4. CASE m.op = "new" /\ resting' = resting \cup {m.id} /\ stream' = stream
           /\ resp' = Append(resp, [type |-> "ack", id |-> m.id])
  <2>1. m.id \in NewOnWire
    BY <1>1, <1>4 DEF NewOnWire
  <2>2. [type |-> "ack", id |-> m.id] \in Responses
    BY <1>1 DEF Responses
  <2>3. resp' \in Seq(Responses)
    BY <1>1, <1>4, <2>2
  <2> QED BY <1>1, <1>2, <1>3, <1>4, <2>1, <2>3 DEF Took
<1>5. CASE resting' = resting \ {m.id} /\ Publish([type |-> "ended", id |-> m.id]) /\ resp' = resp
  <2> DEFINE x == [type |-> "ended", id |-> m.id]
  <2>1. x \in Events /\ x.type = "ended"
    BY <1>1 DEF Events
  <2> HIDE DEF x
  <2>2. stream' = stream \/ stream' = Append(stream, x)
    BY <1>5 DEF Publish, x
  <2>3. /\ stream' \in Seq(Events) /\ FillsOf(stream') \subseteq FillsOf(stream)
        /\ OneCopy(stream')
    BY <1>1, <1>3, <2>1, <2>2, OneCopyAppend
  <2> QED BY <1>1, <1>2, <1>5, <2>3 DEF Took
<1>6. CASE resp' = Append(resp, [type |-> "unknown", id |-> m.id]) /\ resting' = resting /\ stream' = stream
  <2>1. [type |-> "unknown", id |-> m.id] \in Responses
    BY <1>1 DEF Responses
  <2>2. resp' \in Seq(Responses)
    BY <1>1, <1>6, <2>1
  <2> QED BY <1>1, <1>2, <1>3, <1>6, <2>2 DEF Took
<1> QED BY <1>4, <1>5, <1>6 DEF VenueTakes

LEMMA VenueTakesStays ==
  ASSUME TypeOK, Bookings, NEW m, VenueTakes(m)
  PROVE  Stays
<1>1. Took(m)
  BY TookFacts
<1>2. TypeOK'
  BY <1>1 DEF Took, VenueTakes, TypeOK, strategy
<1>3. EnginesKept
  BY SameEngines DEF VenueTakes, strategy
<1>4. \A id \in resting' \cup NewOnWire' : id.epoch \in DOMAIN sessions
  BY <1>1, TypeFacts DEF Took
<1>5. Moves(gw, gw', {})
  BY SameGateway DEF VenueTakes
<1>6. Bookings'
  BY <1>1, <1>3, <1>4, <1>5, MovesShrink DEF Took, VenueTakes, strategy
<1> QED BY <1>2, <1>6 DEF Stays

-----------------------------------------------------------------------------

RingSet(g, h, s, q) ==
  /\ h \in Gateways /\ h.route = g.route /\ h.hist = g.hist /\ h.seeded = g.seeded
  /\ h.seed = g.seed /\ h.booked = g.booked /\ h.parked = g.parked
  /\ h.ring[s] = q /\ \A t \in Strats \ {s} : h.ring[t] = g.ring[t]

LEMMA RingSetFacts ==
  ASSUME NEW g \in Gateways, NEW s \in Strats, NEW q \in Seq(Messages),
         NEW h, h = [g EXCEPT !.ring[s] = q]
  PROVE  RingSet(g, h, s, q)
<1> DEFINE w == [g.ring EXCEPT ![s] = q]
<1>1. g.ring \in [Strats -> Seq(Messages)]
  BY GatewayFields
<1>2. h = [g EXCEPT !.ring = w]
  BY <1>1 DEF Gateways
<1>3. w \in [Strats -> Seq(Messages)] /\ w[s] = q /\ \A t \in Strats \ {s} : w[t] = g.ring[t]
  BY <1>1
<1> HIDE DEF w
<1> QED BY <1>2, <1>3 DEF Gateways, RingSet

LEMMA ReadRingEffect ==
  ASSUME TypeOK, Bookings, NEW s \in Strats, ReadRing(s)
  PROVE  \E m \in Range(gw.ring[s]), q \in Seq(Messages) :
           /\ m = Head(gw.ring[s]) /\ q = Tail(gw.ring[s]) /\ Range(q) \subseteq Range(gw.ring[s])
           /\ RingSet(gw, gw', s, q)
           /\ Handled(eng[s], m, eng'[s]) /\ eng' \in [Strats -> Engines]
           /\ \A t \in Strats \ {s} : eng'[t] = eng[t]
           /\ wire' \in SUBSET Commands /\ NewOnWire' = NewOnWire
<1>1. gw \in Gateways /\ eng \in [Strats -> Engines] /\ eng[s] \in Engines /\ wire \in SUBSET Commands
  BY DEF TypeOK
<1>2. gw.ring[s] \in Seq(Messages) /\ gw.ring[s] # <<>>
  BY <1>1, GatewayFields DEF ReadRing
<1>3. PICK m : m = Head(gw.ring[s])
  OBVIOUS
<1>4. PICK q : q = Tail(gw.ring[s])
  OBVIOUS
<1>5. m \in Messages /\ m \in Range(gw.ring[s]) /\ q \in Seq(Messages) /\ Range(q) \subseteq Range(gw.ring[s])
  BY <1>2, <1>3, <1>4, RangeTail
<1>6. m.type # "no reader"
  BY <1>5 DEF ReadRing, Bookings, Running
<1>7. PICK e : e = Handle(eng[s], m)
  OBVIOUS
<1>8. Handled(eng[s], m, e)
  BY <1>1, <1>5, <1>6, <1>7, HandleFacts
<1>9. eng' = [eng EXCEPT ![s] = e]
  BY <1>3, <1>7 DEF ReadRing
<1>10. e \in Engines
  BY <1>8 DEF Handled
<1>11. eng' \in [Strats -> Engines] /\ eng'[s] = e /\ \A t \in Strats \ {s} : eng'[t] = eng[t]
  BY <1>1, <1>9, <1>10
<1>12. gw' = [gw EXCEPT !.ring[s] = q]
  BY <1>4 DEF ReadRing
<1>13. PICK h : h = gw'
  OBVIOUS
<1>14. RingSet(gw, h, s, q)
  BY <1>1, <1>5, <1>12, <1>13, RingSetFacts
<1>15. wire' \in SUBSET Commands /\ NewOnWire' = NewOnWire
  <2>1. Answers(eng[s], m) \in SUBSET Ids
    BY <1>1, <1>5, AnswersType
  <2>2. wire' = wire \/ wire' = wire \cup Cancels(Answers(eng[s], m))
    BY <1>3 DEF ReadRing
  <2> QED BY <1>1, <2>1, <2>2, CancelsAreNotNew, SameWire
<1> QED BY <1>3, <1>4, <1>5, <1>8, <1>11, <1>13, <1>14, <1>15

LEMMA ReadRingStays ==
  ASSUME TypeOK, Bookings, NEW s \in Strats, ReadRing(s)
  PROVE  Stays
<1>1. PICK m \in Range(gw.ring[s]), q \in Seq(Messages) :
           /\ m = Head(gw.ring[s]) /\ q = Tail(gw.ring[s]) /\ Range(q) \subseteq Range(gw.ring[s])
           /\ RingSet(gw, gw', s, q)
           /\ Handled(eng[s], m, eng'[s]) /\ eng' \in [Strats -> Engines]
           /\ \A t \in Strats \ {s} : eng'[t] = eng[t]
           /\ wire' \in SUBSET Commands /\ NewOnWire' = NewOnWire
  BY ReadRingEffect
<1>2. /\ proc[s] /\ proc' = proc /\ store' = store /\ sessions' = sessions /\ execs' = execs
      /\ stream' = stream /\ resting' = resting
  BY DEF ReadRing
<1>3. TypeOK'
  BY <1>1 DEF ReadRing, TypeOK, RingSet
<1>4. FillsOf(q) \subseteq FillsOf(gw.ring[s])
  BY <1>1, FillsSubset
<1>5. /\ gw'.ring[s] = q /\ \A t \in Strats \ {s} : gw'.ring[t] = gw.ring[t]
      /\ gw'.route = gw.route /\ gw'.seeded = gw.seeded /\ gw'.seed = gw.seed
      /\ gw'.booked = gw.booked /\ gw'.parked = gw.parked
  BY <1>1 DEF RingSet
<1>6. Executions(eng[s].log)' \subseteq Executions(eng[s].log) \cup FillsOf(gw.ring[s])
  <2>1. m.type = "fill" => m.e \in FillsOf(gw.ring[s])
    BY <1>1 DEF FillsOf
  <2>2. Executions(eng[s].log)' = Executions(eng'[s].log)
    BY DEF Executions
  <2> QED BY <1>1, <2>1, <2>2 DEF Handled
<1>7. eng'[s].epoch = eng[s].epoch /\ eng'[s].restored = eng[s].restored
  BY <1>1 DEF Handled
<1>8. ASSUME NEW t \in Strats
      PROVE  /\ (Executions(eng[t].log) \cup FillsOf(gw.ring[t]))'
                  \subseteq Executions(eng[t].log) \cup FillsOf(gw.ring[t])
             /\ eng'[t].epoch = eng[t].epoch /\ eng'[t].restored = eng[t].restored
             /\ Range(gw'.ring[t]) \subseteq Range(gw.ring[t])
             /\ ~proc[t] => eng'[t] = eng[t] /\ gw'.ring[t] = gw.ring[t]
  <2>1. CASE t = s
    <3>1. FillsOf(gw.ring[t])' = FillsOf(q)
      BY <1>5, <2>1 DEF FillsOf
    <3> QED BY <1>1, <1>2, <1>4, <1>5, <1>6, <1>7, <2>1, <3>1
  <2>2. CASE t # s
    <3>1. eng'[t] = eng[t] /\ gw'.ring[t] = gw.ring[t]
      BY <1>1, <1>5, <2>2
    <3> QED BY <3>1 DEF Executions, FillsOf
  <2> QED BY <2>1, <2>2
<1>9. ASSUME NEW t \in Strats PROVE Reached(t)' \subseteq Reached(t)
  BY <1>2, <1>5, <1>8 DEF Reached
<1>10. Running'
  BY <1>2, <1>8 DEF Bookings, Running, NewEngine, NoReader
<1>11. \A id \in resting' \cup NewOnWire' : id.epoch \in DOMAIN sessions
  BY <1>1, <1>2, TypeFacts
<1>12. \A t \in Strats : /\ gw'.route[t] # NoRoute => t \in gw'.seeded
                         /\ SameRoute(gw.route[t], gw'.route[t])
  BY <1>5 DEF Bookings, Routed, Attached, SameRoute
<1>13. OneCopy(stream') /\ FillsOf(stream') = FillsOf(stream)
  BY <1>2, TypeFacts
<1>14. Shrinks
  BY <1>2, <1>5, <1>8, <1>9, <1>10, <1>11, <1>12, <1>13 DEF Shrinks
<1>15. Bookings'
  BY <1>14, BookingsShrink
<1> QED BY <1>3, <1>15 DEF Stays

-----------------------------------------------------------------------------

LEMMA NewEngineFacts ==
  /\ NewEngine \in Engines /\ NewEngine.epoch = 0 /\ NewEngine.restored = {}
  /\ NewEngine.log = <<>> /\ Executions(NewEngine.log) = {} /\ NewEngine.last = 0
<1>1. <<>> \in Seq(Nat)
  OBVIOUS
<1>2. NewEngine \in Engines
  BY <1>1 DEF NewEngine, Engines
<1>3. NewEngine.epoch = 0 /\ NewEngine.restored = {} /\ NewEngine.log = <<>> /\ NewEngine.last = 0
  BY DEF NewEngine
<1>4. Executions(<<>>) = {}
  BY RangeEmpty DEF Executions
<1> QED BY <1>2, <1>3, <1>4

\* The process of s ends: its store has written the executions of some first part of its log.
Ends(s) ==
  /\ proc[s] /\ proc' = [proc EXCEPT ![s] = FALSE]
  /\ eng' = [eng EXCEPT ![s] = NewEngine]
  /\ gw' = [gw EXCEPT !.ring[s] = NoReader]
  /\ \E log \in Seq(Nat), clean \in BOOLEAN :
        /\ Executions(log) \subseteq Executions(eng[s].log)
        /\ store' = [store EXCEPT ![s] = Saved(@, eng[s].start, log, clean)]
  /\ sessions' = sessions /\ conn' = conn /\ wire' = wire /\ resp' = resp /\ stream' = stream
  /\ resting' = resting /\ execs' = execs /\ tripped' = tripped /\ left' \in Budgets

LEMMA EndsFacts ==
  ASSUME TypeOK, NEW s \in Strats, Crash(s) \/ Stop(s)
  PROVE  Ends(s)
<1>1. eng[s].log \in Seq(Nat) /\ left \in Budgets
  BY DEF TypeOK, Engines
<1>2. CASE Crash(s)
  <2>1. PICK k \in 0 .. Len(eng[s].log), clean \in BOOLEAN :
          store' = [store EXCEPT ![s] = Saved(@, eng[s].start, SubSeq(eng[s].log, 1, k), clean)]
    BY <1>2 DEF Crash
  <2>2. PICK log : log = SubSeq(eng[s].log, 1, k)
    OBVIOUS
  <2>3. log \in Seq(Nat) /\ Executions(log) \subseteq Executions(eng[s].log)
    BY <1>1, <2>2, PrefixExecutions
  <2>4. store' = [store EXCEPT ![s] = Saved(@, eng[s].start, log, clean)]
    BY <2>1, <2>2
  <2>5. left' \in Budgets
    BY <1>1, <1>2, SpendType DEF Crash
  <2> QED BY <1>2, <2>3, <2>4, <2>5 DEF Crash, Ends, venue
<1>3. CASE Stop(s)
  BY <1>1, <1>3 DEF Stop, Ends, venue
<1> QED BY <1>2, <1>3

LEMMA EndsEffect ==
  ASSUME TypeOK, Bookings, NEW s \in Strats, Ends(s)
  PROVE  /\ store' \in [Strats -> Stores] /\ \A t \in Strats \ {s} : store'[t] = store[t]
         /\ store'[s].held \subseteq store[s].held \cup Executions(eng[s].log)
         /\ eng' \in [Strats -> Engines] /\ eng'[s] = NewEngine /\ \A t \in Strats \ {s} : eng'[t] = eng[t]
         /\ proc' \in [Strats -> BOOLEAN] /\ proc'[s] = FALSE /\ \A t \in Strats \ {s} : proc'[t] = proc[t]
         /\ RingSet(gw, gw', s, NoReader)
<1>1. /\ store \in [Strats -> Stores] /\ eng \in [Strats -> Engines] /\ proc \in [Strats -> BOOLEAN]
      /\ gw \in Gateways /\ store[s] \in Stores /\ execs \in Seq(Trades)
  BY DEF TypeOK
<1>2. PICK log \in Seq(Nat), clean \in BOOLEAN :
           /\ Executions(log) \subseteq Executions(eng[s].log)
           /\ store' = [store EXCEPT ![s] = Saved(@, eng[s].start, log, clean)]
  BY DEF Ends
<1>3. Len(execs) \in Nat /\ DOMAIN execs = 1 .. Len(execs)
  BY <1>1
<1>4. store[s].held \subseteq 1 .. Len(execs) /\ Executions(eng[s].log) \subseteq 1 .. Len(execs)
  BY <1>3 DEF Bookings, ExecsKnown, Reached
<1>5. PICK r : r = Saved(store[s], eng[s].start, log, clean)
  OBVIOUS
<1>6. Executions(log) \subseteq 1 .. Len(execs) /\ eng[s].start \in Nat
  BY <1>1, <1>2, <1>4 DEF Engines
<1>7. r \in Stores /\ r.held = store[s].held \cup Executions(log)
  <2>1. /\ store[s] \in Stores /\ store[s].held \subseteq 1 .. Len(execs) /\ Len(execs) \in Nat
        /\ Executions(log) \subseteq 1 .. Len(execs) /\ eng[s].start \in Nat
    BY <1>1, <1>3, <1>4, <1>6
  <2> QED BY <1>5, <2>1, SavedFacts
<1>8. store' = [store EXCEPT ![s] = r]
  BY <1>2, <1>5
<1>9. store' \in [Strats -> Stores] /\ store'[s] = r /\ \A t \in Strats \ {s} : store'[t] = store[t]
  BY <1>1, <1>7, <1>8
<1>10. eng' \in [Strats -> Engines] /\ eng'[s] = NewEngine /\ \A t \in Strats \ {s} : eng'[t] = eng[t]
  BY <1>1, NewEngineFacts DEF Ends
<1>11. proc' \in [Strats -> BOOLEAN] /\ proc'[s] = FALSE /\ \A t \in Strats \ {s} : proc'[t] = proc[t]
  BY <1>1 DEF Ends
<1>12. RingSet(gw, gw', s, NoReader)
  <2>1. PICK h : h = gw'
    OBVIOUS
  <2>2. h = [gw EXCEPT !.ring[s] = NoReader]
    BY <2>1 DEF Ends
  <2> QED BY <1>1, <2>1, <2>2, RingSetFacts, NoReaderFacts
<1> QED BY <1>2, <1>7, <1>9, <1>10, <1>11, <1>12

LEMMA EndsStays ==
  ASSUME TypeOK, Bookings, NEW s \in Strats, Ends(s)
  PROVE  Stays
<1>1. /\ store' \in [Strats -> Stores] /\ \A t \in Strats \ {s} : store'[t] = store[t]
      /\ store'[s].held \subseteq store[s].held \cup Executions(eng[s].log)
      /\ eng' \in [Strats -> Engines] /\ eng'[s] = NewEngine /\ \A t \in Strats \ {s} : eng'[t] = eng[t]
      /\ proc' \in [Strats -> BOOLEAN] /\ proc'[s] = FALSE /\ \A t \in Strats \ {s} : proc'[t] = proc[t]
      /\ RingSet(gw, gw', s, NoReader)
  BY EndsEffect
<1>2. /\ sessions' = sessions /\ execs' = execs /\ stream' = stream /\ resting' = resting
      /\ wire' = wire
  BY DEF Ends
<1>3. TypeOK'
  BY <1>1, <1>2 DEF Ends, TypeOK, RingSet
<1>4. /\ gw'.ring[s] = NoReader /\ \A t \in Strats \ {s} : gw'.ring[t] = gw.ring[t]
      /\ gw'.route = gw.route /\ gw'.seeded = gw.seeded /\ gw'.seed = gw.seed
      /\ gw'.booked = gw.booked /\ gw'.parked = gw.parked
  BY <1>1 DEF RingSet
<1>5. FillsOf(gw.ring[s])' = {} /\ Executions(eng[s].log)' = {} /\ eng'[s].restored = {}
  <2>1. FillsOf(gw.ring[s])' = FillsOf(NoReader)
    BY <1>4 DEF FillsOf
  <2>2. Executions(eng[s].log)' = Executions(NewEngine.log)
    BY <1>1 DEF Executions
  <2> QED BY <1>1, <2>1, <2>2, NewEngineFacts, NoReaderFacts
<1>6. ASSUME NEW t \in Strats
      PROVE  /\ (Executions(eng[t].log) \cup FillsOf(gw.ring[t]))'
                  \subseteq Executions(eng[t].log) \cup FillsOf(gw.ring[t])
             /\ eng'[t].restored \subseteq eng[t].restored
             /\ Reached(t)' \subseteq Reached(t)
  <2>1. CASE t = s
    <3>1. Reached(s)' \subseteq Reached(s)
      BY <1>1, <1>4, <1>5 DEF Reached
    <3> QED BY <1>5, <2>1, <3>1
  <2>2. CASE t # s
    <3>1. eng'[t] = eng[t] /\ gw'.ring[t] = gw.ring[t] /\ store'[t] = store[t]
      BY <1>1, <1>4, <2>2
    <3>2. Executions(eng[t].log)' = Executions(eng[t].log) /\ FillsOf(gw.ring[t])' = FillsOf(gw.ring[t])
      BY <3>1 DEF Executions, FillsOf
    <3> QED BY <1>4, <3>1, <3>2 DEF Reached
  <2> QED BY <2>1, <2>2
<1>7. Running'
  <2> SUFFICES ASSUME NEW t \in Strats
               PROVE  /\ proc'[t] => /\ eng'[t].epoch \in DOMAIN sessions'
                                     /\ \A x \in Range(gw'.ring[t]) : x.type # "no reader"
                      /\ ~proc'[t] => eng'[t] = NewEngine /\ gw'.ring[t] = NoReader
    BY DEF Running, NewEngine, NoReader
  <2>1. CASE t = s
    BY <1>1, <1>4, <2>1
  <2>2. CASE t # s
    <3>1. eng'[t] = eng[t] /\ gw'.ring[t] = gw.ring[t] /\ proc'[t] = proc[t]
      BY <1>1, <1>4, <2>2
    <3> QED BY <1>2, <3>1 DEF Bookings, Running
  <2> QED BY <2>1, <2>2
<1>8. \A t \in Strats : /\ proc'[t] => proc[t]
                        /\ gw'.route[t] # NoRoute => t \in gw'.seeded
                        /\ SameRoute(gw.route[t], gw'.route[t])
  BY <1>1, <1>4 DEF Bookings, Routed, Attached, SameRoute
<1>9. \A id \in resting' \cup NewOnWire' : id.epoch \in DOMAIN sessions
  BY <1>2, TypeFacts, SameWire
<1>10. OneCopy(stream') /\ FillsOf(stream') = FillsOf(stream)
  BY <1>2, TypeFacts
<1>11. Shrinks
  BY <1>2, <1>4, <1>6, <1>7, <1>8, <1>9, <1>10 DEF Shrinks
<1>12. Bookings'
  BY <1>11, BookingsShrink
<1> QED BY <1>3, <1>12 DEF Stays

LEMMA NoRouteType == NoRoute \in Routes
  BY DEF NoRoute, Routes

\* The attachment of s is closed.
Detached(g, h, s) ==
  /\ h \in Gateways /\ h.hist = g.hist /\ h.seeded = g.seeded
  /\ h.seed = g.seed /\ h.booked = g.booked /\ h.parked = g.parked /\ h.ring = g.ring
  /\ h.route[s] = NoRoute /\ \A t \in Strats \ {s} : h.route[t] = g.route[t]

LEMMA DetachEffect ==
  ASSUME TypeOK, Bookings, NEW s \in Strats, Detach(s)
  PROVE  \E g : /\ Detached(gw, g, s) /\ Quiet(g, gw')
                /\ wire' \in SUBSET Commands /\ NewOnWire' = NewOnWire
<1> DEFINE own == {id \in DOMAIN gw.orders : id.epoch = gw.route[s].epoch /\ ~CancelSent(gw, id)}
           w == [gw.route EXCEPT ![s] = NoRoute]
<1>1. gw \in Gateways /\ wire \in SUBSET Commands
  BY DEF TypeOK
<1>2. gw.route \in [Strats -> Routes] /\ gw.orders \in Orders
  BY <1>1, GatewayFields
<1>3. PICK g : g = [gw EXCEPT !.route[s] = NoRoute, !.sweep = TRUE]
  OBVIOUS
<1>4. PICK k : k = QueueCancels(g, own)
  OBVIOUS
<1>5. Route(k)
  BY <1>3, <1>4 DEF Detach
<1>6. own \in SUBSET Ids
  BY <1>2, OrdersFacts
<1> HIDE DEF own
<1>7. g = [gw EXCEPT !.route = w, !.sweep = TRUE]
  BY <1>1, <1>2, <1>3 DEF Gateways
<1>8. w \in [Strats -> Routes] /\ w[s] = NoRoute /\ \A t \in Strats \ {s} : w[t] = gw.route[t]
  BY <1>2, NoRouteType
<1> HIDE DEF w
<1>9. Detached(gw, g, s)
  BY <1>1, <1>7, <1>8 DEF Detached, Gateways
<1>10. g \in Gateways
  BY <1>9 DEF Detached
<1>11. Quiet(g, k) /\ k \in Gateways
  BY <1>4, <1>6, <1>10, QueueCancelsQuiet DEF Quiet
<1>12. Quiet(k, gw') /\ wire' \in SUBSET Commands /\ NewOnWire' = NewOnWire
  BY <1>1, <1>5, <1>11, RouteQuiet
<1> QED BY <1>9, <1>11, <1>12, QuietTransitive

LEMMA DetachStays ==
  ASSUME TypeOK, Bookings, NEW s \in Strats, Detach(s)
  PROVE  Stays
<1>1. PICK g : /\ Detached(gw, g, s) /\ Quiet(g, gw')
               /\ wire' \in SUBSET Commands /\ NewOnWire' = NewOnWire
  BY DetachEffect
<1>2. /\ proc' = proc /\ eng' = eng /\ store' = store /\ sessions' = sessions /\ execs' = execs
      /\ stream' = stream /\ resting' = resting /\ conn' = Request(conn)
  BY DEF Detach
<1>3. conn' \in Connectors
  BY <1>2, RequestType DEF TypeOK
<1>4. TypeOK'
  BY <1>1, <1>2, <1>3 DEF Detach, TypeOK, Quiet
<1>5. /\ gw'.seeded = gw.seeded /\ gw'.seed = gw.seed /\ gw'.booked = gw.booked
      /\ gw'.parked = gw.parked
  BY <1>1 DEF Detached, Quiet
<1>6. ASSUME NEW t \in Strats
      PROVE  /\ gw.ring[t] = NoReader => gw'.ring[t] = NoReader
             /\ \A x \in Range(gw'.ring[t]) : x \in Range(gw.ring[t]) \/ x.type \in {"ended", "kill"}
             /\ gw'.route[t] # NoRoute => gw.route[t] # NoRoute /\ SameRoute(gw.route[t], gw'.route[t])
  <2>1. g.ring[t] = gw.ring[t] /\ (g.route[t] = NoRoute \/ g.route[t] = gw.route[t])
    BY <1>1 DEF Detached
  <2>2. /\ g.ring[t] = NoReader => gw'.ring[t] = NoReader
        /\ \A x \in Range(gw'.ring[t]) : x \in Range(g.ring[t]) \/ x.type \in {"ended", "kill"}
        /\ SameRoute(g.route[t], gw'.route[t])
    BY <1>1 DEF Quiet
  <2> QED BY <2>1, <2>2 DEF SameRoute
<1>7. ASSUME NEW t \in Strats PROVE FillsOf(gw.ring[t])' \subseteq FillsOf(gw.ring[t])
  BY <1>6 DEF FillsOf
<1>8. ASSUME NEW t \in Strats PROVE Reached(t)' \subseteq Reached(t)
  BY <1>2, <1>5, <1>7 DEF Reached, Executions
<1>9. Running'
  BY <1>2, <1>6 DEF Bookings, Running, NewEngine, NoReader
<1>10. \A t \in Strats : gw'.route[t] # NoRoute => t \in gw'.seeded
  BY <1>5, <1>6 DEF Bookings, Routed, Attached
<1>11. \A id \in resting' \cup NewOnWire' : id.epoch \in DOMAIN sessions
  BY <1>1, <1>2, TypeFacts
<1>12. OneCopy(stream') /\ FillsOf(stream') = FillsOf(stream)
  BY <1>2, TypeFacts
<1>13. ASSUME NEW t \in Strats
       PROVE  /\ eng'[t].restored \subseteq eng[t].restored /\ (proc'[t] => proc[t])
              /\ (Executions(eng[t].log) \cup FillsOf(gw.ring[t]))'
                   \subseteq Executions(eng[t].log) \cup FillsOf(gw.ring[t])
  BY <1>2, <1>7 DEF Executions
<1>14. Shrinks
  BY <1>2, <1>5, <1>6, <1>8, <1>9, <1>10, <1>11, <1>12, <1>13 DEF Shrinks
<1>15. Bookings'
  BY <1>14, BookingsShrink
<1> QED BY <1>4, <1>15 DEF Stays

-----------------------------------------------------------------------------
(***************************************************************************)
(* Steps that route executions.                                            *)
(***************************************************************************)

\* The executions that are routed: of the stream's, none that has reached anyone before.
Fresh(M) ==
  /\ M \in SUBSET Parkable
  /\ \A m \in M : /\ m.e \in DOMAIN execs
                  /\ ~Lagging => /\ m.e \notin FillsOf(stream')
                                 /\ ~m.replayed => \A s \in Strats : m.e \notin Reached(s)

RoutesStep(M) ==
  /\ Moves(gw, gw', M) /\ Fresh(M)
  /\ proc' = proc /\ eng' = eng /\ store' = store /\ sessions' = sessions /\ execs' = execs
  /\ resting' = resting /\ NewOnWire' = NewOnWire
  /\ FillsOf(stream') \subseteq FillsOf(stream) /\ OneCopy(stream')

LEMMA RoutesBookings ==
  ASSUME TypeOK, Bookings, NEW M, RoutesStep(M)
  PROVE  Bookings'
<1>1. /\ Moves(gw, gw', M) /\ Fresh(M)
      /\ proc' = proc /\ eng' = eng /\ store' = store /\ sessions' = sessions /\ execs' = execs
      /\ resting' = resting /\ NewOnWire' = NewOnWire
      /\ FillsOf(stream') \subseteq FillsOf(stream) /\ OneCopy(stream')
  BY DEF RoutesStep
<1>2. /\ gw'.seeded = gw.seeded /\ gw'.seed = gw.seed /\ Attached(gw') = Attached(gw)
      /\ \A t \in Strats : SameRoute(gw.route[t], gw'.route[t])
  BY <1>1, MovesAttached DEF Moves
<1>t. \A e : Trader(e)' = Trader(e)
  BY <1>1 DEF Trader
<1>3. ASSUME NEW t \in Strats, NEW e \in FillsOf(gw'.ring[t])
      PROVE  e \in FillsOf(gw.ring[t]) \/ Pushed(gw, M, t, e)
  <2>1. PICK x \in Range(gw'.ring[t]) : x.type = "fill" /\ x.e = e
    BY <1>3 DEF FillsOf
  <2>2. x \in Range(gw.ring[t]) \/ Pushed(gw, M, t, x.e)
    BY <1>1, <2>1 DEF Moves
  <2> QED BY <2>1, <2>2 DEF FillsOf
<1>4. ASSUME NEW t \in Strats, NEW e \in Reached(t)'
      PROVE  e \in Reached(t) \/ Pushed(gw, M, t, e)
  <2>1. \/ e \in store[t].held \/ e \in Executions(eng[t].log) \/ e \in eng[t].restored
        \/ e \in FillsOf(gw'.ring[t]) \/ e \in gw.seed[t].held
    BY <1>1, <1>2, <1>4 DEF Reached, Executions, FillsOf
  <2>2. CASE e \in FillsOf(gw'.ring[t])
    BY <1>3, <2>2 DEF Reached
  <2> QED BY <2>1, <2>2 DEF Reached
<1>5. ASSUME NEW t \in Strats, NEW e, Pushed(gw, M, t, e)
      PROVE  /\ e \in DOMAIN execs /\ Trader(e) = t /\ t \in Attached(gw)
             /\ ~Lagging => e \notin FillsOf(stream')
  BY <1>1, <1>5 DEF Pushed, Fresh
<1>6. Running'
  <2> SUFFICES ASSUME NEW s \in Strats
               PROVE  /\ proc'[s] => /\ eng'[s].epoch \in DOMAIN sessions'
                                     /\ \A x \in Range(gw'.ring[s]) : x.type # "no reader"
                      /\ ~proc'[s] => eng'[s] = NewEngine /\ gw'.ring[s] = NoReader
    BY DEF Running, NewEngine, NoReader
  <2>1. /\ proc[s] => /\ eng[s].epoch \in DOMAIN sessions
                      /\ \A x \in Range(gw.ring[s]) : x.type # "no reader"
        /\ ~proc[s] => eng[s] = NewEngine /\ gw.ring[s] = NoReader
    BY DEF Bookings, Running
  <2>2. /\ gw.ring[s] = NoReader => gw'.ring[s] = NoReader
        /\ \A x \in Range(gw'.ring[s]) : x \in Range(gw.ring[s]) \/ x.type # "no reader"
    BY <1>1 DEF Moves
  <2> QED BY <1>1, <2>1, <2>2
<1>7. Routed'
  <2>1. ASSUME NEW s \in Attached(gw)' PROVE s \in gw'.seeded /\ gw'.route[s].epoch \in DOMAIN sessions'
    <3>1. s \in Attached(gw) /\ s \in Strats
      BY <1>2, <2>1 DEF Attached
    <3>2. s \in gw.seeded /\ gw.route[s].epoch \in DOMAIN sessions
      BY <3>1 DEF Bookings, Routed
    <3> QED BY <1>1, <1>2, <3>1, <3>2 DEF SameRoute
  <2> QED BY <2>1 DEF Routed
<1>8. IdsKnown'
  BY <1>1 DEF Bookings, IdsKnown
<1>9. ExecsKnown'
  <2>1. ASSUME NEW s \in Strats, NEW e \in Reached(s)' PROVE e \in DOMAIN execs' /\ Trader(e)' = s
    BY <1>1, <1>t, <1>4, <1>5, <2>1 DEF Bookings, ExecsKnown
  <2>2. ASSUME NEW m \in Range(gw'.parked) PROVE m.e \in DOMAIN execs'
    BY <1>1, <2>2 DEF Bookings, ExecsKnown, Moves, Fresh
  <2>3. FillsOf(stream)' \subseteq DOMAIN execs'
    BY <1>1 DEF Bookings, ExecsKnown, FillsOf
  <2>4. ASSUME NEW e \in gw'.booked PROVE e \in DOMAIN execs' /\ Trader(e)' \in gw'.seeded
    <3>1. e \in gw.booked \/ Booked(gw, M, e)
      BY <1>1, <2>4 DEF Moves
    <3>2. CASE Booked(gw, M, e)
      BY <1>1, <1>2, <1>t, <3>2 DEF Booked, Fresh
    <3>3. CASE e \in gw.booked
      BY <1>1, <1>2, <1>t, <3>3 DEF Bookings, ExecsKnown
    <3> QED BY <3>1, <3>2, <3>3
  <2> QED BY <2>1, <2>2, <2>3, <2>4 DEF ExecsKnown
<1>10. ASSUME ~Lagging PROVE FirstCopies'
  <2>1. ASSUME NEW s \in Strats PROVE FillsOf(stream)' \cap Reached(s)' = {}
    <3>1. ASSUME NEW e \in FillsOf(stream'), e \in Reached(s)' PROVE FALSE
      <4>1. e \in Reached(s) \/ Pushed(gw, M, s, e)
        BY <1>4, <3>1
      <4>2. e \notin Reached(s)
        BY <1>1, <1>10, <3>1 DEF Bookings, FirstCopies
      <4> QED BY <1>5, <1>10, <3>1, <4>1, <4>2
    <3>2. FillsOf(stream)' = FillsOf(stream')
      BY DEF FillsOf
    <3> QED BY <3>1, <3>2
  <2>3. ASSUME NEW m \in Range(gw'.parked) PROVE m.e \notin FillsOf(stream')
    BY <1>1, <1>10, <2>3 DEF Bookings, FirstCopies, Moves, Fresh
  <2> QED BY <2>1, <2>3 DEF FirstCopies, FillsOf
<1>11. ASSUME ~Lagging PROVE ParkedWait'
  <2>1. ASSUME NEW m \in Range(gw'.parked)
        PROVE  /\ Trader(m.e) \notin Attached(gw)
               /\ ~m.replayed => \A s \in Strats : m.e \notin Reached(s)'
    <3>1. \/ m \in Range(gw.parked)
          \/ m \in M /\ Trader(m.e) \notin Attached(gw)
      BY <1>1, <2>1 DEF Moves
    <3>2. Trader(m.e) \notin Attached(gw) /\ (~m.replayed => \A s \in Strats : m.e \notin Reached(s))
      BY <1>1, <1>11, <3>1 DEF Bookings, ParkedWait, Fresh
    <3>3. \A s \in Strats : ~Pushed(gw, M, s, m.e)
      BY <1>5, <3>2
    <3> QED BY <1>4, <3>2, <3>3
  <2> QED BY <1>2, <1>t, <2>1 DEF ParkedWait
<1>12. ASSUME ~Lagging PROVE NotTwice'
  <2> SUFFICES ASSUME NEW s \in Strats
               PROVE  /\ (eng[s].restored \cap (Executions(eng[s].log) \cup FillsOf(gw.ring[s])))' = {}
                      /\ proc'[s] /\ s \in Attached(gw)' =>
                           \A e \in eng'[s].restored :
                             HeldBy(gw'.route[s], e) /\ execs'[e].id.epoch # gw'.route[s].epoch
                      /\ \A e \in gw'.seed[s].held : HeldBy(gw'.seed[s], e) /\ e \notin gw'.booked
    BY DEF NotTwice, HeldBy
  <2>1. /\ eng[s].restored \cap (Executions(eng[s].log) \cup FillsOf(gw.ring[s])) = {}
        /\ proc[s] /\ s \in Attached(gw) =>
             \A e \in eng[s].restored :
               HeldBy(gw.route[s], e) /\ execs[e].id.epoch # gw.route[s].epoch
        /\ \A e \in gw.seed[s].held : HeldBy(gw.seed[s], e) /\ e \notin gw.booked
    BY <1>12 DEF Bookings, NotTwice
  <2>2. ASSUME NEW e \in eng[s].restored, Pushed(gw, M, s, e) PROVE FALSE
    <3>1. proc[s]
      BY <2>2, NewEngineFacts DEF Bookings, Running
    <3>2. PICK m \in M : /\ m.e = e /\ Trader(e) = s /\ s \in Attached(gw)
               /\ ~(m.replayed /\ execs[e].id.epoch # gw.route[s].epoch /\ HeldBy(gw.route[s], e))
      BY <2>2 DEF Pushed
    <3>3. e \in Reached(s)
      BY <2>2 DEF Reached
    <3>4. m.replayed
      BY <1>1, <1>12, <3>2, <3>3 DEF Fresh
    <3> QED BY <2>1, <2>2, <3>1, <3>2, <3>4
  <2>3. (eng[s].restored \cap (Executions(eng[s].log) \cup FillsOf(gw.ring[s])))' = {}
    <3>1. /\ eng'[s].restored = eng[s].restored /\ Executions(eng[s].log)' = Executions(eng[s].log)
          /\ FillsOf(gw.ring[s])' = FillsOf(gw'.ring[s])
      BY <1>1 DEF Executions, FillsOf
    <3> QED BY <1>3, <2>1, <2>2, <3>1
  <2>4. ASSUME proc'[s], s \in Attached(gw)', NEW e \in eng'[s].restored
        PROVE  HeldBy(gw'.route[s], e) /\ execs'[e].id.epoch # gw'.route[s].epoch
    <3>1. SameRoute(gw.route[s], gw'.route[s]) /\ s \in Attached(gw)
      BY <1>2, <2>4 DEF Attached
    <3> QED BY <1>1, <2>1, <2>4, <3>1 DEF SameRoute, HeldBy
  <2>5. ASSUME NEW e \in gw'.seed[s].held PROVE HeldBy(gw'.seed[s], e) /\ e \notin gw'.booked
    <3>1. e \in gw.seed[s].held /\ e \in Reached(s) /\ HeldBy(gw.seed[s], e) /\ e \notin gw.booked
      BY <1>2, <2>1, <2>5 DEF Reached
    <3>2. Trader(e) = s
      BY <3>1 DEF Bookings, ExecsKnown
    <3>3. ~Booked(gw, M, e)
      <4>1. ASSUME NEW m \in M, m.e = e, ~(m.replayed /\ HeldBy(gw.seed[Trader(e)], e)) PROVE FALSE
        BY <1>1, <1>12, <3>1, <3>2, <4>1 DEF Fresh
      <4> QED BY <4>1 DEF Booked
    <3>4. e \notin gw'.booked
      BY <1>1, <3>1, <3>3 DEF Moves
    <3> QED BY <1>2, <3>1, <3>4
  <2> QED BY <2>3, <2>4, <2>5
<1>13. OneCopy(stream)'
  BY <1>1 DEF OneCopy
<1> QED BY <1>13, <1>6, <1>7, <1>8, <1>9, <1>10, <1>11, <1>12 DEF Bookings

\* What the stream's event does.
LEMMA OnStreamEffect ==
  ASSUME TypeOK, Bookings, OnStream
  PROVE  \E M : /\ Moves(gw, gw', M) /\ Silent(gw, gw') /\ Fresh(M)
                /\ FillsOf(stream') \subseteq FillsOf(stream) /\ OneCopy(stream')
                /\ conn' \in Connectors /\ stream' \in Seq(Events)
<1>1. /\ stream \in Seq(Events) /\ stream # <<>> /\ gw \in Gateways /\ conn \in Connectors
      /\ stream' = Tail(stream)
  BY DEF TypeOK, OnStream
<1>2. PICK x : x = Head(stream)
  OBVIOUS
<1>3. x \in Events /\ x \in Range(stream) /\ stream' \in Seq(Events)
  BY <1>1, <1>2, RangeTail
<1>4. /\ FillsOf(stream') \subseteq FillsOf(stream) /\ OneCopy(stream')
      /\ x.type = "fill" => x.e \in FillsOf(stream)
  BY <1>1, <1>2, OneCopyTail, TypeFacts
<1>5. PICK id : id = IF x.type = "fill" THEN execs[x.e].id ELSE x.id
  OBVIOUS
<1>6. PICK r : r = gw'
  OBVIOUS
<1>7. /\ r = IF x.type = "fill" THEN RouteFill(gw, [e |-> x.e, replayed |-> FALSE]) ELSE RouteEnd(gw, id)
      /\ conn' = [conn EXCEPT !.answered = @ \cup {id}]
  BY <1>2, <1>5, <1>6 DEF OnStream
<1>8. ASSUME id \in Ids PROVE conn' \in Connectors
  <2> DEFINE a == conn.answered \cup {id}
  <2>1. a \in SUBSET Ids
    BY <1>1, <1>8 DEF Connectors
  <2>2. conn' = [conn EXCEPT !.answered = a]
    BY <1>7
  <2> HIDE DEF a
  <2> QED BY <1>1, <2>1, <2>2 DEF Connectors
<1>9. CASE x.type = "fill"
  <2> DEFINE m == [e |-> x.e, replayed |-> FALSE]
  <2>1. x.e \in DOMAIN execs
    BY <1>4, <1>9 DEF Bookings, ExecsKnown
  <2>2. id \in Ids /\ x.e \in Nat
    BY <1>5, <1>9, <2>1, TraderType, TypeFacts
  <2>3. m \in Parkable /\ m.e = x.e /\ m.replayed = FALSE
    BY <2>2 DEF Parkable
  <2>4. r = RouteFill(gw, m)
    BY <1>7, <1>9
  <2> HIDE DEF m
  <2>5. PICK M : M = {m}
    OBVIOUS
  <2>6. Moves(gw, r, M) /\ Silent(gw, r)
    BY <2>1, <2>3, <2>4, <2>5, RouteFillMoves, TypeFacts
  <2>7. x.e \notin FillsOf(stream')
    BY <1>1, <1>2, <1>9, OneCopyHead, TypeFacts
  <2>8. ~Lagging => \A s \in Strats : x.e \notin Reached(s)
    BY <1>4, <1>9 DEF Bookings, FirstCopies
  <2>9. Fresh(M)
    BY <2>1, <2>3, <2>5, <2>7, <2>8 DEF Fresh
  <2> QED BY <1>3, <1>4, <1>6, <1>8, <2>2, <2>6, <2>9
<1>10. CASE x.type # "fill"
  <2>1. id = x.id /\ x.id \in Ids /\ r = RouteEnd(gw, id)
    BY <1>3, <1>5, <1>7, <1>10 DEF Events
  <2>2. Quiet(gw, r)
    BY <2>1, RouteEndQuiet
  <2>3. Moves(gw, r, {}) /\ Silent(gw, r)
    BY <2>2, QuietMoves
  <2>4. Fresh({})
    BY DEF Fresh
  <2> QED BY <1>3, <1>4, <1>6, <1>8, <2>1, <2>3, <2>4
<1> QED BY <1>9, <1>10

LEMMA OnStreamStays ==
  ASSUME TypeOK, Bookings, OnStream
  PROVE  Stays
<1>1. PICK M : /\ Moves(gw, gw', M) /\ Silent(gw, gw') /\ Fresh(M)
               /\ FillsOf(stream') \subseteq FillsOf(stream) /\ OneCopy(stream')
               /\ conn' \in Connectors /\ stream' \in Seq(Events)
  BY OnStreamEffect
<1>2. TypeOK'
  BY <1>1 DEF OnStream, TypeOK, strategy, Moves
<1>3. NewOnWire' = NewOnWire
  BY SameWire DEF OnStream
<1>4. RoutesStep(M)
  BY <1>1, <1>3 DEF RoutesStep, OnStream, strategy
<1> QED BY <1>2, <1>4, RoutesBookings DEF Stays

LEMMA OnReplayConn ==
  ASSUME TypeOK, OnReplay
  PROVE  /\ conn' \in Connectors /\ conn'.answered = conn.answered /\ conn'.rows = conn.rows
         /\ \/ conn'.phase = conn.phase /\ conn'.mark = conn.mark
            \/ conn'.phase = "asked" /\ conn'.mark = SentMark(gw, conn)
<1>1. conn \in Connectors /\ gw \in Gateways /\ execs \in Seq(Trades)
  BY DEF TypeOK
<1>2. Len(execs) + 1 \in Nat /\ conn.again \in Nat
  BY <1>1 DEF Connectors
<1>3. CASE conn.again > 0
  <2>1. PICK a : a = Min({Len(execs) + 1, conn.again})
    OBVIOUS
  <2>2. a \in Nat
    <3>1. {Len(execs) + 1, conn.again} \in SUBSET Nat /\ {Len(execs) + 1, conn.again} # {}
      BY <1>2
    <3> QED BY <2>1, <3>1, MinIsMember
  <2>3. conn' = [conn EXCEPT !.from = a, !.again = 0]
    BY <1>3, <2>1 DEF OnReplay
  <2> QED BY <1>1, <2>2, <2>3 DEF Connectors
<1>4. CASE ~(conn.again > 0) /\ conn.phase = "replay"
  <2>1. PICK a : a = SentMark(gw, conn)
    OBVIOUS
  <2>2. a \in Ids
    BY <1>1, <2>1, SentMarkType
  <2>3. conn' = [conn EXCEPT !.from = Len(execs) + 1, !.active = FALSE, !.phase = "asked", !.mark = a]
    BY <1>4, <2>1 DEF OnReplay
  <2>4. PICK n : n = Len(execs) + 1
    OBVIOUS
  <2> QED BY <1>1, <1>2, <2>1, <2>2, <2>3, <2>4 DEF Connectors
<1>5. CASE ~(conn.again > 0) /\ conn.phase # "replay"
  BY <1>1, <1>2, <1>5 DEF OnReplay, Connectors
<1> QED BY <1>3, <1>4, <1>5

LEMMA OnReplayMoves ==
  ASSUME TypeOK, Bookings, OnReplay
  PROVE  Moves(gw, gw', Rows) /\ Silent(gw, gw')
<1>1. PICK r : r = gw'
  OBVIOUS
<1>2. r = ReplayAll(gw, conn)
  BY <1>1 DEF OnReplay, ReplayAll
<1>3. r \in Reach(gw, Rows)
  BY <1>2, ReplayAllMoves, TypeFacts
<1> QED BY <1>1, <1>3 DEF Reach

LEMMA OnReplayStays ==
  ASSUME TypeOK, Bookings, OnReplay
  PROVE  Stays
<1>1. Moves(gw, gw', Rows) /\ conn' \in Connectors
  BY OnReplayMoves, OnReplayConn
<1>2. TypeOK'
  BY <1>1 DEF OnReplay, TypeOK, strategy, venue, Moves
<1>3. NewOnWire' = NewOnWire /\ OneCopy(stream)
  BY SameWire, TypeFacts DEF OnReplay, venue
<1>4. ASSUME ~Lagging PROVE FillsOf(stream) = {}
  <2>1. \A i \in DOMAIN stream : stream[i].type # "fill"
    BY <1>4 DEF OnReplay
  <2> QED BY <2>1 DEF FillsOf, Range
<1>5. Fresh(Rows)
  <2>1. \A m \in Rows : m \in Parkable /\ m.e \in DOMAIN execs /\ m.replayed
    <3>1. \A e \in DOMAIN execs : e \in Nat
      BY DEF TypeOK
    <3>2. ASSUME NEW m \in Rows PROVE m \in Parkable /\ m.e \in DOMAIN execs /\ m.replayed
      <4>1. PICK e \in DOMAIN execs : m = [e |-> e, replayed |-> TRUE]
        BY <3>2, Zenon DEF Rows
      <4> QED BY <3>1, <4>1 DEF Parkable
    <3> QED BY <3>2
  <2>2. stream' = stream
    BY DEF OnReplay, venue
  <2> QED BY <1>4, <2>1, <2>2 DEF Fresh
<1>6. RoutesStep(Rows)
  BY <1>1, <1>3, <1>5 DEF RoutesStep, OnReplay, strategy, venue
<1> QED BY <1>2, <1>6, RoutesBookings DEF Stays

LEMMA NewGatewayFacts ==
  /\ NewGateway \in Gateways /\ NewGateway.hist = <<>> /\ NewGateway.parked = <<>>
  /\ NewGateway.booked = {} /\ NewGateway.seeded = {}
  /\ \A s \in Strats : /\ NewGateway.route[s] = NoRoute /\ NewGateway.ring[s] = NoReader
                       /\ NewGateway.seed[s].held = {}
<1> DEFINE route == [s \in Strats |-> NoRoute]
           ring == [s \in Strats |-> NoReader]
           seed == [s \in Strats |-> NoSeed]
<1>1. NoSeed \in Seeds /\ NoSeed.held = {}
  BY DEF NoSeed, Seeds
<1>2. /\ route \in [Strats -> Routes] /\ ring \in [Strats -> Seq(Messages)]
      /\ seed \in [Strats -> Seeds]
      /\ \A s \in Strats : route[s] = NoRoute /\ ring[s] = NoReader /\ seed[s] = NoSeed
  BY <1>1, NoRouteType, NoReaderFacts
<1>3. NoOrders \in Orders
  BY OrdersFacts DEF NoOrders
<1>4. <<>> \in Seq(Ids) /\ <<>> \in Seq(Parkable)
  OBVIOUS
<1>5. NewGateway = [route |-> route, ring |-> ring, orders |-> NoOrders, hist |-> <<>>, sweep |-> FALSE,
                    killed |-> FALSE, seeded |-> {}, seed |-> seed, booked |-> {},
                    parked |-> <<>>, cancels |-> {}]
  BY DEF NewGateway
<1> HIDE DEF route, ring, seed
<1>6. /\ NewGateway \in Gateways /\ NewGateway.hist = <<>> /\ NewGateway.parked = <<>>
      /\ NewGateway.booked = {} /\ NewGateway.seeded = {} /\ NewGateway.route = route
      /\ NewGateway.ring = ring /\ NewGateway.seed = seed
  BY <1>2, <1>3, <1>4, <1>5 DEF Gateways
<1> QED BY <1>1, <1>2, <1>6

LEMMA NewConnectorFacts ==
  ASSUME execs \in Seq(Trades)
  PROVE  /\ NewConnector \in Connectors /\ NewConnector.phase = "idle" /\ NewConnector.answered = {}
         /\ NewConnector.rows = {}
<1>1. Len(execs) + 1 \in Nat /\ NoId \in Ids
  BY DEF NoId, Ids
<1> QED BY <1>1 DEF NewConnector, Connectors

\* A gateway that was killed: the rings are the engines'.
Restarted(h) ==
  /\ h \in Gateways /\ h.ring = gw.ring /\ h.hist = <<>> /\ h.parked = <<>> /\ h.booked = {}
  /\ \A s \in Strats : h.route[s] = NoRoute /\ h.seed[s].held = {}

LEMMA GatewayCrashEffect ==
  ASSUME TypeOK, GatewayCrash
  PROVE  Restarted(gw')
<1>1. PICK h : h = gw'
  OBVIOUS
<1>2. h = [NewGateway EXCEPT !.ring = gw.ring] /\ gw \in Gateways
  BY <1>1 DEF GatewayCrash, TypeOK
<1>3. gw.ring \in [Strats -> Seq(Messages)]
  BY <1>2, GatewayFields
<1>4. PICK q : q = gw.ring
  OBVIOUS
<1>5. PICK g : g = NewGateway
  OBVIOUS
<1>6. /\ g \in Gateways /\ g.hist = <<>> /\ g.parked = <<>> /\ g.booked = {}
      /\ \A s \in Strats : g.route[s] = NoRoute /\ g.seed[s].held = {}
  BY <1>5, NewGatewayFacts
<1>7. h = [g EXCEPT !.ring = q] /\ q \in [Strats -> Seq(Messages)]
  BY <1>2, <1>3, <1>4, <1>5
<1>8. /\ h \in Gateways /\ h.ring = q /\ h.hist = g.hist /\ h.parked = g.parked /\ h.booked = g.booked
      /\ h.route = g.route /\ h.seed = g.seed
  BY <1>6, <1>7 DEF Gateways
<1> QED BY <1>1, <1>4, <1>6, <1>8 DEF Restarted

LEMMA GatewayCrashStays ==
  ASSUME TypeOK, Bookings, GatewayCrash
  PROVE  Stays
<1>1. Restarted(gw')
  BY GatewayCrashEffect
<1>2. /\ proc' = proc /\ eng' = eng /\ store' = store /\ sessions' = sessions /\ execs' = execs
      /\ resting' = resting /\ wire' = {} /\ resp' = <<>> /\ stream' = <<>> /\ tripped' = tripped
      /\ conn' = NewConnector /\ left' \in Budgets
  BY SpendType DEF GatewayCrash, strategy, TypeOK
<1>3. TypeOK'
  <2>1. conn' \in Connectors
    BY <1>2, NewConnectorFacts DEF TypeOK
  <2>2. wire' \in SUBSET Commands /\ resp' \in Seq(Responses) /\ stream' \in Seq(Events)
    BY <1>2
  <2> QED BY <1>1, <1>2, <2>1, <2>2 DEF TypeOK, Restarted
<1>4. ASSUME NEW s \in Strats
      PROVE  /\ gw'.ring[s] = gw.ring[s] /\ gw'.route[s] = NoRoute /\ gw'.seed[s].held = {}
             /\ FillsOf(gw.ring[s])' = FillsOf(gw.ring[s])
             /\ Executions(eng[s].log)' = Executions(eng[s].log)
  BY <1>1, <1>2 DEF Restarted, FillsOf, Executions
<1>5. \A s \in Strats : Reached(s)' \subseteq Reached(s)
  BY <1>2, <1>4 DEF Reached
<1>6. Running'
  BY <1>2, <1>4 DEF Bookings, Running, NewEngine, NoReader
<1>7. gw'.booked = {} /\ Range(gw'.parked) = {}
  BY <1>1, RangeEmpty DEF Restarted
<1>8. FillsOf(stream') = {} /\ OneCopy(stream')
  BY <1>2, OneCopyEmpty
<1>9. \A id \in resting' \cup NewOnWire' : id.epoch \in DOMAIN sessions
  <2>1. NewOnWire' = {}
    BY <1>2 DEF NewOnWire
  <2> QED BY <1>2, <2>1, TypeFacts
<1>10. Shrinks
  BY <1>2, <1>4, <1>5, <1>6, <1>7, <1>8, <1>9 DEF Shrinks
<1> QED BY <1>3, <1>10, BookingsShrink DEF Stays

\* The venue's new execution, and what the stream says of it.
Filled(id) ==
  /\ execs' \in Seq(Trades) /\ Len(execs) \in Nat /\ DOMAIN execs = 1 .. Len(execs)
  /\ DOMAIN execs' = DOMAIN execs \cup {Len(execs) + 1} /\ Len(execs) + 1 \notin DOMAIN execs
  /\ execs'[Len(execs) + 1].id = id /\ \A e \in DOMAIN execs : execs'[e] = execs[e]
  /\ stream' \in Seq(Events) /\ OneCopy(stream')
  /\ FillsOf(stream') \subseteq FillsOf(stream) \cup {Len(execs) + 1}
  /\ \A x \in Range(stream') : x.type = "ended" => x \in Range(stream)
  /\ resting' \in SUBSET resting /\ left' \in Budgets

LEMMA VenueFillsEffect ==
  ASSUME TypeOK, Bookings, NEW id \in resting, VenueFills(id)
  PROVE  Filled(id)
<1>1. execs \in Seq(Trades) /\ id \in Ids /\ stream \in Seq(Events) /\ OneCopy(stream) /\ resting \in SUBSET Ids
  BY TypeFacts DEF TypeOK
<1>2. PICK last \in BOOLEAN : /\ execs' = Append(execs, [id |-> id, last |-> last])
                             /\ resting' = IF last THEN resting \ {id} ELSE resting
  BY DEF VenueFills
<1>3. PICK t : t = [id |-> id, last |-> last]
  OBVIOUS
<1>4. t \in Trades /\ t.id = id
  BY <1>1, <1>3 DEF Trades
<1>5. /\ execs' \in Seq(Trades) /\ Len(execs) \in Nat /\ DOMAIN execs = 1 .. Len(execs)
      /\ DOMAIN execs' = 1 .. Len(execs) + 1
      /\ execs'[Len(execs) + 1] = t /\ \A e \in DOMAIN execs : execs'[e] = execs[e]
  BY <1>1, <1>2, <1>3, <1>4
<1>6. DOMAIN execs' = DOMAIN execs \cup {Len(execs) + 1} /\ Len(execs) + 1 \notin DOMAIN execs
  BY <1>5
<1>7. PICK m : m = [type |-> "fill", e |-> Len(execs) + 1]
  OBVIOUS
<1>8. m \in Events /\ m.type = "fill" /\ m.e = Len(execs) + 1
  BY <1>5, <1>7 DEF Events
<1>9. Len(execs) + 1 \notin FillsOf(stream)
  BY <1>6 DEF Bookings, ExecsKnown
<1>10. stream' = stream \/ stream' = Append(stream, m)
  BY <1>7 DEF VenueFills, Publish
<1>a. PICK q : q = Append(stream, m)
  OBVIOUS
<1>b. q \in Seq(Events) /\ OneCopy(q) /\ FillsOf(q) \subseteq FillsOf(stream) \cup {m.e}
  BY <1>1, <1>8, <1>9, <1>a, OneCopyAppend
<1>c. Range(q) = Range(stream) \cup {m}
  BY <1>1, <1>8, <1>a, RangeAppend
<1>d. stream' = stream \/ stream' = q
  BY <1>10, <1>a
<1>11. /\ stream' \in Seq(Events) /\ OneCopy(stream')
       /\ FillsOf(stream') \subseteq FillsOf(stream) \cup {Len(execs) + 1}
  BY <1>1, <1>8, <1>b, <1>d
<1>12. \A x \in Range(stream') : x.type = "ended" => x \in Range(stream)
  <2>1. CASE stream' = stream
    BY <2>1
  <2>2. CASE stream' = q
    BY <1>8, <1>c, <2>2
  <2> QED BY <1>d, <2>1, <2>2
<1>13. left' \in Budgets
  BY SpendType DEF VenueFills, TypeOK
<1> QED BY <1>2, <1>4, <1>5, <1>6, <1>11, <1>12, <1>13 DEF Filled

LEMMA VenueFillsStays ==
  ASSUME TypeOK, Bookings, NEW id \in resting, VenueFills(id)
  PROVE  Stays
<1>1. Filled(id)
  BY VenueFillsEffect
<1>2. /\ proc' = proc /\ eng' = eng /\ store' = store /\ sessions' = sessions /\ gw' = gw
      /\ wire' = wire /\ resp' = resp /\ conn' = conn /\ tripped' = tripped
  BY DEF VenueFills, strategy
<1>3. TypeOK'
  BY <1>1, <1>2 DEF TypeOK, Filled
<1>4. \A s \in Strats : Reached(s)' = Reached(s)
  BY <1>2 DEF Reached, Executions, FillsOf
<1>5. \A e \in DOMAIN execs : e \in DOMAIN execs' /\ Trader(e)' = Trader(e)
  BY <1>1, <1>2 DEF Trader, Filled
<1>6. ASSUME NEW s \in Strats, NEW e \in Reached(s) PROVE e \in DOMAIN execs /\ Trader(e) = s
  BY DEF Bookings, ExecsKnown
<1>7. Attached(gw)' = Attached(gw) /\ Range(gw'.parked) = Range(gw.parked)
  BY <1>2 DEF Attached
<1>8. Running' /\ Routed'
  BY <1>2, <1>7 DEF Bookings, Running, Routed, NewEngine, NoReader
<1>9. IdsKnown'
  <2>1. NewOnWire' = NewOnWire
    BY <1>2 DEF NewOnWire
  <2>2. \A i \in resting \cup NewOnWire : i.epoch \in DOMAIN sessions
    BY TypeFacts
  <2>3. ASSUME NEW e \in DOMAIN execs' PROVE execs'[e].id.epoch \in DOMAIN sessions
    <3>1. CASE e \in DOMAIN execs
      BY <1>1, <3>1 DEF Filled, Bookings, IdsKnown
    <3>2. CASE e = Len(execs) + 1
      BY <1>1, <2>2, <3>2 DEF Filled
    <3> QED BY <1>1, <3>1, <3>2 DEF Filled
  <2> QED BY <1>1, <1>2, <2>1, <2>2, <2>3 DEF Filled, IdsKnown
<1>10. ExecsKnown'
  <2>1. ASSUME NEW s \in Strats, NEW e \in Reached(s)' PROVE e \in DOMAIN execs' /\ Trader(e)' = s
    BY <1>4, <1>5, <1>6
  <2>2. FillsOf(stream)' \subseteq DOMAIN execs'
    <3>1. FillsOf(stream) \subseteq DOMAIN execs /\ FillsOf(stream)' = FillsOf(stream')
      BY DEF Bookings, ExecsKnown, FillsOf
    <3> QED BY <1>1, <3>1 DEF Filled
  <2>3. ASSUME NEW m \in Range(gw'.parked) PROVE m.e \in DOMAIN execs'
    BY <1>5, <1>7 DEF Bookings, ExecsKnown
  <2>4. ASSUME NEW e \in gw'.booked PROVE e \in DOMAIN execs' /\ Trader(e)' \in gw'.seeded
    BY <1>2, <1>5 DEF Bookings, ExecsKnown
  <2> QED BY <2>1, <2>2, <2>3, <2>4 DEF ExecsKnown
<1>11. ASSUME ~Lagging PROVE FirstCopies'
  <2>0. FillsOf(stream)' \subseteq FillsOf(stream) \cup {Len(execs) + 1} /\ Len(execs) + 1 \notin DOMAIN execs
    BY <1>1 DEF Filled, FillsOf
  <2>1. ASSUME NEW s \in Strats PROVE FillsOf(stream)' \cap Reached(s)' = {}
    BY <1>4, <1>6, <1>11, <2>0 DEF Bookings, FirstCopies
  <2>3. ASSUME NEW m \in Range(gw'.parked) PROVE m.e \notin FillsOf(stream)'
    BY <1>7, <1>11, <2>0 DEF Bookings, FirstCopies, ExecsKnown
  <2> QED BY <2>1, <2>3 DEF FirstCopies
<1>12. ASSUME ~Lagging PROVE ParkedWait'
  <2>1. ASSUME NEW m \in Range(gw'.parked) PROVE Trader(m.e)' = Trader(m.e)
    BY <1>5, <1>7 DEF Bookings, ExecsKnown
  <2> QED BY <1>4, <1>7, <1>12, <2>1 DEF Bookings, ParkedWait
<1>13. ASSUME ~Lagging PROVE NotTwice'
  <2> SUFFICES ASSUME NEW s \in Strats
               PROVE  /\ (eng[s].restored \cap (Executions(eng[s].log) \cup FillsOf(gw.ring[s])))' = {}
                      /\ proc'[s] /\ s \in Attached(gw)' =>
                           \A e \in eng'[s].restored :
                             HeldBy(gw'.route[s], e) /\ execs'[e].id.epoch # gw'.route[s].epoch
                      /\ \A e \in gw'.seed[s].held : HeldBy(gw'.seed[s], e) /\ e \notin gw'.booked
    BY DEF NotTwice, HeldBy
  <2>1. /\ eng[s].restored \cap (Executions(eng[s].log) \cup FillsOf(gw.ring[s])) = {}
        /\ proc[s] /\ s \in Attached(gw) =>
             \A e \in eng[s].restored :
               HeldBy(gw.route[s], e) /\ execs[e].id.epoch # gw.route[s].epoch
        /\ \A e \in gw.seed[s].held : HeldBy(gw.seed[s], e) /\ e \notin gw.booked
    BY <1>13 DEF Bookings, NotTwice
  <2>2. \A e \in eng[s].restored : execs'[e] = execs[e]
    BY <1>1, <1>6 DEF Reached, Filled
  <2>3. (eng[s].restored \cap (Executions(eng[s].log) \cup FillsOf(gw.ring[s])))' = {}
    BY <1>2, <2>1 DEF Executions, FillsOf
  <2> QED BY <1>2, <1>7, <2>1, <2>2, <2>3
<1>14. OneCopy(stream)'
  BY <1>1 DEF Filled, OneCopy
<1> QED BY <1>14, <1>3, <1>8, <1>9, <1>10, <1>11, <1>12, <1>13 DEF Stays, Bookings

\* The connector is as far with its reconciliation as it was, or begins one.
ConnKept(c, d) ==
  /\ d \in Connectors /\ d.answered = c.answered /\ d.rows = c.rows /\ d.mark = c.mark
  /\ d.phase = c.phase \/ d.phase = "replay"

LEMMA RequestKeeps ==
  ASSUME NEW c \in Connectors, NEW r, r = Request(c)
  PROVE  ConnKept(c, r)
<1>1. CASE c.phase = "idle"
  <2>1. r = RunReplay([c EXCEPT !.phase = "replay"])
    BY <1>1 DEF Request
  <2> QED BY <2>1 DEF RunReplay, Connectors, ConnKept
<1>2. CASE c.phase # "idle"
  <2>1. r = [c EXCEPT !.pending = TRUE]
    BY <1>2 DEF Request
  <2> QED BY <2>1 DEF Connectors, ConnKept
<1> QED BY <1>1, <1>2

LEMMA ResumeKeeps ==
  ASSUME NEW c \in Connectors, NEW since \in Nat, NEW known \in SUBSET Nat,
         NEW r, r = RunReplay(Resume(c, since, known))
  PROVE  ConnKept(c, r)
<1>1. PICK d : d = Resume(c, since, known)
  OBVIOUS
<1>2. d \in Connectors
  BY <1>1, ResumeType
<1>3. d.answered = c.answered /\ d.rows = c.rows /\ d.mark = c.mark /\ d.phase = c.phase
  <2>1. CASE c.active
    <3> DEFINE k == c.known \cup known
               a == IF c.again = 0 THEN since ELSE Min({c.again, since})
    <3>1. d = [c EXCEPT !.known = k, !.again = a]
      BY <1>1, <2>1, Zenon DEF Resume
    <3> HIDE DEF k, a
    <3> QED BY <3>1 DEF Connectors
  <2>2. CASE ~c.active
    <3>1. d = [c EXCEPT !.known = known, !.from = since]
      BY <1>1, <2>2, Zenon DEF Resume
    <3> QED BY <3>1 DEF Connectors
  <2> QED BY <2>1, <2>2
<1>4. r = [d EXCEPT !.active = TRUE]
  BY <1>1, Zenon DEF RunReplay
<1> QED BY <1>2, <1>3, <1>4 DEF Connectors, ConnKept

\* The gateway with an attachment of s, before the parked executions are routed again.
Opened(g, s, since) ==
  /\ g \in Gateways /\ g.hist = gw.hist /\ g.booked = gw.booked /\ g.parked = <<>>
  /\ g.seeded = gw.seeded \cup {s} /\ g.ring[s] = <<>> /\ g.route[s] # NoRoute
  /\ g.route[s].epoch = Len(sessions) + 1 /\ g.route[s].from = since
  /\ g.route[s].known = {e \in store[s].held : e >= since}
  /\ s \in gw.seeded => g.seed[s] = gw.seed[s]
  /\ s \notin gw.seeded => /\ g.seed[s].held = store[s].held /\ g.seed[s].from = since
                           /\ g.seed[s].known = {e \in store[s].held : e >= since}
  /\ \A t \in Strats \ {s} :
       g.route[t] = gw.route[t] /\ g.ring[t] = gw.ring[t] /\ g.seed[t] = gw.seed[t]

\* What an attachment is told of the executions its strategy has.
KnownOf(s, since) == {e \in store[s].held : e >= since}
RouteOf(s, since) ==
  [NoRoute EXCEPT !.epoch = Len(sessions) + 1, !.from = since, !.known = KnownOf(s, since)]

LEMMA RouteOfFacts ==
  ASSUME TypeOK, NEW s \in Strats, NEW since \in Nat, NEW r, r = RouteOf(s, since)
  PROVE  /\ r \in Routes /\ r # NoRoute /\ r.epoch = Len(sessions) + 1 /\ r.from = since
         /\ r.known = KnownOf(s, since)
<1>1. store[s].held \in SUBSET Nat /\ Len(sessions) + 1 \in Nat \ {0}
  BY DEF TypeOK, Stores
<1>2. PICK n \in Nat \ {0} : n = Len(sessions) + 1
  BY <1>1
<1>3. PICK k \in SUBSET Nat : k = KnownOf(s, since)
  BY <1>1 DEF KnownOf
<1>4. r = [epoch |-> n, from |-> since, known |-> k, unparked |-> {}, snap |-> FALSE]
  BY <1>2, <1>3 DEF NoRoute, RouteOf
<1>5. r \in Routes /\ r.epoch = n /\ r.from = since /\ r.known = k
  BY <1>4 DEF Routes
<1>6. NoRoute.epoch = 0
  BY DEF NoRoute
<1> QED BY <1>2, <1>3, <1>5, <1>6

WithRoute(s, route, seed) ==
  [gw EXCEPT !.route[s] = route, !.ring[s] = <<>>,
             !.seed[s] = IF s \in gw.seeded THEN @ ELSE seed,
             !.seeded = @ \cup {s}]
Cleared(g) == [g EXCEPT !.parked = <<>>]

LEMMA OpenedFacts ==
  ASSUME TypeOK, NEW s \in Strats, NEW since \in Nat, NEW known, NEW route, NEW seed, NEW g, NEW h,
         known = KnownOf(s, since), route = RouteOf(s, since),
         seed = [held |-> store[s].held, from |-> since, known |-> known],
         g = WithRoute(s, route, seed), h = Cleared(g)
  PROVE  Opened(h, s, since) /\ g.parked = gw.parked
<1>1. /\ gw \in Gateways /\ store[s].held \in SUBSET Nat /\ Len(sessions) + 1 \in Nat
      /\ Len(sessions) \in Nat
  BY DEF TypeOK, Stores
<1>2. known \in SUBSET Nat
  BY <1>1 DEF KnownOf
<1>3. /\ route \in Routes /\ route.epoch = Len(sessions) + 1 /\ route.from = since
      /\ route.known = known
  BY RouteOfFacts
<1>4. route # NoRoute
  BY RouteOfFacts
<1>5. seed \in Seeds /\ seed.held = store[s].held /\ seed.from = since /\ seed.known = known
  BY <1>1, <1>2 DEF Seeds
<1>6. /\ gw.route \in [Strats -> Routes] /\ gw.ring \in [Strats -> Seq(Messages)]
      /\ gw.seed \in [Strats -> Seeds] /\ gw.seeded \in SUBSET Strats /\ <<>> \in Seq(Messages)
      /\ gw.seed[s] \in Seeds
  BY <1>1, GatewayFields
<1>7. PICK d : d = IF s \in gw.seeded THEN gw.seed[s] ELSE seed
  OBVIOUS
<1>8. PICK w : w = [gw.route EXCEPT ![s] = route]
  OBVIOUS
<1>9. PICK q : q = [gw.ring EXCEPT ![s] = <<>>]
  OBVIOUS
<1>10. PICK a : a = [gw.seed EXCEPT ![s] = d]
  OBVIOUS
<1>11. PICK u : u = gw.seeded \cup {s}
  OBVIOUS
<1>12. g = [gw EXCEPT !.route = w, !.ring = q, !.seed = a, !.seeded = u]
  BY <1>1, <1>6, <1>7, <1>8, <1>9, <1>10, <1>11 DEF Gateways, WithRoute
<1>13. /\ w \in [Strats -> Routes] /\ w[s] = route /\ \A t \in Strats \ {s} : w[t] = gw.route[t]
       /\ q \in [Strats -> Seq(Messages)] /\ q[s] = <<>> /\ \A t \in Strats \ {s} : q[t] = gw.ring[t]
       /\ u \in SUBSET Strats
  BY <1>3, <1>6, <1>8, <1>9, <1>11
<1>14. a \in [Strats -> Seeds] /\ a[s] = d /\ \A t \in Strats \ {s} : a[t] = gw.seed[t]
  BY <1>5, <1>6, <1>7, <1>10
<1>15. /\ g \in Gateways /\ g.hist = gw.hist /\ g.booked = gw.booked /\ g.parked = gw.parked
       /\ g.route = w /\ g.ring = q /\ g.seed = a /\ g.seeded = u
  BY <1>1, <1>12, <1>13, <1>14 DEF Gateways
<1>16. <<>> \in Seq(Parkable)
  OBVIOUS
<1>17. /\ h \in Gateways /\ h.hist = gw.hist /\ h.booked = gw.booked /\ h.parked = <<>>
       /\ h.route = w /\ h.ring = q /\ h.seed = a /\ h.seeded = u
  BY <1>15, <1>16 DEF Gateways, Cleared
<1>18. /\ s \in gw.seeded => h.seed[s] = gw.seed[s]
       /\ s \notin gw.seeded => /\ h.seed[s].held = store[s].held /\ h.seed[s].from = since
                                /\ h.seed[s].known = known
  BY <1>5, <1>7, <1>14, <1>17
<1>19. /\ h.route[s] = route /\ h.ring[s] = <<>> /\ h.seeded = gw.seeded \cup {s}
       /\ \A t \in Strats \ {s} :
            h.route[t] = gw.route[t] /\ h.ring[t] = gw.ring[t] /\ h.seed[t] = gw.seed[t]
  BY <1>11, <1>13, <1>14, <1>17
<1>20. known = {e \in store[s].held : e >= since}
  BY Zenon DEF KnownOf
<1>21. h.route[s].known = known /\ h.route[s].epoch = Len(sessions) + 1 /\ h.route[s].from = since
  BY <1>3, <1>19
<1> QED BY <1>4, <1>15, <1>17, <1>18, <1>19, <1>20, <1>21 DEF Opened

LEMMA SnapAskedQuiet ==
  ASSUME NEW k \in Gateways, NEW s \in Strats, k.route[s] # NoRoute,
         NEW r, r = [k EXCEPT !.route[s].snap = TRUE]
  PROVE  Quiet(k, r)
<1> DEFINE q == [k.route[s] EXCEPT !.snap = TRUE]
           w == [k.route EXCEPT ![s] = q]
<1>1. k.route \in [Strats -> Routes] /\ k.route[s] \in Routes
  BY GatewayFields
<1>2. r = [k EXCEPT !.route = w]
  BY <1>1 DEF Gateways
<1>3. /\ q \in Routes /\ q.epoch = k.route[s].epoch /\ q.from = k.route[s].from
      /\ q.known = k.route[s].known /\ q.snap = TRUE
  BY <1>1 DEF Routes
<1>4. q # NoRoute
  BY <1>3 DEF NoRoute
<1> HIDE DEF q
<1>5. w \in [Strats -> Routes] /\ w[s] = q /\ \A t \in Strats \ {s} : w[t] = k.route[t]
  BY <1>1, <1>3
<1> HIDE DEF w
<1>6. /\ r \in Gateways /\ r.route = w /\ r.ring = k.ring /\ r.hist = k.hist /\ r.seeded = k.seeded
      /\ r.seed = k.seed /\ r.booked = k.booked /\ r.parked = k.parked
  BY <1>2, <1>5 DEF Gateways
<1>7. \A t \in Strats : SameRoute(k.route[t], r.route[t])
  BY <1>3, <1>4, <1>5, <1>6 DEF SameRoute
<1> QED BY <1>6, <1>7 DEF Quiet

Attachment(s, g, since) ==
  /\ Opened(g, s, since) /\ Attached(g) = Attached(gw) \cup {s}
  /\ Moves(g, gw', Range(gw.parked)) /\ Silent(g, gw')
  /\ ConnKept(conn, conn')
  /\ proc' \in [Strats -> BOOLEAN] /\ proc'[s] /\ \A t \in Strats \ {s} : proc'[t] = proc[t]
  /\ eng' \in [Strats -> Engines] /\ \A t \in Strats \ {s} : eng'[t] = eng[t]
  /\ eng'[s].epoch = Len(sessions) + 1 /\ eng'[s].restored = store[s].held /\ eng'[s].last = 0
  /\ Executions(eng'[s].log) = {}
  /\ Len(sessions) \in Nat /\ sessions' \in Seq(Strats) /\ Len(sessions) + 1 \notin DOMAIN sessions
  /\ DOMAIN sessions' = DOMAIN sessions \cup {Len(sessions) + 1}
  /\ sessions'[Len(sessions) + 1] = s /\ \A i \in DOMAIN sessions : sessions'[i] = sessions[i]
  /\ store' = store /\ wire' = wire /\ resp' = resp /\ stream' = stream /\ resting' = resting
  /\ execs' = execs /\ tripped' = tripped /\ left' = left

LEMMA AttachEffect ==
  ASSUME TypeOK, Bookings, NEW s \in Strats, Attach(s)
  PROVE  \E g : \E since \in Nat : Attachment(s, g, since)
<1>1. /\ gw \in Gateways /\ conn \in Connectors /\ store[s] \in Stores /\ sessions \in Seq(Strats)
      /\ eng \in [Strats -> Engines] /\ proc \in [Strats -> BOOLEAN] /\ execs \in Seq(Trades)
      /\ gw.route[s] = NoRoute
  BY DEF TypeOK, Attach
<1>2. PICK since : since = IF s \in Range(sessions) THEN Since(store[s]) ELSE Len(execs) + 1
  OBVIOUS
<1>3. since \in Nat
  <2>1. Len(execs) + 1 \in Nat
    BY <1>1
  <2> QED BY <1>1, <1>2, <2>1, SinceType
<1>4. PICK known : known = KnownOf(s, since)
  OBVIOUS
<1>5. PICK route : route = RouteOf(s, since)
  OBVIOUS
<1>6. PICK seed : seed = [held |-> store[s].held, from |-> since, known |-> known]
  OBVIOUS
<1>7. PICK g : g = WithRoute(s, route, seed)
  OBVIOUS
<1>8. PICK h : h = Cleared(g)
  OBVIOUS
<1>9. Opened(h, s, since) /\ g.parked = gw.parked
  BY <1>3, <1>4, <1>5, <1>6, <1>7, <1>8, OpenedFacts
<1>10. PICK c : c = IF s \in Range(sessions) THEN RunReplay(Resume(conn, since, known)) ELSE conn
  OBVIOUS
<1>11. PICK r : r = gw'
  OBVIOUS
<1>12. /\ r = [Unpark(g) EXCEPT !.route[s].snap = TRUE] /\ conn' = Request(c)
       /\ sessions' = Append(sessions, s)
       /\ eng' = [eng EXCEPT ![s] = [NewEngine EXCEPT !.epoch = Len(sessions) + 1,
                                                      !.start = Len(execs) + 1,
                                                      !.restored = store[s].held]]
  BY <1>2, <1>4, <1>5, <1>6, <1>7, <1>10, <1>11 DEF Attach, KnownOf, RouteOf, WithRoute
<1>13. PICK k : k = Unpark(g)
  OBVIOUS
<1>14. k = DeliverAll(h, gw.parked)
  BY <1>8, <1>9, <1>13 DEF Unpark, DeliverAll, Cleared
<1>15. h \in Gateways /\ Attached(h) = Attached(gw) \cup {s} /\ h.seeded = gw.seeded \cup {s}
  BY <1>9 DEF Opened, Attached
<1>16. Attached(h) \subseteq h.seeded
  BY <1>15, TypeFacts
<1>17. gw.parked \in Seq(Parkable) /\ \A m \in Range(gw.parked) : m.e \in DOMAIN execs
  BY <1>1, GatewayFields DEF Bookings, ExecsKnown
<1>18. k \in Reach(h, Range(gw.parked))
  BY <1>14, <1>15, <1>16, <1>17, DeliverAllMoves, TypeFacts
<1>19. Moves(h, k, Range(gw.parked)) /\ Silent(h, k) /\ k \in Gateways
  BY <1>18 DEF Reach
<1>20. k.route[s] # NoRoute
  BY <1>9, <1>19 DEF Opened, Moves, SameRoute
<1>21. Quiet(k, r)
  BY <1>12, <1>13, <1>19, <1>20, SnapAskedQuiet
<1>22. Moves(h, gw', Range(gw.parked)) /\ Silent(h, gw')
  BY <1>11, <1>19, <1>21, QuietMoves, MovesTransitive, SilentTransitive
<1>23. ConnKept(conn, conn')
  <2>1. known \in SUBSET Nat
    BY <1>1, <1>4 DEF KnownOf, Stores
  <2>2. ConnKept(conn, c)
    BY <1>1, <1>3, <1>10, <2>1, ResumeKeeps DEF ConnKept
  <2>3. c \in Connectors
    BY <2>2 DEF ConnKept
  <2>4. ConnKept(c, conn')
    BY <1>12, <2>3, RequestKeeps
  <2> QED BY <2>2, <2>4 DEF ConnKept
<1>24. /\ Len(sessions) \in Nat /\ sessions' \in Seq(Strats) /\ Len(sessions) + 1 \notin DOMAIN sessions
       /\ DOMAIN sessions' = DOMAIN sessions \cup {Len(sessions) + 1}
       /\ sessions'[Len(sessions) + 1] = s /\ \A i \in DOMAIN sessions : sessions'[i] = sessions[i]
  <2>1. /\ Len(sessions) \in Nat /\ sessions' \in Seq(Strats) /\ DOMAIN sessions = 1 .. Len(sessions)
        /\ DOMAIN sessions' = 1 .. Len(sessions) + 1
        /\ sessions'[Len(sessions) + 1] = s /\ \A i \in DOMAIN sessions : sessions'[i] = sessions[i]
    BY <1>1, <1>12
  <2> QED BY <2>1
<1>25. PICK n \in Nat : n = Len(sessions) + 1
  BY <1>24
<1>26. PICK e : e = [NewEngine EXCEPT !.epoch = n, !.start = Len(execs) + 1, !.restored = store[s].held]
  OBVIOUS
<1>27. /\ e \in Engines /\ e.epoch = n /\ e.restored = store[s].held /\ e.last = 0
       /\ Executions(e.log) = {}
  <2>1. store[s].held \in SUBSET Nat /\ Len(execs) + 1 \in Nat
    BY <1>1 DEF Stores
  <2>2. PICK o \in Engines : o = NewEngine
    BY NewEngineFacts
  <2>3. o.last = 0 /\ Executions(o.log) = {}
    BY <2>2, NewEngineFacts
  <2>4. e \in Engines /\ e.epoch = n /\ e.restored = store[s].held /\ e.last = o.last /\ e.log = o.log
    BY <1>26, <2>1, <2>2 DEF Engines
  <2> QED BY <2>3, <2>4
<1>28. eng' = [eng EXCEPT ![s] = e]
  BY <1>12, <1>25, <1>26
<1>29. eng' \in [Strats -> Engines] /\ eng'[s] = e /\ \A t \in Strats \ {s} : eng'[t] = eng[t]
  BY <1>1, <1>27, <1>28
<1>30. proc' \in [Strats -> BOOLEAN] /\ proc'[s] /\ \A t \in Strats \ {s} : proc'[t] = proc[t]
  BY <1>1 DEF Attach
<1>31. /\ store' = store /\ wire' = wire /\ resp' = resp /\ stream' = stream /\ resting' = resting
       /\ execs' = execs /\ tripped' = tripped /\ left' = left
  BY DEF Attach, venue
<1>32. Executions(eng'[s].log) = {} /\ eng'[s].epoch = Len(sessions) + 1
       /\ eng'[s].restored = store[s].held /\ eng'[s].last = 0
  BY <1>25, <1>27, <1>29
<1>33. Attachment(s, h, since)
  BY <1>9, <1>15, <1>22, <1>23, <1>24, <1>29, <1>30, <1>31, <1>32 DEF Attachment
<1> QED BY <1>3, <1>33

LEMMA AttachmentBookings ==
  ASSUME TypeOK, Bookings, NEW s \in Strats, NEW g, NEW since \in Nat, Attachment(s, g, since)
  PROVE  Bookings'
<1> DEFINE M == Range(gw.parked)
           n == Len(sessions) + 1
<1>1. /\ Opened(g, s, since) /\ Attached(g) = Attached(gw) \cup {s} /\ Moves(g, gw', M)
      /\ proc'[s] /\ \A t \in Strats \ {s} : proc'[t] = proc[t]
      /\ \A t \in Strats \ {s} : eng'[t] = eng[t]
      /\ eng'[s].epoch = n /\ eng'[s].restored = store[s].held
      /\ Executions(eng'[s].log) = {}
      /\ n \notin DOMAIN sessions /\ DOMAIN sessions' = DOMAIN sessions \cup {n}
      /\ \A i \in DOMAIN sessions : sessions'[i] = sessions[i]
      /\ store' = store /\ wire' = wire /\ stream' = stream /\ resting' = resting /\ execs' = execs
  BY DEF Attachment
<1>2. /\ g \in Gateways /\ g.booked = gw.booked /\ g.parked = <<>>
      /\ g.seeded = gw.seeded \cup {s} /\ g.ring[s] = <<>> /\ g.route[s] # NoRoute
      /\ g.route[s].epoch = n /\ g.route[s].from = since
      /\ g.route[s].known = {e \in store[s].held : e >= since}
      /\ s \in gw.seeded => g.seed[s] = gw.seed[s]
      /\ s \notin gw.seeded => /\ g.seed[s].held = store[s].held /\ g.seed[s].from = since
                               /\ g.seed[s].known = {e \in store[s].held : e >= since}
      /\ \A t \in Strats \ {s} :
           g.route[t] = gw.route[t] /\ g.ring[t] = gw.ring[t] /\ g.seed[t] = gw.seed[t]
  BY <1>1 DEF Opened
<1>3. /\ gw'.seeded = g.seeded /\ gw'.seed = g.seed /\ Attached(gw') = Attached(g)
      /\ \A t \in Strats : SameRoute(g.route[t], gw'.route[t])
  BY <1>1, MovesAttached DEF Moves
<1> HIDE DEF M, n
<1>t. \A e \in DOMAIN execs : Trader(e)' = Trader(e)
  BY <1>1 DEF Trader, Bookings, IdsKnown
<1>m. ASSUME NEW m \in M
      PROVE  /\ m.e \in DOMAIN execs
             /\ ~Lagging => /\ Trader(m.e) \notin Attached(gw) /\ m.e \notin FillsOf(stream)
                            /\ ~m.replayed => \A t \in Strats : m.e \notin Reached(t)
  BY <1>m DEF M, Bookings, ExecsKnown, FirstCopies, ParkedWait
<1>p. ASSUME NEW t \in Strats, NEW e, Pushed(g, M, t, e)
      PROVE  e \in DOMAIN execs /\ Trader(e) = t /\ (~Lagging => t = s /\ e \notin FillsOf(stream))
  BY <1>1, <1>m, <1>p DEF Pushed
<1>r. ASSUME NEW t \in Strats, NEW e \in Reached(t) PROVE e \in DOMAIN execs /\ Trader(e) = t
  BY DEF Bookings, ExecsKnown
<1>4. ASSUME NEW t \in Strats, NEW e \in FillsOf(gw'.ring[t])
      PROVE  \/ t # s /\ e \in FillsOf(gw.ring[t])
             \/ Pushed(g, M, t, e)
  <2>1. PICK x \in Range(gw'.ring[t]) : x.type = "fill" /\ x.e = e
    BY <1>4 DEF FillsOf
  <2>2. x \in Range(g.ring[t]) \/ Pushed(g, M, t, x.e)
    BY <1>1, <2>1 DEF Moves
  <2>3. CASE Pushed(g, M, t, x.e)
    BY <2>1, <2>3
  <2>4. CASE x \in Range(g.ring[t])
    <3>1. t # s
      BY <1>2, <2>4, RangeEmpty
    <3> QED BY <1>2, <2>1, <2>4, <3>1 DEF FillsOf
  <2> QED BY <2>2, <2>3, <2>4
<1>5. ASSUME NEW t \in Strats, NEW e \in Reached(t)'
      PROVE  e \in Reached(t) \/ Pushed(g, M, t, e)
  <2>0. Reached(t)' = UNION {store'[t].held, Executions(eng'[t].log), eng'[t].restored,
                             FillsOf(gw'.ring[t]), gw'.seed[t].held}
    BY DEF Reached, Executions, FillsOf
  <2>1. CASE t = s
    <3>1. e \in store[s].held \/ e \in FillsOf(gw'.ring[s]) \/ e \in g.seed[s].held
      BY <1>1, <1>3, <1>5, <2>0, <2>1
    <3>2. CASE e \in FillsOf(gw'.ring[s])
      BY <1>4, <2>1, <3>2
    <3>3. CASE e \in g.seed[s].held
      BY <1>2, <2>1, <3>3 DEF Reached
    <3> QED BY <2>1, <3>1, <3>2, <3>3 DEF Reached
  <2>2. CASE t # s
    <3>1. /\ store'[t] = store[t] /\ eng'[t] = eng[t] /\ gw'.seed[t] = gw.seed[t]
      BY <1>1, <1>2, <1>3, <2>2
    <3>2. \/ e \in store[t].held \/ e \in Executions(eng[t].log) \/ e \in eng[t].restored
          \/ e \in FillsOf(gw'.ring[t]) \/ e \in gw.seed[t].held
      BY <1>5, <2>0, <3>1
    <3>3. CASE e \in FillsOf(gw'.ring[t])
      BY <1>4, <3>3 DEF Reached
    <3> QED BY <3>2, <3>3 DEF Reached
  <2> QED BY <2>1, <2>2
<1>6. Running'
  <2> SUFFICES ASSUME NEW t \in Strats
               PROVE  /\ proc'[t] => /\ eng'[t].epoch \in DOMAIN sessions'
                                     /\ \A x \in Range(gw'.ring[t]) : x.type # "no reader"
                      /\ ~proc'[t] => eng'[t] = NewEngine /\ gw'.ring[t] = NoReader
    BY DEF Running, NewEngine, NoReader
  <2>1. /\ g.ring[t] = NoReader => gw'.ring[t] = NoReader
        /\ \A x \in Range(gw'.ring[t]) : x \in Range(g.ring[t]) \/ x.type # "no reader"
    BY <1>1 DEF Moves
  <2>2. CASE t = s
    BY <1>1, <1>2, <2>1, <2>2, RangeEmpty
  <2>3. CASE t # s
    <3>1. proc'[t] = proc[t] /\ eng'[t] = eng[t] /\ g.ring[t] = gw.ring[t]
      BY <1>1, <1>2, <2>3
    <3>2. /\ proc[t] => /\ eng[t].epoch \in DOMAIN sessions
                        /\ \A x \in Range(gw.ring[t]) : x.type # "no reader"
          /\ ~proc[t] => eng[t] = NewEngine /\ gw.ring[t] = NoReader
      BY DEF Bookings, Running
    <3> QED BY <1>1, <2>1, <3>1, <3>2
  <2> QED BY <2>2, <2>3
<1>7. Routed'
  <2>1. ASSUME NEW t \in Attached(gw)' PROVE t \in gw'.seeded /\ gw'.route[t].epoch \in DOMAIN sessions'
    <3>1. t \in Strats /\ t \in Attached(g) /\ gw'.route[t].epoch = g.route[t].epoch
      BY <1>3, <2>1 DEF Attached, SameRoute
    <3>2. CASE t = s
      BY <1>1, <1>2, <1>3, <3>1, <3>2
    <3>3. CASE t # s
      <4>1. t \in gw.seeded /\ gw.route[t].epoch \in DOMAIN sessions
        BY <1>1, <3>1, <3>3 DEF Bookings, Routed
      <4> QED BY <1>1, <1>2, <1>3, <3>1, <3>3, <4>1
    <3> QED BY <3>2, <3>3
  <2> QED BY <2>1 DEF Routed
<1>8. IdsKnown'
  <2>1. NewOnWire' = NewOnWire
    BY <1>1 DEF NewOnWire
  <2> QED BY <1>1, <2>1 DEF Bookings, IdsKnown
<1>k. ASSUME NEW m \in Range(gw'.parked) PROVE m \in M /\ Trader(m.e) \notin Attached(g)
  BY <1>1, <1>2, <1>k, RangeEmpty DEF Moves
<1>9. ExecsKnown'
  <2>1. ASSUME NEW t \in Strats, NEW e \in Reached(t)' PROVE e \in DOMAIN execs' /\ Trader(e)' = t
    <3>1. e \in DOMAIN execs /\ Trader(e) = t
      BY <1>5, <1>p, <1>r, <2>1
    <3> QED BY <1>1, <1>t, <3>1
  <2>2. ASSUME NEW m \in Range(gw'.parked) PROVE m.e \in DOMAIN execs'
    BY <1>1, <1>k, <1>m
  <2>3. FillsOf(stream)' \subseteq DOMAIN execs'
    BY <1>1 DEF Bookings, ExecsKnown, FillsOf
  <2>4. ASSUME NEW e \in gw'.booked PROVE e \in DOMAIN execs' /\ Trader(e)' \in gw'.seeded
    <3>1. e \in gw.booked \/ Booked(g, M, e)
      BY <1>1, <1>2, <2>4 DEF Moves
    <3>2. CASE Booked(g, M, e)
      BY <1>1, <1>3, <1>m, <1>t, <3>2 DEF Booked
    <3>3. CASE e \in gw.booked
      <4>1. e \in DOMAIN execs /\ Trader(e) \in gw.seeded
        BY <3>3 DEF Bookings, ExecsKnown
      <4> QED BY <1>1, <1>2, <1>3, <1>t, <4>1
    <3> QED BY <3>1, <3>2, <3>3
  <2> QED BY <2>1, <2>2, <2>3, <2>4 DEF ExecsKnown
<1>o. OneCopy(stream)'
  BY <1>1 DEF Bookings, OneCopy
<1>10. ASSUME ~Lagging PROVE FirstCopies'
  <2>0. FillsOf(stream)' = FillsOf(stream)
    BY <1>1 DEF FillsOf
  <2>1. ASSUME NEW t \in Strats PROVE FillsOf(stream)' \cap Reached(t)' = {}
    <3>1. FillsOf(stream) \cap Reached(t) = {}
      BY <1>10 DEF Bookings, FirstCopies
    <3> QED BY <1>5, <1>10, <1>p, <2>0, <3>1
  <2>3. ASSUME NEW m \in Range(gw'.parked) PROVE m.e \notin FillsOf(stream)'
    BY <1>10, <1>k, <1>m, <2>0
  <2> QED BY <2>1, <2>3 DEF FirstCopies
<1>11. ASSUME ~Lagging PROVE ParkedWait'
  <2>1. ASSUME NEW m \in Range(gw'.parked)
        PROVE  /\ Trader(m.e)' \notin Attached(gw)'
               /\ ~m.replayed => \A t \in Strats : m.e \notin Reached(t)'
    <3>1. m \in M /\ Trader(m.e) \notin Attached(g) /\ m.e \in DOMAIN execs
      BY <1>k, <1>m, <2>1
    <3>2. \A t \in Strats : ~Pushed(g, M, t, m.e)
      BY <3>1 DEF Pushed
    <3>3. Trader(m.e)' \notin Attached(gw)'
      BY <1>3, <1>t, <3>1
    <3> QED BY <1>5, <1>11, <1>m, <3>1, <3>2, <3>3
  <2> QED BY <2>1 DEF ParkedWait
<1>h. ASSUME NEW e \in store[s].held
      PROVE  /\ e \in DOMAIN execs /\ execs[e].id.epoch # n /\ HeldBy(g.route[s], e)
             /\ e \in Reached(s)
             /\ s \notin gw.seeded => HeldBy(g.seed[s], e)
  <2>1. e \in Reached(s)
    BY DEF Reached
  <2>2. e \in DOMAIN execs /\ Trader(e) = s /\ e \in Nat
    BY <1>r, <2>1 DEF TypeOK
  <2>3. execs[e].id.epoch \in DOMAIN sessions
    BY <2>2 DEF Bookings, IdsKnown
  <2>4. e < since \/ e \in {x \in store[s].held : x >= since}
    BY <2>2
  <2> QED BY <1>1, <1>2, <2>1, <2>2, <2>3, <2>4 DEF HeldBy
<1>12. ASSUME ~Lagging, NEW t \in Strats, NEW e \in g.seed[t].held
       PROVE  e \in Reached(t) /\ HeldBy(g.seed[t], e) /\ e \notin gw'.booked
  <2>1. e \in Reached(t) /\ HeldBy(g.seed[t], e) /\ e \notin gw.booked
    <3>1. CASE t = s /\ s \notin gw.seeded
      <4>1. e \in store[s].held
        BY <1>2, <1>12, <3>1
      <4>2. e \in Reached(s) /\ HeldBy(g.seed[s], e)
        BY <1>h, <3>1, <4>1
      <4>3. Trader(e) = s
        BY <1>r, <4>2
      <4> QED BY <3>1, <4>2, <4>3 DEF Bookings, ExecsKnown
    <3>2. CASE ~(t = s /\ s \notin gw.seeded)
      <4>1. g.seed[t] = gw.seed[t]
        BY <1>2, <3>2
      <4>2. HeldBy(gw.seed[t], e) /\ e \notin gw.booked
        BY <1>12, <4>1 DEF Bookings, NotTwice
      <4> QED BY <1>12, <4>1, <4>2 DEF Reached
    <3> QED BY <3>1, <3>2
  <2>2. Trader(e) = t
    BY <1>r, <2>1
  <2>3. ASSUME NEW m \in M, m.e = e, ~(m.replayed /\ HeldBy(g.seed[Trader(e)], e)) PROVE FALSE
    <3>1. ~m.replayed
      BY <2>1, <2>2, <2>3
    <3> QED BY <1>12, <1>m, <2>1, <2>3, <3>1
  <2>4. ~Booked(g, M, e)
    BY <2>3 DEF Booked
  <2>5. e \notin gw'.booked
    BY <1>1, <1>2, <2>1, <2>4 DEF Moves
  <2> QED BY <2>1, <2>5
<1>13. ASSUME ~Lagging PROVE NotTwice'
  <2> SUFFICES ASSUME NEW t \in Strats
               PROVE  /\ (eng[t].restored \cap (Executions(eng[t].log) \cup FillsOf(gw.ring[t])))' = {}
                      /\ proc'[t] /\ t \in Attached(gw)' =>
                           \A e \in eng'[t].restored :
                             HeldBy(gw'.route[t], e) /\ execs'[e].id.epoch # gw'.route[t].epoch
                      /\ \A e \in gw'.seed[t].held : HeldBy(gw'.seed[t], e) /\ e \notin gw'.booked
    BY DEF NotTwice, HeldBy
  <2>1. /\ eng[t].restored \cap (Executions(eng[t].log) \cup FillsOf(gw.ring[t])) = {}
        /\ proc[t] /\ t \in Attached(gw) =>
             \A e \in eng[t].restored :
               HeldBy(gw.route[t], e) /\ execs[e].id.epoch # gw.route[t].epoch
    BY <1>13 DEF Bookings, NotTwice
  <2>2. \A e \in gw'.seed[t].held : HeldBy(gw'.seed[t], e) /\ e \notin gw'.booked
    BY <1>3, <1>12, <1>13
  <2>a. SameRoute(g.route[t], gw'.route[t])
    BY <1>3
  <2>b. (eng[t].restored \cap (Executions(eng[t].log) \cup FillsOf(gw.ring[t])))'
          = eng'[t].restored \cap (Executions(eng'[t].log) \cup FillsOf(gw'.ring[t]))
    BY DEF Executions, FillsOf
  <2>3. CASE t = s
    <3>1. ASSUME NEW e \in store[s].held, Pushed(g, M, s, e) PROVE FALSE
      <4>1. PICK m \in M : /\ m.e = e
               /\ ~(m.replayed /\ execs[e].id.epoch # g.route[s].epoch /\ HeldBy(g.route[s], e))
        BY <3>1 DEF Pushed
      <4>2. ~m.replayed
        BY <1>2, <1>h, <3>1, <4>1
      <4> QED BY <1>13, <1>h, <1>m, <3>1, <4>1, <4>2
    <3>2. eng'[s].restored \cap (Executions(eng'[s].log) \cup FillsOf(gw'.ring[s])) = {}
      BY <1>1, <1>4, <3>1
    <3>3. \A e \in eng'[s].restored : HeldBy(gw'.route[s], e) /\ execs'[e].id.epoch # gw'.route[s].epoch
      <4>1. ASSUME NEW e \in store[s].held
            PROVE  HeldBy(gw'.route[s], e) /\ execs'[e].id.epoch # gw'.route[s].epoch
        BY <1>1, <1>2, <1>h, <2>3, <2>a, <4>1 DEF SameRoute, HeldBy
      <4> QED BY <1>1, <4>1
    <3> QED BY <2>2, <2>3, <2>b, <3>2, <3>3
  <2>4. CASE t # s
    <3>1. /\ eng'[t] = eng[t] /\ proc'[t] = proc[t] /\ g.route[t] = gw.route[t]
          /\ t \in Attached(gw)' => t \in Attached(gw)
      BY <1>1, <1>2, <1>3, <2>4
    <3>2. eng'[t].restored \cap (Executions(eng'[t].log) \cup FillsOf(gw'.ring[t])) = {}
      BY <1>4, <1>13, <1>p, <2>1, <2>4, <3>1
    <3>3. ASSUME proc'[t], t \in Attached(gw)', NEW e \in eng'[t].restored
          PROVE  HeldBy(gw'.route[t], e) /\ execs'[e].id.epoch # gw'.route[t].epoch
      BY <1>1, <2>1, <2>a, <3>1, <3>3 DEF SameRoute, HeldBy
    <3> QED BY <2>2, <2>b, <3>2, <3>3
  <2> QED BY <2>3, <2>4
<1> QED BY <1>o, <1>6, <1>7, <1>8, <1>9, <1>10, <1>11, <1>13 DEF Bookings

LEMMA AttachStays ==
  ASSUME TypeOK, Bookings, NEW s \in Strats, Attach(s)
  PROVE  Stays
<1>0. \E g : \E since \in Nat : Attachment(s, g, since)
  BY AttachEffect
<1>1. PICK g : \E since \in Nat : Attachment(s, g, since)
  BY <1>0
<1>p. PICK since \in Nat : Attachment(s, g, since)
  BY <1>1
<1>2. Bookings'
  BY <1>p, AttachmentBookings
<1>3. TypeOK'
  BY <1>p DEF Attachment, TypeOK, Moves, ConnKept
<1> QED BY <1>2, <1>3 DEF Stays

LEMMA InitBookings ==
  ASSUME Init
  PROVE  TypeOK /\ Bookings
<1>1. /\ execs = <<>> /\ sessions = <<>> /\ stream = <<>> /\ wire = {} /\ resp = <<>> /\ resting = {}
      /\ gw = NewGateway /\ tripped = FALSE /\ left \in Bounds
      /\ \A s \in Strats : proc[s] = FALSE /\ eng[s] = NewEngine /\ store[s].held = {}
  BY DEF Init, NewStore
<1>2. TypeOK
  <2>1. left \in Budgets
    BY <1>1, GatewayAssumption DEF Budgets
  <2>2. execs \in Seq(Trades) /\ sessions \in Seq(Strats) /\ stream \in Seq(Events) /\ resp \in Seq(Responses)
    BY <1>1
  <2>3. conn \in Connectors
    <3>1. PICK c \in Connectors : c = NewConnector
      BY <2>2, NewConnectorFacts
    <3>2. conn = [c EXCEPT !.up = TRUE]
      BY <3>1 DEF Init
    <3> QED BY <3>2 DEF Connectors
  <2>4. proc \in [Strats -> BOOLEAN] /\ eng \in [Strats -> Engines]
    BY NewEngineFacts DEF Init
  <2>5. store \in [Strats -> Stores]
    BY DEF Init, NewStore, Stores
  <2> QED BY <1>1, <2>1, <2>2, <2>3, <2>4, <2>5, NewGatewayFacts DEF TypeOK
<1>3. FillsOf(stream) = {} /\ OneCopy(stream) /\ NewOnWire = {} /\ DOMAIN execs = {} /\ Range(gw.parked) = {}
  <2>1. Range(gw.parked) = {} /\ FillsOf(stream) = {} /\ OneCopy(stream)
    BY <1>1, NewGatewayFacts, RangeEmpty, OneCopyEmpty
  <2> QED BY <1>1, <2>1 DEF NewOnWire
<1>4. ASSUME NEW s \in Strats
      PROVE  /\ gw.route[s] = NoRoute /\ gw.ring[s] = NoReader /\ gw.seed[s].held = {} /\ gw.booked = {}
             /\ FillsOf(gw.ring[s]) = {} /\ Executions(eng[s].log) = {} /\ eng[s].restored = {}
  BY <1>1, NewGatewayFacts, NoReaderFacts, NewEngineFacts
<1>5. \A s \in Strats : Reached(s) = {}
  BY <1>1, <1>4 DEF Reached
<1>6. Attached(gw) = {} /\ gw.booked = {}
  BY <1>1, <1>4, NewGatewayFacts DEF Attached
<1>7. Running
  BY <1>1, <1>4 DEF Running
<1>8. OneCopy(stream) /\ Routed /\ IdsKnown /\ ExecsKnown /\ FirstCopies /\ ParkedWait
  BY <1>1, <1>3, <1>5, <1>6 DEF Routed, IdsKnown, ExecsKnown, FirstCopies, ParkedWait
<1>9. NotTwice
  BY <1>4, <1>6 DEF NotTwice
<1> QED BY <1>2, <1>7, <1>8, <1>9 DEF Bookings

LEMMA NextStays ==
  ASSUME TypeOK, Bookings, Next
  PROVE  Stays
<1>1. ASSUME NEW s \in Strats, ReadRing(s) \/ Stop(s) \/ Attach(s) \/ Detach(s) PROVE Stays
  BY <1>1, ReadRingStays, EndsFacts, EndsStays, AttachStays, DetachStays
<1>2. CASE KillVenue \/ OnResponse \/ OnStream \/ OnReplay \/ OnSnapshot \/ Reconnect \/ VenueLists
  BY <1>2, KillVenueStays, OnResponseStays, OnStreamStays, OnReplayStays, OnSnapshotStays,
     ReconnectStays, VenueListsStays
<1>3. ASSUME NEW m \in wire, VenueTakes(m) PROVE Stays
  BY <1>3, VenueTakesStays
<1>4. ASSUME NEW s \in Strats, Submit(s) \/ SubmitCancel(s) \/ AskReconcile(s) \/ Crash(s) PROVE Stays
  BY <1>4, SubmitStays, SubmitCancelStays, AskReconcileStays, EndsFacts, EndsStays
<1>5. ASSUME NEW id \in resting, VenueFills(id) PROVE Stays
  BY <1>5, VenueFillsStays
<1>6. CASE Disconnect \/ GatewayCrash \/ Trip
  BY <1>6, DisconnectStays, GatewayCrashStays, TripStays
<1> QED BY <1>1, <1>2, <1>3, <1>4, <1>5, <1>6 DEF Next, Progress

LEMMA StutterStays ==
  ASSUME TypeOK, Bookings, UNCHANGED vars
  PROVE  Stays
<1>1. QuietStep
  BY SameGateway, SameWire DEF vars, strategy, venue, QuietStep, TypeOK
<1> QED BY <1>1, QuietStays

LEMMA BookingsBookedOnce ==
  ASSUME TypeOK, Bookings, ~Lagging
  PROVE  BookedOnce
  BY DEF Bookings, NotTwice, BookedOnce

-----------------------------------------------------------------------------
(***************************************************************************)
(* No execution counts twice.                                              *)
(***************************************************************************)

\* The state of strategies, gateway, connector and venue keeps its types, and the bookings their
\* inductive invariant.
THEOREM BookingsInvariant == Spec => [](TypeOK /\ Bookings)
<1>1. Init => TypeOK /\ Bookings
  BY InitBookings
<1>2. TypeOK /\ Bookings /\ [Next]_vars => (TypeOK /\ Bookings)'
  <2>1. ASSUME TypeOK, Bookings, [Next]_vars PROVE Stays
    <3>1. CASE Next
      BY <2>1, <3>1, NextStays
    <3>2. CASE UNCHANGED vars
      BY <2>1, <3>2, StutterStays
    <3> QED BY <2>1, <3>1, <3>2
  <2> QED BY <2>1 DEF Stays
<1> QED BY <1>1, <1>2, PTL DEF Spec

\* No execution is booked twice, in a strategy's position or in the account's: not one that was
\* parked for a strategy that came back, nor one a replay brings though the store or the account's
\* seed has it (deliver_fill(), account_fill(), unpark()).  The hypothesis is that the trade
\* history does not run ahead of the private stream: where it does, a late streamed copy of an
\* execution that was replayed is booked again.
THEOREM ExecutionsBookedOnce ==
  ASSUME ~Lagging
  PROVE  Spec => []BookedOnce
<1>1. Spec => [](TypeOK /\ Bookings)
  BY BookingsInvariant
<1>2. TypeOK /\ Bookings => BookedOnce
  BY BookingsBookedOnce
<1> QED BY <1>1, <1>2, PTL

-----------------------------------------------------------------------------
(***************************************************************************)
(* What a snapshot says of an order is true: the inductive invariant.      *)
(***************************************************************************)
AckIds == {m.id : m \in {x \in Range(resp) : x.type = "ack"}}
EndIds == {m.id : m \in {x \in Range(stream) : x.type = "ended"}}
ExecIds == {execs[e].id : e \in DOMAIN execs}

\* The orders the venue has taken, as far as anything shows it.
Taken == resting \cup ExecIds \cup AckIds \cup EndIds \cup conn.answered \cup conn.rows

\* A session is one strategy's, and an attachment is its process's.
Lived ==
  \A s \in Strats : proc[s] => /\ sessions[eng[s].epoch] = s
                               /\ s \in Attached(gw) => gw.route[s].epoch = eng[s].epoch

\* A session's orders are sent in the order of their ids.
InOrder ==
  \A i, j \in DOMAIN gw.hist :
    i < j /\ gw.hist[i].epoch = gw.hist[j].epoch => gw.hist[i].n < gw.hist[j].n

\* No id is in use that its session has not given out.
UsedIds ==
  \A id \in Taken \cup NewOnWire \cup Range(gw.hist) :
    /\ id.epoch \in DOMAIN sessions /\ id.n >= 1
    /\ \A s \in Strats : proc[s] /\ id.epoch = eng[s].epoch => id.n <= eng[s].last

\* An order on its way to the venue has not been there.
WireFresh == NewOnWire \cap Taken = {}

\* The gateway has sent every order its attachments have at the venue.
Covered ==
  \A s \in Attached(gw) : proc[s] =>
    \A id \in resting \cup NewOnWire : id.epoch = eng[s].epoch => id \in Range(gw.hist)

\* Up to the connector's watermark every order was answered when the venue was asked, and is in
\* the rows if it rests.
MarkAt(k) ==
  /\ gw.hist[k] = conn.mark
  /\ \A j \in 1 .. k : /\ gw.hist[j] \in conn.answered
                       /\ conn.phase = "read" /\ gw.hist[j] \in resting => gw.hist[j] \in conn.rows
Marked ==
  conn.phase \in {"asked", "read"} => conn.mark = NoId \/ \E k \in DOMAIN gw.hist : MarkAt(k)

\* The snapshot x tells the engine of s the truth, and goes on telling it.
SnapOK(s, x) ==
  /\ x.mark.n <= eng[s].last
  /\ \A id \in resting \cup NewOnWire :
       id.epoch = eng[s].epoch => id \in x.rows \/ id.n > x.mark.n
SnapsOK ==
  \A s \in Strats : proc[s] => \A x \in Range(gw.ring[s]) : x.type = "snapshot" => SnapOK(s, x)

Truthful == Lived /\ InOrder /\ UsedIds /\ WireFresh /\ Covered /\ Marked /\ SnapsOK

LEMMA TruthfulTells ==
  ASSUME Truthful
  PROVE  SnapshotsTellTheTruth
<1>1. {x.id : x \in {y \in wire : y.op = "new"}} = NewOnWire
  BY DEF NewOnWire
<1> QED BY <1>1 DEF Truthful, SnapsOK, SnapOK, SnapshotsTellTheTruth

\* A step with which no order is sent and no session begins.
Follows ==
  /\ sessions' = sessions
  /\ \A s \in Strats :
       /\ proc'[s] => /\ proc[s] /\ eng'[s].epoch = eng[s].epoch /\ eng'[s].last = eng[s].last
                      /\ \A x \in Range(gw'.ring[s]) :
                           x.type = "snapshot" => x \in Range(gw.ring[s]) \/ SnapOK(s, x)
       /\ gw'.route[s] # NoRoute => gw.route[s] # NoRoute /\ gw'.route[s].epoch = gw.route[s].epoch
  /\ gw'.hist = gw.hist \/ (gw'.hist = <<>> /\ \A s \in Strats : gw'.route[s] = NoRoute)
  /\ Taken' \subseteq Taken \cup NewOnWire
  /\ NewOnWire' \subseteq NewOnWire /\ NewOnWire' \cap Taken' = {}
  /\ resting' \subseteq resting \cup NewOnWire

LEMMA FollowsTruth ==
  ASSUME TypeOK, Truthful, Follows, Marked'
  PROVE  Truthful'
<1>1. /\ sessions' = sessions
      /\ \A s \in Strats :
           /\ proc'[s] => /\ proc[s] /\ eng'[s].epoch = eng[s].epoch /\ eng'[s].last = eng[s].last
                          /\ \A x \in Range(gw'.ring[s]) :
                               x.type = "snapshot" => x \in Range(gw.ring[s]) \/ SnapOK(s, x)
           /\ gw'.route[s] # NoRoute => gw.route[s] # NoRoute /\ gw'.route[s].epoch = gw.route[s].epoch
      /\ gw'.hist = gw.hist \/ (gw'.hist = <<>> /\ \A s \in Strats : gw'.route[s] = NoRoute)
      /\ Taken' \subseteq Taken \cup NewOnWire
      /\ NewOnWire' \subseteq NewOnWire /\ NewOnWire' \cap Taken' = {}
      /\ resting' \subseteq resting \cup NewOnWire
  BY DEF Follows
<1>2. Lived'
  <2>1. ASSUME NEW s \in Strats, proc'[s]
        PROVE  /\ sessions'[eng'[s].epoch] = s
               /\ gw'.route[s] # NoRoute => gw'.route[s].epoch = eng'[s].epoch
    BY <1>1, <2>1 DEF Truthful, Lived, Attached
  <2> QED BY <2>1 DEF Lived, Attached
<1>3. InOrder'
  <2>1. CASE gw'.hist = gw.hist
    BY <2>1 DEF Truthful, InOrder
  <2>2. CASE gw'.hist = <<>>
    BY <2>2 DEF InOrder
  <2> QED BY <1>1, <2>1, <2>2
<1>4. UsedIds'
  <2>1. Range(gw'.hist) \subseteq Range(gw.hist)
    BY <1>1, RangeEmpty
  <2>2. ASSUME NEW id \in Taken' \cup NewOnWire' \cup Range(gw'.hist)
        PROVE  /\ id.epoch \in DOMAIN sessions' /\ id.n >= 1
               /\ \A s \in Strats : proc'[s] /\ id.epoch = eng'[s].epoch => id.n <= eng'[s].last
    <3>1. id \in Taken \cup NewOnWire \cup Range(gw.hist)
      BY <1>1, <2>1, <2>2
    <3>2. /\ id.epoch \in DOMAIN sessions /\ id.n >= 1
          /\ \A s \in Strats : proc[s] /\ id.epoch = eng[s].epoch => id.n <= eng[s].last
      BY <3>1 DEF Truthful, UsedIds
    <3> QED BY <1>1, <3>2
  <2>3. (Taken \cup NewOnWire \cup Range(gw.hist))' = Taken' \cup NewOnWire' \cup Range(gw'.hist)
    BY DEF Range
  <2> QED BY <2>2, <2>3 DEF UsedIds
<1>5. WireFresh'
  BY <1>1 DEF WireFresh
<1>6. Covered'
  <2>1. ASSUME NEW s \in Strats, gw'.route[s] # NoRoute, proc'[s], NEW id \in resting' \cup NewOnWire',
               id.epoch = eng'[s].epoch
        PROVE  id \in Range(gw'.hist)
    <3>1. gw'.hist = gw.hist /\ gw.route[s] # NoRoute /\ proc[s] /\ id.epoch = eng[s].epoch
      BY <1>1, <2>1
    <3>2. id \in resting \cup NewOnWire
      BY <1>1, <2>1
    <3> QED BY <3>1, <3>2 DEF Truthful, Covered, Attached
  <2>2. Range(gw.hist)' = Range(gw'.hist)
    BY DEF Range
  <2> QED BY <2>1, <2>2 DEF Covered, Attached
<1>7. SnapsOK'
  <2>1. ASSUME NEW s \in Strats, proc'[s], NEW x \in Range(gw'.ring[s]), x.type = "snapshot"
        PROVE  /\ x.mark.n <= eng'[s].last
               /\ \A id \in resting' \cup NewOnWire' :
                    id.epoch = eng'[s].epoch => id \in x.rows \/ id.n > x.mark.n
    <3>1. SnapOK(s, x)
      BY <1>1, <2>1 DEF Truthful, SnapsOK
    <3> QED BY <1>1, <2>1, <3>1 DEF SnapOK
  <2> QED BY <2>1 DEF SnapsOK, SnapOK, Range
<1> QED BY <1>2, <1>3, <1>4, <1>5, <1>6, <1>7 DEF Truthful

\* The connector's reconciliation goes on as it was.
MarkKept ==
  conn'.phase \in {"asked", "read"} =>
    /\ conn'.phase = conn.phase /\ conn'.mark = conn.mark /\ conn'.rows = conn.rows
    /\ conn.answered \subseteq conn'.answered

LEMMA MarkedKept ==
  ASSUME TypeOK, Truthful, MarkKept, resting' \subseteq resting \cup NewOnWire,
         DOMAIN gw.hist \subseteq DOMAIN gw'.hist, \A j \in DOMAIN gw.hist : gw'.hist[j] = gw.hist[j]
  PROVE  Marked'
<1>1. SUFFICES ASSUME conn'.phase \in {"asked", "read"}, conn'.mark # NoId
               PROVE  \E k \in DOMAIN gw'.hist : MarkAt(k)'
  BY DEF Marked
<1>2. /\ conn'.phase = conn.phase /\ conn'.mark = conn.mark /\ conn'.rows = conn.rows
      /\ conn.answered \subseteq conn'.answered
  BY <1>1 DEF MarkKept
<1>3. PICK k \in DOMAIN gw.hist : MarkAt(k)
  BY <1>1, <1>2 DEF Truthful, Marked
<1>4. gw.hist \in Seq(Ids)
  BY GatewayFields DEF TypeOK
<1>5. \A j \in 1 .. k : j \in DOMAIN gw.hist
  BY <1>3, <1>4
<1>6. ASSUME NEW j \in 1 .. k
      PROVE  /\ gw'.hist[j] \in conn'.answered
             /\ conn'.phase = "read" /\ gw'.hist[j] \in resting' => gw'.hist[j] \in conn'.rows
  <2>1. gw'.hist[j] = gw.hist[j] /\ gw.hist[j] \in conn.answered
    BY <1>3, <1>5 DEF MarkAt
  <2>2. gw.hist[j] \notin NewOnWire
    BY <2>1 DEF Truthful, WireFresh, Taken
  <2> QED BY <1>2, <1>3, <2>1, <2>2 DEF MarkAt
<1>7. MarkAt(k)'
  BY <1>2, <1>3, <1>6 DEF MarkAt
<1> QED BY <1>3, <1>7

LEMMA TakenKept ==
  ASSUME resting' \subseteq resting, execs' = execs, Range(resp') \subseteq Range(resp),
         Range(stream') \subseteq Range(stream),
         conn'.answered \subseteq Taken, conn'.rows \subseteq Taken
  PROVE  Taken' \subseteq Taken
<1>1. Range(resp)' = Range(resp') /\ Range(stream)' = Range(stream')
  BY DEF Range
<1>2. AckIds' \subseteq AckIds /\ EndIds' \subseteq EndIds
  BY <1>1 DEF AckIds, EndIds
<1>3. ExecIds' = ExecIds
  BY DEF ExecIds
<1>4. (resting \cup ExecIds \cup AckIds \cup EndIds) \subseteq Taken
  BY DEF Taken
<1>5. Taken' = resting' \cup ExecIds' \cup AckIds' \cup EndIds' \cup conn'.answered \cup conn'.rows
  BY DEF Taken
<1> QED BY <1>2, <1>3, <1>4, <1>5

\* A step that brings no order any further.
Calm ==
  /\ sessions' = sessions /\ gw'.hist = gw.hist
  /\ \A s \in Strats :
       /\ proc'[s] => /\ proc[s] /\ eng'[s].epoch = eng[s].epoch /\ eng'[s].last = eng[s].last
                      /\ \A x \in Range(gw'.ring[s]) : x.type = "snapshot" => x \in Range(gw.ring[s])
       /\ gw'.route[s] # NoRoute => gw.route[s] # NoRoute /\ gw'.route[s].epoch = gw.route[s].epoch
  /\ NewOnWire' = NewOnWire /\ resting' = resting /\ execs' = execs
  /\ Range(resp') \subseteq Range(resp) /\ Range(stream') \subseteq Range(stream)
  /\ conn'.answered \subseteq Taken /\ conn'.rows \subseteq Taken

LEMMA CalmTruth ==
  ASSUME TypeOK, Truthful, Calm, Marked'
  PROVE  Truthful'
<1>1. Taken' \subseteq Taken
  BY TakenKept DEF Calm
<1>2. NewOnWire' \cap Taken' = {}
  BY <1>1 DEF Calm, Truthful, WireFresh
<1>3. Follows
  BY <1>1, <1>2 DEF Calm, Follows
<1> QED BY <1>3, FollowsTruth

LEMMA CalmKeptTruth ==
  ASSUME TypeOK, Truthful, Calm, MarkKept
  PROVE  Truthful'
<1>1. resting' \subseteq resting \cup NewOnWire /\ gw'.hist = gw.hist
  BY DEF Calm
<1>2. Marked'
  BY <1>1, MarkedKept
<1> QED BY <1>2, CalmTruth

\* The engines and processes are as they were, and nothing is sent to an engine that says what
\* orders it has.
LEMMA RouterCalm ==
  ASSUME TypeOK, proc' = proc, eng' = eng, sessions' = sessions,
         NEW M, Moves(gw, gw', M), Silent(gw, gw'),
         NewOnWire' = NewOnWire, resting' = resting, execs' = execs,
         Range(resp') \subseteq Range(resp), Range(stream') \subseteq Range(stream),
         conn'.answered \subseteq Taken, conn'.rows \subseteq Taken
  PROVE  Calm
<1>1. ASSUME NEW s \in Strats
      PROVE  /\ gw'.route[s] # NoRoute => gw.route[s] # NoRoute /\ gw'.route[s].epoch = gw.route[s].epoch
             /\ \A x \in Range(gw'.ring[s]) : x.type = "snapshot" => x \in Range(gw.ring[s])
  BY DEF Moves, SameRoute, Silent
<1>2. gw'.hist = gw.hist
  BY DEF Silent
<1> QED BY <1>1, <1>2 DEF Calm

LEMMA ConnTaken == conn.answered \subseteq Taken /\ conn.rows \subseteq Taken
  BY DEF Taken

LEMMA ConnKeptTaken ==
  ASSUME ConnKept(conn, conn')
  PROVE  conn'.answered \subseteq Taken /\ conn'.rows \subseteq Taken /\ MarkKept
  BY ConnTaken DEF ConnKept, MarkKept

LEMMA SameConnKept ==
  ASSUME TypeOK, conn' = conn
  PROVE  ConnKept(conn, conn')
  BY DEF ConnKept, TypeOK

LEMMA SubmitCancelTruth ==
  ASSUME TypeOK, Bookings, Truthful, NEW s \in Strats, SubmitCancel(s)
  PROVE  Truthful'
<1>1. PICK id \in eng[s].mine : wire' = wire \cup Cancels({id})
  BY DEF SubmitCancel
<1>2. {id} \in SUBSET Ids
  BY <1>1 DEF TypeOK, Engines
<1>3. NewOnWire' = NewOnWire
  BY <1>1, <1>2, CancelsAreNotNew DEF TypeOK
<1>4. Moves(gw, gw', {}) /\ Silent(gw, gw')
  BY SameGateway DEF SubmitCancel
<1>5. conn'.answered \subseteq Taken /\ conn'.rows \subseteq Taken /\ MarkKept
  BY SameConnKept, ConnKeptTaken DEF SubmitCancel
<1>6. Calm
  BY <1>3, <1>4, <1>5, RouterCalm DEF SubmitCancel, strategy
<1> QED BY <1>5, <1>6, CalmKeptTruth

LEMMA AskReconcileTruth ==
  ASSUME TypeOK, Bookings, Truthful, NEW s \in Strats, AskReconcile(s)
  PROVE  Truthful'
<1>1. Moves(gw, gw', {}) /\ Silent(gw, gw')
  BY AskReconcileQuiet, QuietMoves
<1>2. ConnKept(conn, conn')
  BY RequestKeeps DEF AskReconcile, TypeOK
<1>3. conn'.answered \subseteq Taken /\ conn'.rows \subseteq Taken /\ MarkKept
  BY <1>2, ConnKeptTaken
<1>4. NewOnWire' = NewOnWire
  BY SameWire DEF AskReconcile, venue
<1>5. Calm
  BY <1>1, <1>3, <1>4, RouterCalm DEF AskReconcile, strategy, venue
<1> QED BY <1>3, <1>5, CalmKeptTruth

LEMMA KillVenueTruth ==
  ASSUME TypeOK, Bookings, Truthful, KillVenue
  PROVE  Truthful'
<1>1. Moves(gw, gw', {}) /\ Silent(gw, gw') /\ NewOnWire' = NewOnWire
  BY KillVenueQuiet, QuietMoves
<1>2. ConnKept(conn, conn')
  BY RequestKeeps DEF KillVenue, TypeOK
<1>3. conn'.answered \subseteq Taken /\ conn'.rows \subseteq Taken /\ MarkKept
  BY <1>2, ConnKeptTaken
<1>5. Calm
  BY <1>1, <1>3, RouterCalm DEF KillVenue, strategy
<1> QED BY <1>3, <1>5, CalmKeptTruth

LEMMA ReconnectTruth ==
  ASSUME TypeOK, Bookings, Truthful, Reconnect
  PROVE  Truthful'
<1>1. Moves(gw, gw', {}) /\ Silent(gw, gw') /\ NewOnWire' = NewOnWire
  BY SameGateway, SameWire DEF Reconnect, venue
<1>2. ConnKept(conn, conn')
  <2>1. PICK c : c = [conn EXCEPT !.up = TRUE]
    OBVIOUS
  <2>2. c \in Connectors /\ ConnKept(conn, c)
    BY <2>1 DEF TypeOK, Connectors, ConnKept
  <2>3. ConnKept(c, conn')
    BY <2>1, <2>2, RequestKeeps DEF Reconnect
  <2> QED BY <2>2, <2>3 DEF ConnKept
<1>3. conn'.answered \subseteq Taken /\ conn'.rows \subseteq Taken /\ MarkKept
  BY <1>2, ConnKeptTaken
<1>5. Calm
  BY <1>1, <1>3, RouterCalm DEF Reconnect, strategy, venue
<1> QED BY <1>3, <1>5, CalmKeptTruth

LEMMA TripTruth ==
  ASSUME TypeOK, Bookings, Truthful, Trip \/ UNCHANGED vars
  PROVE  Truthful'
<1>1. gw' = gw /\ wire' = wire /\ conn' = conn /\ proc' = proc /\ eng' = eng /\ sessions' = sessions
      /\ resting' = resting /\ execs' = execs /\ resp' = resp /\ stream' = stream
  BY DEF Trip, vars, strategy, venue
<1>2. Moves(gw, gw', {}) /\ Silent(gw, gw') /\ NewOnWire' = NewOnWire
  BY <1>1, SameGateway, SameWire
<1>3. conn'.answered \subseteq Taken /\ conn'.rows \subseteq Taken /\ MarkKept
  BY <1>1, SameConnKept, ConnKeptTaken
<1>5. Calm
  BY <1>1, <1>2, <1>3, RouterCalm
<1> QED BY <1>3, <1>5, CalmKeptTruth

LEMMA DisconnectTruth ==
  ASSUME TypeOK, Bookings, Truthful, Disconnect
  PROVE  Truthful'
<1>1. Moves(gw, gw', {}) /\ Silent(gw, gw') /\ NewOnWire' = NewOnWire
  BY SameGateway, SameWire DEF Disconnect
<1>2. ConnKept(conn, conn')
  BY DEF Disconnect, TypeOK, Connectors, ConnKept
<1>3. conn'.answered \subseteq Taken /\ conn'.rows \subseteq Taken /\ MarkKept
  BY <1>2, ConnKeptTaken
<1>4. Range(stream') \subseteq Range(stream)
  BY RangeEmpty DEF Disconnect
<1>5. Calm
  BY <1>1, <1>3, <1>4, RouterCalm DEF Disconnect, strategy
<1> QED BY <1>3, <1>5, CalmKeptTruth

\* An answer adds an order the venue has taken.
Answered(id) ==
  conn' = [conn EXCEPT !.answered = @ \cup {id}]

LEMMA AnsweredTaken ==
  ASSUME TypeOK, NEW id, conn' = conn \/ (id \in Taken /\ Answered(id))
  PROVE  conn'.answered \subseteq Taken /\ conn'.rows \subseteq Taken /\ MarkKept
<1>1. conn \in Connectors
  BY DEF TypeOK
<1>2. CASE conn' = conn
  BY <1>2, ConnTaken DEF MarkKept
<1>3. CASE id \in Taken /\ Answered(id)
  <2> DEFINE a == conn.answered \cup {id}
  <2>1. conn' = [conn EXCEPT !.answered = a]
    BY <1>3 DEF Answered
  <2>2. a \subseteq Taken /\ conn.answered \subseteq a
    BY <1>3, ConnTaken
  <2> HIDE DEF a
  <2>3. conn'.answered = a /\ conn'.rows = conn.rows /\ conn'.phase = conn.phase /\ conn'.mark = conn.mark
    BY <1>1, <2>1 DEF Connectors
  <2> QED BY <2>2, <2>3, ConnTaken DEF MarkKept
<1> QED BY <1>2, <1>3

LEMMA OnResponseTruth ==
  ASSUME TypeOK, Bookings, Truthful, OnResponse
  PROVE  Truthful'
<1>1. Moves(gw, gw', {}) /\ Silent(gw, gw') /\ NewOnWire' = NewOnWire
  BY OnResponseQuiet, QuietMoves
<1>2. PICK m : m = Head(resp)
  OBVIOUS
<1>3. m \in Range(resp) /\ Range(resp') \subseteq Range(resp)
  BY <1>2, RangeTail DEF OnResponse, TypeOK
<1>4. conn' = conn \/ (m.id \in Taken /\ Answered(m.id))
  <2>1. m.type = "ack" => m.id \in Taken
    BY <1>3 DEF Taken, AckIds
  <2>2. conn' = conn \/ (m.type = "ack" /\ Answered(m.id))
    BY <1>2 DEF OnResponse, Answered
  <2> QED BY <2>1, <2>2
<1>5. conn'.answered \subseteq Taken /\ conn'.rows \subseteq Taken /\ MarkKept
  BY <1>4, AnsweredTaken
<1>6. Calm
  BY <1>1, <1>3, <1>5, RouterCalm DEF OnResponse, strategy
<1> QED BY <1>5, <1>6, CalmKeptTruth

LEMMA OnStreamTruth ==
  ASSUME TypeOK, Bookings, Truthful, OnStream
  PROVE  Truthful'
<1>1. PICK M : Moves(gw, gw', M) /\ Silent(gw, gw')
  BY OnStreamEffect
<1>2. NewOnWire' = NewOnWire
  BY SameWire DEF OnStream
<1>3. PICK m : m = Head(stream)
  OBVIOUS
<1>4. m \in Events /\ m \in Range(stream) /\ Range(stream') \subseteq Range(stream)
  BY <1>3, RangeTail DEF OnStream, TypeOK
<1>5. PICK id : id = IF m.type = "fill" THEN execs[m.e].id ELSE m.id
  OBVIOUS
<1>6. Answered(id)
  BY <1>3, <1>5 DEF OnStream, Answered
<1>7. id \in Taken
  <2>1. CASE m.type = "fill"
    <3>1. m.e \in DOMAIN execs
      BY <1>4, <2>1 DEF Bookings, ExecsKnown, FillsOf
    <3> QED BY <1>5, <2>1, <3>1 DEF Taken, ExecIds
  <2>2. CASE m.type # "fill"
    <3>1. m.type = "ended"
      BY <1>4, <2>2 DEF Events
    <3> QED BY <1>4, <1>5, <2>2, <3>1 DEF Taken, EndIds
  <2> QED BY <2>1, <2>2
<1>8. conn'.answered \subseteq Taken /\ conn'.rows \subseteq Taken /\ MarkKept
  BY <1>6, <1>7, AnsweredTaken
<1>9. Calm
  BY <1>1, <1>2, <1>4, <1>8, RouterCalm DEF OnStream, strategy
<1> QED BY <1>8, <1>9, CalmKeptTruth

LEMMA OnReplayTruth ==
  ASSUME TypeOK, Bookings, Truthful, OnReplay
  PROVE  Truthful'
<1>1. Moves(gw, gw', Rows) /\ Silent(gw, gw')
  BY OnReplayMoves
<1>2. NewOnWire' = NewOnWire
  BY SameWire DEF OnReplay, venue
<1>3. /\ conn'.answered = conn.answered /\ conn'.rows = conn.rows
      /\ \/ conn'.phase = conn.phase /\ conn'.mark = conn.mark
         \/ conn'.phase = "asked" /\ conn'.mark = SentMark(gw, conn)
  BY OnReplayConn
<1>4. Calm
  BY <1>1, <1>2, <1>3, ConnTaken, RouterCalm DEF OnReplay, strategy, venue
<1>5. CASE conn'.phase = conn.phase /\ conn'.mark = conn.mark
  <2>1. MarkKept
    BY <1>3, <1>5 DEF MarkKept
  <2> QED BY <1>4, <2>1, CalmKeptTruth
<1>6. CASE conn'.phase = "asked" /\ conn'.mark = SentMark(gw, conn)
  <2>1. gw'.hist = gw.hist
    BY <1>4 DEF Calm
  <2>2. conn'.mark = NoId \/ \E k \in DOMAIN gw.hist : /\ gw.hist[k] = conn'.mark
                                                      /\ \A j \in 1 .. k : gw.hist[j] \in conn.answered
    BY <1>6, SentMarkType DEF TypeOK
  <2>3. ASSUME NEW k \in DOMAIN gw.hist, gw.hist[k] = conn'.mark,
               \A j \in 1 .. k : gw.hist[j] \in conn.answered
        PROVE  MarkAt(k)'
    BY <1>3, <1>6, <2>1, <2>3 DEF MarkAt
  <2>4. Marked'
    BY <2>1, <2>2, <2>3 DEF Marked
  <2> QED BY <1>4, <2>4, CalmTruth
<1> QED BY <1>3, <1>5, <1>6

LEMMA VenueListsTruth ==
  ASSUME TypeOK, Bookings, Truthful, VenueLists
  PROVE  Truthful'
<1>1. Moves(gw, gw', {}) /\ Silent(gw, gw') /\ NewOnWire' = NewOnWire
  BY SameGateway, SameWire DEF VenueLists, venue
<1>2. /\ conn.phase = "asked" /\ conn'.phase = "read" /\ conn'.rows = resting /\ conn'.mark = conn.mark
      /\ conn'.answered = conn.answered
  BY DEF VenueLists, TypeOK, Connectors
<1>3. resting \subseteq Taken
  BY DEF Taken
<1>4. Calm
  BY <1>1, <1>2, <1>3, ConnTaken, RouterCalm DEF VenueLists, strategy, venue
<1>5. gw' = gw /\ resting' = resting
  BY DEF VenueLists, venue
<1>6. ASSUME NEW k \in DOMAIN gw.hist, MarkAt(k) PROVE MarkAt(k)'
  BY <1>2, <1>5, <1>6 DEF MarkAt
<1>7. Marked'
  BY <1>2, <1>5, <1>6 DEF Truthful, Marked
<1> QED BY <1>4, <1>7, CalmTruth

LEMMA ReadRingTruth ==
  ASSUME TypeOK, Bookings, Truthful, NEW s \in Strats, ReadRing(s)
  PROVE  Truthful'
<1>1. PICK m \in Range(gw.ring[s]), q \in Seq(Messages) :
           /\ m = Head(gw.ring[s]) /\ q = Tail(gw.ring[s]) /\ Range(q) \subseteq Range(gw.ring[s])
           /\ RingSet(gw, gw', s, q)
           /\ Handled(eng[s], m, eng'[s]) /\ eng' \in [Strats -> Engines]
           /\ \A t \in Strats \ {s} : eng'[t] = eng[t]
           /\ wire' \in SUBSET Commands /\ NewOnWire' = NewOnWire
  BY ReadRingEffect
<1>2. /\ gw'.ring[s] = q /\ \A t \in Strats \ {s} : gw'.ring[t] = gw.ring[t]
      /\ gw'.route = gw.route /\ gw'.hist = gw.hist
  BY <1>1 DEF RingSet
<1>3. ASSUME NEW t \in Strats
      PROVE  /\ eng'[t].epoch = eng[t].epoch /\ eng'[t].last = eng[t].last
             /\ Range(gw'.ring[t]) \subseteq Range(gw.ring[t])
  <2>1. CASE t = s
    BY <1>1, <1>2, <2>1 DEF Handled
  <2>2. CASE t # s
    BY <1>1, <1>2, <2>2
  <2> QED BY <2>1, <2>2
<1>4. conn'.answered \subseteq Taken /\ conn'.rows \subseteq Taken /\ MarkKept
  BY SameConnKept, ConnKeptTaken DEF ReadRing
<1>5. Calm
  BY <1>1, <1>2, <1>3, <1>4 DEF Calm, ReadRing
<1> QED BY <1>4, <1>5, CalmKeptTruth

LEMMA EndsTruth ==
  ASSUME TypeOK, Bookings, Truthful, NEW s \in Strats, Ends(s)
  PROVE  Truthful'
<1>1. /\ \A t \in Strats \ {s} : eng'[t] = eng[t] /\ proc'[t] = proc[t]
      /\ proc'[s] = FALSE /\ RingSet(gw, gw', s, NoReader)
  BY EndsEffect
<1>2. /\ sessions' = sessions /\ conn' = conn /\ resp' = resp /\ stream' = stream
      /\ resting' = resting /\ execs' = execs /\ NewOnWire' = NewOnWire
  BY SameWire DEF Ends
<1>3. /\ \A t \in Strats \ {s} : gw'.ring[t] = gw.ring[t]
      /\ gw'.route = gw.route /\ gw'.hist = gw.hist
  BY <1>1 DEF RingSet
<1>4. conn'.answered \subseteq Taken /\ conn'.rows \subseteq Taken /\ MarkKept
  BY <1>2, SameConnKept, ConnKeptTaken
<1>5. ASSUME NEW t \in Strats, proc'[t]
      PROVE  /\ proc[t] /\ eng'[t].epoch = eng[t].epoch /\ eng'[t].last = eng[t].last
             /\ gw'.ring[t] = gw.ring[t]
  BY <1>1, <1>3, <1>5
<1>6. Calm
  BY <1>2, <1>3, <1>4, <1>5 DEF Calm
<1> QED BY <1>4, <1>6, CalmKeptTruth

LEMMA DetachTruth ==
  ASSUME TypeOK, Bookings, Truthful, NEW s \in Strats, Detach(s)
  PROVE  Truthful'
<1>1. PICK g : /\ Detached(gw, g, s) /\ Quiet(g, gw')
               /\ wire' \in SUBSET Commands /\ NewOnWire' = NewOnWire
  BY DetachEffect
<1>2. ConnKept(conn, conn')
  BY RequestKeeps DEF Detach, TypeOK
<1>3. conn'.answered \subseteq Taken /\ conn'.rows \subseteq Taken /\ MarkKept
  BY <1>2, ConnKeptTaken
<1>4. gw'.hist = gw.hist
  BY <1>1 DEF Detached, Quiet
<1>5. ASSUME NEW t \in Strats
      PROVE  /\ gw'.route[t] # NoRoute => gw.route[t] # NoRoute /\ gw'.route[t].epoch = gw.route[t].epoch
             /\ \A x \in Range(gw'.ring[t]) : x.type = "snapshot" => x \in Range(gw.ring[t])
  <2>1. g.ring[t] = gw.ring[t] /\ (g.route[t] = NoRoute \/ g.route[t] = gw.route[t])
    BY <1>1 DEF Detached
  <2>2. /\ \A x \in Range(gw'.ring[t]) : x \in Range(g.ring[t]) \/ x.type \in {"ended", "kill"}
        /\ SameRoute(g.route[t], gw'.route[t])
    BY <1>1 DEF Quiet
  <2> QED BY <2>1, <2>2 DEF SameRoute
<1>6. Calm
  BY <1>1, <1>3, <1>4, <1>5 DEF Calm, Detach
<1> QED BY <1>3, <1>6, CalmKeptTruth

LEMMA GatewayCrashTruth ==
  ASSUME TypeOK, Bookings, Truthful, GatewayCrash
  PROVE  Truthful'
<1>1. /\ gw'.ring = gw.ring /\ gw'.hist = <<>> /\ \A s \in Strats : gw'.route[s] = NoRoute
  BY GatewayCrashEffect DEF Restarted
<1>2. /\ proc' = proc /\ eng' = eng /\ sessions' = sessions /\ execs' = execs
      /\ resting' = resting /\ wire' = {} /\ resp' = <<>> /\ stream' = <<>> /\ conn' = NewConnector
  BY DEF GatewayCrash, strategy
<1>3. conn'.phase = "idle" /\ conn'.answered = {} /\ conn'.rows = {}
  BY <1>2, NewConnectorFacts DEF TypeOK
<1>4. Range(resp') \subseteq Range(resp) /\ Range(stream') \subseteq Range(stream)
  BY <1>2, RangeEmpty
<1>5. Taken' \subseteq Taken /\ NewOnWire' = {}
  BY <1>2, <1>3, <1>4, TakenKept DEF NewOnWire
<1>6. Follows
  BY <1>1, <1>2, <1>5 DEF Follows
<1>7. Marked'
  BY <1>3 DEF Marked
<1> QED BY <1>6, <1>7, FollowsTruth

\* At the venue an order is taken from the wire, or leaves.
Taking ==
  /\ Taken' \subseteq Taken \cup NewOnWire
  /\ NewOnWire' \subseteq NewOnWire /\ NewOnWire' \cap Taken' = {}
  /\ resting' \subseteq resting \cup NewOnWire
  /\ gw' = gw /\ conn' = conn /\ sessions' = sessions /\ proc' = proc /\ eng' = eng

LEMMA TakingTruth ==
  ASSUME TypeOK, Truthful, Taking
  PROVE  Truthful'
<1>1. Follows
  BY DEF Taking, Follows
<1>2. MarkKept
  BY DEF Taking, MarkKept
<1>3. Marked'
  BY <1>2, MarkedKept DEF Taking
<1> QED BY <1>1, <1>3, FollowsTruth

LEMMA TakenAppend ==
  ASSUME TypeOK, conn' = conn, NEW A, resting' \subseteq resting \cup A,
         ExecIds' \subseteq ExecIds \cup A, AckIds' \subseteq AckIds \cup A, EndIds' \subseteq EndIds \cup A
  PROVE  Taken' \subseteq Taken \cup A
<1>1. Taken' = resting' \cup ExecIds' \cup AckIds' \cup EndIds' \cup conn'.answered \cup conn'.rows
  BY DEF Taken
<1> QED BY <1>1 DEF Taken

LEMMA AckAppend ==
  ASSUME resp \in Seq(Responses), NEW m \in Responses, resp' = Append(resp, m)
  PROVE  AckIds' \subseteq AckIds \cup (IF m.type = "ack" THEN {m.id} ELSE {})
<1>1. Range(resp') = Range(resp) \cup {m}
  BY RangeAppend
<1>2. Range(resp)' = Range(resp')
  BY DEF Range
<1> QED BY <1>1, <1>2 DEF AckIds

LEMMA EndAppend ==
  ASSUME stream \in Seq(Events), NEW m \in Events, stream' = Append(stream, m) \/ stream' = stream
  PROVE  EndIds' \subseteq EndIds \cup (IF m.type = "ended" THEN {m.id} ELSE {})
<1>1. Range(stream') \subseteq Range(stream) \cup {m}
  BY RangeAppend
<1>2. Range(stream)' = Range(stream')
  BY DEF Range
<1> QED BY <1>1, <1>2 DEF EndIds

LEMMA VenueTakesTruth ==
  ASSUME TypeOK, Bookings, Truthful, NEW m, VenueTakes(m)
  PROVE  Truthful'
<1>1. /\ wire \in SUBSET Commands /\ m \in wire /\ m \in Commands /\ m.id \in Ids
      /\ resp \in Seq(Responses) /\ stream \in Seq(Events) /\ wire' = wire \ {m}
  BY DEF TypeOK, VenueTakes, Commands
<1>2. /\ gw' = gw /\ conn' = conn /\ sessions' = sessions /\ proc' = proc /\ eng' = eng
      /\ execs' = execs
  BY DEF VenueTakes, strategy
<1>3. NewOnWire' \subseteq NewOnWire
  BY <1>1 DEF NewOnWire
<1>4. NewOnWire \cap Taken = {}
  BY DEF Truthful, WireFresh
<1>5. ExecIds' = ExecIds
  BY <1>2 DEF ExecIds
<1>6. CASE m.op = "new" /\ resting' = resting \cup {m.id} /\ stream' = stream
           /\ resp' = Append(resp, [type |-> "ack", id |-> m.id])
  <2>1. m.id \in NewOnWire
    BY <1>1, <1>6 DEF NewOnWire
  <2>2. m.id \notin NewOnWire'
    <3>1. ASSUME NEW w \in wire', w.op = "new", w.id = m.id PROVE FALSE
      <4>1. w \in Commands /\ w # m
        BY <1>1, <3>1
      <4> QED BY <1>1, <1>6, <3>1, <4>1 DEF Commands
    <3> QED BY <3>1 DEF NewOnWire
  <2>3. PICK a : a = [type |-> "ack", id |-> m.id]
    OBVIOUS
  <2>4. a \in Responses /\ a.type = "ack" /\ a.id = m.id
    BY <1>1, <2>3 DEF Responses
  <2>5. AckIds' \subseteq AckIds \cup {m.id}
    BY <1>1, <1>6, <2>3, <2>4, AckAppend
  <2>6. EndIds' = EndIds
    BY <1>6 DEF EndIds
  <2>7. Taken' \subseteq Taken \cup {m.id}
    BY <1>2, <1>5, <1>6, <2>5, <2>6, TakenAppend
  <2>8. Taking
    BY <1>2, <1>3, <1>4, <1>6, <2>1, <2>2, <2>7 DEF Taking
  <2> QED BY <2>8, TakingTruth
<1>7. CASE /\ m.id \in resting /\ resting' = resting \ {m.id} /\ resp' = resp
           /\ Publish([type |-> "ended", id |-> m.id])
  <2>1. PICK x : x = [type |-> "ended", id |-> m.id]
    OBVIOUS
  <2>2. x \in Events /\ x.type = "ended" /\ x.id = m.id
    BY <1>1, <2>1 DEF Events
  <2>3. stream' = stream \/ stream' = Append(stream, x)
    BY <1>7, <2>1 DEF Publish
  <2>4. EndIds' \subseteq EndIds \cup {m.id}
    BY <1>1, <2>2, <2>3, EndAppend
  <2>5. AckIds' = AckIds
    BY <1>7 DEF AckIds
  <2>6. Taken' \subseteq Taken \cup {m.id}
    BY <1>2, <1>5, <1>7, <2>4, <2>5, TakenAppend
  <2>7. m.id \in Taken
    BY <1>7 DEF Taken
  <2>8. Taking
    BY <1>2, <1>3, <1>4, <1>7, <2>6, <2>7 DEF Taking
  <2> QED BY <2>8, TakingTruth
<1>8. CASE resp' = Append(resp, [type |-> "unknown", id |-> m.id]) /\ resting' = resting /\ stream' = stream
  <2>1. PICK a : a = [type |-> "unknown", id |-> m.id]
    OBVIOUS
  <2>2. a \in Responses /\ a.type = "unknown"
    BY <1>1, <2>1 DEF Responses
  <2>3. AckIds' \subseteq AckIds
    BY <1>1, <1>8, <2>1, <2>2, AckAppend
  <2>4. EndIds' = EndIds
    BY <1>8 DEF EndIds
  <2>5. Taken' \subseteq Taken \cup {}
    BY <1>2, <1>5, <1>8, <2>3, <2>4, TakenAppend
  <2>6. Taking
    BY <1>2, <1>3, <1>4, <1>8, <2>5 DEF Taking
  <2> QED BY <2>6, TakingTruth
<1> QED BY <1>6, <1>7, <1>8 DEF VenueTakes

LEMMA VenueFillsTruth ==
  ASSUME TypeOK, Bookings, Truthful, NEW id \in resting, VenueFills(id)
  PROVE  Truthful'
<1>1. Filled(id)
  BY VenueFillsEffect
<1>2. /\ gw' = gw /\ conn' = conn /\ sessions' = sessions /\ proc' = proc /\ eng' = eng
      /\ wire' = wire /\ resp' = resp
  BY DEF VenueFills, strategy
<1>3. NewOnWire' = NewOnWire /\ AckIds' = AckIds
  BY <1>2 DEF NewOnWire, AckIds
<1>4. ExecIds' \subseteq ExecIds \cup {id}
  <2>1. ASSUME NEW e \in DOMAIN execs' PROVE execs'[e].id \in ExecIds \cup {id}
    <3>1. CASE e \in DOMAIN execs
      BY <1>1, <3>1 DEF Filled, ExecIds
    <3>2. CASE e = Len(execs) + 1
      BY <1>1, <3>2 DEF Filled
    <3> QED BY <1>1, <3>1, <3>2 DEF Filled
  <2> QED BY <2>1 DEF ExecIds
<1>5. EndIds' \subseteq EndIds
  <2>1. Range(stream)' = Range(stream')
    BY DEF Range
  <2> QED BY <1>1, <2>1 DEF Filled, EndIds
<1>6. resting' \subseteq resting
  BY <1>1 DEF Filled
<1>7. Taken' \subseteq Taken \cup {id}
  BY <1>2, <1>3, <1>4, <1>5, <1>6, TakenAppend
<1>8. id \in Taken /\ NewOnWire \cap Taken = {}
  BY DEF Taken, Truthful, WireFresh
<1>9. Taking
  BY <1>2, <1>3, <1>6, <1>7, <1>8 DEF Taking
<1> QED BY <1>9, TakingTruth

LEMMA OnSnapshotTruth ==
  ASSUME TypeOK, Bookings, Truthful, OnSnapshot
  PROVE  Truthful'
<1>1. PICK r : /\ Snapped(gw, r, conn.mark, conn.rows) /\ Quiet(r, gw') /\ NewOnWire' = NewOnWire
  BY OnSnapshotEffect
<1>2. /\ sessions' = sessions /\ proc' = proc /\ eng' = eng /\ resp' = resp /\ stream' = stream
      /\ resting' = resting /\ execs' = execs /\ conn.phase = "read"
  BY DEF OnSnapshot, strategy
<1>3. conn'.answered = conn.answered /\ conn'.phase \in {"idle", "replay"} /\ conn'.rows = {}
  BY OnSnapshotConn
<1>4. Moves(gw, gw', {}) /\ gw'.hist = gw.hist
  BY <1>1, QuietMoves, MovesTransitive DEF Snapped, Quiet
<1>5. gw.hist \in Seq(Ids) /\ conn.mark \in Ids
  BY GatewayFields DEF TypeOK, Connectors
<1>6. \A i \in DOMAIN gw.hist : /\ gw.hist[i] \in Ids /\ gw.hist[i].n >= 1 /\ i \in Nat \ {0}
                                /\ gw.hist[i] \in Range(gw.hist)
  BY <1>5 DEF Truthful, UsedIds, Range
<1>7. ASSUME NEW t \in Strats, proc[t], NEW x, SnapshotOf(gw, conn.mark, conn.rows, t, x)
      PROVE  SnapOK(t, x)
  <2>1. /\ t \in Attached(gw) /\ x.rows = {id \in conn.rows : id.epoch = gw.route[t].epoch}
        /\ \/ x.mark = NoId
           \/ \E i, k \in DOMAIN gw.hist : /\ i <= k /\ gw.hist[k] = conn.mark /\ x.mark = gw.hist[i]
                                           /\ gw.hist[i].epoch = gw.route[t].epoch
    BY <1>7 DEF SnapshotOf
  <2>2. gw.route[t].epoch = eng[t].epoch /\ eng[t].last \in Nat
    BY <1>7, <2>1 DEF Truthful, Lived, TypeOK, Engines
  <2>3. ASSUME NEW id \in resting \cup NewOnWire, id.epoch = eng[t].epoch
        PROVE  id \in Ids /\ id.n >= 1 /\ \E j \in DOMAIN gw.hist : gw.hist[j] = id
    <3>1. id \in Range(gw.hist)
      BY <1>7, <2>1, <2>3 DEF Truthful, Covered
    <3>2. PICK j \in DOMAIN gw.hist : gw.hist[j] = id
      BY <3>1 DEF Range
    <3> QED BY <1>6, <3>2
  <2>4. CASE x.mark = NoId
    <3>1. x.mark.n = 0
      BY <2>4 DEF NoId
    <3>2. ASSUME NEW id \in resting \cup NewOnWire, id.epoch = eng[t].epoch PROVE id.n > x.mark.n
      <4>1. id \in Ids /\ id.n >= 1
        BY <2>3, <3>2
      <4> QED BY <3>1, <4>1 DEF Ids
    <3> QED BY <2>2, <3>1, <3>2 DEF SnapOK
  <2>5. ASSUME NEW i \in DOMAIN gw.hist, NEW k \in DOMAIN gw.hist, i <= k, gw.hist[k] = conn.mark,
               x.mark = gw.hist[i], gw.hist[i].epoch = gw.route[t].epoch
        PROVE  SnapOK(t, x)
    <3>1. conn.mark # NoId
      BY <1>6, <2>5 DEF NoId
    <3>2. PICK k2 \in DOMAIN gw.hist : MarkAt(k2)
      BY <1>2, <3>1 DEF Truthful, Marked
    <3>3. k2 = k
      <4>1. gw.hist[k2] = gw.hist[k]
        BY <2>5, <3>2 DEF MarkAt
      <4>2. gw.hist[k].n \in Nat /\ k \in Nat /\ k2 \in Nat
        BY <1>6 DEF Ids
      <4>3. ~(k < k2) /\ ~(k2 < k)
        BY <4>1, <4>2 DEF Truthful, InOrder
      <4> QED BY <4>2, <4>3
    <3>4. x.mark.n <= eng[t].last
      <4>1. gw.hist[i] \in Range(gw.hist)
        BY <1>6
      <4> QED BY <1>7, <2>2, <2>5, <4>1 DEF Truthful, UsedIds
    <3>5. ASSUME NEW id \in resting \cup NewOnWire, id.epoch = eng[t].epoch
          PROVE  id \in x.rows \/ id.n > x.mark.n
      <4>1. PICK j \in DOMAIN gw.hist : gw.hist[j] = id
        BY <2>3, <3>5
      <4>2. i \in Nat \ {0} /\ j \in Nat \ {0} /\ k \in Nat \ {0}
        BY <1>6
      <4>3. CASE j <= i
        <5>1. j \in 1 .. k
          BY <2>5, <4>2, <4>3
        <5>2. id \in conn.answered /\ (id \in resting => id \in conn.rows)
          BY <1>2, <3>2, <3>3, <4>1, <5>1 DEF MarkAt
        <5>3. id \notin NewOnWire
          BY <5>2 DEF Truthful, WireFresh, Taken
        <5> QED BY <2>1, <2>2, <3>5, <5>2, <5>3
      <4>4. CASE i < j
        <5>1. gw.hist[i].n < id.n
          BY <2>2, <2>5, <3>5, <4>1, <4>4 DEF Truthful, InOrder
        <5>2. gw.hist[i].n \in Nat /\ id.n \in Nat
          BY <1>6, <4>1 DEF Ids
        <5> QED BY <2>5, <5>1, <5>2
      <4> QED BY <4>2, <4>3, <4>4
    <3> QED BY <3>4, <3>5 DEF SnapOK
  <2> QED BY <2>1, <2>4, <2>5
<1>8. ASSUME NEW t \in Strats, proc[t], NEW x \in Range(gw'.ring[t]), x.type = "snapshot"
      PROVE  x \in Range(gw.ring[t]) \/ SnapOK(t, x)
  <2>1. x \in Range(r.ring[t])
    BY <1>1, <1>8 DEF Quiet
  <2>2. x \in Range(gw.ring[t]) \/ SnapshotOf(gw, conn.mark, conn.rows, t, x)
    BY <1>1, <1>8, <2>1 DEF Snapped
  <2> QED BY <1>7, <1>8, <2>2
<1>9. ASSUME NEW t \in Strats, gw'.route[t] # NoRoute
      PROVE  gw.route[t] # NoRoute /\ gw'.route[t].epoch = gw.route[t].epoch
  BY <1>4, <1>9 DEF Moves, SameRoute
<1>10. Taken' \subseteq Taken
  BY <1>2, <1>3, ConnTaken, TakenKept
<1>11. NewOnWire' \cap Taken' = {}
  BY <1>1, <1>10 DEF Truthful, WireFresh
<1>12. Follows
  BY <1>1, <1>2, <1>4, <1>8, <1>9, <1>10, <1>11 DEF Follows
<1>13. Marked'
  BY <1>3 DEF Marked
<1> QED BY <1>12, <1>13, FollowsTruth

LEMMA SubmitTruth ==
  ASSUME TypeOK, Bookings, Truthful, NEW s \in Strats, Submit(s)
  PROVE  Truthful'
<1>1. eng \in [Strats -> Engines] /\ eng[s] \in Engines /\ eng[s].last \in Nat /\ eng[s].epoch \in Nat
  BY DEF TypeOK, Engines
<1>2. PICK l \in Nat : l = eng[s].last + 1
  BY <1>1
<1>3. PICK id : id = [epoch |-> eng[s].epoch, n |-> l]
  OBVIOUS
<1>4. id \in Ids /\ id.epoch = eng[s].epoch /\ id.n = l
  BY <1>1, <1>3 DEF Ids
<1>5. Forwarded(s, id)
  BY <1>2, <1>3, <1>4, ForwardFacts DEF Submit
<1>6. /\ proc[s] /\ proc' = proc /\ sessions' = sessions /\ conn' = conn /\ resp' = resp
      /\ stream' = stream /\ resting' = resting /\ execs' = execs
  BY DEF Submit
<1>7. eng[s].epoch \in DOMAIN sessions
  BY <1>6 DEF Bookings, Running
<1>8. /\ eng'[s].epoch = eng[s].epoch /\ eng'[s].last = l
      /\ \A t \in Strats \ {s} : eng'[t] = eng[t]
  <2> DEFINE m == eng[s].mine \cup {id}
             x == [eng[s] EXCEPT !.last = l, !.mine = m]
  <2>1. eng' = [eng EXCEPT ![s] = x]
    BY <1>1, <1>2, <1>3 DEF Submit
  <2> HIDE DEF m
  <2>2. x.epoch = eng[s].epoch /\ x.last = l
    BY <1>1 DEF Engines
  <2> HIDE DEF x
  <2> QED BY <1>1, <2>1, <2>2
<1>9. \A t \in Strats : /\ eng'[t].epoch = eng[t].epoch /\ eng[t].last \in Nat /\ eng'[t].last \in Nat
                        /\ eng[t].last <= eng'[t].last
  <2>1. \A t \in Strats : eng[t].last \in Nat
    BY <1>1 DEF Engines
  <2>2. ASSUME NEW t \in Strats
        PROVE  /\ eng'[t].epoch = eng[t].epoch /\ eng'[t].last \in Nat
               /\ eng[t].last <= eng'[t].last
    <3>1. CASE t = s
      BY <1>1, <1>2, <1>8, <3>1
    <3>2. CASE t # s
      BY <1>8, <2>1, <3>2
    <3> QED BY <3>1, <3>2
  <2> QED BY <2>1, <2>2
<1>10. \A t \in Strats : proc[t] /\ eng[t].epoch = eng[s].epoch => t = s
  BY <1>6 DEF Truthful, Lived
<1>11. /\ gw.hist \in Seq(Ids)
       /\ \/ gw'.hist = gw.hist /\ NewOnWire' = NewOnWire
          \/ gw'.hist = Append(gw.hist, id) /\ NewOnWire' = NewOnWire \cup {id}
  <2>1. gw.hist \in Seq(Ids) /\ wire \in SUBSET Commands
    BY GatewayFields DEF TypeOK
  <2>2. CASE gw'.hist = gw.hist /\ wire' = wire
    BY <2>1, <2>2 DEF NewOnWire
  <2>3. CASE gw'.hist = Append(gw.hist, id) /\ wire' = wire \cup {[op |-> "new", id |-> id]}
    <3>1. PICK w : w = [op |-> "new", id |-> id]
      OBVIOUS
    <3>2. w.op = "new" /\ w.id = id /\ wire' = wire \cup {w}
      BY <2>3, <3>1
    <3>3. NewOnWire' = NewOnWire \cup {id}
      BY <3>2 DEF NewOnWire
    <3> QED BY <2>1, <2>3, <3>3
  <2> QED BY <1>5, <2>2, <2>3 DEF Forwarded
<1>12. /\ DOMAIN gw.hist \subseteq DOMAIN gw'.hist /\ \A j \in DOMAIN gw.hist : gw'.hist[j] = gw.hist[j]
       /\ Range(gw.hist) \subseteq Range(gw'.hist) /\ Range(gw'.hist) \subseteq Range(gw.hist) \cup {id}
       /\ NewOnWire' \ NewOnWire \subseteq Range(gw'.hist)
  <2>1. CASE gw'.hist = Append(gw.hist, id) /\ NewOnWire' = NewOnWire \cup {id}
    <3>1. Range(gw'.hist) = Range(gw.hist) \cup {id}
      BY <1>4, <1>11, <2>1, RangeAppend
    <3>2. DOMAIN gw.hist \subseteq DOMAIN gw'.hist /\ \A j \in DOMAIN gw.hist : gw'.hist[j] = gw.hist[j]
      BY <1>4, <1>11, <2>1
    <3> QED BY <2>1, <3>1, <3>2
  <2> QED BY <1>11, <2>1
<1>13. Taken' = Taken
  BY <1>6 DEF Taken, ExecIds, AckIds, EndIds
<1>14. ASSUME NEW x \in Taken \cup NewOnWire \cup Range(gw.hist)
       PROVE  /\ x.epoch \in DOMAIN sessions /\ x.n >= 1
              /\ \A t \in Strats : proc[t] /\ x.epoch = eng[t].epoch => x.n <= eng[t].last
  BY DEF Truthful, UsedIds
<1>15. id \notin Taken \cup NewOnWire \cup Range(gw.hist)
  <2>1. ~(id.n <= eng[s].last)
    BY <1>1, <1>2, <1>4
  <2> QED BY <1>4, <1>6, <1>14, <2>1
<1>16. Lived'
  <2>1. \A t \in Strats : gw'.route[t] # NoRoute => gw.route[t] # NoRoute /\ gw'.route[t].epoch = gw.route[t].epoch
    BY <1>5 DEF Forwarded, Moves, SameRoute
  <2> QED BY <1>6, <1>9, <2>1 DEF Truthful, Lived, Attached
<1>17. InOrder'
  <2>1. CASE gw'.hist = gw.hist
    BY <2>1 DEF Truthful, InOrder
  <2>2. CASE gw'.hist = Append(gw.hist, id)
    <3>1. /\ DOMAIN gw'.hist = 1 .. Len(gw.hist) + 1 /\ Len(gw.hist) \in Nat
          /\ DOMAIN gw.hist = 1 .. Len(gw.hist) /\ gw'.hist[Len(gw.hist) + 1] = id
      BY <1>4, <1>11, <2>2
    <3>2. ASSUME NEW i \in DOMAIN gw'.hist, NEW j \in DOMAIN gw'.hist, i < j,
                 gw'.hist[i].epoch = gw'.hist[j].epoch
          PROVE  gw'.hist[i].n < gw'.hist[j].n
      <4>1. i \in DOMAIN gw.hist
        BY <3>1, <3>2
      <4>2. gw'.hist[i] = gw.hist[i]
        BY <1>12, <4>1
      <4>3. CASE j \in DOMAIN gw.hist
        <5>1. gw'.hist[j] = gw.hist[j]
          BY <1>12, <4>3
        <5> QED BY <3>2, <4>1, <4>2, <4>3, <5>1 DEF Truthful, InOrder
      <4>4. CASE j = Len(gw.hist) + 1
        <5>1. gw.hist[i] \in Range(gw.hist) /\ gw.hist[i] \in Ids
          BY <1>11, <4>1 DEF Range
        <5>2. gw.hist[i].n <= eng[s].last
          BY <1>4, <1>6, <1>14, <3>1, <3>2, <4>2, <4>4, <5>1
        <5>3. gw.hist[i].n \in Nat
          BY <5>1 DEF Ids
        <5>4. gw.hist[i].n < l
          BY <1>1, <1>2, <5>2, <5>3
        <5>5. gw'.hist[j].n = l
          BY <1>4, <3>1, <4>4
        <5> QED BY <4>2, <5>4, <5>5
      <4> QED BY <3>1, <4>3, <4>4
    <3> QED BY <3>2 DEF InOrder
  <2> QED BY <1>11, <2>1, <2>2
<1>18. UsedIds'
  <2>1. ASSUME NEW x \in Taken' \cup NewOnWire' \cup Range(gw'.hist)
        PROVE  /\ x.epoch \in DOMAIN sessions' /\ x.n >= 1
               /\ \A t \in Strats : proc'[t] /\ x.epoch = eng'[t].epoch => x.n <= eng'[t].last
    <3>1. x \in Taken \cup NewOnWire \cup Range(gw.hist) \/ x = id
      BY <1>11, <1>12, <1>13, <2>1
    <3>2. CASE x = id
      BY <1>2, <1>4, <1>6, <1>7, <1>8, <1>9, <1>10, <3>2, <1>1
    <3>3. CASE x \in Taken \cup NewOnWire \cup Range(gw.hist)
      <4>1. x \in Ids
        <5>1. \A y \in Range(gw.hist) : y \in Ids
          BY <1>11, RangeIn
        <5>2. \A y \in NewOnWire : y \in Ids
          BY DEF NewOnWire, TypeOK, Commands
        <5>3. \A y \in AckIds : y \in Ids
          <6>1. \A y \in Range(resp) : y \in Responses
            BY RangeIn DEF TypeOK
          <6> QED BY <6>1 DEF AckIds, Responses
        <5>4. \A y \in EndIds : y \in Ids
          <6>1. \A y \in Range(stream) : y \in Events
            BY RangeIn DEF TypeOK
          <6> QED BY <6>1 DEF EndIds, Events
        <5>5. \A y \in ExecIds : y \in Ids
          <6>1. \A e \in DOMAIN execs : execs[e] \in Trades
            BY DEF TypeOK
          <6>2. \A e \in DOMAIN execs : execs[e].id \in Ids
            BY <6>1 DEF Trades
          <6> QED BY <6>2 DEF ExecIds
        <5>6. resting \subseteq Ids /\ conn.answered \subseteq Ids /\ conn.rows \subseteq Ids
          BY DEF TypeOK, Connectors
        <5> QED BY <3>3, <5>1, <5>2, <5>3, <5>4, <5>5, <5>6 DEF Taken
      <4>2. x.n \in Nat
        BY <4>1 DEF Ids
      <4> QED BY <1>6, <1>9, <1>14, <3>3, <4>2
    <3> QED BY <3>1, <3>2, <3>3
  <2>2. (Taken \cup NewOnWire \cup Range(gw.hist))' = Taken' \cup NewOnWire' \cup Range(gw'.hist)
    BY DEF Range
  <2> QED BY <2>1, <2>2 DEF UsedIds
<1>19. WireFresh'
  BY <1>11, <1>13, <1>15 DEF Truthful, WireFresh
<1>20. Covered'
  <2>1. ASSUME NEW t \in Strats, gw'.route[t] # NoRoute, proc'[t], NEW x \in resting' \cup NewOnWire',
               x.epoch = eng'[t].epoch
        PROVE  x \in Range(gw'.hist)
    <3>1. gw.route[t] # NoRoute /\ proc[t] /\ x.epoch = eng[t].epoch
      BY <1>5, <1>6, <1>9, <2>1 DEF Forwarded, Moves, SameRoute
    <3>2. CASE x \in resting \cup NewOnWire
      BY <1>12, <3>1, <3>2 DEF Truthful, Covered, Attached
    <3>3. CASE x \in NewOnWire' \ NewOnWire
      BY <1>12, <3>3
    <3> QED BY <1>6, <2>1, <3>2, <3>3
  <2>2. Range(gw.hist)' = Range(gw'.hist)
    BY DEF Range
  <2> QED BY <2>1, <2>2 DEF Covered, Attached
<1>21. Marked'
  <2>1. MarkKept
    BY <1>6 DEF MarkKept
  <2> QED BY <1>6, <1>12, <2>1, MarkedKept
<1>22. SnapsOK'
  <2>1. ASSUME NEW t \in Strats, proc'[t], NEW x \in Range(gw'.ring[t]), x.type = "snapshot"
        PROVE  /\ x.mark.n <= eng'[t].last
               /\ \A y \in resting' \cup NewOnWire' :
                    y.epoch = eng'[t].epoch => y \in x.rows \/ y.n > x.mark.n
    <3>1. x \in Range(gw.ring[t]) /\ proc[t]
      BY <1>5, <1>6, <2>1 DEF Forwarded
    <3>2. SnapOK(t, x)
      BY <2>1, <3>1 DEF Truthful, SnapsOK
    <3>3. x.mark.n \in Nat
      <4>1. gw.ring[t] \in Seq(Messages)
        BY GatewayFields DEF TypeOK
      <4>2. x \in Messages
        BY <3>1, <4>1, RangeIn
      <4> QED BY <2>1, <4>2, MessageFields DEF Ids
    <3>4. x.mark.n <= eng[t].last
      BY <3>2 DEF SnapOK
    <3>5. ASSUME NEW y \in resting' \cup NewOnWire', y.epoch = eng'[t].epoch
          PROVE  y \in x.rows \/ y.n > x.mark.n
      <4>1. CASE y \in resting \cup NewOnWire
        BY <1>9, <3>2, <3>5, <4>1 DEF SnapOK
      <4>2. CASE y = id
        <5>1. t = s
          BY <1>4, <1>9, <1>10, <3>1, <3>5, <4>2
        <5> QED BY <1>1, <1>2, <1>4, <3>3, <3>4, <4>2, <5>1
      <4> QED BY <1>6, <1>11, <3>5, <4>1, <4>2
    <3> QED BY <1>9, <3>3, <3>4, <3>5
  <2> QED BY <2>1 DEF SnapsOK, SnapOK, Range
<1> QED BY <1>16, <1>17, <1>18, <1>19, <1>20, <1>21, <1>22 DEF Truthful

LEMMA AttachmentTruth ==
  ASSUME TypeOK, Bookings, Truthful, NEW s \in Strats, NEW g, NEW since \in Nat, Attachment(s, g, since)
  PROVE  Truthful'
<1> DEFINE M == Range(gw.parked)
           n == Len(sessions) + 1
<1>1. /\ Opened(g, s, since) /\ Moves(g, gw', M) /\ Silent(g, gw') /\ ConnKept(conn, conn')
      /\ proc'[s] /\ \A t \in Strats \ {s} : proc'[t] = proc[t]
      /\ \A t \in Strats \ {s} : eng'[t] = eng[t]
      /\ eng'[s].epoch = n /\ n \notin DOMAIN sessions /\ DOMAIN sessions' = DOMAIN sessions \cup {n}
      /\ sessions'[n] = s /\ \A i \in DOMAIN sessions : sessions'[i] = sessions[i]
      /\ wire' = wire /\ resp' = resp /\ stream' = stream /\ resting' = resting /\ execs' = execs
  BY DEF Attachment
<1>2. /\ g.hist = gw.hist /\ g.ring[s] = <<>> /\ g.route[s].epoch = n
      /\ \A t \in Strats \ {s} : g.route[t] = gw.route[t] /\ g.ring[t] = gw.ring[t]
  BY <1>1 DEF Opened
<1>3. /\ gw'.hist = gw.hist
      /\ \A t \in Strats : \A x \in Range(gw'.ring[t]) : x.type = "snapshot" => x \in Range(g.ring[t])
  BY <1>1, <1>2 DEF Silent
<1>4. \A t \in Strats : /\ gw'.route[t].epoch = g.route[t].epoch
                        /\ gw'.route[t] = NoRoute <=> g.route[t] = NoRoute
  BY <1>1 DEF Moves, SameRoute
<1> HIDE DEF M, n
<1>5. \A x \in Range(gw'.ring[s]) : x.type # "snapshot"
  BY <1>2, <1>3, RangeEmpty
<1>6. NewOnWire' = NewOnWire /\ MarkKept /\ conn'.answered \subseteq Taken /\ conn'.rows \subseteq Taken
  BY <1>1, ConnKeptTaken, SameWire
<1>7. Taken' \subseteq Taken
  BY <1>1, <1>6, TakenKept
<1>8. \A t \in Strats : proc[t] => eng[t].epoch \in DOMAIN sessions
  BY DEF Bookings, Running
<1>9. ASSUME NEW x \in Taken \cup NewOnWire \cup Range(gw.hist)
      PROVE  /\ x.epoch \in DOMAIN sessions /\ x.n >= 1
             /\ \A t \in Strats : proc[t] /\ x.epoch = eng[t].epoch => x.n <= eng[t].last
  BY DEF Truthful, UsedIds
<1>10. Lived'
  <2>1. ASSUME NEW t \in Strats, proc'[t]
        PROVE  /\ sessions'[eng'[t].epoch] = t
               /\ gw'.route[t] # NoRoute => gw'.route[t].epoch = eng'[t].epoch
    <3>1. CASE t = s
      BY <1>1, <1>2, <1>4, <3>1
    <3>2. CASE t # s
      BY <1>1, <1>2, <1>4, <1>8, <2>1, <3>2 DEF Truthful, Lived, Attached
    <3> QED BY <3>1, <3>2
  <2> QED BY <2>1 DEF Lived, Attached
<1>11. InOrder'
  BY <1>3 DEF Truthful, InOrder
<1>12. UsedIds'
  <2>1. ASSUME NEW x \in Taken' \cup NewOnWire' \cup Range(gw'.hist)
        PROVE  /\ x.epoch \in DOMAIN sessions' /\ x.n >= 1
               /\ \A t \in Strats : proc'[t] /\ x.epoch = eng'[t].epoch => x.n <= eng'[t].last
    <3>1. x \in Taken \cup NewOnWire \cup Range(gw.hist)
      BY <1>3, <1>6, <1>7, <2>1
    <3>2. x.epoch \in DOMAIN sessions
      BY <1>9, <3>1
    <3>3. ASSUME NEW t \in Strats, proc'[t], x.epoch = eng'[t].epoch PROVE x.n <= eng'[t].last
      <4>1. t # s
        BY <1>1, <3>2, <3>3
      <4> QED BY <1>1, <1>9, <3>1, <3>3, <4>1
    <3> QED BY <1>1, <1>9, <3>1, <3>2, <3>3
  <2>2. (Taken \cup NewOnWire \cup Range(gw.hist))' = Taken' \cup NewOnWire' \cup Range(gw'.hist)
    BY DEF Range
  <2> QED BY <2>1, <2>2 DEF UsedIds
<1>13. WireFresh'
  BY <1>6, <1>7 DEF Truthful, WireFresh
<1>14. \A x \in resting \cup NewOnWire : x.epoch # eng'[s].epoch
  BY <1>1, <1>9 DEF Taken
<1>15. Covered'
  <2>1. ASSUME NEW t \in Strats, gw'.route[t] # NoRoute, proc'[t], NEW x \in resting' \cup NewOnWire',
               x.epoch = eng'[t].epoch
        PROVE  x \in Range(gw'.hist)
    <3>1. x \in resting \cup NewOnWire /\ t # s
      BY <1>1, <1>6, <1>14, <2>1
    <3>2. gw.route[t] # NoRoute /\ proc[t] /\ x.epoch = eng[t].epoch
      BY <1>1, <1>2, <1>4, <2>1, <3>1
    <3> QED BY <1>3, <3>1, <3>2 DEF Truthful, Covered, Attached
  <2>2. Range(gw.hist)' = Range(gw'.hist)
    BY DEF Range
  <2> QED BY <2>1, <2>2 DEF Covered, Attached
<1>16. Marked'
  BY <1>1, <1>3, <1>6, MarkedKept
<1>17. SnapsOK'
  <2>1. ASSUME NEW t \in Strats, proc'[t], NEW x \in Range(gw'.ring[t]), x.type = "snapshot"
        PROVE  /\ x.mark.n <= eng'[t].last
               /\ \A y \in resting' \cup NewOnWire' :
                    y.epoch = eng'[t].epoch => y \in x.rows \/ y.n > x.mark.n
    <3>1. t # s
      BY <1>5, <2>1
    <3>2. x \in Range(gw.ring[t]) /\ proc[t]
      BY <1>1, <1>2, <1>3, <2>1, <3>1
    <3>3. SnapOK(t, x)
      BY <2>1, <3>2 DEF Truthful, SnapsOK
    <3> QED BY <1>1, <1>6, <3>1, <3>3 DEF SnapOK
  <2> QED BY <2>1 DEF SnapsOK, SnapOK, Range
<1> QED BY <1>10, <1>11, <1>12, <1>13, <1>15, <1>16, <1>17 DEF Truthful

LEMMA AttachTruth ==
  ASSUME TypeOK, Bookings, Truthful, NEW s \in Strats, Attach(s)
  PROVE  Truthful'
<1>1. \E g : \E since \in Nat : Attachment(s, g, since)
  BY AttachEffect
<1>2. PICK g : \E since \in Nat : Attachment(s, g, since)
  BY <1>1
<1>3. PICK since \in Nat : Attachment(s, g, since)
  BY <1>2
<1> QED BY <1>3, AttachmentTruth

LEMMA InitTruthful ==
  ASSUME Init
  PROVE  Truthful
<1>1. /\ execs = <<>> /\ stream = <<>> /\ wire = {} /\ resp = <<>> /\ resting = {}
      /\ gw = NewGateway /\ \A s \in Strats : proc[s] = FALSE
  BY DEF Init
<1>2. gw.hist = <<>> /\ Range(gw.hist) = {} /\ Range(stream) = {} /\ Range(resp) = {}
  BY <1>1, RangeEmpty DEF NewGateway
<1>3. conn.phase = "idle" /\ conn.answered = {} /\ conn.rows = {}
  <2>1. PICK c \in Connectors : c = NewConnector
    BY <1>1, NewConnectorFacts
  <2>2. conn = [c EXCEPT !.up = TRUE]
    BY <2>1 DEF Init
  <2>3. c.phase = "idle" /\ c.answered = {} /\ c.rows = {}
    BY <2>1 DEF NewConnector
  <2> QED BY <2>2, <2>3 DEF Connectors
<1>4. Taken = {} /\ NewOnWire = {}
  BY <1>1, <1>2, <1>3 DEF Taken, ExecIds, AckIds, EndIds, NewOnWire
<1>5. Lived /\ Covered /\ SnapsOK
  BY <1>1 DEF Lived, Covered, SnapsOK, Attached
<1>6. InOrder /\ UsedIds /\ WireFresh
  BY <1>2, <1>4 DEF InOrder, UsedIds, WireFresh
<1>7. Marked
  BY <1>3 DEF Marked
<1> QED BY <1>5, <1>6, <1>7 DEF Truthful

LEMMA NextTruthful ==
  ASSUME TypeOK, Bookings, Truthful, Next
  PROVE  Truthful'
<1>1. ASSUME NEW s \in Strats, ReadRing(s) \/ Stop(s) \/ Attach(s) \/ Detach(s) PROVE Truthful'
  BY <1>1, ReadRingTruth, EndsFacts, EndsTruth, AttachTruth, DetachTruth
<1>2. CASE KillVenue \/ OnResponse \/ OnStream \/ OnReplay \/ OnSnapshot \/ Reconnect \/ VenueLists
  BY <1>2, KillVenueTruth, OnResponseTruth, OnStreamTruth, OnReplayTruth, OnSnapshotTruth,
     ReconnectTruth, VenueListsTruth
<1>3. ASSUME NEW m \in wire, VenueTakes(m) PROVE Truthful'
  BY <1>3, VenueTakesTruth
<1>4. ASSUME NEW s \in Strats, Submit(s) \/ SubmitCancel(s) \/ AskReconcile(s) \/ Crash(s)
      PROVE  Truthful'
  BY <1>4, SubmitTruth, SubmitCancelTruth, AskReconcileTruth, EndsFacts, EndsTruth
<1>5. ASSUME NEW id \in resting, VenueFills(id) PROVE Truthful'
  BY <1>5, VenueFillsTruth
<1>6. CASE Disconnect \/ GatewayCrash \/ Trip
  BY <1>6, DisconnectTruth, GatewayCrashTruth, TripTruth
<1> QED BY <1>1, <1>2, <1>3, <1>4, <1>5, <1>6 DEF Next, Progress

-----------------------------------------------------------------------------
(***************************************************************************)
(* Snapshots tell the truth.                                               *)
(***************************************************************************)

\* No snapshot on its way to an engine says of an order that rests, or is on its way to the venue,
\* that it is gone: the watermark an attachment is given covers only those of its orders that the
\* venue had taken when it was asked for its open orders (route_reconcile(), SentWatermark).
THEOREM SnapshotsTrue == Spec => []SnapshotsTellTheTruth
<1>1. Spec => [](TypeOK /\ Bookings)
  BY BookingsInvariant
<1>2. Init => Truthful
  BY InitTruthful
<1>3. TypeOK /\ Bookings /\ Truthful /\ [Next]_vars => Truthful'
  <2>1. ASSUME TypeOK, Bookings, Truthful, [Next]_vars PROVE Truthful'
    <3>1. CASE Next
      BY <2>1, <3>1, NextTruthful
    <3>2. CASE UNCHANGED vars
      BY <2>1, <3>2, TripTruth
    <3> QED BY <2>1, <3>1, <3>2
  <2> QED BY <2>1
<1>4. Truthful => SnapshotsTellTheTruth
  BY TruthfulTells
<1> QED BY <1>1, <1>2, <1>3, <1>4, PTL DEF Spec
=============================================================================
