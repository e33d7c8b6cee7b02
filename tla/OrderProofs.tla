---------------------------- MODULE OrderProofs ----------------------------
(***************************************************************************)
(* The order table and the order path of one venue.                        *)
(*                                                                         *)
(* The table (Oms), whatever messages arrive and for every pool, ring and  *)
(* id space: an id leads to its own open order, to its own terminal        *)
(* record, or nowhere; and the aggregates the risk checks read agree with  *)
(* the orders in the table: the open quantity is the sum of the leaves,    *)
(* the gauge of estimates counts the orders that hold one, and the best    *)
(* own price is the best of the open orders.                               *)
(*                                                                         *)
(* The path (BybitOrders): no quantity is booked twice, for any number of  *)
(* orders, lost streams, failed queries, periodic replays and snapshots,   *)
(* as long as the connector does not amend orders and the memories of the  *)
(* table hold a session's orders and executions.                           *)
(***************************************************************************)
EXTENDS BybitOrders, Induction

\* Ids not issued yet name nothing, so a new order takes no name away from another.
FreshIds == \A id \in Ids : id > seq => ids[id] = NoRef

\* The inductive invariant.
IInv == TypeOK /\ IdsSound /\ FreshIds

-----------------------------------------------------------------------------
\* A reference in the id map is one of three shapes.
LEMMA RefShape ==
  ASSUME NEW r \in Refs
  PROVE  \/ r.kind = "open" /\ r.at \in Slots /\ r = SlotRef(r.at)
         \/ r.kind = "terminal" /\ r.at \in RingSlots /\ r = TermRef(r.at)
         \/ r.kind = "none" /\ r = NoRef
  BY DEF Refs, SlotRef, TermRef, NoRef

\* The constructors of references are injective and never meet.
LEMMA RefDistinct ==
  /\ \A g, h : SlotRef(g) = SlotRef(h) => g = h
  /\ \A p, q : TermRef(p) = TermRef(q) => p = q
  /\ \A h, p : SlotRef(h) # TermRef(p)
  /\ \A h : SlotRef(h) # NoRef /\ SlotRef(h).kind = "open" /\ SlotRef(h).at = h
  /\ \A p : TermRef(p) # NoRef /\ TermRef(p).kind = "terminal" /\ TermRef(p).at = p
  /\ NoRef.kind = "none"
  BY DEF SlotRef, TermRef, NoRef

\* An open order and a terminal record are never the empty mark.
LEMMA NotFree ==
  /\ \A o \in Order : o # NoOrder
  /\ \A r \in Record : r # NoRecord
  BY DEF Order, Record, NoOrder, NoRecord, OpenStates, EndStates

\* The best own price is a price.
LEMMA BestOfType ==
  ASSUME NEW P \in [Slots -> Order \cup {NoOrder}], NEW s \in Sides
  PROVE  BestOf(P, s) \in Nat
  BY DEF BestOf, Order

-----------------------------------------------------------------------------
\* A step that renames nothing keeps the map sound.
LEMMA SameNames ==
  ASSUME IInv, TypeOK', seq <= seq', UNCHANGED ids,
         \A h \in Slots :
           /\ pool'[h] = NoOrder <=> pool[h] = NoOrder
           /\ pool[h] # NoOrder =>
                /\ pool'[h].id = pool[h].id /\ pool'[h].pend = pool[h].pend
                /\ pool'[h].state = "PendingReplace" <=> pool[h].state = "PendingReplace",
         \A p \in RingSlots :
           /\ recent'[p] = NoRecord <=> recent[p] = NoRecord
           /\ recent[p] # NoRecord => recent'[p].id = recent[p].id
  PROVE  IInv'
<1>1. \A id \in Ids : /\ ids[id].kind = "open" => ids[id].at \in Slots
                      /\ ids[id].kind = "terminal" => ids[id].at \in RingSlots
  BY RefShape, RefDistinct DEF IInv, TypeOK
<1>2. OpenIdsNameTheirOrder'
  BY <1>1 DEF IInv, IdsSound, OpenIdsNameTheirOrder
<1>3. OpenOrdersAreNamed'
  BY DEF IInv, IdsSound, OpenOrdersAreNamed
<1>4. TerminalIdsNameTheirRecord' /\ RecordsAreNamed'
  BY <1>1 DEF IInv, IdsSound, TerminalIdsNameTheirRecord, RecordsAreNamed
<1>5. FreshIds'
  BY DEF IInv, FreshIds, TypeOK, Ids
<1> QED BY <1>2, <1>3, <1>4, <1>5 DEF IInv, IdsSound

\* An order that stays open under its names keeps the map sound (finish_update).
LEMMA UpdateKeeps ==
  ASSUME IInv, NEW h \in Slots, NEW o \in Order, Live(h),
         o.id = pool[h].id, o.pend = pool[h].pend,
         o.state = "PendingReplace" <=> pool[h].state = "PendingReplace",
         pool' = [pool EXCEPT ![h] = o],
         UNCHANGED <<seq, ids, recent, next, bestOwn, scope, ending>>,
         openQty' \in [Sides -> Int], pending' \in Int, execs' \in Seq(Execs)
  PROVE  IInv'
<1> USE NotFree DEF Live
<1>1. TypeOK'
  BY DEF IInv, TypeOK
<1> QED BY <1>1, SameNames DEF IInv, TypeOK

\* What finish_update() leaves in the aggregates.
LEMMA UpdateTypes ==
  ASSUME TypeOK, NEW h \in Slots, NEW o \in Order, Live(h), Update(h, o)
  PROVE  openQty' \in [Sides -> Int] /\ pending' \in Int
<1>1. pool[h] \in Order
  BY DEF TypeOK, Live
<1>2. o.cum \in Int /\ pool[h].cum \in Int /\ o.side \in Sides
  BY <1>1 DEF Order, Qty
<1>3. openQty' \in [Sides -> Int]
  BY <1>2 DEF Update, TypeOK
<1>4. pending' \in Int
  BY <1>1 DEF Update, TypeOK, EstDelta, Holds
<1> QED BY <1>3, <1>4

\* Pushing a record keeps the ring's type.
LEMMA PushType ==
  ASSUME TypeOK, NEW r \in Record, PushRecord(r)
  PROVE  recent' \in [RingSlots -> Record \cup {NoRecord}] /\ next' \in RingSlots
  BY OmsAssumption DEF TypeOK, PushRecord, RingSlots

\* What remember_terminal() does to the map, for an id that names a slot: the id now names the new
\* record, the id of the record overwritten names nothing, every other id is untouched.
LEMMA RememberedMap ==
  ASSUME IInv, NEW m \in [Ids -> Refs], NEW r \in Record,
         m[r.id].kind = "open",
         \A id \in Ids : ids[id].kind = "terminal" => m[id] = ids[id],
         \A id \in Ids : m[id] \in {ids[id], NoRef}
  PROVE  LET n == Remembered(m, r) IN
         /\ n \in [Ids -> Refs]
         /\ n[r.id] = TermRef(next)
         /\ \A id \in Ids \ {r.id} : n[id] = IF m[id] = TermRef(next) THEN NoRef ELSE m[id]
<1> USE RefDistinct, NotFree
<1>1. r.id \in Ids /\ next \in RingSlots /\ TermRef(next) \in Refs /\ NoRef \in Refs
  BY DEF Record, IInv, TypeOK, Refs
<1>2. CASE Full
  <2>1. recent[next] \in Record /\ recent[next].id \in Ids
    BY <1>1, <1>2 DEF Full, IInv, TypeOK, Record
  <2>2. m[recent[next].id] = TermRef(next)
    BY <1>1, <1>2, <2>1 DEF Full, IInv, IdsSound, RecordsAreNamed
  <2>3. \A id \in Ids : m[id] = TermRef(next) => id = recent[next].id
    BY <1>1 DEF IInv, IdsSound, TerminalIdsNameTheirRecord
  <2> QED BY <1>1, <1>2, <2>1, <2>2, <2>3 DEF Remembered, Unmapped
<1>3. CASE ~Full
  <2>1. \A id \in Ids : m[id] # TermRef(next)
    BY <1>1, <1>3 DEF Full, IInv, IdsSound, TerminalIdsNameTheirRecord
  <2> QED BY <1>1, <1>3, <2>1 DEF Remembered, Unmapped
<1> QED BY <1>2, <1>3

\* An order that ends leaves no name of its slot behind, and its id leads to its record.
LEMMA TerminateKeeps ==
  ASSUME IInv, NEW h \in Slots, NEW o \in Order, Live(h),
         o.id = pool[h].id, o.pend = pool[h].pend,
         NEW st \in EndStates, NEW byRecon \in BOOLEAN,
         Terminate(h, o, st, byRecon), execs' \in Seq(Execs), ending' \in SUBSET Slots
  PROVE  IInv'
<1> USE RefDistinct, NotFree
<1> DEFINE r == RecordFor(o, st, byRecon)
           m == DropPending(ids, o)
<1>1. pool[h] \in Order /\ r \in Record /\ r.id = o.id /\ o.id \in Ids
  BY DEF IInv, TypeOK, Live, RecordFor, Record, Order
<1>2. /\ ids[o.id] = SlotRef(h)
      /\ o.pend # NoId => ids[o.pend] = SlotRef(h) /\ o.pend # o.id /\ o.pend \in Ids
  <2>1. pool[h].pend # NoId => pool[h].pend > pool[h].id /\ pool[h].pend \in Ids
    BY <1>1 DEF IInv, IdsSound, OpenOrdersAreNamed, Live, Order
  <2> QED BY <1>1, <2>1 DEF IInv, IdsSound, OpenOrdersAreNamed, Live, Order, Ids
<1>a. o.id # o.pend /\ \A id \in Ids : id = o.pend => ids[id] = SlotRef(h)
  BY <1>1, <1>2 DEF NoId, Ids
<1>3. /\ m \in [Ids -> Refs]
      /\ \A id \in Ids : m[id] = IF id = o.pend THEN NoRef ELSE ids[id]
  <2>1. ids \in [Ids -> Refs] /\ NoRef \in Refs /\ NoId \notin Ids
    <3>1. ids \in [Ids -> Refs]
      BY DEF IInv, TypeOK
    <3>2. NoRef \in Refs
      BY DEF Refs
    <3>3. NoId \notin Ids
      BY DEF NoId, Ids
    <3> QED BY <3>1, <3>2, <3>3
  <2>2. CASE o.pend = NoId
    BY <2>1, <2>2 DEF DropPending
  <2>3. CASE o.pend # NoId
    <3>1. m = [ids EXCEPT ![o.pend] = NoRef]
      BY <1>2, <2>3 DEF DropPending
    <3> HIDE DEF m
    <3> QED BY <1>2, <2>1, <2>3, <3>1
  <2> QED BY <2>2, <2>3
<1>4. ids' = Remembered(m, r)
  BY DEF Terminate
<1> HIDE DEF m
<1>5. /\ ids' \in [Ids -> Refs]
      /\ ids'[o.id] = TermRef(next)
      /\ \A id \in Ids \ {o.id} : ids'[id] = IF m[id] = TermRef(next) THEN NoRef ELSE m[id]
  <2>1. m[r.id].kind = "open"
    BY <1>1, <1>2, <1>a, <1>3
  <2>2. \A id \in Ids : ids[id].kind = "terminal" => m[id] = ids[id]
    BY <1>a, <1>3
  <2>3. \A id \in Ids : m[id] \in {ids[id], NoRef}
    BY <1>3
  <2> HIDE DEF r
  <2> QED BY <1>1, <1>3, <1>4, <2>1, <2>2, <2>3, RememberedMap
<1>6. /\ pool' = [pool EXCEPT ![h] = NoOrder]
      /\ recent' = [recent EXCEPT ![next] = r]
      /\ UNCHANGED <<seq, scope>>
  BY DEF Terminate, PushRecord
<1>7. TypeOK'
  <2>1. recent' \in [RingSlots -> Record \cup {NoRecord}] /\ next' \in RingSlots
    BY <1>1, PushType DEF Terminate, IInv
  <2>2. openQty' \in [Sides -> Int]
    <3>1. o.cum \in Int /\ o.qty \in Int /\ pool[h].cum \in Int /\ o.side \in Sides
      BY <1>1 DEF Order, Qty
    <3>2. Leaves(o) \in Int
      BY <3>1 DEF Leaves
    <3> QED BY SMTT(30), <3>1, <3>2 DEF Terminate, IInv, TypeOK
  <2>3. pending' \in Int
    BY <1>1 DEF Terminate, IInv, TypeOK, EstDelta, Holds
  <2>4. bestOwn' \in [Sides -> Nat]
    BY BestOfType, <1>1, <1>6 DEF Terminate, IInv, TypeOK, Order
  <2>5. pool' \in [Slots -> Order \cup {NoOrder}]
    BY <1>6 DEF IInv, TypeOK
  <2> QED BY <1>5, <1>6, <2>1, <2>2, <2>3, <2>4, <2>5 DEF IInv, TypeOK
<1>8. \A id \in Ids : ids[id] = SlotRef(h) => id = o.id \/ id = o.pend
  BY <1>1 DEF IInv, IdsSound, OpenIdsNameTheirOrder
<1>9. OpenIdsNameTheirOrder'
  <2> SUFFICES ASSUME NEW id \in Ids, ids'[id].kind = "open"
               PROVE  pool'[ids'[id].at] # NoOrder /\ id \in {pool'[ids'[id].at].id, pool'[ids'[id].at].pend}
    BY DEF OpenIdsNameTheirOrder
  <2>1. id # o.id /\ id # o.pend /\ ids'[id] = ids[id]
    BY <1>3, <1>5
  <2>2. ids[id].at \in Slots \ {h}
    BY <2>1, <1>8, RefShape DEF IInv, TypeOK
  <2> QED BY <1>6, <2>1, <2>2 DEF IInv, TypeOK, IdsSound, OpenIdsNameTheirOrder
<1>10. OpenOrdersAreNamed'
  <2> SUFFICES ASSUME NEW g \in Slots \ {h}, pool[g] # NoOrder
               PROVE  /\ ids'[pool[g].id] = SlotRef(g)
                      /\ pool[g].state = "PendingReplace" <=> pool[g].pend # NoId
                      /\ pool[g].pend # NoId => /\ ids'[pool[g].pend] = SlotRef(g)
                                                /\ pool[g].pend > pool[g].id
    BY <1>6 DEF OpenOrdersAreNamed, IInv, TypeOK
  <2>1. pool[g].id \in Ids /\ pool[g].pend \in Ids \cup {NoId}
    BY SMTT(30) DEF IInv, TypeOK, Order
  <2>2. \A id \in Ids : ids[id] = SlotRef(g) => ids'[id] = SlotRef(g)
    BY <1>2, <1>a, <1>3, <1>5
  <2> QED BY <2>1, <2>2 DEF IInv, IdsSound, OpenOrdersAreNamed
<1>11. TerminalIdsNameTheirRecord'
  <2> SUFFICES ASSUME NEW id \in Ids, ids'[id].kind = "terminal"
               PROVE  recent'[ids'[id].at] # NoRecord /\ recent'[ids'[id].at].id = id
    BY DEF TerminalIdsNameTheirRecord
  <2>1. CASE id = o.id
    BY <1>1, <1>5, <1>6, <2>1 DEF IInv, TypeOK
  <2>2. CASE id # o.id
    <3>1. ids'[id] = ids[id] /\ ids[id] # TermRef(next)
      BY <1>3, <1>5, <2>2
    <3>2. ids[id].at \in RingSlots \ {next}
      BY ZenonT(30), <3>1, RefShape DEF IInv, TypeOK
    <3> QED BY <1>6, <3>1, <3>2 DEF IInv, TypeOK, IdsSound, TerminalIdsNameTheirRecord
  <2> QED BY <2>1, <2>2
<1>12. RecordsAreNamed'
  <2> SUFFICES ASSUME NEW p \in RingSlots, recent'[p] # NoRecord
               PROVE  ids'[recent'[p].id] = TermRef(p)
    BY DEF RecordsAreNamed
  <2>1. CASE p = next
    BY <1>1, <1>5, <1>6, <2>1 DEF IInv, TypeOK
  <2>2. CASE p # next
    <3>1. recent'[p] = recent[p] /\ recent[p].id \in Ids /\ ids[recent[p].id] = TermRef(p)
      BY <1>6, <2>2 DEF IInv, TypeOK, Record, IdsSound, RecordsAreNamed
    <3> QED BY <1>2, <1>a, <1>3, <1>5, <2>2, <3>1
  <2> QED BY <2>1, <2>2
<1>13. FreshIds'
  BY <1>2, <1>3, <1>5, <1>6 DEF FreshIds, IInv
<1> QED BY <1>7, <1>9, <1>10, <1>11, <1>12, <1>13 DEF IInv, IdsSound

-----------------------------------------------------------------------------
\* The order a replace makes is an order, known by the replacement's id only.
LEMMA ReplacedType ==
  ASSUME NEW o \in Order, o.pend \in Ids, NEW inPlace \in BOOLEAN
  PROVE  /\ Replaced(o, inPlace) \in Order
         /\ Replaced(o, inPlace).id = o.pend
         /\ Replaced(o, inPlace).pend = NoId
         /\ Replaced(o, inPlace).state # "PendingReplace"
<1> DEFINE c == IF inPlace THEN Least(o.cum, o.pendQty) ELSE 0
           e == IF Splits(o, inPlace) THEN 0 ELSE o.est
           st == IF c = 0 THEN "Live" ELSE "PartiallyFilled"
<1>1. c \in Qty /\ 0 \in Nat
  BY OmsAssumption DEF Order, Qty, Least
<1>2. e \in Nat
  BY DEF Order
<1>3. st \in OpenStates /\ st # "PendingReplace"
  BY DEF OpenStates
<1>4. Replaced(o, inPlace) =
        [o EXCEPT !.id = o.pend, !.px = o.pendPx, !.qty = o.pendQty, !.cum = c,
                  !.pend = NoId, !.pendPx = 0, !.pendQty = 0, !.oldCanceled = FALSE,
                  !.est = e, !.state = st]
  BY DEF Replaced, Order
<1>5. 0 \in Qty
  BY OmsAssumption DEF Qty
<1> HIDE DEF c, e, st
<1> QED BY ZenonT(30), <1>1, <1>2, <1>3, <1>4, <1>5 DEF Order

\* A replace that completes drops the old id (or turns it into the name of the old leg's record) and
\* keeps the order under the new one.
LEMMA ApplyReplaceKeeps ==
  ASSUME IInv, NEW h \in Slots, Live(h), pool[h].state = "PendingReplace",
         NEW inPlace \in BOOLEAN, ApplyReplace(h, inPlace)
  PROVE  IInv'
<1> USE RefDistinct, NotFree
<1> DEFINE o     == pool[h]
           leg   == RecordFor(o, IF o.cum >= o.qty THEN "Filled" ELSE "Canceled", FALSE)
           w     == Replaced(o, inPlace)
<1>1. /\ o \in Order /\ o.id \in Ids /\ o.pend \in Ids /\ o.pend # NoId /\ o.pend # o.id
      /\ ids[o.id] = SlotRef(h) /\ ids[o.pend] = SlotRef(h)
  <2>1. o \in Order /\ o.id \in Ids /\ o.pend \in Ids \cup {NoId}
    BY DEF IInv, TypeOK, Live, Order
  <2>2. /\ o.pend # NoId /\ o.pend > o.id
        /\ ids[o.id] = SlotRef(h) /\ ids[o.pend] = SlotRef(h)
    BY DEF IInv, IdsSound, OpenOrdersAreNamed, Live
  <2> QED BY <2>1, <2>2 DEF Ids, NoId
<1>2. /\ w \in Order /\ w.id = o.pend /\ w.pend = NoId /\ w.state # "PendingReplace"
      /\ pool' = [pool EXCEPT ![h] = w]
  <2>1. pool' = [pool EXCEPT ![h] = w]
    BY DEF ApplyReplace
  <2> HIDE DEF o, w
  <2> QED BY <1>1, <2>1, ReplacedType DEF w
<1>3. UNCHANGED <<seq, execs, scope, ending>>
  BY DEF ApplyReplace
<1>4. openQty' \in [Sides -> Int] /\ pending' \in Int /\ bestOwn' \in [Sides -> Nat]
  <2>1. openQty' \in [Sides -> Int]
    <3>1. o.side \in Sides /\ o.cum \in Int /\ o.qty \in Int /\ w.cum \in Int /\ w.qty \in Int
      BY <1>1, <1>2 DEF Order, Qty
    <3>2. Leaves(o) \in Int /\ Leaves(w) \in Int
      BY <3>1 DEF Leaves
    <3>3. openQty' = [openQty EXCEPT ![o.side] = @ - Leaves(o) + Leaves(w)]
      BY DEF ApplyReplace, w
    <3> HIDE DEF o
    <3> QED BY <3>1, <3>2, <3>3 DEF IInv, TypeOK
  <2>2. pending' \in Int
    <3>1. pending' = pending \/ pending' = pending - Holds(ForgottenQty)
      BY DEF ApplyReplace
    <3>2. Holds(ForgottenQty) \in Int
      BY DEF Holds
    <3> QED BY <3>1, <3>2 DEF IInv, TypeOK
  <2>3. bestOwn' \in [Sides -> Nat]
    <3>1. o.side \in Sides /\ w.px \in Nat
      BY <1>1, <1>2 DEF Order
    <3>2. BestOf(pool', o.side) \in Nat
      BY <1>2, <3>1, BestOfType DEF IInv, TypeOK
    <3>3. \E v \in Nat : bestOwn' = [bestOwn EXCEPT ![o.side] = v] \/ bestOwn' = bestOwn
      BY <3>1, <3>2 DEF ApplyReplace, w
    <3> HIDE DEF o
    <3> QED BY <3>1, <3>3 DEF IInv, TypeOK
  <2> QED BY <2>1, <2>2, <2>3
<1>5. /\ ids' \in [Ids -> Refs]
      /\ recent' \in [RingSlots -> Record \cup {NoRecord}] /\ next' \in RingSlots
      /\ ids'[o.id].kind # "open"
      /\ \A id \in Ids : ids[id].kind = "open" /\ id # o.id => ids'[id] = ids[id]
      /\ \A id \in Ids : ids'[id].kind = "open" => ids'[id] = ids[id]
      /\ \A id \in Ids : ids[id] = NoRef => ids'[id] = NoRef
      /\ TerminalIdsNameTheirRecord' /\ RecordsAreNamed'
  <2>1. CASE Splits(o, inPlace)
    <3>1. leg \in Record /\ leg.id = o.id
      BY <1>1 DEF RecordFor, Record, Order, EndStates
    <3>2. ids' = Remembered(ids, leg) /\ PushRecord(leg)
      BY <2>1 DEF ApplyReplace
    <3> HIDE DEF leg, o
    <3>3. /\ ids' \in [Ids -> Refs]
          /\ ids'[o.id] = TermRef(next)
          /\ \A id \in Ids \ {o.id} : ids'[id] = IF ids[id] = TermRef(next) THEN NoRef ELSE ids[id]
      <4>1. ids \in [Ids -> Refs]
        BY DEF IInv, TypeOK
      <4>2. ids[leg.id].kind = "open"
        BY <1>1, <3>1
      <4> QED BY <3>1, <3>2, <4>1, <4>2, RememberedMap
    <3>4. recent' = [recent EXCEPT ![next] = leg] /\ next \in RingSlots
      BY <3>2 DEF PushRecord, IInv, TypeOK
    <3>5. TerminalIdsNameTheirRecord'
      <4> SUFFICES ASSUME NEW id \in Ids, ids'[id].kind = "terminal"
                   PROVE  recent'[ids'[id].at] # NoRecord /\ recent'[ids'[id].at].id = id
        BY DEF TerminalIdsNameTheirRecord
      <4>1. CASE id = o.id
        BY <3>1, <3>3, <3>4, <4>1 DEF IInv, TypeOK
      <4>2. CASE id # o.id
        <5>1. ids'[id] = ids[id] /\ ids[id] # TermRef(next)
          BY <3>3, <4>2
        <5>2. ids[id].at \in RingSlots \ {next}
          BY SMTT(30), <5>1, RefShape DEF IInv, TypeOK
        <5> QED BY <3>4, <5>1, <5>2 DEF IInv, TypeOK, IdsSound, TerminalIdsNameTheirRecord
      <4> QED BY <4>1, <4>2
    <3>6. RecordsAreNamed'
      <4> SUFFICES ASSUME NEW p \in RingSlots, recent'[p] # NoRecord
                   PROVE  ids'[recent'[p].id] = TermRef(p)
        BY DEF RecordsAreNamed
      <4>1. CASE p = next
        BY <3>1, <3>3, <3>4, <4>1 DEF IInv, TypeOK
      <4>2. CASE p # next
        <5>1. recent'[p] = recent[p] /\ recent[p].id \in Ids /\ ids[recent[p].id] = TermRef(p)
          BY <3>4, <4>2 DEF IInv, TypeOK, Record, IdsSound, RecordsAreNamed
        <5> QED BY <1>1, <3>3, <4>2, <5>1
      <4> QED BY <4>1, <4>2
    <3>7. recent' \in [RingSlots -> Record \cup {NoRecord}] /\ next' \in RingSlots
      BY <3>1, <3>2, PushType DEF IInv
    <3> QED BY <1>1, <3>3, <3>5, <3>6, <3>7
  <2>2. CASE ~Splits(o, inPlace)
    <3>1. ids' = [ids EXCEPT ![o.id] = NoRef] /\ UNCHANGED <<recent, next>>
      BY <2>2 DEF ApplyReplace
    <3> HIDE DEF o
    <3>2. /\ ids' \in [Ids -> Refs]
          /\ \A id \in Ids : ids'[id] = IF id = o.id THEN NoRef ELSE ids[id]
      BY <1>1, <3>1 DEF IInv, TypeOK, Refs
    <3>3. TerminalIdsNameTheirRecord'
      BY <3>1, <3>2 DEF IInv, IdsSound, TerminalIdsNameTheirRecord
    <3>4. RecordsAreNamed'
      <4>1. \A p \in RingSlots : recent[p] # NoRecord => recent[p].id \in Ids
        BY DEF IInv, TypeOK, Record
      <4> QED BY <1>1, <3>1, <3>2, <4>1 DEF IInv, IdsSound, RecordsAreNamed
    <3> QED BY <1>1, <3>1, <3>2, <3>3, <3>4 DEF IInv, TypeOK
  <2> QED BY <2>1, <2>2
<1>6. \A id \in Ids : ids[id] = SlotRef(h) => id = o.id \/ id = o.pend
  BY <1>1 DEF IInv, IdsSound, OpenIdsNameTheirOrder, Live
<1> HIDE DEF o
<1>7. TypeOK'
  <2>1. pool' \in [Slots -> Order \cup {NoOrder}]
    BY <1>2 DEF IInv, TypeOK
  <2> QED BY <1>3, <1>4, <1>5, <2>1 DEF IInv, TypeOK
<1>8. OpenIdsNameTheirOrder'
  <2> SUFFICES ASSUME NEW id \in Ids, ids'[id].kind = "open"
               PROVE  /\ pool'[ids'[id].at] # NoOrder
                      /\ id \in {pool'[ids'[id].at].id, pool'[ids'[id].at].pend}
    BY DEF OpenIdsNameTheirOrder
  <2>1. ids'[id] = ids[id] /\ id # o.id /\ ids[id].at \in Slots
    BY <1>1, <1>5, RefShape DEF IInv, TypeOK
  <2>2. CASE ids[id].at = h
    <3>1. id = o.pend
      BY <1>6, <2>1, <2>2, RefShape DEF IInv, TypeOK
    <3> QED BY <1>2, <2>1, <2>2, <3>1 DEF IInv, TypeOK
  <2>3. CASE ids[id].at # h
    BY <1>2, <2>1, <2>3 DEF IInv, TypeOK, IdsSound, OpenIdsNameTheirOrder
  <2> QED BY <2>2, <2>3
<1>9. OpenOrdersAreNamed'
  <2> SUFFICES ASSUME NEW g \in Slots, pool'[g] # NoOrder
               PROVE  /\ ids'[pool'[g].id] = SlotRef(g)
                      /\ pool'[g].state = "PendingReplace" <=> pool'[g].pend # NoId
                      /\ pool'[g].pend # NoId => /\ ids'[pool'[g].pend] = SlotRef(g)
                                                 /\ pool'[g].pend > pool'[g].id
    BY DEF OpenOrdersAreNamed
  <2>1. CASE g = h
    <3>1. pool'[g] = w
      BY <1>2, <2>1 DEF IInv, TypeOK
    <3>2. ids'[o.pend] = SlotRef(h)
      BY <1>1, <1>5
    <3> QED BY <1>2, <2>1, <3>1, <3>2
  <2>2. CASE g # h
    <3>1. pool'[g] = pool[g] /\ pool[g].id \in Ids /\ pool[g].pend \in Ids \cup {NoId}
      BY <1>2, <2>2 DEF IInv, TypeOK, Order
    <3>2. \A id \in Ids : ids[id] = SlotRef(g) => ids'[id] = SlotRef(g)
      BY <1>1, <1>5, <2>2
    <3> QED BY <3>1, <3>2 DEF IInv, IdsSound, OpenOrdersAreNamed
  <2> QED BY <2>1, <2>2
<1>10. FreshIds'
  BY <1>3, <1>5 DEF FreshIds, IInv
<1> QED BY <1>5, <1>7, <1>8, <1>9, <1>10 DEF IInv, IdsSound

-----------------------------------------------------------------------------
\* A cumulative report moves an order forward and leaves its names alone.
LEMMA AbsorbType ==
  ASSUME NEW o \in Order, NEW reported \in Qty
  PROVE  /\ AbsorbCum(o, reported) \in Order
         /\ AbsorbCum(o, reported).id = o.id
         /\ AbsorbCum(o, reported).pend = o.pend
         /\ AbsorbCum(o, reported).state = o.state
<1> DEFINE cum == Least(reported, o.qty)
<1>1. cum \in Qty /\ o.cum \in Qty
  BY OmsAssumption DEF Order, Qty, Least
<1>2. CASE cum <= o.cum
  BY <1>2 DEF AbsorbCum
<1>3. CASE ~(cum <= o.cum)
  <2>1. AbsorbCum(o, reported) = [o EXCEPT !.cum = cum, !.est = @ + (cum - o.cum)]
    BY <1>3 DEF AbsorbCum
  <2>2. o.est + (cum - o.cum) \in Nat
    BY <1>1, <1>3, OmsAssumption DEF Order, Qty
  <2> HIDE DEF cum
  <2> QED BY <1>1, <2>1, <2>2 DEF Order
<1> QED BY <1>2, <1>3

\* A new order takes an id nothing names yet and a slot no id leads to (submit).
LEMMA SubmitKeeps ==
  ASSUME IInv, NEW h \in Slots, NEW s \in Sides, NEW px \in Prices, NEW q \in 1 .. MaxQty,
         Submit(h, s, px, q)
  PROVE  IInv'
<1> USE RefDistinct, NotFree
<1> DEFINE n == seq + 1
           o == pool'[h]
<1>1. n \in Ids /\ ids[n] = NoRef /\ seq \in Nat
  BY OmsAssumption DEF Submit, IInv, TypeOK, FreshIds, Ids
<1>2. /\ o \in Order /\ o.id = n /\ o.pend = NoId /\ o.state = "PendingNew"
      /\ pool' = [pool EXCEPT ![h] = o] /\ pool[h] = NoOrder
  <2>1. o = [id |-> n, side |-> s, state |-> "PendingNew", px |-> px, qty |-> q, cum |-> 0,
             pend |-> NoId, pendPx |-> 0, pendQty |-> 0, oldCanceled |-> FALSE, seen |-> FALSE,
             attempts |-> 0, est |-> 0]
    BY DEF Submit, IInv, TypeOK
  <2>2. px \in Nat /\ q \in Qty /\ 0 \in Qty /\ 0 \in 0 .. AttemptMod - 1
    BY OmsAssumption DEF Qty
  <2>3. o \in Order /\ o.id = n /\ o.pend = NoId /\ o.state = "PendingNew"
    BY <1>1, <2>1, <2>2 DEF Order, OpenStates
  <2> QED BY <2>3 DEF Submit, IInv, TypeOK
<1>3. ids' = [ids EXCEPT ![n] = SlotRef(h)] /\ UNCHANGED <<recent, next, pending, execs, scope, ending>>
  BY DEF Submit
<1>4. seq' = n
  BY DEF Submit
<1>5. TypeOK'
  <2>1. openQty' \in [Sides -> Int]
    BY DEF Submit, IInv, TypeOK
  <2>2. bestOwn' \in [Sides -> Nat]
    BY OmsAssumption DEF Submit, IInv, TypeOK
  <2>3. ids' \in [Ids -> Refs] /\ pool' \in [Slots -> Order \cup {NoOrder}] /\ seq' \in 0 .. MaxSeq
    <3>1. SlotRef(h) \in Refs
      BY DEF Refs
    <3>2. seq' \in 0 .. MaxSeq
      BY <1>1, <1>4 DEF Ids
    <3> HIDE DEF n, o
    <3> QED BY <1>1, <1>2, <1>3, <3>1, <3>2 DEF IInv, TypeOK
  <2> QED BY <1>3, <2>1, <2>2, <2>3 DEF IInv, TypeOK
<1> HIDE DEF n, o
<1>6. \A id \in Ids : id # n => ids'[id] = ids[id] /\ ids[id] # SlotRef(h)
  <2>1. \A id \in Ids : ids[id] # SlotRef(h)
    BY <1>2 DEF IInv, IdsSound, OpenIdsNameTheirOrder
  <2> QED BY <1>1, <1>3, <2>1 DEF IInv, TypeOK
<1>7. ids'[n] = SlotRef(h) /\ \A g \in Slots \ {h} : pool'[g] = pool[g]
  BY <1>1, <1>2, <1>3 DEF IInv, TypeOK
<1>8. OpenIdsNameTheirOrder'
  <2> SUFFICES ASSUME NEW id \in Ids, ids'[id].kind = "open"
               PROVE  /\ pool'[ids'[id].at] # NoOrder
                      /\ id \in {pool'[ids'[id].at].id, pool'[ids'[id].at].pend}
    BY DEF OpenIdsNameTheirOrder
  <2>1. CASE id = n
    BY <1>2, <1>7, <2>1 DEF IInv, TypeOK
  <2>2. CASE id # n
    <3>1. ids[id].at \in Slots \ {h}
      BY SMTT(30), <1>6, <2>2, RefShape DEF IInv, TypeOK
    <3> QED BY <1>6, <1>7, <2>2, <3>1 DEF IInv, IdsSound, OpenIdsNameTheirOrder
  <2> QED BY <2>1, <2>2
<1>9. OpenOrdersAreNamed'
  <2> SUFFICES ASSUME NEW g \in Slots, pool'[g] # NoOrder
               PROVE  /\ ids'[pool'[g].id] = SlotRef(g)
                      /\ pool'[g].state = "PendingReplace" <=> pool'[g].pend # NoId
                      /\ pool'[g].pend # NoId => /\ ids'[pool'[g].pend] = SlotRef(g)
                                                 /\ pool'[g].pend > pool'[g].id
    BY DEF OpenOrdersAreNamed
  <2>1. CASE g = h
    BY <1>2, <1>7, <2>1 DEF IInv, TypeOK
  <2>2. CASE g # h
    <3>1. pool[g].id \in Ids /\ pool[g].pend \in Ids \cup {NoId}
      BY <1>7, <2>2 DEF IInv, TypeOK, Order
    <3> QED BY <1>1, <1>6, <1>7, <2>2, <3>1 DEF IInv, IdsSound, OpenOrdersAreNamed
  <2> QED BY <2>1, <2>2
<1>10. TerminalIdsNameTheirRecord'
  BY <1>3, <1>6, <1>7 DEF IInv, IdsSound, TerminalIdsNameTheirRecord
<1>11. RecordsAreNamed'
  <2>1. \A p \in RingSlots : recent[p] # NoRecord => recent[p].id \in Ids
    BY DEF IInv, TypeOK, Record
  <2> QED BY <1>1, <1>3, <1>6, <2>1 DEF IInv, IdsSound, RecordsAreNamed
<1>12. FreshIds'
  BY <1>1, <1>4, <1>6 DEF IInv, FreshIds, n, Ids
<1> QED BY <1>5, <1>8, <1>9, <1>10, <1>11, <1>12 DEF IInv, IdsSound

\* A replace gives the order a second name, its new id (request_replace).
LEMMA RequestReplaceKeeps ==
  ASSUME IInv, NEW h \in Slots, NEW px \in Prices, NEW q \in 1 .. MaxQty, RequestReplace(h, px, q)
  PROVE  IInv'
<1> USE RefDistinct, NotFree
<1> DEFINE n == seq + 1
           o == pool'[h]
<1>1. n \in Ids /\ ids[n] = NoRef /\ seq \in Nat
  BY OmsAssumption DEF RequestReplace, IInv, TypeOK, FreshIds, Ids
<1>2. /\ pool[h] \in Order /\ pool[h].pend = NoId /\ pool[h].id \in Ids /\ ids[pool[h].id] = SlotRef(h)
      /\ pool[h] # NoOrder
  BY DEF RequestReplace, Live, Working, IInv, TypeOK, IdsSound, OpenOrdersAreNamed, Order
<1>3. /\ o \in Order /\ o.id = pool[h].id /\ o.pend = n /\ o.state = "PendingReplace"
      /\ pool' = [pool EXCEPT ![h] = o]
  <2>1. o = [pool[h] EXCEPT !.pend = n, !.pendPx = px, !.pendQty = q, !.state = "PendingReplace"]
    BY <1>2 DEF RequestReplace, IInv, TypeOK
  <2>2. px \in Nat /\ q \in Qty
    BY OmsAssumption DEF Qty
  <2>3. o \in Order /\ o.id = pool[h].id /\ o.pend = n /\ o.state = "PendingReplace"
    BY ZenonT(30), <1>1, <1>2, <2>1, <2>2 DEF Order, OpenStates
  <2> QED BY <2>3 DEF RequestReplace, IInv, TypeOK
<1>4. /\ ids' = [ids EXCEPT ![n] = SlotRef(h)] /\ seq' = n
      /\ UNCHANGED <<recent, next, pending, openQty, bestOwn, execs, scope, ending>>
  BY DEF RequestReplace
<1>5. seq' \in 0 .. MaxSeq
  BY <1>1, <1>4 DEF Ids
<1>6. pool[h].id < n
  BY <1>1, <1>2 DEF IInv, FreshIds, TypeOK, Ids
<1>7. \A id \in Ids : id > n => id > seq
  BY <1>1 DEF Ids
<1> HIDE DEF n, o
<1>8. TypeOK'
  <2>1. SlotRef(h) \in Refs
    BY DEF Refs
  <2> QED BY <1>1, <1>3, <1>4, <1>5, <2>1 DEF IInv, TypeOK
<1>9. /\ ids'[n] = SlotRef(h) /\ \A id \in Ids : id # n => ids'[id] = ids[id]
      /\ pool'[h] = o /\ \A g \in Slots \ {h} : pool'[g] = pool[g]
  BY <1>1, <1>3, <1>4 DEF IInv, TypeOK
<1>10. OpenIdsNameTheirOrder'
  <2> SUFFICES ASSUME NEW id \in Ids, ids'[id].kind = "open"
               PROVE  /\ pool'[ids'[id].at] # NoOrder
                      /\ id \in {pool'[ids'[id].at].id, pool'[ids'[id].at].pend}
    BY DEF OpenIdsNameTheirOrder
  <2>1. CASE id = n
    BY <1>3, <1>9, <2>1
  <2>2. CASE id # n
    <3>1. /\ ids'[id] = ids[id] /\ ids[id].at \in Slots
          /\ pool[ids[id].at] # NoOrder /\ id \in {pool[ids[id].at].id, pool[ids[id].at].pend}
      BY <1>9, <2>2, RefShape DEF IInv, TypeOK, IdsSound, OpenIdsNameTheirOrder
    <3>2. id # NoId
      BY DEF Ids, NoId
    <3> QED BY <1>2, <1>3, <1>9, <3>1, <3>2
  <2> QED BY <2>1, <2>2
<1>11. OpenOrdersAreNamed'
  <2> SUFFICES ASSUME NEW g \in Slots, pool'[g] # NoOrder
               PROVE  /\ ids'[pool'[g].id] = SlotRef(g)
                      /\ pool'[g].state = "PendingReplace" <=> pool'[g].pend # NoId
                      /\ pool'[g].pend # NoId => /\ ids'[pool'[g].pend] = SlotRef(g)
                                                 /\ pool'[g].pend > pool'[g].id
    BY DEF OpenOrdersAreNamed
  <2>1. CASE g = h
    <3>1. pool[h].id # n /\ n > pool[h].id /\ n # NoId
      BY <1>1, <1>2, <1>6 DEF Ids, NoId
    <3> QED BY <1>2, <1>3, <1>9, <2>1, <3>1
  <2>2. CASE g # h
    <3>1. pool'[g] = pool[g] /\ pool[g].id \in Ids /\ pool[g].pend \in Ids \cup {NoId}
      BY <1>9, <2>2 DEF IInv, TypeOK, Order
    <3> QED BY <1>1, <1>9, <3>1 DEF IInv, IdsSound, OpenOrdersAreNamed
  <2> QED BY <2>1, <2>2
<1>12. TerminalIdsNameTheirRecord'
  BY <1>4, <1>9 DEF IInv, IdsSound, TerminalIdsNameTheirRecord
<1>13. RecordsAreNamed'
  <2>1. \A p \in RingSlots : recent[p] # NoRecord => recent[p].id \in Ids
    BY DEF IInv, TypeOK, Record
  <2> QED BY <1>1, <1>4, <1>9, <2>1 DEF IInv, IdsSound, RecordsAreNamed
<1>14. FreshIds'
  <2>1. \A id \in Ids : id > n => id # n
    BY <1>1 DEF Ids
  <2> QED BY <1>4, <1>7, <1>9, <2>1 DEF IInv, FreshIds
<1> QED BY <1>8, <1>10, <1>11, <1>12, <1>13, <1>14 DEF IInv, IdsSound

\* A refused replace takes the second name away again (on_reject).
LEMMA UnreplacedKeeps ==
  ASSUME IInv, NEW h \in Slots, Live(h), pool[h].state = "PendingReplace",
         NEW o \in Order, o.id = pool[h].id, o.pend = NoId, o.state # "PendingReplace",
         pool' = [pool EXCEPT ![h] = o], ids' = DropPending(ids, pool[h]),
         UNCHANGED <<seq, recent, next, pending, openQty, bestOwn, execs, scope, ending>>
  PROVE  IInv'
<1> USE RefDistinct, NotFree DEF Live
<1> DEFINE d == pool[h].pend
<1>1. /\ pool[h] \in Order /\ pool[h].id \in Ids /\ d \in Ids /\ d # pool[h].id
      /\ ids[pool[h].id] = SlotRef(h) /\ ids[d] = SlotRef(h)
  <2>1. pool[h] \in Order /\ pool[h].id \in Ids /\ d \in Ids \cup {NoId}
    BY DEF IInv, TypeOK, Order
  <2>2. /\ d # NoId /\ d > pool[h].id
        /\ ids[pool[h].id] = SlotRef(h) /\ ids[d] = SlotRef(h)
    BY DEF IInv, IdsSound, OpenOrdersAreNamed
  <2> QED BY <2>1, <2>2 DEF Ids, NoId
<1>2. ids' = [ids EXCEPT ![d] = NoRef]
  <2>1. d # NoId
    BY <1>1 DEF NoId, Ids
  <2> QED BY <1>1, <2>1 DEF DropPending
<1>3. \A id \in Ids : ids[id] = SlotRef(h) => id = pool[h].id \/ id = d
  BY DEF IInv, IdsSound, OpenIdsNameTheirOrder
<1> HIDE DEF d
<1>4. /\ ids' \in [Ids -> Refs]
      /\ \A id \in Ids : ids'[id] = IF id = d THEN NoRef ELSE ids[id]
      /\ pool'[h] = o /\ \A g \in Slots \ {h} : pool'[g] = pool[g]
  BY <1>1, <1>2 DEF IInv, TypeOK, Refs
<1>5. TypeOK'
  <2>1. pool' \in [Slots -> Order \cup {NoOrder}]
    BY DEF IInv, TypeOK
  <2> QED BY <1>4, <2>1 DEF IInv, TypeOK
<1>6. OpenIdsNameTheirOrder'
  <2> SUFFICES ASSUME NEW id \in Ids, ids'[id].kind = "open"
               PROVE  /\ pool'[ids'[id].at] # NoOrder
                      /\ id \in {pool'[ids'[id].at].id, pool'[ids'[id].at].pend}
    BY DEF OpenIdsNameTheirOrder
  <2>1. id # d /\ ids'[id] = ids[id] /\ ids[id].at \in Slots /\ ids[id] = SlotRef(ids[id].at)
    BY <1>4, RefShape DEF IInv, TypeOK
  <2>2. CASE ids[id].at = h
    BY <1>3, <1>4, <2>1, <2>2
  <2>3. CASE ids[id].at # h
    BY <1>4, <2>1, <2>3 DEF IInv, IdsSound, OpenIdsNameTheirOrder
  <2> QED BY <2>2, <2>3
<1>7. OpenOrdersAreNamed'
  <2> SUFFICES ASSUME NEW g \in Slots, pool'[g] # NoOrder
               PROVE  /\ ids'[pool'[g].id] = SlotRef(g)
                      /\ pool'[g].state = "PendingReplace" <=> pool'[g].pend # NoId
                      /\ pool'[g].pend # NoId => /\ ids'[pool'[g].pend] = SlotRef(g)
                                                 /\ pool'[g].pend > pool'[g].id
    BY DEF OpenOrdersAreNamed
  <2>1. CASE g = h
    BY <1>1, <1>4, <2>1
  <2>2. CASE g # h
    <3>1. pool'[g] = pool[g] /\ pool[g].id \in Ids /\ pool[g].pend \in Ids \cup {NoId}
      BY SMTT(30), <1>4, <2>2 DEF IInv, TypeOK, Order
    <3>2. \A id \in Ids : ids[id] = SlotRef(g) => ids'[id] = SlotRef(g)
      BY <1>1, <1>4, <2>2
    <3> QED BY <3>1, <3>2 DEF IInv, IdsSound, OpenOrdersAreNamed
  <2> QED BY <2>1, <2>2
<1>8. TerminalIdsNameTheirRecord'
  BY <1>4 DEF IInv, IdsSound, TerminalIdsNameTheirRecord
<1>9. RecordsAreNamed'
  <2>1. \A p \in RingSlots : recent[p] # NoRecord => recent[p].id \in Ids
    BY DEF IInv, TypeOK, Record
  <2> QED BY <1>1, <1>4, <2>1 DEF IInv, IdsSound, RecordsAreNamed
<1>10. FreshIds'
  BY <1>4 DEF IInv, FreshIds
<1> QED BY <1>5, <1>6, <1>7, <1>8, <1>9, <1>10 DEF IInv, IdsSound

-----------------------------------------------------------------------------
\* What lookup() returns exists.
LEMMA LookupSound ==
  ASSUME IInv, NEW id
  PROVE  /\ IsOpen(id) => /\ id \in Ids /\ SlotOf(id) \in Slots /\ Live(SlotOf(id))
                          /\ pool[SlotOf(id)] \in Order
         /\ IsTerminal(id) => /\ id \in Ids /\ SlotOf(id) \in RingSlots
                              /\ recent[SlotOf(id)] \in Record
                              /\ recent[SlotOf(id)] # NoRecord
         /\ ~(IsOpen(id) /\ IsTerminal(id))
  BY RefShape, RefDistinct DEF IInv, TypeOK, IdsSound, OpenIdsNameTheirOrder,
     TerminalIdsNameTheirRecord, IsOpen, IsTerminal, SlotOf, Ref, Live

\* What an execution carries.
LEMMA FillType ==
  ASSUME NEW m \in Fills
  PROVE  m.qty \in Nat /\ m.cum \in Nat /\ m.exec \in Execs \cup {NoExec}
<1> DEFINE A == [id : Ids \cup {NoId}, exec : Execs \cup {NoExec}, qty : 1 .. MaxQty, cum : {0},
                 replayed : BOOLEAN]
           B == [id : Ids \cup {NoId}, exec : Execs \cup {NoExec}, qty : 1 .. MaxQty,
                 cum : 1 .. MaxQty, replayed : {FALSE}]
<1>1. m \in A \/ m \in B
  BY DEF Fills
<1>2. CASE m \in A
  <2>1. m.qty \in 1 .. MaxQty /\ m.cum \in {0} /\ m.exec \in Execs \cup {NoExec}
    BY <1>2
  <2> HIDE DEF A, B
  <2> QED BY <2>1, OmsAssumption
<1>3. CASE m \in B
  <2>1. m.qty \in 1 .. MaxQty /\ m.cum \in 1 .. MaxQty /\ m.exec \in Execs \cup {NoExec}
    BY <1>3
  <2> HIDE DEF A, B
  <2> QED BY <2>1, OmsAssumption
<1> QED BY <1>1, <1>2, <1>3

\* An execution never takes more out of an estimate than the estimate holds.
LEMMA CorrectedRange ==
  ASSUME IInv, NEW m \in Fills
  PROVE  /\ CorrectedQty(m) \in Nat
         /\ IsOpen(m.id) => CorrectedQty(m) <= pool[SlotOf(m.id)].est
         /\ IsTerminal(m.id) => CorrectedQty(m) <= recent[SlotOf(m.id)].est
<1> DEFINE held == IF IsOpen(m.id) THEN pool[SlotOf(m.id)] ELSE RecordOf(m.id)
<1>1. m.qty \in Nat /\ m.cum \in Nat
  BY FillType
<1>2. CASE IsOpen(m.id) \/ IsTerminal(m.id)
  <2>1. held.est \in Nat /\ held.cum \in Nat
    BY <1>2, LookupSound, OmsAssumption DEF Order, Record, Qty, RecordOf, SlotOf
  <2>2. CorrectedQty(m) \in Nat /\ CorrectedQty(m) <= held.est
    <3> HIDE DEF held
    <3>1. CorrectedQty(m) = IF pending = 0 THEN 0
            ELSE IF ~m.replayed /\ m.cum > 0
            THEN Greatest(0, Least(Least(m.qty, held.cum - (m.cum - m.qty)), held.est))
            ELSE IF m.replayed \/ IsTerminal(m.id) THEN Least(m.qty, held.est) ELSE 0
      BY <1>2 DEF CorrectedQty, held
    <3> QED BY <1>1, <2>1, <3>1 DEF Least, Greatest
  <2>3. IsOpen(m.id) => held = pool[SlotOf(m.id)]
    OBVIOUS
  <2>4. IsTerminal(m.id) => held = recent[SlotOf(m.id)]
    BY LookupSound DEF RecordOf, SlotOf
  <2> HIDE DEF held
  <2> QED BY <2>2, <2>3, <2>4
<1>3. CASE ~(IsOpen(m.id) \/ IsTerminal(m.id))
  BY <1>3 DEF CorrectedQty
<1> QED BY <1>2, <1>3

\* A fill moves the cumulative quantity forward and not past the order.
LEMMA FilledRange ==
  ASSUME IInv, NEW m \in Fills, NEW o, o.cum \in Qty, o.qty \in Qty
  PROVE  FilledCum(o, m) \in Qty
<1>1. m.qty \in Nat /\ m.cum \in Nat /\ CorrectedQty(m) \in Nat
  BY FillType, CorrectedRange
<1> DEFINE c == IF m.cum > 0 THEN m.cum ELSE o.cum + (m.qty - CorrectedQty(m))
<1>2. c \in Int
  BY <1>1 DEF Qty
<1>3. FilledCum(o, m) = Greatest(o.cum, Least(o.qty, c))
  BY DEF FilledCum
<1> HIDE DEF c
<1> QED BY <1>2, <1>3, OmsAssumption DEF Greatest, Least, Qty

\* What remember_exec() keeps is a sequence of execution ids.
LEMMA ExecsType ==
  ASSUME TypeOK, NEW m \in Fills, RememberExec(m)
  PROVE  execs' \in Seq(Execs)
<1>1. execs \in Seq(Execs) /\ m.exec \in Execs \cup {NoExec} /\ ExecCap > 0
  BY FillType, OmsAssumption DEF TypeOK
<1>2. Len(execs) = ExecCap => Tail(execs) \in Seq(Execs)
  BY <1>1, OmsAssumption
<1> QED BY <1>1, <1>2 DEF RememberExec

\* A fill of an open order (on_fill).
LEMMA FillOpenKeeps ==
  ASSUME IInv, NEW m \in Fills, IsOpen(m.id), FillOpen(m), RememberExec(m)
  PROVE  IInv'
<1> DEFINE h == SlotOf(m.id)
           o == [pool[h] EXCEPT !.cum = FilledCum(pool[h], m), !.est = @ - CorrectedQty(m)]
           w == [o EXCEPT !.state = IF @ \in {"Live", "PendingNew"} THEN "PartiallyFilled" ELSE @]
<1>1. h \in Slots /\ Live(h) /\ pool[h] \in Order /\ execs' \in Seq(Execs)
  BY LookupSound, ExecsType DEF IInv
<1>2. o \in Order /\ o.id = pool[h].id /\ o.pend = pool[h].pend /\ o.state = pool[h].state
  <2>1. FilledCum(pool[h], m) \in Qty
    BY <1>1, FilledRange DEF Order
  <2>2. pool[h].est - CorrectedQty(m) \in Nat
    BY <1>1, CorrectedRange DEF Order
  <2> HIDE DEF h
  <2> QED BY <1>1, <2>1, <2>2 DEF Order
<1>3. w \in Order /\ w.id = o.id /\ w.pend = o.pend
      /\ (w.state = "PendingReplace" <=> o.state = "PendingReplace")
  <2> HIDE DEF o
  <2> QED BY <1>2 DEF Order, OpenStates
<1>4. \/ Terminate(h, o, "Filled", FALSE) /\ UNCHANGED ending
      \/ Update(h, w)
  BY DEF FillOpen
<1> HIDE DEF h, o, w
<1>5. CASE Terminate(h, o, "Filled", FALSE) /\ UNCHANGED ending
  <2>1. ending' \in SUBSET Slots /\ "Filled" \in EndStates
    BY <1>5 DEF IInv, TypeOK, EndStates
  <2> QED BY <1>1, <1>2, <1>5, <2>1, TerminateKeeps
<1>6. CASE Update(h, w)
  BY <1>1, <1>2, <1>3, <1>6, UpdateKeeps, UpdateTypes DEF Update, IInv
<1> QED BY <1>4, <1>5, <1>6

\* A fill of a remembered order stays with its record (late_fill).
LEMMA FillLateKeeps ==
  ASSUME IInv, NEW m \in Fills, IsTerminal(m.id), FillLate(m), RememberExec(m)
  PROVE  IInv'
<1> USE NotFree
<1> DEFINE p == SlotOf(m.id)
           r == recent[p]
           c == FilledCum(r, m)
           st == IF c > r.cum /\ c >= r.qty /\ r.state \in {"Canceled", "Expired"}
                 THEN "Filled" ELSE r.state
           n == [r EXCEPT !.est = r.est - CorrectedQty(m), !.cum = c, !.state = st]
<1>1. p \in RingSlots /\ r \in Record /\ execs' \in Seq(Execs)
  BY LookupSound, ExecsType DEF IInv
<1>2. c \in Qty /\ r.est - CorrectedQty(m) \in Nat /\ st \in EndStates
  <2>1. c \in Qty
    BY <1>1, FilledRange DEF Record
  <2>2. r.est - CorrectedQty(m) \in Nat
    BY <1>1, CorrectedRange DEF Record
  <2>3. st \in EndStates
    BY <1>1 DEF Record, EndStates
  <2> QED BY <2>1, <2>2, <2>3
<1>3. recent' = [recent EXCEPT ![p] = n]
  BY <1>1 DEF FillLate, IInv, TypeOK, Record
<1>4. UNCHANGED <<seq, pool, ids, next, openQty, bestOwn, scope, ending>>
  BY DEF FillLate
<1>5. pending' \in Int
  BY DEF FillLate, EstDelta, Holds, IInv, TypeOK
<1>6. n \in Record /\ n.id = r.id
  <2> HIDE DEF p, r, c, st
  <2> QED BY <1>1, <1>2 DEF Record
<1> HIDE DEF p, n
<1>7. recent' \in [RingSlots -> Record \cup {NoRecord}]
  BY <1>1, <1>3, <1>6 DEF IInv, TypeOK
<1>8. TypeOK'
  BY <1>1, <1>4, <1>5, <1>7 DEF IInv, TypeOK
<1>9. \A q \in RingSlots : /\ recent'[q] = NoRecord <=> recent[q] = NoRecord
                           /\ recent[q] # NoRecord => recent'[q].id = recent[q].id
  BY <1>1, <1>3, <1>6 DEF IInv, TypeOK
<1>10. seq <= seq'
  BY <1>4 DEF IInv, TypeOK
<1> QED BY <1>4, <1>8, <1>9, <1>10, SameNames

-----------------------------------------------------------------------------
\* The table starts empty.
LEMMA InitSound == Init => IInv
<1> SUFFICES ASSUME Init PROVE IInv
  OBVIOUS
<1>1. TypeOK
  <2>1. scope \in [bounded : BOOLEAN, watermark : Ids \cup {NoId}]
    BY DEF Init, NoScope
  <2>2. 0 \in RingSlots /\ 0 \in 0 .. MaxSeq
    BY OmsAssumption DEF RingSlots
  <2>3. ids \in [Ids -> Refs]
    BY DEF Init, Refs
  <2> QED BY <2>1, <2>2, <2>3 DEF Init, TypeOK
<1> QED BY <1>1, RefDistinct DEF Init, IInv, IdsSound, OpenIdsNameTheirOrder, OpenOrdersAreNamed,
           TerminalIdsNameTheirRecord, RecordsAreNamed, FreshIds

\* An order ends where the code ends one: the slot is live and the last form keeps the names.
LEMMA EndsAtKeeps ==
  ASSUME IInv, NEW h \in Slots, NEW o \in Order, Live(h),
         o.id = pool[h].id, o.pend = pool[h].pend,
         NEW st \in EndStates, Terminate(h, o, st, FALSE), UNCHANGED <<execs, ending>>
  PROVE  IInv'
<1>1. execs' \in Seq(Execs) /\ ending' \in SUBSET Slots
  BY DEF IInv, TypeOK
<1> QED BY <1>1, TerminateKeeps

\* Sending orders, cancels and replaces.
LEMMA OutboundKeeps == IInv /\ Outbound => IInv'
<1> SUFFICES ASSUME IInv, Outbound PROVE IInv'
  OBVIOUS
<1>1. CASE \E h \in Slots, s \in Sides, px \in Prices, q \in 1 .. MaxQty : Submit(h, s, px, q)
  BY <1>1, SubmitKeeps
<1>2. CASE SubmitPoolExhausted
  <2>1. TypeOK' /\ seq <= seq'
    BY <1>2, OmsAssumption DEF SubmitPoolExhausted, IInv, TypeOK
  <2> QED BY <1>2, <2>1, SameNames DEF SubmitPoolExhausted
<1>3. ASSUME NEW h \in Slots, RequestCancel(h) \/ RequestCancelUnacked(h)
      PROVE  IInv'
  <2> DEFINE o == [pool[h] EXCEPT !.state = "PendingCancel"]
  <2>1. /\ Live(h) /\ pool[h] \in Order /\ pool[h].state # "PendingReplace"
        /\ pool' = [pool EXCEPT ![h] = o]
        /\ UNCHANGED <<seq, ids, recent, next, pending, openQty, bestOwn, execs, scope, ending>>
    BY <1>3 DEF RequestCancel, RequestCancelUnacked, Live, Working, IInv, TypeOK
  <2>2. o \in Order /\ o.id = pool[h].id /\ o.pend = pool[h].pend /\ o.state # "PendingReplace"
    BY <2>1 DEF Order, OpenStates
  <2> HIDE DEF o
  <2> QED BY <2>1, <2>2, UpdateKeeps DEF IInv, TypeOK
<1>4. CASE \E h \in Slots, px \in Prices, q \in 1 .. MaxQty : RequestReplace(h, px, q)
  BY <1>4, RequestReplaceKeeps
<1> QED BY <1>1, <1>2, <1>3, <1>4 DEF Outbound

\* Nothing happens.
LEMMA IgnoredKeeps == IInv /\ Ignored => IInv'
  BY DEF Ignored, vars, IInv, TypeOK, IdsSound, OpenIdsNameTheirOrder, OpenOrdersAreNamed,
     TerminalIdsNameTheirRecord, RecordsAreNamed, FreshIds

\* Acks and rejects.
LEMMA AcksKeep ==
  ASSUME IInv, NEW id \in Ids,
         \/ \E inPlace \in BOOLEAN : OnAck(id, inPlace)
         \/ OnReject(id)
  PROVE  IInv'
<1> DEFINE h == SlotOf(id)
<1>1. IsOpen(id) => h \in Slots /\ Live(h) /\ pool[h] \in Order
  BY LookupSound
<1>2. "Rejected" \in EndStates /\ "Canceled" \in EndStates
  BY DEF EndStates
<1>3. ASSUME NEW inPlace \in BOOLEAN, OnAck(id, inPlace)
      PROVE  IInv'
  <2>1. CASE OpenIn(id, "PendingNew") /\ Update(h, [pool[h] EXCEPT !.state = "Live"])
             /\ UNCHANGED execs
    <3> DEFINE o == [pool[h] EXCEPT !.state = "Live"]
    <3>1. h \in Slots /\ Live(h) /\ pool[h] \in Order /\ pool[h].state = "PendingNew"
      BY <1>1, <2>1 DEF OpenIn
    <3> HIDE DEF h
    <3>2. o \in Order /\ o.id = pool[h].id /\ o.pend = pool[h].pend /\ o.state # "PendingReplace"
      BY <3>1 DEF Order, OpenStates
    <3>3. Update(h, o) /\ UNCHANGED execs
      BY <2>1
    <3> HIDE DEF o
    <3> QED BY <3>1, <3>2, <3>3, UpdateKeeps, UpdateTypes DEF Update, IInv, TypeOK
  <2>2. CASE OfReplace(id) /\ ApplyReplace(h, inPlace)
    BY <1>1, <2>2, ApplyReplaceKeeps DEF OfReplace, OpenIn
  <2> QED BY <1>3, <2>1, <2>2, IgnoredKeeps DEF OnAck
<1>4. CASE OnReject(id)
  <2>1. CASE OpenIn(id, "PendingNew") /\ Terminate(h, pool[h], "Rejected", FALSE)
             /\ UNCHANGED <<execs, ending>>
    BY <1>1, <1>2, <2>1, EndsAtKeeps DEF OpenIn
  <2>2. CASE OfReplace(id) /\ Terminate(h, pool[h], "Canceled", FALSE)
             /\ UNCHANGED <<execs, ending>>
    BY <1>1, <1>2, <2>2, EndsAtKeeps DEF OfReplace, OpenIn
  <2>3. ASSUME OfReplace(id), ~pool[h].oldCanceled,
               pool' = [pool EXCEPT ![h] = [Unreplaced(pool[h]) EXCEPT
                                             !.state = WorkState(Unreplaced(pool[h]))]],
               ids' = DropPending(ids, pool[h]),
               UNCHANGED <<seq, recent, next, pending, openQty, bestOwn, execs, scope, ending>>
        PROVE  IInv'
    <3> DEFINE u == Unreplaced(pool[h])
               o == [u EXCEPT !.state = WorkState(u)]
    <3>1. h \in Slots /\ Live(h) /\ pool[h] \in Order /\ pool[h].state = "PendingReplace"
      BY <1>1, <2>3 DEF OfReplace, OpenIn
    <3>2. u \in Order /\ u.id = pool[h].id /\ u.pend = NoId
      <4>1. 0 \in Qty
        BY OmsAssumption DEF Qty
      <4> HIDE DEF h
      <4> QED BY <3>1, <4>1 DEF Unreplaced, Order
    <3>3. WorkState(u) \in OpenStates /\ WorkState(u) # "PendingReplace"
      BY DEF WorkState, OpenStates
    <3> HIDE DEF u
    <3>4. o \in Order /\ o.id = pool[h].id /\ o.pend = NoId /\ o.state # "PendingReplace"
      BY <3>2, <3>3 DEF Order
    <3>5. pool' = [pool EXCEPT ![h] = o]
      BY <2>3 DEF u
    <3> HIDE DEF o, h
    <3> QED BY <2>3, <3>1, <3>4, <3>5, UnreplacedKeeps DEF h
  <2> QED BY <1>4, <2>1, <2>2, <2>3, IgnoredKeeps DEF OnReject
<1> QED BY <1>3, <1>4

\* The ends the venue reports, and refused cancels.
LEMMA EndsKeep ==
  ASSUME IInv, NEW id \in Ids,
         \/ \E cum \in Qty : OnCancelAck(id, cum)
         \/ \E cum \in Qty : OnExpired(id, cum)
         \/ \E gone \in BOOLEAN : OnCancelReject(id, gone)
  PROVE  IInv'
<1> DEFINE h == SlotOf(id)
<1>1. IsOpen(id) => h \in Slots /\ Live(h) /\ pool[h] \in Order
  BY LookupSound
<1>2. "Filled" \in EndStates /\ "Canceled" \in EndStates /\ "Expired" \in EndStates
  BY DEF EndStates
<1>3. ASSUME NEW cum \in Qty, IsOpen(id), NEW st \in {"Canceled", "Expired"},
             EndsAt(h, AbsorbCum(pool[h], cum), st)
      PROVE  IInv'
  <2> DEFINE o == AbsorbCum(pool[h], cum)
  <2>1. o \in Order /\ o.id = pool[h].id /\ o.pend = pool[h].pend
    BY <1>1, <1>3, AbsorbType
  <2>2. PICK e \in EndStates : Terminate(h, o, e, FALSE) /\ UNCHANGED <<execs, ending>>
    BY <1>2, <1>3 DEF EndsAt
  <2> HIDE DEF o
  <2> QED BY <1>1, <1>3, <2>1, <2>2, EndsAtKeeps
<1>4. ASSUME NEW cum \in Qty, OnCancelAck(id, cum)
      PROVE  IInv'
  <2>1. ASSUME OfOldLeg(id), UNCHANGED execs,
               Update(h, [AbsorbCum(pool[h], cum) EXCEPT !.oldCanceled = TRUE])
        PROVE  IInv'
    <3> DEFINE a == AbsorbCum(pool[h], cum)
               o == [a EXCEPT !.oldCanceled = TRUE]
    <3>1. h \in Slots /\ Live(h) /\ pool[h] \in Order
      BY <1>1, <2>1 DEF OfOldLeg, OpenIn
    <3>2. a \in Order /\ a.id = pool[h].id /\ a.pend = pool[h].pend /\ a.state = pool[h].state
      BY <3>1, AbsorbType
    <3> HIDE DEF a
    <3>3. o \in Order /\ o.id = pool[h].id /\ o.pend = pool[h].pend /\ o.state = pool[h].state
      BY <3>2 DEF Order
    <3>4. Update(h, o) /\ UNCHANGED execs
      BY <2>1 DEF a
    <3> HIDE DEF o, h
    <3> QED BY <3>1, <3>3, <3>4, UpdateKeeps, UpdateTypes DEF Update, IInv, TypeOK
  <2> QED BY <1>3, <1>4, <2>1, IgnoredKeeps DEF OnCancelAck
<1>5. ASSUME NEW cum \in Qty, OnExpired(id, cum)
      PROVE  IInv'
  BY <1>3, <1>5, IgnoredKeeps DEF OnExpired
<1>6. ASSUME NEW gone \in BOOLEAN, OnCancelReject(id, gone)
      PROVE  IInv'
  <2>1. CASE OpenIn(id, "PendingCancel") /\ Terminate(h, pool[h], "Canceled", FALSE)
             /\ UNCHANGED <<execs, ending>>
    BY <1>1, <1>2, <2>1, EndsAtKeeps DEF OpenIn
  <2>2. ASSUME OpenIn(id, "PendingCancel"), UNCHANGED execs,
               Update(h, [pool[h] EXCEPT !.state = WorkState(pool[h]),
                                         !.attempts = NextAttempt(@)])
        PROVE  IInv'
    <3> DEFINE o == [pool[h] EXCEPT !.state = WorkState(pool[h]), !.attempts = NextAttempt(@)]
    <3>1. h \in Slots /\ Live(h) /\ pool[h] \in Order /\ pool[h].state = "PendingCancel"
      BY <1>1, <2>2 DEF OpenIn
    <3>2. WorkState(pool[h]) \in OpenStates /\ WorkState(pool[h]) # "PendingReplace"
      BY DEF WorkState, OpenStates
    <3>3. NextAttempt(pool[h].attempts) \in 0 .. AttemptMod - 1
      BY <3>1, OmsAssumption DEF NextAttempt, Order
    <3> HIDE DEF h
    <3>4. o \in Order /\ o.id = pool[h].id /\ o.pend = pool[h].pend /\ o.state # "PendingReplace"
      BY <3>1, <3>2, <3>3 DEF Order
    <3>5. Update(h, o) /\ UNCHANGED execs
      BY <2>2 DEF h
    <3> HIDE DEF o
    <3> QED BY <3>1, <3>4, <3>5, UpdateKeeps, UpdateTypes DEF Update, IInv, TypeOK
  <2> QED BY <1>6, <2>1, <2>2, IgnoredKeeps DEF OnCancelReject
<1> QED BY <1>4, <1>5, <1>6

\* Executions.
LEMMA FillKeeps ==
  ASSUME IInv, NEW m \in Fills, OnFill(m)
  PROVE  IInv'
<1>1. CASE Ignored
  BY <1>1, IgnoredKeeps
<1>2. CASE IsOpen(m.id) /\ FillOpen(m) /\ RememberExec(m)
  BY <1>2, FillOpenKeeps
<1>3. CASE IsTerminal(m.id) /\ FillLate(m) /\ RememberExec(m)
  BY <1>3, FillLateKeeps
<1>4. ASSUME RememberExec(m),
             UNCHANGED <<seq, pool, ids, recent, next, pending, openQty, bestOwn, scope, ending>>
      PROVE  IInv'
  <2>1. TypeOK' /\ seq <= seq'
    BY <1>4, ExecsType DEF IInv, TypeOK
  <2> QED BY <1>4, <2>1, SameNames
<1> QED BY <1>1, <1>2, <1>3, <1>4 DEF OnFill

\* Reconciliation.
LEMMA ReconciliationKeeps == IInv /\ EndingOrdersAreUnseen /\ Reconciliation => IInv'
<1> SUFFICES ASSUME IInv, EndingOrdersAreUnseen, Reconciliation PROVE IInv'
  OBVIOUS
<1>1. ASSUME NEW sc \in Scopes, ReconcileBegin(sc)
      PROVE  IInv'
  <2>1. \A o \in Order : /\ [o EXCEPT !.seen = FALSE] \in Order
                         /\ [o EXCEPT !.seen = FALSE].id = o.id
                         /\ [o EXCEPT !.seen = FALSE].pend = o.pend
                         /\ [o EXCEPT !.seen = FALSE].state = o.state
    BY DEF Order
  <2>2. \A h \in Slots : \/ pool[h] = NoOrder /\ pool'[h] = NoOrder
                         \/ pool[h] \in Order /\ pool'[h] = [pool[h] EXCEPT !.seen = FALSE]
    BY <1>1, NotFree DEF ReconcileBegin, Live, IInv, TypeOK
  <2>3. \A h \in Slots :
           /\ pool'[h] \in Order \cup {NoOrder}
           /\ pool'[h] = NoOrder <=> pool[h] = NoOrder
           /\ pool[h] # NoOrder =>
                /\ pool'[h].id = pool[h].id /\ pool'[h].pend = pool[h].pend
                /\ pool'[h].state = "PendingReplace" <=> pool[h].state = "PendingReplace"
    BY <2>1, <2>2, NotFree
  <2>4. scope' \in [bounded : BOOLEAN, watermark : Ids \cup {NoId}]
    <3>1. scope' = sc /\ sc \in [bounded : {TRUE}, watermark : Ids \cup {NoId}] \cup {NoScope}
      BY <1>1 DEF ReconcileBegin, Scopes
    <3>2. NoScope \in [bounded : BOOLEAN, watermark : Ids \cup {NoId}]
      BY DEF NoScope
    <3>3. [bounded : {TRUE}, watermark : Ids \cup {NoId}] \subseteq [bounded : BOOLEAN, watermark : Ids \cup {NoId}]
      OBVIOUS
    <3> QED BY <3>1, <3>2, <3>3
  <2>5. pool' \in [Slots -> Order \cup {NoOrder}]
    BY <1>1, <2>3 DEF ReconcileBegin
  <2>6. UNCHANGED <<seq, ids, recent, next, pending, openQty, bestOwn, execs, ending>>
    BY <1>1 DEF ReconcileBegin
  <2>7. TypeOK' /\ seq <= seq'
    BY <2>4, <2>5, <2>6 DEF IInv, TypeOK
  <2> QED BY <2>3, <2>6, <2>7, SameNames
<1>2. ASSUME NEW id \in Ids, NEW cum \in Qty, ReconcileOpenOrder(id, cum)
      PROVE  IInv'
  <2> DEFINE h == SlotOf(id)
             a == AbsorbCum(pool[h], cum)
             o == [a EXCEPT !.seen = TRUE,
                            !.state = IF @ = "PendingNew" THEN WorkState(a) ELSE @]
  <2>1. CASE Ignored
    BY <2>1, IgnoredKeeps
  <2>2. CASE IsOpen(id) /\ Update(h, o) /\ UNCHANGED execs
    <3>1. h \in Slots /\ Live(h) /\ pool[h] \in Order
      BY <2>2, LookupSound
    <3>2. a \in Order /\ a.id = pool[h].id /\ a.pend = pool[h].pend /\ a.state = pool[h].state
      BY <3>1, AbsorbType
    <3>3. WorkState(a) \in OpenStates /\ WorkState(a) # "PendingReplace"
      BY DEF WorkState, OpenStates
    <3> HIDE DEF a
    <3>4. /\ o \in Order /\ o.id = pool[h].id /\ o.pend = pool[h].pend
          /\ o.state = "PendingReplace" <=> pool[h].state = "PendingReplace"
      BY <3>2, <3>3 DEF Order
    <3> HIDE DEF o, h
    <3> QED BY <2>2, <3>1, <3>4, UpdateKeeps, UpdateTypes DEF Update, IInv, TypeOK
  <2> QED BY <1>2, <2>1, <2>2 DEF ReconcileOpenOrder
<1>3. CASE ReconcileEnd
  <2>1. TypeOK' /\ seq <= seq'
    BY <1>3 DEF ReconcileEnd, Unseen, IInv, TypeOK
  <2> QED BY <1>3, <2>1, SameNames DEF ReconcileEnd
<1>4. ASSUME NEW h \in Slots, EndUnseen(h)
      PROVE  IInv'
  <2>0. Live(h)
    BY <1>4 DEF EndUnseen, EndingOrdersAreUnseen, Unseen
  <2>1. pool[h] \in Order /\ "Canceled" \in EndStates
    BY <2>0 DEF IInv, TypeOK, Live, EndStates
  <2>2. execs' \in Seq(Execs) /\ ending' \in SUBSET Slots
    BY <1>4 DEF EndUnseen, IInv, TypeOK
  <2> QED BY <1>4, <2>0, <2>1, <2>2, TerminateKeeps DEF EndUnseen
<1> QED BY <1>1, <1>2, <1>3, <1>4 DEF Reconciliation

-----------------------------------------------------------------------------
\* While reconcile_end() runs, only its callback's orders, cancels and replaces and its own loop
\* change the table, and none of them touches an order it has still to end.
LEMMA EndingKeeps ==
  ASSUME IInv, EndingOrdersAreUnseen, Next
  PROVE  EndingOrdersAreUnseen'
<1> USE NotFree DEF EndingOrdersAreUnseen, Unseen, Live
<1>1. ASSUME UNCHANGED <<ending, scope>>,
             \A h \in Slots : pool[h] # NoOrder =>
               pool'[h] # NoOrder /\ pool'[h].id = pool[h].id /\ pool'[h].seen = pool[h].seen
      PROVE  EndingOrdersAreUnseen'
  BY <1>1
<1>2. CASE \E h \in Slots, s \in Sides, px \in Prices, q \in 1 .. MaxQty : Submit(h, s, px, q)
  BY <1>1, <1>2 DEF Submit, IInv, TypeOK
<1>3. CASE SubmitPoolExhausted
  BY <1>1, <1>3 DEF SubmitPoolExhausted
<1>4. CASE \E h \in Slots : RequestCancel(h) \/ RequestCancelUnacked(h)
  <2> PICK h \in Slots : RequestCancel(h) \/ RequestCancelUnacked(h)
    BY <1>4
  <2>1. pool' = [pool EXCEPT ![h].state = "PendingCancel"] /\ UNCHANGED <<ending, scope>>
    BY DEF RequestCancel, RequestCancelUnacked
  <2>2. \A g \in Slots : pool[g] # NoOrder =>
          pool'[g] # NoOrder /\ pool'[g].id = pool[g].id /\ pool'[g].seen = pool[g].seen
    <3>1. pool[h] \in Order
      BY DEF RequestCancel, RequestCancelUnacked, IInv, TypeOK
    <3> QED BY <2>1, <3>1 DEF IInv, TypeOK, Order, NoOrder
  <2> QED BY <1>1, <2>1, <2>2
<1>5. CASE \E h \in Slots, px \in Prices, q \in 1 .. MaxQty : RequestReplace(h, px, q)
  <2> PICK h \in Slots, px \in Prices, q \in 1 .. MaxQty : RequestReplace(h, px, q)
    BY <1>5
  <2>1. /\ pool' = [pool EXCEPT ![h].pend = seq + 1, ![h].pendPx = px, ![h].pendQty = q,
                                ![h].state = "PendingReplace"]
        /\ UNCHANGED <<ending, scope>>
    BY DEF RequestReplace
  <2>2. pool[h] \in Order
    BY DEF RequestReplace, IInv, TypeOK
  <2>3. pool'[h] = [pool[h] EXCEPT !.pend = seq + 1, !.pendPx = px, !.pendQty = q,
                                   !.state = "PendingReplace"]
        /\ \A g \in Slots \ {h} : pool'[g] = pool[g]
    BY <2>1 DEF IInv, TypeOK
  <2>4. pool'[h] # NoOrder /\ pool'[h].id = pool[h].id /\ pool'[h].seen = pool[h].seen
    BY <2>2, <2>3 DEF Order, NoOrder
  <2> QED BY <1>1, <2>1, <2>3, <2>4
<1>6. CASE Dispatching /\ UNCHANGED ending
  BY <1>6 DEF Dispatching
<1>7. CASE Inbound
  BY ZenonT(30), <1>6, <1>7 DEF Inbound, OnAck, OnReject, OnCancelAck, OnExpired, OnCancelReject, OnFill,
     FillOpen, FillLate, EndsAt, Update, ApplyReplace, Ignored, vars
<1>8. CASE ReconcileEnd
  BY <1>8 DEF ReconcileEnd
<1>9. CASE \E h \in Slots : EndUnseen(h)
  BY <1>9 DEF EndUnseen, Terminate, IInv, TypeOK
<1>10. CASE \E sc \in Scopes : ReconcileBegin(sc)
  BY <1>6, <1>10 DEF ReconcileBegin
<1>11. CASE \E id \in Ids, cum \in Qty : ReconcileOpenOrder(id, cum)
  BY <1>6, <1>11 DEF ReconcileOpenOrder, Update, Ignored, vars
<1> QED BY <1>2, <1>3, <1>4, <1>5, <1>7, <1>8, <1>9, <1>10, <1>11
        DEF Next, Outbound, Reconciliation

\* Every step keeps the inductive invariant.
LEMMA StepSound == IInv /\ EndingOrdersAreUnseen /\ [Next]_vars => IInv' /\ EndingOrdersAreUnseen'
<1> SUFFICES ASSUME IInv, EndingOrdersAreUnseen, [Next]_vars
             PROVE  IInv' /\ EndingOrdersAreUnseen'
  OBVIOUS
<1>1. CASE UNCHANGED vars
  <2>1. IInv'
    BY <1>1, IgnoredKeeps DEF Ignored
  <2>2. EndingOrdersAreUnseen'
    BY <1>1 DEF vars, EndingOrdersAreUnseen, Unseen, Live
  <2> QED BY <2>1, <2>2
<1>2. CASE Next
  <2>1. Outbound => IInv'
    BY OutboundKeeps
  <2>2. Inbound => IInv'
    BY AcksKeep, EndsKeep, FillKeeps DEF Inbound
  <2>3. Reconciliation => IInv'
    BY ReconciliationKeeps
  <2>4. EndingOrdersAreUnseen'
    BY <1>2, EndingKeeps
  <2> QED BY <1>2, <2>1, <2>2, <2>3, <2>4 DEF Next
<1> QED BY <1>1, <1>2

\* Whatever messages arrive, in whatever order and however often, the table keeps its types.
THEOREM OmsTypes == Spec => []TypeOK
<1>1. Init => IInv /\ EndingOrdersAreUnseen
  BY InitSound DEF Init, EndingOrdersAreUnseen
<1>2. IInv => TypeOK
  BY DEF IInv
<1> QED BY <1>1, <1>2, StepSound, PTL DEF Spec

\* Whatever messages arrive, an id leads to its own open order, to its own terminal record or
\* nowhere, and every open order and remembered record is found under its id: no replace, late ack,
\* wrapped ring or reused slot makes the table read or free another order.
THEOREM OmsIdsSound == Spec => []IdsSound
<1>1. Init => IInv /\ EndingOrdersAreUnseen
  BY InitSound DEF Init, EndingOrdersAreUnseen
<1>2. IInv => IdsSound
  BY DEF IInv
<1> QED BY <1>1, <1>2, StepSound, PTL DEF Spec

\* reconcile_end() ends only the orders its snapshot missed, whatever its callback places or
\* cancels between two of them.
THEOREM OmsEndsUnseenOnly == Spec => []EndingOrdersAreUnseen
<1>1. Init => IInv /\ EndingOrdersAreUnseen
  BY InitSound DEF Init, EndingOrdersAreUnseen
<1> QED BY <1>1, StepSound, PTL DEF Spec

-----------------------------------------------------------------------------
(***************************************************************************)
(* The shapes of a step.  What the aggregates depend on changes in six     *)
(* ways only.                                                              *)
(***************************************************************************)

\* n is o with another state or filled quantity: side, price and quantity stay, and the price of a
\* replace in flight is one that was asked for.
Alike(o, n) ==
  /\ n.side = o.side /\ n.px = o.px /\ n.qty = o.qty
  /\ n.pend = NoId \/ n.pendPx \in Prices \/ (n.pend = o.pend /\ n.pendPx = o.pendPx)

\* No order, no fill, no end.
Quiet ==
  /\ UNCHANGED <<recent, pending, openQty, bestOwn>>
  /\ \A h \in Slots : \/ pool'[h] = pool[h]
                      \/ /\ pool[h] \in Order /\ pool'[h] \in Order
                         /\ Alike(pool[h], pool'[h])
                         /\ pool'[h].cum = pool[h].cum /\ pool'[h].est = pool[h].est

\* finish_update() and terminate() of an open order.
Updating(h, o) == pool[h] \in Order /\ o \in Order /\ Alike(pool[h], o) /\ Update(h, o)
Terminating(h, o, st, byRecon) ==
  pool[h] \in Order /\ o \in Order /\ Alike(pool[h], o) /\ Terminate(h, o, st, byRecon)

\* apply_replace() of an order that waits for one.
Replacing(h, inPlace) ==
  /\ pool[h] \in Order /\ pool[h].pend \in Ids
  /\ ApplyReplace(h, inPlace)

\* A late fill takes part of an estimate out of a record.
LateFilling(p, n) ==
  /\ recent[p] \in Record /\ n \in Record
  /\ recent' = [recent EXCEPT ![p] = n]
  /\ pending' = pending + EstDelta(recent[p].est, n.est)
  /\ UNCHANGED <<pool, openQty, bestOwn>>

StepShape ==
  \/ Quiet
  \/ \E h \in Slots, o \in Order : Updating(h, o)
  \/ \E h \in Slots, o \in Order, st \in EndStates, byRecon \in BOOLEAN :
       Terminating(h, o, st, byRecon)
  \/ \E h \in Slots, inPlace \in BOOLEAN : Replacing(h, inPlace)
  \/ \E h \in Slots, s \in Sides, px \in Prices, q \in 1 .. MaxQty : Submit(h, s, px, q)
  \/ \E p \in RingSlots, n \in Record : LateFilling(p, n)

\* A cumulative report leaves an order's terms alone.
LEMMA AbsorbAlike ==
  ASSUME NEW o \in Order, NEW reported \in Qty
  PROVE  LET n == AbsorbCum(o, reported)
         IN  /\ n \in Order /\ n.side = o.side /\ n.px = o.px /\ n.qty = o.qty
             /\ n.pend = o.pend /\ n.pendPx = o.pendPx
<1> DEFINE c == Least(reported, o.qty)
<1>1. CASE c <= o.cum
  BY <1>1, AbsorbType DEF AbsorbCum
<1>2. CASE ~(c <= o.cum)
  <2>1. AbsorbCum(o, reported) = [o EXCEPT !.cum = c, !.est = @ + (c - o.cum)]
    BY <1>2 DEF AbsorbCum
  <2> HIDE DEF c
  <2> QED BY <2>1, AbsorbType DEF Order
<1> QED BY <1>1, <1>2

\* Every order but for its other fields.
LEMMA AlikeFacts ==
  /\ \A o \in Order : Alike(o, o)
  /\ \A o \in Order : \A n \in Order :
       /\ n.side = o.side /\ n.px = o.px /\ n.qty = o.qty /\ n.pend = o.pend /\ n.pendPx = o.pendPx
       => Alike(o, n)
  BY DEF Alike

LEMMA IgnoredQuiet == Ignored => StepShape
  BY DEF Ignored, vars, StepShape, Quiet

LEMMA OutboundShape ==
  ASSUME IInv, Outbound
  PROVE  StepShape
<1> USE NotFree
<1>1. CASE \E h \in Slots, s \in Sides, px \in Prices, q \in 1 .. MaxQty : Submit(h, s, px, q)
  BY <1>1 DEF StepShape
<1>2. CASE SubmitPoolExhausted
  BY <1>2 DEF SubmitPoolExhausted, StepShape, Quiet
<1>3. ASSUME NEW h \in Slots, RequestCancel(h) \/ RequestCancelUnacked(h)
      PROVE  StepShape
  <2> DEFINE o == [pool[h] EXCEPT !.state = "PendingCancel"]
  <2>1. /\ pool[h] \in Order /\ pool' = [pool EXCEPT ![h] = o]
        /\ UNCHANGED <<recent, pending, openQty, bestOwn>>
    BY <1>3 DEF RequestCancel, RequestCancelUnacked, Live, IInv, TypeOK
  <2>2. o \in Order /\ Alike(pool[h], o) /\ o.cum = pool[h].cum /\ o.est = pool[h].est
    BY <2>1 DEF Order, OpenStates, Alike
  <2> HIDE DEF o
  <2> QED BY <2>1, <2>2 DEF StepShape, Quiet, IInv, TypeOK
<1>4. ASSUME NEW h \in Slots, NEW px \in Prices, NEW q \in 1 .. MaxQty, RequestReplace(h, px, q)
      PROVE  StepShape
  <2> DEFINE o == [pool[h] EXCEPT !.pend = seq + 1, !.pendPx = px, !.pendQty = q,
                                  !.state = "PendingReplace"]
  <2>1. /\ pool[h] \in Order /\ pool' = [pool EXCEPT ![h] = o]
        /\ UNCHANGED <<recent, pending, openQty, bestOwn>>
    BY <1>4 DEF RequestReplace, Live, IInv, TypeOK
  <2>2. px \in Nat /\ q \in Qty /\ seq + 1 \in Ids
    BY <1>4, OmsAssumption DEF RequestReplace, Qty, Ids, IInv, TypeOK
  <2>3. o \in Order /\ Alike(pool[h], o) /\ o.cum = pool[h].cum /\ o.est = pool[h].est
    BY <2>1, <2>2 DEF Order, OpenStates, Alike
  <2> HIDE DEF o
  <2> QED BY <2>1, <2>3 DEF StepShape, Quiet, IInv, TypeOK
<1> QED BY <1>1, <1>2, <1>3, <1>4 DEF Outbound

LEMMA AckShape ==
  ASSUME IInv, NEW id \in Ids,
         \/ \E inPlace \in BOOLEAN : OnAck(id, inPlace)
         \/ OnReject(id)
  PROVE  StepShape
<1> DEFINE h == SlotOf(id)
<1>1. IsOpen(id) => h \in Slots /\ Live(h) /\ pool[h] \in Order
  BY LookupSound
<1>2. "Rejected" \in EndStates /\ "Canceled" \in EndStates /\ FALSE \in BOOLEAN
  BY DEF EndStates
<1>3. ASSUME NEW st \in EndStates, h \in Slots, pool[h] \in Order, Terminate(h, pool[h], st, FALSE)
      PROVE  StepShape
  <2>1. Terminating(h, pool[h], st, FALSE)
    BY <1>3, AlikeFacts DEF Terminating
  <2> HIDE DEF h
  <2> QED BY <1>2, <1>3, <2>1 DEF StepShape
<1>4. ASSUME NEW inPlace \in BOOLEAN, OnAck(id, inPlace)
      PROVE  StepShape
  <2>1. CASE OpenIn(id, "PendingNew") /\ Update(h, [pool[h] EXCEPT !.state = "Live"])
    <3> DEFINE o == [pool[h] EXCEPT !.state = "Live"]
    <3>1. h \in Slots /\ pool[h] \in Order
      BY <1>1, <2>1 DEF OpenIn
    <3> HIDE DEF h
    <3>2. o \in Order /\ Alike(pool[h], o)
      BY <3>1 DEF Order, OpenStates, Alike
    <3>3. Update(h, o)
      BY <2>1 DEF h
    <3> HIDE DEF o
    <3> QED BY <3>1, <3>2, <3>3 DEF StepShape, Updating
  <2>2. CASE OfReplace(id) /\ ApplyReplace(h, inPlace)
    <3>1. h \in Slots /\ pool[h] \in Order /\ id = pool[h].pend
      BY <1>1, <2>2 DEF OfReplace, OpenIn
    <3>2. Replacing(h, inPlace)
      BY <2>2, <3>1 DEF Replacing
    <3> HIDE DEF h
    <3> QED BY <3>1, <3>2 DEF StepShape
  <2> QED BY <1>4, <2>1, <2>2, IgnoredQuiet DEF OnAck
<1>5. CASE OnReject(id)
  <2>1. CASE OpenIn(id, "PendingNew") /\ Terminate(h, pool[h], "Rejected", FALSE)
    BY <1>1, <1>2, <1>3, <2>1 DEF OpenIn
  <2>2. CASE OfReplace(id) /\ Terminate(h, pool[h], "Canceled", FALSE)
    BY <1>1, <1>2, <1>3, <2>2 DEF OfReplace, OpenIn
  <2>3. ASSUME OfReplace(id),
               pool' = [pool EXCEPT ![h] = [Unreplaced(pool[h]) EXCEPT
                                             !.state = WorkState(Unreplaced(pool[h]))]],
               UNCHANGED <<seq, recent, next, pending, openQty, bestOwn, execs, scope, ending>>
        PROVE  StepShape
    <3> DEFINE u == Unreplaced(pool[h])
               o == [u EXCEPT !.state = WorkState(u)]
    <3>1. h \in Slots /\ pool[h] \in Order
      BY <1>1, <2>3 DEF OfReplace, OpenIn
    <3>2. /\ u \in Order /\ u.pend = NoId /\ u.side = pool[h].side /\ u.px = pool[h].px
          /\ u.qty = pool[h].qty /\ u.cum = pool[h].cum /\ u.est = pool[h].est
      <4>1. 0 \in Qty
        BY OmsAssumption DEF Qty
      <4> HIDE DEF h
      <4> QED BY <3>1, <4>1 DEF Unreplaced, Order
    <3>3. WorkState(u) \in OpenStates
      BY DEF WorkState, OpenStates
    <3> HIDE DEF u
    <3>4. /\ o \in Order /\ o.pend = NoId /\ o.side = pool[h].side /\ o.px = pool[h].px
          /\ o.qty = pool[h].qty /\ o.cum = pool[h].cum /\ o.est = pool[h].est
      BY <3>2, <3>3 DEF Order
    <3>5. pool' = [pool EXCEPT ![h] = o] /\ UNCHANGED <<recent, pending, openQty, bestOwn>>
      BY <2>3 DEF u
    <3> HIDE DEF o, h
    <3> QED BY <3>1, <3>4, <3>5 DEF StepShape, Quiet, Alike, IInv, TypeOK
  <2> QED BY <1>5, <2>1, <2>2, <2>3, IgnoredQuiet DEF OnReject
<1> QED BY <1>4, <1>5

LEMMA EndShape ==
  ASSUME IInv, NEW id \in Ids,
         \/ \E cum \in Qty : OnCancelAck(id, cum)
         \/ \E cum \in Qty : OnExpired(id, cum)
         \/ \E gone \in BOOLEAN : OnCancelReject(id, gone)
  PROVE  StepShape
<1> DEFINE h == SlotOf(id)
<1>1. IsOpen(id) => h \in Slots /\ Live(h) /\ pool[h] \in Order
  BY LookupSound
<1>2. "Filled" \in EndStates /\ "Canceled" \in EndStates /\ "Expired" \in EndStates
      /\ FALSE \in BOOLEAN
  BY DEF EndStates
<1>3. ASSUME NEW cum \in Qty, IsOpen(id), NEW st \in {"Canceled", "Expired"},
             EndsAt(h, AbsorbCum(pool[h], cum), st)
      PROVE  StepShape
  <2> DEFINE o == AbsorbCum(pool[h], cum)
  <2>1. o \in Order /\ Alike(pool[h], o)
    BY <1>1, <1>3, AbsorbAlike, AlikeFacts
  <2>2. PICK e \in EndStates : Terminate(h, o, e, FALSE)
    BY <1>2, <1>3 DEF EndsAt
  <2>3. Terminating(h, o, e, FALSE)
    BY <1>1, <1>3, <2>1, <2>2 DEF Terminating
  <2> HIDE DEF o, h
  <2> QED BY <1>1, <1>2, <1>3, <2>1, <2>2, <2>3 DEF StepShape
<1>4. ASSUME NEW cum \in Qty, OnCancelAck(id, cum)
      PROVE  StepShape
  <2>1. ASSUME OfOldLeg(id), Update(h, [AbsorbCum(pool[h], cum) EXCEPT !.oldCanceled = TRUE])
        PROVE  StepShape
    <3> DEFINE a == AbsorbCum(pool[h], cum)
               o == [a EXCEPT !.oldCanceled = TRUE]
    <3>1. h \in Slots /\ pool[h] \in Order
      BY <1>1, <2>1 DEF OfOldLeg, OpenIn
    <3>2. /\ a \in Order /\ a.side = pool[h].side /\ a.px = pool[h].px /\ a.qty = pool[h].qty
          /\ a.pend = pool[h].pend /\ a.pendPx = pool[h].pendPx
      BY <3>1, AbsorbAlike
    <3> HIDE DEF a
    <3>3. o \in Order /\ Alike(pool[h], o)
      <4>1. /\ o \in Order /\ o.side = a.side /\ o.px = a.px /\ o.qty = a.qty
            /\ o.pend = a.pend /\ o.pendPx = a.pendPx
        BY <3>2 DEF Order
      <4> HIDE DEF o, h
      <4> QED BY <3>1, <3>2, <4>1, AlikeFacts
    <3>4. Update(h, o)
      BY <2>1 DEF a
    <3> HIDE DEF o, h
    <3> QED BY <3>1, <3>3, <3>4 DEF StepShape, Updating
  <2> QED BY <1>3, <1>4, <2>1, IgnoredQuiet DEF OnCancelAck
<1>5. ASSUME NEW cum \in Qty, OnExpired(id, cum)
      PROVE  StepShape
  BY <1>3, <1>5, IgnoredQuiet DEF OnExpired
<1>6. ASSUME NEW gone \in BOOLEAN, OnCancelReject(id, gone)
      PROVE  StepShape
  <2>1. CASE OpenIn(id, "PendingCancel") /\ Terminate(h, pool[h], "Canceled", FALSE)
    <3>1. h \in Slots /\ Terminating(h, pool[h], "Canceled", FALSE)
      BY <1>1, <2>1, AlikeFacts DEF OpenIn, Terminating
    <3> HIDE DEF h
    <3> QED BY <1>2, <3>1 DEF StepShape, Terminating
  <2>2. ASSUME OpenIn(id, "PendingCancel"),
               Update(h, [pool[h] EXCEPT !.state = WorkState(pool[h]),
                                         !.attempts = NextAttempt(@)])
        PROVE  StepShape
    <3> DEFINE o == [pool[h] EXCEPT !.state = WorkState(pool[h]), !.attempts = NextAttempt(@)]
    <3>1. h \in Slots /\ pool[h] \in Order
      BY <1>1, <2>2 DEF OpenIn
    <3>2. WorkState(pool[h]) \in OpenStates
      BY DEF WorkState, OpenStates
    <3>3. NextAttempt(pool[h].attempts) \in 0 .. AttemptMod - 1
      BY <3>1, OmsAssumption DEF NextAttempt, Order
    <3> HIDE DEF h
    <3>4. o \in Order /\ Alike(pool[h], o)
      BY <3>1, <3>2, <3>3 DEF Order, Alike
    <3>5. Update(h, o)
      BY <2>2 DEF h
    <3> HIDE DEF o
    <3> QED BY <3>1, <3>4, <3>5 DEF StepShape, Updating
  <2> QED BY <1>6, <2>1, <2>2, IgnoredQuiet DEF OnCancelReject
<1> QED BY <1>4, <1>5, <1>6

LEMMA FillShape ==
  ASSUME IInv, NEW m \in Fills, OnFill(m)
  PROVE  StepShape
<1>1. CASE Ignored
  BY <1>1, IgnoredQuiet
<1>2. CASE IsOpen(m.id) /\ FillOpen(m)
  <2> DEFINE h == SlotOf(m.id)
             o == [pool[h] EXCEPT !.cum = FilledCum(pool[h], m), !.est = @ - CorrectedQty(m)]
             w == [o EXCEPT !.state = IF @ \in {"Live", "PendingNew"} THEN "PartiallyFilled" ELSE @]
  <2>1. h \in Slots /\ pool[h] \in Order
    BY <1>2, LookupSound
  <2>2. o \in Order /\ Alike(pool[h], o)
    <3>1. FilledCum(pool[h], m) \in Qty
      BY <2>1, FilledRange DEF Order
    <3>2. pool[h].est - CorrectedQty(m) \in Nat
      BY <1>2, <2>1, CorrectedRange DEF Order
    <3> HIDE DEF h
    <3> QED BY <2>1, <3>1, <3>2 DEF Order, Alike
  <2>3. w \in Order /\ Alike(pool[h], w)
    <3> HIDE DEF o
    <3>1. /\ w \in Order /\ w.side = o.side /\ w.px = o.px /\ w.qty = o.qty
          /\ w.pend = o.pend /\ w.pendPx = o.pendPx
      BY <2>2 DEF Order, OpenStates
    <3> HIDE DEF w, h
    <3> QED BY <2>2, <3>1 DEF Alike
  <2>4. Terminate(h, o, "Filled", FALSE) \/ Update(h, w)
    BY <1>2 DEF FillOpen
  <2> HIDE DEF h, o, w
  <2>5. CASE Terminate(h, o, "Filled", FALSE)
    <3>1. Terminating(h, o, "Filled", FALSE) /\ "Filled" \in EndStates /\ FALSE \in BOOLEAN
      BY <2>1, <2>2, <2>5 DEF Terminating, EndStates
    <3> QED BY <2>1, <2>2, <3>1 DEF StepShape
  <2>6. CASE Update(h, w)
    BY <2>1, <2>3, <2>6 DEF Updating, StepShape
  <2> QED BY <2>4, <2>5, <2>6
<1>3. CASE IsTerminal(m.id) /\ FillLate(m)
  <2> DEFINE p == SlotOf(m.id)
             r == recent[p]
             c == FilledCum(r, m)
             e == r.est - CorrectedQty(m)
             st == IF c > r.cum /\ c >= r.qty /\ r.state \in {"Canceled", "Expired"}
                   THEN "Filled" ELSE r.state
             n == [r EXCEPT !.est = e, !.cum = c, !.state = st]
  <2>1. p \in RingSlots /\ r \in Record
    BY <1>3, LookupSound
  <2>2. c \in Qty /\ e \in Nat /\ st \in EndStates
    <3>1. c \in Qty
      BY <2>1, FilledRange DEF Record
    <3>2. e \in Nat
      BY <1>3, <2>1, CorrectedRange DEF Record
    <3>3. st \in EndStates
      BY <2>1 DEF Record, EndStates
    <3> QED BY <3>1, <3>2, <3>3
  <2>3. recent' = [recent EXCEPT ![p] = n]
    BY <1>3, <2>1 DEF FillLate, IInv, TypeOK, Record
  <2>4. pending' = pending + EstDelta(r.est, e) /\ UNCHANGED <<pool, openQty, bestOwn>>
    BY <1>3 DEF FillLate
  <2>5. n \in Record /\ n.est = e
    <3> HIDE DEF p, r, c, st, e
    <3> QED BY <2>1, <2>2 DEF Record
  <2> HIDE DEF n, e
  <2>6. LateFilling(p, n)
    BY <2>1, <2>3, <2>4, <2>5 DEF LateFilling
  <2> HIDE DEF p
  <2> QED BY <2>1, <2>5, <2>6 DEF StepShape
<1>4. CASE UNCHANGED <<seq, pool, ids, recent, next, pending, openQty, bestOwn, scope, ending>>
  BY <1>4 DEF StepShape, Quiet
<1> QED BY <1>1, <1>2, <1>3, <1>4 DEF OnFill

LEMMA ReconciliationShape ==
  ASSUME IInv, EndingOrdersAreUnseen, Reconciliation
  PROVE  StepShape
<1>1. ASSUME NEW sc \in Scopes, ReconcileBegin(sc)
      PROVE  StepShape
  <2>1. ASSUME NEW o \in Order
        PROVE  LET n == [o EXCEPT !.seen = FALSE]
               IN  n \in Order /\ Alike(o, n) /\ n.cum = o.cum /\ n.est = o.est
    BY <2>1 DEF Order, Alike
  <2>2. \A h \in Slots : \/ pool'[h] = pool[h]
                         \/ pool[h] \in Order /\ pool'[h] = [pool[h] EXCEPT !.seen = FALSE]
    BY <1>1, NotFree DEF ReconcileBegin, Live, IInv, TypeOK
  <2>3. UNCHANGED <<recent, pending, openQty, bestOwn>>
    BY <1>1 DEF ReconcileBegin
  <2> QED BY <2>1, <2>2, <2>3 DEF StepShape, Quiet
<1>2. ASSUME NEW id \in Ids, NEW cum \in Qty, ReconcileOpenOrder(id, cum)
      PROVE  StepShape
  <2> DEFINE h == SlotOf(id)
             a == AbsorbCum(pool[h], cum)
             o == [a EXCEPT !.seen = TRUE,
                            !.state = IF @ = "PendingNew" THEN WorkState(a) ELSE @]
  <2>1. CASE Ignored
    BY <2>1, IgnoredQuiet
  <2>2. CASE IsOpen(id) /\ Update(h, o)
    <3>1. h \in Slots /\ pool[h] \in Order
      BY <2>2, LookupSound
    <3>2. /\ a \in Order /\ a.side = pool[h].side /\ a.px = pool[h].px /\ a.qty = pool[h].qty
          /\ a.pend = pool[h].pend /\ a.pendPx = pool[h].pendPx
      BY <3>1, AbsorbAlike
    <3>3. WorkState(a) \in OpenStates
      BY DEF WorkState, OpenStates
    <3> HIDE DEF a
    <3>4. /\ o \in Order /\ o.side = a.side /\ o.px = a.px /\ o.qty = a.qty
          /\ o.pend = a.pend /\ o.pendPx = a.pendPx
      BY <3>2, <3>3 DEF Order
    <3> HIDE DEF o, h
    <3>5. Alike(pool[h], o)
      BY <3>1, <3>2, <3>4, AlikeFacts
    <3> QED BY <2>2, <3>1, <3>4, <3>5 DEF StepShape, Updating
  <2> QED BY <1>2, <2>1, <2>2 DEF ReconcileOpenOrder
<1>3. CASE ReconcileEnd
  BY <1>3 DEF ReconcileEnd, StepShape, Quiet
<1>4. ASSUME NEW h \in Slots, EndUnseen(h)
      PROVE  StepShape
  <2>1. pool[h] \in Order
    BY <1>4 DEF EndUnseen, EndingOrdersAreUnseen, Unseen, Live, IInv, TypeOK
  <2>2. Terminating(h, pool[h], "Canceled", TRUE) /\ "Canceled" \in EndStates /\ TRUE \in BOOLEAN
    BY <1>4, <2>1, AlikeFacts DEF EndUnseen, Terminating, EndStates
  <2> QED BY <2>1, <2>2 DEF StepShape
<1> QED BY <1>1, <1>2, <1>3, <1>4 DEF Reconciliation

\* Every step of the table has one of the six shapes.
LEMMA StepShapes ==
  ASSUME IInv, EndingOrdersAreUnseen, [Next]_vars
  PROVE  StepShape
<1>1. CASE UNCHANGED vars
  BY <1>1, IgnoredQuiet DEF Ignored
<1>2. CASE Inbound
  BY <1>2, AckShape, EndShape, FillShape DEF Inbound
<1> QED BY <1>1, <1>2, OutboundShape, ReconciliationShape DEF Next

-----------------------------------------------------------------------------
(***************************************************************************)
(* The gauge of estimates.                                                 *)
(***************************************************************************)

OpenHolders(P)  == {h \in Slots : P[h] # NoOrder /\ P[h].est > 0}
EndedHolders(R) == {p \in RingSlots : R[p] # NoRecord /\ R[p].est > 0}

\* What one slot contributes.
OpenHolds(o)  == IF o # NoOrder /\ o.est > 0 THEN 1 ELSE 0
EndedHolds(r) == IF r # NoRecord /\ r.est > 0 THEN 1 ELSE 0

LEMMA FiniteSlots == IsFiniteSet(Slots) /\ IsFiniteSet(RingSlots)
<1>1. IsFiniteSet(1 .. PoolCap) /\ IsFiniteSet(0 .. RingCap - 1)
  BY OmsAssumption, FS_Interval
<1> QED BY <1>1 DEF Slots, RingSlots

LEMMA HoldersType ==
  ASSUME NEW P, NEW R
  PROVE  Cardinality(OpenHolders(P)) \in Nat /\ Cardinality(EndedHolders(R)) \in Nat
<1>1. OpenHolders(P) \in SUBSET Slots /\ EndedHolders(R) \in SUBSET RingSlots
  BY DEF OpenHolders, EndedHolders
<1> QED BY <1>1, FiniteSlots, FS_Subset, FS_CardinalityType

\* Changing one slot of the pool changes the count by what that slot contributes.
LEMMA OpenHoldersChange ==
  ASSUME NEW P, NEW Q, NEW h \in Slots, \A g \in Slots \ {h} : Q[g] = P[g]
  PROVE  Cardinality(OpenHolders(Q))
           = Cardinality(OpenHolders(P)) + OpenHolds(Q[h]) - OpenHolds(P[h])
<1> DEFINE A == OpenHolders(P)
           B == OpenHolders(Q)
<1>1. A \in SUBSET Slots /\ B \in SUBSET Slots /\ \A g \in Slots \ {h} : g \in A <=> g \in B
  BY DEF OpenHolders
<1>2. /\ OpenHolds(Q[h]) = IF h \in B THEN 1 ELSE 0
      /\ OpenHolds(P[h]) = IF h \in A THEN 1 ELSE 0
  BY DEF OpenHolders, OpenHolds
<1> HIDE DEF A, B
<1>3. Cardinality(B) = Cardinality(A) + (IF h \in B THEN 1 ELSE 0) - (IF h \in A THEN 1 ELSE 0)
  BY <1>1, FiniteSlots, CountOne
<1> QED BY <1>2, <1>3 DEF A, B

LEMMA EndedHoldersChange ==
  ASSUME NEW P, NEW Q, NEW h \in RingSlots, \A g \in RingSlots \ {h} : Q[g] = P[g]
  PROVE  Cardinality(EndedHolders(Q))
           = Cardinality(EndedHolders(P)) + EndedHolds(Q[h]) - EndedHolds(P[h])
<1> DEFINE A == EndedHolders(P)
           B == EndedHolders(Q)
<1>1. A \in SUBSET RingSlots /\ B \in SUBSET RingSlots
      /\ \A g \in RingSlots \ {h} : g \in A <=> g \in B
  BY DEF EndedHolders
<1>2. /\ EndedHolds(Q[h]) = IF h \in B THEN 1 ELSE 0
      /\ EndedHolds(P[h]) = IF h \in A THEN 1 ELSE 0
  BY DEF EndedHolders, EndedHolds
<1> HIDE DEF A, B
<1>3. Cardinality(B) = Cardinality(A) + (IF h \in B THEN 1 ELSE 0) - (IF h \in A THEN 1 ELSE 0)
  BY <1>1, FiniteSlots, CountOne
<1> QED BY <1>2, <1>3 DEF A, B

\* The order after a replace.
LEMMA ReplacedFields ==
  ASSUME NEW o \in Order, o.pend \in Ids, NEW inPlace \in BOOLEAN
  PROVE  LET n == Replaced(o, inPlace)
         IN  /\ n \in Order /\ n.side = o.side /\ n.px = o.pendPx /\ n.pend = NoId
             /\ n.est = IF Splits(o, inPlace) THEN 0 ELSE o.est
<1> DEFINE c == IF inPlace THEN Least(o.cum, o.pendQty) ELSE 0
           e == IF Splits(o, inPlace) THEN 0 ELSE o.est
           st == IF c = 0 THEN "Live" ELSE "PartiallyFilled"
<1>1. Replaced(o, inPlace) =
        [o EXCEPT !.id = o.pend, !.px = o.pendPx, !.qty = o.pendQty, !.cum = c,
                  !.pend = NoId, !.pendPx = 0, !.pendQty = 0, !.oldCanceled = FALSE,
                  !.est = e, !.state = st]
  BY DEF Replaced, Order
<1>2. Replaced(o, inPlace) \in Order
  BY ReplacedType
<1> HIDE DEF c, st, e
<1>3. LET n == Replaced(o, inPlace)
      IN  n.side = o.side /\ n.px = o.pendPx /\ n.pend = NoId /\ n.est = e
  BY <1>1 DEF Order
<1> QED BY <1>2, <1>3 DEF e

LEMMA HoldsFacts ==
  /\ \A o \in Order : OpenHolds(o) = Holds(o.est) /\ o.est \in Nat
  /\ \A r \in Record : EndedHolds(r) = Holds(r.est) /\ r.est \in Nat
  /\ OpenHolds(NoOrder) = 0 /\ EndedHolds(NoRecord) = 0
  /\ \A e : Holds(e) \in Int
  /\ Holds(0) = 0
  BY NotFree DEF OpenHolds, EndedHolds, Holds, Order, Record

\* What a push takes out of the ring.
LEMMA ForgottenHolds ==
  ASSUME TypeOK
  PROVE  EndedHolds(recent[next]) = Holds(ForgottenQty)
<1>1. recent[next] \in Record \cup {NoRecord}
  BY DEF TypeOK
<1> QED BY <1>1, HoldsFacts DEF ForgottenQty, Full

\* A record pushed replaces the oldest one.
LEMMA PushHolders ==
  ASSUME TypeOK, NEW r \in Record, PushRecord(r)
  PROVE  Cardinality(EndedHolders(recent'))
           = Cardinality(EndedHolders(recent)) + Holds(r.est) - Holds(ForgottenQty)
<1>1. next \in RingSlots /\ recent'[next] = r /\ \A g \in RingSlots \ {next} : recent'[g] = recent[g]
  BY DEF TypeOK, PushRecord
<1> QED BY ZenonT(30), <1>1, EndedHoldersChange, ForgottenHolds, HoldsFacts

LEMMA RecordForType ==
  ASSUME NEW o \in Order, NEW st \in EndStates, NEW byRecon \in BOOLEAN
  PROVE  RecordFor(o, st, byRecon) \in Record /\ RecordFor(o, st, byRecon).est = o.est
  BY DEF RecordFor, Record, Order

\* The gauge follows every step.
LEMMA PendingKeeps ==
  ASSUME IInv, EndingOrdersAreUnseen, [Next]_vars, PendingCountsEstimates
  PROVE  PendingCountsEstimates'
<1> DEFINE a == Cardinality(OpenHolders(pool))
           b == Cardinality(EndedHolders(recent))
           c == Cardinality(OpenHolders(pool'))
           d == Cardinality(EndedHolders(recent'))
<1>1. pending = a + b
  BY DEF PendingCountsEstimates, OpenHolders, EndedHolders
<1>2. SUFFICES pending' = c + d
  BY DEF PendingCountsEstimates, OpenHolders, EndedHolders
<1>3. a \in Nat /\ b \in Nat /\ c \in Nat /\ d \in Nat
  BY HoldersType
<1>4. TypeOK
  BY DEF IInv
<1>5. UNCHANGED recent => d = b
  OBVIOUS
<1>6. ASSUME NEW h \in Slots, NEW o, pool' = [pool EXCEPT ![h] = o]
      PROVE  c = a + OpenHolds(o) - OpenHolds(pool[h])
  <2>1. pool'[h] = o /\ \A g \in Slots \ {h} : pool'[g] = pool[g]
    BY <1>4, <1>6 DEF TypeOK
  <2> QED BY <2>1, OpenHoldersChange
<1>7. CASE Quiet
  <2>1. ASSUME NEW h \in Slots PROVE h \in OpenHolders(pool') <=> h \in OpenHolders(pool)
    BY <1>7, NotFree DEF Quiet, OpenHolders
  <2>2. OpenHolders(pool') = OpenHolders(pool)
    BY <2>1 DEF OpenHolders
  <2>3. UNCHANGED <<recent, pending>>
    BY <1>7 DEF Quiet
  <2> QED BY <1>1, <2>2, <2>3
<1> HIDE DEF a, b, c, d
<1>8. ASSUME NEW h \in Slots, NEW o \in Order, Updating(h, o) PROVE pending' = c + d
  <2>1. /\ pool[h] \in Order /\ pool' = [pool EXCEPT ![h] = o] /\ UNCHANGED recent
        /\ pending' = pending + EstDelta(pool[h].est, o.est)
    BY <1>8 DEF Updating, Update
  <2>2. c = a + Holds(o.est) - Holds(pool[h].est)
    BY <1>6, <2>1, HoldsFacts
  <2> QED BY <1>1, <1>3, <1>5, <2>1, <2>2, HoldsFacts DEF EstDelta
<1>9. ASSUME NEW h \in Slots, NEW o \in Order, NEW st \in EndStates, NEW byRecon \in BOOLEAN,
             Terminating(h, o, st, byRecon)
      PROVE  pending' = c + d
  <2> DEFINE r == RecordFor(o, st, byRecon)
  <2>1. /\ pool[h] \in Order /\ pool' = [pool EXCEPT ![h] = NoOrder] /\ PushRecord(r)
        /\ pending' = pending + EstDelta(pool[h].est, o.est) - Holds(ForgottenQty)
    BY <1>9 DEF Terminating, Terminate
  <2>2. r \in Record /\ r.est = o.est
    BY RecordForType
  <2> HIDE DEF r
  <2>3. d = b + Holds(o.est) - Holds(ForgottenQty)
    BY <1>4, <2>1, <2>2, PushHolders DEF b, d
  <2>4. c = a + 0 - Holds(pool[h].est)
    BY <1>6, <2>1, HoldsFacts
  <2> QED BY <1>1, <1>3, <2>1, <2>3, <2>4, HoldsFacts DEF EstDelta
<1>10. ASSUME NEW h \in Slots, NEW inPlace \in BOOLEAN, Replacing(h, inPlace)
       PROVE  pending' = c + d
  <2> DEFINE o == pool[h]
             n == Replaced(o, inPlace)
             st == IF o.cum >= o.qty THEN "Filled" ELSE "Canceled"
             leg == RecordFor(o, st, FALSE)
  <2>1. /\ o \in Order /\ o.pend \in Ids /\ pool' = [pool EXCEPT ![h] = n]
        /\ Splits(o, inPlace) => PushRecord(leg) /\ pending' = pending - Holds(ForgottenQty)
        /\ ~Splits(o, inPlace) => UNCHANGED <<recent, pending>>
    BY <1>10 DEF Replacing, ApplyReplace
  <2>2. n \in Order /\ n.est = IF Splits(o, inPlace) THEN 0 ELSE o.est
    <3> HIDE DEF o
    <3> QED BY <2>1, ReplacedFields
  <2>3. leg \in Record /\ leg.est = o.est
    <3>1. st \in EndStates /\ FALSE \in BOOLEAN
      BY DEF EndStates
    <3> HIDE DEF o, st
    <3> QED BY <2>1, <3>1, RecordForType
  <2> HIDE DEF n, leg, st
  <2>4. c = a + Holds(n.est) - Holds(o.est)
    BY <1>6, <2>1, <2>2, HoldsFacts
  <2>5. CASE Splits(o, inPlace)
    <3>1. d = b + Holds(o.est) - Holds(ForgottenQty)
      BY <1>4, <2>1, <2>3, <2>5, PushHolders DEF b, d
    <3>2. Holds(n.est) = 0
      BY <2>2, <2>5, HoldsFacts
    <3> HIDE DEF o
    <3> QED BY <1>1, <1>3, <2>1, <2>4, <2>5, <3>1, <3>2, HoldsFacts
  <2>6. CASE ~Splits(o, inPlace)
    <3> HIDE DEF o
    <3> QED BY <1>1, <1>3, <1>5, <2>1, <2>2, <2>4, <2>6, HoldsFacts
  <2> QED BY <2>5, <2>6
<1>11. ASSUME NEW h \in Slots, NEW s \in Sides, NEW px \in Prices, NEW q \in 1 .. MaxQty,
              Submit(h, s, px, q)
       PROVE  pending' = c + d
  <2>1. pool[h] = NoOrder /\ UNCHANGED <<recent, pending>>
    BY <1>11 DEF Submit
  <2>2. pool' = [pool EXCEPT ![h] = pool'[h]] /\ OpenHolds(pool'[h]) = 0
    BY <1>4, <1>11 DEF Submit, TypeOK, OpenHolds
  <2> QED BY <1>1, <1>3, <1>5, <1>6, <2>1, <2>2, HoldsFacts
<1>12. ASSUME NEW p \in RingSlots, NEW n \in Record, LateFilling(p, n)
       PROVE  pending' = c + d
  <2>1. /\ recent[p] \in Record /\ UNCHANGED pool
        /\ pending' = pending + EstDelta(recent[p].est, n.est)
        /\ recent'[p] = n /\ \A g \in RingSlots \ {p} : recent'[g] = recent[g]
    BY <1>4, <1>12 DEF LateFilling, TypeOK
  <2>2. d = b + Holds(n.est) - Holds(recent[p].est)
    BY <2>1, EndedHoldersChange, HoldsFacts DEF b, d
  <2>3. c = a
    BY <2>1 DEF a, c
  <2> QED BY <1>1, <1>3, <2>1, <2>2, <2>3, HoldsFacts DEF EstDelta
<1> QED BY <1>7, <1>8, <1>9, <1>10, <1>11, <1>12, StepShapes DEF StepShape

-----------------------------------------------------------------------------
(***************************************************************************)
(* The open quantity.                                                      *)
(***************************************************************************)

Mine(P, s)  == {h \in Slots : P[h] # NoOrder /\ P[h].side = s}
Total(P, s) == MapThenSumSet(LAMBDA h : Leaves(P[h]), Mine(P, s))

TotalIter(P, s) ==
  CHOOSE f : f = [t \in SUBSET Mine(P, s) |->
                    IF t = {} THEN 0
                    ELSE Leaves(P[CHOOSE x \in t : TRUE]) + f[t \ {CHOOSE x \in t : TRUE}]]

LEMMA TotalIsIter ==
  ASSUME NEW P, NEW s
  PROVE  Total(P, s) = TotalIter(P, s)[Mine(P, s)]
  BY Zenon DEF Total, TotalIter, MapThenSumSet, MapThenFoldSet

\* What each order of the side contributes.
LeavesOf(P, s) == [h \in Mine(P, s) |-> Leaves(P[h])]
PoolOf == [Slots -> Order \cup {NoOrder}]

LEMMA LeavesType ==
  ASSUME NEW P \in PoolOf, NEW s
  PROVE  /\ \A h \in Mine(P, s) : Leaves(P[h]) \in Int
         /\ LeavesOf(P, s) \in [Mine(P, s) -> Int]
<1>1. ASSUME NEW h \in Mine(P, s) PROVE Leaves(P[h]) \in Int
  <2>1. P[h] \in Order
    BY DEF Mine, PoolOf
  <2> QED BY <2>1, OmsAssumption DEF Order, Qty, Leaves
<1> QED BY <1>1 DEF LeavesOf

\* The library's fold sums the leaves, in whatever order.
LEMMA TotalIsSum ==
  ASSUME NEW P \in PoolOf, NEW s
  PROVE  \E F : Summing(F, Mine(P, s), LeavesOf(P, s)) /\ Total(P, s) = F[Mine(P, s)]
<1> DEFINE S == Mine(P, s)
           v == LeavesOf(P, s)
           ch == [t \in SUBSET S |-> CHOOSE x \in t : TRUE]
           D == [x \in S \X Int |-> v[x[1]] + x[2]]
           f == TotalIter(P, s)
           L(t, g) == IF t = {} THEN 0
                      ELSE Leaves(P[CHOOSE x \in t : TRUE]) + g[t \ {CHOOSE x \in t : TRUE}]
           G(g) == [t \in SUBSET S |-> L(t, g)]
<1>1. IsFiniteSet(S)
  <2>1. S \in SUBSET Slots
    BY DEF Mine
  <2> QED BY <2>1, FiniteSlots, FS_Subset
<1>2. v \in [S -> Int] /\ \A x \in S : v[x] = Leaves(P[x])
  BY LeavesType DEF LeavesOf
<1>3. \A t \in SUBSET S : t # {} => ch[t] = (CHOOSE x \in t : TRUE) /\ ch[t] \in t
  OBVIOUS
<1>4. D \in [S \X Int -> Int] /\ \A x \in S : \A i \in Int : D[<<x, i>>] = v[x] + i
  BY <1>2
<1>5. PICK e \in [SUBSET S -> Int] : Iterates(e, SUBSET S, 0, ch, D)
  <2>1. 0 \in Int
    OBVIOUS
  <2> HIDE DEF D, ch, S, v
  <2> QED BY <1>1, <1>3, <1>4, <2>1, SubsetRecursion
<1>6. \A t \in SUBSET S : e[t] = IF t = {} THEN 0 ELSE D[<<ch[t], e[t \ {ch[t]}]>>]
  <2> HIDE DEF D, ch, S, v
  <2> QED BY <1>5, Zenon DEF Iterates
<1>7. ASSUME NEW t \in SUBSET S, t # {} PROVE e[t] = v[ch[t]] + e[t \ {ch[t]}]
  <2>1. ch[t] \in S /\ t \ {ch[t]} \in SUBSET S
    BY <1>3, <1>7
  <2>2. e[t \ {ch[t]}] \in Int
    BY <2>1
  <2> HIDE DEF D, ch, S, v
  <2> QED BY <1>4, <1>6, <1>7, <2>1, <2>2
<1>8. e[{}] = 0
  BY <1>6
<1>9. e = G(e)
  <2>1. ASSUME NEW t \in SUBSET S PROVE e[t] = L(t, e)
    <3>1. CASE t = {}
      BY <1>8, <3>1
    <3>2. CASE t # {}
      <4>1. ch[t] \in S /\ ch[t] = CHOOSE x \in t : TRUE
        BY <1>3, <3>2
      <4>2. e[t] = Leaves(P[ch[t]]) + e[t \ {ch[t]}]
        <5> HIDE DEF ch, S, v
        <5> QED BY <1>2, <1>7, <3>2, <4>1
      <4> HIDE DEF ch, S, v
      <4> QED BY <3>2, <4>1, <4>2
    <3> QED BY <3>1, <3>2
  <2>2. e = [t \in SUBSET S |-> e[t]]
    OBVIOUS
  <2> HIDE DEF L, S
  <2> QED BY <2>1, <2>2
<1>10. f = G(f)
  <2>1. f = CHOOSE g : g = G(g)
    BY Zenon DEF TotalIter
  <2> HIDE DEF G, f
  <2> QED BY <1>9, <2>1
<1> HIDE DEF f
<1>11. Total(P, s) = f[S]
  BY TotalIsIter DEF f
<1>12. Summing(f, S, v)
  <2> DEFINE H == {n \in Nat : \A t \in SUBSET S : Cardinality(t) <= n => f[t] = e[t]}
  <2>1. \A t \in SUBSET S : IsFiniteSet(t) /\ Cardinality(t) \in Nat
    BY <1>1, FS_Subset, FS_CardinalityType
  <2>2. \A t \in SUBSET S : f[t] = L(t, f) /\ e[t] = L(t, e)
    <3> HIDE DEF L, S
    <3> QED BY <1>9, <1>10
  <2>3. 0 \in H
    <3>1. \A t \in SUBSET S : Cardinality(t) <= 0 => t = {}
      BY <2>1, FS_EmptySet
    <3> QED BY <2>2, <3>1
  <2>4. ASSUME NEW n \in Nat, n \in H PROVE n + 1 \in H
    <3> SUFFICES ASSUME NEW t \in SUBSET S, Cardinality(t) <= n + 1, t # {}
                 PROVE  f[t] = e[t]
      BY <2>2
    <3> DEFINE x == CHOOSE y \in t : TRUE
    <3>1. x \in t /\ t \ {x} \in SUBSET S
      OBVIOUS
    <3>2. Cardinality(t \ {x}) = Cardinality(t) - 1
      BY <2>1, <3>1, FS_RemoveElement
    <3>3. f[t \ {x}] = e[t \ {x}]
      BY <2>1, <2>4, <3>1, <3>2
    <3>4. f[t] = Leaves(P[x]) + f[t \ {x}] /\ e[t] = Leaves(P[x]) + e[t \ {x}]
      <4> HIDE DEF S
      <4> QED BY <2>2
    <3> QED BY <3>3, <3>4
  <2> HIDE DEF H
  <2>5. \A n \in Nat : n \in H
    BY <2>3, <2>4, NatSetInduction
  <2>6. ASSUME NEW t \in SUBSET S PROVE f[t] = e[t]
    <3>1. Cardinality(t) \in H /\ Cardinality(t) <= Cardinality(t)
      BY <2>1, <2>5
    <3> QED BY <3>1 DEF H
  <2>7. f = e
    <3>1. f = [t \in SUBSET S |-> f[t]]
      <4> HIDE DEF L, S
      <4> QED BY <1>10
    <3> QED BY <2>6, <3>1
  <2>8. Summing(e, S, v)
    <3> HIDE DEF ch, S, v
    <3> QED BY <1>1, <1>2, <1>3, <1>7, <1>8, SumInAnyOrder
  <2> QED BY <2>7, <2>8
<1> QED BY <1>11, <1>12

\* What one slot contributes to a side.
SideLeaves(o, s) == IF o # NoOrder /\ o.side = s THEN Leaves(o) ELSE 0

\* Changing one slot of the pool changes the sum by what that slot contributes.
LEMMA TotalChange ==
  ASSUME NEW P \in PoolOf, NEW Q \in PoolOf, NEW s, NEW h \in Slots,
         \A g \in Slots \ {h} : Q[g] = P[g]
  PROVE  /\ Total(P, s) \in Int
         /\ Total(Q, s) = Total(P, s) + SideLeaves(Q[h], s) - SideLeaves(P[h], s)
<1> DEFINE A == Mine(P, s)
           B == Mine(Q, s)
           v == LeavesOf(P, s)
           w == LeavesOf(Q, s)
           C == A \ {h}
<1>1. PICK F : Summing(F, A, v) /\ Total(P, s) = F[A]
  BY TotalIsSum
<1>2. PICK G : Summing(G, B, w) /\ Total(Q, s) = G[B]
  BY TotalIsSum
<1>3. C = B \ {h}
  BY DEF Mine
<1>4. IsFiniteSet(C)
  <2>1. C \in SUBSET Slots
    BY DEF Mine
  <2> QED BY <2>1, FiniteSlots, FS_Subset
<1>5. \A x \in C : v[x] = w[x]
  <2> SUFFICES ASSUME NEW x \in C PROVE v[x] = w[x]
    OBVIOUS
  <2>1. x \in A /\ x \in B /\ P[x] = Q[x]
    BY <1>3 DEF Mine
  <2> HIDE DEF A, B
  <2> QED BY <2>1 DEF LeavesOf, A, B
<1>6. F[C] = G[C]
  <2>1. C \subseteq A /\ C \subseteq B
    BY <1>3
  <2> HIDE DEF A, B, C, v, w
  <2> QED BY <1>1, <1>2, <1>4, <1>5, <2>1, SumsAgree
<1>7. /\ h \in A => v[h] = Leaves(P[h])
      /\ h \in B => w[h] = Leaves(Q[h])
  BY DEF LeavesOf
<1>8. /\ h \in A => F[A] = F[C] + Leaves(P[h])
      /\ h \notin A => F[A] = F[C]
      /\ F[A] \in Int /\ F[C] \in Int
  <2>1. A \in SUBSET A /\ C \in SUBSET A /\ (h \notin A => C = A)
    OBVIOUS
  <2> HIDE DEF A, v
  <2> QED BY <1>1, <1>7, <2>1 DEF Summing
<1>9. /\ h \in B => G[B] = G[C] + Leaves(Q[h])
      /\ h \notin B => G[B] = G[C]
  <2>1. B \in SUBSET B /\ (h \notin B => C = B)
    BY <1>3
  <2> HIDE DEF B, C, w
  <2> QED BY <1>2, <1>3, <1>7, <2>1 DEF Summing
<1>10. /\ SideLeaves(P[h], s) = IF h \in A THEN Leaves(P[h]) ELSE 0
       /\ SideLeaves(Q[h], s) = IF h \in B THEN Leaves(Q[h]) ELSE 0
  BY DEF SideLeaves, Mine
<1>11. (h \in A => Leaves(P[h]) \in Int) /\ (h \in B => Leaves(Q[h]) \in Int)
  BY LeavesType
<1> HIDE DEF A, B, C
<1> QED BY <1>1, <1>2, <1>6, <1>8, <1>9, <1>10, <1>11

\* An order's leaves.
LEMMA OrderLeaves ==
  ASSUME NEW o \in Order
  PROVE  /\ o.qty \in Int /\ o.cum \in Int /\ o.side \in Sides
         /\ Leaves(o) = o.qty - o.cum /\ Leaves(o) \in Int
         /\ \A s : SideLeaves(o, s) = IF o.side = s THEN Leaves(o) ELSE 0
  BY NotFree, OmsAssumption DEF Order, Qty, Leaves, SideLeaves

\* The aggregate follows every step.
LEMMA OpenQtyKeeps ==
  ASSUME IInv, TypeOK', EndingOrdersAreUnseen, [Next]_vars, OpenQtyIsLeaves
  PROVE  OpenQtyIsLeaves'
<1>1. \A s \in Sides : openQty[s] = Total(pool, s)
  BY DEF OpenQtyIsLeaves, Total, Mine
<1>2. SUFFICES ASSUME NEW s \in Sides PROVE openQty'[s] = Total(pool', s)
  BY Zenon DEF OpenQtyIsLeaves, Total, Mine, MapThenSumSet, MapThenFoldSet
<1> DEFINE a == Total(pool, s)
           b == Total(pool', s)
<1>3. pool \in PoolOf /\ pool' \in PoolOf /\ openQty \in [Sides -> Int]
  BY DEF IInv, TypeOK, PoolOf
<1>4. openQty[s] = a
  BY <1>1
<1>5. ASSUME NEW h \in Slots, \A g \in Slots \ {h} : pool'[g] = pool[g]
      PROVE  b = a + SideLeaves(pool'[h], s) - SideLeaves(pool[h], s)
  BY <1>3, <1>5, TotalChange
<1>6. a \in Int
  BY <1>3, <1>4
<1>7. \A x : SideLeaves(NoOrder, x) = 0
  BY DEF SideLeaves
<1>8. CASE UNCHANGED <<pool, openQty>>
  BY <1>1, <1>8
<1> HIDE DEF a, b
<1>9. CASE Quiet
  <2>1. UNCHANGED openQty
    BY <1>9 DEF Quiet
  <2>2. ASSUME NEW h \in Slots
        PROVE  (h \in Mine(pool', s) <=> h \in Mine(pool, s))
               /\ (h \in Mine(pool, s) => Leaves(pool'[h]) = Leaves(pool[h]))
    BY <1>9, NotFree DEF Quiet, Mine, Alike, Leaves
  <2>3. Mine(pool', s) = Mine(pool, s)
    BY <2>2 DEF Mine
  <2>4. PICK F : Summing(F, Mine(pool, s), LeavesOf(pool, s)) /\ a = F[Mine(pool, s)]
    BY <1>3, TotalIsSum DEF a
  <2>5. PICK G : Summing(G, Mine(pool', s), LeavesOf(pool', s)) /\ b = G[Mine(pool', s)]
    BY <1>3, TotalIsSum DEF b
  <2>6. \A x \in Mine(pool, s) : LeavesOf(pool, s)[x] = LeavesOf(pool', s)[x]
    <3>1. \A x \in Mine(pool, s) : x \in Slots
      BY DEF Mine
    <3> QED BY <2>2, <2>3, <3>1 DEF LeavesOf
  <2>7. IsFiniteSet(Mine(pool, s))
    <3>1. Mine(pool, s) \in SUBSET Slots
      BY DEF Mine
    <3> QED BY <3>1, FiniteSlots, FS_Subset
  <2>8. F[Mine(pool, s)] = G[Mine(pool, s)]
    <3>1. Mine(pool, s) \subseteq Mine(pool, s) /\ Mine(pool, s) \subseteq Mine(pool', s)
      BY <2>3
    <3> QED BY <2>4, <2>5, <2>6, <2>7, <3>1, SumsAgree
  <2> QED BY <1>4, <2>1, <2>3, <2>4, <2>5, <2>8 DEF b
<1>10. ASSUME NEW h \in Slots, NEW o \in Order, Updating(h, o) PROVE openQty'[s] = b
  <2>1. /\ pool[h] \in Order /\ pool' = [pool EXCEPT ![h] = o]
        /\ openQty' = [openQty EXCEPT ![o.side] = @ - (o.cum - pool[h].cum)]
        /\ o.side = pool[h].side /\ o.qty = pool[h].qty
    BY <1>10 DEF Updating, Update, Alike
  <2>2. pool'[h] = o /\ \A g \in Slots \ {h} : pool'[g] = pool[g]
    BY <1>3, <2>1 DEF PoolOf
  <2>3. b = a + SideLeaves(o, s) - SideLeaves(pool[h], s)
    BY <1>5, <2>2
  <2>4. openQty'[s] = IF s = o.side THEN a - (o.cum - pool[h].cum) ELSE a
    BY <1>3, <1>4, <2>1, OrderLeaves
  <2> QED BY <1>6, <2>1, <2>3, <2>4, OrderLeaves
<1>11. ASSUME NEW h \in Slots, NEW o \in Order, NEW st \in EndStates, NEW byRecon \in BOOLEAN,
              Terminating(h, o, st, byRecon)
       PROVE  openQty'[s] = b
  <2>1. /\ pool[h] \in Order /\ pool' = [pool EXCEPT ![h] = NoOrder]
        /\ openQty' = [openQty EXCEPT ![o.side] = @ - (o.cum - pool[h].cum) - Leaves(o)]
        /\ o.side = pool[h].side /\ o.qty = pool[h].qty
    BY <1>11 DEF Terminating, Terminate, Alike
  <2>2. pool'[h] = NoOrder /\ \A g \in Slots \ {h} : pool'[g] = pool[g]
    BY <1>3, <2>1 DEF PoolOf
  <2>3. b = a + 0 - SideLeaves(pool[h], s)
    BY <1>5, <1>7, <2>2
  <2>4. openQty'[s] = IF s = o.side THEN a - (o.cum - pool[h].cum) - Leaves(o) ELSE a
    BY <1>3, <1>4, <2>1, OrderLeaves
  <2> QED BY <1>6, <2>1, <2>3, <2>4, OrderLeaves
<1>12. ASSUME NEW h \in Slots, NEW inPlace \in BOOLEAN, Replacing(h, inPlace)
       PROVE  openQty'[s] = b
  <2> DEFINE o == pool[h]
             n == Replaced(o, inPlace)
  <2>1. /\ o \in Order /\ o.pend \in Ids /\ pool' = [pool EXCEPT ![h] = n]
        /\ openQty' = [openQty EXCEPT ![o.side] = @ - Leaves(o) + Leaves(n)]
    BY <1>12 DEF Replacing, ApplyReplace
  <2>2. n \in Order /\ n.side = o.side
    <3> HIDE DEF o
    <3> QED BY <2>1, ReplacedFields
  <2> HIDE DEF n
  <2>3. pool'[h] = n /\ \A g \in Slots \ {h} : pool'[g] = pool[g]
    BY <1>3, <2>1 DEF PoolOf
  <2>4. b = a + SideLeaves(n, s) - SideLeaves(o, s)
    BY <1>5, <2>3
  <2> HIDE DEF o
  <2>5. openQty'[s] = IF s = o.side THEN a - Leaves(o) + Leaves(n) ELSE a
    BY <1>3, <1>4, <2>1, OrderLeaves
  <2> QED BY <1>6, <2>1, <2>2, <2>4, <2>5, OrderLeaves
<1>13. ASSUME NEW h \in Slots, NEW t \in Sides, NEW px \in Prices, NEW q \in 1 .. MaxQty,
              Submit(h, t, px, q)
       PROVE  openQty'[s] = b
  <2>1. pool[h] = NoOrder /\ openQty' = [openQty EXCEPT ![t] = @ + q]
    BY <1>13 DEF Submit
  <2>2. /\ pool'[h] # NoOrder /\ pool'[h].side = t /\ pool'[h].qty = q /\ pool'[h].cum = 0
        /\ \A g \in Slots \ {h} : pool'[g] = pool[g]
    BY <1>3, <1>13 DEF Submit, PoolOf, NoOrder
  <2>3. b = a + SideLeaves(pool'[h], s) - 0
    BY <1>5, <1>7, <2>1, <2>2
  <2>4. q \in Int /\ SideLeaves(pool'[h], s) = IF s = t THEN q ELSE 0
    BY <2>2 DEF SideLeaves, Leaves
  <2>5. openQty'[s] = IF s = t THEN a + q ELSE a
    BY <1>3, <1>4, <2>1, <2>4
  <2> QED BY <1>6, <2>3, <2>4, <2>5
<1>14. ASSUME NEW p \in RingSlots, NEW n \in Record, LateFilling(p, n)
       PROVE  openQty'[s] = b
  BY <1>8, <1>14 DEF LateFilling, b
<1>15. QED
  BY <1>9, <1>10, <1>11, <1>12, <1>13, <1>14, StepShapes DEF StepShape, b

-----------------------------------------------------------------------------
(***************************************************************************)
(* The best own price.                                                     *)
(***************************************************************************)

\* The prices in the table are prices the strategy asked for.
OwnPrices ==
  \A h \in Slots : pool[h] # NoOrder =>
    /\ pool[h].px \in Prices
    /\ pool[h].pend # NoId => pool[h].pendPx \in Prices

\* Sells are priced: a sell at 0, a market order, makes submit() and the scan take the 0 for "none".
SellsArePriced == 0 \in Prices => "Sell" \notin Sides

\* b is the best price of the side's orders in the pool P, 0 if there are none.
IsBest(b, P, s) ==
  /\ Mine(P, s) = {} => b = 0
  /\ Mine(P, s) # {} => /\ \E h \in Mine(P, s) : P[h].px = b
                        /\ \A h \in Mine(P, s) : ~Better(s, P[h].px, b)

LEMMA OwnPricesKeep ==
  ASSUME IInv, TypeOK', EndingOrdersAreUnseen, [Next]_vars, OwnPrices
  PROVE  OwnPrices'
<1> USE NotFree
<1> SUFFICES ASSUME NEW g \in Slots, pool'[g] # NoOrder
             PROVE  /\ pool'[g].px \in Prices
                    /\ pool'[g].pend # NoId => pool'[g].pendPx \in Prices
  BY DEF OwnPrices
<1>0. pool \in PoolOf
  BY DEF IInv, TypeOK, PoolOf
<1>1. CASE pool'[g] = pool[g]
  BY <1>1 DEF OwnPrices
<1>2. CASE pool[g] \in Order /\ Alike(pool[g], pool'[g])
  <2>1. pool[g].px \in Prices /\ (pool[g].pend # NoId => pool[g].pendPx \in Prices)
    BY <1>2 DEF OwnPrices
  <2> QED BY <1>2, <2>1 DEF Alike
<1>3. CASE Quiet
  BY <1>1, <1>2, <1>3 DEF Quiet
<1>4. ASSUME NEW h \in Slots, NEW o \in Order, Updating(h, o)
      PROVE  pool'[g] = pool[g] \/ (pool[g] \in Order /\ Alike(pool[g], pool'[g]))
  BY <1>0, <1>4 DEF Updating, Update, PoolOf
<1>5. ASSUME NEW h \in Slots, NEW o \in Order, NEW st \in EndStates, NEW byRecon \in BOOLEAN,
             Terminating(h, o, st, byRecon)
      PROVE  pool'[g] = pool[g]
  BY <1>0, <1>5 DEF Terminating, Terminate, PoolOf
<1>6. ASSUME NEW h \in Slots, NEW inPlace \in BOOLEAN, Replacing(h, inPlace), g = h
      PROVE  pool'[g].px \in Prices /\ pool'[g].pend = NoId
  <2> DEFINE o == pool[h]
             n == Replaced(o, inPlace)
  <2>1. o \in Order /\ o.pend \in Ids /\ pool' = [pool EXCEPT ![h] = n]
    BY <1>6 DEF Replacing, ApplyReplace
  <2>2. n.px = o.pendPx /\ n.pend = NoId
    <3> HIDE DEF o
    <3> QED BY <2>1, ReplacedFields
  <2> HIDE DEF n
  <2>3. o.pend # NoId
    BY <2>1 DEF Ids, NoId
  <2>4. o.pendPx \in Prices
    BY <2>1, <2>3 DEF OwnPrices
  <2>5. pool'[g] = n
    BY <1>0, <1>6, <2>1 DEF PoolOf
  <2> QED BY <2>2, <2>4, <2>5
<1>7. ASSUME NEW h \in Slots, NEW inPlace \in BOOLEAN, Replacing(h, inPlace), g # h
      PROVE  pool'[g] = pool[g]
  BY <1>0, <1>7 DEF Replacing, ApplyReplace, PoolOf
<1>8. ASSUME NEW h \in Slots, NEW s \in Sides, NEW px \in Prices, NEW q \in 1 .. MaxQty,
             Submit(h, s, px, q)
      PROVE  pool'[g] = pool[g] \/ (pool'[g].px = px /\ pool'[g].pend = NoId)
  BY <1>0, <1>8 DEF Submit, PoolOf
<1>9. ASSUME NEW p \in RingSlots, NEW n \in Record, LateFilling(p, n)
      PROVE  pool'[g] = pool[g]
  BY <1>9 DEF LateFilling
<1> QED BY <1>1, <1>2, <1>3, <1>4, <1>5, <1>6, <1>7, <1>8, <1>9, StepShapes DEF StepShape

\* recompute_best_own() finds the best price when no sell is priced 0.
LEMMA BestOfIsBest ==
  ASSUME NEW P \in PoolOf, NEW s \in Sides,
         s = "Sell" => \A h \in Mine(P, s) : P[h].px # 0
  PROVE  IsBest(BestOf(P, s), P, s)
<1> DEFINE mine   == Mine(P, s)
           kept   == IF s = "Sell" THEN {h \in mine : \A z \in mine : P[z].px = 0 => z < h} ELSE mine
           prices == {P[h].px : h \in mine}
           best   == {p \in prices : \A q \in prices : ~Better(s, q, p)}
           f      == [h \in mine |-> P[h].px]
<1>1. kept = mine
  OBVIOUS
<1>2. BestOf(P, s) = IF best = {} THEN 0 ELSE CHOOSE p \in best : TRUE
  <2>1. BestOf(P, s) =
          LET pr == {P[h].px : h \in kept}
              b  == {p \in pr : \A q \in pr : ~Better(s, q, p)}
          IN  IF b = {} THEN 0 ELSE CHOOSE p \in b : TRUE
    BY Zenon DEF BestOf, Mine
  <2> HIDE DEF kept, mine
  <2> QED BY <1>1, <2>1, Zenon
<1>3. \A h \in mine : P[h].px \in Nat
  BY DEF Mine, PoolOf, Order
<1>4. IsFiniteSet(mine) /\ f \in [mine -> Nat] /\ \A h \in mine : f[h] = P[h].px
  <2>1. mine \in SUBSET Slots
    BY DEF Mine
  <2> QED BY <1>3, <2>1, FiniteSlots, FS_Subset
<1> HIDE DEF mine, f
<1>5. CASE mine = {}
  BY <1>2, <1>5 DEF IsBest, mine
<1>6. CASE mine # {}
  <2>1. best # {}
    <3>1. PICK x \in mine : \A y \in mine : f[y] <= f[x]
      BY <1>4, <1>6, ExtremeValues
    <3>2. PICK w \in mine : \A y \in mine : f[w] <= f[y]
      BY <1>4, <1>6, ExtremeValues
    <3>3. CASE s = "Buy"
      <4>1. P[x].px \in best
        BY <1>3, <1>4, <3>1, <3>3 DEF Better
      <4> QED BY <4>1
    <3>4. CASE s # "Buy"
      <4>1. P[w].px \in best
        BY <1>3, <1>4, <3>2, <3>4 DEF Better
      <4> QED BY <4>1
    <3> QED BY <3>3, <3>4
  <2>2. BestOf(P, s) \in best
    <3> HIDE DEF best
    <3> QED BY <1>2, <2>1
  <2> QED BY <1>6, <2>2 DEF IsBest, mine
<1> QED BY <1>5, <1>6

\* The invariant, order by order.
LEMMA BestBySlots ==
  (\A s \in Sides : IsBest(bestOwn[s], pool, s)) <=> BestOwnIsBest
<1>1. ASSUME NEW s \in Sides
      PROVE  IsBest(bestOwn[s], pool, s) <=>
             LET prices == {pool[h].px : h \in {g \in Slots : pool[g] # NoOrder /\ pool[g].side = s}}
             IN  IF prices = {} THEN bestOwn[s] = 0
                 ELSE bestOwn[s] \in prices /\ \A p \in prices : ~Better(s, p, bestOwn[s])
  <2> DEFINE prices == {pool[h].px : h \in Mine(pool, s)}
  <2>1. /\ prices = {} <=> Mine(pool, s) = {}
        /\ bestOwn[s] \in prices <=> \E h \in Mine(pool, s) : pool[h].px = bestOwn[s]
        /\ (\A p \in prices : ~Better(s, p, bestOwn[s]))
             <=> \A h \in Mine(pool, s) : ~Better(s, pool[h].px, bestOwn[s])
    OBVIOUS
  <2>2. IsBest(bestOwn[s], pool, s) <=>
          IF prices = {} THEN bestOwn[s] = 0
          ELSE bestOwn[s] \in prices /\ \A p \in prices : ~Better(s, p, bestOwn[s])
    <3> HIDE DEF prices
    <3> QED BY <2>1, Zenon DEF IsBest
  <2> QED BY <2>2, Zenon DEF Mine
<1> QED BY <1>1, Zenon DEF BestOwnIsBest

LEMMA BestBySlotsNext ==
  (\A s \in Sides : IsBest(bestOwn'[s], pool', s)) <=> BestOwnIsBest'
<1>1. (\A s \in Sides : IsBest(bestOwn[s], pool, s))' <=> BestOwnIsBest'
  BY BestBySlots, PTL
<1> QED BY <1>1

\* Orders with the same sides and prices have the same best.
LEMMA SameBest ==
  ASSUME NEW P, NEW Q, NEW s, NEW b, IsBest(b, P, s),
         \A h \in Slots : /\ P[h] = NoOrder <=> Q[h] = NoOrder
                          /\ P[h] # NoOrder => Q[h].side = P[h].side /\ Q[h].px = P[h].px
  PROVE  IsBest(b, Q, s)
<1>1. Mine(Q, s) = Mine(P, s) /\ \A h \in Mine(P, s) : Q[h].px = P[h].px
  BY DEF Mine
<1> QED BY <1>1 DEF IsBest

\* The aggregate follows every step.
LEMMA BestOwnKeeps ==
  ASSUME SellsArePriced, IInv, TypeOK', EndingOrdersAreUnseen, [Next]_vars,
         OwnPrices, OwnPrices', BestOwnIsBest
  PROVE  BestOwnIsBest'
<1> USE NotFree
<1>1. SUFFICES ASSUME NEW s \in Sides PROVE IsBest(bestOwn'[s], pool', s)
  BY BestBySlotsNext
<1> DEFINE b == bestOwn[s]
<1>2. IsBest(b, pool, s)
  BY BestBySlots
<1>3. pool \in PoolOf /\ pool' \in PoolOf /\ bestOwn \in [Sides -> Nat] /\ b \in Nat
  BY DEF IInv, TypeOK, PoolOf
<1>4. s = "Buy" \/ s = "Sell"
  BY OmsAssumption
<1>5. /\ \A h \in Mine(pool, s) : pool[h].px \in Nat /\ (s = "Sell" => pool[h].px # 0)
      /\ \A h \in Mine(pool', s) : pool'[h].px \in Nat /\ (s = "Sell" => pool'[h].px # 0)
  <2>1. \A p \in Prices : p \in Nat /\ (s = "Sell" => p # 0)
    BY OmsAssumption DEF SellsArePriced
  <2>2. \A h \in Mine(pool, s) : pool[h].px \in Prices
    BY DEF Mine, OwnPrices
  <2>3. \A h \in Mine(pool', s) : pool'[h].px \in Prices
    BY DEF Mine, OwnPrices
  <2> QED BY <2>1, <2>2, <2>3
<1>6. IsBest(BestOf(pool', s), pool', s)
  BY <1>3, <1>5, BestOfIsBest
\* The orders of other slots.
<1>7. ASSUME NEW h \in Slots, \A g \in Slots \ {h} : pool'[g] = pool[g]
      PROVE  \A g \in Slots \ {h} : /\ g \in Mine(pool', s) <=> g \in Mine(pool, s)
                                   /\ pool'[g].px = pool[g].px
  BY <1>7 DEF Mine
\* A zero stands for "none": no order, or buys at 0 only.
<1>8. b = 0 => \A h \in Mine(pool, s) : s = "Buy" /\ pool[h].px = 0
  <2> SUFFICES ASSUME b = 0, NEW h \in Mine(pool, s) PROVE s = "Buy" /\ pool[h].px = 0
    OBVIOUS
  <2>1. PICK g \in Mine(pool, s) : pool[g].px = 0
    BY <1>2 DEF IsBest
  <2>2. s = "Buy"
    BY <1>4, <1>5, <2>1
  <2>3. ~(pool[h].px > 0) /\ pool[h].px \in Nat
    BY <1>2, <1>5, <2>2 DEF IsBest, Better
  <2> QED BY <2>2, <2>3
\* A price that is entered and beats the best is the best.
<1>9. ASSUME NEW h \in Slots, \A g \in Slots \ {h} : pool'[g] = pool[g], h \in Mine(pool', s),
             b = 0 \/ Better(s, pool'[h].px, b)
      PROVE  IsBest(pool'[h].px, pool', s)
  <2>1. ASSUME NEW g \in Mine(pool', s) PROVE ~Better(s, pool'[g].px, pool'[h].px)
    <3>1. CASE g = h
      BY <1>5, <1>9, <3>1 DEF Better
    <3>2. CASE g # h
      <4>1. g \in Mine(pool, s) /\ pool'[g].px = pool[g].px /\ pool[g].px \in Nat
        BY <1>5, <1>7, <1>9, <3>2 DEF Mine
      <4>2. ~Better(s, pool[g].px, b)
        BY <1>2, <4>1 DEF IsBest
      <4>3. pool'[h].px \in Nat
        BY <1>5, <1>9
      <4>4. CASE b = 0
        BY <1>8, <4>1, <4>3, <4>4 DEF Better
      <4>5. CASE Better(s, pool'[h].px, b)
        BY <1>3, <1>4, <4>1, <4>2, <4>3, <4>5 DEF Better
      <4> QED BY <1>9, <4>4, <4>5
    <3> QED BY <3>1, <3>2
  <2> QED BY <1>9, <2>1 DEF IsBest
\* A best price another order holds stays the best, unless the order that changed now beats it.
<1>10. ASSUME NEW h \in Slots, \A g \in Slots \ {h} : pool'[g] = pool[g],
              h \in Mine(pool, s) => pool[h].px # b,
              h \in Mine(pool', s) => Mine(pool, s) # {} /\ ~Better(s, pool'[h].px, b)
       PROVE  IsBest(b, pool', s)
  <2>1. CASE Mine(pool, s) = {}
    <3>1. Mine(pool', s) = {}
      BY <1>7, <1>10, <2>1 DEF Mine
    <3> QED BY <1>2, <2>1, <3>1 DEF IsBest
  <2>2. CASE Mine(pool, s) # {}
    <3>1. PICK g \in Mine(pool, s) : pool[g].px = b
      BY <1>2, <2>2 DEF IsBest
    <3>2. g \in Slots \ {h} /\ g \in Mine(pool', s) /\ pool'[g].px = b
      <4>1. g # h /\ g \in Slots
        BY <1>10, <3>1 DEF Mine
      <4> QED BY <1>7, <1>10, <3>1, <4>1
    <3>3. ASSUME NEW x \in Mine(pool', s) PROVE ~Better(s, pool'[x].px, b)
      <4>1. CASE x = h
        BY <1>10, <4>1
      <4>2. CASE x # h
        <5>1. x \in Mine(pool, s) /\ pool'[x].px = pool[x].px
          BY <1>7, <1>10, <4>2 DEF Mine
        <5> QED BY <1>2, <5>1 DEF IsBest
      <4> QED BY <4>1, <4>2
    <3> QED BY <3>2, <3>3 DEF IsBest
  <2> QED BY <2>1, <2>2
<1> HIDE DEF b
<1>11. CASE Quiet
  <2>1. bestOwn' = bestOwn
    BY <1>11 DEF Quiet
  <2>2. \A h \in Slots : /\ pool[h] = NoOrder <=> pool'[h] = NoOrder
                         /\ pool[h] # NoOrder => pool'[h].side = pool[h].side
                                                /\ pool'[h].px = pool[h].px
    BY <1>11 DEF Quiet, Alike
  <2> QED BY <1>2, <2>1, <2>2, SameBest DEF b
<1>12. ASSUME NEW h \in Slots, NEW o \in Order, Updating(h, o) PROVE IsBest(bestOwn'[s], pool', s)
  <2>1. /\ pool[h] \in Order /\ pool' = [pool EXCEPT ![h] = o] /\ bestOwn' = bestOwn
        /\ o.side = pool[h].side /\ o.px = pool[h].px
    BY <1>12 DEF Updating, Update, Alike
  <2>2. \A g \in Slots : /\ pool[g] = NoOrder <=> pool'[g] = NoOrder
                         /\ pool[g] # NoOrder => pool'[g].side = pool[g].side
                                                /\ pool'[g].px = pool[g].px
    BY <1>3, <2>1 DEF PoolOf
  <2> QED BY <1>2, <2>1, <2>2, SameBest DEF b
<1>13. ASSUME NEW h \in Slots, NEW o \in Order, NEW st \in EndStates, NEW byRecon \in BOOLEAN,
              Terminating(h, o, st, byRecon)
       PROVE  IsBest(bestOwn'[s], pool', s)
  <2>1. /\ pool[h] \in Order /\ pool' = [pool EXCEPT ![h] = NoOrder]
        /\ bestOwn' = IF o.px = bestOwn[o.side]
                      THEN [bestOwn EXCEPT ![o.side] = BestOf(pool', o.side)] ELSE bestOwn
        /\ o.side = pool[h].side /\ o.px = pool[h].px /\ o.side \in Sides
    BY <1>13 DEF Terminating, Terminate, Alike, Order
  <2>2. pool'[h] = NoOrder /\ \A g \in Slots \ {h} : pool'[g] = pool[g]
    BY <1>3, <2>1 DEF PoolOf
  <2>3. h \notin Mine(pool', s) /\ (h \in Mine(pool, s) <=> o.side = s)
    BY <2>1, <2>2 DEF Mine
  <2>4. CASE o.side = s /\ o.px = b
    <3>1. bestOwn'[s] = BestOf(pool', s)
      BY <1>3, <2>1, <2>4 DEF b
    <3> QED BY <1>6, <3>1
  <2>5. CASE ~(o.side = s /\ o.px = b)
    <3>1. bestOwn'[s] = b
      BY <1>3, <2>1, <2>5 DEF b
    <3>2. h \in Mine(pool, s) => pool[h].px # b
      BY <2>1, <2>3, <2>5
    <3> QED BY <1>10, <2>2, <2>3, <3>1, <3>2
  <2> QED BY <2>4, <2>5
<1>14. ASSUME NEW h \in Slots, NEW inPlace \in BOOLEAN, Replacing(h, inPlace)
       PROVE  IsBest(bestOwn'[s], pool', s)
  <2> DEFINE o == pool[h]
             n == Replaced(o, inPlace)
  <2>1. /\ o \in Order /\ o.pend \in Ids /\ pool' = [pool EXCEPT ![h] = n]
        /\ bestOwn' = IF bestOwn[o.side] = 0 \/ Better(o.side, n.px, bestOwn[o.side])
                      THEN [bestOwn EXCEPT ![o.side] = n.px]
                      ELSE IF o.px = bestOwn[o.side]
                      THEN [bestOwn EXCEPT ![o.side] = BestOf(pool', o.side)] ELSE bestOwn
    BY <1>14 DEF Replacing, ApplyReplace
  <2>2. n \in Order /\ n.side = o.side /\ o.side \in Sides
    <3> HIDE DEF o
    <3> QED BY <2>1, ReplacedFields DEF Order
  <2> HIDE DEF n
  <2>3. pool'[h] = n /\ \A g \in Slots \ {h} : pool'[g] = pool[g]
    BY <1>3, <2>1 DEF PoolOf
  <2>4. (h \in Mine(pool', s) <=> o.side = s) /\ (h \in Mine(pool, s) <=> o.side = s)
    BY <2>1, <2>2, <2>3 DEF Mine
  <2>5. CASE o.side # s
    <3>1. bestOwn'[s] = b
      BY <1>3, <2>1, <2>2, <2>5 DEF b
    <3> QED BY <1>10, <2>3, <2>4, <2>5, <3>1
  <2>6. CASE o.side = s
    <3>1. CASE b = 0 \/ Better(s, n.px, b)
      <4>1. bestOwn'[s] = n.px
        BY <1>3, <2>1, <2>6, <3>1 DEF b
      <4> QED BY <1>9, <2>3, <2>4, <2>6, <3>1, <4>1
    <3>2. CASE ~(b = 0 \/ Better(s, n.px, b)) /\ o.px = b
      <4>1. bestOwn'[s] = BestOf(pool', s)
        BY <1>3, <2>1, <2>6, <3>2 DEF b
      <4> QED BY <1>6, <4>1
    <3>3. CASE ~(b = 0 \/ Better(s, n.px, b)) /\ o.px # b
      <4>1. bestOwn'[s] = b
        BY <1>3, <2>1, <2>6, <3>3 DEF b
      <4>2. Mine(pool, s) # {}
        BY <2>4, <2>6
      <4> QED BY <1>10, <2>3, <2>4, <2>6, <3>3, <4>1, <4>2
    <3> QED BY <3>1, <3>2, <3>3
  <2> QED BY <2>5, <2>6
<1>15. ASSUME NEW h \in Slots, NEW t \in Sides, NEW px \in Prices, NEW q \in 1 .. MaxQty,
              Submit(h, t, px, q)
       PROVE  IsBest(bestOwn'[s], pool', s)
  <2>1. /\ pool[h] = NoOrder
        /\ bestOwn' = IF bestOwn[t] = 0 \/ Better(t, px, bestOwn[t])
                      THEN [bestOwn EXCEPT ![t] = px] ELSE bestOwn
    BY <1>15 DEF Submit
  <2>2. /\ pool'[h] # NoOrder /\ pool'[h].side = t /\ pool'[h].px = px
        /\ \A g \in Slots \ {h} : pool'[g] = pool[g]
    BY <1>3, <1>15 DEF Submit, PoolOf, NoOrder
  <2>3. h \notin Mine(pool, s) /\ (h \in Mine(pool', s) <=> t = s)
    BY <2>1, <2>2 DEF Mine
  <2>4. CASE t = s /\ (b = 0 \/ Better(s, px, b))
    <3>1. bestOwn'[s] = px
      BY <1>3, <2>1, <2>4 DEF b
    <3> QED BY <1>9, <2>2, <2>3, <2>4, <3>1
  <2>5. CASE t = s /\ ~(b = 0 \/ Better(s, px, b))
    <3>1. bestOwn'[s] = b
      BY <1>3, <2>1, <2>5 DEF b
    <3>2. Mine(pool, s) # {}
      BY <1>2, <2>5 DEF IsBest
    <3> QED BY <1>10, <2>2, <2>3, <2>5, <3>1, <3>2
  <2>6. CASE t # s
    <3>1. bestOwn'[s] = b
      BY <1>3, <2>1, <2>6 DEF b
    <3> QED BY <1>10, <2>2, <2>3, <2>6, <3>1
  <2> QED BY <2>4, <2>5, <2>6
<1>16. ASSUME NEW p \in RingSlots, NEW n \in Record, LateFilling(p, n)
       PROVE  IsBest(bestOwn'[s], pool', s)
  BY <1>2, <1>16 DEF LateFilling, b
<1> QED BY <1>11, <1>12, <1>13, <1>14, <1>15, <1>16, StepShapes DEF StepShape

-----------------------------------------------------------------------------
\* The books of an empty table.
LEMMA InitBooks ==
  ASSUME Init
  PROVE  PendingCountsEstimates /\ OpenQtyIsLeaves /\ OwnPrices /\ BestOwnIsBest
<1>1. \A h \in Slots : pool[h] = NoOrder
  BY DEF Init
<1>2. \A p \in RingSlots : recent[p] = NoRecord
  BY DEF Init
<1>3. PendingCountsEstimates
  <2>1. OpenHolders(pool) = {} /\ EndedHolders(recent) = {}
    BY <1>1, <1>2 DEF OpenHolders, EndedHolders
  <2>2. Cardinality({}) = 0
    BY FS_EmptySet
  <2>3. Cardinality(OpenHolders(pool)) + Cardinality(EndedHolders(recent)) = 0
    BY <2>1, <2>2
  <2> QED BY <2>3 DEF PendingCountsEstimates, OpenHolders, EndedHolders, Init
<1>4. OpenQtyIsLeaves
  <2>1. ASSUME NEW s \in Sides PROVE openQty[s] = Total(pool, s)
    <3>1. Mine(pool, s) = {}
      BY <1>1 DEF Mine
    <3>2. pool \in PoolOf
      BY DEF Init, PoolOf
    <3>3. PICK F : Summing(F, Mine(pool, s), LeavesOf(pool, s)) /\ Total(pool, s) = F[Mine(pool, s)]
      BY <3>2, TotalIsSum
    <3>4. Total(pool, s) = 0
      BY <3>1, <3>3 DEF Summing
    <3> QED BY <3>4 DEF Init
  <2> QED BY <2>1, Zenon DEF OpenQtyIsLeaves, Total, Mine
<1>5. OwnPrices
  BY <1>1 DEF OwnPrices
<1>6. BestOwnIsBest
  <2>1. ASSUME NEW s \in Sides PROVE IsBest(bestOwn[s], pool, s)
    <3>1. Mine(pool, s) = {}
      BY <1>1 DEF Mine
    <3> QED BY <3>1 DEF IsBest, Init
  <2> QED BY <2>1, BestBySlots
<1> QED BY <1>3, <1>4, <1>5, <1>6

\* Whatever messages arrive, open_qty() is the sum of the leaves of the side's open orders: no fill,
\* cumulative report, replace or end leaks open quantity or releases it twice.
THEOREM OmsOpenQtyIsLeaves == Spec => []OpenQtyIsLeaves
<1> DEFINE K == IInv /\ EndingOrdersAreUnseen /\ OpenQtyIsLeaves
<1>1. Init => K
  BY InitSound, InitBooks DEF Init, EndingOrdersAreUnseen
<1>2. K /\ [Next]_vars => K'
  <2>1. K /\ [Next]_vars => IInv' /\ EndingOrdersAreUnseen'
    BY StepSound
  <2>2. IInv' => TypeOK'
    BY DEF IInv
  <2> QED BY <2>1, <2>2, OpenQtyKeeps
<1> QED BY <1>1, <1>2, PTL DEF Spec

\* Whatever messages arrive, synthetic_pending counts the open and the remembered orders that hold an
\* estimate, also when the ring forgets one and when a cancel-replace splits one off: on_fill never
\* skips the correction of an estimate that stands.
THEOREM OmsPendingCountsEstimates == Spec => []PendingCountsEstimates
<1> DEFINE K == IInv /\ EndingOrdersAreUnseen /\ PendingCountsEstimates
<1>1. Init => K
  BY InitSound, InitBooks DEF Init, EndingOrdersAreUnseen
<1>2. K /\ [Next]_vars => K'
  BY StepSound, PendingKeeps
<1> QED BY <1>1, <1>2, PTL DEF Spec

\* As long as no sell is priced 0, best_own_px() is the best price among the side's open orders along
\* every path of submits, replaces and ends: the upkeep that skips the scan agrees with a scan.
THEOREM OmsBestOwnIsBest ==
  ASSUME SellsArePriced
  PROVE  Spec => []BestOwnIsBest
<1> DEFINE K == IInv /\ EndingOrdersAreUnseen /\ OwnPrices /\ BestOwnIsBest
<1>1. Init => K
  BY InitSound, InitBooks DEF Init, EndingOrdersAreUnseen
<1>2. K /\ [Next]_vars => K'
  <2>1. K /\ [Next]_vars => IInv' /\ EndingOrdersAreUnseen'
    BY StepSound
  <2>2. IInv' => TypeOK'
    BY DEF IInv
  <2>3. K /\ [Next]_vars => OwnPrices'
    BY <2>1, <2>2, OwnPricesKeep
  <2> QED BY <2>1, <2>2, <2>3, BestOwnKeeps
<1> QED BY <1>1, <1>2, PTL DEF Spec

-----------------------------------------------------------------------------
(***************************************************************************)
(* The order path of one venue.                                            *)
(***************************************************************************)


\* The table remembers every order of the session and every execution of its orders.
SessionFits ==
  /\ RingCap >= MaxSeq /\ ExecCap >= MaxSeq * MaxQty
  /\ 1 .. MaxSeq * MaxQty \subseteq Execs

-----------------------------------------------------------------------------
(***************************************************************************)
(* What is booked of an order.                                             *)
(***************************************************************************)

QtySum(v, S) == MapThenSumSet(LAMBDA x : v[x].qty, S)
Sum(v, S)    == QtySum([x \in S |-> [qty |-> v[x]]], S)

\* What the table counts of an order, open or ended.
AccOf(o)   == [qty |-> o.qty, cum |-> o.cum, est |-> o.est]
NoAcc      == [qty |-> 0, cum |-> 0, est |-> 0]
Account(l) == IF IsOpen(l) THEN AccOf(pool[SlotOf(l)])
              ELSE IF IsTerminal(l) THEN AccOf(recent[SlotOf(l)]) ELSE NoAcc
Accounts   == [qty : Qty, cum : Qty, est : Nat]

\* What the executions of the order l contribute, and those among them the engine has booked by name.
LinkQty(l)  == [i \in TradeIds |-> IF trades[i].link = l THEN trades[i].qty ELSE 0]
Named(l)    == Sum(LinkQty(l), Range(execs))
UpTo(l, i)  == Sum(LinkQty(l), 1 .. i)
BookedOf(l) == Named(l) + Account(l).est
Booked      == [l \in Ids |-> BookedOf(l)]
Filled      == [l \in Ids |-> orders[l].cum]

-----------------------------------------------------------------------------
(***************************************************************************)
(* The inductive invariant.                                                *)
(***************************************************************************)

\* The ring fills up from its first slot and is never written over.
RingShape == \/ \A p \in RingSlots : recent[p] # NoRecord <=> p < next
             \/ \A p \in RingSlots : recent[p] # NoRecord

\* The table holds every order the session has issued, none of them amended.
Kept == /\ \A l \in Ids : l <= seq => IsOpen(l) \/ IsTerminal(l)
        /\ \A h \in Slots : pool[h] # NoOrder => pool[h].pend = NoId
        /\ RingShape

TableInv == IInv /\ EndingOrdersAreUnseen /\ PendingCountsEstimates /\ Kept

\* The messages of the queues.
Commands == [kind : {"New", "Cancel"}, id : Ids, orig : {NoId}, qty : Qty]
Requests == [kind : {"New", "Cancel"}, id : Ids, link : Ids, qty : Qty]
Replies  == [kind : {"New", "Cancel"}, id : Ids, is : {"ok", "gone", "refused"}]
States   == [link : Ids, status : {"New", "Rejected", "Cancelled"}, cum : Qty]
Trades   == [link : Ids, qty : 1 .. MaxQty]
Streamed == [link : Ids, exec : Nat, qty : 1 .. MaxQty, cum : 1 .. MaxQty, leaves : Nat]
Reports  == [t : {"cancelAck", "row"}, id : Ids, cum : Qty]
FillMsgs == [t : {"fill"}, fill : Fills]
Notices  == [t : {"ack", "reject"}, id : Ids] \cup [t : {"cancelReject"}, id : Ids, gone : BOOLEAN]
            \cup [t : {"begin"}, mark : Ids \cup {NoId}, exact : BOOLEAN] \cup [t : {"end"}]
VenueOrders == [st : {"None", "Open", "Done"}, qty : Qty, cum : Qty]
Replays  == [st : {"idle", "asked", "read"}, rows : Nat, emitted : Nat, owed : BOOLEAN]
Recons   == [st : {"idle", "waiting", "asked", "read", "retry"}, mark : Ids \cup {NoId},
             exact : BOOLEAN, again : BOOLEAN, snap : [Ids -> VenueOrders]]

\* An execution of the order l named i, with the order's count after it.
Execution(l, i, q) == i \in TradeIds /\ trades[i] = [link |-> l, qty |-> q]
IsExecution(f)     == /\ Execution(f.id, f.exec, f.qty)
                      /\ f.cum = IF f.replayed THEN 0 ELSE UpTo(f.id, f.exec)

\* What is on its way from the venue is true: a reported quantity was executed, and an execution is
\* one the venue made.
TrueReports  == {e \in Reports : e.cum <= orders[e.id].cum}
TrueFills    == {e \in FillMsgs : IsExecution(e.fill)}
TrueStates   == {e \in States : e.cum <= orders[e.link].cum}
TrueStreamed == {e \in Streamed : Execution(e.link, e.exec, e.qty) /\ e.cum = UpTo(e.link, e.exec)}
TrueEvents   == Notices \cup TrueReports \cup TrueFills

FromVenue ==
  /\ resp \in Seq(Replies) /\ ring \in Seq(TrueEvents)
  /\ ordTopic \in Seq(TrueStates) /\ exTopic \in Seq(TrueStreamed)
  /\ \A l \in Ids : recon.snap[l].cum <= orders[l].cum

\* Nothing is aliased.
NoAlias ==
  /\ shadow \in [Ids -> [link : Ids \cup {NoId}, replaces : {NoId}]]
  /\ \A id \in Ids : shadow[id] # NoShadow => shadow[id].link \in Ids
  /\ alias = [l \in Ids |-> NoId]
Connector ==
  /\ NoAlias
  /\ sentTo \in Ids \cup {NoId} /\ unanswered \in SUBSET Ids
  /\ recon \in Recons /\ replay \in Replays

\* A new order goes to the venue once, with the quantity the table has.
Sendable   == {x \in Ids \X Qty : x[1] <= seq /\ Account(x[1]).qty = x[2] /\ orders[x[1]] = NoVenueOrder}
NewsIn(q)  == {i \in DOMAIN q : q[i].kind = "New"}
New(m)     == <<m.id, m.qty>>
Orderly(C, W, A) ==
  /\ C \in Seq(Commands) /\ W \in Seq(Requests)
  /\ \A i \in NewsIn(C) : New(C[i]) \in A
  /\ \A i \in NewsIn(W) : New(W[i]) \in A /\ W[i].link = W[i].id
  /\ \A i, j \in NewsIn(C) : C[i].id = C[j].id => i = j
  /\ \A i, j \in NewsIn(W) : W[i].id = W[j].id => i = j
  /\ \A i \in NewsIn(C), j \in NewsIn(W) : C[i].id # W[j].id
ToVenue == Orderly(cmds, wire, Sendable)

\* What the venue has of an order.
OrderAt(l) ==
  /\ orders[l].st = "None" => orders[l] = NoVenueOrder
  /\ orders[l].st # "None" => l <= seq /\ orders[l].qty = Account(l).qty
  /\ orders[l].cum <= orders[l].qty
  /\ orders[l].cum = UpTo(l, Len(trades))
AtVenue ==
  /\ orders \in [Ids -> VenueOrders] /\ trades \in Seq(Trades)
  /\ \A l \in Ids : OrderAt(l)

\* The executions the engine was given before the event i of its ring R, when it has handled E.
IsFill(e)          == e.t = "fill"
GivenBefore(E, R, i) == E \cup {R[j].fill.exec : j \in {k \in 1 .. i - 1 : IsFill(R[k])}}
GivenIn(E, R)      == GivenBefore(E, R, Len(R) + 1)

\* A live execution comes after the earlier ones that were given, or was given before; and the
\* replay has given all up to where it stands, n.
After(i, G)   == \A j \in G : j < i
Turns(E, R, X, n) ==
  /\ \A i \in DOMAIN R : IsFill(R[i]) /\ ~R[i].fill.replayed =>
       R[i].fill.exec \in GivenBefore(E, R, i) \/ After(R[i].fill.exec, GivenBefore(E, R, i))
  /\ \A i \in DOMAIN X : X[i].exec <= n \/ After(X[i].exec, GivenIn(E, R))
  /\ \A i, j \in DOMAIN X : i < j => X[i].exec < X[j].exec
  /\ 1 .. n \subseteq GivenIn(E, R)
Turn ==
  /\ Turns(Range(execs), ring, exTopic, replay.emitted)
  /\ replay.emitted <= Len(trades)
  /\ replay.st = "read" => replay.emitted <= replay.rows /\ replay.rows <= Len(trades)

\* No execution is forgotten.
Remembers == Len(execs) = Cardinality(Range(execs)) /\ Range(execs) \subseteq TradeIds

\* What is booked of an order, by name or as an estimate, the venue has executed and the table counts.
Covered == \A l \in Ids : BookedOf(l) <= orders[l].cum /\ BookedOf(l) <= Account(l).cum

Totals ==
  /\ booked = Sum(Booked, Ids)
  /\ Executed = Sum(Filled, Ids)
  /\ Len(trades) <= Executed

BooksInv ==
  /\ TableInv /\ Connector /\ ToVenue /\ FromVenue /\ AtVenue /\ Turn
  /\ Remembers /\ Covered /\ Totals
-----------------------------------------------------------------------------
(***************************************************************************)
(* Sums.                                                                   *)
(***************************************************************************)

QtyIter(v, S) ==
  CHOOSE f : f = [t \in SUBSET S |->
                    IF t = {} THEN 0
                    ELSE v[CHOOSE x \in t : TRUE].qty + f[t \ {CHOOSE x \in t : TRUE}]]

LEMMA QtySumIsIter ==
  ASSUME NEW v, NEW S
  PROVE  QtySum(v, S) = QtyIter(v, S)[S]
  BY Zenon DEF QtySum, QtyIter, MapThenSumSet, MapThenFoldSet

\* The library's fold sums the quantities, in whatever order.
LEMMA QtySumIsSum ==
  ASSUME NEW S, IsFiniteSet(S), NEW v, NEW w \in [S -> Int], \A x \in S : v[x].qty = w[x]
  PROVE  \E F : Summing(F, S, w) /\ QtySum(v, S) = F[S]
<1> DEFINE ch == [t \in SUBSET S |-> CHOOSE x \in t : TRUE]
           D == [x \in S \X Int |-> w[x[1]] + x[2]]
           f == QtyIter(v, S)
           L(t, g) == IF t = {} THEN 0
                      ELSE v[CHOOSE x \in t : TRUE].qty + g[t \ {CHOOSE x \in t : TRUE}]
           G(g) == [t \in SUBSET S |-> L(t, g)]
<1>3. \A t \in SUBSET S : t # {} => ch[t] = (CHOOSE x \in t : TRUE) /\ ch[t] \in t
  OBVIOUS
<1>4. D \in [S \X Int -> Int] /\ \A x \in S : \A i \in Int : D[<<x, i>>] = w[x] + i
  OBVIOUS
<1>5. PICK e \in [SUBSET S -> Int] : Iterates(e, SUBSET S, 0, ch, D)
  <2>1. 0 \in Int
    OBVIOUS
  <2> HIDE DEF D, ch
  <2> QED BY <1>3, <1>4, <2>1, SubsetRecursion
<1>6. \A t \in SUBSET S : e[t] = IF t = {} THEN 0 ELSE D[<<ch[t], e[t \ {ch[t]}]>>]
  <2> HIDE DEF D, ch
  <2> QED BY <1>5, Zenon DEF Iterates
<1>7. ASSUME NEW t \in SUBSET S, t # {} PROVE e[t] = w[ch[t]] + e[t \ {ch[t]}]
  <2>1. ch[t] \in S /\ t \ {ch[t]} \in SUBSET S
    BY <1>3, <1>7
  <2>2. e[t \ {ch[t]}] \in Int
    BY <2>1
  <2> HIDE DEF D, ch
  <2> QED BY <1>4, <1>6, <1>7, <2>1, <2>2
<1>8. e[{}] = 0
  BY <1>6
<1>9. e = G(e)
  <2>1. ASSUME NEW t \in SUBSET S PROVE e[t] = L(t, e)
    <3>1. CASE t = {}
      BY <1>8, <3>1
    <3>2. CASE t # {}
      <4>1. ch[t] \in S /\ ch[t] = CHOOSE x \in t : TRUE
        BY <1>3, <3>2
      <4>2. e[t] = v[ch[t]].qty + e[t \ {ch[t]}]
        <5> HIDE DEF ch
        <5> QED BY <1>7, <3>2, <4>1
      <4> HIDE DEF ch
      <4> QED BY <3>2, <4>1, <4>2
    <3> QED BY <3>1, <3>2
  <2>2. e = [t \in SUBSET S |-> e[t]]
    OBVIOUS
  <2> HIDE DEF L
  <2> QED BY <2>1, <2>2
<1>10. f = G(f)
  <2>1. f = CHOOSE g : g = G(g)
    BY Zenon DEF QtyIter
  <2> HIDE DEF G, f
  <2> QED BY <1>9, <2>1
<1> HIDE DEF f
<1>11. QtySum(v, S) = f[S]
  BY QtySumIsIter DEF f
<1>12. Summing(f, S, w)
  <2> DEFINE H == {n \in Nat : \A t \in SUBSET S : Cardinality(t) <= n => f[t] = e[t]}
  <2>1. \A t \in SUBSET S : IsFiniteSet(t) /\ Cardinality(t) \in Nat
    BY FS_Subset, FS_CardinalityType
  <2>2. \A t \in SUBSET S : f[t] = L(t, f) /\ e[t] = L(t, e)
    <3> HIDE DEF L
    <3> QED BY <1>9, <1>10
  <2>3. 0 \in H
    <3>1. \A t \in SUBSET S : Cardinality(t) <= 0 => t = {}
      BY <2>1, FS_EmptySet
    <3> QED BY <2>2, <3>1
  <2>4. ASSUME NEW n \in Nat, n \in H PROVE n + 1 \in H
    <3>6. f[{}] = e[{}]
      <4>1. L({}, f) = 0 /\ L({}, e) = 0 /\ {} \in SUBSET S
        OBVIOUS
      <4> HIDE DEF L
      <4> QED BY <2>2, <4>1
    <3>7. SUFFICES \A t \in SUBSET S : Cardinality(t) <= n + 1 => f[t] = e[t]
      OBVIOUS
    <3> SUFFICES ASSUME NEW t \in SUBSET S, Cardinality(t) <= n + 1, t # {}
                 PROVE  f[t] = e[t]
      BY <3>6
    <3> DEFINE x == CHOOSE y \in t : TRUE
    <3>1. x \in t /\ t \ {x} \in SUBSET S
      OBVIOUS
    <3>2. Cardinality(t \ {x}) = Cardinality(t) - 1
      BY <2>1, <3>1, FS_RemoveElement
    <3>3. f[t \ {x}] = e[t \ {x}]
      BY <2>1, <2>4, <3>1, <3>2
    <3>4. L(t, f) = v[x].qty + f[t \ {x}] /\ L(t, e) = v[x].qty + e[t \ {x}]
      OBVIOUS
    <3>5. f[t] = L(t, f) /\ e[t] = L(t, e)
      <4> HIDE DEF x, L
      <4> QED BY <2>2
    <3> HIDE DEF x, L
    <3> QED BY <3>3, <3>4, <3>5
  <2> HIDE DEF H
  <2>5. \A n \in Nat : n \in H
    BY <2>3, <2>4, NatSetInduction
  <2>6. ASSUME NEW t \in SUBSET S PROVE f[t] = e[t]
    <3>1. Cardinality(t) \in H /\ Cardinality(t) <= Cardinality(t)
      BY <2>1, <2>5
    <3> QED BY <3>1 DEF H
  <2>7. f = e
    <3>1. f = [t \in SUBSET S |-> f[t]]
      <4> HIDE DEF L
      <4> QED BY <1>10
    <3> QED BY <2>6, <3>1
  <2>8. Summing(e, S, w)
    <3> HIDE DEF ch
    <3> QED BY <1>3, <1>7, <1>8, SumInAnyOrder
  <2> QED BY <2>7, <2>8
<1> QED BY <1>11, <1>12

\* v has a value for every member of the finite set S.
Summable(v, S) == IsFiniteSet(S) /\ \A x \in S : v[x] \in Int

LEMMA SumIsSum ==
  ASSUME NEW v, NEW S, Summable(v, S)
  PROVE  \E F : Summing(F, S, v) /\ Sum(v, S) = F[S]
<1> DEFINE w == [x \in S |-> v[x]]
           u == [x \in S |-> [qty |-> v[x]]]
<1>1. w \in [S -> Int] /\ (\A x \in S : u[x].qty = w[x]) /\ IsFiniteSet(S) /\ \A x \in S : w[x] = v[x]
  BY DEF Summable
<1>2. Sum(v, S) = QtySum(u, S)
  BY Zenon DEF Sum
<1> HIDE DEF w, u
<1>3. PICK F : Summing(F, S, w) /\ QtySum(u, S) = F[S]
  BY <1>1, QtySumIsSum
<1>4. Summing(F, S, v)
  BY <1>1, <1>3 DEF Summing
<1> QED BY <1>2, <1>3, <1>4

LEMMA SumSame ==
  ASSUME NEW v, NEW w, NEW S, Summable(v, S), \A x \in S : v[x] = w[x]
  PROVE  Sum(v, S) = Sum(w, S)
<1>1. Summable(w, S) /\ IsFiniteSet(S)
  BY DEF Summable
<1>2. PICK F : Summing(F, S, v) /\ Sum(v, S) = F[S]
  BY SumIsSum
<1>3. PICK G : Summing(G, S, w) /\ Sum(w, S) = G[S]
  BY <1>1, SumIsSum
<1>4. F[S] = G[S]
  BY <1>1, <1>2, <1>3, SumsAgree
<1> QED BY <1>2, <1>3, <1>4

LEMMA SumType ==
  ASSUME NEW v, NEW S, Summable(v, S)
  PROVE  Sum(v, S) \in Int
<1>1. PICK F : Summing(F, S, v) /\ Sum(v, S) = F[S]
  BY SumIsSum
<1> QED BY <1>1 DEF Summing

LEMMA SumEmpty ==
  ASSUME NEW v
  PROVE  Sum(v, {}) = 0
<1>1. Summable(v, {})
  BY FS_EmptySet DEF Summable
<1>2. PICK F : Summing(F, {}, v) /\ Sum(v, {}) = F[{}]
  BY <1>1, SumIsSum
<1> QED BY <1>2 DEF Summing

LEMMA SumRemove ==
  ASSUME NEW v, NEW S, Summable(v, S), NEW x \in S
  PROVE  Summable(v, S \ {x}) /\ Sum(v, S) = Sum(v, S \ {x}) + v[x]
<1> DEFINE C == S \ {x}
<1>1. Summable(v, C) /\ IsFiniteSet(C) /\ C \subseteq S /\ C \subseteq C /\ S \in SUBSET S
  BY FS_Subset DEF Summable
<1>2. PICK F : Summing(F, S, v) /\ Sum(v, S) = F[S]
  BY SumIsSum
<1> HIDE DEF C
<1>3. PICK G : Summing(G, C, v) /\ Sum(v, C) = G[C]
  BY <1>1, SumIsSum
<1>4. F[C] = G[C]
  BY <1>1, <1>2, <1>3, SumsAgree
<1>5. F[S] = F[C] + v[x]
  BY <1>1, <1>2 DEF Summing, C
<1> QED BY <1>1, <1>2, <1>3, <1>4, <1>5 DEF C

LEMMA SumAdd ==
  ASSUME NEW v, NEW S, Summable(v, S), NEW x, x \notin S, v[x] \in Int
  PROVE  Summable(v, S \cup {x}) /\ Sum(v, S \cup {x}) = Sum(v, S) + v[x]
<1> DEFINE R == S \cup {x}
<1>1. Summable(v, R) /\ x \in R /\ R \ {x} = S
  BY FS_AddElement DEF Summable
<1> HIDE DEF R
<1>2. Sum(v, R) = Sum(v, R \ {x}) + v[x]
  BY <1>1, SumRemove
<1> QED BY <1>1, <1>2 DEF R

\* One value changes.
Changed(v, w, S, x) == Sum(w, S) = Sum(v, S) - v[x] + w[x] /\ Sum(v, S) \in Int
LEMMA SumChanged ==
  ASSUME NEW v, NEW w, NEW S, NEW x, Summable(v, S), x \in S, w[x] \in Int, \A y \in S \ {x} : w[y] = v[y]
  PROVE  Changed(v, w, S, x)
<1>1. Summable(w, S)
  BY DEF Summable
<1>2. Summable(v, S \ {x}) /\ Sum(v, S) = Sum(v, S \ {x}) + v[x]
  BY SumRemove
<1>3. Summable(w, S \ {x}) /\ Sum(w, S) = Sum(w, S \ {x}) + w[x]
  BY <1>1, SumRemove
<1>4. Sum(v, S \ {x}) = Sum(w, S \ {x})
  BY <1>2, SumSame
<1>5. Sum(v, S \ {x}) \in Int /\ v[x] \in Int /\ Sum(v, S) \in Int
  BY <1>2, SumType DEF Summable
<1> QED BY <1>2, <1>3, <1>4, <1>5 DEF Changed

\* A sum of smaller values is smaller.
LEMMA SumLess ==
  ASSUME NEW v, NEW w, NEW S, Summable(v, S), Summable(w, S), \A x \in S : v[x] <= w[x]
  PROVE  Sum(v, S) <= Sum(w, S)
<1>1. PICK F : Summing(F, S, v) /\ Sum(v, S) = F[S]
  BY SumIsSum
<1>2. PICK G : Summing(G, S, w) /\ Sum(w, S) = G[S]
  BY SumIsSum
<1> DEFINE E == {T \in SUBSET S : F[T] <= G[T]}
<1>3. {} \in E
  BY <1>1, <1>2 DEF Summing
<1>4. ASSUME NEW T \in SUBSET S, NEW x \in S \ T, T \in E PROVE T \cup {x} \in E
  <2> DEFINE U == T \cup {x}
  <2>1. U \in SUBSET S /\ x \in U /\ U \ {x} = T
    OBVIOUS
  <2> HIDE DEF U
  <2>2. F[U] = F[T] + v[x] /\ G[U] = G[T] + w[x]
    BY <1>1, <1>2, <2>1 DEF Summing
  <2>3. F[T] \in Int /\ G[T] \in Int /\ v[x] \in Int /\ w[x] \in Int /\ v[x] <= w[x] /\ F[T] <= G[T]
    BY <1>1, <1>2, <1>4 DEF Summing, Summable
  <2>4. F[U] <= G[U]
    BY <2>2, <2>3
  <2> QED BY <2>1, <2>4 DEF U
<1>5. IsFiniteSet(S)
  BY DEF Summable
<1> HIDE DEF E
<1>6. S \in E
  BY <1>3, <1>4, <1>5, FiniteSetInduction
<1> QED BY <1>1, <1>2, <1>6 DEF E

\* A part of a sum of naturals is smaller.
LEMMA SumPart ==
  ASSUME NEW v, NEW R, IsFiniteSet(R), \A x \in R : v[x] \in Nat, NEW S, S \subseteq R
  PROVE  /\ Summable(v, S) /\ Summable(v, R) /\ Sum(v, S) \in Nat /\ Sum(v, R) \in Nat
         /\ Sum(v, S) <= Sum(v, R)
<1>1. IsFiniteSet(S)
  BY FS_Subset
<1>2. Summable(v, S) /\ Summable(v, R)
  BY <1>1 DEF Summable
<1>3. PICK F : Summing(F, R, v) /\ Sum(v, R) = F[R]
  BY <1>2, SumIsSum
<1>4. PICK G : Summing(G, S, v) /\ Sum(v, S) = G[S]
  BY <1>2, SumIsSum
<1>5. F[S] = G[S]
  BY <1>1, <1>3, <1>4, SumsAgree
<1> DEFINE E == {T \in SUBSET R : /\ F[T] \in Nat /\ F[T \cap S] \in Nat /\ F[T \cap S] <= F[T]}
<1>6. {} \in E
  BY <1>3 DEF Summing
<1>7. ASSUME NEW T \in SUBSET R, NEW x \in R \ T, T \in E PROVE T \cup {x} \in E
  <2> DEFINE U == T \cup {x}
             W == U \cap S
             Y == T \cap S
  <2>1. /\ U \in SUBSET R /\ x \in U /\ U \ {x} = T /\ W \in SUBSET R
        /\ (x \in S => x \in W /\ W \ {x} = Y) /\ (x \notin S => W = Y)
    OBVIOUS
  <2>2. F[T] \in Nat /\ F[Y] \in Nat /\ F[Y] <= F[T]
    BY <1>7
  <2> HIDE DEF U, W, Y
  <2>3. F[U] = F[T] + v[x] /\ (x \in S => F[W] = F[Y] + v[x])
    BY <1>3, <2>1 DEF Summing
  <2>4. F[U] \in Nat /\ F[W] \in Nat /\ F[W] <= F[U]
    <3>1. v[x] \in Nat
      OBVIOUS
    <3> QED BY <2>1, <2>2, <2>3, <3>1
  <2> QED BY <2>1, <2>4 DEF U, W
<1> HIDE DEF E
<1>8. R \in E
  BY <1>6, <1>7, FiniteSetInduction
<1>9. R \cap S = S
  OBVIOUS
<1> QED BY <1>2, <1>3, <1>4, <1>5, <1>8, <1>9 DEF E

\* A sum of n values up to c.
LEMMA SumBound ==
  ASSUME NEW n \in Nat, NEW c \in Nat, NEW v, \A i \in 1 .. n : v[i] \in Nat /\ v[i] <= c
  PROVE  Sum(v, 1 .. n) <= n * c
<1> DEFINE G == {i \in Nat : i <= n => Sum(v, 1 .. i) <= i * c}
<1>1. 0 \in G
  <2>1. 1 .. 0 = {} /\ 0 * c = 0
    OBVIOUS
  <2> QED BY <2>1, SumEmpty
<1>2. ASSUME NEW i \in Nat, i \in G PROVE i + 1 \in G
  <2>1. SUFFICES ASSUME i + 1 <= n PROVE Sum(v, 1 .. i + 1) <= (i + 1) * c
    OBVIOUS
  <2>2. Summable(v, 1 .. i) /\ v[i + 1] \in Int
    BY <2>1, FS_Interval DEF Summable
  <2>3. i + 1 \notin 1 .. i /\ (1 .. i) \cup {i + 1} = 1 .. i + 1
    OBVIOUS
  <2>4. Sum(v, 1 .. i + 1) = Sum(v, 1 .. i) + v[i + 1] /\ Sum(v, 1 .. i) \in Int
    <3>1. PICK T : T = 1 .. i
      OBVIOUS
    <3>2. PICK y : y = i + 1
      OBVIOUS
    <3>3. Summable(v, T) /\ v[y] \in Int /\ y \notin T
      BY <2>2, <2>3, <3>1, <3>2
    <3>4. Sum(v, T \cup {y}) = Sum(v, T) + v[y] /\ Sum(v, T) \in Int
      BY <3>3, SumAdd, SumType
    <3> QED BY <2>3, <3>1, <3>2, <3>4
  <2>5. Sum(v, 1 .. i) <= i * c /\ v[i + 1] <= c /\ v[i + 1] \in Nat
    BY <1>2, <2>1
  <2>6. (i + 1) * c = i * c + c /\ i * c \in Int
    OBVIOUS
  <2> QED BY <2>4, <2>5, <2>6
<1> HIDE DEF G
<1>3. n \in G
  BY <1>1, <1>2, NatSetInduction
<1> QED BY <1>3 DEF G


-----------------------------------------------------------------------------
(***************************************************************************)
(* The table: what its steps do to the accounts.                           *)
(***************************************************************************)

SameAccounts == seq' = seq /\ \A l \in Ids : Account(l)' = Account(l)
Posted(l, a) == seq' = seq /\ Account(l)' = a /\ \A k \in Ids \ {l} : Account(k)' = Account(k)

LEMMA AccountFacts ==
  ASSUME IInv
  PROVE  /\ \A h \in Slots : pool[h] # NoOrder => Account(pool[h].id) = AccOf(pool[h])
         /\ \A l \in Ids : Account(l) \in Accounts
         /\ \A l \in Ids : l > seq => Account(l) = NoAcc
<1>1. \A o \in Order : AccOf(o) \in Accounts
  BY DEF AccOf, Accounts, Order
<1>2. \A o \in Record : AccOf(o) \in Accounts
  BY DEF AccOf, Accounts, Record
<1>3. NoAcc \in Accounts
  BY OmsAssumption DEF NoAcc, Accounts, Qty
<1>4. \A l \in Ids : Account(l) \in Accounts
  BY <1>1, <1>2, <1>3, LookupSound DEF Account
<1>5. ASSUME NEW h \in Slots, pool[h] # NoOrder PROVE Account(pool[h].id) = AccOf(pool[h])
  <2>1. pool[h].id \in Ids /\ ids[pool[h].id] = SlotRef(h)
    BY <1>5 DEF IInv, TypeOK, Order, IdsSound, OpenOrdersAreNamed
  <2> QED BY <2>1, RefDistinct DEF Account, IsOpen, SlotOf, Ref
<1>6. ASSUME NEW l \in Ids, l > seq PROVE Account(l) = NoAcc
  <2>1. ids[l] = NoRef
    BY <1>6 DEF IInv, FreshIds
  <2> QED BY <2>1, RefDistinct DEF Account, IsOpen, IsTerminal, Ref
<1> QED BY <1>4, <1>5, <1>6

\* Without amends no open order waits for a replacement.
LEMMA NoReplace ==
  ASSUME IInv, Kept
  PROVE  /\ \A h \in Slots : pool[h] # NoOrder => pool[h].pend = NoId /\ pool[h].state # "PendingReplace"
         /\ \A l \in Ids : ids[l].kind = "open" => l = pool[ids[l].at].id
         /\ \A l : ~OfReplace(l) /\ ~OfOldLeg(l)
<1>1. \A h \in Slots : pool[h] # NoOrder => pool[h].pend = NoId /\ pool[h].state # "PendingReplace"
  BY DEF IInv, IdsSound, OpenOrdersAreNamed, Kept
<1>2. ASSUME NEW l \in Ids, ids[l].kind = "open" PROVE l = pool[ids[l].at].id
  <2>1. ids[l].at \in Slots /\ pool[ids[l].at] # NoOrder /\ l \in {pool[ids[l].at].id, pool[ids[l].at].pend}
    BY <1>2, RefShape, RefDistinct DEF IInv, TypeOK, IdsSound, OpenIdsNameTheirOrder
  <2> QED BY <1>1, <2>1 DEF NoId, Ids
<1>3. ASSUME NEW l PROVE ~OfReplace(l) /\ ~OfOldLeg(l)
  BY <1>1, LookupSound DEF OfReplace, OfOldLeg, OpenIn, Live
<1> QED BY <1>1, <1>2, <1>3

\* While an order is open the ring has room.
LEMMA RoomInRing ==
  ASSUME IInv, Kept, SessionFits, NEW h \in Slots, pool[h] # NoOrder
  PROVE  recent[next] = NoRecord /\ \A p \in RingSlots : recent[p] # NoRecord <=> p < next
<1>1. next \in RingSlots /\ next \in Nat
  BY DEF IInv, TypeOK, RingSlots
<1>2. CASE \A p \in RingSlots : recent[p] # NoRecord <=> p < next
  BY <1>1, <1>2
<1>3. CASE \A p \in RingSlots : recent[p] # NoRecord
  <2> DEFINE id == pool[h].id
             S == Ids \ {id}
             f == [p \in RingSlots |-> recent[p].id]
  <2>1. id \in Ids /\ ids[id] = SlotRef(h)
    BY DEF IInv, TypeOK, Order, IdsSound, OpenOrdersAreNamed
  <2>2. \A p \in RingSlots : recent[p].id \in Ids /\ ids[recent[p].id] = TermRef(p)
    BY <1>3, NotFree DEF IInv, TypeOK, IdsSound, RecordsAreNamed, Record
  <2>3. f \in [RingSlots -> S]
    BY <2>1, <2>2, RefDistinct
  <2>4. \A p, q \in RingSlots : f[p] = f[q] => p = q
    BY <2>2, RefDistinct
  <2>5. /\ IsFiniteSet(Ids) /\ Cardinality(Ids) = MaxSeq
        /\ IsFiniteSet(RingSlots) /\ Cardinality(RingSlots) = RingCap
    BY FS_Interval, OmsAssumption DEF Ids, RingSlots
  <2>6. IsFiniteSet(S) /\ Cardinality(S) = MaxSeq - 1
    BY <2>1, <2>5, FS_RemoveElement
  <2> HIDE DEF id, S, f
  <2>7. f \in Injection(RingSlots, S)
    BY <2>3, <2>4 DEF Injection, IsInjective
  <2>8. Cardinality(RingSlots) <= Cardinality(S)
    BY <2>5, <2>6, <2>7, FS_Injection DEF ExistsInjection
  <2> QED BY <2>5, <2>6, <2>8, OmsAssumption DEF SessionFits
<1> QED BY <1>2, <1>3 DEF Kept, RingShape

\* A step that ends no order and changes no quantity leaves the accounts alone.
LEMMA QuietAccounts ==
  ASSUME IInv, Kept, UNCHANGED <<seq, ids, recent, next>>,
         \A h \in Slots : /\ pool'[h] # NoOrder <=> pool[h] # NoOrder
                          /\ pool[h] # NoOrder => AccOf(pool'[h]) = AccOf(pool[h]) /\ pool'[h].pend = pool[h].pend
  PROVE  SameAccounts /\ Kept'
<1>1. \A l \in Ids : (IsOpen(l)' <=> IsOpen(l)) /\ (IsTerminal(l)' <=> IsTerminal(l)) /\ SlotOf(l)' = SlotOf(l)
  BY DEF IsOpen, IsTerminal, SlotOf, Ref
<1>2. \A l \in Ids : Account(l)' = Account(l)
  BY <1>1, LookupSound DEF Account, Live
<1>3. Kept'
  BY <1>1 DEF Kept, RingShape
<1> QED BY <1>2, <1>3 DEF SameAccounts

\* One open order changes (finish_update).
LEMMA UpdateAccounts ==
  ASSUME IInv, Kept, NEW h \in Slots, pool[h] # NoOrder, NEW o \in Order,
         o.id = pool[h].id, o.pend = pool[h].pend, Update(h, o)
  PROVE  Posted(o.id, AccOf(o)) /\ Kept'
<1>1. pool' = [pool EXCEPT ![h] = o] /\ UNCHANGED <<seq, ids, recent, next>>
  BY DEF Update
<1>2. pool'[h] = o /\ \A g \in Slots \ {h} : pool'[g] = pool[g]
  BY <1>1 DEF IInv, TypeOK
<1>3. \A l \in Ids : (IsOpen(l)' <=> IsOpen(l)) /\ (IsTerminal(l)' <=> IsTerminal(l)) /\ SlotOf(l)' = SlotOf(l)
  BY <1>1 DEF IsOpen, IsTerminal, SlotOf, Ref
<1>4. o.id \in Ids /\ IsOpen(o.id) /\ SlotOf(o.id) = h
  BY RefDistinct DEF IInv, TypeOK, Order, IdsSound, OpenOrdersAreNamed, IsOpen, SlotOf, Ref
<1>5. \A l \in Ids \ {o.id} : IsOpen(l) => SlotOf(l) \in Slots \ {h}
  BY NoReplace, LookupSound DEF IsOpen, SlotOf, Ref
<1>6. Account(o.id)' = AccOf(o)
  BY <1>2, <1>3, <1>4 DEF Account
<1>7. ASSUME NEW l \in Ids \ {o.id} PROVE Account(l)' = Account(l)
  BY <1>1, <1>2, <1>3, <1>5 DEF Account
<1>8. Kept'
  <2>1. \A g \in Slots : pool'[g] # NoOrder => pool'[g].pend = NoId
    BY <1>2 DEF Kept
  <2> QED BY <1>1, <1>3, <2>1 DEF Kept, RingShape
<1> QED BY <1>1, <1>6, <1>7, <1>8 DEF Posted

\* The record of an order that ends has the order's account.
LEMMA EndAccounts ==
  ASSUME IInv, Kept, SessionFits, NEW h \in Slots, pool[h] # NoOrder, NEW o \in Order,
         NEW st \in EndStates, NEW byRecon \in BOOLEAN,
         o.id = pool[h].id, o.pend = pool[h].pend, Terminate(h, o, st, byRecon)
  PROVE  Posted(o.id, AccOf(o)) /\ Kept'
<1> DEFINE r == RecordFor(o, st, byRecon)
<1>1. recent[next] = NoRecord /\ next \in RingSlots /\ \A p \in RingSlots : recent[p] # NoRecord <=> p < next
  BY RoomInRing DEF IInv, TypeOK
<1>2. o.pend = NoId
  BY DEF Kept
<1>3. r \in Record /\ r.id = o.id /\ AccOf(r) = AccOf(o)
  BY RecordForType DEF RecordFor, AccOf
<1> HIDE DEF r
<1>4. o.id \in Ids /\ ids \in [Ids -> Refs]
  BY DEF Order, IInv, TypeOK
<1>5. ids' = [ids EXCEPT ![o.id] = TermRef(next)]
  BY <1>1, <1>2, <1>3 DEF Terminate, Remembered, Unmapped, Full, DropPending, r
<1>6. /\ pool' = [pool EXCEPT ![h] = NoOrder] /\ seq' = seq
      /\ recent' = [recent EXCEPT ![next] = r] /\ next' = IF next = RingCap - 1 THEN 0 ELSE next + 1
  BY DEF Terminate, PushRecord, r
<1>7. /\ pool'[h] = NoOrder /\ \A g \in Slots \ {h} : pool'[g] = pool[g]
      /\ recent'[next] = r /\ \A p \in RingSlots \ {next} : recent'[p] = recent[p]
      /\ ids'[o.id] = TermRef(next) /\ \A l \in Ids \ {o.id} : ids'[l] = ids[l]
  BY <1>1, <1>4, <1>5, <1>6 DEF IInv, TypeOK
<1>8. IsTerminal(o.id)' /\ ~IsOpen(o.id)' /\ SlotOf(o.id)' = next
  BY <1>4, <1>7, RefDistinct DEF IsOpen, IsTerminal, SlotOf, Ref
<1>9. \A l \in Ids \ {o.id} : (IsOpen(l)' <=> IsOpen(l)) /\ (IsTerminal(l)' <=> IsTerminal(l))
                              /\ SlotOf(l)' = SlotOf(l)
  BY <1>7 DEF IsOpen, IsTerminal, SlotOf, Ref
<1>10. \A l \in Ids \ {o.id} : (IsOpen(l) => SlotOf(l) \in Slots \ {h})
                              /\ (IsTerminal(l) => SlotOf(l) \in RingSlots \ {next})
  BY <1>1, NoReplace, LookupSound DEF IsOpen, IsTerminal, SlotOf, Ref
<1>11. Account(o.id)' = AccOf(o)
  BY <1>3, <1>7, <1>8 DEF Account
<1>12. \A l \in Ids \ {o.id} : Account(l)' = Account(l)
  BY <1>7, <1>9, <1>10 DEF Account
<1>13. RingShape'
  <2>1. r # NoRecord /\ next \in Nat /\ RingCap \in Nat /\ \A p \in RingSlots : p \in Nat /\ p < RingCap
    BY <1>1, <1>3, NotFree, OmsAssumption DEF RingSlots
  <2>2. ASSUME NEW p \in RingSlots PROVE recent'[p] # NoRecord <=> p < next + 1
    <3>1. CASE p = next
      BY <1>7, <2>1, <3>1
    <3>2. CASE p # next
      <4>1. recent'[p] = recent[p] /\ (p < next <=> p < next + 1)
        BY <1>7, <2>1, <3>2
      <4> QED BY <1>1, <4>1
    <3> QED BY <3>1, <3>2
  <2>3. CASE next = RingCap - 1
    <3>1. \A p \in RingSlots : recent'[p] # NoRecord
      BY <2>1, <2>2, <2>3
    <3> QED BY <3>1 DEF RingShape
  <2>4. CASE next # RingCap - 1
    <3>1. next' = next + 1
      BY <1>6, <2>4
    <3> QED BY <2>2, <3>1 DEF RingShape
  <2> QED BY <2>3, <2>4
<1>14. \A g \in Slots : pool'[g] # NoOrder => pool'[g].pend = NoId
  BY <1>7 DEF Kept
<1>15. \A l \in Ids : l <= seq' => IsOpen(l)' \/ IsTerminal(l)'
  BY <1>6, <1>8, <1>9 DEF Kept
<1> QED BY <1>6, <1>11, <1>12, <1>13, <1>14, <1>15 DEF Posted, Kept

\* A late fill changes one record.
LEMMA LateAccounts ==
  ASSUME IInv, Kept, NEW l \in Ids, IsTerminal(l), NEW n \in Record,
         recent' = [recent EXCEPT ![SlotOf(l)] = n], UNCHANGED <<seq, pool, ids, next>>
  PROVE  Posted(l, AccOf(n)) /\ Kept'
<1> DEFINE p == SlotOf(l)
<1>1. p \in RingSlots /\ recent[p] # NoRecord /\ n # NoRecord /\ ~IsOpen(l)
  BY LookupSound, NotFree
<1>2. recent'[p] = n /\ \A q \in RingSlots \ {p} : recent'[q] = recent[q]
  BY <1>1 DEF IInv, TypeOK
<1>3. \A k \in Ids : (IsOpen(k)' <=> IsOpen(k)) /\ (IsTerminal(k)' <=> IsTerminal(k)) /\ SlotOf(k)' = SlotOf(k)
  BY DEF IsOpen, IsTerminal, SlotOf, Ref
<1>4. \A k \in Ids \ {l} : IsTerminal(k) => SlotOf(k) \in RingSlots \ {p}
  BY LookupSound DEF IInv, IdsSound, TerminalIdsNameTheirRecord, IsTerminal, SlotOf, Ref
<1> HIDE DEF p
<1>5. Account(l)' = AccOf(n)
  BY <1>1, <1>2, <1>3 DEF Account, p
<1>6. ASSUME NEW k \in Ids \ {l} PROVE Account(k)' = Account(k)
  BY <1>2, <1>3, <1>4 DEF Account
<1>7. RingShape'
  <2>1. \A q \in RingSlots : recent'[q] # NoRecord <=> recent[q] # NoRecord
    BY <1>1, <1>2
  <2> QED BY <2>1 DEF Kept, RingShape
<1> QED BY <1>3, <1>5, <1>6, <1>7 DEF Posted, Kept

\* A new order opens its account.
LEMMA SubmitAccounts ==
  ASSUME IInv, Kept, NEW h \in Slots, NEW s \in Sides, NEW px \in Prices, NEW q \in 1 .. MaxQty,
         Submit(h, s, px, q), NEW id, id = seq + 1
  PROVE  /\ seq' = id /\ id \in Ids /\ Kept' /\ seq \in Nat
         /\ Account(id)' = [qty |-> q, cum |-> 0, est |-> 0]
         /\ \A l \in Ids \ {id} : Account(l)' = Account(l)
<1> DEFINE n == [id |-> seq + 1, side |-> s, state |-> "PendingNew", px |-> px, qty |-> q, cum |-> 0,
                 pend |-> NoId, pendPx |-> 0, pendQty |-> 0, oldCanceled |-> FALSE, seen |-> FALSE,
                 attempts |-> 0, est |-> 0]
<1>2. id \in Ids /\ seq \in Nat
  BY OmsAssumption DEF Submit, IInv, TypeOK, Ids
<1>3. ids' = [ids EXCEPT ![id] = SlotRef(h)] /\ UNCHANGED <<recent, next>> /\ seq' = id
  BY DEF Submit
<1>4. PICK o : /\ pool' = [pool EXCEPT ![h] = o] /\ o.pend = NoId
               /\ AccOf(o) = [qty |-> q, cum |-> 0, est |-> 0]
  <2>1. n.pend = NoId /\ AccOf(n) = [qty |-> q, cum |-> 0, est |-> 0]
    BY DEF AccOf
  <2>2. pool' = [pool EXCEPT ![h] = n]
    BY DEF Submit
  <2> HIDE DEF n
  <2> QED BY <2>1, <2>2
<1>5. pool[h] = NoOrder
  BY DEF Submit
<1>6. /\ pool'[h] = o /\ \A g \in Slots \ {h} : pool'[g] = pool[g]
      /\ ids'[id] = SlotRef(h) /\ \A l \in Ids \ {id} : ids'[l] = ids[l]
  BY <1>2, <1>3, <1>4 DEF IInv, TypeOK
<1>7. IsOpen(id)' /\ SlotOf(id)' = h
  BY <1>2, <1>6, RefDistinct DEF IsOpen, SlotOf, Ref
<1>8. \A l \in Ids \ {id} : (IsOpen(l)' <=> IsOpen(l)) /\ (IsTerminal(l)' <=> IsTerminal(l))
                            /\ SlotOf(l)' = SlotOf(l)
  BY <1>6 DEF IsOpen, IsTerminal, SlotOf, Ref
<1>9. \A l \in Ids : IsOpen(l) => SlotOf(l) \in Slots \ {h}
  BY <1>5, LookupSound DEF Live
<1>10. Account(id)' = [qty |-> q, cum |-> 0, est |-> 0]
  BY <1>4, <1>6, <1>7 DEF Account
<1>11. \A l \in Ids \ {id} : Account(l)' = Account(l)
  BY <1>3, <1>6, <1>8, <1>9 DEF Account
<1>12. \A l \in Ids : l <= seq' => IsOpen(l)' \/ IsTerminal(l)'
  <2>1. \A l \in Ids : l <= id => l = id \/ l <= seq
    BY <1>2 DEF Ids
  <2> QED BY <1>3, <1>7, <1>8, <2>1 DEF Kept
<1>13. \A g \in Slots : pool'[g] # NoOrder => pool'[g].pend = NoId
  BY <1>4, <1>6 DEF Kept
<1>14. RingShape'
  BY <1>3 DEF Kept, RingShape
<1>15. Kept'
  BY <1>12, <1>13, <1>14 DEF Kept
<1> QED BY <1>2, <1>3, <1>10, <1>11, <1>15

-----------------------------------------------------------------------------
(***************************************************************************)
(* What the engine's handlers do to the accounts.                          *)
(***************************************************************************)

LEMMA PostedSame ==
  ASSUME NEW l \in Ids, Posted(l, Account(l))
  PROVE  SameAccounts
  BY DEF Posted, SameAccounts

LEMMA SameIgnored ==
  ASSUME Kept, Ignored
  PROVE  SameAccounts /\ Kept' /\ execs' = execs
<1>1. UNCHANGED vars
  BY DEF Ignored
<1>2. \A l \in Ids : Account(l)' = Account(l)
  BY <1>1 DEF vars, Account, IsOpen, IsTerminal, SlotOf, Ref
<1>3. Kept'
  BY <1>1 DEF vars, Kept, RingShape, IsOpen, IsTerminal, SlotOf, Ref
<1> QED BY <1>1, <1>2, <1>3 DEF vars, SameAccounts

\* An open order under its id.
LEMMA OpenOrder ==
  ASSUME IInv, Kept, NEW l \in Ids, IsOpen(l)
  PROVE  /\ SlotOf(l) \in Slots /\ pool[SlotOf(l)] \in Order /\ pool[SlotOf(l)] # NoOrder
         /\ pool[SlotOf(l)].id = l /\ Account(l) = AccOf(pool[SlotOf(l)])
<1>1. SlotOf(l) \in Slots /\ pool[SlotOf(l)] \in Order /\ pool[SlotOf(l)] # NoOrder
  BY LookupSound DEF Live
<1>2. pool[SlotOf(l)].id = l
  BY NoReplace DEF IsOpen, SlotOf, Ref
<1> QED BY <1>1, <1>2 DEF Account

\* An order that changes nothing but its state, and one that ends as it is.
LEMMA UpdateSame ==
  ASSUME IInv, Kept, NEW h \in Slots, pool[h] # NoOrder, NEW o \in Order,
         o.id = pool[h].id, o.pend = pool[h].pend, AccOf(o) = AccOf(pool[h]), Update(h, o)
  PROVE  SameAccounts /\ Kept'
<1>1. Posted(o.id, AccOf(o)) /\ Kept' /\ o.id \in Ids
  BY UpdateAccounts DEF Order
<1>2. Account(o.id) = AccOf(o)
  BY AccountFacts
<1> QED BY <1>1, <1>2, PostedSame

LEMMA EndSame ==
  ASSUME IInv, Kept, SessionFits, NEW h \in Slots, pool[h] # NoOrder, NEW st \in EndStates,
         NEW byRecon \in BOOLEAN, Terminate(h, pool[h], st, byRecon)
  PROVE  SameAccounts /\ Kept'
<1>1. PICK o : o = pool[h]
  OBVIOUS
<1>2. o \in Order /\ o.id \in Ids
  BY <1>1 DEF IInv, TypeOK, Order
<1>3. Posted(o.id, AccOf(o)) /\ Kept'
  BY <1>1, <1>2, EndAccounts
<1>4. Account(o.id) = AccOf(o)
  BY <1>1, AccountFacts
<1> QED BY <1>2, <1>3, <1>4, PostedSame

LEMMA AckSame ==
  ASSUME IInv, Kept, SessionFits, NEW l \in Ids,
         \/ OnAck(l, FALSE) \/ OnReject(l) \/ \E gone \in BOOLEAN : OnCancelReject(l, gone)
  PROVE  SameAccounts /\ Kept' /\ execs' = execs
<1> DEFINE h == SlotOf(l)
<1>1. ASSUME IsOpen(l) PROVE h \in Slots /\ pool[h] \in Order /\ pool[h] # NoOrder
  BY <1>1, OpenOrder
<1>2. \A o \in Order : \A s \in OpenStates :
        LET n == [o EXCEPT !.state = s]
        IN  n \in Order /\ n.id = o.id /\ n.pend = o.pend /\ AccOf(n) = AccOf(o)
  BY DEF Order, AccOf
<1>3. ASSUME OpenIn(l, "PendingNew"), Update(h, [pool[h] EXCEPT !.state = "Live"]), UNCHANGED execs
      PROVE  SameAccounts /\ Kept' /\ execs' = execs
  <2>1. h \in Slots /\ pool[h] \in Order /\ pool[h] # NoOrder
    BY <1>1, <1>3 DEF OpenIn
  <2>2. PICK n : n = [pool[h] EXCEPT !.state = "Live"]
    OBVIOUS
  <2>3. n \in Order /\ n.id = pool[h].id /\ n.pend = pool[h].pend /\ AccOf(n) = AccOf(pool[h])
    BY <1>2, <2>1, <2>2 DEF OpenStates
  <2>4. Update(h, n)
    BY <1>3, <2>2
  <2> HIDE DEF h
  <2> QED BY <1>3, <2>1, <2>3, <2>4, UpdateSame
<1>4. ASSUME IsOpen(l), NEW st \in EndStates, Terminate(h, pool[h], st, FALSE), UNCHANGED execs
      PROVE  SameAccounts /\ Kept' /\ execs' = execs
  BY <1>1, <1>4, EndSame
<1>5. ASSUME OpenIn(l, "PendingCancel"), UNCHANGED execs,
             Update(h, [pool[h] EXCEPT !.state = WorkState(pool[h]), !.attempts = NextAttempt(@)])
      PROVE  SameAccounts /\ Kept' /\ execs' = execs
  <2>1. h \in Slots /\ pool[h] \in Order /\ pool[h] # NoOrder
    BY <1>1, <1>5 DEF OpenIn
  <2>2. PICK n : n = [pool[h] EXCEPT !.state = WorkState(pool[h]), !.attempts = NextAttempt(@)]
    OBVIOUS
  <2>3. NextAttempt(pool[h].attempts) \in 0 .. AttemptMod - 1 /\ WorkState(pool[h]) \in OpenStates
    <3>1. pool[h].attempts \in 0 .. AttemptMod - 1
      BY <2>1 DEF Order
    <3> QED BY <3>1, OmsAssumption DEF NextAttempt, WorkState, OpenStates
  <2> HIDE DEF h
  <2>4. n \in Order /\ n.id = pool[h].id /\ n.pend = pool[h].pend /\ AccOf(n) = AccOf(pool[h])
    BY <2>1, <2>2, <2>3 DEF Order, AccOf
  <2>5. Update(h, n)
    BY <1>5, <2>2
  <2> QED BY <1>5, <2>1, <2>4, <2>5, UpdateSame
<1>6. ~OfReplace(l)
  BY NoReplace
<1>7. "Rejected" \in EndStates /\ "Canceled" \in EndStates
  BY DEF EndStates
<1>8. CASE OnAck(l, FALSE)
  BY <1>3, <1>6, <1>8, SameIgnored DEF OnAck
<1>9. CASE OnReject(l)
  BY <1>4, <1>6, <1>7, <1>9, SameIgnored DEF OnReject, OpenIn
<1>10. ASSUME NEW gone \in BOOLEAN, OnCancelReject(l, gone)
       PROVE  SameAccounts /\ Kept' /\ execs' = execs
  BY <1>4, <1>5, <1>7, <1>10, SameIgnored DEF OnCancelReject, OpenIn
<1> QED BY <1>8, <1>9, <1>10

LEMMA CancelSame ==
  ASSUME IInv, Kept, NEW h \in Slots, RequestCancel(h) \/ RequestCancelUnacked(h)
  PROVE  SameAccounts /\ Kept' /\ execs' = execs
<1>1. /\ pool' = [pool EXCEPT ![h].state = "PendingCancel"] /\ pool[h] # NoOrder
      /\ UNCHANGED <<seq, ids, recent, next, execs>>
  BY DEF RequestCancel, RequestCancelUnacked, Live
<1>2. pool[h] \in Order
  BY <1>1 DEF IInv, TypeOK
<1>3. PICK n : n = [pool[h] EXCEPT !.state = "PendingCancel"]
  OBVIOUS
<1>4. n \in Order /\ n # NoOrder /\ n.pend = pool[h].pend /\ AccOf(n) = AccOf(pool[h])
  BY <1>2, <1>3, NotFree DEF Order, OpenStates, AccOf
<1>5. pool'[h] = n /\ \A g \in Slots \ {h} : pool'[g] = pool[g]
  BY <1>1, <1>3 DEF IInv, TypeOK
<1>6. \A g \in Slots : /\ pool'[g] # NoOrder <=> pool[g] # NoOrder
                       /\ pool[g] # NoOrder => AccOf(pool'[g]) = AccOf(pool[g]) /\ pool'[g].pend = pool[g].pend
  BY <1>1, <1>4, <1>5
<1> QED BY <1>1, <1>6, QuietAccounts

LEMMA ReconcileSame ==
  ASSUME IInv, EndingOrdersAreUnseen, Kept, SessionFits,
         \/ \E sc \in Scopes : ReconcileBegin(sc)
         \/ ReconcileEnd
         \/ \E h \in Slots : EndUnseen(h)
  PROVE  SameAccounts /\ Kept' /\ execs' = execs
<1>1. ASSUME NEW sc \in Scopes, ReconcileBegin(sc) PROVE SameAccounts /\ Kept' /\ execs' = execs
  <2>1. \A o \in Order : LET n == [o EXCEPT !.seen = FALSE]
                         IN  n \in Order /\ n.pend = o.pend /\ AccOf(n) = AccOf(o)
    BY DEF Order, AccOf
  <2>2. \A h \in Slots : \/ pool[h] = NoOrder /\ pool'[h] = NoOrder
                         \/ pool[h] \in Order /\ pool'[h] = [pool[h] EXCEPT !.seen = FALSE]
    BY <1>1, NotFree DEF ReconcileBegin, Live, IInv, TypeOK
  <2>3. \A h \in Slots : /\ pool'[h] # NoOrder <=> pool[h] # NoOrder
                         /\ pool[h] # NoOrder => AccOf(pool'[h]) = AccOf(pool[h]) /\ pool'[h].pend = pool[h].pend
    BY <2>1, <2>2, NotFree
  <2>4. UNCHANGED <<seq, ids, recent, next, execs>>
    BY <1>1 DEF ReconcileBegin
  <2> QED BY <2>3, <2>4, QuietAccounts
<1>2. CASE ReconcileEnd
  <2>1. UNCHANGED <<seq, pool, ids, recent, next, execs>>
    BY <1>2 DEF ReconcileEnd
  <2> QED BY <2>1, QuietAccounts
<1>3. ASSUME NEW h \in Slots, EndUnseen(h) PROVE SameAccounts /\ Kept' /\ execs' = execs
  <2>1. pool[h] # NoOrder
    BY <1>3 DEF EndUnseen, EndingOrdersAreUnseen, Unseen, Live
  <2>2. Terminate(h, pool[h], "Canceled", TRUE) /\ execs' = execs /\ "Canceled" \in EndStates
    BY <1>3 DEF EndUnseen, EndStates
  <2> QED BY <2>1, <2>2, EndSame
<1> QED BY <1>1, <1>2, <1>3

\* A cumulative report books what it is ahead, as an estimate.
Absorbed(a, d) == [qty |-> a.qty, cum |-> a.cum + d, est |-> a.est + d]

LEMMA AbsorbFields ==
  ASSUME NEW o \in Order, NEW c \in Qty, NEW n, n = AbsorbCum(o, c), NEW d, d = MissedQty(o, c)
  PROVE  /\ n \in Order /\ n.id = o.id /\ n.pend = o.pend /\ n.state = o.state
         /\ d \in Nat /\ AccOf(n) = Absorbed(AccOf(o), d)
         /\ d = 0 \/ o.cum + d <= c
<1>1. PICK k : k = Least(c, o.qty)
  OBVIOUS
<1>2. o.cum \in Nat /\ o.qty \in Nat /\ o.est \in Nat /\ c \in Nat /\ k \in Nat /\ k <= c
  BY <1>1, OmsAssumption DEF Order, Qty, Least
<1>3. n \in Order
  BY AbsorbAlike
<1>4. d = n.cum - o.cum
  BY DEF MissedQty
<1>5. CASE k <= o.cum
  <2>1. n = o
    BY <1>1, <1>5 DEF AbsorbCum
  <2> QED BY <1>2, <1>3, <1>4, <2>1 DEF AccOf, Absorbed
<1>6. CASE ~(k <= o.cum)
  <2>1. n = [o EXCEPT !.cum = k, !.est = @ + (k - o.cum)]
    BY <1>1, <1>6 DEF AbsorbCum
  <2>2. n.id = o.id /\ n.pend = o.pend /\ n.state = o.state /\ n.qty = o.qty /\ n.cum = k
        /\ n.est = o.est + (k - o.cum)
    BY <2>1 DEF Order
  <2>3. n.cum = o.cum + d /\ n.est = o.est + d /\ d \in Nat /\ o.cum + d <= c
    BY <1>2, <1>4, <1>6, <2>2
  <2>4. AccOf(n) = Absorbed(AccOf(o), d)
    BY <2>2, <2>3 DEF AccOf, Absorbed
  <2> QED BY <1>3, <2>2, <2>3, <2>4
<1> QED BY <1>5, <1>6

LEMMA AbsorbPosts ==
  ASSUME IInv, Kept, SessionFits, NEW l \in Ids, NEW c \in Qty,
         OnCancelAck(l, c) \/ ReconcileOpenOrder(l, c), NEW d, d = Missed(l, c)
  PROVE  /\ d \in Nat /\ Posted(l, Absorbed(Account(l), d))
         /\ d = 0 \/ Account(l).cum + d <= c
         /\ Kept' /\ execs' = execs
<1> DEFINE h == SlotOf(l)
<1>1. CASE ~IsOpen(l)
  <2>1. Ignored /\ d = 0
    BY <1>1 DEF OnCancelAck, ReconcileOpenOrder, OfOldLeg, OpenIn, Missed
  <2>2. SameAccounts /\ Kept' /\ execs' = execs
    BY <2>1, SameIgnored
  <2>3. Account(l) \in Accounts
    BY AccountFacts
  <2>4. Absorbed(Account(l), d) = Account(l)
    BY <2>1, <2>3, OmsAssumption DEF Absorbed, Accounts, Qty
  <2> QED BY <2>1, <2>2, <2>4 DEF SameAccounts, Posted
<1>2. CASE IsOpen(l)
  <2>1. PICK o : o = pool[h]
    OBVIOUS
  <2>2. h \in Slots /\ o \in Order /\ o # NoOrder /\ o.id = l /\ Account(l) = AccOf(o)
    BY <1>2, <2>1, OpenOrder
  <2>3. PICK n : n = AbsorbCum(o, c)
    OBVIOUS
  <2>4. d = MissedQty(o, c)
    BY <1>2, <2>1 DEF Missed
  <2>5. /\ n \in Order /\ n.id = o.id /\ n.pend = o.pend /\ n.state = o.state
        /\ d \in Nat /\ AccOf(n) = Absorbed(AccOf(o), d)
        /\ d = 0 \/ o.cum + d <= c
    BY <2>2, <2>3, <2>4, AbsorbFields
  <2>6. AccOf(o).cum = o.cum
    BY DEF AccOf
  <2>7. SUFFICES Posted(l, AccOf(n)) /\ Kept' /\ execs' = execs
    BY <2>2, <2>5, <2>6
  <2>8. CASE OnCancelAck(l, c)
    <3>1. EndsAt(h, n, "Canceled")
      BY <1>2, <2>1, <2>3, <2>8, NoReplace DEF OnCancelAck
    <3>2. PICK st \in EndStates : Terminate(h, n, st, FALSE)
      BY <3>1 DEF EndsAt, EndStates
    <3> HIDE DEF h
    <3>3. Posted(n.id, AccOf(n)) /\ Kept'
      BY <2>1, <2>2, <2>5, <3>2, EndAccounts
    <3> QED BY <2>2, <2>5, <3>1, <3>3 DEF EndsAt
  <2>9. CASE ReconcileOpenOrder(l, c)
    <3>1. PICK w : w = [n EXCEPT !.seen = TRUE, !.state = IF @ = "PendingNew" THEN WorkState(n) ELSE @]
      OBVIOUS
    <3>2. Update(h, w) /\ execs' = execs
      BY <1>2, <2>1, <2>3, <2>9, <3>1 DEF ReconcileOpenOrder
    <3>3. PICK s : s = (IF n.state = "PendingNew" THEN WorkState(n) ELSE n.state)
      OBVIOUS
    <3>4. s \in OpenStates
      BY <2>5, <3>3 DEF Order, WorkState, OpenStates
    <3>5. w = [n EXCEPT !.seen = TRUE, !.state = s]
      BY <2>5, <3>1, <3>3 DEF Order
    <3>6. w \in Order /\ w.id = n.id /\ w.pend = n.pend /\ AccOf(w) = AccOf(n)
      BY <2>5, <3>4, <3>5 DEF Order, AccOf
    <3> HIDE DEF h
    <3>7. Posted(w.id, AccOf(w)) /\ Kept'
      BY <2>1, <2>2, <2>5, <3>2, <3>6, UpdateAccounts
    <3> QED BY <2>2, <2>5, <3>2, <3>6, <3>7
  <2> QED BY <2>8, <2>9
<1> QED BY <1>1, <1>2

\* The gauge is zero only when no account holds an estimate.
LEMMA NothingPending ==
  ASSUME IInv, PendingCountsEstimates, pending = 0, NEW l \in Ids
  PROVE  Account(l).est = 0
<1>1. /\ pending = Cardinality(OpenHolders(pool)) + Cardinality(EndedHolders(recent))
      /\ Cardinality(OpenHolders(pool)) \in Nat /\ Cardinality(EndedHolders(recent)) \in Nat
  BY HoldersType DEF PendingCountsEstimates, OpenHolders, EndedHolders
<1>2. Cardinality(OpenHolders(pool)) = 0 /\ Cardinality(EndedHolders(recent)) = 0
  BY <1>1
<1>3. IsFiniteSet(OpenHolders(pool)) /\ IsFiniteSet(EndedHolders(recent))
  <2>1. OpenHolders(pool) \in SUBSET Slots /\ EndedHolders(recent) \in SUBSET RingSlots
    BY DEF OpenHolders, EndedHolders
  <2> QED BY <2>1, FiniteSlots, FS_Subset
<1>4. OpenHolders(pool) = {} /\ EndedHolders(recent) = {}
  BY <1>2, <1>3, FS_EmptySet
<1>5. CASE IsOpen(l)
  <2>1. SlotOf(l) \in Slots /\ pool[SlotOf(l)] \in Order /\ pool[SlotOf(l)] # NoOrder
    BY <1>5, LookupSound DEF Live
  <2>2. pool[SlotOf(l)].est = 0
    BY <1>4, <2>1 DEF OpenHolders, Order
  <2> QED BY <1>5, <2>2 DEF Account, AccOf
<1>6. CASE IsTerminal(l)
  <2>1. SlotOf(l) \in RingSlots /\ recent[SlotOf(l)] \in Record /\ recent[SlotOf(l)] # NoRecord /\ ~IsOpen(l)
    BY <1>6, LookupSound
  <2>2. recent[SlotOf(l)].est = 0
    BY <1>4, <2>1 DEF EndedHolders, Record
  <2> QED BY <1>6, <2>1, <2>2 DEF Account, AccOf
<1>7. CASE ~IsOpen(l) /\ ~IsTerminal(l)
  BY <1>7 DEF Account, NoAcc
<1> QED BY <1>5, <1>6, <1>7

\* The part of an execution that corrects an estimate, by the account.
Corrects(a, m) ==
  IF m.replayed THEN Least(m.qty, a.est)
  ELSE Greatest(0, Least(Least(m.qty, a.cum - (m.cum - m.qty)), a.est))

LEMMA CorrectedByAccount ==
  ASSUME IInv, PendingCountsEstimates, NEW m \in Fills, m.id \in Ids, IsOpen(m.id) \/ IsTerminal(m.id),
         m.replayed \/ m.cum > 0, NEW a, a = Account(m.id)
  PROVE  CorrectedQty(m) = Corrects(a, m)
<1> DEFINE held == IF IsOpen(m.id) THEN pool[SlotOf(m.id)] ELSE RecordOf(m.id)
<1>1. a = AccOf(held) /\ a \in Accounts
  BY AccountFacts DEF Account, RecordOf, SlotOf
<1>2. held.est = a.est /\ held.cum = a.cum /\ a.est \in Nat /\ a.cum \in Nat
  <2> HIDE DEF held
  <2> QED BY <1>1, OmsAssumption DEF AccOf, Accounts, Qty
<1>3. m.qty \in Nat /\ m.cum \in Nat
  BY FillType
<1>4. CorrectedQty(m) = IF pending = 0 THEN 0
        ELSE IF ~m.replayed /\ m.cum > 0
        THEN Greatest(0, Least(Least(m.qty, held.cum - (m.cum - m.qty)), held.est))
        ELSE IF m.replayed \/ IsTerminal(m.id) THEN Least(m.qty, held.est) ELSE 0
  BY DEF CorrectedQty
<1> HIDE DEF held
<1>5. CASE pending # 0
  BY <1>2, <1>4, <1>5 DEF Corrects
<1>6. CASE pending = 0
  <2>1. a.est = 0
    BY <1>6, NothingPending
  <2> QED BY <1>2, <1>3, <1>4, <1>6, <2>1 DEF Corrects, Least, Greatest
<1> QED BY <1>5, <1>6

\* The account after an execution of which c corrects an estimate.
Counted(a, m, c) ==
  [qty |-> a.qty,
   cum |-> Greatest(a.cum, Least(a.qty, IF m.cum > 0 THEN m.cum ELSE a.cum + (m.qty - c))),
   est |-> a.est - c]

LEMMA FillPosts ==
  ASSUME IInv, Kept, SessionFits, NEW m \in Fills, NEW l, l = m.id, l \in Ids, IsOpen(l) \/ IsTerminal(l),
         OnFill(m), ~Duplicate(m), NEW c, c = CorrectedQty(m)
  PROVE  Posted(l, Counted(Account(l), m, c)) /\ Kept' /\ RememberExec(m)
<1>1. RememberExec(m) /\ ((IsOpen(l) /\ FillOpen(m)) \/ (IsTerminal(l) /\ FillLate(m)))
  <2>1. IsOpen(m.id) \/ IsTerminal(m.id)
    OBVIOUS
  <2>2. RememberExec(m) /\ ((IsOpen(m.id) /\ FillOpen(m)) \/ (IsTerminal(m.id) /\ FillLate(m)))
    BY <2>1, Zenon DEF OnFill
  <2> QED BY <2>2
<1>2. CASE IsOpen(l) /\ FillOpen(m)
  <2>1. PICK h : h = SlotOf(m.id)
    OBVIOUS
  <2>2. PICK p : p = pool[h]
    OBVIOUS
  <2>3. h \in Slots /\ p \in Order /\ p # NoOrder /\ p.id = l /\ Account(l) = AccOf(p)
    BY <1>2, <2>1, <2>2, OpenOrder
  <2>4. PICK k : k = FilledCum(p, m)
    OBVIOUS
  <2>5. k \in Qty /\ p.est - c \in Nat
    <3>1. k \in Qty
      BY <2>3, <2>4, FilledRange DEF Order
    <3>2. p.est - c \in Nat
      BY <1>2, <2>1, <2>2, <2>3, CorrectedRange DEF Order
    <3> QED BY <3>1, <3>2
  <2>6. PICK o : o = [p EXCEPT !.cum = k, !.est = @ - c]
    OBVIOUS
  <2>7. o \in Order /\ o.id = l /\ o.pend = p.pend /\ o.qty = p.qty /\ o.cum = k /\ o.est = p.est - c
    BY <2>3, <2>5, <2>6 DEF Order
  <2>8. AccOf(o) = Counted(Account(l), m, c)
    <3>1. AccOf(p).qty = p.qty /\ AccOf(p).cum = p.cum /\ AccOf(p).est = p.est
      BY DEF AccOf
    <3>2. k = Greatest(p.cum, Least(p.qty, IF m.cum > 0 THEN m.cum ELSE p.cum + (m.qty - c)))
      BY <2>4 DEF FilledCum
    <3> QED BY <2>3, <2>7, <3>1, <3>2 DEF AccOf, Counted
  <2>9. \/ Terminate(h, o, "Filled", FALSE)
        \/ Update(h, [o EXCEPT !.state = IF @ \in {"Live", "PendingNew"} THEN "PartiallyFilled" ELSE @])
    BY <1>2, <2>1, <2>2, <2>4, <2>6 DEF FillOpen
  <2>10. CASE Terminate(h, o, "Filled", FALSE)
    <3>1. "Filled" \in EndStates /\ FALSE \in BOOLEAN
      BY DEF EndStates
    <3>2. Posted(o.id, AccOf(o)) /\ Kept'
      BY <2>2, <2>3, <2>7, <2>10, <3>1, EndAccounts
    <3> QED BY <1>1, <2>7, <2>8, <3>2
  <2>11. CASE Update(h, [o EXCEPT !.state = IF @ \in {"Live", "PendingNew"} THEN "PartiallyFilled" ELSE @])
    <3>1. PICK w : w = [o EXCEPT !.state = IF @ \in {"Live", "PendingNew"} THEN "PartiallyFilled" ELSE @]
      OBVIOUS
    <3>2. w \in Order /\ w.id = o.id /\ w.pend = o.pend /\ AccOf(w) = AccOf(o)
      BY <2>7, <3>1 DEF Order, OpenStates, AccOf
    <3>3. Posted(w.id, AccOf(w)) /\ Kept'
      BY <2>2, <2>3, <2>7, <2>11, <3>1, <3>2, UpdateAccounts
    <3> QED BY <1>1, <2>7, <2>8, <3>2, <3>3
  <2> QED BY <2>9, <2>10, <2>11
<1>3. CASE IsTerminal(l) /\ FillLate(m)
  <2>1. PICK p : p = SlotOf(l)
    OBVIOUS
  <2>2. PICK r : r = recent[p]
    OBVIOUS
  <2>3. p \in RingSlots /\ r \in Record /\ ~IsOpen(l) /\ Account(l) = AccOf(r)
    BY <1>3, <2>1, <2>2, LookupSound DEF Account
  <2>4. PICK k : k = FilledCum(r, m)
    OBVIOUS
  <2>5. PICK st : st = IF k > r.cum /\ k >= r.qty /\ r.state \in {"Canceled", "Expired"}
                       THEN "Filled" ELSE r.state
    OBVIOUS
  <2>6. k \in Qty /\ r.est - c \in Nat /\ st \in EndStates
    <3>1. k \in Qty
      BY <2>3, <2>4, FilledRange DEF Record
    <3>2. r.est - c \in Nat
      BY <1>3, <2>1, <2>2, <2>3, CorrectedRange DEF Record
    <3>3. st \in EndStates
      BY <2>3, <2>5 DEF Record, EndStates
    <3> QED BY <3>1, <3>2, <3>3
  <2>7. PICK n : n = [r EXCEPT !.est = r.est - c, !.cum = k, !.state = st]
    OBVIOUS
  <2>8. n \in Record /\ n.qty = r.qty /\ n.cum = k /\ n.est = r.est - c
    BY <2>3, <2>6, <2>7 DEF Record
  <2>9. recent' = [recent EXCEPT ![p] = n] /\ UNCHANGED <<seq, pool, ids, next>>
    <3>1. recent' = [recent EXCEPT ![p] = [r EXCEPT !.est = r.est - c, !.cum = k, !.state = st]]
      BY <1>3, <2>1, <2>2, <2>3, <2>4, <2>5 DEF FillLate, IInv, TypeOK, Record
    <3> QED BY <1>3, <2>7, <3>1 DEF FillLate
  <2>10. AccOf(n) = Counted(Account(l), m, c)
    <3>1. AccOf(r).qty = r.qty /\ AccOf(r).cum = r.cum /\ AccOf(r).est = r.est
      BY DEF AccOf
    <3>2. k = Greatest(r.cum, Least(r.qty, IF m.cum > 0 THEN m.cum ELSE r.cum + (m.qty - c)))
      BY <2>4 DEF FilledCum
    <3> QED BY <2>3, <2>8, <3>1, <3>2 DEF AccOf, Counted
  <2>11. Posted(l, AccOf(n)) /\ Kept'
    BY <1>3, <2>1, <2>8, <2>9, LateAccounts
  <2> QED BY <1>1, <2>10, <2>11
<1> QED BY <1>1, <1>2, <1>3

-----------------------------------------------------------------------------
(***************************************************************************)
(* The executions of an order.                                             *)
(***************************************************************************)

LEMMA LinkFacts ==
  ASSUME trades \in Seq(Trades), NEW l
  PROVE  /\ IsFiniteSet(TradeIds) /\ Len(trades) \in Nat /\ DOMAIN LinkQty(l) = TradeIds
         /\ \A i \in TradeIds : /\ LinkQty(l)[i] = IF trades[i].link = l THEN trades[i].qty ELSE 0
                                /\ LinkQty(l)[i] \in Nat
                                /\ trades[i] \in Trades /\ trades[i].qty \in 1 .. MaxQty
<1>1. Len(trades) \in Nat /\ IsFiniteSet(TradeIds)
  BY FS_Interval DEF TradeIds
<1>2. \A i \in TradeIds : trades[i] \in Trades
  BY DEF TradeIds
<1>3. \A i \in TradeIds : trades[i].qty \in 1 .. MaxQty
  BY <1>2 DEF Trades
<1>4. \A i \in TradeIds : trades[i].qty \in Nat
  BY <1>3, OmsAssumption
<1> QED BY <1>1, <1>2, <1>3, <1>4 DEF LinkQty

\* A part of the executions of an order is no more than all of them.
LEMMA LinkParts ==
  ASSUME trades \in Seq(Trades), NEW l, NEW R, R \subseteq TradeIds, NEW S, S \subseteq R
  PROVE  /\ Summable(LinkQty(l), S) /\ Sum(LinkQty(l), S) \in Nat
         /\ Summable(LinkQty(l), R) /\ Sum(LinkQty(l), R) \in Nat
         /\ Sum(LinkQty(l), S) <= Sum(LinkQty(l), R)
<1>1. PICK v : v = LinkQty(l)
  OBVIOUS
<1>2. IsFiniteSet(R) /\ \A i \in R : v[i] \in Nat
  BY <1>1, LinkFacts, FS_Subset
<1>3. Summable(v, S) /\ Summable(v, R) /\ Sum(v, S) \in Nat /\ Sum(v, R) \in Nat /\ Sum(v, S) <= Sum(v, R)
  BY <1>2, SumPart
<1> QED BY <1>1, <1>3

LEMMA UpToFacts ==
  ASSUME trades \in Seq(Trades), NEW l, NEW i \in 0 .. Len(trades)
  PROVE  UpTo(l, i) \in Nat /\ UpTo(l, i) <= UpTo(l, Len(trades))
<1>1. Len(trades) \in Nat
  BY LinkFacts
<1>2. 1 .. i \subseteq 1 .. Len(trades) /\ 1 .. Len(trades) \subseteq TradeIds
  BY <1>1 DEF TradeIds
<1>3. PICK R : R = 1 .. Len(trades)
  OBVIOUS
<1>4. PICK S : S = 1 .. i
  OBVIOUS
<1>5. Sum(LinkQty(l), S) \in Nat /\ Sum(LinkQty(l), S) <= Sum(LinkQty(l), R)
  BY <1>2, <1>3, <1>4, LinkParts
<1> QED BY <1>3, <1>4, <1>5 DEF UpTo

\* What is booked by name of an order, before and after one more execution is.
LEMMA NamedFacts ==
  ASSUME trades \in Seq(Trades), Range(execs) \subseteq TradeIds, NEW l
  PROVE  /\ Named(l) \in Nat /\ Named(l) <= UpTo(l, Len(trades))
         /\ \A i \in TradeIds \ Range(execs) :
              /\ Sum(LinkQty(l), Range(execs) \cup {i}) = Named(l) + LinkQty(l)[i]
              /\ Named(l) + LinkQty(l)[i] <= UpTo(l, Len(trades))
              /\ (\A j \in Range(execs) : j < i) => Named(l) + LinkQty(l)[i] <= UpTo(l, i)
<1>1. PICK S : S = Range(execs)
  OBVIOUS
<1>2. PICK v : v = LinkQty(l)
  OBVIOUS
<1>3. PICK R : R = 1 .. Len(trades)
  OBVIOUS
<1>4. R = TradeIds /\ Len(trades) \in Nat
  BY <1>3, LinkFacts DEF TradeIds
<1>5. Summable(v, S) /\ Sum(v, S) \in Nat /\ Sum(v, S) <= Sum(v, R)
  BY <1>1, <1>2, <1>4, LinkParts
<1>6. Named(l) = Sum(v, S) /\ UpTo(l, Len(trades)) = Sum(v, R)
  BY <1>1, <1>2, <1>3 DEF Named, UpTo
<1>7. ASSUME NEW i \in TradeIds \ S
      PROVE  /\ Sum(v, S \cup {i}) = Sum(v, S) + v[i]
             /\ Sum(v, S) + v[i] <= Sum(v, R)
             /\ (\A j \in S : j < i) => Sum(v, S) + v[i] <= Sum(v, 1 .. i)
  <2>1. v[i] \in Int
    BY <1>2, LinkFacts
  <2>2. Sum(v, S \cup {i}) = Sum(v, S) + v[i]
    BY <1>5, <2>1, SumAdd
  <2>3. S \cup {i} \subseteq R
    BY <1>1, <1>4
  <2>4. Sum(v, S \cup {i}) <= Sum(v, R)
    BY <1>2, <1>4, <2>3, LinkParts
  <2>5. ASSUME \A j \in S : j < i PROVE Sum(v, S \cup {i}) <= Sum(v, 1 .. i)
    <3>1. PICK T : T = 1 .. i
      OBVIOUS
    <3>2. T \subseteq TradeIds /\ S \cup {i} \subseteq T
      BY <1>1, <1>4, <2>5, <3>1 DEF TradeIds
    <3>3. Sum(v, S \cup {i}) <= Sum(v, T)
      BY <1>2, <3>2, LinkParts
    <3> QED BY <3>1, <3>3
  <2> QED BY <2>2, <2>4, <2>5
<1> QED BY <1>1, <1>2, <1>5, <1>6, <1>7 DEF UpTo

\* A session's executions fit the memory of execution ids.
LEMMA ExecutionsFit ==
  ASSUME SessionFits, AtVenue, Totals
  PROVE  /\ Len(trades) \in Nat /\ Executed \in Nat /\ Len(trades) <= MaxSeq * MaxQty
         /\ TradeIds \subseteq Execs /\ Len(trades) <= ExecCap
<1>1. Len(trades) \in Nat
  BY LinkFacts DEF AtVenue
<1>2. MaxSeq \in Nat /\ MaxQty \in Nat /\ MaxSeq * MaxQty \in Nat /\ ExecCap \in Nat
  BY OmsAssumption
<1>3. PICK v : v = Filled
  OBVIOUS
<1>4. \A i \in 1 .. MaxSeq : v[i] \in Nat /\ v[i] <= MaxQty
  <2>1. \A i \in Ids : orders[i].cum \in Qty
    BY DEF AtVenue, VenueOrders
  <2> QED BY <1>3, <2>1, OmsAssumption DEF Filled, Ids, Qty
<1>5. Sum(v, 1 .. MaxSeq) <= MaxSeq * MaxQty
  BY <1>2, <1>4, SumBound
<1>6. Sum(v, 1 .. MaxSeq) \in Nat
  <2>1. PICK T : T = 1 .. MaxSeq
    OBVIOUS
  <2>2. IsFiniteSet(T) /\ \A i \in T : v[i] \in Nat
    BY <1>2, <1>4, <2>1, FS_Interval
  <2>3. Sum(v, T) \in Nat
    BY <2>2, SumPart
  <2> QED BY <2>1, <2>3
<1>7. Executed = Sum(v, 1 .. MaxSeq)
  BY <1>3 DEF Totals, Ids
<1>8. Len(trades) <= MaxSeq * MaxQty
  BY <1>1, <1>2, <1>5, <1>6, <1>7 DEF Totals
<1>9. TradeIds \subseteq 1 .. MaxSeq * MaxQty
  BY <1>1, <1>2, <1>8 DEF TradeIds
<1> QED BY <1>1, <1>2, <1>6, <1>7, <1>8, <1>9 DEF SessionFits

-----------------------------------------------------------------------------
(***************************************************************************)
(* The bookings.                                                           *)
(***************************************************************************)

Bookings == Remembers /\ Covered /\ Totals

LEMMA BookedType ==
  ASSUME IInv, trades \in Seq(Trades), Range(execs) \subseteq TradeIds
  PROVE  /\ \A l \in Ids : BookedOf(l) \in Nat /\ Account(l).est \in Nat /\ Account(l).cum \in Nat
                           /\ Account(l).qty \in Nat
         /\ Summable(Booked, Ids) /\ IsFiniteSet(Ids)
<1>1. \A l \in Ids : Account(l) \in Accounts
  BY AccountFacts
<1>2. \A l \in Ids : Account(l).est \in Nat /\ Account(l).cum \in Nat /\ Account(l).qty \in Nat
  BY <1>1, OmsAssumption DEF Accounts, Qty
<1>3. \A l \in Ids : BookedOf(l) \in Nat
  BY <1>2, NamedFacts DEF BookedOf
<1>4. IsFiniteSet(Ids)
  BY FS_Interval, OmsAssumption DEF Ids
<1> QED BY <1>2, <1>3, <1>4 DEF Summable, Booked

BookedSound == \A l \in Ids : BookedOf(l) \in Nat
ExecsTraded == trades \in Seq(Trades) /\ Range(execs) \subseteq TradeIds

LEMMA BookedAlways == IInv /\ ExecsTraded => BookedSound
  BY BookedType DEF BookedSound, ExecsTraded

LEMMA ExecutedIsSum == Executed = QtySum(trades, TradeIds)
  BY Zenon DEF Executed, QtySum

LEMMA SameTrades ==
  ASSUME UNCHANGED trades
  PROVE  TradeIds' = TradeIds /\ Executed' = Executed
<1>1. TradeIds' = TradeIds
  BY DEF TradeIds
<1>2. (Executed = QtySum(trades, TradeIds))'
  BY ExecutedIsSum, PTL
<1> QED BY <1>1, <1>2, ExecutedIsSum

LEMMA SameBookings ==
  ASSUME Bookings, SameAccounts, UNCHANGED <<execs, booked, orders, trades>>
  PROVE  Bookings'
<1>1. \A l \in Ids : BookedOf(l)' = BookedOf(l)
  BY DEF BookedOf, Named, LinkQty, TradeIds, SameAccounts
<1>2. Booked' = Booked /\ Filled' = Filled /\ Executed' = Executed /\ TradeIds' = TradeIds
  BY <1>1, SameTrades DEF Booked, Filled
<1>3. Remembers'
  BY <1>2 DEF Bookings, Remembers
<1>4. Covered'
  BY <1>1 DEF Bookings, Covered, SameAccounts
<1>5. Totals'
  <2>1. Sum(Booked, Ids)' = Sum(Booked, Ids) /\ Sum(Filled, Ids)' = Sum(Filled, Ids)
    BY <1>2
  <2> QED BY <1>2, <2>1 DEF Bookings, Totals
<1> QED BY <1>3, <1>4, <1>5 DEF Bookings

\* The engine books on one order what that order's account changes by.
LEMMA PostedBookings ==
  ASSUME IInv, IInv', AtVenue, Bookings, NEW l \in Ids, NEW a, Posted(l, a),
         UNCHANGED <<orders, trades>>, Remembers',
         \A k \in Ids \ {l} : Named(k)' = Named(k),
         BookedOf(l)' <= orders[l].cum, BookedOf(l)' <= a.cum,
         booked' = booked + (BookedOf(l)' - BookedOf(l))
  PROVE  Bookings'
<1>1. /\ trades' \in Seq(Trades) /\ trades \in Seq(Trades) /\ Range(execs') \subseteq TradeIds'
      /\ Range(execs) \subseteq TradeIds
  BY DEF AtVenue, Remembers, Bookings
<1>2. (\A k \in Ids : BookedOf(k) \in Nat /\ BookedOf(k)' \in Nat) /\ Summable(Booked, Ids)
  <2>1. (\A k \in Ids : BookedOf(k) \in Nat) /\ Summable(Booked, Ids)
    BY <1>1, BookedType
  <2>2. \A k \in Ids : BookedOf(k)' \in Nat
    <3>1. ExecsTraded'
      BY <1>1 DEF ExecsTraded
    <3>2. BookedSound'
      BY <3>1, BookedAlways, PTL
    <3> QED BY <3>2 DEF BookedSound
  <2> QED BY <2>1, <2>2
<1>3. \A k \in Ids \ {l} : Account(k)' = Account(k) /\ BookedOf(k)' = BookedOf(k)
  BY DEF Posted, BookedOf
<1>4. Covered'
  <2>1. ASSUME NEW k \in Ids PROVE BookedOf(k)' <= orders'[k].cum /\ BookedOf(k)' <= Account(k)'.cum
    <3>1. CASE k = l
      BY <3>1 DEF Posted
    <3>2. CASE k # l
      BY <1>3, <3>2 DEF Bookings, Covered
    <3> QED BY <3>1, <3>2
  <2> QED BY <2>1 DEF Covered
<1>5. Totals'
  <2>1. PICK v : v = Booked
    OBVIOUS
  <2>2. PICK w : w = Booked'
    OBVIOUS
  <2>3. w[l] = BookedOf(l)' /\ v[l] = BookedOf(l) /\ \A k \in Ids \ {l} : w[k] = v[k]
    BY <1>3, <2>1, <2>2 DEF Booked
  <2>4. Sum(w, Ids) = Sum(v, Ids) - v[l] + w[l] /\ Sum(v, Ids) \in Int
    <3>1. w[l] \in Int /\ Summable(v, Ids)
      BY <1>2, <2>1, <2>3
    <3>2. Changed(v, w, Ids, l)
      BY <2>3, <3>1, SumChanged
    <3> QED BY <3>2 DEF Changed
  <2>5. booked = Sum(v, Ids)
    BY <2>1 DEF Bookings, Totals
  <2>6. booked' = Sum(w, Ids)
    BY <1>2, <2>3, <2>4, <2>5
  <2>7. Filled' = Filled /\ Executed' = Executed
    BY SameTrades DEF Filled
  <2>8. Sum(Filled, Ids)' = Sum(Filled, Ids) /\ Sum(Booked, Ids)' = Sum(w, Ids)
    BY <2>2, <2>7
  <2> QED BY <2>6, <2>7, <2>8 DEF Bookings, Totals
<1> QED BY <1>4, <1>5 DEF Bookings

LEMMA SameNamed ==
  ASSUME UNCHANGED <<execs, trades>>
  PROVE  TradeIds' = TradeIds /\ Executed' = Executed /\ \A k \in Ids : Named(k)' = Named(k)
  BY SameTrades DEF Named, LinkQty

\* An estimate of what the venue reports ahead of its executions.
LEMMA AbsorbBookings ==
  ASSUME IInv, IInv', Kept, SessionFits, AtVenue, Bookings, UNCHANGED <<orders, trades>>,
         NEW l \in Ids, NEW c \in Qty, c <= orders[l].cum,
         OnCancelAck(l, c) \/ ReconcileOpenOrder(l, c), Book(Missed(l, c))
  PROVE  /\ Bookings' /\ Kept' /\ execs' = execs /\ seq' = seq
         /\ \A k \in Ids : Account(k)'.qty = Account(k).qty
<1>1. PICK d : d = Missed(l, c)
  OBVIOUS
<1>2. PICK a : a = Absorbed(Account(l), d)
  OBVIOUS
<1>3. d \in Nat /\ Posted(l, a) /\ (d = 0 \/ Account(l).cum + d <= c) /\ Kept' /\ execs' = execs
  BY <1>1, <1>2, AbsorbPosts
<1>4. TradeIds' = TradeIds /\ \A k \in Ids : Named(k)' = Named(k)
  BY <1>3, SameNamed
<1>5. a.qty = Account(l).qty /\ a.cum = Account(l).cum + d /\ a.est = Account(l).est + d
  BY <1>2 DEF Absorbed
<1>6. /\ BookedOf(l) \in Nat /\ Account(l).est \in Nat /\ Account(l).cum \in Nat /\ Named(l) \in Nat
      /\ orders[l].cum \in Nat /\ c \in Nat
  <2>1. orders[l].cum \in Qty
    BY DEF AtVenue, VenueOrders
  <2> QED BY <2>1, BookedType, NamedFacts, OmsAssumption DEF AtVenue, Bookings, Remembers, Qty
<1>7. BookedOf(l) = Named(l) + Account(l).est /\ BookedOf(l)' = Named(l) + a.est
  BY <1>3, <1>4 DEF BookedOf, Posted
<1>8. BookedOf(l)' = BookedOf(l) + d
  BY <1>3, <1>5, <1>6, <1>7
<1>9. BookedOf(l) <= orders[l].cum /\ BookedOf(l) <= Account(l).cum
  BY DEF Bookings, Covered
<1>10. BookedOf(l)' <= orders[l].cum /\ BookedOf(l)' <= a.cum
  BY <1>3, <1>5, <1>6, <1>8, <1>9
<1>11. booked' = booked + (BookedOf(l)' - BookedOf(l))
  BY <1>1, <1>3, <1>6, <1>8 DEF Book
<1>12. Remembers'
  BY <1>3, <1>4 DEF Bookings, Remembers
<1>13. Bookings'
  BY <1>3, <1>4, <1>10, <1>11, <1>12, PostedBookings
<1> QED BY <1>3, <1>5, <1>13 DEF Posted

\* What the account and the venue count covers an execution on top of what is booked, once the part
\* that an estimate booked is taken out.
LEMMA FillArithmetic ==
  ASSUME NEW n \in Nat, NEW a \in Accounts, NEW x \in Nat, NEW m, m.qty \in Nat, m.cum \in Nat,
         n + a.est <= x, n + a.est <= a.cum, n + m.qty <= x, x <= a.qty,
         m.replayed => m.cum = 0, ~m.replayed => m.cum > 0 /\ n + m.qty <= m.cum /\ m.cum <= x,
         NEW c, c = Corrects(a, m)
  PROVE  /\ c \in Nat /\ c <= m.qty
         /\ n + m.qty + (a.est - c) <= x /\ n + m.qty + (a.est - c) <= Counted(a, m, c).cum
<1>1. PICK q, k, e, u, t : q = m.qty /\ k = m.cum /\ e = a.est /\ u = a.cum /\ t = a.qty
  OBVIOUS
<1>2. q \in Nat /\ k \in Nat /\ e \in Nat /\ u \in Nat /\ t \in Nat
  BY <1>1, OmsAssumption DEF Accounts, Qty
<1>3. PICK z : z = Counted(a, m, c).cum
  OBVIOUS
<1>4. z = Greatest(u, Least(t, IF k > 0 THEN k ELSE u + (q - c)))
  BY <1>1, <1>3 DEF Counted
<1>5. CASE m.replayed
  <2>1. c = Least(q, e) /\ k = 0
    BY <1>1, <1>5 DEF Corrects
  <2>2. n + e <= x /\ n + e <= u /\ n + q <= x /\ x <= t
    BY <1>1
  <2>3. c \in Nat /\ c <= q /\ n + q + (e - c) <= x /\ n + q + (e - c) <= z
    BY <1>2, <1>4, <2>1, <2>2 DEF Least, Greatest
  <2> QED BY <1>1, <1>3, <2>3
<1>6. CASE ~m.replayed
  <2>1. c = Greatest(0, Least(Least(q, u - (k - q)), e))
    BY <1>1, <1>6 DEF Corrects
  <2>2. n + e <= x /\ n + e <= u /\ n + q <= x /\ x <= t /\ k > 0 /\ n + q <= k /\ k <= x
    BY <1>1, <1>6
  <2>3. c \in Nat /\ c <= q /\ n + q + (e - c) <= x /\ n + q + (e - c) <= z
    BY <1>2, <1>4, <2>1, <2>2 DEF Least, Greatest
  <2> QED BY <1>1, <1>3, <2>3
<1> QED BY <1>5, <1>6

\* A live execution comes after all those booked.
ComesLast(f) == ~f.replayed => f.exec \in Range(execs) \/ \A j \in Range(execs) : j < f.exec

LEMMA DuplicateIs ==
  ASSUME NEW f, f.exec # NoExec
  PROVE  Duplicate(f) <=> f.exec \in Range(execs)
  BY DEF Duplicate, Range

\* The order of an execution, which the table knows.
LEMMA OrderOfExecution ==
  ASSUME Kept, AtVenue, NEW i \in TradeIds, NEW l, trades[i].link = l
  PROVE  /\ l \in Ids /\ (IsOpen(l) \/ IsTerminal(l)) /\ l <= seq
         /\ orders[l].qty = Account(l).qty /\ orders[l].cum <= orders[l].qty
         /\ orders[l].cum = UpTo(l, Len(trades)) /\ orders[l].cum \in Nat
<1>1. l \in Ids /\ LinkQty(l)[i] = trades[i].qty /\ trades[i].qty \in 1 .. MaxQty
  BY LinkFacts DEF AtVenue, Trades
<1>2. OrderAt(l) /\ orders[l] \in VenueOrders
  BY <1>1 DEF AtVenue
<1>3. orders[l].cum > 0
  <2>1. PICK v : v = LinkQty(l)
    OBVIOUS
  <2>2. v[i] \in Nat /\ v[i] > 0 /\ i \in 1 .. Len(trades) /\ Len(trades) \in Nat
    BY <1>1, <2>1, LinkFacts, OmsAssumption DEF AtVenue, TradeIds
  <2>3. PICK S : S = {i}
    OBVIOUS
  <2>4. S \subseteq TradeIds /\ {} \subseteq TradeIds /\ TradeIds = 1 .. Len(trades)
    BY <2>3 DEF TradeIds
  <2>5. Sum(v, S) <= Sum(v, TradeIds) /\ Sum(v, TradeIds) \in Nat /\ Sum(v, S) \in Nat
    BY <2>1, <2>4, LinkParts DEF AtVenue
  <2>6. Sum(v, {}) = 0 /\ Summable(v, {})
    BY <2>1, <2>4, SumEmpty, LinkParts DEF AtVenue
  <2>7. Sum(v, {} \cup {i}) = Sum(v, {}) + v[i]
    <3>1. PICK E : E = {}
      OBVIOUS
    <3>2. Summable(v, E) /\ i \notin E /\ v[i] \in Int
      BY <2>2, <2>6, <3>1
    <3>3. Sum(v, E \cup {i}) = Sum(v, E) + v[i]
      BY <3>2, SumAdd
    <3> QED BY <3>1, <3>3
  <2>8. S = {} \cup {i}
    BY <2>3
  <2>9. Sum(v, S) = v[i]
    BY <2>2, <2>6, <2>7, <2>8
  <2>10. orders[l].cum = Sum(v, TradeIds)
    BY <1>2, <2>1, <2>4 DEF OrderAt, UpTo
  <2> QED BY <2>2, <2>5, <2>9, <2>10
<1>4. orders[l].st # "None"
  BY <1>2, <1>3 DEF OrderAt, NoVenueOrder
<1>5. l <= seq /\ (IsOpen(l) \/ IsTerminal(l))
  BY <1>1, <1>2, <1>4 DEF OrderAt, Kept
<1>6. orders[l].cum \in Nat
  BY <1>2, OmsAssumption DEF VenueOrders, Qty
<1> QED BY <1>1, <1>2, <1>4, <1>5, <1>6 DEF OrderAt

\* The engine handles an execution.
LEMMA FillBookings ==
  ASSUME TableInv, IInv', SessionFits, AtVenue, Bookings, UNCHANGED <<orders, trades>>,
         NEW f \in Fills, IsExecution(f), ComesLast(f), OnFill(f), Book(Fresh(f))
  PROVE  /\ Bookings' /\ Kept' /\ seq' = seq /\ Range(execs') = Range(execs) \cup {f.exec}
         /\ \A k \in Ids : Account(k)'.qty = Account(k).qty
<1>1. PICK l, i, q : l = f.id /\ i = f.exec /\ q = f.qty
  OBVIOUS
<1>2. /\ IInv /\ Kept /\ PendingCountsEstimates /\ trades \in Seq(Trades) /\ Range(execs) \subseteq TradeIds
      /\ Remembers /\ Covered /\ Totals
  BY DEF TableInv, AtVenue, Bookings, Remembers
<1>3. i \in TradeIds /\ trades[i].link = l /\ trades[i].qty = q
  BY <1>1 DEF IsExecution, Execution
<1>4. /\ TradeIds \subseteq Execs /\ Len(trades) <= ExecCap /\ Len(trades) \in Nat
  BY <1>2, ExecutionsFit
<1>5. f.exec # NoExec
  BY <1>1, <1>3, <1>4, OmsAssumption
<1>6. CASE Duplicate(f)
  <2>1. Ignored /\ Fresh(f) = 0
    BY <1>6 DEF OnFill, Fresh
  <2>2. SameAccounts /\ Kept' /\ execs' = execs
    BY <1>2, <2>1, SameIgnored
  <2>3. booked \in Int
    <3>1. Sum(Booked, Ids) \in Int
      <4>1. Summable(Booked, Ids)
        BY <1>2, BookedType
      <4> QED BY <4>1, SumType
    <3> QED BY <1>2, <3>1 DEF Totals
  <2>4. booked' = booked
    BY <2>1, <2>3 DEF Book
  <2>5. Bookings'
    BY <2>2, <2>4, SameBookings
  <2>6. f.exec \in Range(execs)
    BY <1>5, <1>6, DuplicateIs
  <2> QED BY <2>2, <2>5, <2>6 DEF SameAccounts
<1>7. CASE ~Duplicate(f)
  <2>1. i \notin Range(execs)
    BY <1>1, <1>5, <1>7, DuplicateIs
  <2>2. PICK a : a = Account(l)
    OBVIOUS
  <2>3. PICK c : c = CorrectedQty(f)
    OBVIOUS
  <2>4. /\ l \in Ids /\ (IsOpen(l) \/ IsTerminal(l)) /\ orders[l].cum <= a.qty
        /\ orders[l].cum = UpTo(l, Len(trades)) /\ orders[l].cum \in Nat
    BY <1>2, <1>3, <2>2, OrderOfExecution
  <2>5. a \in Accounts /\ q \in Nat /\ f.cum \in Nat
    BY <1>1, <1>2, <2>2, <2>4, AccountFacts, FillType
  <2>6. f.cum = IF f.replayed THEN 0 ELSE UpTo(l, i)
    BY <1>1 DEF IsExecution
  <2>7. /\ Named(l) \in Nat /\ LinkQty(l)[i] = q
        /\ Sum(LinkQty(l), Range(execs) \cup {i}) = Named(l) + q
        /\ Named(l) + q <= UpTo(l, Len(trades))
        /\ (\A j \in Range(execs) : j < i) => Named(l) + q <= UpTo(l, i)
    <3>1. LinkQty(l)[i] = q
      BY <1>2, <1>3, LinkFacts
    <3>2. i \in TradeIds \ Range(execs)
      BY <1>3, <2>1
    <3> QED BY <1>2, <3>1, <3>2, NamedFacts
  <2>8. UpTo(l, i) <= UpTo(l, Len(trades)) /\ UpTo(l, i) \in Nat
    <3>1. i \in 0 .. Len(trades)
      BY <1>3, <1>4 DEF TradeIds
    <3> QED BY <1>2, <3>1, UpToFacts
  <2>9. ~f.replayed => Named(l) + q <= UpTo(l, i)
    BY <1>1, <2>1, <2>7 DEF ComesLast
  <2>10. q > 0
    <3>1. trades[i].qty \in 1 .. MaxQty
      BY <1>2, <1>3, LinkFacts
    <3> QED BY <1>3, <3>1, OmsAssumption
  <2>11. f.replayed \/ f.cum > 0
    <3>1. CASE ~f.replayed
      <4>1. f.cum = UpTo(l, i) /\ Named(l) + q <= UpTo(l, i)
        BY <2>6, <2>9, <3>1
      <4> QED BY <2>5, <2>7, <2>8, <2>10, <4>1
    <3> QED BY <3>1
  <2>12. c = Corrects(a, f)
    BY <1>1, <1>2, <2>2, <2>3, <2>4, <2>11, CorrectedByAccount
  <2>13. Named(l) + a.est <= orders[l].cum /\ Named(l) + a.est <= a.cum
    BY <1>2, <2>2, <2>4 DEF Covered, BookedOf
  <2>14. /\ c \in Nat /\ c <= q
         /\ Named(l) + q + (a.est - c) <= orders[l].cum
         /\ Named(l) + q + (a.est - c) <= Counted(a, f, c).cum
    <3>1. PICK n, x : n = Named(l) /\ x = orders[l].cum
      OBVIOUS
    <3>2. /\ n \in Nat /\ x \in Nat /\ n + a.est <= x /\ n + a.est <= a.cum /\ n + f.qty <= x /\ x <= a.qty
          /\ f.qty \in Nat /\ (f.replayed => f.cum = 0)
          /\ (~f.replayed => f.cum > 0 /\ n + f.qty <= f.cum /\ f.cum <= x)
      BY <1>1, <2>4, <2>5, <2>6, <2>7, <2>8, <2>9, <2>11, <2>13, <3>1
    <3>3. /\ c \in Nat /\ c <= f.qty
          /\ n + f.qty + (a.est - c) <= x /\ n + f.qty + (a.est - c) <= Counted(a, f, c).cum
      BY <2>5, <2>12, <3>2, FillArithmetic
    <3> QED BY <1>1, <3>1, <3>3
  <2>15. PICK b : b = Counted(a, f, c)
    OBVIOUS
  <2>16. b.est = a.est - c /\ b.qty = a.qty
    BY <2>15 DEF Counted
  <2>17. Posted(l, b) /\ Kept' /\ RememberExec(f)
    BY <1>1, <1>2, <1>7, <2>2, <2>3, <2>4, <2>15, FillPosts
  <2>18. execs \in Seq(Execs) /\ Len(execs) \in Nat /\ Range(execs) \subseteq TradeIds \ {i}
    BY <1>2, <2>1 DEF IInv, TypeOK
  <2>19. IsFiniteSet(Range(execs)) /\ Cardinality(Range(execs)) \in Nat /\ Cardinality(Range(execs)) < Len(trades)
    <3>1. IsFiniteSet(TradeIds) /\ Cardinality(TradeIds) = Len(trades)
      <4>1. PICK n : n = Len(trades)
        OBVIOUS
      <4>2. n \in Nat /\ TradeIds = 1 .. n
        BY <1>4, <4>1 DEF TradeIds
      <4>3. IsFiniteSet(1 .. n) /\ Cardinality(1 .. n) = n
        BY <4>2, FS_Interval
      <4> QED BY <4>1, <4>2, <4>3
    <3>2. IsFiniteSet(TradeIds \ {i}) /\ Cardinality(TradeIds \ {i}) = Len(trades) - 1
      BY <1>3, <3>1, FS_RemoveElement
    <3>3. IsFiniteSet(Range(execs)) /\ Cardinality(Range(execs)) <= Len(trades) - 1
      BY <2>18, <3>2, FS_Subset
    <3> QED BY <1>4, <3>3, FS_CardinalityType
  <2>20. Len(execs) # ExecCap
    BY <1>2, <1>4, <2>18, <2>19, OmsAssumption DEF Remembers
  <2>21. execs' = Append(execs, i)
    BY <1>1, <1>5, <2>17, <2>20 DEF RememberExec
  <2>22. Range(execs') = Range(execs) \cup {i} /\ Len(execs') = Len(execs) + 1
    <3>1. /\ Len(execs') = Len(execs) + 1 /\ DOMAIN execs' = 1 .. Len(execs) + 1
          /\ DOMAIN execs = 1 .. Len(execs)
          /\ execs'[Len(execs) + 1] = i /\ \A j \in 1 .. Len(execs) : execs'[j] = execs[j]
      BY <1>3, <1>4, <2>18, <2>21
    <3>2. 1 .. Len(execs) + 1 = (1 .. Len(execs)) \cup {Len(execs) + 1}
      BY <2>18
    <3> QED BY <3>1, <3>2 DEF Range
  <2>23. TradeIds' = TradeIds /\ \A k : LinkQty(k)' = LinkQty(k)
    BY SameTrades DEF LinkQty
  <2>24. Remembers'
    <3>1. Cardinality(Range(execs) \cup {i}) = Cardinality(Range(execs)) + 1
      BY <2>1, <2>19, FS_AddElement
    <3> QED BY <1>2, <1>3, <2>22, <2>23, <3>1 DEF Remembers
  <2>25. \A k \in Ids \ {l} : Named(k)' = Named(k)
    <3>1. ASSUME NEW k \in Ids \ {l} PROVE Named(k)' = Named(k)
      <4>1. LinkQty(k)[i] = 0 /\ Named(k) \in Nat
        BY <1>2, <1>3, LinkFacts, NamedFacts
      <4>2. Sum(LinkQty(k), Range(execs) \cup {i}) = Named(k) + LinkQty(k)[i]
        BY <1>2, <1>3, <2>1, NamedFacts
      <4>3. Named(k)' = Sum(LinkQty(k), Range(execs) \cup {i})
        BY <2>22, <2>23 DEF Named
      <4> QED BY <4>1, <4>2, <4>3
    <3> QED BY <3>1
  <2>26. BookedOf(l)' = Named(l) + q + (a.est - c) /\ BookedOf(l) = Named(l) + a.est
    <3>1. Named(l)' = Named(l) + q
      BY <2>7, <2>22, <2>23 DEF Named
    <3> QED BY <2>2, <2>16, <2>17, <3>1 DEF BookedOf, Posted
  <2>27. booked' = booked + (BookedOf(l)' - BookedOf(l))
    <3>1. Fresh(f) = q - c
      BY <1>1, <1>7, <2>3 DEF Fresh
    <3>2. a.est \in Nat
      BY <2>5 DEF Accounts
    <3>3. BookedOf(l)' - BookedOf(l) = q - c
      BY <2>5, <2>7, <2>14, <2>26, <3>2
    <3> QED BY <3>1, <3>3 DEF Book
  <2>28. BookedOf(l)' <= orders[l].cum /\ BookedOf(l)' <= b.cum
    BY <2>14, <2>15, <2>26
  <2>29. Bookings'
    BY <1>2, <2>4, <2>17, <2>24, <2>25, <2>27, <2>28, PostedBookings
  <2> QED BY <1>1, <2>2, <2>16, <2>17, <2>22, <2>29 DEF Posted
<1> QED BY <1>6, <1>7

-----------------------------------------------------------------------------
(***************************************************************************)
(* What a step leaves alone.                                               *)
(***************************************************************************)

\* The quantities of the orders issued do not change.
SameTerms == seq \in Nat /\ seq' \in Nat /\ seq <= seq'
             /\ \A l \in Ids : l <= seq => Account(l)'.qty = Account(l).qty

LEMMA SameIsTerms ==
  ASSUME IInv, SameAccounts
  PROVE  SameTerms
  BY DEF SameAccounts, SameTerms, IInv, TypeOK

LEMMA TableStep ==
  ASSUME TableInv, [Next]_vars
  PROVE  IInv' /\ EndingOrdersAreUnseen' /\ PendingCountsEstimates'
  BY StepSound, PendingKeeps DEF TableInv

LEMMA SameTable ==
  ASSUME TableInv, UNCHANGED vars
  PROVE  TableInv' /\ SameAccounts /\ SameTerms /\ execs' = execs
<1>1. IInv' /\ EndingOrdersAreUnseen' /\ PendingCountsEstimates'
  BY TableStep
<1>2. SameAccounts /\ Kept' /\ execs' = execs
  BY SameIgnored DEF TableInv, Ignored
<1> QED BY <1>1, <1>2, SameIsTerms DEF TableInv

LEMMA SameAtVenue ==
  ASSUME AtVenue, SameTerms, UNCHANGED <<orders, trades>>
  PROVE  AtVenue'
<1>1. \A l, i : UpTo(l, i)' = UpTo(l, i)
  BY DEF UpTo, LinkQty, TradeIds
<1>2. ASSUME NEW l \in Ids PROVE OrderAt(l)'
  <2>1. OrderAt(l)
    BY DEF AtVenue
  <2>2. orders'[l].cum = UpTo(l, Len(trades))'
    BY <1>1, <2>1 DEF OrderAt
  <2>3. orders'[l].st # "None" => l <= seq' /\ orders'[l].qty = Account(l)'.qty
    BY <2>1 DEF OrderAt, SameTerms, Ids
  <2> QED BY <2>1, <2>2, <2>3 DEF OrderAt
<1> QED BY <1>2 DEF AtVenue

LEMMA SameTrue ==
  ASSUME UNCHANGED <<orders, trades>>
  PROVE  TrueEvents' = TrueEvents /\ TrueStates' = TrueStates /\ TrueStreamed' = TrueStreamed
<1>1. (\A l, i : UpTo(l, i)' = UpTo(l, i)) /\ \A l, i, q : Execution(l, i, q)' <=> Execution(l, i, q)
  BY DEF UpTo, LinkQty, TradeIds, Execution
<1>2. \A f : IsExecution(f)' <=> IsExecution(f)
  BY <1>1 DEF IsExecution
<1>3. TrueFills' = TrueFills
  BY <1>2 DEF TrueFills
<1>4. TrueStreamed' = TrueStreamed
  BY <1>1 DEF TrueStreamed
<1>5. TrueReports' = TrueReports /\ TrueStates' = TrueStates
  BY DEF TrueReports, TrueStates
<1> QED BY <1>3, <1>4, <1>5 DEF TrueEvents

LEMMA SameFromVenue ==
  ASSUME FromVenue, UNCHANGED <<resp, ring, ordTopic, exTopic, recon, orders, trades>>
  PROVE  FromVenue'
<1>1. TrueEvents' = TrueEvents /\ TrueStates' = TrueStates /\ TrueStreamed' = TrueStreamed
  BY SameTrue
<1> QED BY <1>1 DEF FromVenue

LEMMA SameConnector ==
  ASSUME Connector, UNCHANGED <<shadow, alias, sentTo, unanswered, recon, replay>>
  PROVE  Connector'
  BY DEF Connector, NoAlias

LEMMA SendableStays ==
  ASSUME SameTerms, UNCHANGED orders
  PROVE  Sendable \subseteq Sendable'
  BY DEF Sendable, SameTerms, Ids

LEMMA SameToVenue ==
  ASSUME ToVenue, SameTerms, UNCHANGED <<cmds, wire, orders>>
  PROVE  ToVenue'
<1>1. Sendable \subseteq Sendable'
  BY SendableStays
<1>2. PICK C, W, A, B : C = cmds /\ W = wire /\ A = Sendable /\ B = Sendable'
  OBVIOUS
<1>3. Orderly(C, W, A) /\ A \subseteq B
  BY <1>1, <1>2 DEF ToVenue
<1>4. Orderly(C, W, B)
  BY <1>3 DEF Orderly
<1> QED BY <1>2, <1>4 DEF ToVenue

LEMMA SameTurn ==
  ASSUME Turn, UNCHANGED <<execs, ring, exTopic, replay, trades>>
  PROVE  Turn'
  BY DEF Turn

-----------------------------------------------------------------------------
(***************************************************************************)
(* The queues.                                                             *)
(***************************************************************************)

LEMMA SeqMono ==
  ASSUME NEW S, NEW T, S \subseteq T, NEW s \in Seq(S)
  PROVE  s \in Seq(T)
<1>1. s \in [1 .. Len(s) -> S] /\ Len(s) \in Nat
  OBVIOUS
<1>2. s \in [1 .. Len(s) -> T]
  BY <1>1
<1> QED BY <1>1, <1>2

LEMMA HeadTail ==
  ASSUME NEW S, NEW s \in Seq(S), s # <<>>
  PROVE  /\ Head(s) \in S /\ Tail(s) \in Seq(S) /\ Head(s) = s[1] /\ 1 \in DOMAIN s
         /\ Len(Tail(s)) = Len(s) - 1 /\ Len(s) \in Nat /\ Len(s) > 0
         /\ \A i \in DOMAIN Tail(s) : i \in Nat /\ i > 0 /\ i + 1 \in DOMAIN s /\ Tail(s)[i] = s[i + 1]
  OBVIOUS

LEMMA Appended ==
  ASSUME NEW S, NEW s \in Seq(S), NEW e \in S, NEW t, t = Append(s, e)
  PROVE  /\ t \in Seq(S) /\ Len(t) = Len(s) + 1 /\ Len(s) \in Nat /\ t[Len(s) + 1] = e
         /\ \A i \in DOMAIN s : i \in DOMAIN t /\ t[i] = s[i] /\ i \in Nat /\ i <= Len(s)
         /\ \A i \in DOMAIN t : i \in DOMAIN s \/ i = Len(s) + 1
  OBVIOUS

LEMMA NewsTail ==
  ASSUME NEW S, NEW s \in Seq(S), s # <<>>, NEW t, t = Tail(s)
  PROVE  \A i \in NewsIn(t) : i \in Nat /\ i + 1 # 1 /\ i + 1 \in NewsIn(s) /\ t[i] = s[i + 1]
  BY HeadTail DEF NewsIn

\* The engine sends a command.
LEMMA OrderlySend ==
  ASSUME NEW C, NEW W, NEW A, NEW B, Orderly(C, W, A), A \subseteq B, NEW c \in Commands,
         c.kind = "New" => New(c) \in B /\ \A x \in A : x[1] # c.id,
         NEW D, D = Append(C, c)
  PROVE  Orderly(D, W, B)
<1>0. /\ \A i \in NewsIn(C) : New(C[i]) \in A
      /\ \A i \in NewsIn(W) : New(W[i]) \in A /\ W[i].link = W[i].id
      /\ \A i, j \in NewsIn(C) : C[i].id = C[j].id => i = j
      /\ \A i, j \in NewsIn(W) : W[i].id = W[j].id => i = j
      /\ \A i \in NewsIn(C), j \in NewsIn(W) : C[i].id # W[j].id
  BY Zenon DEF Orderly
<1>1. C \in Seq(Commands) /\ W \in Seq(Requests)
  BY DEF Orderly
<1>2. D \in Seq(Commands)
  BY <1>1, Appended
<1>9. PICK n : n = Len(C) + 1
  OBVIOUS
<1>3. \A i \in NewsIn(D) : \/ i \in NewsIn(C) /\ D[i] = C[i]
                           \/ i = n /\ D[i] = c /\ c.kind = "New"
  <2>1. /\ D[n] = c
        /\ \A i \in DOMAIN C : D[i] = C[i]
        /\ \A i \in DOMAIN D : i \in DOMAIN C \/ i = n
    BY <1>1, <1>9, Appended
  <2> QED BY <2>1 DEF NewsIn
<1>4. c.kind = "New" => /\ \A i \in NewsIn(C) : C[i].id # c.id
                        /\ \A i \in NewsIn(W) : W[i].id # c.id
  BY <1>0 DEF New
<1>5. \A i \in NewsIn(D) : New(D[i]) \in B
  BY <1>3, <1>0
<1>6. ASSUME NEW i \in NewsIn(D), NEW j \in NewsIn(D), D[i].id = D[j].id PROVE i = j
  <2>1. CASE i \in NewsIn(C) /\ D[i] = C[i] /\ j \in NewsIn(C) /\ D[j] = C[j]
    BY <1>0, <1>6, <2>1
  <2>2. CASE i = n /\ j = n
    BY <2>2
  <2>3. CASE i \in NewsIn(C) /\ D[i] = C[i] /\ D[j] = c /\ c.kind = "New"
    BY <1>4, <1>6, <2>3
  <2>4. CASE D[i] = c /\ j \in NewsIn(C) /\ D[j] = C[j] /\ c.kind = "New"
    BY <1>4, <1>6, <2>4
  <2> QED BY <1>3, <2>1, <2>2, <2>3, <2>4
<1>7. ASSUME NEW i \in NewsIn(D), NEW j \in NewsIn(W) PROVE D[i].id # W[j].id
  <2>1. CASE i \in NewsIn(C) /\ D[i] = C[i]
    BY <1>0, <2>1
  <2>2. CASE D[i] = c /\ c.kind = "New"
    BY <1>4, <2>2
  <2> QED BY <1>3, <2>1, <2>2
<1> QED BY <1>1, <1>2, <1>5, <1>6, <1>7 DEF Orderly

\* The connector passes a command on.
LEMMA OrderlyTake ==
  ASSUME NEW C, NEW W, NEW A, Orderly(C, W, A), C # <<>>, NEW c, c = Head(C), NEW r \in Requests,
         r.kind = c.kind, r.id = c.id, c.kind = "New" => r.qty = c.qty /\ r.link = r.id,
         NEW D, D = Tail(C), NEW V, V = Append(W, r)
  PROVE  Orderly(D, V, A)
<1>0. /\ \A i \in NewsIn(C) : New(C[i]) \in A
      /\ \A i \in NewsIn(W) : New(W[i]) \in A /\ W[i].link = W[i].id
      /\ \A i, j \in NewsIn(C) : C[i].id = C[j].id => i = j
      /\ \A i, j \in NewsIn(W) : W[i].id = W[j].id => i = j
      /\ \A i \in NewsIn(C), j \in NewsIn(W) : C[i].id # W[j].id
  BY Zenon DEF Orderly
<1>1. C \in Seq(Commands) /\ W \in Seq(Requests)
  BY DEF Orderly
<1>2. D \in Seq(Commands) /\ V \in Seq(Requests) /\ 1 \in DOMAIN C /\ c = C[1]
  BY <1>1, HeadTail, Appended
<1>3. \A i \in NewsIn(D) : i \in Nat /\ i + 1 # 1 /\ i + 1 \in NewsIn(C) /\ D[i] = C[i + 1]
  BY <1>1, NewsTail
<1>11. PICK n : n = Len(W) + 1
  OBVIOUS
<1>4. \A i \in NewsIn(V) : \/ i \in NewsIn(W) /\ V[i] = W[i]
                           \/ i = n /\ V[i] = r /\ r.kind = "New"
  <2>1. /\ V[n] = r
        /\ \A i \in DOMAIN W : V[i] = W[i]
        /\ \A i \in DOMAIN V : i \in DOMAIN W \/ i = n
    BY <1>1, <1>11, Appended
  <2> QED BY <2>1 DEF NewsIn
<1>5. r.kind = "New" => 1 \in NewsIn(C) /\ New(r) = New(C[1]) /\ r.id = C[1].id /\ r.link = r.id
  BY <1>2 DEF NewsIn, New
<1>6. \A i \in NewsIn(D) : New(D[i]) \in A
  BY <1>3, <1>0
<1>7. \A i \in NewsIn(V) : New(V[i]) \in A /\ V[i].link = V[i].id
  BY <1>4, <1>5, <1>0
<1>8. \A i, j \in NewsIn(D) : D[i].id = D[j].id => i = j
  <2>1. ASSUME NEW i \in NewsIn(D), NEW j \in NewsIn(D), D[i].id = D[j].id PROVE i = j
    <3>1. PICK k, m : k = i + 1 /\ m = j + 1
      OBVIOUS
    <3>2. i \in Nat /\ j \in Nat /\ k \in NewsIn(C) /\ m \in NewsIn(C) /\ D[i] = C[k] /\ D[j] = C[m]
      BY <1>3, <3>1
    <3>3. k = m
      BY <2>1, <3>2, <1>0
    <3> QED BY <3>1, <3>2, <3>3
  <2> QED BY <2>1
<1>9. ASSUME NEW i \in NewsIn(V), NEW j \in NewsIn(V), V[i].id = V[j].id PROVE i = j
  <2>1. CASE i \in NewsIn(W) /\ V[i] = W[i] /\ j \in NewsIn(W) /\ V[j] = W[j]
    BY <1>0, <1>9, <2>1
  <2>2. CASE i = n /\ j = n
    BY <2>2
  <2>3. CASE i \in NewsIn(W) /\ V[i] = W[i] /\ V[j] = r /\ r.kind = "New"
    BY <1>5, <1>9, <1>0, <2>3
  <2>4. CASE V[i] = r /\ j \in NewsIn(W) /\ V[j] = W[j] /\ r.kind = "New"
    BY <1>5, <1>9, <1>0, <2>4
  <2> QED BY <1>4, <2>1, <2>2, <2>3, <2>4
<1>10. \A i \in NewsIn(D), j \in NewsIn(V) : D[i].id # V[j].id
  <2>1. ASSUME NEW i \in NewsIn(D), NEW j \in NewsIn(V) PROVE D[i].id # V[j].id
    <3>1. PICK k : k = i + 1
      OBVIOUS
    <3>2. k \in NewsIn(C) /\ D[i] = C[k] /\ k # 1
      BY <1>3, <3>1
    <3>3. CASE j \in NewsIn(W) /\ V[j] = W[j]
      BY <3>2, <3>3, <1>0
    <3>4. CASE V[j] = r /\ r.kind = "New"
      <4>1. PICK o : o = 1
        OBVIOUS
      <4>2. o \in NewsIn(C) /\ r.id = C[o].id /\ k # o
        BY <1>5, <3>2, <3>4, <4>1
      <4>3. C[k].id # C[o].id
        BY <1>0, <3>2, <4>2
      <4> QED BY <3>2, <3>4, <4>2, <4>3
    <3> QED BY <1>4, <3>3, <3>4
  <2> QED BY <2>1
<1> QED BY <1>2, <1>6, <1>7, <1>8, <1>9, <1>10 DEF Orderly

\* The venue takes a request: no other brings the same new order.
LEMMA OrderlyDrop ==
  ASSUME NEW C, NEW W, NEW A, NEW B, Orderly(C, W, A), W # <<>>, NEW r, r = Head(W),
         \A x \in A : x \in B \/ (r.kind = "New" /\ x[1] = r.id),
         NEW V, V = Tail(W)
  PROVE  Orderly(C, V, B)
<1>0. /\ \A i \in NewsIn(C) : New(C[i]) \in A
      /\ \A i \in NewsIn(W) : New(W[i]) \in A /\ W[i].link = W[i].id
      /\ \A i, j \in NewsIn(C) : C[i].id = C[j].id => i = j
      /\ \A i, j \in NewsIn(W) : W[i].id = W[j].id => i = j
      /\ \A i \in NewsIn(C), j \in NewsIn(W) : C[i].id # W[j].id
  BY Zenon DEF Orderly
<1>1. C \in Seq(Commands) /\ W \in Seq(Requests)
  BY DEF Orderly
<1>2. V \in Seq(Requests) /\ 1 \in DOMAIN W /\ r = W[1]
  BY <1>1, HeadTail
<1>3. \A i \in NewsIn(V) : i \in Nat /\ i + 1 # 1 /\ i + 1 \in NewsIn(W) /\ V[i] = W[i + 1]
  BY <1>1, NewsTail
<1>4. r.kind = "New" => /\ 1 \in NewsIn(W)
                        /\ \A i \in NewsIn(C) : C[i].id # r.id
                        /\ \A i \in NewsIn(W) : i # 1 => W[i].id # r.id
  BY <1>2, <1>0 DEF NewsIn
<1>5. \A i \in NewsIn(C) : New(C[i]) \in B
  BY <1>4, <1>0 DEF New
<1>6. \A i \in NewsIn(V) : New(V[i]) \in B /\ V[i].link = V[i].id
  <2>1. ASSUME NEW i \in NewsIn(V) PROVE New(V[i]) \in B /\ V[i].link = V[i].id
    <3>1. PICK k : k = i + 1
      OBVIOUS
    <3>2. k \in NewsIn(W) /\ V[i] = W[k] /\ k # 1
      BY <1>3, <3>1
    <3>3. New(W[k]) \in A /\ W[k].link = W[k].id /\ (r.kind = "New" => W[k].id # r.id)
      BY <1>4, <3>2, <1>0
    <3> QED BY <3>2, <3>3 DEF New
  <2> QED BY <2>1
<1>7. \A i, j \in NewsIn(V) : V[i].id = V[j].id => i = j
  <2>1. ASSUME NEW i \in NewsIn(V), NEW j \in NewsIn(V), V[i].id = V[j].id PROVE i = j
    <3>1. PICK k, n : k = i + 1 /\ n = j + 1
      OBVIOUS
    <3>2. i \in Nat /\ j \in Nat /\ k \in NewsIn(W) /\ n \in NewsIn(W) /\ V[i] = W[k] /\ V[j] = W[n]
      BY <1>3, <3>1
    <3>3. k = n
      BY <2>1, <3>2, <1>0
    <3> QED BY <3>1, <3>2, <3>3
  <2> QED BY <2>1
<1>8. \A i \in NewsIn(C), j \in NewsIn(V) : C[i].id # V[j].id
  <2>1. ASSUME NEW i \in NewsIn(C), NEW j \in NewsIn(V) PROVE C[i].id # V[j].id
    <3>1. PICK k : k = j + 1
      OBVIOUS
    <3>2. k \in NewsIn(W) /\ V[j] = W[k]
      BY <1>3, <3>1
    <3> QED BY <1>0, <3>2
  <2> QED BY <2>1
<1> QED BY <1>1, <1>2, <1>5, <1>6, <1>7, <1>8 DEF Orderly

LEMMA Concat ==
  ASSUME NEW S, NEW s \in Seq(S), NEW u \in Seq(S), NEW t, t = s \o u
  PROVE  /\ t \in Seq(S) /\ Len(t) = Len(s) + Len(u) /\ Len(s) \in Nat /\ Len(u) \in Nat
         /\ \A i \in 1 .. Len(s) : t[i] = s[i]
         /\ \A i \in 1 .. Len(u) : t[Len(s) + i] = u[i]
  OBVIOUS

\* The engine takes an event out of its ring.
LEMMA TurnsPop ==
  ASSUME NEW S, NEW R \in Seq(S), R # <<>>, NEW E, NEW X, NEW n, Turns(E, R, X, n),
         NEW F, F = E \cup {e.fill.exec : e \in {d \in {Head(R)} : IsFill(d)}}, NEW Q, Q = Tail(R)
  PROVE  Turns(F, Q, X, n)
<1>1. /\ Head(R) = R[1] /\ Len(Q) = Len(R) - 1 /\ Len(R) \in Nat /\ Len(R) > 0
      /\ \A i \in 1 .. Len(Q) : Q[i] = R[i + 1] /\ i + 1 \in 1 .. Len(R)
      /\ DOMAIN R = 1 .. Len(R) /\ DOMAIN Q = 1 .. Len(Q)
  OBVIOUS
<1>2. ASSUME NEW i \in Nat, i > 0, i <= Len(Q) + 1 PROVE GivenBefore(F, Q, i) = GivenBefore(E, R, i + 1)
  <2>1. ASSUME NEW x, x \in GivenBefore(F, Q, i) PROVE x \in GivenBefore(E, R, i + 1)
    <3>1. CASE x \in E
      BY <3>1 DEF GivenBefore
    <3>2. CASE IsFill(R[1]) /\ x = R[1].fill.exec
      <4>1. 1 \in 1 .. (i + 1) - 1
        BY <1>2
      <4> QED BY <3>2, <4>1 DEF GivenBefore
    <3>3. CASE \E j \in 1 .. i - 1 : IsFill(Q[j]) /\ x = Q[j].fill.exec
      <4>1. PICK j \in 1 .. i - 1 : IsFill(Q[j]) /\ x = Q[j].fill.exec
        BY <3>3
      <4>2. j + 1 \in 1 .. (i + 1) - 1 /\ j \in 1 .. Len(Q)
        BY <1>1, <1>2
      <4>3. Q[j] = R[j + 1]
        BY <1>1, <4>2
      <4> QED BY <4>1, <4>2, <4>3 DEF GivenBefore
    <3> QED BY <1>1, <2>1, <3>1, <3>2, <3>3 DEF GivenBefore
  <2>2. ASSUME NEW x, x \in GivenBefore(E, R, i + 1) PROVE x \in GivenBefore(F, Q, i)
    <3>1. CASE x \in E
      BY <3>1 DEF GivenBefore
    <3>2. CASE \E j \in 1 .. (i + 1) - 1 : IsFill(R[j]) /\ x = R[j].fill.exec
      <4>1. PICK j \in 1 .. (i + 1) - 1 : IsFill(R[j]) /\ x = R[j].fill.exec
        BY <3>2
      <4>2. CASE j = 1
        <5>1. x \in F
          BY <1>1, <4>1, <4>2
        <5> QED BY <5>1 DEF GivenBefore
      <4>3. CASE j # 1
        <5>1. j - 1 \in 1 .. i - 1 /\ j - 1 \in 1 .. Len(Q)
          BY <1>1, <1>2, <4>3
        <5>2. Q[j - 1] = R[j]
          <6>1. Q[j - 1] = R[(j - 1) + 1] /\ (j - 1) + 1 = j
            BY <1>1, <5>1
          <6> QED BY <6>1
        <5> QED BY <4>1, <5>1, <5>2 DEF GivenBefore
      <4> QED BY <4>2, <4>3
    <3> QED BY <2>2, <3>1, <3>2 DEF GivenBefore
  <2> QED BY <2>1, <2>2
<1>3. GivenIn(F, Q) = GivenIn(E, R)
  <2>1. PICK i : i = Len(Q) + 1
    OBVIOUS
  <2>2. i \in Nat /\ i > 0 /\ i <= Len(Q) + 1 /\ i + 1 = Len(R) + 1
    BY <1>1, <2>1
  <2>3. GivenBefore(F, Q, i) = GivenBefore(E, R, i + 1)
    BY <1>2, <2>2
  <2> QED BY <2>1, <2>2, <2>3 DEF GivenIn
<1>4. ASSUME NEW i \in DOMAIN Q, IsFill(Q[i]), ~Q[i].fill.replayed
      PROVE  Q[i].fill.exec \in GivenBefore(F, Q, i) \/ After(Q[i].fill.exec, GivenBefore(F, Q, i))
  <2>1. PICK k : k = i + 1
    OBVIOUS
  <2>2. k \in DOMAIN R /\ Q[i] = R[k] /\ i \in Nat /\ i > 0 /\ i <= Len(Q) + 1
    BY <1>1, <2>1
  <2>3. GivenBefore(F, Q, i) = GivenBefore(E, R, k)
    BY <1>2, <2>1, <2>2
  <2>4. R[k].fill.exec \in GivenBefore(E, R, k) \/ After(R[k].fill.exec, GivenBefore(E, R, k))
    BY <1>4, <2>2 DEF Turns
  <2> QED BY <2>2, <2>3, <2>4
<1>5. /\ \A i \in DOMAIN X : X[i].exec <= n \/ After(X[i].exec, GivenIn(E, R))
      /\ \A i, j \in DOMAIN X : i < j => X[i].exec < X[j].exec
      /\ 1 .. n \subseteq GivenIn(E, R)
  BY DEF Turns
<1> QED BY <1>3, <1>4, <1>5 DEF Turns

\* The connector pushes events after those that wait.
Brought(u) == {u[j].fill.exec : j \in {k \in DOMAIN u : IsFill(u[k])}}

Pushed(E, R, u, Q) ==
  /\ \A i \in 1 .. Len(R) + 1 : GivenBefore(E, Q, i) = GivenBefore(E, R, i)
  /\ GivenIn(E, Q) = GivenIn(E, R) \cup Brought(u)

LEMMA GivenPush ==
  ASSUME NEW S, NEW R \in Seq(S), NEW u \in Seq(S), NEW E, NEW Q, Q = R \o u
  PROVE  Pushed(E, R, u, Q)
<1>1. /\ Len(Q) = Len(R) + Len(u) /\ Len(R) \in Nat /\ Len(u) \in Nat
      /\ \A i \in 1 .. Len(R) : Q[i] = R[i]
      /\ \A i \in 1 .. Len(u) : Q[Len(R) + i] = u[i]
      /\ DOMAIN u = 1 .. Len(u)
  BY Concat
<1>2. ASSUME NEW i \in 1 .. Len(R) + 1 PROVE GivenBefore(E, Q, i) = GivenBefore(E, R, i)
  <2>1. \A j \in 1 .. i - 1 : j \in 1 .. Len(R)
    BY <1>1
  <2>2. \A j \in 1 .. i - 1 : Q[j] = R[j]
    BY <1>1, <2>1
  <2> QED BY <2>2 DEF GivenBefore
<1>3. ASSUME NEW x, x \in GivenIn(E, Q) PROVE x \in GivenIn(E, R) \cup Brought(u)
  <2>1. CASE x \in E
    BY <2>1 DEF GivenIn, GivenBefore
  <2>2. CASE \E j \in 1 .. (Len(Q) + 1) - 1 : IsFill(Q[j]) /\ x = Q[j].fill.exec
    <3>1. PICK j \in 1 .. (Len(Q) + 1) - 1 : IsFill(Q[j]) /\ x = Q[j].fill.exec
      BY <2>2
    <3>2. CASE j <= Len(R)
      <4>1. j \in 1 .. Len(R) /\ j \in 1 .. (Len(R) + 1) - 1
        BY <1>1, <3>2
      <4>2. Q[j] = R[j]
        BY <1>1, <4>1
      <4> QED BY <3>1, <4>1, <4>2 DEF GivenIn, GivenBefore
    <3>3. CASE j > Len(R)
      <4>1. PICK k : k = j - Len(R)
        OBVIOUS
      <4>2. k \in 1 .. Len(u) /\ Len(R) + k = j
        BY <1>1, <3>3, <4>1
      <4>3. Q[Len(R) + k] = u[k]
        BY <1>1, <4>2
      <4>4. Q[j] = u[k] /\ k \in DOMAIN u
        BY <1>1, <4>2, <4>3
      <4> QED BY <3>1, <4>4 DEF Brought
    <3> QED BY <1>1, <3>2, <3>3
  <2> QED BY <1>3, <2>1, <2>2 DEF GivenIn, GivenBefore
<1>4. ASSUME NEW x, x \in GivenIn(E, R) \cup Brought(u) PROVE x \in GivenIn(E, Q)
  <2>1. CASE x \in E
    BY <2>1 DEF GivenIn, GivenBefore
  <2>2. CASE \E j \in 1 .. (Len(R) + 1) - 1 : IsFill(R[j]) /\ x = R[j].fill.exec
    <3>1. PICK j \in 1 .. (Len(R) + 1) - 1 : IsFill(R[j]) /\ x = R[j].fill.exec
      BY <2>2
    <3>2. j \in 1 .. Len(R) /\ j \in 1 .. (Len(Q) + 1) - 1
      BY <1>1
    <3>3. Q[j] = R[j]
      BY <1>1, <3>2
    <3> QED BY <3>1, <3>2, <3>3 DEF GivenIn, GivenBefore
  <2>3. CASE x \in Brought(u)
    <3>1. PICK k \in 1 .. Len(u) : IsFill(u[k]) /\ x = u[k].fill.exec
      BY <1>1, <2>3 DEF Brought
    <3>2. PICK j : j = Len(R) + k
      OBVIOUS
    <3>3. j \in 1 .. (Len(Q) + 1) - 1
      BY <1>1, <3>2
    <3>4. Q[j] = u[k]
      BY <1>1, <3>2
    <3> QED BY <3>1, <3>3, <3>4 DEF GivenIn, GivenBefore
  <2> QED BY <1>4, <2>1, <2>2, <2>3 DEF GivenIn, GivenBefore
<1> QED BY <1>2, <1>3, <1>4 DEF Pushed

LEMMA TurnsPush ==
  ASSUME NEW S, NEW R \in Seq(S), NEW u \in Seq(S), NEW E, NEW X, NEW Y, NEW n, NEW m, Turns(E, R, X, n),
         NEW Q, Q = R \o u, NEW G, G = GivenIn(E, R) \cup Brought(u),
         \A i \in DOMAIN u : IsFill(u[i]) /\ ~u[i].fill.replayed =>
           /\ i = 1
           /\ u[i].fill.exec \in GivenIn(E, R) \/ After(u[i].fill.exec, GivenIn(E, R)),
         \A i \in DOMAIN Y : Y[i].exec <= m \/ After(Y[i].exec, G),
         \A i, j \in DOMAIN Y : i < j => Y[i].exec < Y[j].exec,
         1 .. m \subseteq G
  PROVE  Turns(E, Q, Y, m)
<1>1. /\ \A i \in 1 .. Len(R) + 1 : GivenBefore(E, Q, i) = GivenBefore(E, R, i)
      /\ GivenIn(E, Q) = G
  <2>1. Pushed(E, R, u, Q)
    BY GivenPush, Zenon
  <2> QED BY <2>1, Zenon DEF Pushed
<1>2. /\ Len(Q) = Len(R) + Len(u) /\ Len(R) \in Nat /\ Len(u) \in Nat
      /\ \A i \in 1 .. Len(R) : Q[i] = R[i]
      /\ \A i \in 1 .. Len(u) : Q[Len(R) + i] = u[i]
      /\ DOMAIN u = 1 .. Len(u) /\ DOMAIN R = 1 .. Len(R) /\ DOMAIN Q = 1 .. Len(Q)
  BY Concat
<1>3. ASSUME NEW i \in DOMAIN Q, IsFill(Q[i]), ~Q[i].fill.replayed
      PROVE  Q[i].fill.exec \in GivenBefore(E, Q, i) \/ After(Q[i].fill.exec, GivenBefore(E, Q, i))
  <2>1. CASE i <= Len(R)
    <3>1. i \in 1 .. Len(R) /\ i \in 1 .. Len(R) + 1
      BY <1>2, <2>1
    <3>2. Q[i] = R[i] /\ i \in DOMAIN R /\ GivenBefore(E, Q, i) = GivenBefore(E, R, i)
      BY <1>1, <1>2, <3>1
    <3>3. R[i].fill.exec \in GivenBefore(E, R, i) \/ After(R[i].fill.exec, GivenBefore(E, R, i))
      BY <1>3, <3>2 DEF Turns
    <3> QED BY <3>2, <3>3
  <2>2. CASE i > Len(R)
    <3>1. PICK k : k = i - Len(R)
      OBVIOUS
    <3>2. k \in 1 .. Len(u) /\ Len(R) + k = i
      BY <1>2, <2>2, <3>1
    <3>3. Q[Len(R) + k] = u[k]
      BY <1>2, <3>2
    <3>4. Q[i] = u[k] /\ k \in DOMAIN u
      BY <1>2, <3>2, <3>3
    <3>5. k = 1 /\ (u[k].fill.exec \in GivenIn(E, R) \/ After(u[k].fill.exec, GivenIn(E, R)))
      BY <1>3, <3>4
    <3>6. i = Len(R) + 1 /\ i \in 1 .. Len(R) + 1
      BY <1>2, <3>2, <3>5
    <3>7. GivenBefore(E, Q, i) = GivenIn(E, R)
      BY <1>1, <3>6 DEF GivenIn
    <3> QED BY <3>4, <3>5, <3>7
  <2> QED BY <1>2, <2>1, <2>2
<1> QED BY <1>1, <1>3 DEF Turns

\* Events that carry no execution change nobody's turn.
LEMMA TurnsPushOther ==
  ASSUME NEW S, NEW R \in Seq(S), NEW u \in Seq(S), NEW E, NEW X, NEW n, Turns(E, R, X, n),
         NEW Q, Q = R \o u, \A i \in DOMAIN u : ~IsFill(u[i])
  PROVE  Turns(E, Q, X, n)
<1>1. Brought(u) = {}
  BY DEF Brought
<1>2. PICK G : G = GivenIn(E, R) \cup Brought(u)
  OBVIOUS
<1>3. /\ \A i \in DOMAIN X : X[i].exec <= n \/ After(X[i].exec, G)
      /\ \A i, j \in DOMAIN X : i < j => X[i].exec < X[j].exec
      /\ 1 .. n \subseteq G
  BY <1>1, <1>2 DEF Turns
<1> QED BY <1>2, <1>3, TurnsPush

LEMMA AppendIsConcat ==
  ASSUME NEW S, NEW R \in Seq(S), NEW e \in S
  PROVE  Append(R, e) = R \o <<e>> /\ <<e>> \in Seq(S) /\ DOMAIN <<e>> = {1} /\ <<e>>[1] = e
  OBVIOUS

\* A live execution moves from the stream into the ring.
LEMMA TurnsLive ==
  ASSUME NEW S, NEW R \in Seq(S), NEW d \in S, NEW T, NEW X \in Seq(T), X # <<>>, NEW E, NEW n \in Nat,
         Turns(E, R, X, n), \A i \in DOMAIN X : X[i].exec \in Nat /\ X[i].exec > 0,
         IsFill(d), d.fill.exec = Head(X).exec, NEW Q, Q = Append(R, d), NEW Y, Y = Tail(X)
  PROVE  Turns(E, Q, Y, n)
<1>1. /\ \A i \in DOMAIN X : X[i].exec <= n \/ After(X[i].exec, GivenIn(E, R))
      /\ \A i, j \in DOMAIN X : i < j => X[i].exec < X[j].exec
      /\ 1 .. n \subseteq GivenIn(E, R)
  BY DEF Turns
<1>2. PICK u : u = <<d>>
  OBVIOUS
<1>3. u \in Seq(S) /\ DOMAIN u = {1} /\ u[1] = d /\ Q = R \o u
  BY <1>2, AppendIsConcat
<1>4. Brought(u) = {d.fill.exec}
  BY <1>3 DEF Brought
<1>5. PICK G : G = GivenIn(E, R) \cup Brought(u)
  OBVIOUS
<1>6. PICK o : o = 1
  OBVIOUS
<1>7. o \in DOMAIN X /\ X[o] = Head(X) /\ X[o].exec = d.fill.exec
  BY <1>6, HeadTail
<1>8. X[o].exec \in GivenIn(E, R) \/ After(X[o].exec, GivenIn(E, R))
  <2>1. CASE X[o].exec <= n
    <3>1. X[o].exec \in 1 .. n
      BY <1>7, <2>1
    <3> QED BY <1>1, <3>1
  <2> QED BY <1>1, <1>7, <2>1
<1>9. \A i \in DOMAIN u : IsFill(u[i]) /\ ~u[i].fill.replayed =>
           /\ i = 1
           /\ u[i].fill.exec \in GivenIn(E, R) \/ After(u[i].fill.exec, GivenIn(E, R))
  BY <1>3, <1>7, <1>8
<1>10. \A i \in DOMAIN Y : i \in Nat /\ i > 0 /\ i + 1 \in DOMAIN X /\ Y[i] = X[i + 1]
  BY HeadTail
<1>11. ASSUME NEW i \in DOMAIN Y PROVE Y[i].exec <= n \/ After(Y[i].exec, G)
  <2>1. PICK k : k = i + 1
    OBVIOUS
  <2>2. k \in DOMAIN X /\ Y[i] = X[k] /\ o < k
    BY <1>6, <1>10, <2>1
  <2>3. X[o].exec < X[k].exec
    BY <1>1, <1>7, <2>2
  <2>4. X[k].exec <= n \/ After(X[k].exec, GivenIn(E, R))
    BY <1>1, <2>2
  <2> QED BY <1>4, <1>5, <1>7, <2>2, <2>3, <2>4 DEF After
<1>12. ASSUME NEW i \in DOMAIN Y, NEW j \in DOMAIN Y, i < j PROVE Y[i].exec < Y[j].exec
  <2>1. PICK k, m : k = i + 1 /\ m = j + 1
    OBVIOUS
  <2>2. k \in DOMAIN X /\ Y[i] = X[k] /\ m \in DOMAIN X /\ Y[j] = X[m] /\ k < m
    BY <1>10, <1>12, <2>1
  <2> QED BY <1>1, <2>2
<1>13. 1 .. n \subseteq G
  BY <1>1, <1>5
<1> QED BY <1>3, <1>5, <1>9, <1>11, <1>12, <1>13, TurnsPush

\* The replay gives the executions after the last one it gave, up to r.
LEMMA TurnsReplay ==
  ASSUME NEW S, NEW R \in Seq(S), NEW u \in Seq(S), NEW E, NEW X, NEW n \in Nat, NEW r \in Nat, n <= r,
         Turns(E, R, X, n), \A i \in DOMAIN X : X[i].exec \in Nat,
         DOMAIN u = 1 .. r - n,
         \A i \in DOMAIN u : IsFill(u[i]) /\ u[i].fill.replayed /\ u[i].fill.exec = n + i,
         NEW Q, Q = R \o u
  PROVE  Turns(E, Q, X, r)
<1>1. /\ \A i \in DOMAIN X : X[i].exec <= n \/ After(X[i].exec, GivenIn(E, R))
      /\ \A i, j \in DOMAIN X : i < j => X[i].exec < X[j].exec
      /\ 1 .. n \subseteq GivenIn(E, R)
  BY DEF Turns
<1>2. Brought(u) = n + 1 .. r
  <2>1. ASSUME NEW x \in Brought(u) PROVE x \in n + 1 .. r
    <3>1. PICK i \in DOMAIN u : x = u[i].fill.exec
      BY <2>1 DEF Brought
    <3>2. x = n + i /\ i \in 1 .. r - n
      BY <3>1
    <3> QED BY <3>2
  <2>2. ASSUME NEW x \in n + 1 .. r PROVE x \in Brought(u)
    <3>1. PICK i : i = x - n
      OBVIOUS
    <3>2. i \in 1 .. r - n /\ n + i = x
      BY <3>1
    <3>3. i \in DOMAIN u /\ IsFill(u[i]) /\ u[i].fill.exec = x
      BY <3>2
    <3> QED BY <3>3 DEF Brought
  <2> QED BY <2>1, <2>2
<1>3. PICK G : G = GivenIn(E, R) \cup Brought(u)
  OBVIOUS
<1>4. \A i \in DOMAIN u : IsFill(u[i]) /\ ~u[i].fill.replayed =>
           /\ i = 1
           /\ u[i].fill.exec \in GivenIn(E, R) \/ After(u[i].fill.exec, GivenIn(E, R))
  OBVIOUS
<1>5. ASSUME NEW i \in DOMAIN X PROVE X[i].exec <= r \/ After(X[i].exec, G)
  <2>1. X[i].exec <= n \/ After(X[i].exec, GivenIn(E, R))
    BY <1>1
  <2> QED BY <1>2, <1>3, <2>1 DEF After
<1>6. 1 .. r \subseteq G
  <2>1. \A x \in 1 .. r : x \in 1 .. n \/ x \in n + 1 .. r
    OBVIOUS
  <2> QED BY <1>1, <1>2, <1>3, <2>1
<1> QED BY <1>1, <1>3, <1>4, <1>5, <1>6, TurnsPush

\* The venue publishes an execution later than all.
LEMMA TurnsPublish ==
  ASSUME NEW E, NEW R, NEW T, NEW X \in Seq(T), NEW e \in T, NEW n, Turns(E, R, X, n),
         After(e.exec, GivenIn(E, R)), \A i \in DOMAIN X : X[i].exec < e.exec, NEW Y, Y = Append(X, e)
  PROVE  Turns(E, R, Y, n)
<1>1. /\ \A i \in DOMAIN X : X[i].exec <= n \/ After(X[i].exec, GivenIn(E, R))
      /\ \A i, j \in DOMAIN X : i < j => X[i].exec < X[j].exec
      /\ 1 .. n \subseteq GivenIn(E, R)
      /\ \A i \in DOMAIN R : IsFill(R[i]) /\ ~R[i].fill.replayed =>
           R[i].fill.exec \in GivenBefore(E, R, i) \/ After(R[i].fill.exec, GivenBefore(E, R, i))
  BY DEF Turns
<1>2. PICK k : k = Len(X) + 1
  OBVIOUS
<1>3. /\ Y[k] = e
      /\ \A i \in DOMAIN X : i \in DOMAIN Y /\ Y[i] = X[i] /\ i \in Nat /\ i < k
      /\ \A i \in DOMAIN Y : i \in DOMAIN X \/ i = k
  BY <1>2, Appended
<1>4. \A i \in DOMAIN Y : Y[i].exec <= n \/ After(Y[i].exec, GivenIn(E, R))
  BY <1>1, <1>3
<1>5. ASSUME NEW i \in DOMAIN Y, NEW j \in DOMAIN Y, i < j PROVE Y[i].exec < Y[j].exec
  <2>1. CASE i \in DOMAIN X /\ j \in DOMAIN X
    BY <1>1, <1>3, <1>5, <2>1
  <2>2. CASE i \in DOMAIN X /\ j = k
    BY <1>3, <2>2
  <2>3. CASE i = k /\ j = k
    BY <1>2, <1>5, <2>3
  <2>4. CASE i = k /\ j \in DOMAIN X
    BY <1>2, <1>3, <1>5, <2>4
  <2> QED BY <1>3, <2>1, <2>2, <2>3, <2>4
<1> QED BY <1>1, <1>4, <1>5, Zenon DEF Turns

\* The execution at the head of the ring comes last.
LEMMA HeadComesLast ==
  ASSUME NEW S, NEW R \in Seq(S), R # <<>>, NEW E, NEW X, NEW n, Turns(E, R, X, n),
         NEW d, d = Head(R), IsFill(d), ~d.fill.replayed
  PROVE  d.fill.exec \in E \/ \A j \in E : j < d.fill.exec
<1>1. PICK o : o = 1
  OBVIOUS
<1>2. o \in DOMAIN R /\ d = R[o]
  BY <1>1, HeadTail
<1>3. R[o].fill.exec \in GivenBefore(E, R, o) \/ After(R[o].fill.exec, GivenBefore(E, R, o))
  BY <1>2 DEF Turns
<1>4. {k \in 1 .. o - 1 : IsFill(R[k])} = {}
  BY <1>1
<1>5. GivenBefore(E, R, o) = E
  BY <1>4 DEF GivenBefore
<1> QED BY <1>2, <1>3, <1>5 DEF After

-----------------------------------------------------------------------------
(***************************************************************************)
(* The engine's steps.                                                     *)
(***************************************************************************)

LEMMA EventFacts ==
  ASSUME NEW e \in TrueEvents
  PROVE  /\ e.t \in {"ack", "reject"} => e.id \in Ids
         /\ e.t = "cancelReject" => e.id \in Ids /\ e.gone \in BOOLEAN
         /\ e.t \in {"cancelAck", "row"} => e.id \in Ids /\ e.cum \in Qty /\ e.cum <= orders[e.id].cum
         /\ e.t = "begin" => e.mark \in Ids \cup {NoId}
         /\ e.t = "fill" => e.fill \in Fills /\ IsExecution(e.fill)
<1>1. CASE e \in Notices
  BY <1>1 DEF Notices
<1>2. CASE e \in TrueReports
  BY <1>2 DEF TrueReports, Reports
<1>3. CASE e \in TrueFills
  BY <1>3 DEF TrueFills, FillMsgs
<1> QED BY <1>1, <1>2, <1>3 DEF TrueEvents

LEMMA TermsKept ==
  ASSUME IInv, seq' = seq, \A k \in Ids : Account(k)'.qty = Account(k).qty
  PROVE  SameTerms
  BY DEF SameTerms, IInv, TypeOK

LEMMA BookedNumber ==
  ASSUME BooksInv
  PROVE  booked \in Int
<1>1. Summable(Booked, Ids)
  BY BookedType DEF BooksInv, TableInv, AtVenue, Remembers
<1>2. Sum(Booked, Ids) \in Int
  BY <1>1, SumType
<1> QED BY <1>2 DEF BooksInv, Totals

outside == <<shadow, alias, sentTo, unanswered, replay, recon, wire, resp, ordTopic, exTopic, orders, trades>>

LEMMA EngineKeeps ==
  ASSUME BooksInv, TableInv', SameTerms, Bookings', ToVenue', UNCHANGED outside,
         ring' \in Seq(TrueEvents), Turns(Range(execs'), ring', exTopic, replay.emitted)
  PROVE  BooksInv'
<1>0. /\ UNCHANGED <<shadow, alias, sentTo, unanswered, recon, replay>> /\ UNCHANGED <<orders, trades>>
      /\ UNCHANGED <<resp, ordTopic, exTopic>>
  BY DEF outside
<1>1. Connector'
  BY <1>0, SameConnector DEF BooksInv
<1>2. AtVenue'
  BY <1>0, SameAtVenue DEF BooksInv
<1>3. FromVenue'
  <2>1. TrueEvents' = TrueEvents /\ TrueStates' = TrueStates /\ TrueStreamed' = TrueStreamed
    BY <1>0, SameTrue
  <2> QED BY <1>0, <2>1 DEF FromVenue, BooksInv
<1>4. Turn'
  <2>1. Turn
    BY DEF BooksInv
  <2> QED BY <1>0, <2>1 DEF Turn
<1> QED BY <1>1, <1>2, <1>3, <1>4 DEF BooksInv, Bookings

\* The ring and the executions known are as they were.
LEMMA EngineKeepsRing ==
  ASSUME BooksInv, TableInv', SameTerms, Bookings', ToVenue', UNCHANGED outside, UNCHANGED <<ring, execs>>
  PROVE  BooksInv'
<1>1. ring' \in Seq(TrueEvents)
  BY DEF BooksInv, FromVenue
<1>2. Turns(Range(execs'), ring', exTopic, replay.emitted)
  BY DEF BooksInv, Turn
<1> QED BY <1>1, <1>2, EngineKeeps

LEMMA SendsCancel ==
  ASSUME ToVenue, SameTerms, UNCHANGED <<wire, orders>>, NEW id \in Ids, Send(CancelCmd(id))
  PROVE  ToVenue'
<1>1. Sendable \subseteq Sendable'
  BY SendableStays
<1>2. PICK C, W, A, B, D, c : /\ C = cmds /\ W = wire /\ A = Sendable /\ B = Sendable'
                              /\ D = cmds' /\ c = CancelCmd(id)
  OBVIOUS
<1>3. c \in Commands /\ c.kind # "New"
  BY <1>2, OmsAssumption DEF CancelCmd, Commands, Qty
<1>4. Orderly(C, W, A) /\ A \subseteq B /\ D = Append(C, c)
  BY <1>1, <1>2 DEF ToVenue, Send
<1>5. Orderly(D, W, B)
  BY <1>3, <1>4, OrderlySend
<1> QED BY <1>2, <1>5 DEF ToVenue

LEMMA EngineCancelKeeps ==
  ASSUME SessionFits, BooksInv, EngineCancel
  PROVE  BooksInv'
<1>1. PICK h \in Slots : (RequestCancel(h) \/ RequestCancelUnacked(h)) /\ Send(CancelCmd(pool[h].id))
  BY DEF EngineCancel
<1>2. UNCHANGED outside /\ UNCHANGED <<ring, booked>>
  BY DEF EngineCancel, outside, idMaps, watermark, rest, trade, topics, venue
<1>3. IInv /\ Kept /\ TableInv
  BY DEF BooksInv, TableInv
<1>4. SameAccounts /\ Kept' /\ execs' = execs
  BY <1>1, <1>3, CancelSame
<1>5. [Next]_vars
  BY <1>1 DEF Next, Outbound
<1>6. TableInv'
  BY <1>3, <1>4, <1>5, TableStep DEF TableInv
<1>7. SameTerms
  BY <1>3, <1>4, SameIsTerms
<1>8. Bookings'
  BY <1>2, <1>4, SameBookings DEF BooksInv, Bookings, outside
<1>9. pool[h].id \in Ids
  BY <1>1, <1>3 DEF RequestCancel, RequestCancelUnacked, Live, IInv, TypeOK, Order
<1>10. ToVenue'
  BY <1>1, <1>2, <1>7, <1>9, SendsCancel DEF BooksInv, outside
<1> QED BY <1>2, <1>4, <1>6, <1>7, <1>8, <1>10, EngineKeepsRing

LEMMA EngineEndUnseenKeeps ==
  ASSUME SessionFits, BooksInv, EngineEndUnseen
  PROVE  BooksInv'
<1>1. PICK h \in Slots : EndUnseen(h)
  BY DEF EngineEndUnseen
<1>2. UNCHANGED outside /\ UNCHANGED <<ring, booked, cmds>>
  BY DEF EngineEndUnseen, outside, idMaps, watermark, rest, trade, topics, venue
<1>3. IInv /\ Kept /\ EndingOrdersAreUnseen /\ TableInv
  BY DEF BooksInv, TableInv
<1>4. SameAccounts /\ Kept' /\ execs' = execs
  BY <1>1, <1>3, ReconcileSame
<1>5. [Next]_vars
  BY <1>1 DEF Next, Reconciliation
<1>6. TableInv'
  BY <1>3, <1>4, <1>5, TableStep DEF TableInv
<1>7. SameTerms
  BY <1>3, <1>4, SameIsTerms
<1>8. Bookings'
  BY <1>2, <1>4, SameBookings DEF BooksInv, Bookings, outside
<1>9. ToVenue'
  BY <1>2, <1>7, SameToVenue DEF BooksInv, outside
<1> QED BY <1>2, <1>4, <1>6, <1>7, <1>8, <1>9, EngineKeepsRing

LEMMA SubmitBookings ==
  ASSUME Bookings, NEW id \in Ids, Account(id) = NoAcc, Account(id)'.est = 0, Account(id)'.cum = 0,
         \A l \in Ids \ {id} : Account(l)' = Account(l), UNCHANGED <<execs, booked, orders, trades>>
  PROVE  Bookings'
<1>1. TradeIds' = TradeIds /\ Executed' = Executed /\ \A k \in Ids : Named(k)' = Named(k)
  BY SameNamed
<1>2. \A k \in Ids : Account(k)'.est = Account(k).est /\ Account(k)'.cum = Account(k).cum
  BY DEF NoAcc
<1>3. \A k \in Ids : BookedOf(k)' = BookedOf(k)
  BY <1>1, <1>2 DEF BookedOf
<1>4. Booked' = Booked /\ Filled' = Filled
  BY <1>3 DEF Booked, Filled
<1>5. Remembers'
  BY <1>1 DEF Bookings, Remembers
<1>6. Covered'
  BY <1>2, <1>3 DEF Bookings, Covered
<1>7. Totals'
  BY <1>1, <1>4 DEF Bookings, Totals
<1> QED BY <1>5, <1>6, <1>7 DEF Bookings

LEMMA EngineSubmitKeeps ==
  ASSUME SessionFits, BooksInv, EngineSubmit
  PROVE  BooksInv'
<1>0. PICK id : id = seq + 1
  OBVIOUS
<1>1. PICK h \in Slots, s \in Sides, px \in Prices, q \in 1 .. MaxQty :
        Submit(h, s, px, q) /\ Send([kind |-> "New", id |-> id, orig |-> NoId, qty |-> q])
  BY <1>0 DEF EngineSubmit
<1>2. UNCHANGED outside /\ UNCHANGED <<ring, booked>>
  BY DEF EngineSubmit, outside, idMaps, watermark, rest, trade, topics, venue
<1>3. IInv /\ Kept /\ TableInv
  BY DEF BooksInv, TableInv
<1>4. /\ seq' = id /\ id \in Ids /\ Kept' /\ seq \in Nat
      /\ Account(id)' = [qty |-> q, cum |-> 0, est |-> 0]
      /\ \A l \in Ids \ {id} : Account(l)' = Account(l)
  BY <1>0, <1>1, <1>3, SubmitAccounts
<1>5. execs' = execs
  BY <1>1 DEF Submit
<1>6. [Next]_vars
  BY <1>1 DEF Next, Outbound
<1>7. TableInv'
  BY <1>3, <1>4, <1>6, TableStep DEF TableInv
<1>8. SameTerms
  BY <1>0, <1>4 DEF SameTerms, Ids
<1>9. Account(id) = NoAcc
  BY <1>0, <1>3, <1>4, AccountFacts
<1>10. Bookings'
  <2>1. Account(id)'.est = 0 /\ Account(id)'.cum = 0
    BY <1>4
  <2> QED BY <1>2, <1>4, <1>5, <1>9, <2>1, SubmitBookings DEF BooksInv, Bookings, outside
<1>11. ToVenue'
  <2>1. Sendable \subseteq Sendable'
    BY <1>2, <1>8, SendableStays DEF outside
  <2>2. orders'[id] = NoVenueOrder
    <3>1. OrderAt(id)
      BY <1>4 DEF BooksInv, AtVenue
    <3> QED BY <1>0, <1>2, <1>4, <3>1 DEF OrderAt, outside
  <2>3. PICK C, W, A, B, D, c : /\ C = cmds /\ W = wire /\ A = Sendable /\ B = Sendable' /\ D = cmds'
                                /\ c = [kind |-> "New", id |-> id, orig |-> NoId, qty |-> q]
    OBVIOUS
  <2>4. c \in Commands /\ New(c) = <<id, q>> /\ c.id = id
    BY <1>4, <2>3, OmsAssumption DEF Commands, Qty, New
  <2>5. <<id, q>> \in B
    BY <1>4, <2>2, <2>3, OmsAssumption DEF Sendable, Qty, Ids
  <2>6. \A x \in A : x[1] # c.id
    BY <1>0, <1>4, <2>3, <2>4 DEF Sendable
  <2>7. Orderly(C, W, A) /\ A \subseteq B /\ D = Append(C, c)
    BY <1>1, <2>1, <2>3 DEF ToVenue, Send, BooksInv
  <2>8. Orderly(D, W, B)
    BY <2>4, <2>5, <2>6, <2>7, OrderlySend
  <2> QED BY <1>2, <2>3, <2>8 DEF ToVenue, outside
<1> QED BY <1>2, <1>5, <1>7, <1>8, <1>10, <1>11, EngineKeepsRing

-----------------------------------------------------------------------------
(***************************************************************************)
(* The engine handles an event of its ring.                                *)
(***************************************************************************)

\* What is handled is booked right, and a command sent for it is a cancel.
BooksRight(m) ==
  /\ [Next]_vars /\ Kept' /\ SameTerms /\ Bookings'
  /\ Range(execs') = Range(execs) \cup {e.fill.exec : e \in {d \in {m} : IsFill(d)}}
  /\ cmds' = cmds \/ \E id \in Ids : Send(CancelCmd(id))

LEMMA QuietEvent ==
  ASSUME BooksInv, NEW m, ~IsFill(m), [Next]_vars, SameAccounts, Kept', execs' = execs, Book(0),
         UNCHANGED <<orders, trades>>, cmds' = cmds \/ \E id \in Ids : Send(CancelCmd(id))
  PROVE  BooksRight(m)
<1>1. booked' = booked
  BY BookedNumber DEF Book
<1>2. Bookings'
  BY <1>1, SameBookings DEF BooksInv, Bookings
<1>3. SameTerms
  BY SameIsTerms DEF BooksInv, TableInv
<1>4. Range(execs') = Range(execs) \cup {e.fill.exec : e \in {d \in {m} : IsFill(d)}}
  OBVIOUS
<1> QED BY <1>2, <1>3, <1>4 DEF BooksRight

LEMMA ReportEvent ==
  ASSUME SessionFits, BooksInv, NEW m, ~IsFill(m), NEW l \in Ids, NEW c \in Qty, c <= orders[l].cum,
         OnCancelAck(l, c) \/ ReconcileOpenOrder(l, c), Book(Missed(l, c)),
         UNCHANGED <<orders, trades>>, cmds' = cmds \/ \E id \in Ids : Send(CancelCmd(id))
  PROVE  BooksRight(m)
<1>1. [Next]_vars
  BY DEF Next, Inbound, Reconciliation
<1>2. TableInv /\ IInv /\ Kept /\ AtVenue /\ Bookings
  BY DEF BooksInv, TableInv, Bookings
<1>3. IInv'
  BY <1>1, <1>2, TableStep
<1>4. /\ Bookings' /\ Kept' /\ execs' = execs /\ seq' = seq
      /\ \A k \in Ids : Account(k)'.qty = Account(k).qty
  BY <1>2, <1>3, AbsorbBookings
<1>5. SameTerms
  BY <1>2, <1>4, TermsKept
<1>6. Range(execs') = Range(execs) \cup {e.fill.exec : e \in {d \in {m} : IsFill(d)}}
  BY <1>4
<1> QED BY <1>1, <1>4, <1>5, <1>6 DEF BooksRight

LEMMA FillEvent ==
  ASSUME SessionFits, BooksInv, NEW m, IsFill(m), NEW f, f = m.fill, f \in Fills, IsExecution(f),
         ComesLast(f), OnFill(f), Book(Fresh(f)), UNCHANGED <<orders, trades>>, cmds' = cmds
  PROVE  BooksRight(m)
<1>1. [Next]_vars
  BY DEF Next, Inbound
<1>2. TableInv /\ IInv /\ AtVenue /\ Bookings
  BY DEF BooksInv, TableInv, Bookings
<1>3. IInv'
  BY <1>1, <1>2, TableStep
<1>4. /\ Bookings' /\ Kept' /\ seq' = seq /\ Range(execs') = Range(execs) \cup {f.exec}
      /\ \A k \in Ids : Account(k)'.qty = Account(k).qty
  BY <1>2, <1>3, FillBookings
<1>5. SameTerms
  BY <1>2, <1>4, TermsKept
<1>6. {e.fill.exec : e \in {d \in {m} : IsFill(d)}} = {f.exec}
  OBVIOUS
<1> QED BY <1>1, <1>4, <1>5, <1>6 DEF BooksRight

LEMMA HandlesRight ==
  ASSUME SessionFits, BooksInv, EngineHandle, NEW m, m = Head(ring)
  PROVE  BooksRight(m)
<1>1. ring # <<>> /\ ring \in Seq(TrueEvents)
  BY DEF EngineHandle, BooksInv, FromVenue
<1>2. m \in TrueEvents
  BY <1>1, HeadTail
<1>3. UNCHANGED <<orders, trades>>
  BY DEF EngineHandle, venue
<1>4. IInv /\ Kept /\ EndingOrdersAreUnseen
  BY DEF BooksInv, TableInv
<1>5. CASE m.t = "ack" /\ OnAck(m.id, FALSE) /\ Book(0) /\ CancelUnknown(m.id, AckOfUntracked(m.id))
  <2>1. m.id \in Ids /\ ~IsFill(m)
    BY <1>2, <1>5, EventFacts DEF IsFill
  <2>2. SameAccounts /\ Kept' /\ execs' = execs
    BY <1>4, <1>5, <2>1, AckSame
  <2>3. [Next]_vars
    BY <1>5, <2>1 DEF Next, Inbound
  <2>4. cmds' = cmds \/ \E id \in Ids : Send(CancelCmd(id))
    BY <1>5, <2>1 DEF CancelUnknown
  <2> QED BY <1>3, <1>5, <2>1, <2>2, <2>3, <2>4, QuietEvent
<1>6. CASE m.t = "reject" /\ OnReject(m.id) /\ Book(0) /\ UNCHANGED cmds
  <2>1. m.id \in Ids /\ ~IsFill(m)
    BY <1>2, <1>6, EventFacts DEF IsFill
  <2>2. SameAccounts /\ Kept' /\ execs' = execs
    BY <1>4, <1>6, <2>1, AckSame
  <2>3. [Next]_vars
    BY <1>6, <2>1 DEF Next, Inbound
  <2> QED BY <1>3, <1>6, <2>1, <2>2, <2>3, QuietEvent
<1>7. CASE m.t = "cancelAck" /\ OnCancelAck(m.id, m.cum) /\ Book(Missed(m.id, m.cum)) /\ UNCHANGED cmds
  <2>1. m.id \in Ids /\ m.cum \in Qty /\ m.cum <= orders[m.id].cum /\ ~IsFill(m)
    BY <1>2, <1>7, EventFacts DEF IsFill
  <2> QED BY <1>3, <1>7, <2>1, ReportEvent
<1>8. CASE m.t = "cancelReject" /\ OnCancelReject(m.id, m.gone) /\ Book(0) /\ UNCHANGED cmds
  <2>1. m.id \in Ids /\ m.gone \in BOOLEAN /\ ~IsFill(m)
    BY <1>2, <1>8, EventFacts DEF IsFill
  <2>2. SameAccounts /\ Kept' /\ execs' = execs
    BY <1>4, <1>8, <2>1, AckSame
  <2>3. [Next]_vars
    BY <1>8, <2>1 DEF Next, Inbound
  <2> QED BY <1>3, <1>8, <2>1, <2>2, <2>3, QuietEvent
<1>9. CASE m.t = "fill" /\ OnFill(m.fill) /\ Book(Fresh(m.fill)) /\ UNCHANGED cmds
  <2>1. m.fill \in Fills /\ IsExecution(m.fill) /\ IsFill(m)
    BY <1>2, <1>9, EventFacts DEF IsFill
  <2>2. PICK E, R, X, n : E = Range(execs) /\ R = ring /\ X = exTopic /\ n = replay.emitted
    OBVIOUS
  <2>3. Turns(E, R, X, n) /\ R \in Seq(TrueEvents) /\ R # <<>> /\ m = Head(R)
    BY <1>1, <2>2 DEF BooksInv, Turn
  <2>4. ~m.fill.replayed => m.fill.exec \in E \/ \A j \in E : j < m.fill.exec
    BY <2>1, <2>3, HeadComesLast
  <2>5. ComesLast(m.fill)
    BY <2>2, <2>4 DEF ComesLast
  <2> QED BY <1>3, <1>9, <2>1, <2>5, FillEvent
<1>10. CASE /\ m.t = "begin" /\ ReconcileBegin([bounded |-> TRUE, watermark |-> m.mark])
            /\ Book(0) /\ UNCHANGED cmds
  <2>1. m.mark \in Ids \cup {NoId} /\ ~IsFill(m)
    BY <1>2, <1>10, EventFacts DEF IsFill
  <2>2. [bounded |-> TRUE, watermark |-> m.mark] \in Scopes
    BY <2>1 DEF Scopes
  <2>3. SameAccounts /\ Kept' /\ execs' = execs
    BY <1>4, <1>10, <2>2, ReconcileSame
  <2>4. [Next]_vars
    BY <1>10, <2>2 DEF Next, Reconciliation
  <2> QED BY <1>3, <1>10, <2>1, <2>3, <2>4, QuietEvent
<1>11. CASE m.t = "row" /\ ReconcileOpenOrder(m.id, m.cum) /\ Book(Missed(m.id, m.cum))
            /\ CancelUnknown(m.id, ~IsOpen(m.id))
  <2>1. m.id \in Ids /\ m.cum \in Qty /\ m.cum <= orders[m.id].cum /\ ~IsFill(m)
    BY <1>2, <1>11, EventFacts DEF IsFill
  <2>2. cmds' = cmds \/ \E id \in Ids : Send(CancelCmd(id))
    BY <1>11, <2>1 DEF CancelUnknown
  <2> QED BY <1>3, <1>11, <2>1, <2>2, ReportEvent
<1>12. CASE m.t = "end" /\ ReconcileEnd /\ Book(0) /\ UNCHANGED cmds
  <2>1. ~IsFill(m)
    BY <1>12 DEF IsFill
  <2>2. SameAccounts /\ Kept' /\ execs' = execs
    BY <1>4, <1>12, ReconcileSame
  <2>3. [Next]_vars
    BY <1>12 DEF Next, Reconciliation
  <2> QED BY <1>3, <1>12, <2>1, <2>2, <2>3, QuietEvent
<1> QED BY <1>5, <1>6, <1>7, <1>8, <1>9, <1>10, <1>11, <1>12 DEF EngineHandle

LEMMA EngineHandleKeeps ==
  ASSUME SessionFits, BooksInv, EngineHandle
  PROVE  BooksInv'
<1>1. PICK m, E, F, R, Q, X, n : /\ m = Head(ring) /\ E = Range(execs) /\ F = Range(execs') /\ R = ring
                                 /\ Q = ring' /\ X = exTopic /\ n = replay.emitted
  OBVIOUS
<1>2. BooksRight(m)
  BY <1>1, HandlesRight
<1>3. UNCHANGED outside
  BY DEF EngineHandle, outside, idMaps, watermark, rest, trade, topics, venue
<1>4. SameTerms /\ Bookings'
  BY <1>2 DEF BooksRight
<1>5. TableInv'
  BY <1>2, TableStep DEF BooksRight, BooksInv, TableInv
<1>6. ToVenue'
  <2>1. CASE cmds' = cmds
    BY <1>3, <1>4, <2>1, SameToVenue DEF BooksInv, outside
  <2>2. CASE \E id \in Ids : Send(CancelCmd(id))
    BY <1>3, <1>4, <2>2, SendsCancel DEF BooksInv, outside
  <2> QED BY <1>2, <2>1, <2>2 DEF BooksRight
<1>7. R \in Seq(TrueEvents) /\ R # <<>> /\ Turns(E, R, X, n) /\ Q = Tail(R) /\ m = Head(R)
  BY <1>1 DEF EngineHandle, BooksInv, FromVenue, Turn
<1>8. F = E \cup {e.fill.exec : e \in {d \in {m} : IsFill(d)}}
  BY <1>1, <1>2 DEF BooksRight
<1>9. Turns(F, Q, X, n)
  BY <1>7, <1>8, TurnsPop
<1>10. Q \in Seq(TrueEvents)
  BY <1>7, HeadTail
<1> QED BY <1>1, <1>3, <1>4, <1>5, <1>6, <1>9, <1>10, EngineKeeps

-----------------------------------------------------------------------------
(***************************************************************************)
(* The connector's steps.                                                  *)
(***************************************************************************)

inside == <<vars, booked, orders, trades>>

LEMMA ConnectorKeeps ==
  ASSUME BooksInv, UNCHANGED inside, Connector', ToVenue', FromVenue', Turn'
  PROVE  BooksInv'
<1>1. UNCHANGED vars /\ UNCHANGED <<orders, trades>> /\ booked' = booked
  BY DEF inside
<1>2. TableInv' /\ SameAccounts /\ SameTerms /\ execs' = execs
  BY <1>1, SameTable DEF BooksInv
<1>3. AtVenue'
  BY <1>1, <1>2, SameAtVenue DEF BooksInv
<1>4. Bookings'
  BY <1>1, <1>2, SameBookings DEF BooksInv, Bookings
<1> QED BY <1>2, <1>3, <1>4 DEF BooksInv, Bookings

LEMMA InsideFacts ==
  ASSUME BooksInv, UNCHANGED inside
  PROVE  /\ TrueEvents' = TrueEvents /\ TrueStates' = TrueStates /\ TrueStreamed' = TrueStreamed
         /\ Sendable \subseteq Sendable' /\ execs' = execs /\ trades' = trades /\ orders' = orders
<1>1. UNCHANGED vars /\ UNCHANGED <<orders, trades>>
  BY DEF inside
<1>2. SameTerms /\ execs' = execs
  BY <1>1, SameTable DEF BooksInv
<1> QED BY <1>1, <1>2, SameTrue, SendableStays

LEMMA QuietToVenue ==
  ASSUME BooksInv, UNCHANGED inside, UNCHANGED <<cmds, wire>>
  PROVE  ToVenue'
<1>1. UNCHANGED vars /\ orders' = orders
  BY DEF inside
<1>2. SameTerms
  BY <1>1, SameTable DEF BooksInv
<1> QED BY <1>1, <1>2, SameToVenue DEF BooksInv

\* What a step may do to the replay without moving its watermark.
ReplayKept == /\ replay' \in Replays /\ replay'.emitted = replay.emitted
              /\ replay'.st = "read" => replay.st = "read" /\ replay'.rows = replay.rows

LEMMA AskedKeeps ==
  ASSUME replay \in Replays, replay' = Asked(replay)
  PROVE  ReplayKept
  BY DEF Replays, Asked, ReplayKept

LEMMA RequestKeeps ==
  ASSUME Connector, Request
  PROVE  ReplayKept /\ recon' \in Recons /\ recon'.snap = recon.snap
<1>1. recon \in Recons /\ replay \in Replays
  BY DEF Connector
<1>2. ReplayKept
  <2>1. CASE replay' = Asked(replay)
    BY <1>1, <2>1, AskedKeeps
  <2>2. CASE replay' = replay
    BY <1>1, <2>2 DEF ReplayKept
  <2> QED BY <2>1, <2>2 DEF Request, rest
<1>3. \/ recon' = recon \/ recon' = [recon EXCEPT !.st = "waiting"] \/ recon' = [recon EXCEPT !.again = TRUE]
  BY DEF Request, rest
<1>4. recon' \in Recons /\ recon'.snap = recon.snap
  BY <1>1, <1>3 DEF Recons
<1> QED BY <1>2, <1>4

LEMMA ForgetKeeps ==
  ASSUME NoAlias, NEW gone, ForgetAll(gone)
  PROVE  NoAlias'
<1>1. alias' = [l \in Ids |-> NoId]
  BY DEF NoAlias, ForgetAll
<1>2. shadow' = [id \in Ids |-> IF id \in gone THEN NoShadow ELSE shadow[id]]
  BY DEF ForgetAll
<1>3. NoShadow \in [link : Ids \cup {NoId}, replaces : {NoId}]
  BY DEF NoShadow
<1> QED BY <1>1, <1>2, <1>3 DEF NoAlias

LEMMA CurrentIdIs ==
  ASSUME NoAlias, NEW l \in Ids
  PROVE  CurrentId(l) = l
  BY DEF NoAlias, CurrentId

LEMMA TurnStays ==
  ASSUME Turn, ReplayKept, UNCHANGED <<execs, trades>>, NEW Q, Q = ring', NEW Y, Y = exTopic',
         Turns(Range(execs), Q, Y, replay.emitted)
  PROVE  Turn'
  BY DEF Turn, ReplayKept

LEMMA QuietTurn ==
  ASSUME Turn, ReplayKept, UNCHANGED <<execs, trades, ring, exTopic>>
  PROVE  Turn'
  BY DEF Turn, ReplayKept

\* A notice or a report is pushed.
LEMMA PushTurn ==
  ASSUME FromVenue, Turn, ReplayKept, UNCHANGED <<execs, trades, exTopic>>,
         NEW d \in TrueEvents, ~IsFill(d), Push(d)
  PROVE  Turn' /\ ring' \in Seq(TrueEvents)
<1>1. PICK R, E, X, n, Q, u, S : /\ R = ring /\ E = Range(execs) /\ X = exTopic /\ n = replay.emitted
                                 /\ Q = ring' /\ u = <<d>> /\ S = TrueEvents
  OBVIOUS
<1>2. Turns(E, R, X, n) /\ R \in Seq(S) /\ d \in S /\ Q = Append(R, d)
  BY <1>1 DEF Turn, FromVenue, Push
<1>3. u \in Seq(S) /\ Q = R \o u /\ DOMAIN u = {1} /\ u[1] = d
  BY <1>1, <1>2, AppendIsConcat
<1>4. Turns(E, Q, X, n)
  BY <1>2, <1>3, TurnsPushOther
<1>5. Q \in Seq(S)
  BY <1>2, Appended
<1> QED BY <1>1, <1>4, <1>5, TurnStays

LEMMA NoReplayKept ==
  ASSUME Connector, UNCHANGED replay
  PROVE  ReplayKept
  BY DEF Connector, ReplayKept

LEMMA OrderlyMore ==
  ASSUME NEW C, NEW W, NEW A, NEW B, Orderly(C, W, A), A \subseteq B
  PROVE  Orderly(C, W, B)
  BY DEF Orderly

LEMMA TakeCommandKeeps ==
  ASSUME BooksInv, TakeCommand
  PROVE  BooksInv'
<1>1. UNCHANGED inside /\ UNCHANGED <<alias, replay, recon, resp, ordTopic, exTopic>>
  BY DEF TakeCommand, inside, engine, venue, rest, topics
<1>2. Connector /\ NoAlias /\ cmds \in Seq(Commands) /\ cmds # <<>> /\ Turn /\ FromVenue
  BY DEF BooksInv, Connector, ToVenue, Orderly, TakeCommand
<1>3. PICK c : c = Head(cmds)
  OBVIOUS
<1>4. c \in Commands
  BY <1>2, <1>3, HeadTail
<1>5. c.kind \in {"New", "Cancel"} /\ c.id \in Ids /\ c.qty \in Qty
  BY <1>4 DEF Commands
<1>6. \/ /\ c.kind = "New" /\ sentTo' = c.id /\ unanswered' = unanswered \cup {c.id}
         /\ shadow' = [shadow EXCEPT ![c.id] = [link |-> c.id, replaces |-> NoId]]
         /\ wire' = Append(wire, [kind |-> "New", id |-> c.id, link |-> c.id, qty |-> c.qty])
         /\ ring' = ring
      \/ /\ c.kind = "Cancel" /\ UNCHANGED <<sentTo, unanswered, shadow, ring>>
         /\ wire' = Append(wire, [kind |-> "Cancel", id |-> c.id, qty |-> 0,
                                  link |-> IF Known(c.id) THEN shadow[c.id].link ELSE c.id])
  BY <1>3, <1>5 DEF TakeCommand, watermark
<1>7. Connector'
  <2>1. NoAlias'
    <3>1. CASE shadow' = shadow
      BY <1>1, <1>2, <3>1 DEF NoAlias
    <3>2. CASE shadow' = [shadow EXCEPT ![c.id] = [link |-> c.id, replaces |-> NoId]]
      BY <1>1, <1>2, <1>5, <3>2 DEF NoAlias
    <3> QED BY <1>6, <3>1, <3>2
  <2>2. sentTo' \in Ids \cup {NoId} /\ unanswered' \in SUBSET Ids
    BY <1>2, <1>5, <1>6 DEF Connector
  <2> QED BY <1>1, <1>2, <2>1, <2>2 DEF Connector
<1>8. ToVenue'
  <2>1. PICK C, W, D, V, A, B : /\ C = cmds /\ W = wire /\ D = cmds' /\ V = wire'
                                /\ A = Sendable /\ B = Sendable'
    OBVIOUS
  <2>2. Orderly(C, W, A) /\ C # <<>> /\ c = Head(C) /\ D = Tail(C)
    BY <1>2, <1>3, <2>1 DEF BooksInv, ToVenue, TakeCommand
  <2>3. PICK r \in Requests : /\ r.kind = c.kind /\ r.id = c.id /\ V = Append(W, r)
                              /\ c.kind = "New" => r.qty = c.qty /\ r.link = r.id
    <3>1. CASE c.kind = "New"
      <4>1. [kind |-> "New", id |-> c.id, link |-> c.id, qty |-> c.qty] \in Requests
        BY <1>5 DEF Requests
      <4> QED BY <1>6, <2>1, <3>1, <4>1
    <3>2. CASE c.kind = "Cancel"
      <4>1. PICK k : k = IF Known(c.id) THEN shadow[c.id].link ELSE c.id
        OBVIOUS
      <4>2. k \in Ids
        BY <1>2, <1>5, <4>1 DEF NoAlias, Known
      <4>3. [kind |-> "Cancel", id |-> c.id, qty |-> 0, link |-> k] \in Requests
        BY <1>5, <4>2, OmsAssumption DEF Requests, Qty
      <4> QED BY <1>6, <2>1, <3>2, <4>1, <4>3
    <3> QED BY <1>5, <3>1, <3>2
  <2>4. Orderly(D, V, A)
    BY <2>2, <2>3, OrderlyTake
  <2>5. A \subseteq B
    BY <1>1, <2>1, InsideFacts
  <2>6. Orderly(D, V, B)
    BY <2>4, <2>5, OrderlyMore
  <2> QED BY <2>1, <2>6 DEF ToVenue
<1>9. ring' = ring
  BY <1>6
<1>10. FromVenue'
  BY <1>1, <1>2, <1>9, SameFromVenue DEF inside
<1>11. Turn'
  BY <1>1, <1>2, <1>9, SameTurn, InsideFacts
<1> QED BY <1>1, <1>7, <1>8, <1>10, <1>11, ConnectorKeeps

\* An event that carries no execution is on its way to the engine.
LEMMA PushKeeps ==
  ASSUME BooksInv, UNCHANGED inside, UNCHANGED <<cmds, wire, exTopic>>, Connector', ReplayKept,
         recon'.snap = recon.snap, resp' \in Seq(Replies), ordTopic' \in Seq(TrueStates),
         ring' = ring \/ \E d \in TrueEvents : ~IsFill(d) /\ Push(d)
  PROVE  BooksInv'
<1>1. Turn /\ FromVenue
  BY DEF BooksInv
<1>2. /\ TrueEvents' = TrueEvents /\ TrueStates' = TrueStates /\ TrueStreamed' = TrueStreamed
      /\ execs' = execs /\ trades' = trades /\ orders' = orders
  BY InsideFacts
<1>3. Turn' /\ ring' \in Seq(TrueEvents)
  <2>1. CASE ring' = ring
    BY <1>1, <1>2, <2>1, QuietTurn DEF FromVenue
  <2>2. CASE \E d \in TrueEvents : ~IsFill(d) /\ Push(d)
    <3>1. PICK d \in TrueEvents : ~IsFill(d) /\ Push(d)
      BY <2>2
    <3> QED BY <1>1, <1>2, <3>1, PushTurn
  <2> QED BY <2>1, <2>2
<1>4. FromVenue'
  BY <1>1, <1>2, <1>3 DEF FromVenue
<1>5. ToVenue'
  BY QuietToVenue
<1> QED BY <1>3, <1>4, <1>5, ConnectorKeeps

\* The events of the trade connection and of the order topic.
LEMMA NoticeIs ==
  ASSUME NEW l \in Ids, NEW b \in BOOLEAN
  PROVE  /\ [t |-> "ack", id |-> l] \in TrueEvents /\ ~IsFill([t |-> "ack", id |-> l])
         /\ [t |-> "reject", id |-> l] \in TrueEvents /\ ~IsFill([t |-> "reject", id |-> l])
         /\ [t |-> "cancelReject", id |-> l, gone |-> b] \in TrueEvents
         /\ ~IsFill([t |-> "cancelReject", id |-> l, gone |-> b])
<1>1. /\ [t |-> "ack", id |-> l] \in Notices
      /\ [t |-> "reject", id |-> l] \in Notices
      /\ [t |-> "cancelReject", id |-> l, gone |-> b] \in Notices
  BY DEF Notices
<1> QED BY <1>1 DEF TrueEvents, IsFill

LEMMA ReportIs ==
  ASSUME NEW l \in Ids, NEW c \in Qty, c <= orders[l].cum, NEW t \in {"cancelAck", "row"}
  PROVE  [t |-> t, id |-> l, cum |-> c] \in TrueEvents /\ ~IsFill([t |-> t, id |-> l, cum |-> c])
<1>1. [t |-> t, id |-> l, cum |-> c] \in TrueReports
  BY DEF TrueReports, Reports
<1> QED BY <1>1 DEF TrueEvents, IsFill

LEMMA TradeResponseKeeps ==
  ASSUME BooksInv, TradeResponse
  PROVE  BooksInv'
<1>1. UNCHANGED inside /\ UNCHANGED <<cmds, wire, ordTopic, exTopic>>
  BY DEF TradeResponse, inside, engine, venue, topics
<1>2. Connector /\ NoAlias /\ resp \in Seq(Replies) /\ resp # <<>> /\ ordTopic \in Seq(TrueStates)
  BY DEF BooksInv, Connector, FromVenue, TradeResponse
<1>3. PICK r : r = Head(resp)
  OBVIOUS
<1>4. r \in Replies /\ resp' \in Seq(Replies)
  BY <1>2, <1>3, HeadTail DEF TradeResponse
<1>5. r.kind \in {"New", "Cancel"} /\ r.id \in Ids
  BY <1>4 DEF Replies
<1>6. ReplayKept /\ recon' \in Recons /\ recon'.snap = recon.snap
  <2>1. CASE Request
    BY <1>2, <2>1, RequestKeeps
  <2>2. CASE UNCHANGED rest
    BY <1>2, <2>2, NoReplayKept DEF rest, Connector
  <2> QED BY <1>3, <2>1, <2>2 DEF TradeResponse
<1>7. sentTo' = sentTo /\ unanswered' \in SUBSET Ids
  BY <1>2, <1>3 DEF TradeResponse, Answered, watermark, Connector
<1>8. orders[r.id].cum >= 0
  BY <1>5 DEF BooksInv, AtVenue, VenueOrders, Qty
<1>9. NoAlias' /\ (ring' = ring \/ \E d \in TrueEvents : ~IsFill(d) /\ Push(d))
  <2>1. CASE r.kind = "New" /\ r.is = "ok" /\ Push([t |-> "ack", id |-> r.id]) /\ UNCHANGED idMaps
    BY <1>2, <1>5, <2>1, NoticeIs DEF idMaps, NoAlias
  <2>2. CASE r.kind = "New" /\ r.is # "ok" /\ Push([t |-> "reject", id |-> r.id]) /\ Forget(r.id)
    BY <1>2, <1>5, <2>2, NoticeIs, ForgetKeeps DEF Forget
  <2>3. CASE UNCHANGED <<ring, idMaps>>
    BY <1>2, <2>3 DEF idMaps, NoAlias
  <2>4. CASE Push([t |-> "cancelAck", id |-> r.id, cum |-> 0]) /\ Forget(r.id)
    <3>1. 0 \in Qty
      BY OmsAssumption DEF Qty
    <3>2. [t |-> "cancelAck", id |-> r.id, cum |-> 0] \in TrueEvents
          /\ ~IsFill([t |-> "cancelAck", id |-> r.id, cum |-> 0])
      BY <1>5, <1>8, <3>1, ReportIs
    <3>3. NoAlias'
      BY <1>2, <2>4, ForgetKeeps DEF Forget
    <3> QED BY <2>4, <3>2, <3>3
  <2>5. CASE Push([t |-> "cancelReject", id |-> r.id, gone |-> r.is = "gone"]) /\ UNCHANGED idMaps
    <3>1. PICK b \in BOOLEAN : b = (r.is = "gone")
      OBVIOUS
    <3> QED BY <1>2, <1>5, <2>5, <3>1, NoticeIs DEF idMaps, NoAlias
  <2> QED BY <1>3, <1>5, <2>1, <2>2, <2>3, <2>4, <2>5 DEF TradeResponse
<1>10. Connector'
  BY <1>2, <1>6, <1>7, <1>9 DEF Connector, ReplayKept
<1> QED BY <1>1, <1>2, <1>4, <1>6, <1>9, <1>10, PushKeeps

LEMMA OrderEventKeeps ==
  ASSUME BooksInv, OrderEvent
  PROVE  BooksInv'
<1>1. UNCHANGED inside /\ UNCHANGED <<cmds, wire, resp, exTopic, replay, recon>>
  BY DEF OrderEvent, inside, engine, venue, trade, rest
<1>2. /\ Connector /\ NoAlias /\ resp \in Seq(Replies) /\ ordTopic # <<>> /\ ordTopic \in Seq(TrueStates)
  BY DEF BooksInv, Connector, FromVenue, OrderEvent
<1>3. PICK e : e = Head(ordTopic)
  OBVIOUS
<1>4. e \in TrueStates /\ ordTopic' \in Seq(TrueStates)
  BY <1>2, <1>3, HeadTail DEF OrderEvent
<1>5. e.link \in Ids /\ e.cum \in Qty /\ e.cum <= orders[e.link].cum
  BY <1>4 DEF TrueStates, States
<1>6. PICK id : id = e.link
  OBVIOUS
<1>7. id \in Ids /\ CurrentId(e.link) = id
  BY <1>2, <1>5, <1>6, CurrentIdIs
<1>8. ReplayKept /\ recon' \in Recons /\ recon'.snap = recon.snap
  BY <1>1, <1>2, NoReplayKept DEF Connector
<1>9. sentTo' = sentTo /\ unanswered' \in SUBSET Ids
  BY <1>2 DEF OrderEvent, Answered, Connector
<1>10. NoAlias' /\ (ring' = ring \/ \E d \in TrueEvents : ~IsFill(d) /\ Push(d))
  <2>1. CASE Push([t |-> "ack", id |-> id]) /\ UNCHANGED idMaps
    BY <1>2, <1>7, <2>1, NoticeIs DEF idMaps, NoAlias
  <2>2. CASE Push([t |-> "reject", id |-> id]) /\ Forget(id)
    BY <1>2, <1>7, <2>2, NoticeIs, ForgetKeeps DEF Forget
  <2>3. CASE Push([t |-> "cancelAck", id |-> id, cum |-> e.cum]) /\ Forget(id)
    <3>1. [t |-> "cancelAck", id |-> id, cum |-> e.cum] \in TrueEvents
          /\ ~IsFill([t |-> "cancelAck", id |-> id, cum |-> e.cum])
      BY <1>5, <1>6, ReportIs
    <3>2. NoAlias'
      BY <1>2, <2>3, ForgetKeeps DEF Forget
    <3> QED BY <2>3, <3>1, <3>2
  <2> QED BY <1>3, <1>7, <2>1, <2>2, <2>3 DEF OrderEvent
<1>11. Connector'
  BY <1>1, <1>2, <1>9, <1>10 DEF Connector
<1> QED BY <1>1, <1>2, <1>4, <1>8, <1>10, <1>11, PushKeeps

LEMMA StreamedFacts ==
  ASSUME SessionFits, BooksInv, NEW e \in TrueStreamed
  PROVE  /\ e.link \in Ids /\ e.exec \in Nat /\ e.exec > 0 /\ e.exec \in TradeIds
         /\ [id |-> e.link, exec |-> e.exec, qty |-> e.qty, cum |-> e.cum, replayed |-> FALSE] \in Fills
         /\ IsExecution([id |-> e.link, exec |-> e.exec, qty |-> e.qty, cum |-> e.cum, replayed |-> FALSE])
<1>1. /\ e.link \in Ids /\ e.qty \in 1 .. MaxQty /\ e.cum \in 1 .. MaxQty /\ e.exec \in Nat
      /\ Execution(e.link, e.exec, e.qty) /\ e.cum = UpTo(e.link, e.exec)
  BY DEF TrueStreamed, Streamed
<1>2. e.exec \in TradeIds
  BY <1>1 DEF Execution
<1>3. e.exec > 0
  BY <1>1, <1>2 DEF TradeIds
<1>4. TradeIds \subseteq Execs
  BY ExecutionsFit DEF BooksInv
<1>5. PICK f : f = [id |-> e.link, exec |-> e.exec, qty |-> e.qty, cum |-> e.cum, replayed |-> FALSE]
  OBVIOUS
<1>6. f \in Fills
  BY <1>1, <1>2, <1>4, <1>5 DEF Fills
<1>7. IsExecution(f)
  BY <1>1, <1>5 DEF IsExecution
<1> QED BY <1>1, <1>2, <1>3, <1>5, <1>6, <1>7

LEMMA ExecutionEventKeeps ==
  ASSUME SessionFits, BooksInv, ExecutionEvent
  PROVE  BooksInv'
<1>1. UNCHANGED inside /\ UNCHANGED <<cmds, wire, resp, ordTopic, replay, recon>>
  BY DEF ExecutionEvent, inside, engine, venue, trade, rest
<1>2. /\ Connector /\ NoAlias /\ exTopic # <<>> /\ exTopic \in Seq(TrueStreamed) /\ Turn /\ FromVenue
  BY DEF BooksInv, Connector, FromVenue, ExecutionEvent
<1>3. PICK e : e = Head(exTopic)
  OBVIOUS
<1>4. e \in TrueStreamed /\ exTopic' \in Seq(TrueStreamed)
  BY <1>2, <1>3, HeadTail DEF ExecutionEvent
<1>5. PICK f : f = [id |-> e.link, exec |-> e.exec, qty |-> e.qty, cum |-> e.cum, replayed |-> FALSE]
  OBVIOUS
<1>6. f \in Fills /\ IsExecution(f) /\ e.link \in Ids
  BY <1>4, <1>5, StreamedFacts
<1>7. CurrentId(e.link) = e.link
  BY <1>2, <1>6, CurrentIdIs
<1>8. PICK d : d = [t |-> "fill", fill |-> f]
  OBVIOUS
<1>9. d \in TrueEvents /\ IsFill(d) /\ d.fill.exec = e.exec
  <2>1. d \in TrueFills
    BY <1>6, <1>8 DEF TrueFills, FillMsgs
  <2> QED BY <1>5, <1>8, <2>1 DEF TrueEvents, IsFill
<1>10. Push(d)
  BY <1>3, <1>5, <1>7, <1>8 DEF ExecutionEvent
<1>11. Connector'
  <2>1. NoAlias'
    BY <1>2, ForgetKeeps DEF ExecutionEvent, Forget, idMaps, NoAlias
  <2>2. sentTo' = sentTo /\ unanswered' \in SUBSET Ids
    BY <1>2 DEF ExecutionEvent, Answered, Connector
  <2> QED BY <1>1, <1>2, <2>1, <2>2 DEF Connector
<1>12. PICK R, E, X, Y, n, Q, S : /\ R = ring /\ E = Range(execs) /\ X = exTopic /\ n = replay.emitted
                                 /\ Q = ring' /\ Y = exTopic' /\ S = TrueEvents
  OBVIOUS
<1>13. /\ Turns(E, R, X, n) /\ R \in Seq(S) /\ d \in S /\ Q = Append(R, d) /\ X \in Seq(TrueStreamed)
       /\ X # <<>> /\ Y = Tail(X) /\ e = Head(X) /\ n \in Nat
  BY <1>2, <1>3, <1>9, <1>10, <1>12 DEF Turn, FromVenue, Push, ExecutionEvent, Connector, Replays
<1>14. \A i \in DOMAIN X : X[i].exec \in Nat /\ X[i].exec > 0
  <2>1. \A i \in DOMAIN X : X[i] \in TrueStreamed
    BY <1>13
  <2> QED BY <2>1, StreamedFacts
<1>15. Turns(E, Q, Y, n)
  BY <1>9, <1>13, <1>14, TurnsLive
<1>16. /\ TrueEvents' = TrueEvents /\ TrueStates' = TrueStates /\ TrueStreamed' = TrueStreamed
       /\ execs' = execs /\ trades' = trades /\ orders' = orders
  BY <1>1, InsideFacts
<1>17. Turn'
  <2>1. ReplayKept
    BY <1>1, <1>2, NoReplayKept
  <2> QED BY <1>2, <1>12, <1>15, <1>16, <2>1, TurnStays
<1>18. FromVenue'
  <2>1. Q \in Seq(S)
    BY <1>13, Appended
  <2> QED BY <1>1, <1>2, <1>4, <1>12, <1>16, <2>1 DEF FromVenue
<1>19. ToVenue'
  BY <1>1, QuietToVenue
<1> QED BY <1>1, <1>11, <1>17, <1>18, <1>19, ConnectorKeeps

LEMMA EmptyStream == \A S : <<>> \in Seq(S)
  OBVIOUS

LEMMA PrivateLostKeeps ==
  ASSUME BooksInv, PrivateLost
  PROVE  BooksInv'
<1>1. /\ UNCHANGED inside /\ UNCHANGED <<cmds, wire, resp, ring, replay, recon>>
      /\ UNCHANGED <<shadow, alias, sentTo, unanswered>>
  BY DEF PrivateLost, inside, engine, venue, trade, rest, idMaps, watermark
<1>2. Connector /\ Turn /\ FromVenue
  BY DEF BooksInv
<1>3. /\ TrueEvents' = TrueEvents /\ TrueStates' = TrueStates /\ TrueStreamed' = TrueStreamed
      /\ execs' = execs /\ trades' = trades /\ orders' = orders
  BY <1>1, InsideFacts
<1>4. Connector'
  BY <1>1, <1>2, SameConnector
<1>5. ordTopic' = <<>> /\ exTopic' = <<>>
  BY DEF PrivateLost
<1>6. PICK R, E, X, Y, n : /\ R = ring /\ E = Range(execs) /\ X = exTopic
                           /\ n = replay.emitted /\ Y = exTopic'
  OBVIOUS
<1>7. Turns(E, R, X, n) /\ DOMAIN Y = {}
  BY <1>2, <1>5, <1>6 DEF Turn
<1>8. Turns(E, R, Y, n)
  BY <1>7, Zenon DEF Turns
<1>9. Turn'
  <2>1. ReplayKept
    BY <1>1, <1>2, NoReplayKept
  <2> QED BY <1>1, <1>2, <1>3, <1>6, <1>8, <2>1, TurnStays
<1>10. FromVenue'
  <2>1. ordTopic' \in Seq(TrueStates) /\ exTopic' \in Seq(TrueStreamed)
    BY <1>5, EmptyStream
  <2> QED BY <1>1, <1>2, <1>3, <2>1 DEF FromVenue
<1>11. ToVenue'
  BY <1>1, QuietToVenue
<1> QED BY <1>1, <1>4, <1>9, <1>10, <1>11, ConnectorKeeps

\* The replay and the reconciliation change, nothing is pushed.
LEMMA RestKeeps ==
  ASSUME BooksInv, UNCHANGED inside, UNCHANGED <<cmds, wire, resp, ring, ordTopic, exTopic, shadow, alias>>,
         sentTo' \in Ids \cup {NoId}, unanswered' \in SUBSET Ids, ReplayKept, recon' \in Recons,
         recon'.snap = recon.snap
  PROVE  BooksInv'
<1>1. Connector'
  BY DEF BooksInv, Connector, NoAlias, ReplayKept
<1>2. resp' \in Seq(Replies) /\ ordTopic' \in Seq(TrueStates)
  BY DEF BooksInv, FromVenue
<1> QED BY <1>1, <1>2, PushKeeps

LEMMA RequestStep ==
  ASSUME BooksInv, PrivateLive \/ SnapshotRetry
  PROVE  BooksInv'
<1>1. /\ UNCHANGED inside /\ UNCHANGED <<cmds, wire, resp, ring, ordTopic, exTopic, shadow, alias>>
      /\ UNCHANGED <<sentTo, unanswered>> /\ Request
  BY DEF PrivateLive, SnapshotRetry, inside, engine, venue, trade, topics, idMaps, watermark
<1>2. ReplayKept /\ recon' \in Recons /\ recon'.snap = recon.snap
  BY <1>1, RequestKeeps DEF BooksInv
<1>3. sentTo' \in Ids \cup {NoId} /\ unanswered' \in SUBSET Ids
  BY <1>1 DEF BooksInv, Connector
<1> QED BY <1>1, <1>2, <1>3, RestKeeps

LEMMA AnswerTimeoutKeeps ==
  ASSUME BooksInv, AnswerTimeout
  PROVE  BooksInv'
<1>1. /\ UNCHANGED inside /\ UNCHANGED <<cmds, wire, resp, ring, ordTopic, exTopic, shadow, alias>>
      /\ UNCHANGED <<sentTo, replay, recon>>
  BY DEF AnswerTimeout, inside, engine, venue, trade, topics, idMaps, rest
<1>2. Connector
  BY DEF BooksInv
<1>3. ReplayKept /\ recon' \in Recons /\ recon'.snap = recon.snap
  BY <1>1, <1>2, NoReplayKept DEF Connector
<1>4. sentTo' \in Ids \cup {NoId} /\ unanswered' \in SUBSET Ids
  BY <1>1, <1>2 DEF Connector, AnswerTimeout
<1> QED BY <1>1, <1>3, <1>4, RestKeeps

LEMMA MarkIs ==
  ASSUME Connector
  PROVE  Mark \in Ids \cup {NoId}
<1>1. CASE unanswered = {}
  BY <1>1 DEF Mark, Connector
<1>2. CASE unanswered # {}
  <2>1. unanswered \in SUBSET Nat
    BY DEF Connector, Ids
  <2>2. Min(unanswered) \in unanswered
    BY <1>2, <2>1, MinIsMember
  <2>3. Min(unanswered) \in Ids
    BY <2>2 DEF Connector
  <2>4. Min(unanswered) - 1 \in Ids \cup {NoId}
    BY <2>3, OmsAssumption DEF Ids, NoId
  <2> QED BY <1>2, <2>4 DEF Mark
<1> QED BY <1>1, <1>2

LEMMA FetchKeeps ==
  ASSUME Connector, NEW complete \in BOOLEAN, Fetch(complete)
  PROVE  recon' \in Recons /\ recon'.snap = recon.snap
<1>1. recon \in Recons
  BY DEF Connector
<1>2. PICK k \in Ids \cup {NoId} : k = Mark
  BY MarkIs
<1>3. recon' = recon \/ recon' = [recon EXCEPT !.st = "asked", !.mark = k, !.exact = complete]
  BY <1>2 DEF Fetch
<1> QED BY <1>1, <1>3 DEF Recons

LEMMA ReplayFailedKeeps ==
  ASSUME BooksInv, ReplayFailed
  PROVE  BooksInv'
<1>1. /\ UNCHANGED inside /\ UNCHANGED <<cmds, wire, resp, ring, ordTopic, exTopic, shadow, alias>>
      /\ UNCHANGED <<sentTo, unanswered>> /\ Fetch(FALSE)
  BY DEF ReplayFailed, inside, engine, venue, trade, topics, idMaps, watermark
<1>2. Connector /\ replay \in Replays
  BY DEF BooksInv, Connector
<1>3. recon' \in Recons /\ recon'.snap = recon.snap
  BY <1>1, <1>2, FetchKeeps
<1>4. ReplayKept
  BY <1>2 DEF ReplayFailed, Replays, ReplayKept
<1>5. sentTo' \in Ids \cup {NoId} /\ unanswered' \in SUBSET Ids
  BY <1>1, <1>2 DEF Connector
<1> QED BY <1>1, <1>3, <1>4, <1>5, RestKeeps

LEMMA ReplayTimerKeeps ==
  ASSUME BooksInv, ReplayTimer
  PROVE  BooksInv'
<1>1. /\ UNCHANGED inside /\ UNCHANGED <<cmds, wire, resp, ring, ordTopic, exTopic, shadow, alias>>
      /\ UNCHANGED <<sentTo, unanswered, recon>>
  BY DEF ReplayTimer, inside, engine, venue, trade, topics, idMaps, watermark
<1>2. Connector /\ replay \in Replays /\ recon \in Recons
  BY DEF BooksInv, Connector
<1>3. ReplayKept
  BY <1>2 DEF ReplayTimer, Replays, ReplayKept
<1>4. sentTo' \in Ids \cup {NoId} /\ unanswered' \in SUBSET Ids
  BY <1>1, <1>2 DEF Connector
<1> QED BY <1>1, <1>2, <1>3, <1>4, RestKeeps

LEMMA SnapshotFailedKeeps ==
  ASSUME BooksInv, SnapshotFailed
  PROVE  BooksInv'
<1>1. /\ UNCHANGED inside /\ UNCHANGED <<cmds, wire, resp, ring, ordTopic, exTopic, shadow, alias>>
      /\ UNCHANGED <<sentTo, unanswered, replay>>
  BY DEF SnapshotFailed, inside, engine, venue, trade, topics, idMaps, watermark
<1>2. Connector /\ recon \in Recons
  BY DEF BooksInv, Connector
<1>3. recon' \in Recons /\ recon'.snap = recon.snap
  BY <1>2 DEF SnapshotFailed, Recons
<1>4. ReplayKept
  BY <1>1, <1>2, NoReplayKept
<1>5. sentTo' \in Ids \cup {NoId} /\ unanswered' \in SUBSET Ids
  BY <1>1, <1>2 DEF Connector
<1> QED BY <1>1, <1>3, <1>4, <1>5, RestKeeps

\* The venue answers the query for the executions.
LEMMA ReadsExecutionsKeeps ==
  ASSUME BooksInv, VenueReadsExecutions
  PROVE  BooksInv'
<1>1. /\ UNCHANGED inside /\ UNCHANGED <<cmds, wire, resp, ring, ordTopic, exTopic, shadow, alias>>
      /\ UNCHANGED <<sentTo, unanswered, recon>>
  BY DEF VenueReadsExecutions, inside, engine, venue, trade, topics, idMaps, watermark
<1>2. Connector /\ replay \in Replays /\ Turn /\ FromVenue /\ Len(trades) \in Nat
  BY DEF BooksInv, Connector, AtVenue
<1>3. replay' \in Replays /\ replay'.emitted = replay.emitted /\ replay'.rows = Len(trades)
  BY <1>2 DEF VenueReadsExecutions, Replays
<1>4. Connector'
  BY <1>1, <1>2, <1>3 DEF Connector, NoAlias
<1>5. FromVenue'
  BY <1>1, <1>2, SameFromVenue DEF inside
<1>6. execs' = execs /\ trades' = trades
  BY <1>1, InsideFacts
<1>7. Turn'
  BY <1>1, <1>2, <1>3, <1>6 DEF Turn
<1>8. ToVenue'
  BY <1>1, QuietToVenue
<1> QED BY <1>1, <1>4, <1>5, <1>7, <1>8, ConnectorKeeps

\* The venue answers the query for the open orders.
LEMMA ReadsOpenOrdersKeeps ==
  ASSUME BooksInv, VenueReadsOpenOrders
  PROVE  BooksInv'
<1>1. /\ UNCHANGED inside /\ UNCHANGED <<cmds, wire, resp, ring, ordTopic, exTopic, shadow, alias>>
      /\ UNCHANGED <<sentTo, unanswered, replay>>
  BY DEF VenueReadsOpenOrders, inside, engine, venue, trade, topics, idMaps, watermark
<1>2. Connector /\ recon \in Recons /\ Turn /\ FromVenue /\ orders \in [Ids -> VenueOrders]
  BY DEF BooksInv, Connector, AtVenue
<1>3. PICK s : s = [l \in Ids |-> IF orders[l].st = "Open" THEN orders[l] ELSE NoVenueOrder]
  OBVIOUS
<1>4. NoVenueOrder \in VenueOrders
  BY OmsAssumption DEF NoVenueOrder, VenueOrders, Qty
<1>5. s \in [Ids -> VenueOrders]
  BY <1>2, <1>3, <1>4
<1>6. recon' \in Recons /\ recon'.snap = s
  BY <1>2, <1>3, <1>5 DEF VenueReadsOpenOrders, Recons
<1>7. Connector'
  BY <1>1, <1>2, <1>6 DEF Connector, NoAlias
<1>8. /\ TrueEvents' = TrueEvents /\ TrueStates' = TrueStates /\ TrueStreamed' = TrueStreamed
      /\ execs' = execs /\ trades' = trades /\ orders' = orders
  BY <1>1, InsideFacts
<1>9. \A l \in Ids : s[l].cum <= orders[l].cum
  BY <1>2, <1>3 DEF NoVenueOrder, VenueOrders, Qty
<1>10. FromVenue'
  BY <1>1, <1>2, <1>6, <1>8, <1>9 DEF FromVenue
<1>11. Turn'
  BY <1>1, <1>2, <1>8, SameTurn
<1>12. ToVenue'
  BY <1>1, QuietToVenue
<1> QED BY <1>1, <1>7, <1>10, <1>11, <1>12, ConnectorKeeps

LEMMA ListIsSeq ==
  ASSUME NEW S, NEW n \in Nat, NEW u, u \in [1 .. n -> S]
  PROVE  u \in Seq(S) /\ DOMAIN u = 1 .. n
  OBVIOUS

\* The replay gives the engine the rows it has not given yet.
LEMMA ReplayDoneKeeps ==
  ASSUME SessionFits, BooksInv, ReplayDone
  PROVE  BooksInv'
<1>1. /\ UNCHANGED inside /\ UNCHANGED <<cmds, wire, resp, ordTopic, exTopic, shadow, alias>>
      /\ UNCHANGED <<sentTo, unanswered>> /\ Fetch(TRUE)
  BY DEF ReplayDone, inside, engine, venue, trade, topics, idMaps, watermark
<1>2. /\ Connector /\ NoAlias /\ replay \in Replays /\ Turn /\ FromVenue /\ trades \in Seq(Trades)
      /\ replay.st = "read"
  BY DEF BooksInv, Connector, AtVenue, ReplayDone
<1>3. PICK n, r : n = replay.emitted /\ r = replay.rows
  OBVIOUS
<1>4. n \in Nat /\ r \in Nat /\ n <= r /\ r <= Len(trades) /\ Len(trades) \in Nat
  BY <1>2, <1>3 DEF Turn, Replays
<1>5. PICK u : u = [i \in 1 .. r - n |-> ReplayedFill(n + i)]
  OBVIOUS
<1>6. ASSUME NEW i \in 1 .. r - n
      PROVE  /\ ReplayedFill(n + i) \in TrueEvents /\ IsFill(ReplayedFill(n + i))
             /\ ReplayedFill(n + i).fill.replayed /\ ReplayedFill(n + i).fill.exec = n + i
  <2>1. PICK k : k = n + i
    OBVIOUS
  <2>2. k \in TradeIds
    BY <1>4, <2>1 DEF TradeIds
  <2>3. trades[k] \in Trades
    BY <1>2, <2>2 DEF TradeIds
  <2>4. PICK l, q : l = trades[k].link /\ q = trades[k].qty
    OBVIOUS
  <2>5. l \in Ids /\ q \in 1 .. MaxQty /\ trades[k] = [link |-> l, qty |-> q]
    BY <2>3, <2>4 DEF Trades
  <2>6. CurrentId(l) = l
    BY <1>2, <2>5, CurrentIdIs
  <2>7. k \in Execs
    BY <2>2, ExecutionsFit DEF BooksInv
  <2>8. PICK f : f = [id |-> l, exec |-> k, qty |-> q, cum |-> 0, replayed |-> TRUE]
    OBVIOUS
  <2>9. f \in Fills
    BY <2>5, <2>7, <2>8 DEF Fills
  <2>10. IsExecution(f)
    BY <2>2, <2>5, <2>8 DEF IsExecution, Execution
  <2>11. ReplayedFill(k) = [t |-> "fill", fill |-> f]
    BY <2>4, <2>6, <2>8 DEF ReplayedFill
  <2>12. [t |-> "fill", fill |-> f] \in TrueFills
    BY <2>9, <2>10 DEF TrueFills, FillMsgs
  <2> QED BY <2>1, <2>8, <2>11, <2>12 DEF TrueEvents, IsFill
<1>7. PICK R, E, X, Q, S : R = ring /\ E = Range(execs) /\ X = exTopic /\ Q = ring' /\ S = TrueEvents
  OBVIOUS
<1>8. u \in Seq(S) /\ DOMAIN u = 1 .. r - n
  <2>1. u \in [1 .. r - n -> S] /\ r - n \in Nat
    BY <1>4, <1>5, <1>6, <1>7
  <2> QED BY <2>1, ListIsSeq
<1>9. \A i \in DOMAIN u : IsFill(u[i]) /\ u[i].fill.replayed /\ u[i].fill.exec = n + i
  BY <1>5, <1>6
<1>10. /\ Turns(E, R, X, n) /\ R \in Seq(S) /\ Q = R \o u /\ X \in Seq(TrueStreamed)
  BY <1>2, <1>3, <1>5, <1>7 DEF Turn, FromVenue, ReplayDone
<1>11. \A i \in DOMAIN X : X[i].exec \in Nat
  <2>1. \A i \in DOMAIN X : X[i] \in TrueStreamed
    BY <1>10
  <2> QED BY <2>1, StreamedFacts
<1>12. Turns(E, Q, X, r)
  BY <1>4, <1>8, <1>9, <1>10, <1>11, TurnsReplay
<1>13. /\ TrueEvents' = TrueEvents /\ TrueStates' = TrueStates /\ TrueStreamed' = TrueStreamed
       /\ execs' = execs /\ trades' = trades /\ orders' = orders
  BY <1>1, InsideFacts
<1>14. replay' \in Replays /\ replay'.emitted = r /\ replay'.st = "idle"
  BY <1>3, <1>4 DEF ReplayDone, Replays
<1>15. Turn'
  <2>1. Turns(Range(execs'), ring', exTopic', replay'.emitted)
    BY <1>1, <1>7, <1>12, <1>13, <1>14
  <2> QED BY <1>4, <1>13, <1>14, <2>1 DEF Turn
<1>16. recon' \in Recons /\ recon'.snap = recon.snap
  BY <1>1, <1>2, FetchKeeps
<1>17. FromVenue'
  <2>1. Q \in Seq(S)
    BY <1>8, <1>10, Concat
  <2> QED BY <1>1, <1>2, <1>7, <1>13, <1>16, <2>1 DEF FromVenue
<1>18. Connector'
  BY <1>1, <1>2, <1>14, <1>16 DEF Connector, NoAlias
<1>19. ToVenue'
  BY <1>1, QuietToVenue
<1> QED BY <1>1, <1>15, <1>17, <1>18, <1>19, ConnectorKeeps

LEMMA SetToSeqIs ==
  ASSUME NEW S, IsFiniteSet(S)
  PROVE  SetToSeq(S) \in [1 .. Cardinality(S) -> S] /\ Cardinality(S) \in Nat
<1>1. Cardinality(S) \in Nat /\ ExistsBijection(1 .. Cardinality(S), S)
  BY FS_CardinalityType
<1>2. \E f \in [1 .. Cardinality(S) -> S] : IsInjective(f)
  BY <1>1 DEF ExistsBijection, Bijection, Injection
<1>3. SetToSeq(S) = CHOOSE f \in [1 .. Cardinality(S) -> S] : IsInjective(f)
  BY Zenon DEF SetToSeq
<1> QED BY <1>1, <1>2, <1>3

LEMMA SnapshotDoneKeeps ==
  ASSUME BooksInv, SnapshotDone
  PROVE  BooksInv'
<1>1. /\ UNCHANGED inside /\ UNCHANGED <<cmds, wire, resp, ordTopic, exTopic>>
      /\ UNCHANGED <<sentTo, unanswered>>
  BY DEF SnapshotDone, inside, engine, venue, trade, topics, watermark
<1>2. /\ Connector /\ NoAlias /\ recon \in Recons /\ replay \in Replays /\ Turn /\ FromVenue
      /\ orders \in [Ids -> VenueOrders]
  BY DEF BooksInv, Connector, AtVenue
<1>3. PICK L : L = SetToSeq({l \in Ids : recon.snap[l] # NoVenueOrder})
  OBVIOUS
<1>4. PICK rows : rows = [i \in DOMAIN L |->
                            [t |-> "row", id |-> CurrentId(L[i]), cum |-> recon.snap[L[i]].cum]]
  OBVIOUS
<1>5. PICK b, z : b = [t |-> "begin", mark |-> recon.mark, exact |-> recon.exact] /\ z = [t |-> "end"]
  OBVIOUS
<1>6. ring' = ring \o <<b>> \o rows \o <<z>> /\ \E gone : ForgetAll(gone)
  BY <1>3, <1>4, <1>5 DEF SnapshotDone
<1>7. b \in TrueEvents /\ ~IsFill(b) /\ z \in TrueEvents /\ ~IsFill(z)
  <2>1. recon.mark \in Ids \cup {NoId} /\ recon.exact \in BOOLEAN
    BY <1>2 DEF Recons
  <2>2. b \in Notices /\ z \in Notices
    BY <1>5, <2>1 DEF Notices
  <2> QED BY <1>5, <2>2 DEF TrueEvents, IsFill
<1>8. PICK n \in Nat : L \in [1 .. n -> Ids]
  <2>1. IsFiniteSet({l \in Ids : recon.snap[l] # NoVenueOrder})
    <3>1. IsFiniteSet(Ids)
      BY OmsAssumption, FS_Interval DEF Ids
    <3> QED BY <3>1, FS_Subset
  <2>2. PICK T : T = {l \in Ids : recon.snap[l] # NoVenueOrder}
    OBVIOUS
  <2>3. L \in [1 .. Cardinality(T) -> T] /\ Cardinality(T) \in Nat /\ T \subseteq Ids
    BY <1>3, <2>1, <2>2, SetToSeqIs
  <2> QED BY <2>3
<1>9. ASSUME NEW i \in 1 .. n PROVE rows[i] \in TrueEvents /\ ~IsFill(rows[i])
  <2>1. PICK l \in Ids : l = L[i]
    BY <1>8
  <2>2. CurrentId(l) = l
    BY <1>2, CurrentIdIs
  <2>3. PICK c : c = recon.snap[l].cum
    OBVIOUS
  <2>4. c \in Qty /\ c <= orders[l].cum
    <3>1. recon.snap \in [Ids -> VenueOrders]
      BY <1>2 DEF Recons
    <3>2. recon.snap[l] \in VenueOrders
      BY <3>1
    <3>3. c \in Qty
      BY <2>3, <3>2 DEF VenueOrders
    <3> QED BY <1>2, <2>3, <3>3 DEF FromVenue
  <2>5. rows[i] = [t |-> "row", id |-> l, cum |-> c]
    BY <1>4, <1>8, <2>1, <2>2, <2>3
  <2> QED BY <2>4, <2>5, ReportIs
<1>10. PICK R, E, X, m, Q, S : /\ R = ring /\ E = Range(execs) /\ X = exTopic /\ m = replay.emitted
                               /\ Q = ring' /\ S = TrueEvents
  OBVIOUS
<1>11. rows \in Seq(S) /\ DOMAIN rows = 1 .. n
  <2>1. rows \in [1 .. n -> S]
    BY <1>4, <1>8, <1>9, <1>10
  <2>2. n \in Nat
    OBVIOUS
  <2>3. rows \in Seq(S) /\ DOMAIN rows = 1 .. n
    BY <2>1, <2>2, ListIsSeq
  <2> QED BY <2>3
<1>12. PICK u : u = <<b>> \o rows \o <<z>>
  OBVIOUS
<1>13. u \in Seq(S) /\ (\A i \in DOMAIN u : ~IsFill(u[i])) /\ Q = R \o u
  <2>1. PICK v : v = <<b>> \o rows
    OBVIOUS
  <2>2. b \in S /\ z \in S
    BY <1>7, <1>10
  <2>3. <<b>> \in Seq(S) /\ <<z>> \in Seq(S) /\ R \in Seq(S)
    BY <1>2, <1>10, <2>2 DEF FromVenue
  <2>4. v \in Seq(S) /\ Len(v) = n + 1 /\ \A i \in 1 .. n + 1 : v[i] = b \/ \E j \in 1 .. n : v[i] = rows[j]
    BY <1>11, <2>1, <2>2
  <2>5. u = v \o <<z>> /\ u \in Seq(S) /\ DOMAIN u = 1 .. n + 2
        /\ \A i \in 1 .. n + 2 : u[i] = z \/ (i \in 1 .. n + 1 /\ u[i] = v[i])
    BY <1>12, <2>1, <2>2, <2>4
  <2>6. \A i \in DOMAIN u : ~IsFill(u[i])
    BY <1>7, <1>9, <2>4, <2>5
  <2>7. Q = R \o u
    BY <1>6, <1>10, <1>11, <1>12, <2>3
  <2> QED BY <2>5, <2>6, <2>7
<1>14. Turns(E, R, X, m) /\ R \in Seq(S)
  BY <1>2, <1>10 DEF Turn, FromVenue
<1>15. Turns(E, Q, X, m)
  BY <1>13, <1>14, TurnsPushOther
<1>16. /\ TrueEvents' = TrueEvents /\ TrueStates' = TrueStates /\ TrueStreamed' = TrueStreamed
       /\ execs' = execs /\ trades' = trades /\ orders' = orders
  BY <1>1, InsideFacts
<1>17. ReplayKept
  <2>1. CASE replay' = Asked(replay)
    BY <1>2, <2>1, AskedKeeps
  <2>2. CASE replay' = replay
    BY <1>2, <2>2, NoReplayKept
  <2> QED BY <2>1, <2>2 DEF SnapshotDone
<1>18. Turn'
  BY <1>1, <1>2, <1>10, <1>15, <1>16, <1>17, TurnStays
<1>19. recon' \in Recons /\ \A l \in Ids : recon'.snap[l].cum = 0
  <2>1. PICK s : s = [l \in Ids |-> NoVenueOrder]
    OBVIOUS
  <2>2. s \in [Ids -> VenueOrders] /\ \A l \in Ids : s[l].cum = 0
    BY <2>1, OmsAssumption DEF NoVenueOrder, VenueOrders, Qty
  <2>3. recon' = [st |-> IF recon.again THEN "waiting" ELSE "idle", mark |-> NoId, exact |-> FALSE,
                  again |-> FALSE, snap |-> s]
    BY <2>1 DEF SnapshotDone
  <2> QED BY <2>2, <2>3 DEF Recons
<1>20. FromVenue'
  <2>1. Q \in Seq(S)
    BY <1>13, <1>14, Concat
  <2>2. \A l \in Ids : orders[l].cum >= 0
    BY <1>2 DEF VenueOrders, Qty
  <2> QED BY <1>1, <1>2, <1>10, <1>16, <1>19, <2>1, <2>2 DEF FromVenue
<1>21. Connector'
  <2>1. NoAlias'
    BY <1>2, <1>6, ForgetKeeps
  <2> QED BY <1>1, <1>2, <1>17, <1>19, <2>1 DEF Connector, ReplayKept
<1>22. ToVenue'
  BY <1>1, QuietToVenue
<1> QED BY <1>1, <1>18, <1>20, <1>21, <1>22, ConnectorKeeps

-----------------------------------------------------------------------------
(***************************************************************************)
(* The venue's steps.                                                      *)
(***************************************************************************)

\* Orders are taken and ended; what was executed stays.
CumsKept == \A l \in Ids : orders'[l].cum = orders[l].cum

LEMMA CumsTrue ==
  ASSUME CumsKept, UNCHANGED trades
  PROVE  TrueEvents' = TrueEvents /\ TrueStates' = TrueStates /\ TrueStreamed' = TrueStreamed
<1>1. (\A l, i : UpTo(l, i)' = UpTo(l, i)) /\ \A l, i, q : Execution(l, i, q)' <=> Execution(l, i, q)
  BY DEF UpTo, LinkQty, TradeIds, Execution
<1>2. \A f : IsExecution(f)' <=> IsExecution(f)
  BY <1>1 DEF IsExecution
<1>3. TrueFills' = TrueFills
  BY <1>2 DEF TrueFills
<1>4. TrueStreamed' = TrueStreamed
  BY <1>1 DEF TrueStreamed
<1>5. TrueReports' = TrueReports /\ TrueStates' = TrueStates
  BY DEF TrueReports, TrueStates, CumsKept, Reports, States
<1> QED BY <1>3, <1>4, <1>5 DEF TrueEvents

LEMMA CumsBookings ==
  ASSUME Bookings, SameAccounts, CumsKept, UNCHANGED <<execs, booked, trades>>
  PROVE  Bookings'
<1>1. TradeIds' = TradeIds /\ Executed' = Executed /\ \A k \in Ids : Named(k)' = Named(k)
  BY SameNamed
<1>2. \A k \in Ids : Account(k)'.est = Account(k).est /\ Account(k)'.cum = Account(k).cum
  BY DEF SameAccounts
<1>3. \A k \in Ids : BookedOf(k)' = BookedOf(k)
  BY <1>1, <1>2 DEF BookedOf
<1>4. Booked' = Booked /\ Filled' = Filled
  BY <1>3 DEF Booked, Filled, CumsKept
<1>5. Remembers'
  BY <1>1 DEF Bookings, Remembers
<1>6. Covered'
  BY <1>2, <1>3 DEF Bookings, Covered, CumsKept
<1>7. Totals'
  BY <1>1, <1>4 DEF Bookings, Totals
<1> QED BY <1>5, <1>6, <1>7 DEF Bookings

venueKeeps == <<vars, booked, trades, cmds, ring, exTopic, shadow, alias, sentTo, unanswered, replay, recon>>

\* An order that changes at the venue is one of the session's, with the quantity the table has.
LEMMA VenueKeeps ==
  ASSUME BooksInv, UNCHANGED venueKeeps, CumsKept, orders' \in [Ids -> VenueOrders], ToVenue',
         \A l \in Ids : \/ orders'[l] = orders[l]
                        \/ /\ orders'[l].st # "None" /\ l <= seq
                           /\ orders'[l].qty = Account(l).qty /\ orders[l].cum <= orders'[l].qty,
         resp' \in Seq(Replies), ordTopic' = ordTopic \/ \E e \in TrueStates : ordTopic' = Append(ordTopic, e)
  PROVE  BooksInv'
<1>1. /\ UNCHANGED vars /\ UNCHANGED <<booked, trades, cmds, ring, exTopic>>
      /\ UNCHANGED <<shadow, alias, sentTo, unanswered, recon, replay>>
  BY DEF venueKeeps
<1>2. TableInv' /\ SameAccounts /\ SameTerms /\ execs' = execs
  BY <1>1, SameTable DEF BooksInv
<1>3. Connector'
  BY <1>1, SameConnector DEF BooksInv
<1>4. Bookings'
  BY <1>1, <1>2, CumsBookings DEF BooksInv, Bookings
<1>5. TrueEvents' = TrueEvents /\ TrueStates' = TrueStates /\ TrueStreamed' = TrueStreamed
  BY <1>1, CumsTrue
<1>6. FromVenue'
  <2>1. FromVenue
    BY DEF BooksInv
  <2>2. ordTopic' \in Seq(TrueStates)
    BY <2>1, Appended DEF FromVenue
  <2> QED BY <1>1, <1>5, <2>1, <2>2 DEF FromVenue, CumsKept
<1>7. Turn'
  BY <1>1, <1>2, SameTurn DEF BooksInv
<1>8. AtVenue'
  <2>1. \A l, i : UpTo(l, i)' = UpTo(l, i)
    BY <1>1 DEF UpTo, LinkQty, TradeIds
  <2>2. ASSUME NEW l \in Ids PROVE OrderAt(l)'
    <3>1. OrderAt(l)
      BY DEF BooksInv, AtVenue
    <3>2. orders'[l].cum = orders[l].cum
      BY DEF CumsKept
    <3>3. orders'[l].cum = UpTo(l, Len(trades))'
      BY <1>1, <2>1, <3>1, <3>2 DEF OrderAt
    <3>4. Account(l)'.qty = Account(l).qty /\ seq' = seq
      BY <1>2 DEF SameAccounts
    <3>5. CASE orders'[l] = orders[l]
      BY <3>1, <3>3, <3>4, <3>5 DEF OrderAt
    <3>6. CASE /\ orders'[l].st # "None" /\ l <= seq
               /\ orders'[l].qty = Account(l).qty /\ orders[l].cum <= orders'[l].qty
      BY <3>2, <3>3, <3>4, <3>6 DEF OrderAt
    <3> QED BY <3>5, <3>6
  <2> QED BY <1>1, <2>2 DEF AtVenue, BooksInv
<1> QED BY <1>2, <1>3, <1>4, <1>6, <1>7, <1>8 DEF BooksInv, Bookings

LEMMA StateIs ==
  ASSUME orders \in [Ids -> VenueOrders], NEW l \in Ids, NEW st \in {"New", "Rejected", "Cancelled"}
  PROVE  [link |-> l, status |-> st, cum |-> orders[l].cum] \in TrueStates
<1>1. orders[l].cum \in Qty
  BY DEF VenueOrders
<1> QED BY <1>1 DEF TrueStates, States, Qty

LEMMA PublishIs ==
  ASSUME NEW T, NEW e \in T, NEW topic, NEW new, new = Publish(topic, e)
  PROVE  new = topic \/ \E d \in T : new = Append(topic, d)
  BY DEF Publish

\* An order is ended.
Ended(l) == orders[l].st = "Open" /\ orders' = [orders EXCEPT ![l].st = "Done"]

LEMMA EndedFacts ==
  ASSUME BooksInv, UNCHANGED vars, NEW l \in Ids, Ended(l)
  PROVE  /\ CumsKept /\ orders' \in [Ids -> VenueOrders] /\ Sendable \subseteq Sendable'
         /\ \A k \in Ids : \/ orders'[k] = orders[k]
                           \/ /\ orders'[k].st # "None" /\ k <= seq
                              /\ orders'[k].qty = Account(k).qty /\ orders[k].cum <= orders'[k].qty
<1>1. orders \in [Ids -> VenueOrders] /\ OrderAt(l)
  BY DEF BooksInv, AtVenue
<1>2. orders[l] \in VenueOrders
  BY <1>1
<1>3. /\ orders' \in [Ids -> VenueOrders] /\ \A k \in Ids \ {l} : orders'[k] = orders[k]
      /\ orders'[l].cum = orders[l].cum /\ orders'[l].qty = orders[l].qty /\ orders'[l].st = "Done"
  BY <1>1, <1>2 DEF Ended, VenueOrders
<1>4. CumsKept
  BY <1>3 DEF CumsKept
<1>5. l <= seq /\ orders[l].qty = Account(l).qty /\ orders[l].cum <= orders[l].qty
  BY <1>1 DEF OrderAt, Ended
<1>6. SameTerms
  BY SameTable DEF BooksInv
<1>7. ASSUME NEW x \in Sendable PROVE x \in Sendable'
  <2>1. x[1] # l
    BY DEF Sendable, Ended, NoVenueOrder
  <2> QED BY <1>3, <1>6, <2>1 DEF Sendable, SameTerms, Ids
<1> QED BY <1>3, <1>4, <1>5, <1>7

LEMMA VenueCancelKeeps ==
  ASSUME BooksInv, VenueCancel
  PROVE  BooksInv'
<1>1. UNCHANGED venueKeeps /\ UNCHANGED vars /\ UNCHANGED <<cmds, wire, resp>>
  BY DEF VenueCancel, venueKeeps, engine, idMaps, watermark, rest, trade
<1>2. PICK l \in Ids : /\ Ended(l)
                       /\ ordTopic' = Publish(ordTopic, [link |-> l, status |-> "Cancelled", cum |-> orders[l].cum])
  BY DEF VenueCancel, Ended
<1>3. /\ CumsKept /\ orders' \in [Ids -> VenueOrders] /\ Sendable \subseteq Sendable'
      /\ \A k \in Ids : \/ orders'[k] = orders[k]
                        \/ /\ orders'[k].st # "None" /\ k <= seq
                           /\ orders'[k].qty = Account(k).qty /\ orders[k].cum <= orders'[k].qty
  BY <1>1, <1>2, EndedFacts
<1>4. [link |-> l, status |-> "Cancelled", cum |-> orders[l].cum] \in TrueStates
  BY StateIs DEF BooksInv, AtVenue
<1>5. ordTopic' = ordTopic \/ \E e \in TrueStates : ordTopic' = Append(ordTopic, e)
  BY <1>2, <1>4, PublishIs
<1>6. ToVenue'
  <2>1. PICK C, W, A, B : C = cmds /\ W = wire /\ A = Sendable /\ B = Sendable'
    OBVIOUS
  <2>2. Orderly(C, W, B)
    BY <1>3, <2>1, OrderlyMore DEF BooksInv, ToVenue
  <2> QED BY <1>1, <2>1, <2>2 DEF ToVenue
<1>7. resp' \in Seq(Replies)
  BY <1>1 DEF BooksInv, FromVenue
<1> QED BY <1>1, <1>3, <1>5, <1>6, <1>7, VenueKeeps

LEMMA VenueTakeKeeps ==
  ASSUME BooksInv, VenueTake
  PROVE  BooksInv'
<1>1. UNCHANGED venueKeeps /\ UNCHANGED vars /\ UNCHANGED cmds /\ wire # <<>> /\ wire' = Tail(wire)
  BY DEF VenueTake, venueKeeps, engine, idMaps, watermark, rest
<1>2. PICK C, W, V, A, B, r : /\ C = cmds /\ W = wire /\ V = wire' /\ A = Sendable /\ B = Sendable'
                              /\ r = Head(wire)
  OBVIOUS
<1>3. /\ Orderly(C, W, A) /\ W \in Seq(Requests) /\ W # <<>> /\ V = Tail(W) /\ r = Head(W)
  BY <1>1, <1>2 DEF BooksInv, ToVenue, Orderly
<1>4. r \in Requests /\ 1 \in DOMAIN W /\ r = W[1]
  BY <1>3, HeadTail
<1>5. r.kind \in {"New", "Cancel"} /\ r.id \in Ids /\ r.link \in Ids /\ r.qty \in Qty
  BY <1>4 DEF Requests
<1>6. r.kind = "New" => New(r) \in A /\ r.link = r.id
  <2>1. r.kind = "New" => 1 \in NewsIn(W)
    BY <1>4 DEF NewsIn
  <2> QED BY <1>3, <1>4, <2>1 DEF Orderly
<1>7. orders \in [Ids -> VenueOrders]
  BY DEF BooksInv, AtVenue
<1>8. PICK l \in Ids : l = r.link
  BY <1>5
<1>9. /\ [link |-> l, status |-> "New", cum |-> orders[l].cum] \in TrueStates
      /\ [link |-> l, status |-> "Rejected", cum |-> orders[l].cum] \in TrueStates
      /\ [link |-> l, status |-> "Cancelled", cum |-> orders[l].cum] \in TrueStates
  BY <1>7, StateIs
<1>10. resp' \in Seq(Replies)
  <2>1. \E is \in {"ok", "gone", "refused"} : Reply(r, is)
    BY <1>2, <1>5 DEF VenueTake
  <2>2. PICK is \in {"ok", "gone", "refused"} : Reply(r, is)
    BY <2>1
  <2>3. [kind |-> r.kind, id |-> r.id, is |-> is] \in Replies
    BY <1>5 DEF Replies
  <2> QED BY <2>2, <2>3, Appended DEF Reply, BooksInv, FromVenue
<1>11. ordTopic' = ordTopic \/ \E e \in TrueStates : ordTopic' = Append(ordTopic, e)
  <2>1. \/ ordTopic' = ordTopic
        \/ \E st \in {"New", "Rejected", "Cancelled"} :
             ordTopic' = Publish(ordTopic, [link |-> l, status |-> st, cum |-> orders[l].cum])
    BY <1>2, <1>5, <1>8 DEF VenueTake
  <2> QED BY <1>9, <2>1, PublishIs
<1>12. SameTerms
  BY <1>1, SameTable DEF BooksInv
<1>13. \/ orders' = orders
       \/ r.kind = "New" /\ orders' = [orders EXCEPT ![l] = [st |-> "Open", qty |-> r.qty, cum |-> 0]]
       \/ Ended(l)
  BY <1>2, <1>5, <1>8 DEF VenueTake, Ended
<1>14. CASE orders' = orders
  <2>1. A \subseteq B
    BY <1>2, <1>12, <1>14, SendableStays
  <2>2. Orderly(C, V, B)
    BY <1>3, <2>1, OrderlyDrop
  <2>3. ToVenue'
    BY <1>1, <1>2, <2>2 DEF ToVenue
  <2>4. CumsKept
    BY <1>14 DEF CumsKept
  <2> QED BY <1>1, <1>7, <1>10, <1>11, <1>14, <2>3, <2>4, VenueKeeps
<1>15. CASE Ended(l)
  <2>1. /\ CumsKept /\ orders' \in [Ids -> VenueOrders] /\ Sendable \subseteq Sendable'
        /\ \A k \in Ids : \/ orders'[k] = orders[k]
                          \/ /\ orders'[k].st # "None" /\ k <= seq
                             /\ orders'[k].qty = Account(k).qty /\ orders[k].cum <= orders'[k].qty
    BY <1>1, <1>15, EndedFacts
  <2>2. Orderly(C, V, B)
    BY <1>2, <1>3, <2>1, OrderlyDrop
  <2>3. ToVenue'
    BY <1>1, <1>2, <2>2 DEF ToVenue
  <2> QED BY <1>1, <1>10, <1>11, <2>1, <2>3, VenueKeeps
<1>16. CASE r.kind = "New" /\ orders' = [orders EXCEPT ![l] = [st |-> "Open", qty |-> r.qty, cum |-> 0]]
  <2>1. l = r.id /\ <<l, r.qty>> \in Sendable
    BY <1>2, <1>6, <1>8, <1>16 DEF New
  <2>2. l <= seq /\ Account(l).qty = r.qty /\ orders[l] = NoVenueOrder
    BY <2>1 DEF Sendable
  <2>3. [st |-> "Open", qty |-> r.qty, cum |-> 0] \in VenueOrders
    BY <1>5, OmsAssumption DEF VenueOrders, Qty
  <2>4. /\ orders' \in [Ids -> VenueOrders] /\ orders'[l] = [st |-> "Open", qty |-> r.qty, cum |-> 0]
        /\ \A k \in Ids \ {l} : orders'[k] = orders[k]
    BY <1>7, <1>16, <2>3
  <2>5. CumsKept
    BY <2>2, <2>4 DEF CumsKept, NoVenueOrder
  <2>6. orders[l].cum <= r.qty /\ orders'[l].qty = r.qty /\ orders'[l].st # "None"
    BY <1>5, <2>2, <2>4 DEF NoVenueOrder, Qty
  <2>7. \A k \in Ids : \/ orders'[k] = orders[k]
                       \/ /\ orders'[k].st # "None" /\ k <= seq
                          /\ orders'[k].qty = Account(k).qty /\ orders[k].cum <= orders'[k].qty
    BY <2>2, <2>4, <2>6
  <2>8. \A x \in A : x \in B \/ (r.kind = "New" /\ x[1] = r.id)
    <3>1. ASSUME NEW x \in Sendable, x[1] # l PROVE x \in Sendable'
      BY <1>12, <2>4, <3>1 DEF Sendable, SameTerms, Ids
    <3> QED BY <1>2, <1>16, <2>1, <3>1
  <2>9. Orderly(C, V, B)
    BY <1>3, <2>8, OrderlyDrop
  <2>10. ToVenue'
    BY <1>1, <1>2, <2>9 DEF ToVenue
  <2> QED BY <1>1, <1>10, <1>11, <2>4, <2>5, <2>7, <2>10, VenueKeeps
<1> QED BY <1>13, <1>14, <1>15, <1>16

-----------------------------------------------------------------------------
\* The quantities of one execution more.
LEMMA QtySumIs ==
  ASSUME NEW s, NEW S, IsFiniteSet(S), \A x \in S : s[x].qty \in Int, NEW v, v = [x \in S |-> s[x].qty]
  PROVE  Summable(v, S) /\ QtySum(s, S) = Sum(v, S)
<1>1. v \in [S -> Int] /\ (\A x \in S : s[x].qty = v[x]) /\ Summable(v, S)
  BY DEF Summable
<1>2. PICK F : Summing(F, S, v) /\ QtySum(s, S) = F[S]
  BY <1>1, QtySumIsSum
<1>3. PICK G : Summing(G, S, v) /\ Sum(v, S) = G[S]
  BY <1>1, SumIsSum
<1>4. F[S] = G[S]
  BY <1>2, <1>3, SumsAgree
<1> QED BY <1>1, <1>2, <1>3, <1>4

Adds(s, S, r, R, d) == QtySum(r, R) = QtySum(s, S) + d /\ QtySum(s, S) \in Int
LEMMA QtySumAppend ==
  ASSUME NEW s, NEW r, NEW S, NEW R, NEW k, NEW d \in Int, IsFiniteSet(S), k \notin S, R = S \cup {k},
         \A x \in S : r[x] = s[x] /\ s[x].qty \in Int, r[k].qty = d
  PROVE  Adds(s, S, r, R, d)
<1>1. IsFiniteSet(R) /\ \A x \in R : r[x].qty \in Int
  BY FS_AddElement
<1>2. PICK v : v = [x \in S |-> s[x].qty]
  OBVIOUS
<1>3. PICK w : w = [x \in R |-> r[x].qty]
  OBVIOUS
<1>4. Summable(v, S) /\ QtySum(s, S) = Sum(v, S)
  BY <1>2, QtySumIs
<1>5. QtySum(r, R) = Sum(w, R)
  BY <1>1, <1>3, QtySumIs
<1>6. (\A x \in S : v[x] = w[x]) /\ w[k] = d
  BY <1>2, <1>3
<1>7. Summable(w, S)
  BY <1>4, <1>6 DEF Summable
<1>8. Sum(v, S) = Sum(w, S)
  BY <1>4, <1>6, SumSame
<1>9. Sum(w, R) = Sum(w, S) + d
  BY <1>6, <1>7, SumAdd
<1>10. Sum(v, S) \in Int
  BY <1>4, SumType
<1> QED BY <1>4, <1>5, <1>8, <1>9, <1>10 DEF Adds

Executes(l, q) == trades' = Append(trades, [link |-> l, qty |-> q])

\* The executions after one of q for the order l, when there were n.
Grown(l, q, n, m) ==
  /\ n \in Nat /\ m = n + 1 /\ trades' \in Seq(Trades) /\ Len(trades') = m
  /\ TradeIds = 1 .. n /\ TradeIds' = 1 .. m
  /\ \A i \in 1 .. n : trades'[i] = trades[i]
  /\ trades'[m] = [link |-> l, qty |-> q]
  /\ Executed' = Executed + q /\ Executed \in Int

LEMMA TradesGrow ==
  ASSUME trades \in Seq(Trades), NEW l \in Ids, NEW q \in 1 .. MaxQty, Executes(l, q),
         NEW n, n = Len(trades), NEW m, m = n + 1
  PROVE  Grown(l, q, n, m)
<1>1. PICK s, r, t : s = trades /\ r = trades' /\ t = [link |-> l, qty |-> q]
  OBVIOUS
<1>2. s \in Seq(Trades) /\ t \in Trades /\ r = Append(s, t) /\ n = Len(s) /\ t.qty = q
  BY <1>1 DEF Executes, Trades
<1>3. /\ n \in Nat /\ r \in Seq(Trades) /\ Len(r) = m /\ r[m] = t
      /\ \A i \in 1 .. n : r[i] = s[i] /\ s[i] \in Trades
  BY <1>2
<1>9. PICK S, R : S = 1 .. n /\ R = 1 .. m
  OBVIOUS
<1>4. Adds(s, S, r, R, q)
  <2>1. IsFiniteSet(S)
    <3>1. n \in Int /\ 1 \in Int
      BY <1>3
    <3> QED BY <1>9, <3>1, FS_Interval
  <2>2. m \notin S /\ R = S \cup {m} /\ r[m].qty = q /\ q \in Int
    <3>1. m \notin S /\ R = S \cup {m}
      BY <1>3, <1>9
    <3>2. q \in Int
      BY OmsAssumption
    <3>3. r[m].qty = q
      BY <1>2, <1>3
    <3> QED BY <3>1, <3>2, <3>3
  <2>3. \A x \in S : r[x] = s[x] /\ s[x].qty \in Int
    BY <1>3, <1>9, OmsAssumption DEF Trades
  <2> QED BY <2>1, <2>2, <2>3, QtySumAppend
<1>5. TradeIds = S /\ TradeIds' = R
  BY <1>1, <1>2, <1>3, <1>9 DEF TradeIds
<1>6. Executed = QtySum(s, S)
  BY <1>1, <1>5, ExecutedIsSum
<1>7. (Executed = QtySum(trades, TradeIds))'
  BY ExecutedIsSum, PTL
<1>8. Executed' = QtySum(r, R)
  <2>1. Executed' = QtySum(trades', TradeIds')
    BY <1>7
  <2> QED BY <1>1, <1>5, <2>1
<1>10. Executed' = Executed + q /\ Executed \in Int
  BY <1>4, <1>6, <1>8 DEF Adds
<1> QED BY <1>1, <1>2, <1>3, <1>5, <1>9, <1>10 DEF Grown

SumsGrown(k, l, q, n, m) ==
  /\ \A S \in SUBSET TradeIds : Sum(LinkQty(k)', S) = Sum(LinkQty(k), S)
  /\ \A i \in 0 .. n : UpTo(k, i)' = UpTo(k, i)
  /\ UpTo(k, m)' = UpTo(k, n) + (IF k = l THEN q ELSE 0)
  /\ UpTo(k, n) \in Nat

LEMMA SumsGrow ==
  ASSUME trades \in Seq(Trades), NEW l \in Ids, NEW q \in 1 .. MaxQty, Executes(l, q),
         NEW n, n = Len(trades), NEW m, m = n + 1, NEW k
  PROVE  SumsGrown(k, l, q, n, m)
<1>0. /\ n \in Nat /\ trades' \in Seq(Trades) /\ Len(trades') = m
      /\ TradeIds = 1 .. n /\ TradeIds' = 1 .. m
      /\ \A i \in 1 .. n : trades'[i] = trades[i]
      /\ trades'[m] = [link |-> l, qty |-> q]
  <2>1. Grown(l, q, n, m)
    BY TradesGrow
  <2> QED BY <2>1 DEF Grown
<1>1. /\ n \in Nat /\ TradeIds = 1 .. n /\ TradeIds' = 1 .. n + 1
      /\ \A i \in 1 .. n : trades'[i] = trades[i]
      /\ trades'[m] = [link |-> l, qty |-> q]
  BY <1>0
<1>2. PICK v, w : v = LinkQty(k) /\ w = LinkQty(k)'
  OBVIOUS
<1>3. w = [i \in 1 .. n + 1 |-> IF trades'[i].link = k THEN trades'[i].qty ELSE 0]
  BY <1>1, <1>2 DEF LinkQty
<1>4. v = [i \in 1 .. n |-> IF trades[i].link = k THEN trades[i].qty ELSE 0]
  BY <1>1, <1>2 DEF LinkQty
<1>5. (\A i \in 1 .. n : w[i] = v[i]) /\ w[m] = (IF k = l THEN q ELSE 0)
  <2>1. ASSUME NEW i \in 1 .. n PROVE w[i] = v[i]
    <3>1. i \in 1 .. n + 1
      BY <1>1
    <3> QED BY <1>1, <1>3, <1>4, <3>1
  <2>2. m \in 1 .. n + 1
    BY <1>1
  <2>3. w[m] = IF trades'[m].link = k THEN trades'[m].qty ELSE 0
    BY <1>3, <2>2
  <2> QED BY <1>1, <2>1, <2>3
<1>6. ASSUME NEW S \in SUBSET TradeIds
      PROVE  Sum(w, S) = Sum(v, S) /\ Summable(w, S) /\ Summable(v, S) /\ Sum(v, S) \in Nat
  <2>1. Summable(v, S) /\ Sum(v, S) \in Nat
    <3>1. PICK T : T = TradeIds
      OBVIOUS
    <3> QED BY <1>2, <3>1, LinkParts
  <2>2. \A x \in S : v[x] = w[x]
    BY <1>1, <1>5
  <2>3. Summable(w, S)
    BY <2>1, <2>2 DEF Summable
  <2> QED BY <2>1, <2>2, <2>3, SumSame
<1>7. ASSUME NEW i \in 0 .. n
      PROVE  Sum(w, 1 .. i) = Sum(v, 1 .. i) /\ Summable(w, 1 .. i) /\ Sum(v, 1 .. i) \in Nat
  <2>1. 1 .. i \in SUBSET TradeIds
    BY <1>1
  <2> QED BY <1>6, <2>1
<1>8. Sum(w, 1 .. m) = Sum(w, 1 .. n) + w[m]
  <2>1. PICK S, R : S = 1 .. n /\ R = 1 .. m
    OBVIOUS
  <2>2. Summable(w, S) /\ m \notin S /\ S \cup {m} = R
    BY <1>1, <1>7, <2>1
  <2>3. w[m] \in Int
    BY <1>5, OmsAssumption
  <2>4. Sum(w, S \cup {m}) = Sum(w, S) + w[m]
    BY <2>2, <2>3, SumAdd
  <2> QED BY <2>1, <2>2, <2>4
<1>9. /\ \A i : UpTo(k, i) = Sum(v, 1 .. i)
      /\ \A i : UpTo(k, i)' = Sum(w, 1 .. i)
  BY <1>2 DEF UpTo
<1>10. n \in 0 .. n
  BY <1>1
<1> QED BY <1>2, <1>5, <1>6, <1>7, <1>8, <1>9, <1>10 DEF SumsGrown

\* The venue executes q of the order l, which it names n + 1.
Executing(l, q) ==
  /\ orders[l].st = "Open" /\ q \in 1 .. orders[l].qty - orders[l].cum
  /\ orders' = [orders EXCEPT ![l].cum = orders[l].cum + q,
                              ![l].st = IF orders[l].qty - (orders[l].cum + q) = 0 THEN "Done" ELSE @]
  /\ Executes(l, q)

Raised(l, q) ==
  /\ q \in 1 .. MaxQty /\ orders' \in [Ids -> VenueOrders] /\ \A k \in Ids \ {l} : orders'[k] = orders[k]
  /\ orders[l].cum \in Nat /\ orders[l].qty \in Nat /\ orders[l].qty <= MaxQty /\ orders[l].st # "None"
  /\ orders'[l].cum = orders[l].cum + q /\ orders'[l].qty = orders[l].qty /\ orders'[l].st # "None"
  /\ orders[l].cum + q <= orders[l].qty

LEMMA FillRaises ==
  ASSUME BooksInv, NEW l \in Ids, NEW q, Executing(l, q)
  PROVE  Raised(l, q)
<1>1. orders \in [Ids -> VenueOrders]
  BY DEF BooksInv, AtVenue
<1>2. orders[l] \in VenueOrders
  BY <1>1
<1>3. /\ orders[l].cum \in Nat /\ orders[l].qty \in Nat /\ orders[l].qty <= MaxQty /\ MaxQty \in Nat
      /\ orders[l].st = "Open"
  BY <1>2, OmsAssumption DEF VenueOrders, Qty, Executing
<1>4. q \in 1 .. orders[l].qty - orders[l].cum
  BY DEF Executing
<1>5. q \in 1 .. MaxQty /\ orders[l].cum + q <= orders[l].qty /\ orders[l].cum + q \in Qty
  BY <1>3, <1>4 DEF Qty
<1>6. PICK c, s : /\ c = orders[l].cum + q
                  /\ s = IF orders[l].qty - (orders[l].cum + q) = 0 THEN "Done" ELSE orders[l].st
  OBVIOUS
<1>7. s \in {"Open", "Done"} /\ c \in Qty
  BY <1>3, <1>5, <1>6
<1>8. PICK o : o = [st |-> s, qty |-> orders[l].qty, cum |-> c]
  OBVIOUS
<1>9. o \in VenueOrders
  BY <1>2, <1>7, <1>8 DEF VenueOrders
<1>10. orders' = [orders EXCEPT ![l] = o]
  <2>1. PICK f, g : f = [orders EXCEPT ![l].cum = c] /\ g = [f EXCEPT ![l].st = s]
    OBVIOUS
  <2>2. orders' = g
    <3>1. orders' = [orders EXCEPT ![l].cum = c, ![l].st = s]
      BY <1>6 DEF Executing
    <3> QED BY <2>1, <3>1
  <2>3. orders[l] = [st |-> orders[l].st, qty |-> orders[l].qty, cum |-> orders[l].cum]
    BY <1>2 DEF VenueOrders
  <2>4. PICK p : p = [orders[l] EXCEPT !.cum = c]
    OBVIOUS
  <2>5. p = [st |-> orders[l].st, qty |-> orders[l].qty, cum |-> c]
    BY <2>3, <2>4
  <2>6. [p EXCEPT !.st = s] = o
    BY <1>8, <2>5
  <2>7. f = [orders EXCEPT ![l] = p] /\ f[l] = p /\ g = [f EXCEPT ![l] = o]
    BY <1>1, <2>1, <2>4, <2>6
  <2> QED BY <1>1, <2>2, <2>7
<1>11. orders' \in [Ids -> VenueOrders] /\ orders'[l] = o /\ \A k \in Ids \ {l} : orders'[k] = orders[k]
  BY <1>1, <1>9, <1>10
<1> QED BY <1>3, <1>5, <1>6, <1>7, <1>8, <1>11 DEF Raised

\* What was true stays true.
LEMMA FillTrue ==
  ASSUME BooksInv, NEW l \in Ids, NEW q, Executing(l, q)
  PROVE  /\ TrueEvents \subseteq TrueEvents' /\ TrueStates \subseteq TrueStates'
         /\ TrueStreamed \subseteq TrueStreamed'
<1>1. Raised(l, q) /\ trades \in Seq(Trades) /\ orders \in [Ids -> VenueOrders]
  BY FillRaises DEF BooksInv, AtVenue
<1>2. PICK n, m : n = Len(trades) /\ m = n + 1
  OBVIOUS
<1>3. q \in 1 .. MaxQty /\ Executes(l, q)
  BY <1>1 DEF Raised, Executing
<1>4. Grown(l, q, n, m)
  BY <1>1, <1>2, <1>3, TradesGrow
<1>5. \A k : SumsGrown(k, l, q, n, m)
  BY <1>1, <1>2, <1>3, SumsGrow
<1>6. /\ n \in Nat /\ m = n + 1 /\ TradeIds = 1 .. n /\ TradeIds' = 1 .. m
      /\ \A i \in 1 .. n : trades'[i] = trades[i]
  BY <1>4 DEF Grown
<1>7. ASSUME NEW k, NEW i, NEW p, Execution(k, i, p) PROVE Execution(k, i, p)' /\ UpTo(k, i)' = UpTo(k, i)
  <2>1. i \in 1 .. n /\ trades[i] = [link |-> k, qty |-> p]
    BY <1>6, <1>7 DEF Execution
  <2>2. i \in TradeIds' /\ trades'[i] = [link |-> k, qty |-> p] /\ i \in 0 .. n
    BY <1>6, <2>1
  <2>3. SumsGrown(k, l, q, n, m)
    BY <1>5
  <2>4. UpTo(k, i)' = UpTo(k, i)
    BY <2>2, <2>3 DEF SumsGrown
  <2> QED BY <2>2, <2>4 DEF Execution
<1>8. ASSUME NEW k \in Ids, NEW c \in Qty, c <= orders[k].cum PROVE c <= orders'[k].cum
  <2>1. c \in Nat /\ q \in Nat
    BY <1>3, OmsAssumption DEF Qty
  <2> QED BY <1>1, <1>8, <2>1 DEF Raised
<1>9. TrueReports \subseteq TrueReports' /\ TrueStates \subseteq TrueStates'
  BY <1>8 DEF TrueReports, TrueStates, Reports, States
<1>10. TrueStreamed \subseteq TrueStreamed'
  BY <1>7 DEF TrueStreamed
<1>11. TrueFills \subseteq TrueFills'
  <2>1. ASSUME NEW f, IsExecution(f) PROVE IsExecution(f)'
    <3>1. PICK k, i, p : k = f.id /\ i = f.exec /\ p = f.qty
      OBVIOUS
    <3>2. Execution(k, i, p)
      BY <2>1, <3>1 DEF IsExecution
    <3>3. Execution(k, i, p)' /\ UpTo(k, i)' = UpTo(k, i)
      BY <1>7, <3>2
    <3> QED BY <2>1, <3>1, <3>3 DEF IsExecution
  <2> QED BY <2>1 DEF TrueFills
<1> QED BY <1>9, <1>10, <1>11 DEF TrueEvents

\* The executions given are ones the venue made.
LEMMA GivenTraded ==
  ASSUME BooksInv
  PROVE  GivenIn(Range(execs), ring) \subseteq TradeIds
<1>1. ring \in Seq(TrueEvents) /\ Range(execs) \subseteq TradeIds
  BY DEF BooksInv, FromVenue, Remembers
<1>2. ASSUME NEW j \in 1 .. Len(ring) + 1 - 1, IsFill(ring[j]) PROVE ring[j].fill.exec \in TradeIds
  <2>1. PICK e : e = ring[j]
    OBVIOUS
  <2>2. e \in TrueEvents /\ e.t = "fill"
    BY <1>1, <1>2, <2>1 DEF IsFill
  <2>3. IsExecution(e.fill)
    BY <2>2, EventFacts
  <2> QED BY <2>1, <2>3 DEF IsExecution, Execution
<1> QED BY <1>1, <1>2 DEF GivenIn, GivenBefore

LEMMA FilledGrows ==
  ASSUME orders \in [Ids -> VenueOrders], NEW l \in Ids, NEW q, Raised(l, q)
  PROVE  Sum(Filled', Ids) = Sum(Filled, Ids) + q /\ Sum(Filled, Ids) \in Int
<1>1. IsFiniteSet(Ids)
  BY FS_Interval, OmsAssumption DEF Ids
<1>2. \A k \in Ids : orders[k].cum \in Nat
  BY OmsAssumption DEF VenueOrders, Qty
<1>3. orders'[l].cum = orders[l].cum + q /\ q \in Nat /\ \A k \in Ids \ {l} : orders'[k] = orders[k]
  BY OmsAssumption DEF Raised
<1>4. PICK v : v = Filled
  OBVIOUS
<1>5. PICK w : w = Filled'
  OBVIOUS
<1>6. (\A k \in Ids : v[k] = orders[k].cum) /\ \A k \in Ids : w[k] = orders'[k].cum
  BY <1>4, <1>5 DEF Filled
<1>7. Summable(v, Ids)
  BY <1>1, <1>2, <1>6 DEF Summable
<1>8. w[l] \in Int /\ v[l] \in Int /\ w[l] = v[l] + q
  BY <1>2, <1>3, <1>6
<1>9. \A y \in Ids \ {l} : w[y] = v[y]
  BY <1>3, <1>6
<1>10. w[l] \in Int
  BY <1>8
<1>11. Changed(v, w, Ids, l)
  BY <1>7, <1>9, <1>10, SumChanged
<1>12. Sum(w, Ids) = Sum(v, Ids) - v[l] + w[l] /\ Sum(v, Ids) \in Int
  BY <1>11 DEF Changed
<1>13. Sum(w, Ids) = Sum(v, Ids) + q
  BY <1>3, <1>8, <1>12
<1> QED BY <1>4, <1>5, <1>12, <1>13

\* The venue's execution leaves what is booked, and adds to what could be.
LEMMA FillTotals ==
  ASSUME BooksInv, NEW l \in Ids, NEW q, Executing(l, q), UNCHANGED <<vars, booked>>
  PROVE  Bookings'
<1>1. Raised(l, q) /\ trades \in Seq(Trades) /\ orders \in [Ids -> VenueOrders] /\ Bookings
  BY FillRaises DEF BooksInv, AtVenue, Bookings
<1>2. PICK n, m : n = Len(trades) /\ m = n + 1
  OBVIOUS
<1>3. q \in 1 .. MaxQty /\ Executes(l, q) /\ q \in Nat /\ q >= 1
  BY <1>1, OmsAssumption DEF Raised, Executing
<1>4. Grown(l, q, n, m)
  BY <1>1, <1>2, <1>3, TradesGrow
<1>5. \A k : SumsGrown(k, l, q, n, m)
  BY <1>1, <1>2, <1>3, SumsGrow
<1>6. SameAccounts /\ execs' = execs
  BY SameTable DEF BooksInv
<1>7. /\ n \in Nat /\ Len(trades') = n + 1 /\ TradeIds \subseteq TradeIds'
      /\ Executed' = Executed + q /\ Executed \in Int
  BY <1>4 DEF Grown
<1>8. Remembers'
  BY <1>1, <1>6, <1>7 DEF Bookings, Remembers
<1>9. PICK S : S = Range(execs)
  OBVIOUS
<1>10. S \in SUBSET TradeIds /\ Range(execs)' = S
  BY <1>1, <1>6, <1>9 DEF Bookings, Remembers
<1>11. ASSUME NEW k \in Ids PROVE BookedOf(k)' = BookedOf(k)
  <2>1. SumsGrown(k, l, q, n, m)
    BY <1>5
  <2>2. Sum(LinkQty(k)', S) = Sum(LinkQty(k), S)
    BY <1>10, <2>1 DEF SumsGrown
  <2>3. Named(k)' = Named(k)
    BY <1>9, <1>10, <2>2 DEF Named
  <2>4. Account(k)'.est = Account(k).est
    BY <1>6 DEF SameAccounts
  <2> QED BY <2>3, <2>4 DEF BookedOf
<1>12. (\A k \in Ids : BookedOf(k) \in Nat) /\ IsFiniteSet(Ids)
  BY BookedType DEF BooksInv, TableInv, AtVenue, Remembers
<1>13. \A k \in Ids : orders[k].cum \in Nat /\ orders'[k].cum \in Nat /\ orders[k].cum <= orders'[k].cum
  <2>1. \A k \in Ids : orders[k].cum \in Nat
    BY <1>1, OmsAssumption DEF VenueOrders, Qty
  <2>2. orders'[l].cum = orders[l].cum + q /\ \A k \in Ids \ {l} : orders'[k] = orders[k]
    BY <1>1 DEF Raised
  <2> QED BY <1>3, <2>1, <2>2
<1>14. Covered'
  <2>1. ASSUME NEW k \in Ids PROVE BookedOf(k)' <= orders'[k].cum /\ BookedOf(k)' <= Account(k)'.cum
    <3>1. BookedOf(k) <= orders[k].cum /\ BookedOf(k) <= Account(k).cum
      BY <1>1 DEF Bookings, Covered
    <3>2. Account(k)'.cum = Account(k).cum
      BY <1>6 DEF SameAccounts
    <3> QED BY <1>11, <1>12, <1>13, <3>1, <3>2
  <2> QED BY <2>1 DEF Covered
<1>15. Booked' = Booked
  BY <1>11 DEF Booked
<1>19. Sum(Filled', Ids) = Sum(Filled, Ids) + q /\ Sum(Filled, Ids) \in Int
  BY <1>1, FilledGrows
<1>20. Totals'
  <2>1. booked' = Sum(Booked', Ids)
    BY <1>1, <1>15 DEF Bookings, Totals
  <2>2. Executed' = Sum(Filled', Ids)
    BY <1>1, <1>7, <1>19 DEF Bookings, Totals
  <2>3. Len(trades') <= Executed'
    BY <1>1, <1>2, <1>3, <1>7 DEF Bookings, Totals
  <2> QED BY <2>1, <2>2, <2>3 DEF Totals
<1> QED BY <1>8, <1>14, <1>20 DEF Bookings

LEMMA FillAtVenue ==
  ASSUME BooksInv, NEW l \in Ids, NEW q, Executing(l, q), UNCHANGED vars
  PROVE  AtVenue'
<1>1. Raised(l, q) /\ trades \in Seq(Trades) /\ orders \in [Ids -> VenueOrders]
  BY FillRaises DEF BooksInv, AtVenue
<1>2. PICK n, m : n = Len(trades) /\ m = n + 1
  OBVIOUS
<1>3. q \in 1 .. MaxQty /\ Executes(l, q)
  BY <1>1 DEF Raised, Executing
<1>4. Grown(l, q, n, m)
  BY <1>1, <1>2, <1>3, TradesGrow
<1>5. \A k : SumsGrown(k, l, q, n, m)
  BY <1>1, <1>2, <1>3, SumsGrow
<1>6. SameAccounts
  BY SameTable DEF BooksInv
<1>7. ASSUME NEW k \in Ids PROVE OrderAt(k)'
  <2>1. OrderAt(k)
    BY DEF BooksInv, AtVenue
  <2>2. Account(k)'.qty = Account(k).qty /\ seq' = seq
    BY <1>6 DEF SameAccounts
  <2>3. Len(trades)' = m
    BY <1>4 DEF Grown
  <2>4. UpTo(k, m)' = UpTo(k, n) + (IF k = l THEN q ELSE 0) /\ UpTo(k, n) \in Nat
    BY <1>5 DEF SumsGrown
  <2>5. UpTo(k, Len(trades))' = UpTo(k, m)'
    BY <2>3 DEF UpTo
  <2>6. orders[k].cum = UpTo(k, n)
    BY <1>2, <2>1 DEF OrderAt
  <2>7. orders'[k].cum = UpTo(k, Len(trades))'
    BY <1>1, <2>4, <2>5, <2>6 DEF Raised
  <2>8. CASE k = l
    BY <1>1, <2>1, <2>2, <2>7, <2>8 DEF Raised, OrderAt
  <2>9. CASE k # l
    <3>1. orders'[k] = orders[k]
      BY <1>1, <2>9 DEF Raised
    <3> QED BY <2>1, <2>2, <2>7, <3>1 DEF OrderAt
  <2> QED BY <2>8, <2>9
<1> QED BY <1>1, <1>4, <1>7 DEF AtVenue, Raised, Grown

LEMMA VenueFillKeeps ==
  ASSUME SessionFits, BooksInv, VenueFill
  PROVE  BooksInv'
<1>1. /\ UNCHANGED vars /\ booked' = booked /\ UNCHANGED <<cmds, ring, wire, resp, ordTopic>>
      /\ UNCHANGED <<shadow, alias, sentTo, unanswered, recon, replay>>
  BY DEF VenueFill, engine, idMaps, watermark, rest, trade
<1>2. PICK l, q : /\ l \in Ids /\ Executing(l, q)
                  /\ exTopic' = Publish(exTopic, [link |-> l, exec |-> Len(trades) + 1, qty |-> q,
                                                  cum |-> orders[l].cum + q,
                                                  leaves |-> orders[l].qty - (orders[l].cum + q)])
  BY DEF VenueFill, Executing, Executes
<1>3. TableInv' /\ SameAccounts /\ SameTerms /\ execs' = execs
  BY <1>1, SameTable DEF BooksInv
<1>4. Connector'
  BY <1>1, SameConnector DEF BooksInv
<1>5. Raised(l, q) /\ trades \in Seq(Trades) /\ orders \in [Ids -> VenueOrders]
  BY <1>2, FillRaises DEF BooksInv, AtVenue
<1>6. PICK n, m : n = Len(trades) /\ m = n + 1
  OBVIOUS
<1>7. q \in 1 .. MaxQty /\ Executes(l, q)
  BY <1>2, <1>5 DEF Raised, Executing
<1>8. Grown(l, q, n, m)
  BY <1>2, <1>5, <1>6, <1>7, TradesGrow
<1>9. SumsGrown(l, l, q, n, m)
  BY <1>2, <1>5, <1>6, <1>7, SumsGrow
<1>10. AtVenue' /\ Bookings'
  BY <1>1, <1>2, FillAtVenue, FillTotals
<1>11. ToVenue'
  <2>1. ASSUME NEW x \in Sendable PROVE x \in Sendable'
    <3>1. x[1] # l
      BY <1>5 DEF Sendable, Raised, NoVenueOrder
    <3> QED BY <1>3, <1>5, <3>1 DEF Sendable, SameTerms, Ids, Raised
  <2>2. PICK C, W, A, B : C = cmds /\ W = wire /\ A = Sendable /\ B = Sendable'
    OBVIOUS
  <2>3. Orderly(C, W, B)
    BY <2>1, <2>2, OrderlyMore DEF BooksInv, ToVenue
  <2> QED BY <1>1, <2>2, <2>3 DEF ToVenue
<1>12. /\ TrueEvents \subseteq TrueEvents' /\ TrueStates \subseteq TrueStates'
       /\ TrueStreamed \subseteq TrueStreamed'
  BY <1>2, FillTrue
<1>13. PICK e : e = [link |-> l, exec |-> Len(trades) + 1, qty |-> q, cum |-> orders[l].cum + q,
                     leaves |-> orders[l].qty - (orders[l].cum + q)]
  OBVIOUS
<1>14. e.exec = m /\ n \in Nat /\ m \in Nat /\ TradeIds = 1 .. n
  BY <1>6, <1>8, <1>13 DEF Grown
<1>15. e \in TrueStreamed'
  <2>1. /\ orders[l].cum + q \in 1 .. MaxQty /\ orders[l].qty - (orders[l].cum + q) \in Nat
    BY <1>5, <1>7, OmsAssumption DEF Raised
  <2>2. e \in Streamed
    BY <1>2, <1>6, <1>7, <1>13, <1>14, <2>1 DEF Streamed
  <2>3. m \in TradeIds' /\ trades'[m] = [link |-> l, qty |-> q]
    BY <1>8, <1>14 DEF Grown
  <2>4. orders[l].cum = UpTo(l, n)
    BY <1>2, <1>6 DEF BooksInv, AtVenue, OrderAt
  <2>5. UpTo(l, m)' = orders[l].cum + q
    BY <1>9, <2>4 DEF SumsGrown
  <2>6. Execution(l, m, q)'
    BY <2>3 DEF Execution
  <2>7. e.link = l /\ e.exec = m /\ e.qty = q /\ e.cum = orders[l].cum + q
    BY <1>13, <1>14
  <2> QED BY <2>2, <2>5, <2>6, <2>7 DEF TrueStreamed
<1>16. exTopic' = exTopic \/ exTopic' = Append(exTopic, e)
  BY <1>2, <1>13 DEF Publish
<1>17. exTopic \in Seq(TrueStreamed')
  BY <1>12, SeqMono DEF BooksInv, FromVenue
<1>18. FromVenue'
  <2>1. FromVenue
    BY DEF BooksInv
  <2>2. exTopic' \in Seq(TrueStreamed')
    BY <1>15, <1>16, <1>17, Appended
  <2>3. ring' \in Seq(TrueEvents')
    BY <1>1, <1>12, <2>1, SeqMono DEF FromVenue
  <2>4. ordTopic' \in Seq(TrueStates')
    BY <1>1, <1>12, <2>1, SeqMono DEF FromVenue
  <2>5. resp' \in Seq(Replies)
    BY <1>1, <2>1 DEF FromVenue
  <2>6. ASSUME NEW k \in Ids PROVE recon'.snap[k].cum <= orders'[k].cum
    <3>1. recon'.snap[k].cum <= orders[k].cum
      BY <1>1, <2>1 DEF FromVenue
    <3>2. recon'.snap[k].cum \in Nat
      <4>1. recon \in Recons
        BY DEF BooksInv, Connector
      <4>2. recon.snap[k] \in VenueOrders
        BY <4>1 DEF Recons
      <4> QED BY <1>1, <4>2, OmsAssumption DEF VenueOrders, Qty
    <3>3. orders[k].cum \in Nat /\ (orders'[k] = orders[k] \/ orders'[k].cum = orders[k].cum + q)
      BY <1>5, OmsAssumption DEF Raised, VenueOrders, Qty
    <3> QED BY <1>7, <3>1, <3>2, <3>3
  <2> QED BY <2>2, <2>3, <2>4, <2>5, <2>6 DEF FromVenue
<1>19. Turn'
  <2>1. PICK E, R, X, k : E = Range(execs) /\ R = ring /\ X = exTopic /\ k = replay.emitted
    OBVIOUS
  <2>2. Turns(E, R, X, k) /\ X \in Seq(TrueStreamed')
    BY <1>17, <2>1 DEF BooksInv, Turn
  <2>3. GivenIn(E, R) \subseteq 1 .. n
    BY <1>14, <2>1, GivenTraded
  <2>4. After(e.exec, GivenIn(E, R))
    BY <1>6, <1>14, <2>3 DEF After
  <2>5. ASSUME NEW i \in DOMAIN X PROVE X[i].exec < e.exec
    <3>1. X \in Seq(TrueStreamed)
      BY <2>1 DEF BooksInv, FromVenue
    <3>2. PICK d : d = X[i]
      OBVIOUS
    <3>3. d \in TrueStreamed
      BY <3>1, <3>2
    <3>4. d.exec \in TradeIds
      BY <3>3, StreamedFacts
    <3> QED BY <1>6, <1>14, <3>2, <3>4
  <2>6. Turns(E, R, exTopic', k)
    <3>1. CASE exTopic' = exTopic
      BY <2>1, <2>2, <3>1
    <3>2. CASE exTopic' = Append(exTopic, e)
      <4>1. PICK Y : Y = exTopic'
        OBVIOUS
      <4>2. Y = Append(X, e)
        BY <2>1, <3>2, <4>1
      <4>3. Turns(E, R, Y, k)
        BY <1>15, <2>2, <2>4, <2>5, <4>2, TurnsPublish
      <4> QED BY <4>1, <4>3
    <3> QED BY <1>16, <3>1, <3>2
  <2>7. Len(trades') = n + 1
    BY <1>6, <1>8 DEF Grown
  <2>8. /\ replay.emitted <= n /\ (replay.st = "read" => replay.emitted <= replay.rows /\ replay.rows <= n)
        /\ replay.emitted \in Nat /\ replay.rows \in Nat
    BY <1>6 DEF BooksInv, Turn, Connector, Replays
  <2> QED BY <1>1, <1>3, <1>14, <2>1, <2>6, <2>7, <2>8 DEF Turn
<1> QED BY <1>3, <1>4, <1>10, <1>11, <1>18, <1>19 DEF BooksInv, Bookings

-----------------------------------------------------------------------------
(***************************************************************************)
(* The theorem.                                                            *)
(***************************************************************************)

LEMMA InitKept ==
  ASSUME Init
  PROVE  /\ TableInv /\ seq = 0 /\ execs = <<>> /\ Range(execs) = {}
         /\ \A l \in Ids : Account(l) = NoAcc
<1>1. IInv /\ PendingCountsEstimates /\ EndingOrdersAreUnseen
  BY InitSound, InitBooks DEF Init, EndingOrdersAreUnseen
<1>2. Kept
  <2>1. \A l \in Ids : ~(l <= seq)
    BY OmsAssumption DEF Init, Ids
  <2>2. \A h \in Slots : pool[h] = NoOrder
    BY DEF Init
  <2>3. RingShape
    BY OmsAssumption DEF Init, RingShape, RingSlots
  <2> QED BY <2>1, <2>2, <2>3 DEF Kept
<1>3. Range(execs) = {} /\ execs = <<>> /\ seq = 0
  BY DEF Init, Range
<1>4. \A l \in Ids : l > seq
  BY <1>3 DEF Ids
<1> QED BY <1>1, <1>2, <1>3, <1>4, AccountFacts DEF TableInv

\* A sum of nothing but zeros.
LEMMA SumZero ==
  ASSUME NEW v, NEW S, IsFiniteSet(S), \A x \in S : v[x] = 0
  PROVE  Sum(v, S) = 0
<1>1. Summable(v, S)
  BY DEF Summable
<1>2. PICK F : Summing(F, S, v) /\ Sum(v, S) = F[S]
  BY <1>1, SumIsSum
<1> DEFINE E == {T \in SUBSET S : F[T] = 0}
<1>3. {} \in E
  BY <1>2 DEF Summing
<1>4. ASSUME NEW T \in SUBSET S, NEW x \in S \ T, T \in E PROVE T \cup {x} \in E
  <2> DEFINE U == T \cup {x}
  <2>1. U \in SUBSET S /\ x \in U /\ U \ {x} = T
    OBVIOUS
  <2> HIDE DEF U
  <2>2. F[U] = F[T] + v[x]
    BY <1>2, <2>1 DEF Summing
  <2>3. F[T] = 0 /\ v[x] = 0
    BY <1>4
  <2>4. F[U] = 0
    BY <2>2, <2>3
  <2> QED BY <2>1, <2>4 DEF U
<1> HIDE DEF E
<1>5. S \in E
  BY <1>3, <1>4, FiniteSetInduction
<1> QED BY <1>2, <1>5 DEF E

LEMMA InitBookings ==
  ASSUME BybitInit
  PROVE  Bookings /\ AtVenue
<1>1. /\ booked = 0 /\ trades = <<>> /\ Init /\ orders = [l \in Ids |-> NoVenueOrder]
  BY DEF BybitInit
<1>2. seq = 0 /\ execs = <<>> /\ Range(execs) = {} /\ \A l \in Ids : Account(l) = NoAcc
  BY <1>1, InitKept
<1>3. TradeIds = {} /\ Len(trades) = 0 /\ trades \in Seq(Trades)
  BY <1>1 DEF TradeIds
<1>4. \A l : Named(l) = 0
  BY <1>2, SumEmpty DEF Named
<1>5. \A l : UpTo(l, Len(trades)) = 0
  <2>1. 1 .. Len(trades) = {}
    BY <1>3
  <2> QED BY <2>1, SumEmpty DEF UpTo
<1>6. \A l \in Ids : orders[l] = NoVenueOrder /\ orders[l].cum = 0 /\ orders[l].qty = 0 /\ orders[l].st = "None"
  BY <1>1 DEF NoVenueOrder
<1>7. AtVenue
  <2>1. orders \in [Ids -> VenueOrders]
    <3>1. NoVenueOrder \in VenueOrders
      BY OmsAssumption DEF NoVenueOrder, VenueOrders, Qty
    <3> QED BY <1>1, <3>1
  <2>2. ASSUME NEW l \in Ids PROVE OrderAt(l)
    BY <1>5, <1>6 DEF OrderAt
  <2> QED BY <1>3, <2>1, <2>2 DEF AtVenue
<1>8. \A l \in Ids : BookedOf(l) = 0 /\ Account(l).cum = 0
  BY <1>2, <1>4 DEF BookedOf, NoAcc
<1>9. Covered
  BY <1>6, <1>8 DEF Covered
<1>10. Remembers
  <2>1. Len(execs) = 0 /\ Cardinality({}) = 0
    BY <1>2, FS_EmptySet
  <2> QED BY <1>2, <2>1 DEF Remembers
<1>11. IsFiniteSet(Ids)
  BY FS_Interval, OmsAssumption DEF Ids
<1>12. Sum(Booked, Ids) = 0 /\ Sum(Filled, Ids) = 0
  <2>1. PICK v, w : v = Booked /\ w = Filled
    OBVIOUS
  <2>2. \A x \in Ids : v[x] = 0 /\ w[x] = 0
    BY <1>6, <1>8, <2>1 DEF Booked, Filled
  <2>3. Sum(v, Ids) = 0
    BY <1>11, <2>2, SumZero
  <2>4. Sum(w, Ids) = 0
    BY <1>11, <2>2, SumZero
  <2> QED BY <2>1, <2>3, <2>4
<1>13. Executed = 0
  <2>1. PICK v : v = [x \in {} |-> trades[x].qty]
    OBVIOUS
  <2>2. IsFiniteSet({}) /\ \A x \in {} : trades[x].qty \in Int
    BY FS_EmptySet
  <2>3. PICK s, S : s = trades /\ S = TradeIds
    OBVIOUS
  <2>4. S = {} /\ v = [x \in S |-> s[x].qty]
    BY <1>3, <2>1, <2>3
  <2>5. IsFiniteSet(S) /\ \A x \in S : s[x].qty \in Int
    BY <2>2, <2>4
  <2>6. QtySum(s, S) = Sum(v, S)
    BY <2>4, <2>5, QtySumIs
  <2>7. Sum(v, {}) = 0
    BY SumEmpty
  <2> QED BY <2>3, <2>4, <2>6, <2>7, ExecutedIsSum
<1>14. Totals
  BY <1>1, <1>3, <1>12, <1>13 DEF Totals
<1> QED BY <1>7, <1>9, <1>10, <1>14 DEF Bookings

LEMMA InitBooked ==
  ASSUME BybitInit
  PROVE  BooksInv
<1>1. TableInv /\ Range(execs) = {}
  BY InitKept DEF BybitInit
<1>2. Bookings /\ AtVenue
  BY InitBookings
<1>3. \A S : <<>> \in Seq(S)
  BY EmptyStream
<1>4. /\ cmds = <<>> /\ ring = <<>> /\ wire = <<>> /\ resp = <<>> /\ ordTopic = <<>> /\ exTopic = <<>>
      /\ shadow = [id \in Ids |-> NoShadow] /\ alias = [l \in Ids |-> NoId]
      /\ sentTo = NoId /\ unanswered = {} /\ trades = <<>>
      /\ replay = [st |-> "idle", rows |-> 0, emitted |-> 0, owed |-> FALSE]
      /\ recon = [st |-> "idle", mark |-> NoId, exact |-> FALSE, again |-> FALSE,
                  snap |-> [l \in Ids |-> NoVenueOrder]]
      /\ orders = [l \in Ids |-> NoVenueOrder]
  BY DEF BybitInit
<1>5. Connector
  <2>1. NoAlias
    BY <1>4 DEF NoAlias, NoShadow
  <2>2. replay \in Replays
    BY <1>4 DEF Replays
  <2>3. NoVenueOrder \in VenueOrders
    BY OmsAssumption DEF NoVenueOrder, VenueOrders, Qty
  <2>4. recon.snap \in [Ids -> VenueOrders]
    BY <1>4, <2>3
  <2>5. recon \in Recons
    BY <1>4, <2>4 DEF Recons
  <2> QED BY <1>4, <2>1, <2>2, <2>5 DEF Connector
<1>6. ToVenue
  <2>1. PICK A, q : A = Sendable /\ q = <<>>
    OBVIOUS
  <2>2. NewsIn(q) = {}
    BY <2>1 DEF NewsIn
  <2>3. Orderly(q, q, A)
    BY <1>3, <2>1, <2>2 DEF Orderly
  <2> QED BY <1>4, <2>1, <2>3 DEF ToVenue
<1>7. FromVenue
  <2>1. \A l \in Ids : recon.snap[l].cum <= orders[l].cum
    BY <1>4 DEF NoVenueOrder
  <2> QED BY <1>3, <1>4, <2>1 DEF FromVenue
<1>8. Turn
  <2>1. replay.emitted = 0 /\ replay.st = "idle" /\ Len(trades) = 0 /\ 1 .. 0 = {} /\ DOMAIN <<>> = {}
    BY <1>4
  <2>2. \A E : Turns(E, <<>>, <<>>, 0)
    BY <2>1 DEF Turns
  <2>3. Turns(Range(execs), ring, exTopic, replay.emitted)
    BY <1>4, <2>1, <2>2
  <2> QED BY <2>1, <2>3 DEF Turn
<1> QED BY <1>1, <1>2, <1>5, <1>6, <1>7, <1>8 DEF BooksInv, Bookings

LEMMA StutterKeeps ==
  ASSUME BooksInv, UNCHANGED allVars
  PROVE  BooksInv'
<1>1. /\ UNCHANGED inside /\ UNCHANGED <<cmds, wire, resp, ring, ordTopic, exTopic, shadow, alias>>
      /\ UNCHANGED <<sentTo, unanswered, replay, recon>>
  BY DEF allVars, inside, engine, venue, trade, topics, idMaps, watermark, rest
<1>2. ReplayKept /\ recon' \in Recons /\ recon'.snap = recon.snap
  BY <1>1, NoReplayKept DEF BooksInv, Connector
<1>3. sentTo' \in Ids \cup {NoId} /\ unanswered' \in SUBSET Ids
  BY <1>1 DEF BooksInv, Connector
<1> QED BY <1>1, <1>2, <1>3, RestKeeps

LEMMA BooksKept ==
  ASSUME ~Amends, SessionFits, BooksInv, [BybitNext]_allVars
  PROVE  BooksInv'
<1>1. CASE EngineNext
  <2>1. ~EngineReplace
    BY DEF EngineReplace
  <2> QED BY <1>1, <2>1, EngineSubmitKeeps, EngineCancelKeeps, EngineHandleKeeps, EngineEndUnseenKeeps
          DEF EngineNext
<1>2. CASE ConnectorNext
  <2>1. CASE TakeCommand \/ TradeResponse \/ OrderEvent \/ ExecutionEvent
    BY <2>1, TakeCommandKeeps, TradeResponseKeeps, OrderEventKeeps, ExecutionEventKeeps
  <2>2. CASE PrivateLost \/ PrivateLive \/ AnswerTimeout
    BY <2>2, PrivateLostKeeps, RequestStep, AnswerTimeoutKeeps
  <2>3. CASE ReplayDone \/ ReplayFailed \/ ReplayTimer
    BY <2>3, ReplayDoneKeeps, ReplayFailedKeeps, ReplayTimerKeeps
  <2>4. CASE SnapshotDone \/ SnapshotFailed \/ SnapshotRetry
    BY <2>4, SnapshotDoneKeeps, SnapshotFailedKeeps, RequestStep
  <2> QED BY <1>2, <2>1, <2>2, <2>3, <2>4 DEF ConnectorNext
<1>3. CASE VenueNext
  BY <1>3, VenueTakeKeeps, VenueCancelKeeps, VenueFillKeeps, ReadsExecutionsKeeps, ReadsOpenOrdersKeeps
     DEF VenueNext
<1>4. CASE UNCHANGED allVars
  BY <1>4, StutterKeeps
<1> QED BY <1>1, <1>2, <1>3, <1>4 DEF BybitNext

LEMMA BooksAreCovered ==
  ASSUME BooksInv
  PROVE  NoDoubleBooking
<1>1. (\A l \in Ids : BookedOf(l) \in Nat) /\ Summable(Booked, Ids) /\ IsFiniteSet(Ids)
  BY BookedType DEF BooksInv, TableInv, AtVenue, Remembers
<1>2. PICK v, w : v = Booked /\ w = Filled
  OBVIOUS
<1>3. \A l \in Ids : orders[l].cum \in Nat
  BY OmsAssumption DEF BooksInv, AtVenue, VenueOrders, Qty
<1>4. \A l \in Ids : v[l] <= w[l] /\ w[l] \in Int
  BY <1>2, <1>3 DEF BooksInv, Covered, Booked, Filled
<1>5. Summable(v, Ids) /\ Summable(w, Ids)
  BY <1>1, <1>2, <1>4 DEF Summable
<1>6. Sum(v, Ids) <= Sum(w, Ids)
  BY <1>4, <1>5, SumLess
<1> QED BY <1>2, <1>6 DEF NoDoubleBooking, BooksInv, Totals

\* The books stay sound: what the connector sends and receives, the venue and the table agree on
\* every order's quantity, and what is booked of an order, by name or as an estimate, is never more
\* than the venue executed of it.
THEOREM BooksInvariant ==
  ASSUME ~Amends, SessionFits
  PROVE  BybitSpec => []BooksInv
<1>1. BybitInit => BooksInv
  BY InitBooked
<1>2. BooksInv /\ [BybitNext]_allVars => BooksInv'
  BY BooksKept
<1> QED BY <1>1, <1>2, PTL DEF BybitSpec

\* No quantity is in the position twice, in whatever order acknowledgements, live executions,
\* replayed ones and snapshots arrive, whatever the faults (on_fill, book_missed_fill,
\* corrected quantities), as long as orders are not amended and the table's memories hold the session.
THEOREM BookedWithinExecuted ==
  ASSUME ~Amends, SessionFits
  PROVE  BybitSpec => []NoDoubleBooking
<1>1. BooksInv => NoDoubleBooking
  BY BooksAreCovered
<1> QED BY <1>1, BooksInvariant, PTL

=============================================================================
