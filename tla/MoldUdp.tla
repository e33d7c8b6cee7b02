------------------------------ MODULE MoldUdp ------------------------------
(***************************************************************************)
(* MoldUDP64: a Transmitter numbers messages and sends them in datagrams   *)
(* on two multicast lines; the Receiver arbitrates between the lines,      *)
(* holds what arrives ahead of a gap, asks for what is missing and gives   *)
(* it up when nobody answers.                                              *)
(*                                                                         *)
(* The network is the set of data datagrams that may still arrive: in any  *)
(* order, once, again (the other line's copy) or never.  A request that is *)
(* not lost is answered into it at once: what a later answer would hold is *)
(* the same.  Heartbeats are not kept: one that is late announces less     *)
(* than was sent, and any such number may be heard at any time.  A message *)
(* is its sequence number.  Time is kept as ages: how long ago each stamp  *)
(* of the receiver was taken, in ticks, no longer counted once it exceeds  *)
(* the timeout it is compared with.                                        *)
(*                                                                         *)
(* The receiver's calls are operators on its state r.  Each returns r with *)
(* the handler's callbacks appended to r.out and the requests sent in      *)
(* r.ask; an action of the module that owns the receiver (ItchFeed) runs   *)
(* the callbacks and empties both.                                         *)
(*                                                                         *)
(* Left out: bytes and parsing, line statistics and skew, follow_session   *)
(* (no venue sets it), the history's size in bytes.                        *)
(***************************************************************************)
EXTENDS Integers, Sequences, FiniteSets, FiniteSetsExt, SequencesExt

CONSTANTS
  MaxMsg,      \* messages the transmitter publishes
  MaxPkt,      \* messages that fit a datagram
  HistCap,     \* TransmitterConfig::history_messages, overwriting the oldest
  MaxNet,      \* data datagrams in the network at a time
  MaxHeld,     \* reorder_packets
  FitLen,      \* messages of a datagram that fits a slot of the reorder buffer
  MaxReq,      \* max_request_count
  MaxAttempts, \* max_request_attempts (0: no limit)
  GapTicks,    \* gap_timeout_ns
  ReqTicks     \* request_timeout_ns

ASSUME MoldAssumption ==
  /\ {MaxMsg, MaxPkt, HistCap, MaxNet, MaxReq, ReqTicks} \subseteq Nat \ {0}
  /\ {MaxHeld, FitLen, MaxAttempts, GapTicks} \subseteq Nat

VARIABLES
  tx,          \* the transmitter
  net,         \* data datagrams that may still arrive
  rx           \* the receiver

-----------------------------------------------------------------------------
(***************************************************************************)
(* Transmitter: [count, first, unsent, over].                              *)
(***************************************************************************)

\* p.seq up to but not including p.end; a heartbeat or End of Session holds nothing.
Data(a, b)   == [kind |-> "data", seq |-> a, end |-> b]
Heartbeat(n) == [kind |-> "heartbeat", seq |-> n, end |-> n]
EndOfSession(n) == [kind |-> "eos", seq |-> n, end |-> n]

Lesser(a, b)  == IF a < b THEN a ELSE b
Greater(a, b) == IF a < b THEN b ELSE a

\* publish(): the oldest message leaves a full history.
Publish ==
  /\ tx.count < MaxMsg /\ ~tx.over
  /\ tx' = [tx EXCEPT !.count = @ + 1,
                      !.first = IF tx.count + 1 - @ >= HistCap THEN @ + 1 ELSE @]
  /\ UNCHANGED <<net, rx>>

\* packet_at(): up to n messages from a, nothing when a is not in the history.
PacketAt(a, n) ==
  IF a < tx.first \/ a > tx.count THEN {}
  ELSE {Data(a, a + Lesser(Lesser(n, MaxPkt), tx.count + 1 - a))}

\* next_packet(): what was evicted before it was sent is never sent.
SendNext ==
  \E n \in 1..MaxPkt :
    LET a == Greater(tx.unsent, tx.first)
    IN  /\ Cardinality(net) < MaxNet
        /\ a <= tx.count
        /\ net' = net \cup PacketAt(a, n)
        /\ tx' = [tx EXCEPT !.unsent = a + Lesser(n, tx.count + 1 - a)]
        /\ UNCHANGED rx

\* heartbeat(), end_of_session(): what the owner sends while there is nothing else, and once
\* everything is sent.
Announcements ==
  {Heartbeat(n) : n \in 1..tx.unsent} \cup (IF tx.over THEN {EndOfSession(tx.unsent)} ELSE {})

CloseSession ==
  /\ tx.unsent = tx.count + 1 /\ ~tx.over
  /\ tx' = [tx EXCEPT !.over = TRUE]
  /\ UNCHANGED <<net, rx>>

\* answer_request() to the requests that arrive.
Answers(asked) == UNION {PacketAt(q.seq, q.n) : q \in asked}

Lose == \E p \in net : net' = net \ {p} /\ UNCHANGED <<tx, rx>>

-----------------------------------------------------------------------------
(***************************************************************************)
(* Receiver.                                                               *)
(***************************************************************************)

NoGap == -1

Receiver(start, canRequest) ==
  [next |-> start, highest |-> 0, hiAge |-> GapTicks, held |-> {}, state |-> "Down",
   requested |-> 0, attempts |-> 0, overflow |-> 0, gap |-> NoGap, reqAge |-> ReqTicks,
   eos |-> FALSE, told |-> FALSE, can |-> canRequest, out |-> <<>>, ask |-> {}]

\* A message and the datagram that carried it.
Message(q, p)    == [call |-> "message", from |-> q, to |-> q + 1, pkt |-> <<p.seq, p.end>>]
Unrecoverable(a, b) == [call |-> "unrecoverable", from |-> a, to |-> b]
Ended            == [call |-> "ended"]

\* Fault: a message that was delivered before is not left out.
FromOf(r, p) == p.seq

\* deliver(): the messages of p from next_ on.
FirstOf(r, p) == Greater(p.seq, r.next)

Deliver(r, p) ==
  LET a == FirstOf(r, p)
  IN  [r EXCEPT !.next = Greater(@, p.end),
                !.out = @ \o [i \in 1..(p.end - a) |-> Message(a + i - 1, p)]]

\* A loop of the code that ends after at most n turns: a turn that has nothing to do changes nothing.
Repeat(Turn(_), r, n) ==
  LET after[i \in 0..n] == IF i = 0 THEN r ELSE Turn(after[i - 1])
  IN  after[n]

\* drain(): what next_ reaches leaves the reorder buffer.  Slots are filled and searched from the first, so
\* any of the packets due may be found: which one decides only from which of two overlapping
\* datagrams a message is taken.
DrainTurn(r) ==
  LET due == {h \in r.held : h.seq <= r.next}
      h   == CHOOSE x \in due : TRUE
      y   == IF h.end > r.next THEN Deliver(r, h) ELSE r
  IN  IF due = {} THEN r ELSE [y EXCEPT !.held = @ \ {h}]

Drain(r) == Repeat(DrainTurn, r, Cardinality(r.held))

\* lowest(), at most limit.
HoleEnd(r, limit) == Min({h.seq : h \in r.held} \cup {limit})

\* hole_known_since(), as an age.
HoleAge(r) == Max({h.age : h \in r.held} \cup {r.hiAge})

OnProgress(r) == [r EXCEPT !.gap = IF r.next < r.highest THEN HoleAge(r) ELSE NoGap]

\* Fault: everything up to the limit is given up, the packets held included.
SkippedToLimit(r, limit) == limit

SkippedTo(r, limit) == HoleEnd(r, limit)

SkipHole(r, limit) ==
  LET to == SkippedTo(r, limit)
  IN  OnProgress(Drain([r EXCEPT !.next = to, !.out = Append(@, Unrecoverable(r.next, to))]))

AttemptsNow(r) == IF r.requested = r.next THEN r.attempts + 1 ELSE 1

Request(r) ==
  [r EXCEPT !.attempts = AttemptsNow(r), !.requested = r.next, !.reqAge = 0,
            !.ask = @ \cup {[seq |-> r.next, n |-> Lesser(HoleEnd(r, r.highest) - r.next, MaxReq)]}]

Fits(p) == MaxHeld > 0 /\ p.end - p.seq <= FitLen
Full(r) == Cardinality(r.held) = MaxHeld
Covered(r, p) == \E h \in r.held : h.seq <= p.seq /\ h.end >= p.end
Hold(r, p) == [r EXCEPT !.held = @ \cup {[seq |-> p.seq, end |-> p.end, age |-> 0]}]

\* The loop of on_ahead(): holes are given up until p is in sequence or can be held.
RoomTurn(r, p) == IF p.seq <= r.next \/ (~Full(r) /\ Fits(p)) THEN r ELSE SkipHole(r, p.seq)
MakeRoom(r, p) == Repeat(LAMBDA x : RoomTurn(x, p), SkipHole(r, p.seq), MaxHeld)

OnAhead(r, p) ==
  IF Covered(r, p) THEN r
  ELSE IF ~Full(r) /\ Fits(p) THEN Hold(r, p)
  ELSE IF r.can
  THEN LET x == [r EXCEPT !.overflow = Greater(@, p.end)]
       IN  IF r.state = "Recovering" THEN x ELSE Request([x EXCEPT !.state = "Recovering"])
  ELSE LET x == MakeRoom(r, p)
       IN  IF p.seq > x.next THEN Hold(x, p)
           ELSE IF p.end > x.next THEN Drain(Deliver(x, p)) ELSE x

\* Fault: the handler is told of the end of the session as soon as it is announced.
MayTellEarly(r) == r.eos

\* on_end_of_session() waits for every message to be delivered or given up.
MayTell(r) == r.eos /\ r.next >= r.highest

Tell(r) == IF MayTell(r) /\ ~r.told
           THEN [r EXCEPT !.told = TRUE, !.out = Append(@, Ended)] ELSE r

\* One turn of update()'s loop.  A turn that returns leaves a state the next turn does not change.
UpdateTurn(r) ==
  LET x    == IF r.gap = NoGap THEN [r EXCEPT !.gap = HoleAge(r)] ELSE r
      aged == x.gap >= GapTicks
  IN  IF r.next >= r.highest
      THEN [r EXCEPT !.gap = NoGap, !.state = IF @ = "Down" THEN @ ELSE "Up"]
      ELSE IF x.state # "Recovering"
      THEN IF ~aged THEN x
           ELSE IF ~x.can THEN SkipHole(x, x.highest)
           ELSE Request([x EXCEPT !.state = "Recovering"])
      ELSE IF x.requested # x.next
      THEN IF aged \/ x.next < x.overflow THEN Request(x) ELSE x
      ELSE IF x.reqAge < ReqTicks THEN x
      ELSE IF MaxAttempts = 0 \/ x.attempts < MaxAttempts THEN Request(x)
      ELSE SkipHole(x, x.highest)

Update(r) == Tell(Repeat(UpdateTurn, r, MaxHeld + 2))

OnPacket(r0, p) ==
  LET r == [r0 EXCEPT !.next = IF @ = 0 THEN Greater(p.seq, 1) ELSE @,
                      !.state = IF @ = "Down" THEN "Up" ELSE @,
                      !.highest = Greater(@, p.end),
                      !.hiAge = IF p.end > r0.highest THEN 0 ELSE @,
                      !.eos = @ \/ p.kind = "eos"]
      x == IF p.kind # "data" \/ p.end <= r.next THEN r
           ELSE IF p.seq <= r.next THEN Drain(Deliver(r, p))
           ELSE OnAhead(r, p)
  IN  Update(IF x.next # r.next THEN OnProgress(x) ELSE x)

OnTimer(r) == IF r.next < r.highest THEN Update(r) ELSE r

\* reset(): a snapshot said where the stream must resume.
Reset(r, n) ==
  LET x == [r EXCEPT !.next = n, !.held = {}, !.requested = 0, !.attempts = 0, !.overflow = 0,
                     !.state = IF @ = "Recovering" THEN "Up" ELSE @,
                     !.highest = Greater(@, n),
                     !.hiAge = IF r.highest < n THEN 0 ELSE @]
  IN  [x EXCEPT !.gap = IF n # 0 /\ n < x.highest THEN 0 ELSE NoGap]

\* A tick of the clock.
Aged(age, most) == Lesser(age + 1, most)
Older(r) ==
  [r EXCEPT !.hiAge = Aged(@, GapTicks), !.reqAge = Aged(@, ReqTicks),
            !.gap = IF @ = NoGap THEN @ ELSE Aged(@, GapTicks),
            !.held = {[h EXCEPT !.age = Aged(@, GapTicks)] : h \in @}]

\* The members that no longer matter once next_ has passed them are forgotten: requested_next_ is
\* only compared with next_, attempts_ and last_request_ns_ only when they are equal, overflow_end_
\* only while next_ is below it.
Settled(r) ==
  LET old == r.requested < r.next
  IN  [r EXCEPT !.requested = IF old THEN 0 ELSE @, !.attempts = IF old THEN 0 ELSE @,
                !.reqAge = IF old THEN ReqTicks ELSE @,
                !.overflow = IF @ <= r.next THEN 0 ELSE @]

MoldInit ==
  /\ tx = [count |-> 0, first |-> 1, unsent |-> 1, over |-> FALSE]
  /\ net = {}

MoldNext == Publish \/ SendNext \/ CloseSession \/ Lose

=============================================================================
