------------------------------ MODULE MsgRing ------------------------------
(***************************************************************************)
(* The byte ring between two threads (include/fastmm/core/msg_ring.hpp;    *)
(* shm_ring.hpp is the same protocol between two processes), with the      *)
(* producer's wait for room (EventSink::reserve_bytes).                    *)
(*                                                                         *)
(* The buffer is modelled by granules (kRingMsgGranule bytes): a message   *)
(* of n granules starts with a prefix that holds its length and type.  A   *)
(* step makes at most one access to an index the other thread writes; the  *)
(* acquire and release orders make everything written before a store of    *)
(* the index visible with it.  Both threads keep a copy of the other's     *)
(* index that may be old.                                                  *)
(***************************************************************************)
EXTENDS Integers, Sequences

CONSTANTS
  Cap,          \* capacity() in granules
  Lens,         \* message lengths in granules, rounded up
  Words,        \* what a granule of a message may hold
  Padding,      \* kRingPaddingType
  MaxPos        \* the producer stops at this position (the indices are 64 bits wide)

\* No message is longer than half the ring: one that is may find no room in an empty ring when the
\* tail is badly placed, as its padding needs the rest.
ASSUME RingAssumption ==
  /\ Cap \in Nat \ {0}
  /\ Lens \subseteq Nat \ {0}
  /\ \A n \in Lens : 2 * n - 1 <= Cap
  /\ Padding \notin Words
  /\ MaxPos \in Nat

VARIABLES
  buf,          \* buf_: granule -> [len, word]; len is the prefix's length, 0 if it holds none
  tail,         \* tail_, written by the producer
  head,         \* head_, written by the consumer
  headCache,    \* head_cache_, the producer's copy
  tailCache,    \* tail_cache_, the consumer's copy
  prod,         \* the producer: its step, its message, reserve_pos_ and the granules filled so far
  held          \* the consumer holds the message try_peek() returned

ringVars == <<buf, tail, head, headCache, tailCache, prod, held>>

Granules == 0 .. Cap - 1
Messages == UNION {[1 .. n -> Words] : n \in Lens}
Raw      == [len |-> 0, word |-> Padding]     \* memset 0
Idle     == [step |-> "idle", msg |-> <<>>, pos |-> 0, filled |-> 0]

At(p) == p % Cap                              \* p & mask_

-----------------------------------------------------------------------------
(***************************************************************************)
(* Producer.                                                               *)
(***************************************************************************)

\* A message that would straddle the end starts at offset 0 behind a padding record.
PadFor(t, n) == IF Cap - At(t) < n THEN Cap - At(t) ELSE 0
\* Fault: the padding is left out of the space a message needs.
NeedWithoutPad(t, n) == n
Need(t, n)   == PadFor(t, n) + n
Fits(cache)  == tail + Need(tail, Len(prod.msg)) - cache <= Cap
\* Fault: the copy is never renewed.
NotRenewed   == headCache
\* The copy is renewed only when it does not leave room.
Renewed      == IF Fits(headCache) THEN headCache ELSE head

\* push() and the in-place users: the next message.
Offer(m) ==
  /\ prod.step = "idle"
  /\ tail < MaxPos
  /\ prod' = [Idle EXCEPT !.step = "trying", !.msg = m]
  /\ UNCHANGED <<buf, tail, head, headCache, tailCache, held>>

\* try_reserve() with room.
TryReserve ==
  LET pad == PadFor(tail, Len(prod.msg))
  IN  /\ prod.step = "trying"
      /\ Fits(Renewed)
      /\ headCache' = Renewed
      /\ buf' = IF pad = 0 THEN buf
                ELSE [buf EXCEPT ![At(tail)] = [len |-> pad, word |-> Padding]]
      /\ prod' = [prod EXCEPT !.step = "filling", !.pos = tail + pad]
      /\ UNCHANGED <<tail, head, tailCache, held>>

\* try_reserve() without: the sink spins and tries again, until its policy gives up (on_overflow).
TryReserveFull ==
  /\ prod.step = "trying"
  /\ ~Fits(Renewed)
  /\ headCache' = Renewed
  /\ prod' \in {prod, Idle}
  /\ UNCHANGED <<buf, tail, head, tailCache, held>>

\* The message is written in place, or copied in.
Fill ==
  LET k == prod.filled + 1
  IN  /\ prod.step = "filling"
      /\ k <= Len(prod.msg)
      /\ buf' = [buf EXCEPT ![At(prod.pos + k - 1)] =
                   [len |-> IF k = 1 THEN Len(prod.msg) ELSE 0, word |-> prod.msg[k]]]
      /\ prod' = [prod EXCEPT !.filled = k]
      /\ UNCHANGED <<tail, head, headCache, tailCache, held>>

\* Fault: the message is published before it is written.
CommitEarly ==
  /\ prod.step = "filling"
  /\ tail' = prod.pos + Len(prod.msg)
  /\ prod' = Idle
  /\ UNCHANGED <<buf, head, headCache, tailCache, held>>

Commit ==
  /\ prod.step = "filling"
  /\ prod.filled = Len(prod.msg)
  /\ tail' = prod.pos + Len(prod.msg)
  /\ prod' = Idle
  /\ UNCHANGED <<buf, head, headCache, tailCache, held>>

-----------------------------------------------------------------------------
(***************************************************************************)
(* Consumer.                                                               *)
(***************************************************************************)

\* The copy is renewed only when it says empty.
Seen == IF head = tailCache THEN tail ELSE tailCache

\* One round of try_peek()'s loop: padding is freed and skipped, a message is held.
TryPeek ==
  /\ ~held
  /\ head # Seen
  /\ tailCache' = Seen
  /\ IF buf[At(head)].word = Padding
     THEN head' = head + buf[At(head)].len /\ UNCHANGED held
     ELSE held' = TRUE /\ UNCHANGED head
  /\ UNCHANGED <<buf, tail, headCache, prod>>

Release ==
  /\ held
  /\ head' = head + buf[At(head)].len
  /\ held' = FALSE
  /\ UNCHANGED <<buf, tail, headCache, tailCache, prod>>

-----------------------------------------------------------------------------
RingInit ==
  /\ buf = [g \in Granules |-> Raw]
  /\ tail = 0 /\ head = 0
  /\ headCache = 0 /\ tailCache = 0
  /\ prod = Idle
  /\ held = FALSE

Producer == (\E m \in Messages : Offer(m)) \/ TryReserve \/ TryReserveFull \/ Fill \/ Commit
Consumer == TryPeek \/ Release
RingNext == Producer \/ Consumer

RingSpec == RingInit /\ [][RingNext]_ringVars

\* Both threads run.  A producer with SinkPolicy::Spin tries again while there is no room; giving up
\* is its choice.
RingFairSpec ==
  /\ RingSpec
  /\ WF_ringVars(TryReserve) /\ WF_ringVars(Fill) /\ WF_ringVars(Commit)
  /\ WF_ringVars(TryPeek) /\ WF_ringVars(Release)

-----------------------------------------------------------------------------
(***************************************************************************)
(* Properties.                                                             *)
(***************************************************************************)

\* The indices keep their order and the producer stays out of what the consumer has not released,
\* the padding it writes included, although each thread decides by an old copy of the other's index.
NoOverrun ==
  /\ headCache <= head /\ head <= tailCache /\ tailCache <= tail
  /\ tail - head <= Cap
  /\ prod.step = "filling" => prod.pos + Len(prod.msg) - head <= Cap

\* The messages between two positions as the consumer would read them off the buffer.
Contents(from, to) ==
  LET read[p \in from .. to] ==
        LET c == buf[At(p)]
            n == IF p + c.len < to THEN p + c.len ELSE to
        IN  IF p = to \/ c.len = 0 THEN <<>>
            ELSE IF c.word = Padding THEN read[n]
            ELSE <<[k \in 1 .. c.len |-> buf[At(p + k - 1)].word]>> \o read[n]
  IN  read[from]

Channel == INSTANCE MsgChannel WITH Msgs <- Messages, queue <- Contents(head, tail)

\* The ring is the channel, read off the bytes it holds: a message enters with the store of tail_ and
\* leaves with the store of head_, whole, in order and unchanged by what the producer writes
\* meanwhile, and a committed message is taken in the end.
IsChannel == Channel!Spec

\* A producer that waits for room does not wait for ever: padding included, there is room once the
\* consumer has drained the ring (EventSink's spin).
RoomInTheEnd == (prod.step = "trying") ~> (prod.step # "trying")

=============================================================================
