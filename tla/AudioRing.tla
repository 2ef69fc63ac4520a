------------------------------ MODULE AudioRing ------------------------------
(***************************************************************************)
(* The lock-free ring between one source's push thread (the producer) and  *)
(* the audio render thread (the consumer), with the main thread looking at *)
(* its fill (AudioMixEngine::stats).                                       *)
(*                                                                         *)
(* Each side is a thread of its own: it loads the other side's cursor,     *)
(* copies frame by frame, and publishes its own cursor at the end.  The    *)
(* acquire loads and release stores of the cursors make the copies visible *)
(* in that order, so steps interleave as if memory were sequentially       *)
(* consistent.  A frame is identified by its stream position; the frames   *)
(* of a chunk that is dropped have none.                                   *)
(***************************************************************************)
EXTENDS Integers, Sequences

CONSTANTS
  Capacity,  \* the frames the ring holds
  MaxChunk,  \* the largest chunk a source pushes and a mix pulls
  MaxPos,    \* the bound on stream positions
  Width      \* one more than the largest value of a cursor's type

ASSUME CapacityAssumption == Capacity \in Nat \ {0}
ASSUME ChunkAssumption == MaxChunk \in Nat /\ MaxPos \in Nat
ASSUME WidthAssumption == Width \in Nat /\ Width > MaxPos

VARIABLES
  buf,   \* buf[i]: the frame in slot i
  head,  \* the consumer's cursor
  tail,  \* the producer's cursor
  push,  \* the producer: [busy, n, i], the chunk's length and frames copied
  pull,  \* the consumer: the same for the frames it reads
  got,   \* the frames copied so far by the current or last read
  out,   \* the frames the last read returned
  probe  \* the main thread in fillFrames(): [busy, tail, fill]

vars == <<buf, head, tail, push, pull, got, out, probe>>

Slot(pos) == pos % Capacity
Least(m, n) == IF m <= n THEN m ELSE n

AtRest == [busy |-> FALSE, n |-> 0, i |-> 0]
Copying(n) == [busy |-> TRUE, n |-> n, i |-> 0]
OneMore(side) == [side EXCEPT !.i = @ + 1]

Init ==
  /\ buf = [i \in 0..Capacity - 1 |-> -1]
  /\ head = 0
  /\ tail = 0
  /\ push = AtRest
  /\ pull = AtRest
  /\ got = <<>>
  /\ out = <<>>
  /\ probe = [busy |-> FALSE, tail |-> 0, fill |-> 0]

----------------------------------------------------------------------------
(***************************************************************************)
(* The producer.                                                           *)
(***************************************************************************)

Free == Capacity - (tail - head)

\* Mutant: the cursor is published before the frames are copied.
PushBeginEarly(n) ==
  /\ ~push.busy
  /\ n <= Free
  /\ tail + n <= MaxPos
  /\ push' = Copying(n)
  /\ tail' = tail + n
  /\ UNCHANGED <<buf, head, pull, got, out, probe>>

\* writeFrames: a chunk that does not fit is dropped whole (no step here).
PushBegin(n) ==
  /\ ~push.busy
  /\ n <= Free
  /\ tail + n <= MaxPos
  /\ push' = Copying(n)
  /\ UNCHANGED <<buf, head, tail, pull, got, out, probe>>

PushCopy ==
  /\ push.busy /\ push.i < push.n
  /\ buf' = [buf EXCEPT ![Slot(tail + push.i)] = tail + push.i]
  /\ push' = OneMore(push)
  /\ UNCHANGED <<head, tail, pull, got, out, probe>>

PushEnd ==
  /\ push.busy /\ push.i = push.n
  /\ tail' = tail + push.n
  /\ push' = AtRest
  /\ UNCHANGED <<buf, head, pull, got, out, probe>>

----------------------------------------------------------------------------
(***************************************************************************)
(* The consumer.                                                           *)
(***************************************************************************)

Fill == tail - head

\* Mutant: the slots are given back before they are read.
PullBeginEarly(max) ==
  /\ ~pull.busy
  /\ pull' = Copying(Least(max, Fill))
  /\ head' = head + Least(max, Fill)
  /\ got' = <<>>
  /\ UNCHANGED <<buf, tail, push, out, probe>>

\* readFrames: as many frames as there are, up to the number asked for.
PullBegin(max) ==
  /\ ~pull.busy
  /\ pull' = Copying(Least(max, Fill))
  /\ got' = <<>>
  /\ UNCHANGED <<buf, head, tail, push, out, probe>>

PullCopy ==
  /\ pull.busy /\ pull.i < pull.n
  /\ got' = Append(got, buf[Slot(head + pull.i)])
  /\ pull' = OneMore(pull)
  /\ UNCHANGED <<buf, head, tail, push, out, probe>>

PullEnd ==
  /\ pull.busy /\ pull.i = pull.n
  /\ head' = head + pull.n
  /\ pull' = AtRest
  /\ out' = got
  /\ UNCHANGED <<buf, tail, push, got, probe>>

\* discardFrames, for the prime trim, a shed, a resync.
Discard(max) ==
  /\ ~pull.busy
  /\ head' = head + Least(max, Fill)
  /\ UNCHANGED <<buf, tail, push, pull, got, out, probe>>

----------------------------------------------------------------------------
(***************************************************************************)
(* The main thread: stats() calls fillFrames while both sides run.         *)
(***************************************************************************)

ProbeTail ==
  /\ ~probe.busy
  /\ probe' = [probe EXCEPT !.busy = TRUE, !.tail = tail]
  /\ UNCHANGED <<buf, head, tail, push, pull, got, out>>

ProbeHead ==
  /\ probe.busy
  /\ probe' = [probe EXCEPT !.busy = FALSE, !.fill = (probe.tail - head) % Width]
  /\ UNCHANGED <<buf, head, tail, push, pull, got, out>>

----------------------------------------------------------------------------

Producer == (\E n \in 1..MaxChunk : PushBegin(n)) \/ PushCopy \/ PushEnd
Consumer ==
  \/ \E max \in 1..MaxChunk : PullBegin(max) \/ Discard(max)
  \/ PullCopy \/ PullEnd
Observer == ProbeTail \/ ProbeHead

Next == Producer \/ Consumer \/ Observer

Spec == Init /\ [][Next]_vars

----------------------------------------------------------------------------
(***************************************************************************)
(* Properties.                                                             *)
(***************************************************************************)

SideType == [busy : BOOLEAN, n : Nat, i : Nat]

\* Every variable keeps its type, and the cursors never pass each other nor
\* lie further apart than the ring is long.
TypeOK ==
  /\ buf \in [0..Capacity - 1 -> Int]
  /\ head \in Nat /\ tail \in Nat
  /\ head <= tail /\ tail - head <= Capacity
  /\ push \in SideType /\ pull \in SideType
  /\ got \in Seq(Int) /\ out \in Seq(Int)
  /\ probe \in [busy : BOOLEAN, tail : Nat, fill : Nat]

\* No torn and no overwritten frame: what a read has copied so far are the
\* frames at the consumer's cursor, each once and in order, although the
\* producer writes all the while.
ReadsInOrder ==
  pull.busy => \A i \in 1..Len(got) : got[i] = head + i - 1

\* Every frame the producer published and the consumer has not given back
\* is in its slot.
UnreadIntact == \A pos \in head..tail - 1 : buf[Slot(pos)] = pos

\* The ring implements the bounded queue: a chunk is accepted when its
\* cursor is stored, a read happens when its cursor is.
Fifo == INSTANCE FrameFifo WITH first <- head, next <- tail, heard <- out
ImplementsFifo == Fifo!Spec

\* The fill that stats() reports is the number of frames some ring of this
\* capacity can hold.  It may not be: the cursors are loaded one after the other.
ProbeInRange == probe.fill <= Capacity

----------------------------------------------------------------------------
(***************************************************************************)
(* The inductive invariant.                                                *)
(***************************************************************************)

\* A chunk being copied fits, and the frames copied so far are in place.
PushInv ==
  push.busy =>
    /\ push.i <= push.n
    /\ tail + push.n - head <= Capacity
    /\ \A j \in 0..push.i - 1 : buf[Slot(tail + j)] = tail + j

\* A read under way reads published frames only.
PullInv ==
  pull.busy =>
    /\ pull.i <= pull.n
    /\ pull.n <= tail - head
    /\ Len(got) = pull.i

RingInv ==
  /\ TypeOK
  /\ PushInv
  /\ PullInv
  /\ ReadsInOrder
  /\ UnreadIntact
=============================================================================
