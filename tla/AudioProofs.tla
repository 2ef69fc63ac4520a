---------------------------- MODULE AudioProofs -----------------------------
(***************************************************************************)
(* Theorems about the way of the audio of one source: first AudioRing, for *)
(* every capacity, chunk size and bound on the stream positions, then      *)
(* TapSplice, for every length of a mix, ring, cushion, push and delay.    *)
(* The two specifications share no state and no theorem mentions both.     *)
(***************************************************************************)
EXTENDS AudioRing, TapSplice, SequenceTheorems, TLAPS

-----------------------------------------------------------------------------
(***************************************************************************)
(* AudioRing: slots.                                                       *)
(***************************************************************************)

\* A position is its quotient times the capacity plus its slot.
LEMMA SlotDivision ==
  ASSUME NEW pos \in Nat
  PROVE  /\ pos = Capacity * (pos \div Capacity) + Slot(pos)
         /\ Slot(pos) \in 0..Capacity - 1
         /\ pos \div Capacity \in Nat
<1>1. Slot(pos) \in 0..Capacity - 1
  BY CapacityAssumption DEF Slot
<1>2. pos \div Capacity \in Int
  BY CapacityAssumption
<1>3. pos = Capacity * (pos \div Capacity) + Slot(pos)
  BY CapacityAssumption DEF Slot
<1>4. pos \div Capacity \in Nat
  BY <1>1, <1>2, <1>3, CapacityAssumption
<1> QED
  BY <1>1, <1>3, <1>4

\* A positive multiple of the capacity is at least the capacity.
LEMMA Multiple ==
  ASSUME NEW k \in Nat, k >= 1
  PROVE  Capacity * k >= Capacity
  BY CapacityAssumption

\* Positions less than a capacity apart never share a slot.
LEMMA SlotsDistinct ==
  ASSUME NEW a \in Nat, NEW b \in Nat, a < b, b - a < Capacity
  PROVE  Slot(a) # Slot(b)
<1> SUFFICES ASSUME Slot(a) = Slot(b) PROVE FALSE
  OBVIOUS
<1> DEFINE p == a \div Capacity
           q == b \div Capacity
           r == Slot(a)
<1>1. a = Capacity * p + r /\ p \in Nat /\ r \in 0..Capacity - 1
  BY SlotDivision
<1>2. b = Capacity * q + r /\ q \in Nat
  BY SlotDivision
<1> HIDE DEF p, q, r
<1>3. b - a = Capacity * (q - p)
  BY <1>1, <1>2, CapacityAssumption
<1>4. q > p
  BY <1>1, <1>2, <1>3, CapacityAssumption
<1>5. Capacity * (q - p) >= Capacity
  BY <1>1, <1>2, <1>4, Multiple
<1> QED
  BY <1>3, <1>5, CapacityAssumption

-----------------------------------------------------------------------------
(***************************************************************************)
(* The inductive invariant.                                                *)
(***************************************************************************)

LEMMA InitRingInv == Init => RingInv
<1> SUFFICES ASSUME Init PROVE RingInv
  OBVIOUS
<1>1. TypeOK
  BY CapacityAssumption DEF Init, TypeOK, SideType, AtRest
<1>2. PushInv /\ PullInv /\ ReadsInOrder
  BY DEF Init, PushInv, PullInv, ReadsInOrder, AtRest
<1>3. UnreadIntact
  BY DEF Init, UnreadIntact
<1> QED
  BY <1>1, <1>2, <1>3 DEF RingInv

\* The producer takes a chunk that fits.
LEMMA PushBeginKeeps ==
  ASSUME RingInv, NEW n \in 1..MaxChunk, PushBegin(n)
  PROVE  RingInv'
<1> USE CapacityAssumption, ChunkAssumption DEF RingInv, PushBegin
<1>1. TypeOK'
  BY DEF TypeOK, SideType, Copying
<1>2. PushInv'
  BY DEF PushInv, Copying, Free, TypeOK
<1>3. PullInv' /\ ReadsInOrder' /\ UnreadIntact'
  BY DEF PullInv, ReadsInOrder, UnreadIntact
<1> QED
  BY <1>1, <1>2, <1>3

\* A frame is copied into a slot that holds no unread frame and none of the
\* frames of its own chunk.
LEMMA PushCopyKeeps ==
  ASSUME RingInv, PushCopy
  PROVE  RingInv'
<1> DEFINE at == tail + push.i
<1>1. /\ push.busy /\ push.i < push.n /\ push.i \in Nat /\ push.n \in Nat
      /\ at \in Nat /\ at - head < Capacity
      /\ head \in Nat /\ tail \in Nat /\ head <= tail
  BY CapacityAssumption, SMTT(40) DEF RingInv, PushCopy, PushInv, TypeOK, SideType
<1>2. Slot(at) \in 0..Capacity - 1
  BY <1>1, SlotDivision
<1>3. /\ buf \in [0..Capacity - 1 -> Int]
      /\ buf' = [buf EXCEPT ![Slot(at)] = at]
  BY DEF RingInv, TypeOK, PushCopy
<1>4. \A pos \in head..at - 1 : buf[Slot(pos)] = pos => buf'[Slot(pos)] = pos
  <2> SUFFICES ASSUME NEW pos \in head..at - 1, buf[Slot(pos)] = pos
               PROVE  buf'[Slot(pos)] = pos
    OBVIOUS
  <2>1. pos \in Nat /\ pos < at /\ at - pos < Capacity
    BY <1>1, CapacityAssumption
  <2>2. Slot(pos) # Slot(at)
    BY <1>1, <2>1, SlotsDistinct
  <2>3. Slot(pos) \in 0..Capacity - 1
    BY <2>1, SlotDivision
  <2> QED
    BY <1>3, <2>2, <2>3
<1>5. buf'[Slot(at)] = at
  BY <1>2, <1>3
<1>6. UNCHANGED <<head, tail, pull, got, out, probe>> /\ push' = OneMore(push)
  BY DEF PushCopy
<1>7. push' = [busy |-> TRUE, n |-> push.n, i |-> push.i + 1]
  BY <1>1, <1>6 DEF OneMore, RingInv, TypeOK, SideType
<1>8. TypeOK'
  <2>1. buf' \in [0..Capacity - 1 -> Int]
    BY <1>1, <1>2, <1>3
  <2> QED
    BY <1>1, <1>6, <1>7, <2>1, SMTT(40) DEF RingInv, TypeOK, SideType
<1>9. PushInv'
  <2> SUFFICES ASSUME NEW j \in 0..push.i PROVE buf'[Slot(tail + j)] = tail + j
    BY <1>1, <1>6, <1>7 DEF RingInv, PushInv
  <2>1. CASE j = push.i
    BY <1>5, <2>1
  <2>2. CASE j < push.i
    <3>1. buf[Slot(tail + j)] = tail + j
      BY <1>1, <2>2 DEF RingInv, PushInv
    <3>2. tail + j \in head..at - 1
      BY <1>1, <2>2
    <3> QED
      BY <1>4, <3>1, <3>2
  <2> QED
    BY <1>1, <2>1, <2>2
<1>10. UnreadIntact'
  <2> SUFFICES ASSUME NEW pos \in head..tail - 1 PROVE buf'[Slot(pos)] = pos
    BY <1>6 DEF UnreadIntact
  <2>1. buf[Slot(pos)] = pos
    BY DEF RingInv, UnreadIntact
  <2>2. pos \in head..at - 1
    BY <1>1
  <2> QED
    BY <1>4, <2>1, <2>2
<1>11. PullInv' /\ ReadsInOrder'
  BY <1>6 DEF RingInv, PullInv, ReadsInOrder
<1> QED
  BY <1>8, <1>9, <1>10, <1>11 DEF RingInv

\* The copied chunk is published.
LEMMA PushEndKeeps ==
  ASSUME RingInv, PushEnd
  PROVE  RingInv'
<1>1. /\ push.busy /\ push.i = push.n /\ push.n \in Nat
      /\ head \in Nat /\ tail \in Nat /\ head <= tail
      /\ tail + push.n - head <= Capacity
  BY DEF RingInv, PushEnd, PushInv, TypeOK, SideType
<1>2. /\ tail' = tail + push.n /\ push' = AtRest
      /\ UNCHANGED <<buf, head, pull, got, out, probe>>
  BY DEF PushEnd
<1>3. TypeOK'
  BY <1>1, <1>2, CapacityAssumption, SMTT(40) DEF RingInv, TypeOK, SideType, AtRest
<1>4. PushInv' /\ ReadsInOrder'
  BY <1>2 DEF RingInv, PushInv, ReadsInOrder, AtRest
<1>5. PullInv'
  BY <1>1, <1>2 DEF RingInv, PullInv, TypeOK, SideType
<1>6. UnreadIntact'
  <2> SUFFICES ASSUME NEW pos \in head..tail + push.n - 1 PROVE buf[Slot(pos)] = pos
    BY <1>1, <1>2 DEF UnreadIntact
  <2>1. CASE pos < tail
    BY <1>1, <2>1 DEF RingInv, UnreadIntact
  <2>2. CASE pos >= tail
    <3>1. pos - tail \in 0..push.i - 1 /\ tail + (pos - tail) = pos
      BY <1>1, <2>2
    <3> QED
      BY <1>1, <3>1 DEF RingInv, PushInv
  <2> QED
    BY <1>1, <2>1, <2>2
<1> QED
  BY <1>3, <1>4, <1>5, <1>6 DEF RingInv

\* A read begins: nothing has been copied yet.
LEMMA PullBeginKeeps ==
  ASSUME RingInv, NEW max \in 1..MaxChunk, PullBegin(max)
  PROVE  RingInv'
<1>1. /\ pull' = [busy |-> TRUE, n |-> Least(max, Fill), i |-> 0] /\ got' = <<>>
      /\ UNCHANGED <<buf, head, tail, push, out, probe>>
  BY DEF PullBegin, Copying
<1>2. Least(max, Fill) \in Nat /\ Least(max, Fill) <= tail - head
  BY ChunkAssumption DEF RingInv, TypeOK, Least, Fill
<1>3. TypeOK'
  BY <1>1, <1>2 DEF RingInv, TypeOK, SideType
<1>4. PullInv' /\ ReadsInOrder'
  BY <1>1, <1>2 DEF PullInv, ReadsInOrder
<1>5. PushInv' /\ UnreadIntact'
  BY <1>1 DEF RingInv, PushInv, UnreadIntact
<1> QED
  BY <1>3, <1>4, <1>5 DEF RingInv

\* The frame copied out is the next unread one, still in its slot.
LEMMA PullCopyKeeps ==
  ASSUME RingInv, PullCopy
  PROVE  RingInv'
<1>1. /\ pull.busy /\ pull.i < pull.n /\ pull.i \in Nat /\ pull.n \in Nat
      /\ head \in Nat /\ tail \in Nat /\ pull.n <= tail - head
      /\ Len(got) = pull.i /\ got \in Seq(Int)
  BY DEF RingInv, PullCopy, PullInv, TypeOK, SideType
<1>2. buf[Slot(head + pull.i)] = head + pull.i
  BY <1>1 DEF RingInv, UnreadIntact
<1>3. got' = Append(got, head + pull.i)
  BY <1>2 DEF PullCopy
<1>4. /\ pull' = [busy |-> TRUE, n |-> pull.n, i |-> pull.i + 1]
      /\ UNCHANGED <<buf, head, tail, push, out, probe>>
  BY <1>1 DEF PullCopy, OneMore, RingInv, TypeOK, SideType
<1>5. /\ got' \in Seq(Int) /\ Len(got') = pull.i + 1
      /\ \A k \in 1..pull.i + 1 :
           got'[k] = IF k = pull.i + 1 THEN head + pull.i ELSE got[k]
  BY <1>1, <1>3
<1>6. TypeOK'
  BY <1>1, <1>4, <1>5 DEF RingInv, TypeOK, SideType
<1>7. PullInv'
  BY <1>1, <1>4, <1>5 DEF PullInv
<1>8. ReadsInOrder'
  <2> SUFFICES ASSUME NEW k \in 1..pull.i + 1 PROVE got'[k] = head + k - 1
    BY <1>4, <1>5 DEF ReadsInOrder
  <2>1. CASE k = pull.i + 1
    BY <1>1, <1>5, <2>1, SMTT(40)
  <2>2. CASE k # pull.i + 1
    <3>1. k \in 1..Len(got)
      BY <1>1, <2>2
    <3> QED
      BY <1>1, <1>5, <2>2, <3>1 DEF RingInv, ReadsInOrder
  <2> QED
    BY <2>1, <2>2
<1>9. PushInv' /\ UnreadIntact'
  BY <1>4 DEF RingInv, PushInv, UnreadIntact
<1> QED
  BY <1>6, <1>7, <1>8, <1>9 DEF RingInv

\* The consumer gives slots back, read or unread: what is left is intact.
LEMMA HeadMoves ==
  ASSUME RingInv, NEW n \in Nat, n <= tail - head, head' = head + n,
         UNCHANGED <<buf, tail, push, probe>>
  PROVE  head' \in Nat /\ head' <= tail /\ tail - head' <= Capacity
         /\ PushInv' /\ UnreadIntact'
<1>1. head \in Nat /\ tail \in Nat /\ head <= tail /\ tail - head <= Capacity
  BY DEF RingInv, TypeOK
<1>2. PushInv'
  <2> SUFFICES ASSUME push.busy PROVE tail + push.n - head' <= Capacity
    BY DEF RingInv, PushInv
  <2>1. push.n \in Nat /\ tail + push.n - head <= Capacity
    BY DEF RingInv, PushInv, TypeOK, SideType
  <2> QED
    BY <1>1, <2>1, CapacityAssumption
<1>3. UnreadIntact'
  BY <1>1 DEF RingInv, UnreadIntact
<1> QED
  BY <1>1, <1>2, <1>3, CapacityAssumption

LEMMA PullEndKeeps ==
  ASSUME RingInv, PullEnd
  PROVE  RingInv'
<1>1. /\ pull.n \in Nat /\ pull.n <= tail - head
      /\ head' = head + pull.n /\ pull' = AtRest /\ out' = got
      /\ UNCHANGED <<buf, tail, push, got, probe>>
  BY DEF RingInv, PullEnd, PullInv, TypeOK, SideType
<1>2. /\ head' \in Nat /\ head' <= tail /\ tail - head' <= Capacity
      /\ PushInv' /\ UnreadIntact'
  BY <1>1, HeadMoves
<1>3. TypeOK'
  BY <1>1, <1>2 DEF RingInv, TypeOK, SideType, AtRest
<1>4. PullInv' /\ ReadsInOrder'
  BY <1>1 DEF PullInv, ReadsInOrder, AtRest
<1> QED
  BY <1>2, <1>3, <1>4 DEF RingInv

LEMMA DiscardKeeps ==
  ASSUME RingInv, NEW max \in 1..MaxChunk, Discard(max)
  PROVE  RingInv'
<1>1. /\ Least(max, Fill) \in Nat /\ Least(max, Fill) <= tail - head
      /\ ~pull.busy
      /\ head' = head + Least(max, Fill)
      /\ UNCHANGED <<buf, tail, push, pull, got, out, probe>>
  BY ChunkAssumption DEF RingInv, TypeOK, Least, Fill, Discard
<1>2. /\ head' \in Nat /\ head' <= tail /\ tail - head' <= Capacity
      /\ PushInv' /\ UnreadIntact'
  BY <1>1, HeadMoves
<1>3. TypeOK'
  BY <1>1, <1>2 DEF RingInv, TypeOK
<1>4. PullInv' /\ ReadsInOrder'
  BY <1>1 DEF PullInv, ReadsInOrder
<1> QED
  BY <1>2, <1>3, <1>4 DEF RingInv

\* The observer writes nothing but its own result.
LEMMA ObserverKeeps ==
  ASSUME RingInv, Observer
  PROVE  RingInv'
<1>1. UNCHANGED <<buf, head, tail, push, pull, got, out>>
  BY DEF Observer, ProbeTail, ProbeHead
<1>2. probe' \in [busy : BOOLEAN, tail : Nat, fill : Nat]
  <2>1. CASE ProbeTail
    BY <2>1 DEF ProbeTail, RingInv, TypeOK
  <2>2. CASE ProbeHead
    <3>1. (probe.tail - head) % Width \in Nat
      BY WidthAssumption, ChunkAssumption DEF RingInv, TypeOK
    <3> QED
      BY <2>2, <3>1 DEF ProbeHead, RingInv, TypeOK
  <2> QED
    BY <2>1, <2>2 DEF Observer
<1> QED
  BY <1>1, <1>2 DEF RingInv, TypeOK, PushInv, PullInv, ReadsInOrder, UnreadIntact

LEMMA NextRingInv == RingInv /\ [Next]_vars => RingInv'
<1> SUFFICES ASSUME RingInv, [Next]_vars PROVE RingInv'
  OBVIOUS
<1>1. ASSUME NEW n \in 1..MaxChunk, PushBegin(n) PROVE RingInv'
  BY <1>1, PushBeginKeeps
<1>2. CASE PushCopy
  BY <1>2, PushCopyKeeps
<1>3. CASE PushEnd
  BY <1>3, PushEndKeeps
<1>4. ASSUME NEW max \in 1..MaxChunk, PullBegin(max) PROVE RingInv'
  BY <1>4, PullBeginKeeps
<1>5. ASSUME NEW max \in 1..MaxChunk, Discard(max) PROVE RingInv'
  BY <1>5, DiscardKeeps
<1>6. CASE PullCopy
  BY <1>6, PullCopyKeeps
<1>7. CASE PullEnd
  BY <1>7, PullEndKeeps
<1>8. CASE Observer
  BY <1>8, ObserverKeeps
<1>9. CASE UNCHANGED vars
  BY <1>9 DEF vars, RingInv, TypeOK, PushInv, PullInv, ReadsInOrder, UnreadIntact
<1> QED
  BY <1>1, <1>2, <1>3, <1>4, <1>5, <1>6, <1>7, <1>8, <1>9 DEF Next, Producer, Consumer

LEMMA RingInvariant == Spec => []RingInv
  BY InitRingInv, NextRingInv, PTL DEF Spec

-----------------------------------------------------------------------------
(***************************************************************************)
(* Theorems.                                                               *)
(***************************************************************************)

\* Types and cursor order: head never passes tail, and the two are never
\* further apart than the ring is long.
THEOREM RingTypeCorrect == Spec => []TypeOK
  BY RingInvariant, PTL DEF RingInv

\* A read under way has copied the frames at the consumer's cursor, each
\* once and in order, whatever the push thread writes at the same time.
THEOREM NoTornRead == Spec => []ReadsInOrder
  BY RingInvariant, PTL DEF RingInv

\* No published frame is overwritten before the render thread is past it.
THEOREM NothingOverwritten == Spec => []UnreadIntact
  BY RingInvariant, PTL DEF RingInv

-----------------------------------------------------------------------------
(***************************************************************************)
(* The ring implements the bounded queue.                                  *)
(***************************************************************************)

\* Publishing a chunk accepts it whole.
LEMMA PushEndAccepts == RingInv /\ PushEnd => Fifo!Next
<1> SUFFICES ASSUME RingInv, PushEnd PROVE Fifo!Next
  OBVIOUS
<1>1. push.n \in 0..Capacity /\ tail + push.n - head <= Capacity
  BY CapacityAssumption, SMTT(40) DEF RingInv, PushEnd, PushInv, TypeOK, SideType
<1>2. Fifo!Accept(push.n)
  BY <1>1 DEF PushEnd, Fifo!Accept
<1> QED
  BY <1>1, <1>2 DEF Fifo!Next

\* Storing the consumer's cursor hands over the frames it copied.
LEMMA PullEndTakes == RingInv /\ PullEnd => Fifo!Next
<1> SUFFICES ASSUME RingInv, PullEnd PROVE Fifo!Next
  OBVIOUS
<1>1. /\ pull.n \in Nat /\ pull.n <= tail - head /\ tail - head <= Capacity
      /\ head \in Nat /\ tail \in Nat
      /\ got \in Seq(Int) /\ Len(got) = pull.n
      /\ \A i \in 1..Len(got) : got[i] = head + i - 1
  BY DEF RingInv, PullEnd, PullInv, ReadsInOrder, TypeOK, SideType
<1>2. got = [i \in 1..pull.n |-> head + i - 1]
  BY <1>1
<1>3. Fifo!Take(pull.n)
  BY <1>1, <1>2 DEF PullEnd, Fifo!Take
<1>4. pull.n \in 0..Capacity
  BY <1>1, CapacityAssumption
<1> QED
  BY <1>3, <1>4 DEF Fifo!Next

\* A resync drops frames unheard.
LEMMA DiscardDrops ==
  ASSUME RingInv, NEW max \in 1..MaxChunk, Discard(max)
  PROVE  Fifo!Next
<1>1. Least(max, Fill) \in 0..Capacity /\ Least(max, Fill) <= tail - head
  BY CapacityAssumption, ChunkAssumption DEF RingInv, TypeOK, Least, Fill
<1>2. Fifo!Drop(Least(max, Fill))
  BY <1>1 DEF Discard, Fifo!Drop
<1> QED
  BY <1>1, <1>2 DEF Fifo!Next

\* The ring is a bounded first-in first-out queue: every step is one of the
\* queue's or changes nothing the queue shows.
THEOREM RingImplementsFifo == Spec => ImplementsFifo
<1>1. Init => Fifo!Init
  BY DEF Init, Fifo!Init
<1>2. RingInv /\ [Next]_vars => [Fifo!Next]_(Fifo!vars)
  <2> SUFFICES ASSUME RingInv, [Next]_vars PROVE [Fifo!Next]_(Fifo!vars)
    OBVIOUS
  <2>1. CASE PushEnd
    BY <2>1, PushEndAccepts
  <2>2. CASE PullEnd
    BY <2>2, PullEndTakes
  <2>3. ASSUME NEW max \in 1..MaxChunk, Discard(max) PROVE [Fifo!Next]_(Fifo!vars)
    BY <2>3, DiscardDrops
  <2>4. CASE PushCopy \/ PullCopy \/ Observer \/ UNCHANGED vars
    BY <2>4 DEF PushCopy, PullCopy, Observer, ProbeTail, ProbeHead, vars, Fifo!vars
  <2>5. ASSUME NEW n \in 1..MaxChunk, PushBegin(n) \/ PullBegin(n)
        PROVE  [Fifo!Next]_(Fifo!vars)
    BY <2>5 DEF PushBegin, PullBegin, Fifo!vars
  <2> QED
    BY <2>1, <2>2, <2>3, <2>4, <2>5 DEF Next, Producer, Consumer
<1> QED
  BY <1>1, <1>2, RingInvariant, PTL DEF Spec, ImplementsFifo, Fifo!Spec

-----------------------------------------------------------------------------
(***************************************************************************)
(* TapSplice: sequences and units.                                         *)
(***************************************************************************)

\* A sequence without its first n places, and its first n places.
LEMMA RestPlaces ==
  ASSUME NEW S, NEW s \in Seq(S), NEW n \in 0..Len(s)
  PROVE  /\ SubSeq(s, n + 1, Len(s)) \in Seq(S)
         /\ Len(SubSeq(s, n + 1, Len(s))) = Len(s) - n
         /\ \A i \in 1..Len(s) - n : SubSeq(s, n + 1, Len(s))[i] = s[n + i]
<1>1. Len(s) \in Nat /\ n \in Int /\ \A i \in n + 1..Len(s) : s[i] \in S
  BY LenProperties, ElementOfSeq
<1>2. /\ SubSeq(s, n + 1, Len(s)) \in Seq(S)
      /\ Len(SubSeq(s, n + 1, Len(s))) =
           IF n + 1 <= Len(s) THEN Len(s) - (n + 1) + 1 ELSE 0
      /\ \A i \in 1..Len(s) - (n + 1) + 1 :
           SubSeq(s, n + 1, Len(s))[i] = s[n + 1 + i - 1]
  BY <1>1, SubSeqProperties
<1> QED
  BY <1>1, <1>2

LEMMA StartPlaces ==
  ASSUME NEW S, NEW s \in Seq(S), NEW n \in 0..Len(s)
  PROVE  /\ SubSeq(s, 1, n) \in Seq(S)
         /\ Len(SubSeq(s, 1, n)) = n
         /\ \A i \in 1..n : SubSeq(s, 1, n)[i] = s[i]
<1>1. Len(s) \in Nat /\ n \in Int /\ \A i \in 1..n : s[i] \in S
  BY LenProperties, ElementOfSeq
<1>2. /\ SubSeq(s, 1, n) \in Seq(S)
      /\ Len(SubSeq(s, 1, n)) = IF 1 <= n THEN n - 1 + 1 ELSE 0
      /\ \A i \in 1..n - 1 + 1 : SubSeq(s, 1, n)[i] = s[1 + i - 1]
  BY <1>1, SubSeqProperties
<1> QED
  BY <1>1, <1>2

LEMMA NonEmpty ==
  ASSUME NEW S, NEW s \in Seq(S)
  PROVE  /\ Len(s) \in Nat
         /\ s = <<>> <=> Len(s) = 0
         /\ DOMAIN s = 1..Len(s)
         /\ \A i \in 1..Len(s) : s[i] \in S
BY EmptySeq, LenProperties, ElementOfSeq

LEMMA OnePlace ==
  ASSUME NEW S, NEW e \in S
  PROVE  <<e>> \in Seq(S) /\ Len(<<e>>) = 1 /\ <<e>>[1] = e
OBVIOUS

\* What is heard at the beginning of a unit is the same of both.
SameEntry(u, v) == u.left = v.left /\ u.cut = v.cut /\ u.lost = v.lost

LEMMA UnitFacts ==
  ASSUME NEW u \in Units
  PROVE  /\ u.left \in Edges /\ u.right \in Edges /\ u.cut \in BOOLEAN /\ u.lost \in BOOLEAN
         /\ Cut(u) \in Units /\ Cut(u).left = u.left /\ Cut(u).right = u.right
         /\ Cut(u).cut = TRUE /\ Cut(u).lost = u.lost
         /\ Risen(u) \in Units /\ Risen(u).left = "zero" /\ Risen(u).right = u.right
         /\ Risen(u).cut = u.cut /\ Risen(u).lost = u.lost
         /\ Tapered(u) \in Units /\ Tapered(u).right = "zero" /\ SameEntry(Tapered(u), u)
BY DEF Units, Edges, Cut, Risen, Tapered, SameEntry

LEMMA LostFacts ==
  ASSUME NEW u \in Unread
  PROVE  /\ u \in Units /\ u.right = "on"
         /\ [u EXCEPT !.lost = TRUE] \in Unread
         /\ [u EXCEPT !.lost = TRUE].lost = TRUE
         /\ Cut(u) \in Unread
BY DEF Units, Unread, Edges, Cut

LEMMA Constants ==
  /\ Plain \in Unread /\ Silence \in Units
  /\ Plain.left = "on" /\ Plain.cut = FALSE /\ Plain.lost = FALSE
  /\ Silence.left = "zero" /\ Silence.right = "zero"
BY DEF Plain, Silence, Unread, Units, Edges

LEMMA FitsFacts ==
  ASSUME NEW u \in Units
  PROVE  /\ u.left = "zero" => Fits("zero", u)
         /\ \A edge \in Edges : u.lost => Fits(edge, u)
         /\ \A edge \in Edges, v \in Units : Fits(edge, u) /\ SameEntry(v, u) => Fits(edge, v)
BY DEF Fits, Smooth, SameEntry, Units

LEMMA FirstFacts ==
  ASSUME NEW r \in TapType
  PROVE  /\ First(r) \in Unread
         /\ r.rise => First(r).left = "zero"
         /\ ~r.rise /\ ~r.gap => First(r) = Plain
         /\ r.gap /\ r.late => First(r).lost
<1>1. r.rise \in BOOLEAN /\ r.gap \in BOOLEAN /\ r.late \in BOOLEAN
  BY DEF TapType
<1> DEFINE u == IF r.gap THEN [Cut(Plain) EXCEPT !.lost = r.late] ELSE Plain
<1>2. First(r) = IF r.rise THEN Risen(u) ELSE u
  BY DEF First
<1>3. u \in Unread /\ (r.gap /\ r.late => u.lost) /\ (~r.gap => u = Plain)
  BY <1>1 DEF Plain, Cut, Unread, Units, Edges
<1> HIDE DEF u
<1>4. Risen(u) \in Unread /\ Risen(u).left = "zero" /\ Risen(u).lost = u.lost
  BY <1>3, UnitFacts DEF Unread
<1> QED
  BY <1>1, <1>2, <1>3, <1>4

LEMMA Sizes ==
  /\ Chunk \in Nat /\ Chunk >= 1 /\ RingUnits \in Nat /\ Cushion \in Nat
  /\ \A n \in Blocks : n \in Nat /\ n >= 1
  /\ \A n \in Delays : n \in Nat
BY SizesAssumption

-----------------------------------------------------------------------------
(***************************************************************************)
(* The push thread.                                                        *)
(***************************************************************************)

TapInv(r) == r \in TapType /\ SeamInv(r) /\ MarkInv(r) /\ HoldInv(r)

LEMMA TapFacts ==
  ASSUME NEW r \in TapType
  PROVE  /\ r.ring \in Seq(Unread) /\ r.hold \in Seq(Units) /\ r.joint \in Nat \cup {None}
         /\ r.rise \in BOOLEAN /\ r.gap \in BOOLEAN /\ r.late \in BOOLEAN
         /\ r.primed \in BOOLEAN /\ r.fadeIn \in BOOLEAN /\ r.edge \in Edges
         /\ r.want \in Nat /\ r.delay \in Nat /\ r.on \in BOOLEAN
         /\ Len(r.ring) \in Nat /\ Len(r.hold) \in Nat
         /\ r.ring = <<>> <=> Len(r.ring) = 0
         /\ r.hold = <<>> <=> Len(r.hold) = 0
         /\ \A i \in 1..Len(r.ring) : r.ring[i] \in Unread /\ r.ring[i] \in Units
         /\ \A i \in 1..Len(r.hold) : r.hold[i] \in Units
<1>1. /\ r.ring \in Seq(Unread) /\ r.hold \in Seq(Units) /\ r.joint \in Nat \cup {None}
      /\ r.rise \in BOOLEAN /\ r.gap \in BOOLEAN /\ r.late \in BOOLEAN
      /\ r.primed \in BOOLEAN /\ r.fadeIn \in BOOLEAN /\ r.edge \in Edges
      /\ r.want \in Nat /\ r.delay \in Nat /\ r.on \in BOOLEAN
  BY DEF TapType
<1> QED
  BY <1>1, NonEmpty, LostFacts

\* The unit that follows the one held back is the first of the ring, or the one to
\* be pushed.
LEMMA FollowingUnit ==
  ASSUME NEW r \in TapType
  PROVE  /\ (r.ring \o <<First(r)>>)[1] = IF r.ring = <<>> THEN First(r) ELSE r.ring[1]
<1>1. r.ring \in Seq(Unread) /\ First(r) \in Unread
  BY TapFacts, FirstFacts
<1>2. <<First(r)>> \in Seq(Unread) /\ Len(<<First(r)>>) = 1 /\ <<First(r)>>[1] = First(r)
  BY <1>1, OnePlace
<1>3. \A i \in 1..Len(r.ring) + 1 :
        (r.ring \o <<First(r)>>)[i] =
          IF i <= Len(r.ring) THEN r.ring[i] ELSE <<First(r)>>[i - Len(r.ring)]
  BY <1>1, <1>2, ConcatProperties
<1> QED
  BY <1>1, <1>2, <1>3, TapFacts

LEMMA ForgottenKeeps ==
  ASSUME NEW r, TapInv(r)
  PROVE  LET f == Forgotten(r) IN
         /\ f \in TapType /\ Len(f.ring) = Len(r.ring)
         /\ \A i \in 1..Len(r.ring) :
              f.ring[i] = r.ring[i] \/ (f.ring[i].lost /\ i > 1)
         /\ r.joint > 0 /\ r.joint < Len(r.ring) => f.ring[r.joint + 1].lost
         /\ f.joint = r.joint /\ f.late = r.late /\ f.primed = r.primed
         /\ f.fadeIn = r.fadeIn /\ f.hold = r.hold /\ f.edge = r.edge /\ f.on = r.on
<1>1. r \in TapType
  BY DEF TapInv
<1>2. CASE ~(r.joint > 0 /\ r.joint < Len(r.ring))
  <2>1. Forgotten(r) = r
    BY <1>2 DEF Forgotten
  <2> QED
    BY <1>1, <1>2, <2>1
<1>3. CASE r.joint > 0 /\ r.joint < Len(r.ring)
  <2> DEFINE j == r.joint + 1
             e == [r.ring[j] EXCEPT !.lost = TRUE]
             q == [r.ring EXCEPT ![j] = e]
  <2>1. j \in 1..Len(r.ring) /\ j > 1
    BY <1>1, <1>3, TapFacts DEF None
  <2>2. e \in Unread /\ e.lost
    BY <1>1, <2>1, TapFacts, LostFacts
  <2>3. q \in Seq(Unread) /\ Len(q) = Len(r.ring)
        /\ \A i \in 1..Len(r.ring) : q[i] = IF i = j THEN e ELSE r.ring[i]
    BY <1>1, <2>1, <2>2, TapFacts, ExceptSeq
  <2>4. Forgotten(r) = [r EXCEPT !.ring = q]
    BY <1>1, <1>3 DEF Forgotten, TapType
  <2> HIDE DEF e, q
  <2>5. [r EXCEPT !.ring = q] \in TapType /\ [r EXCEPT !.ring = q].ring = q
    BY <1>1, <2>3 DEF TapType
  <2>6. LET f == [r EXCEPT !.ring = q] IN
         /\ f.joint = r.joint /\ f.late = r.late /\ f.primed = r.primed
         /\ f.fadeIn = r.fadeIn /\ f.hold = r.hold /\ f.edge = r.edge /\ f.on = r.on
    BY <1>1 DEF TapType
  <2> QED
    BY <1>1, <2>1, <2>2, <2>3, <2>4, <2>5, <2>6
<1> QED
  BY <1>2, <1>3

\* A mark at the tail keeps the ring in order: where an earlier mark is lost, so is
\* the seam it was for.
LEMMA MarkedKeeps ==
  ASSUME NEW r, TapInv(r)
  PROVE  TapInv(Marked(r)) /\ Marked(r).hold = r.hold /\ Marked(r).edge = r.edge
         /\ Marked(r).on = r.on
<1> DEFINE f == Forgotten(r)
           m == Marked(r)
<1>1. r \in TapType /\ SeamInv(r) /\ MarkInv(r) /\ HoldInv(r)
  BY DEF TapInv
<1>2. /\ f \in TapType /\ Len(f.ring) = Len(r.ring)
      /\ \A i \in 1..Len(r.ring) :
           f.ring[i] = r.ring[i] \/ (f.ring[i].lost /\ i > 1)
      /\ r.joint > 0 /\ r.joint < Len(r.ring) => f.ring[r.joint + 1].lost
      /\ f.joint = r.joint /\ f.late = r.late /\ f.primed = r.primed
      /\ f.fadeIn = r.fadeIn /\ f.hold = r.hold /\ f.edge = r.edge /\ f.on = r.on
  BY ForgottenKeeps
<1>3. m = [f EXCEPT !.joint = Len(r.ring), !.rise = TRUE, !.gap = TRUE,
                    !.late = f.late \/ r.ring = <<>>]
  BY <1>2 DEF Marked, TapType
<1> HIDE DEF f, m
<1>4. /\ m \in TapType /\ m.ring = f.ring /\ m.joint = Len(r.ring) /\ m.rise /\ m.gap
      /\ m.late = (r.late \/ r.ring = <<>>) /\ m.primed = r.primed
      /\ m.fadeIn = r.fadeIn /\ m.hold = r.hold /\ m.edge = r.edge /\ m.on = r.on
  <2>1. Len(r.ring) \in Nat /\ (f.late \/ r.ring = <<>>) \in BOOLEAN
    BY <1>1, TapFacts, <1>2
  <2> QED
    BY <1>2, <1>3, <2>1 DEF TapType
<1>5. Len(r.ring) \in Nat /\ (r.ring = <<>> <=> Len(r.ring) = 0)
      /\ (m.ring = <<>> <=> Len(r.ring) = 0)
  BY <1>1, <1>2, <1>4, TapFacts
<1>6. SeamInv(m)
  <2> SUFFICES ASSUME NEW i \in 2..Len(r.ring)
               PROVE  Fits(IF m.joint = i - 1 THEN "zero" ELSE "on", m.ring[i])
    BY <1>2, <1>4 DEF SeamInv
  <2>1. m.joint # i - 1 /\ i \in 1..Len(r.ring) /\ m.ring[i] \in Units
    BY <1>2, <1>4, <1>5, TapFacts
  <2>2. CASE m.ring[i].lost
    BY <2>1, <2>2 DEF Fits
  <2>3. CASE ~m.ring[i].lost
    <3>1. m.ring[i] = r.ring[i] /\ r.joint # i - 1
      BY <1>1, <1>2, <1>4, <1>5, <2>1, <2>3, TapFacts DEF None
    <3>2. Fits("on", r.ring[i])
      BY <1>1, <3>1 DEF SeamInv
    <3> QED
      BY <2>1, <3>1, <3>2
  <2> QED
    BY <2>2, <2>3
<1>7. MarkInv(m)
  <2>1. r.ring # <<>> => ~r.late
    BY <1>1 DEF MarkInv
  <2>2. m.ring # <<>> => ~m.late
    BY <1>4, <1>5, <2>1
  <2>3. Len(m.ring) = Len(r.ring)
    BY <1>2, <1>4
  <2>4. m.joint <= Len(m.ring)
    BY <1>4, <1>5, <2>3
  <2> QED
    BY <1>4, <2>2, <2>3, <2>4 DEF MarkInv
<1>8. HoldInv(m)
  <2>1. CASE ~m.primed \/ m.fadeIn
    BY <1>1, <1>4, <2>1 DEF HoldInv
  <2>2. CASE m.primed /\ ~m.fadeIn /\ m.ring = <<>>
    <3>1. First(m).lost /\ First(m) \in Unread
      BY <1>4, <1>5, <2>2, FirstFacts
    <3>2. (m.ring \o <<First(m)>>)[1] = First(m)
      BY <1>4, <2>2, FollowingUnit
    <3>3. Fits(m.hold[1].right, First(m))
      BY <3>1 DEF Fits
    <3> QED
      BY <1>1, <1>4, <2>2, <3>2, <3>3 DEF HoldInv
  <2>3. CASE m.primed /\ ~m.fadeIn /\ m.ring # <<>>
    <3>1. (m.ring \o <<First(m)>>)[1] = m.ring[1] /\ (r.ring \o <<First(r)>>)[1] = r.ring[1]
      BY <1>1, <1>4, <1>5, <2>3, FollowingUnit
    <3>2. m.ring[1] = r.ring[1]
      BY <1>2, <1>4, <1>5, <2>3
    <3> QED
      BY <1>1, <1>4, <2>3, <3>1, <3>2 DEF HoldInv
  <2> QED
    BY <1>4, TapFacts, <2>1, <2>2, <2>3
<1> QED
  BY <1>4, <1>6, <1>7, <1>8 DEF TapInv, m

\* What a push appends: its first unit carries the seam that was marked.
Pushed(r, n) == (r.ring \o <<First(r)>>) \o [i \in 1..n - 1 |-> Plain]

LEMMA PushedPlaces ==
  ASSUME NEW r \in TapType, NEW n \in Nat, n >= 1
  PROVE  /\ Pushed(r, n) \in Seq(Unread) /\ Len(Pushed(r, n)) = Len(r.ring) + n
         /\ \A i \in 1..Len(r.ring) + n :
              Pushed(r, n)[i] = IF i <= Len(r.ring) THEN r.ring[i]
                                ELSE IF i = Len(r.ring) + 1 THEN First(r) ELSE Plain
<1> DEFINE a == r.ring \o <<First(r)>>
           b == [i \in 1..n - 1 |-> Plain]
<1>1. r.ring \in Seq(Unread) /\ First(r) \in Unread /\ Len(r.ring) \in Nat
  BY TapFacts, FirstFacts
<1>2. <<First(r)>> \in Seq(Unread) /\ Len(<<First(r)>>) = 1 /\ <<First(r)>>[1] = First(r)
  BY <1>1, OnePlace
<1>3. /\ a \in Seq(Unread) /\ Len(a) = Len(r.ring) + 1
      /\ \A i \in 1..Len(r.ring) + 1 :
           a[i] = IF i <= Len(r.ring) THEN r.ring[i] ELSE First(r)
  <2>1. /\ a \in Seq(Unread) /\ Len(a) = Len(r.ring) + Len(<<First(r)>>)
        /\ \A i \in 1..Len(r.ring) + Len(<<First(r)>>) :
             a[i] = IF i <= Len(r.ring) THEN r.ring[i] ELSE <<First(r)>>[i - Len(r.ring)]
    BY <1>1, <1>2, ConcatProperties
  <2> HIDE DEF a
  <2>2. ASSUME NEW i \in 1..Len(r.ring) + 1, ~(i <= Len(r.ring))
        PROVE  i - Len(r.ring) = 1
    BY <1>1, <2>2
  <2> QED
    BY <1>1, <1>2, <2>1, <2>2
<1>4. b \in Seq(Unread) /\ Len(b) = n - 1 /\ \A i \in 1..n - 1 : b[i] = Plain
  <2>1. Plain \in Unread /\ n - 1 \in Nat
    BY Constants
  <2> QED
    BY <2>1
<1> HIDE DEF a, b
<1>5. /\ a \o b \in Seq(Unread) /\ Len(a \o b) = Len(a) + Len(b)
      /\ \A i \in 1..Len(a) + Len(b) :
           (a \o b)[i] = IF i <= Len(a) THEN a[i] ELSE b[i - Len(a)]
  BY <1>3, <1>4, ConcatProperties
<1>6. Pushed(r, n) = a \o b
  BY DEF Pushed, a, b
<1> DEFINE c == a \o b
<1>8. /\ c \in Seq(Unread) /\ Len(c) = Len(r.ring) + n
      /\ \A i \in 1..Len(r.ring) + n :
           c[i] = IF i <= Len(a) THEN a[i] ELSE b[i - Len(a)]
  <2>1. Len(a) + Len(b) = Len(r.ring) + n
    BY <1>1, <1>3, <1>4
  <2> QED
    BY <1>5, <2>1
<1> HIDE DEF c
<1>7. ASSUME NEW i \in 1..Len(r.ring) + n
      PROVE  c[i] = IF i <= Len(r.ring) THEN r.ring[i]
                           ELSE IF i = Len(r.ring) + 1 THEN First(r) ELSE Plain
  <2>0. i \in Nat
    BY <1>1
  <2>1. CASE i <= Len(r.ring)
    <3>1. i <= Len(a) /\ i \in 1..Len(r.ring) + 1
      BY <1>1, <1>3, <2>0, <2>1
    <3>2. c[i] = a[i]
      BY <1>8, <3>1
    <3>3. a[i] = r.ring[i]
      BY <1>3, <2>1, <3>1
    <3> QED
      BY <2>1, <3>2, <3>3
  <2>2. CASE i = Len(r.ring) + 1
    <3>1. i <= Len(a) /\ i \in 1..Len(r.ring) + 1 /\ ~(i <= Len(r.ring))
      BY <1>1, <1>3, <2>2
    <3>2. c[i] = a[i]
      BY <1>8, <3>1
    <3>3. a[i] = First(r)
      BY <1>3, <3>1
    <3> QED
      BY <2>2, <3>1, <3>2, <3>3
  <2>3. CASE i > Len(r.ring) + 1
    <3>1. c[i] = b[i - Len(a)] /\ i - Len(a) \in 1..n - 1
      BY <1>1, <1>3, <1>4, <1>8, <2>3
    <3> QED
      BY <1>1, <1>4, <2>3, <3>1
  <2> QED
    BY <1>1, <2>0, <2>1, <2>2, <2>3
<1> QED
  BY <1>6, <1>7, <1>8 DEF c

LEMMA PushKeeps ==
  ASSUME NEW r, TapInv(r), NEW n \in Nat, n >= 1
  PROVE  LET w == [r EXCEPT !.ring = Pushed(r, n), !.rise = FALSE, !.gap = FALSE,
                            !.late = FALSE, !.push = "idle"] IN
         TapInv(w) /\ w.hold = r.hold /\ w.edge = r.edge /\ w.on = r.on
<1> DEFINE w == [r EXCEPT !.ring = Pushed(r, n), !.rise = FALSE, !.gap = FALSE,
                          !.late = FALSE, !.push = "idle"]
           k == Len(r.ring)
<1>1. r \in TapType /\ SeamInv(r) /\ MarkInv(r) /\ HoldInv(r)
  BY DEF TapInv
<1>2. /\ Pushed(r, n) \in Seq(Unread) /\ Len(Pushed(r, n)) = k + n
      /\ \A i \in 1..k + n :
           Pushed(r, n)[i] = IF i <= k THEN r.ring[i]
                             ELSE IF i = k + 1 THEN First(r) ELSE Plain
  BY <1>1, PushedPlaces
<1>3. /\ w \in TapType /\ w.ring = Pushed(r, n) /\ w.rise = FALSE /\ w.gap = FALSE
      /\ w.late = FALSE /\ w.joint = r.joint /\ w.primed = r.primed
      /\ w.fadeIn = r.fadeIn /\ w.hold = r.hold /\ w.edge = r.edge /\ w.on = r.on
  BY <1>1, <1>2 DEF TapType
<1>4. k \in Nat /\ (r.ring = <<>> <=> k = 0) /\ r.joint \in Nat \cup {None} /\ r.joint <= k
  BY <1>1, TapFacts DEF MarkInv
<1> HIDE DEF w, k
<1>5. w.ring # <<>> /\ Len(w.ring) = k + n
  BY <1>2, <1>3, <1>4, TapFacts
<1>6. SeamInv(w)
  <2> SUFFICES ASSUME NEW i \in 2..k + n
               PROVE  Fits(IF r.joint = i - 1 THEN "zero" ELSE "on", w.ring[i])
    BY <1>2, <1>3 DEF SeamInv
  <2>0. /\ i \in 1..k + n /\ i \in Nat
        /\ w.ring[i] = IF i <= k THEN r.ring[i] ELSE IF i = k + 1 THEN First(r) ELSE Plain
    BY <1>2, <1>3, <1>4
  <2>1. CASE i <= k
    <3>1. i \in 2..Len(r.ring)
      BY <1>4, <2>1 DEF k
    <3> QED
      BY <1>1, <2>0, <2>1, <3>1 DEF SeamInv
  <2>2. CASE i = k + 1
    <3>0. i - 1 = k /\ k >= 1 /\ ~(i <= k)
      BY <1>4, <2>0, <2>2
    <3>4. First(r) \in Units
      <4>1. First(r) \in Unread
        BY <1>1, FirstFacts
      <4> QED
        BY <4>1, LostFacts
    <3>1. w.ring[i] = First(r) /\ First(r) \in Units /\ r.ring # <<>> /\ i - 1 = k
      BY <1>4, <2>0, <2>2, <3>0, <3>4
    <3>2. CASE r.joint = k
      <4>1. First(r).left = "zero"
        BY <1>1, <3>1, <3>2, FirstFacts DEF MarkInv, k
      <4> QED
        BY <3>1, <3>2, <4>1, FitsFacts
    <3>3. CASE r.joint # k
      <4>1. First(r) = Plain
        BY <1>1, <3>1, <3>3, FirstFacts DEF MarkInv, k
      <4> QED
        BY <3>1, <3>3, <4>1, Constants DEF Fits, Smooth
    <3> QED
      BY <3>2, <3>3
  <2>3. CASE i > k + 1
    <3>1. w.ring[i] = Plain /\ r.joint # i - 1
      BY <1>4, <2>0, <2>3 DEF None
    <3> QED
      BY <3>1, Constants DEF Fits, Smooth
  <2> QED
    BY <1>4, <2>1, <2>2, <2>3
<1>7. MarkInv(w)
  BY <1>3, <1>4, <1>5 DEF MarkInv, None
<1>8. HoldInv(w)
  <2>1. (w.ring \o <<First(w)>>)[1] = w.ring[1]
    BY <1>3, <1>5, FollowingUnit
  <2>2. w.ring[1] = IF 1 <= k THEN r.ring[1] ELSE First(r)
    BY <1>2, <1>3, <1>4
  <2>3. (r.ring \o <<First(r)>>)[1] = IF r.ring = <<>> THEN First(r) ELSE r.ring[1]
    BY <1>1, FollowingUnit
  <2>4. w.ring[1] = (r.ring \o <<First(r)>>)[1]
    BY <1>4, <2>2, <2>3
  <2> QED
    BY <1>1, <1>3, <2>1, <2>4 DEF HoldInv
<1> QED
  BY <1>3, <1>6, <1>7, <1>8 DEF TapInv, w

-----------------------------------------------------------------------------
(***************************************************************************)
(* The splices of the render thread.                                       *)
(***************************************************************************)

LEMMA TaperedTailFacts ==
  ASSUME NEW h \in Seq(Units)
  PROVE  /\ TaperedTail(h) \in Seq(Units) /\ Len(TaperedTail(h)) = Len(h)
         /\ \A i \in 1..Len(h) : /\ SameEntry(TaperedTail(h)[i], h[i])
                                 /\ i < Len(h) => TaperedTail(h)[i] = h[i]
         /\ Len(h) > 0 => TaperedTail(h)[Len(h)].right = "zero"
<1>1. Len(h) \in Nat /\ (h = <<>> <=> Len(h) = 0) /\ \A i \in 1..Len(h) : h[i] \in Units
  BY NonEmpty
<1>2. CASE h = <<>>
  BY <1>1, <1>2 DEF TaperedTail
<1>3. CASE h # <<>>
  <2>1. Len(h) \in 1..Len(h)
    BY <1>1, <1>3
  <2> DEFINE e == Tapered(h[Len(h)])
             q == [h EXCEPT ![Len(h)] = e]
  <2>2. e \in Units /\ e.right = "zero" /\ SameEntry(e, h[Len(h)])
    BY <1>1, <2>1, UnitFacts
  <2>3. TaperedTail(h) = q
    BY <1>3 DEF TaperedTail
  <2> HIDE DEF e
  <2>4. q \in Seq(Units) /\ Len(q) = Len(h)
        /\ \A i \in 1..Len(h) : q[i] = IF i = Len(h) THEN e ELSE h[i]
    BY <2>1, <2>2, ExceptSeq
  <2> HIDE DEF q
  <2>5. ASSUME NEW i \in 1..Len(h)
        PROVE  SameEntry(q[i], h[i]) /\ (i < Len(h) => q[i] = h[i])
    BY <1>1, <2>2, <2>4 DEF SameEntry
  <2> QED
    BY <2>1, <2>2, <2>3, <2>4, <2>5
<1> QED
  BY <1>2, <1>3

\* What is left of a ring of which n units were thrown away.
LEMMA DiscardedFields ==
  ASSUME NEW r \in TapType, NEW n \in 0..Len(r.ring)
  PROVE  LET d == Discarded(r, n)
             k == Len(r.ring) - n IN
         /\ d \in TapType /\ Len(d.ring) = k
         /\ \A i \in 2..k : d.ring[i] = r.ring[n + i]
         /\ n = 0 /\ k > 0 => d.ring[1] = r.ring[1]
         /\ d.gap = (r.gap \/ (n > 0 /\ k = 0))
         /\ d.joint = IF r.joint = None THEN None ELSE IF r.joint < n THEN 0 ELSE r.joint - n
         /\ d.rise = r.rise /\ d.late = r.late /\ d.primed = r.primed
         /\ d.fadeIn = r.fadeIn /\ d.hold = r.hold /\ d.edge = r.edge /\ d.on = r.on
         /\ d.want = r.want /\ d.delay = r.delay
<1> DEFINE rest == SubSeq(r.ring, n + 1, Len(r.ring))
           k == Len(r.ring) - n
           q == IF n = 0 \/ rest = <<>> THEN rest ELSE [rest EXCEPT ![1] = Cut(rest[1])]
           g == r.gap \/ (n > 0 /\ rest = <<>>)
           j == IF r.joint = None THEN None ELSE IF r.joint < n THEN 0 ELSE r.joint - n
<1>1. r.ring \in Seq(Unread) /\ Len(r.ring) \in Nat /\ n \in Nat /\ k \in Nat
      /\ r.joint \in Nat \cup {None} /\ r.gap \in BOOLEAN
  BY TapFacts
<1>2. /\ rest \in Seq(Unread) /\ Len(rest) = k /\ (rest = <<>> <=> k = 0)
      /\ \A i \in 1..k : rest[i] = r.ring[n + i] /\ rest[i] \in Unread
  <2>1. /\ rest \in Seq(Unread) /\ Len(rest) = k
        /\ \A i \in 1..k : rest[i] = r.ring[n + i]
    BY <1>1, RestPlaces
  <2> HIDE DEF rest, k
  <2> QED
    BY <2>1, NonEmpty
<1>3. Discarded(r, n) = [r EXCEPT !.ring = q, !.gap = g, !.joint = j]
  BY DEF Discarded, TapType
<1> HIDE DEF rest, k
<1>4. /\ q \in Seq(Unread) /\ Len(q) = k /\ \A i \in 2..k : q[i] = rest[i]
      /\ n = 0 /\ k > 0 => q[1] = rest[1]
  <2>1. CASE n = 0 \/ rest = <<>>
    BY <1>1, <1>2, <2>1
  <2>2. CASE ~(n = 0 \/ rest = <<>>)
    <3>1. 1 \in 1..Len(rest) /\ Cut(rest[1]) \in Unread
      <4>1. k >= 1 /\ 1 \in 1..k
        BY <1>1, <1>2, <2>2
      <4>2. rest[1] \in Unread
        BY <1>2, <4>1
      <4> QED
        BY <1>2, <4>1, <4>2, LostFacts
    <3>2. q = [rest EXCEPT ![1] = Cut(rest[1])]
      BY <2>2
    <3> HIDE DEF q
    <3>3. q \in Seq(Unread) /\ Len(q) = Len(rest)
          /\ \A i \in 1..Len(rest) : q[i] = IF i = 1 THEN Cut(rest[1]) ELSE rest[i]
      BY <1>2, <3>1, <3>2, ExceptSeq
    <3> QED
      BY <1>1, <1>2, <2>2, <3>3
  <2> QED
    BY <2>1, <2>2
<1>5. g \in BOOLEAN /\ j \in Nat \cup {None} /\ g = (r.gap \/ (n > 0 /\ k = 0))
  BY <1>1, <1>2 DEF None
<1> HIDE DEF q, g
<1>6. LET d == [r EXCEPT !.ring = q, !.gap = g, !.joint = j] IN
      /\ d \in TapType /\ d.ring = q /\ d.gap = g /\ d.joint = j
      /\ d.rise = r.rise /\ d.late = r.late /\ d.primed = r.primed
      /\ d.fadeIn = r.fadeIn /\ d.hold = r.hold /\ d.edge = r.edge /\ d.on = r.on
      /\ d.want = r.want /\ d.delay = r.delay
  <2> HIDE DEF j
  <2> QED
    BY <1>4, <1>5 DEF TapType
<1>7. \A i \in 2..k : q[i] = r.ring[n + i]
  BY <1>1, <1>2, <1>4
<1>8. n = 0 /\ k > 0 => q[1] = r.ring[1]
  BY <1>1, <1>2, <1>4
<1> QED
  BY <1>3, <1>4, <1>5, <1>6, <1>7, <1>8 DEF k

LEMMA DiscardedKeeps ==
  ASSUME NEW r \in TapType, SeamInv(r), MarkInv(r), NEW n \in 0..Len(r.ring)
  PROVE  SeamInv(Discarded(r, n)) /\ MarkInv(Discarded(r, n))
<1> DEFINE d == Discarded(r, n)
           k == Len(r.ring) - n
<1>1. /\ d \in TapType /\ Len(d.ring) = k
      /\ \A i \in 2..k : d.ring[i] = r.ring[n + i]
      /\ d.gap = (r.gap \/ (n > 0 /\ k = 0))
      /\ d.joint = IF r.joint = None THEN None ELSE IF r.joint < n THEN 0 ELSE r.joint - n
      /\ d.rise = r.rise /\ d.late = r.late
  BY DiscardedFields
<1> HIDE DEF d
<1>2. /\ Len(r.ring) \in Nat /\ n \in Nat /\ k \in Nat /\ r.joint \in Nat \cup {None}
      /\ r.joint <= Len(r.ring) /\ (d.ring = <<>> <=> k = 0) /\ (r.ring = <<>> <=> Len(r.ring) = 0)
  BY <1>1, TapFacts DEF MarkInv
<1>3. SeamInv(d)
  <2> SUFFICES ASSUME NEW i \in 2..k
               PROVE  Fits(IF d.joint = i - 1 THEN "zero" ELSE "on", d.ring[i])
    BY <1>1 DEF SeamInv
  <2>1. n + i \in 2..Len(r.ring) /\ d.ring[i] = r.ring[n + i]
    BY <1>1, <1>2
  <2>2. d.joint = i - 1 <=> r.joint = (n + i) - 1
    <3>1. i \in Nat /\ i >= 2
      OBVIOUS
    <3>2. CASE r.joint = None
      BY <1>1, <1>2, <3>1, <3>2 DEF None
    <3>3. CASE r.joint # None /\ r.joint < n
      BY <1>1, <1>2, <3>1, <3>3
    <3>4. CASE r.joint # None /\ ~(r.joint < n)
      <4>1. d.joint = r.joint - n /\ r.joint \in Nat
        BY <1>1, <1>2, <3>4
      <4> QED
        BY <1>2, <3>1, <4>1
    <3> QED
      BY <3>2, <3>3, <3>4
  <2> QED
    BY <2>1, <2>2 DEF SeamInv
<1>4. MarkInv(d)
  <2>1. d.joint <= Len(d.ring)
    BY <1>1, <1>2 DEF None
  <2>2. ASSUME k > 0
        PROVE  /\ d.rise \/ d.gap => d.rise /\ d.joint = Len(d.ring)
               /\ d.joint = Len(d.ring) => d.rise
               /\ ~d.late
    <3>1. r.ring # <<>>
      BY <1>2, <2>2
    <3>2. d.joint = Len(d.ring) <=> r.joint = Len(r.ring)
      BY <1>1, <1>2, <2>2 DEF None
    <3>3. d.gap = r.gap
      BY <1>1, <1>2, <2>2, TapFacts
    <3> QED
      BY <1>1, <3>1, <3>2, <3>3 DEF MarkInv
  <2> QED
    BY <1>2, <2>1, <2>2 DEF MarkInv
<1> QED
  BY <1>3, <1>4 DEF d

LEMMA SplicedKeeps ==
  ASSUME NEW r, TapInv(r), NEW n \in 0..Len(r.ring)
  PROVE  LET s == Spliced(r, n) IN
         /\ TapInv(s) /\ s.primed = r.primed /\ Len(s.hold) = Len(r.hold)
         /\ Len(r.hold) > 0 => SameEntry(s.hold[1], r.hold[1])
         /\ s.edge = r.edge /\ s.on = r.on /\ s.want = r.want /\ s.delay = r.delay
<1> DEFINE d == Discarded(r, n)
           s == Spliced(r, n)
           h == TaperedTail(r.hold)
<1>1. r \in TapType /\ SeamInv(r) /\ MarkInv(r) /\ HoldInv(r)
  BY DEF TapInv
<1>2. /\ d \in TapType /\ SeamInv(d) /\ MarkInv(d)
      /\ d.primed = r.primed /\ d.hold = r.hold /\ d.edge = r.edge /\ d.on = r.on
      /\ d.want = r.want /\ d.delay = r.delay
  BY <1>1, DiscardedFields, DiscardedKeeps
<1>3. /\ h \in Seq(Units) /\ Len(h) = Len(r.hold)
      /\ \A i \in 1..Len(r.hold) : SameEntry(h[i], r.hold[i])
      /\ Len(r.hold) > 0 => h[Len(r.hold)].right = "zero"
  BY <1>1, TapFacts, TaperedTailFacts
<1>4. s = [d EXCEPT !.hold = h, !.fadeIn = TRUE]
  BY <1>2 DEF Spliced, TapType
<1> HIDE DEF d, s, h
<1>5. /\ s \in TapType /\ s.hold = h /\ s.fadeIn = TRUE /\ s.ring = d.ring
      /\ s.joint = d.joint /\ s.rise = d.rise /\ s.gap = d.gap /\ s.late = d.late
      /\ s.primed = d.primed /\ s.edge = d.edge /\ s.on = d.on /\ s.want = d.want
      /\ s.delay = d.delay
  BY <1>2, <1>3, <1>4 DEF TapType
<1>6. SeamInv(s) /\ MarkInv(s)
  BY <1>2, <1>5 DEF SeamInv, MarkInv
<1>7. Len(r.hold) \in Nat /\ (r.hold = <<>> <=> Len(r.hold) = 0)
  BY <1>1, TapFacts
<1>8. Len(r.hold) = IF r.primed THEN 1 ELSE 0
  BY <1>1 DEF HoldInv
<1>9. HoldInv(s)
  <2>1. Len(s.hold) = IF s.primed THEN 1 ELSE 0
    BY <1>2, <1>3, <1>5, <1>8
  <2>2. s.primed => s.hold[1].right = "zero"
    BY <1>2, <1>3, <1>5, <1>8
  <2> QED
    BY <1>5, <2>1, <2>2 DEF HoldInv
<1>10. Len(r.hold) > 0 => SameEntry(s.hold[1], r.hold[1])
  BY <1>3, <1>5, <1>7
<1> QED
  BY <1>2, <1>3, <1>5, <1>6, <1>9, <1>10 DEF TapInv, s

-----------------------------------------------------------------------------
(***************************************************************************)
(* One mix.                                                                *)
(***************************************************************************)

LEMMA DelayKeeps ==
  ASSUME NEW r, TapInv(r), NEW d \in Nat
  PROVE  LET q == [r EXCEPT !.delay = d] IN
         /\ TapInv(q) /\ q.primed = r.primed /\ q.hold = r.hold
         /\ q.edge = r.edge /\ q.on = r.on
<1> DEFINE q == [r EXCEPT !.delay = d]
<1>1. r \in TapType /\ SeamInv(r) /\ MarkInv(r) /\ HoldInv(r)
  BY DEF TapInv
<1>2. /\ q \in TapType /\ q.hold = r.hold /\ q.fadeIn = r.fadeIn /\ q.ring = r.ring
      /\ q.joint = r.joint /\ q.rise = r.rise /\ q.gap = r.gap /\ q.late = r.late
      /\ q.primed = r.primed /\ q.edge = r.edge /\ q.on = r.on
  BY <1>1 DEF TapType
<1> HIDE DEF q
<1>3. First(q) = First(r)
  BY <1>2 DEF First
<1>4. SeamInv(q) /\ MarkInv(q) /\ HoldInv(q)
  BY <1>1, <1>2, <1>3 DEF SeamInv, MarkInv, HoldInv
<1> QED
  BY <1>2, <1>4 DEF TapInv, q

LEMMA ReconciledKeeps ==
  ASSUME NEW r, TapInv(r)
  PROVE  LET q == Reconciled(r) IN
         /\ TapInv(q) /\ q.edge = r.edge /\ q.on = r.on
         /\ Refills(r) => ~q.primed
         /\ ~Refills(r) => /\ q.primed = r.primed
                           /\ r.primed => SameEntry(q.hold[1], r.hold[1])
<1>1. r \in TapType /\ SeamInv(r) /\ MarkInv(r) /\ HoldInv(r)
  BY DEF TapInv
<1>2. /\ r.want \in Nat /\ r.delay \in Nat /\ Len(r.ring) \in Nat /\ r.primed \in BOOLEAN
      /\ Len(r.hold) = IF r.primed THEN 1 ELSE 0
  BY <1>1, TapFacts DEF HoldInv
<1>3. CASE Refills(r)
  <2> DEFINE q == [r EXCEPT !.primed = FALSE, !.hold = <<>>, !.delay = r.want]
  <2>1. Reconciled(r) = q
    BY <1>3 DEF Reconciled
  <2>2. <<>> \in Seq(Units) /\ Len(<<>>) = 0
    BY EmptySeq
  <2>3. /\ q \in TapType /\ q.hold = <<>> /\ q.ring = r.ring
        /\ q.joint = r.joint /\ q.rise = r.rise /\ q.gap = r.gap /\ q.late = r.late
        /\ q.primed = FALSE /\ q.edge = r.edge /\ q.on = r.on
    BY <1>1, <1>2, <2>2 DEF TapType
  <2> HIDE DEF q
  <2>4. SeamInv(q) /\ MarkInv(q) /\ HoldInv(q)
    BY <1>1, <2>2, <2>3 DEF SeamInv, MarkInv, HoldInv
  <2> QED
    BY <1>3, <2>1, <2>3, <2>4 DEF TapInv
<1>4. CASE ~Refills(r) /\ r.want < r.delay /\ r.primed
  <2> DEFINE n == Smaller(r.delay - r.want, Len(r.ring))
             s == Spliced(r, n)
  <2>1. n \in 0..Len(r.ring)
    BY <1>2, <1>4 DEF Smaller
  <2>2. Reconciled(r) = [s EXCEPT !.delay = r.want]
    BY <1>4 DEF Reconciled
  <2> HIDE DEF n
  <2>3. /\ TapInv(s) /\ s.primed = r.primed
        /\ Len(r.hold) > 0 => SameEntry(s.hold[1], r.hold[1])
        /\ s.edge = r.edge /\ s.on = r.on
    BY <2>1, SplicedKeeps
  <2> DEFINE q == [s EXCEPT !.delay = r.want]
  <2> HIDE DEF s
  <2>4. /\ TapInv(q) /\ q.primed = s.primed /\ q.hold = s.hold
        /\ q.edge = s.edge /\ q.on = s.on
    BY <1>2, <2>3, DelayKeeps
  <2>5. Reconciled(r) = q
    BY <2>2
  <2> HIDE DEF q
  <2>6. Len(r.hold) > 0
    BY <1>2, <1>4
  <2> QED
    BY <1>4, <2>3, <2>4, <2>5, <2>6
<1>5. CASE ~Refills(r) /\ ~(r.want < r.delay /\ r.primed)
  <2>1. Reconciled(r) = [r EXCEPT !.delay = r.want]
    BY <1>5 DEF Reconciled
  <2>2. LET q == [r EXCEPT !.delay = r.want] IN
        /\ TapInv(q) /\ q.primed = r.primed /\ q.hold = r.hold
        /\ q.edge = r.edge /\ q.on = r.on
    BY <1>2, DelayKeeps
  <2> QED
    BY <1>5, <2>1, <2>2 DEF SameEntry
<1> QED
  BY <1>3, <1>4, <1>5

LEMMA PrimedKeeps ==
  ASSUME NEW r, TapInv(r)
  PROVE  LET q == PrimedIfFull(r) IN
         /\ TapInv(q) /\ q.edge = r.edge /\ q.on = r.on
         /\ r.primed => q = r
         /\ ~r.primed => q = r \/ (q.primed /\ q.fadeIn /\ q.hold = <<Silence>>)
<1>1. r \in TapType /\ SeamInv(r) /\ MarkInv(r) /\ HoldInv(r)
  BY DEF TapInv
<1>2. r.delay \in Nat /\ Len(r.ring) \in Nat /\ Cushion \in Nat
  BY <1>1, TapFacts, Sizes
<1>3. CASE r.primed \/ Len(r.ring) < Cushion + r.delay
  BY <1>3 DEF PrimedIfFull
<1>4. CASE ~(r.primed \/ Len(r.ring) < Cushion + r.delay)
  <2> DEFINE n == Len(r.ring) - (Cushion + r.delay)
             d == Discarded(r, n)
             q == [d EXCEPT !.primed = TRUE, !.fadeIn = TRUE, !.hold = <<Silence>>]
  <2>1. n \in 0..Len(r.ring)
    BY <1>2, <1>4
  <2>2. PrimedIfFull(r) = q
    BY <1>4 DEF PrimedIfFull
  <2> HIDE DEF n
  <2>3. d \in TapType /\ SeamInv(d) /\ MarkInv(d) /\ d.edge = r.edge /\ d.on = r.on
    BY <1>1, <2>1, DiscardedFields, DiscardedKeeps
  <2>4. /\ <<Silence>> \in Seq(Units) /\ Len(<<Silence>>) = 1
        /\ <<Silence>>[1].right = "zero"
    BY Constants, OnePlace
  <2> HIDE DEF d
  <2>5. /\ q \in TapType /\ q.hold = <<Silence>> /\ q.ring = d.ring /\ q.fadeIn = TRUE
        /\ q.joint = d.joint /\ q.rise = d.rise /\ q.gap = d.gap /\ q.late = d.late
        /\ q.primed = TRUE /\ q.edge = d.edge /\ q.on = d.on
    BY <2>3, <2>4 DEF TapType
  <2> HIDE DEF q
  <2>6. SeamInv(q) /\ MarkInv(q) /\ HoldInv(q)
    BY <2>3, <2>4, <2>5 DEF SeamInv, MarkInv, HoldInv
  <2> QED
    BY <1>4, <2>2, <2>3, <2>5, <2>6 DEF TapInv
<1> QED
  BY <1>3, <1>4

\* A tap made ready contributes what it held, or begins from silence.
LEMMA ReadyKeeps ==
  ASSUME NEW r, TapInv(r)
  PROVE  LET q == Ready(r) IN
         /\ TapInv(q) /\ q.edge = r.edge /\ q.on = r.on
         /\ Refills(r) /\ q.primed => q.fadeIn
         /\ ~Refills(r) /\ r.primed => q.primed /\ SameEntry(q.hold[1], r.hold[1])
         /\ ~r.primed /\ q.primed => q.hold = <<Silence>>
<1> DEFINE s == Reconciled(r)
           q == Ready(r)
<1>1. /\ TapInv(s) /\ s.edge = r.edge /\ s.on = r.on
      /\ Refills(r) => ~s.primed
      /\ ~Refills(r) => /\ s.primed = r.primed
                        /\ r.primed => SameEntry(s.hold[1], r.hold[1])
  BY ReconciledKeeps
<1>2. q = PrimedIfFull(s)
  BY DEF Ready
<1> HIDE DEF s, q
<1>3. /\ TapInv(q) /\ q.edge = s.edge /\ q.on = s.on
      /\ s.primed => q = s
      /\ ~s.primed => q = s \/ (q.primed /\ q.fadeIn /\ q.hold = <<Silence>>)
  BY <1>1, <1>2, PrimedKeeps
<1>4. Refills(r) => r.primed
  BY DEF Refills
<1>5. r.primed \in BOOLEAN
  BY TapFacts DEF TapInv
<1>6. Refills(r) \in BOOLEAN
  BY <1>5 DEF Refills
<1> QED
  BY <1>1, <1>3, <1>4, <1>5, <1>6 DEF q

\* Each unit after the first sounds right after the one before it.
Chain(units) == \A i \in 2..Len(units) : Fits(units[i - 1].right, units[i])

LEMMA JointTaperedFacts ==
  ASSUME NEW s \in Seq(Unread), NEW j \in Nat \cup {None}
  PROVE  LET t == JointTapered(s, j) IN
         /\ t \in Seq(Units) /\ Len(t) = Len(s)
         /\ \A i \in 1..Len(s) : /\ t[i].right = IF i = j THEN "zero" ELSE "on"
                                 /\ SameEntry(t[i], s[i])
<1>1. /\ s \in Seq(Units) /\ \A i \in 1..Len(s) : s[i] \in Units /\ s[i].right = "on"
  <2>1. Unread \subseteq Units
    BY DEF Unread
  <2> QED
    BY <2>1, SeqMonotonic, NonEmpty, LostFacts
<1>2. CASE j \in 1..Len(s)
  <2> DEFINE e == Tapered(s[j])
             t == [s EXCEPT ![j] = e]
  <2>1. e \in Units /\ e.right = "zero" /\ SameEntry(e, s[j])
    BY <1>1, <1>2, UnitFacts
  <2>2. JointTapered(s, j) = t
    BY <1>2 DEF JointTapered
  <2> HIDE DEF e
  <2>3. /\ t \in Seq(Units) /\ Len(t) = Len(s)
        /\ \A i \in 1..Len(s) : t[i] = IF i = j THEN e ELSE s[i]
    BY <1>1, <1>2, <2>1, ExceptSeq
  <2> HIDE DEF t
  <2>4. ASSUME NEW i \in 1..Len(s)
        PROVE  t[i].right = (IF i = j THEN "zero" ELSE "on") /\ SameEntry(t[i], s[i])
    BY <1>1, <2>1, <2>3 DEF SameEntry
  <2> QED
    BY <2>2, <2>3, <2>4
<1>3. CASE j \notin 1..Len(s)
  <2>1. JointTapered(s, j) = s
    BY <1>3 DEF JointTapered
  <2> QED
    BY <1>1, <1>3, <2>1 DEF SameEntry
<1> QED
  BY <1>2, <1>3

LEMMA PulledFacts ==
  ASSUME NEW r \in TapType
  PROVE  LET m == Smaller(Chunk, Len(r.ring))
             p == Pulled(r) IN
         /\ m \in 0..Len(r.ring) /\ m <= Chunk
         /\ p \in Seq(Units) /\ Len(p) = m
         /\ \A i \in 1..m : p[i].right = IF i = r.joint THEN "zero" ELSE "on"
         /\ \A i \in 2..m : SameEntry(p[i], r.ring[i])
         /\ m > 0 => IF r.fadeIn THEN p[1].left = "zero" ELSE SameEntry(p[1], r.ring[1])
<1> DEFINE m == Smaller(Chunk, Len(r.ring))
           s == SubSeq(r.ring, 1, m)
           t == JointTapered(s, r.joint)
           p == Pulled(r)
<1>1. /\ r.ring \in Seq(Unread) /\ Len(r.ring) \in Nat /\ Chunk \in Nat
      /\ r.joint \in Nat \cup {None} /\ r.fadeIn \in BOOLEAN
  BY TapFacts, Sizes
<1>2. m \in 0..Len(r.ring) /\ m <= Chunk
  BY <1>1 DEF Smaller
<1> HIDE DEF m
<1>3. s \in Seq(Unread) /\ Len(s) = m /\ \A i \in 1..m : s[i] = r.ring[i]
  BY <1>1, <1>2, StartPlaces
<1>5. p = IF r.fadeIn /\ t # <<>> THEN [t EXCEPT ![1] = Risen(t[1])] ELSE t
  BY DEF Pulled, m
<1> HIDE DEF s, p
<1>4. /\ t \in Seq(Units) /\ Len(t) = m
      /\ \A i \in 1..m : /\ t[i].right = IF i = r.joint THEN "zero" ELSE "on"
                         /\ SameEntry(t[i], s[i])
  <2>1. /\ t \in Seq(Units) /\ Len(t) = Len(s)
        /\ \A i \in 1..Len(s) : /\ t[i].right = IF i = r.joint THEN "zero" ELSE "on"
                                /\ SameEntry(t[i], s[i])
    BY <1>1, <1>3, JointTaperedFacts
  <2> HIDE DEF t
  <2> QED
    BY <1>3, <2>1
<1> HIDE DEF t
<1>6. (t = <<>> <=> m = 0) /\ \A i \in 1..m : t[i] \in Units
  BY <1>4, NonEmpty
<1>7. /\ p \in Seq(Units) /\ Len(p) = m
      /\ \A i \in 2..m : p[i] = t[i]
      /\ m > 0 => p[1] = IF r.fadeIn THEN Risen(t[1]) ELSE t[1]
  <2>1. CASE r.fadeIn /\ m > 0
    <3>1. 1 \in 1..Len(t) /\ Risen(t[1]) \in Units
      <4>1. 1 \in 1..m
        BY <1>2, <2>1
      <4> QED
        BY <1>4, <1>6, <4>1, UnitFacts
    <3>2. p = [t EXCEPT ![1] = Risen(t[1])]
      BY <1>2, <1>5, <1>6, <2>1
    <3>3. /\ p \in Seq(Units) /\ Len(p) = Len(t)
          /\ \A i \in 1..Len(t) : p[i] = IF i = 1 THEN Risen(t[1]) ELSE t[i]
      BY <1>4, <3>1, <3>2, ExceptSeq
    <3> QED
      BY <1>2, <1>4, <2>1, <3>1, <3>3
  <2>2. CASE ~(r.fadeIn /\ m > 0)
    <3>1. p = t
      BY <1>2, <1>5, <1>6, <2>2
    <3> QED
      BY <1>1, <1>4, <2>2, <3>1
  <2> QED
    BY <2>1, <2>2
<1>8. ASSUME NEW i \in 1..m
      PROVE  p[i].right = IF i = r.joint THEN "zero" ELSE "on"
  <2>1. t[i] \in Units /\ Risen(t[i]).right = t[i].right
    BY <1>6, UnitFacts
  <2>2. p[i].right = t[i].right
    BY <1>2, <1>7, <2>1
  <2> QED
    BY <1>4, <2>2
<1>9. \A i \in 2..m : SameEntry(p[i], r.ring[i])
  BY <1>2, <1>3, <1>4, <1>7 DEF SameEntry
<1>10. ASSUME m > 0
       PROVE  IF r.fadeIn THEN p[1].left = "zero" ELSE SameEntry(p[1], r.ring[1])
  <2>1. 1 \in 1..m /\ t[1] \in Units
    BY <1>2, <1>6, <1>10
  <2>2. Risen(t[1]).left = "zero"
    BY <2>1, UnitFacts
  <2> QED
    BY <1>3, <1>4, <1>7, <1>10, <2>1, <2>2 DEF SameEntry
<1> QED
  BY <1>2, <1>7, <1>8, <1>9, <1>10 DEF m, p

\* The holdback and what was read are a chain, faded out when the ring ran dry.
LEMMA UnemittedFacts ==
  ASSUME NEW r, TapInv(r), r.primed
  PROVE  LET m == Smaller(Chunk, Len(r.ring))
             u == Unemitted(r) IN
         /\ u \in Seq(Units) /\ Len(u) = m + 1 /\ Chain(u)
         /\ SameEntry(u[1], r.hold[1])
         /\ Dry(r) => u[m + 1].right = "zero"
         /\ ~Dry(r) => u[m + 1].right = IF m = r.joint THEN "zero" ELSE "on"
         /\ m > 0 /\ r.fadeIn => u[2].left = "zero"
<1> DEFINE m == Smaller(Chunk, Len(r.ring))
           p == Pulled(r)
           v == r.hold \o p
           u == Unemitted(r)
<1>1. r \in TapType /\ SeamInv(r) /\ MarkInv(r) /\ HoldInv(r)
  BY DEF TapInv
<1>2. /\ r.hold \in Seq(Units) /\ Len(r.hold) = 1 /\ Len(r.ring) \in Nat
      /\ \A i \in 1..Len(r.ring) : r.ring[i] \in Units
      /\ (r.ring = <<>> <=> Len(r.ring) = 0) /\ r.fadeIn \in BOOLEAN
      /\ Chunk \in Nat /\ Chunk >= 1
  BY <1>1, TapFacts, Sizes DEF HoldInv
<1>3. /\ m \in 0..Len(r.ring) /\ m <= Chunk
      /\ p \in Seq(Units) /\ Len(p) = m
      /\ \A i \in 1..m : p[i].right = IF i = r.joint THEN "zero" ELSE "on"
      /\ \A i \in 2..m : SameEntry(p[i], r.ring[i])
      /\ m > 0 => IF r.fadeIn THEN p[1].left = "zero" ELSE SameEntry(p[1], r.ring[1])
  BY <1>1, PulledFacts
<1>4. Dry(r) => m = Len(r.ring)
  BY <1>2 DEF Dry, Smaller
<1>5. ~Dry(r) => m = Chunk
  BY <1>2 DEF Dry, Smaller
<1>6. u = IF Dry(r) THEN TaperedTail(v) ELSE v
  BY DEF Unemitted
<1> HIDE DEF m, p, u
<1>7. /\ v \in Seq(Units) /\ Len(v) = m + 1 /\ v[1] = r.hold[1]
      /\ \A i \in 1..m : v[i + 1] = p[i]
  <2>1. /\ v \in Seq(Units) /\ Len(v) = 1 + m
        /\ \A i \in 1..1 + m : v[i] = IF i <= 1 THEN r.hold[i] ELSE p[i - 1]
    <3>0. r.hold \in Seq(Units) /\ p \in Seq(Units)
      BY <1>2, <1>3
    <3>1. /\ v \in Seq(Units) /\ Len(v) = Len(r.hold) + Len(p)
          /\ \A i \in 1..Len(r.hold) + Len(p) :
               v[i] = IF i <= Len(r.hold) THEN r.hold[i] ELSE p[i - Len(r.hold)]
      BY <3>0, ConcatProperties
    <3> HIDE DEF v
    <3> QED
      BY <1>2, <1>3, <3>1
  <2> HIDE DEF v
  <2>2. m \in Nat
    BY <1>2, <1>3
  <2>3. ASSUME NEW i \in 1..m
        PROVE  v[i + 1] = p[i]
    <3>1. i + 1 \in 1..1 + m /\ ~(i + 1 <= 1) /\ (i + 1) - 1 = i
      BY <2>2
    <3> QED
      BY <2>1, <3>1
  <2>4. 1 \in 1..1 + m
    BY <2>2
  <2> QED
    BY <2>1, <2>2, <2>3, <2>4
<1> HIDE DEF v
<1>8. m \in Nat /\ \A i \in 1..m : p[i] \in Units
  BY <1>2, <1>3, NonEmpty
<1>9. ASSUME m > 0
      PROVE  Fits(v[1].right, v[2])
  <2>1. 1 \in 1..m /\ 1 \in 1..Len(r.ring) /\ v[2] = p[1] /\ p[1] \in Units
    BY <1>2, <1>3, <1>7, <1>8, <1>9
  <2>2. v[1].right = r.hold[1].right /\ r.hold[1].right \in Edges
    <3>1. r.hold[1] \in Units
      BY <1>2, NonEmpty
    <3> QED
      BY <1>7, <3>1, UnitFacts
  <2>3. CASE r.fadeIn
    <3>1. r.hold[1].right = "zero" /\ p[1].left = "zero"
      BY <1>1, <1>3, <1>9, <2>3 DEF HoldInv
    <3> QED
      BY <2>1, <2>2, <3>1, FitsFacts
  <2>4. CASE ~r.fadeIn
    <3>1. r.ring # <<>>
      BY <1>2, <2>1
    <3>2. (r.ring \o <<First(r)>>)[1] = r.ring[1]
      BY <1>1, <3>1, FollowingUnit
    <3>3. Fits(r.hold[1].right, r.ring[1])
      BY <1>1, <2>4, <3>2 DEF HoldInv
    <3>4. SameEntry(p[1], r.ring[1]) /\ r.ring[1] \in Units
      BY <1>2, <1>3, <1>9, <2>1, <2>4
    <3> QED
      BY <2>1, <2>2, <3>3, <3>4, FitsFacts
  <2> QED
    BY <2>3, <2>4
<1>10. ASSUME NEW i \in 2..m
       PROVE  Fits(v[i].right, v[i + 1])
  <2>0. i \in Nat /\ i >= 2 /\ i <= m
    BY <1>8
  <2>1. /\ i - 1 \in 1..m /\ i \in 1..m /\ i \in 2..Len(r.ring) /\ i \in 1..Len(r.ring)
        /\ (i - 1) + 1 = i
    BY <1>2, <1>3, <2>0
  <2>2. v[i] = p[i - 1] /\ v[i + 1] = p[i] /\ p[i] \in Units /\ r.ring[i] \in Units
    BY <1>2, <1>7, <1>8, <2>1
  <2>3. v[i].right = IF r.joint = i - 1 THEN "zero" ELSE "on"
    BY <1>3, <2>1, <2>2
  <2>4. Fits(v[i].right, r.ring[i])
    BY <1>1, <2>1, <2>3 DEF SeamInv
  <2>5. v[i].right \in Edges /\ SameEntry(p[i], r.ring[i])
    BY <1>3, <2>3 DEF Edges
  <2> QED
    BY <2>2, <2>4, <2>5, FitsFacts
<1>11. Chain(v)
  <2> SUFFICES ASSUME NEW i \in 2..m + 1
               PROVE  Fits(v[i - 1].right, v[i])
    BY <1>7 DEF Chain
  <2>1. CASE i = 2
    BY <1>8, <1>9, <2>1
  <2>2. CASE i # 2
    <3>1. i - 1 \in 2..m /\ (i - 1) + 1 = i
      BY <1>8, <2>2
    <3> QED
      BY <1>10, <3>1
  <2> QED
    BY <2>1, <2>2
<1>12. \A i \in 1..m + 1 : v[i] \in Units
  BY <1>7, NonEmpty
<1>13. m > 0 /\ r.fadeIn => v[2].left = "zero"
  <2>1. m > 0 => v[2] = p[1]
    BY <1>7, <1>8
  <2> QED
    BY <1>3, <2>1
<1>14. CASE ~Dry(r)
  <2>1. u = v
    BY <1>6, <1>14
  <2>2. v[m + 1] = p[m] /\ m \in 1..m
    BY <1>2, <1>5, <1>7, <1>8, <1>14
  <2>3. v[m + 1].right = IF m = r.joint THEN "zero" ELSE "on"
    BY <1>3, <2>2
  <2>4. SameEntry(v[1], r.hold[1])
    BY <1>7 DEF SameEntry
  <2> QED
    BY <1>7, <1>11, <1>13, <1>14, <2>1, <2>3, <2>4 DEF m, u
<1>15. CASE Dry(r)
  <2>1. u = TaperedTail(v)
    BY <1>6, <1>15
  <2>2. /\ u \in Seq(Units) /\ Len(u) = m + 1
        /\ \A i \in 1..m + 1 : /\ SameEntry(u[i], v[i])
                               /\ i < m + 1 => u[i] = v[i]
        /\ u[m + 1].right = "zero"
    <3>1. /\ TaperedTail(v) \in Seq(Units) /\ Len(TaperedTail(v)) = Len(v)
          /\ \A i \in 1..Len(v) : /\ SameEntry(TaperedTail(v)[i], v[i])
                                  /\ i < Len(v) => TaperedTail(v)[i] = v[i]
          /\ Len(v) > 0 => TaperedTail(v)[Len(v)].right = "zero"
      BY <1>7, TaperedTailFacts
    <3> QED
      BY <1>7, <1>8, <2>1, <3>1
  <2>3. \A i \in 1..m + 1 : u[i] \in Units
    BY <2>2, NonEmpty
  <2>4. Chain(u)
    <3> SUFFICES ASSUME NEW i \in 2..m + 1
                 PROVE  Fits(u[i - 1].right, u[i])
      BY <2>2 DEF Chain
    <3>1. i - 1 \in 1..m + 1 /\ i - 1 < m + 1 /\ i \in 1..m + 1 /\ i \in 2..Len(v)
      BY <1>7, <1>8
    <3>2. Fits(v[i - 1].right, v[i])
      BY <1>11, <3>1 DEF Chain
    <3>3. u[i - 1] = v[i - 1] /\ SameEntry(u[i], v[i]) /\ u[i] \in Units /\ v[i] \in Units
      BY <1>12, <2>2, <2>3, <3>1
    <3>4. v[i - 1].right \in Edges
      BY <1>12, <3>1, UnitFacts
    <3> QED
      BY <3>2, <3>3, <3>4, FitsFacts
  <2>5. SameEntry(u[1], r.hold[1])
    <3>1. 1 \in 1..m + 1
      BY <1>8
    <3> QED
      BY <1>7, <2>2, <3>1
  <2>6. m > 0 /\ r.fadeIn => u[2].left = "zero"
    <3>1. m > 0 => 2 \in 1..m + 1
      BY <1>8
    <3> QED
      BY <1>13, <2>2, <3>1 DEF SameEntry
  <2> QED
    BY <1>15, <2>2, <2>4, <2>5, <2>6 DEF m, u
<1> QED
  BY <1>14, <1>15

\* After a read the newest unit is held back, and what follows fits to it.
LEMMA ReadKeeps ==
  ASSUME NEW r, TapInv(r), r.primed
  PROVE  LET q == Read(r) IN
         /\ TapInv(q) /\ q.edge = r.edge /\ q.on = r.on
         /\ q.primed <=> ~Dry(r)
         /\ ~Dry(r) => q.hold[1] = Unemitted(r)[Chunk + 1]
<1> DEFINE m == Smaller(Chunk, Len(r.ring))
           u == Unemitted(r)
           g == SubSeq(r.ring, m + 1, Len(r.ring))
           j == IF r.joint = None \/ r.joint <= m THEN None ELSE r.joint - m
           f == r.fadeIn /\ m = 0
           h == IF Dry(r) THEN <<>> ELSE <<Last(u)>>
           q == Read(r)
<1>1. r \in TapType /\ SeamInv(r) /\ MarkInv(r) /\ HoldInv(r)
  BY DEF TapInv
<1>2. /\ r.ring \in Seq(Unread) /\ Len(r.ring) \in Nat /\ r.joint \in Nat \cup {None}
      /\ (r.ring = <<>> <=> Len(r.ring) = 0) /\ r.fadeIn \in BOOLEAN
      /\ Chunk \in Nat /\ Chunk >= 1
      /\ \A i \in 1..Len(r.ring) : r.ring[i] \in Units
  BY <1>1, TapFacts, Sizes
<1>3. m \in 0..Len(r.ring) /\ Len(Pulled(r)) = m
  BY <1>1, PulledFacts
<1>4. /\ u \in Seq(Units) /\ Len(u) = m + 1
      /\ ~Dry(r) => u[m + 1].right = IF m = r.joint THEN "zero" ELSE "on"
  BY UnemittedFacts
<1>5. q = [r EXCEPT !.ring = g, !.joint = j, !.fadeIn = f, !.primed = ~Dry(r), !.hold = h]
  BY <1>1, <1>3 DEF Read, TapType
<1>6. Dry(r) <=> Len(r.ring) < Chunk
  BY DEF Dry
<1>7. ~Dry(r) => m = Chunk
  BY <1>2, <1>6 DEF Smaller
<1> HIDE DEF m, u, q
<1>8. /\ g \in Seq(Unread) /\ Len(g) = Len(r.ring) - m
      /\ \A i \in 1..Len(r.ring) - m : g[i] = r.ring[m + i]
  BY <1>2, <1>3, RestPlaces
<1> HIDE DEF g
<1>9. m \in Nat /\ (g = <<>> <=> Len(r.ring) = m)
  BY <1>2, <1>3, <1>8, NonEmpty
<1>10. j \in Nat \cup {None} /\ f \in BOOLEAN /\ (~Dry(r)) \in BOOLEAN
  BY <1>2, <1>9, <1>6 DEF None
<1>11. /\ h \in Seq(Units) /\ Len(h) = IF Dry(r) THEN 0 ELSE 1
       /\ ~Dry(r) => h[1] = u[m + 1]
  <2>1. u[m + 1] \in Units /\ Last(u) = u[m + 1]
    BY <1>4, <1>9, NonEmpty DEF Last
  <2> QED
    BY <2>1, EmptySeq, OnePlace
<1> HIDE DEF h
<1>12. /\ q \in TapType /\ q.ring = g /\ q.joint = j /\ q.fadeIn = f /\ q.primed = ~Dry(r)
       /\ q.hold = h /\ q.rise = r.rise /\ q.gap = r.gap /\ q.late = r.late
       /\ q.edge = r.edge /\ q.on = r.on
  <2> HIDE DEF j, f
  <2> DEFINE y == ~Dry(r)
  <2>1. y \in BOOLEAN
    BY <1>10
  <2> HIDE DEF y
  <2>2. q = [r EXCEPT !.ring = g, !.joint = j, !.fadeIn = f, !.primed = y, !.hold = h]
    BY <1>5 DEF y
  <2>3. /\ q \in TapType /\ q.ring = g /\ q.joint = j /\ q.fadeIn = f /\ q.primed = y
        /\ q.hold = h /\ q.rise = r.rise /\ q.gap = r.gap /\ q.late = r.late
        /\ q.edge = r.edge /\ q.on = r.on
    BY <1>1, <1>8, <1>10, <1>11, <2>1, <2>2 DEF TapType
  <2> QED
    BY <2>3 DEF y
<1>13. SeamInv(q)
  <2> SUFFICES ASSUME NEW i \in 2..Len(r.ring) - m
               PROVE  Fits(IF j = i - 1 THEN "zero" ELSE "on", g[i])
    BY <1>8, <1>12 DEF SeamInv
  <2>1. i \in Nat /\ i >= 2 /\ m + i \in 2..Len(r.ring) /\ i \in 1..Len(r.ring) - m
    BY <1>2, <1>9
  <2>2. j = i - 1 <=> r.joint = (m + i) - 1
    <3>1. CASE r.joint = None
      BY <1>9, <2>1, <3>1 DEF None
    <3>2. CASE r.joint # None
      <4>1. r.joint \in Nat
        BY <1>2, <3>2
      <4> QED
        BY <1>9, <2>1, <3>2, <4>1 DEF None
    <3> QED
      BY <3>1, <3>2
  <2> QED
    BY <1>1, <1>8, <2>1, <2>2 DEF SeamInv
<1>14. MarkInv(q)
  <2>1. r.joint <= Len(r.ring)
    BY <1>1 DEF MarkInv
  <2>2. j <= Len(g)
    BY <1>2, <1>3, <1>8, <1>9, <2>1 DEF None
  <2>3. ASSUME g # <<>>
        PROVE  /\ r.rise \/ r.gap => r.rise /\ j = Len(g)
               /\ j = Len(g) => r.rise
               /\ ~r.late
    <3>1. Len(r.ring) > m /\ r.ring # <<>>
      BY <1>2, <1>3, <1>9, <2>3
    <3>2. j = Len(g) <=> r.joint = Len(r.ring)
      <4>1. CASE r.joint = None
        BY <1>2, <1>8, <1>9, <3>1, <4>1 DEF None
      <4>2. CASE r.joint # None
        <5>1. r.joint \in Nat
          BY <1>2, <4>2
        <5> QED
          BY <1>2, <1>8, <1>9, <3>1, <4>2, <5>1 DEF None
      <4> QED
        BY <4>1, <4>2
    <3> QED
      BY <1>1, <3>1, <3>2 DEF MarkInv
  <2> QED
    BY <1>12, <2>2, <2>3 DEF MarkInv
<1>15. HoldInv(q)
  <2>1. CASE Dry(r)
    BY <1>11, <1>12, <2>1 DEF HoldInv
  <2>2. CASE ~Dry(r)
    <3>0. m >= 1
      BY <1>2, <1>7, <2>2
    <3>1. m >= 1 /\ q.primed /\ ~q.fadeIn /\ Len(q.hold) = 1
      <4>1. Len(h) = 1
        BY <1>11, <2>2
      <4>2. ~f
        BY <1>9, <3>0
      <4> HIDE DEF f, j
      <4> QED
        BY <1>12, <2>2, <3>0, <4>1, <4>2
    <3>2. q.hold[1].right = IF m = r.joint THEN "zero" ELSE "on"
      BY <1>4, <1>11, <1>12, <2>2
    <3>3. (q.ring \o <<First(q)>>)[1] = IF g = <<>> THEN First(q) ELSE g[1]
      BY <1>12, FollowingUnit
    <3>4. CASE g # <<>>
      <4>1. m + 1 \in 2..Len(r.ring) /\ 1 \in 1..Len(r.ring) - m /\ (m + 1) - 1 = m
        BY <1>2, <1>3, <1>9, <3>1, <3>4
      <4>2. g[1] = r.ring[m + 1]
        BY <1>8, <4>1
      <4>3. Fits(IF r.joint = m THEN "zero" ELSE "on", r.ring[m + 1])
        BY <1>1, <4>1 DEF SeamInv
      <4> QED
        BY <3>1, <3>2, <3>3, <3>4, <4>2, <4>3 DEF HoldInv
    <3>5. CASE g = <<>>
      <4>1. First(q) = First(r) /\ Len(r.ring) = m /\ r.ring # <<>>
        BY <1>2, <1>9, <1>12, <3>1, <3>5 DEF First
      <4>2. First(r) \in Units
        BY <1>1, FirstFacts, LostFacts
      <4>3. CASE m = r.joint
        <5>1. First(r).left = "zero"
          BY <1>1, <4>1, <4>3, FirstFacts DEF MarkInv
        <5>2. Fits("zero", First(r))
          BY <4>2, <5>1, FitsFacts
        <5> QED
          BY <3>1, <3>2, <3>3, <3>5, <4>1, <4>3, <5>2 DEF HoldInv
      <4>4. CASE m # r.joint
        <5>1. First(r) = Plain
          BY <1>1, <4>1, <4>4, FirstFacts DEF MarkInv
        <5>2. Fits("on", First(r))
          BY <5>1, Constants DEF Fits, Smooth
        <5> QED
          BY <3>1, <3>2, <3>3, <3>5, <4>1, <4>4, <5>2 DEF HoldInv
      <4> QED
        BY <4>3, <4>4
    <3> QED
      BY <3>4, <3>5
  <2> QED
    BY <2>1, <2>2
<1>16. ~Dry(r) => q.hold[1] = u[Chunk + 1]
  BY <1>7, <1>11, <1>12
<1> QED
  BY <1>12, <1>13, <1>14, <1>15, <1>16 DEF TapInv, q, u

LEMMA LaidOver ==
  ASSUME NEW a \in Seq(Units), NEW b \in Seq(Units), Len(a) <= Len(b)
  PROVE  LET e == a \o SubSeq(b, Len(a) + 1, Len(b)) IN
         /\ e \in Seq(Units) /\ Len(e) = Len(b)
         /\ \A i \in 1..Len(b) : e[i] = IF i <= Len(a) THEN a[i] ELSE b[i]
<1> DEFINE n == Len(a)
           c == SubSeq(b, n + 1, Len(b))
           e == a \o c
<1>1. Len(a) \in Nat /\ Len(b) \in Nat
  BY NonEmpty
<1>2. /\ c \in Seq(Units) /\ Len(c) = Len(b) - n
      /\ \A i \in 1..Len(b) - n : c[i] = b[n + i]
  <2>1. n \in 0..Len(b)
    BY <1>1
  <2> HIDE DEF n
  <2> QED
    BY <2>1, RestPlaces
<1> HIDE DEF c
<1>3. /\ e \in Seq(Units) /\ Len(e) = Len(a) + Len(c)
      /\ \A i \in 1..Len(a) + Len(c) : e[i] = IF i <= Len(a) THEN a[i] ELSE c[i - Len(a)]
  BY <1>2, ConcatProperties
<1> HIDE DEF e
<1>4. Len(a) + Len(c) = Len(b)
  BY <1>1, <1>2
<1>5. ASSUME NEW i \in 1..Len(b), ~(i <= Len(a))
      PROVE  c[i - Len(a)] = b[i]
  <2>1. i - n \in 1..Len(b) - n /\ n + (i - n) = i
    BY <1>1, <1>5
  <2> QED
    BY <1>2, <2>1
<1> QED
  BY <1>3, <1>4, <1>5 DEF e, c

\* What a tap puts into a mix is a chain: it begins as the unit it held, or from
\* silence, and ends silent unless it fills the chunk and the unit held next fits.
LEMMA EmittedFacts ==
  ASSUME NEW r, TapInv(r)
  PROVE  LET e == Emitted(r)
             q == Ready(r)
             goesOn == q.primed /\ ~Dry(q) IN
         /\ e \in Seq(Units) /\ Len(e) <= Chunk /\ Chain(e)
         /\ r.primed => Len(e) >= 1 /\ SameEntry(e[1], r.hold[1])
         /\ ~r.primed /\ Len(e) >= 1 => e[1].left = "zero"
         /\ goesOn => Len(e) = Chunk /\ Fits(e[Chunk].right, Unemitted(q)[Chunk + 1])
         /\ ~goesOn /\ Len(e) >= 1 => e[Len(e)].right = "zero"
<1> DEFINE q == Ready(r)
           m == Smaller(Chunk, Len(q.ring))
           u == Unemitted(q)
           t == Tapered(r.hold[1])
           early == IF Refills(r) THEN <<t>> ELSE <<>>
           main == IF ~q.primed THEN <<>> ELSE IF Dry(q) THEN u ELSE Front(u)
           e == Emitted(r)
           goesOn == q.primed /\ ~Dry(q)
<1>1. /\ TapInv(q)
      /\ Refills(r) /\ q.primed => q.fadeIn
      /\ ~Refills(r) /\ r.primed => q.primed /\ SameEntry(q.hold[1], r.hold[1])
      /\ ~r.primed /\ q.primed => q.hold = <<Silence>>
  BY ReadyKeeps
<1>2. e = early \o SubSeq(main, Len(early) + 1, Len(main))
  BY DEF Emitted
<1>3. Refills(r) => r.primed
  BY DEF Refills
<1>4. r.primed => r.hold[1] \in Units
  <2>1. r \in TapType /\ HoldInv(r)
    BY DEF TapInv
  <2>2. r.primed => Len(r.hold) = 1
    BY <2>1 DEF HoldInv
  <2> QED
    BY <2>1, <2>2, TapFacts
<1>5. r.primed => t \in Units /\ t.right = "zero" /\ SameEntry(t, r.hold[1])
  BY <1>4, UnitFacts
<1>6. Chunk \in Nat /\ Chunk >= 1
  BY Sizes
<1> HIDE DEF q, t, e
<1>7. CASE ~q.primed
  <2>1. main = <<>>
    BY <1>7
  <2>2. CASE Refills(r)
    <3>1. early = <<t>> /\ t \in Units /\ r.primed
      BY <1>3, <1>5, <2>2
    <3>2. <<t>> \in Seq(Units) /\ Len(<<t>>) = 1 /\ <<t>>[1] = t
      BY <3>1, OnePlace
    <3>3. Len(<<>>) = 0
      BY EmptySeq
    <3>4. SubSeq(<<>>, 2, 0) = <<>>
      BY SubSeqEmpty
    <3> HIDE DEF early, main
    <3>8. Len(early) + 1 = 2 /\ Len(main) = 0
      BY <2>1, <3>1, <3>2, <3>3
    <3>5. e = <<t>> \o <<>>
      BY <1>2, <2>1, <3>1, <3>4, <3>8
    <3>6. e = <<t>>
      BY <3>2, <3>5, ConcatEmptySeq
    <3>7. Chain(e)
      BY <3>2, <3>6 DEF Chain
    <3> QED
      BY <1>5, <1>6, <1>7, <3>1, <3>2, <3>6, <3>7 DEF q, e
  <2>3. CASE ~Refills(r)
    <3>1. early = <<>> /\ ~r.primed
      BY <1>1, <1>7, <2>3
    <3>2. Len(<<>>) = 0 /\ <<>> \in Seq(Units)
      BY EmptySeq
    <3>3. SubSeq(<<>>, 1, 0) = <<>>
      BY SubSeqEmpty
    <3> HIDE DEF early, main
    <3>8. Len(early) + 1 = 1 /\ Len(main) = 0
      BY <2>1, <3>1, <3>2
    <3>4. e = <<>> \o <<>>
      BY <1>2, <2>1, <3>1, <3>3, <3>8
    <3>5. e = <<>>
      BY <3>2, <3>4, ConcatEmptySeq
    <3>6. Chain(e)
      BY <3>2, <3>5 DEF Chain
    <3> QED
      BY <1>6, <1>7, <3>1, <3>2, <3>5, <3>6 DEF q, e
  <2> QED
    BY <2>2, <2>3
<1>8. CASE q.primed
  <2> DEFINE k == IF Dry(q) THEN m + 1 ELSE Chunk
  <2>1. /\ u \in Seq(Units) /\ Len(u) = m + 1 /\ Chain(u)
        /\ SameEntry(u[1], q.hold[1])
        /\ Dry(q) => u[m + 1].right = "zero"
        /\ m > 0 /\ q.fadeIn => u[2].left = "zero"
    BY <1>1, <1>8, UnemittedFacts
  <2>2. m \in 0..Len(q.ring) /\ Len(q.ring) \in Nat
    BY <1>1, PulledFacts, TapFacts DEF TapInv
  <2>3. Dry(q) => m + 1 <= Chunk
    BY <1>6, <2>2 DEF Dry, Smaller
  <2>4. ~Dry(q) => m = Chunk
    BY <1>6, <2>2 DEF Dry, Smaller
  <2> HIDE DEF m, u
  <2>5. k \in 1..Chunk /\ k <= m + 1 /\ m \in Nat
    BY <1>6, <2>2, <2>3, <2>4
  <2>6. /\ main \in Seq(Units) /\ Len(main) = k
        /\ \A i \in 1..k : main[i] = u[i]
    <3>1. CASE Dry(q)
      BY <1>8, <2>1, <3>1
    <3>2. CASE ~Dry(q)
      <4>1. main = SubSeq(u, 1, Chunk)
        BY <1>6, <1>8, <2>1, <2>4, <3>2 DEF Front
      <4>2. Chunk \in 0..Len(u) /\ k = Chunk
        BY <1>6, <2>1, <2>4, <3>2
      <4> QED
        BY <2>1, <4>1, <4>2, StartPlaces
    <3> QED
      BY <3>1, <3>2
  <2>7. early \in Seq(Units) /\ Len(early) = (IF Refills(r) THEN 1 ELSE 0)
        /\ (Refills(r) => early[1] = t)
    BY <1>3, <1>5, OnePlace, EmptySeq
  <2> HIDE DEF k, early, main
  <2>8. /\ e \in Seq(Units) /\ Len(e) = k
        /\ \A i \in 1..k : e[i] = IF Refills(r) /\ i = 1 THEN t ELSE u[i]
    <3>1. Len(early) <= Len(main)
      BY <2>5, <2>6, <2>7
    <3>2. /\ e \in Seq(Units) /\ Len(e) = Len(main)
          /\ \A i \in 1..Len(main) : e[i] = IF i <= Len(early) THEN early[i] ELSE main[i]
      BY <1>2, <2>6, <2>7, <3>1, LaidOver
    <3>3. ASSUME NEW i \in 1..k
          PROVE  e[i] = IF Refills(r) /\ i = 1 THEN t ELSE u[i]
      <4>1. i \in Nat /\ i >= 1 /\ i \in 1..Len(main)
        BY <2>5, <2>6
      <4>2. CASE Refills(r) /\ i = 1
        BY <2>7, <3>2, <4>1, <4>2
      <4>3. CASE ~(Refills(r) /\ i = 1)
        <5>1. ~(i <= Len(early))
          BY <2>7, <4>1, <4>3
        <5> QED
          BY <2>6, <3>2, <4>1, <4>3, <5>1
      <4> QED
        BY <4>2, <4>3
    <3> QED
      BY <2>6, <3>2, <3>3
  <2>9. \A i \in 1..m + 1 : u[i] \in Units
    BY <2>1, NonEmpty
  \* A place of u fits to the place before it in e.
  <2>10. ASSUME NEW i \in 2..k + 1, i <= m + 1
         PROVE  Fits(e[i - 1].right, u[i])
    <3>1. i - 1 \in 1..k /\ i \in 2..Len(u) /\ i \in 1..m + 1 /\ i \in Nat
      BY <2>1, <2>5, <2>10
    <3>2. CASE ~(Refills(r) /\ i - 1 = 1)
      <4>1. e[i - 1] = u[i - 1]
        BY <2>8, <3>1, <3>2
      <4>2. Fits(u[i - 1].right, u[i])
        BY <2>1, <3>1 DEF Chain
      <4> QED
        BY <4>1, <4>2
    <3>3. CASE Refills(r) /\ i - 1 = 1
      <4>1. e[i - 1] = t /\ i = 2 /\ m > 0
        BY <2>5, <2>8, <2>10, <3>1, <3>3
      <4>2. u[2].left = "zero" /\ u[2] \in Units
        BY <1>1, <1>8, <2>1, <2>9, <3>1, <3>3, <4>1
      <4>3. t.right = "zero"
        BY <1>3, <1>5, <3>3
      <4> QED
        BY <4>1, <4>2, <4>3, FitsFacts
    <3> QED
      BY <3>2, <3>3
  <2>11. Chain(e)
    <3> SUFFICES ASSUME NEW i \in 2..k
                 PROVE  Fits(e[i - 1].right, e[i])
      BY <2>8 DEF Chain
    <3>1. i \in 2..k + 1 /\ i <= m + 1 /\ i \in 1..k /\ i # 1
      BY <2>5
    <3>2. e[i] = u[i]
      BY <2>8, <3>1
    <3> QED
      BY <2>10, <3>1, <3>2
  <2>12. r.primed => SameEntry(e[1], r.hold[1])
    <3>1. 1 \in 1..k
      BY <2>5
    <3>2. CASE Refills(r)
      BY <1>5, <2>8, <3>1, <3>2
    <3>3. CASE ~Refills(r)
      BY <1>1, <2>1, <2>8, <3>1, <3>3 DEF SameEntry
    <3> QED
      BY <3>2, <3>3
  <2>13. ~r.primed => e[1].left = "zero"
    <3> SUFFICES ASSUME ~r.primed
                 PROVE  e[1].left = "zero"
      OBVIOUS
    <3>1. 1 \in 1..k /\ ~Refills(r)
      BY <1>3, <2>5
    <3>2. e[1] = u[1]
      BY <2>8, <3>1
    <3>3. q.hold = <<Silence>>
      BY <1>1, <1>8
    <3>4. q.hold[1] = Silence
      BY <3>3
    <3> QED
      BY <2>1, <3>2, <3>4, Constants DEF SameEntry
  <2>14. ~Dry(q) => Len(e) = Chunk /\ Fits(e[Chunk].right, u[Chunk + 1])
    <3> SUFFICES ASSUME ~Dry(q)
                 PROVE  Len(e) = Chunk /\ Fits(e[Chunk].right, u[Chunk + 1])
      OBVIOUS
    <3>1. k = Chunk /\ m = Chunk
      BY <2>4 DEF k
    <3>2. Chunk + 1 \in 2..k + 1 /\ Chunk + 1 <= m + 1 /\ (Chunk + 1) - 1 = Chunk
      BY <1>6, <3>1
    <3> QED
      BY <2>8, <2>10, <3>1, <3>2
  <2>15. Dry(q) => e[Len(e)].right = "zero"
    <3> SUFFICES ASSUME Dry(q)
                 PROVE  e[Len(e)].right = "zero"
      OBVIOUS
    <3>1. Len(e) = m + 1 /\ m + 1 \in 1..k
      BY <2>5, <2>8 DEF k
    <3>2. e[m + 1] = t \/ e[m + 1] = u[m + 1]
      BY <2>8, <3>1
    <3>3. CASE Refills(r) /\ m + 1 = 1
      <4>1. e[m + 1] = t /\ r.primed
        BY <1>3, <2>8, <3>1, <3>3
      <4> QED
        BY <1>5, <3>1, <4>1
    <3>4. CASE ~(Refills(r) /\ m + 1 = 1)
      <4>1. e[m + 1] = u[m + 1]
        BY <2>8, <3>1, <3>4
      <4> QED
        BY <2>1, <3>1, <4>1
    <3> QED
      BY <3>3, <3>4
  <2>16. Len(e) >= 1 /\ Len(e) <= Chunk
    BY <1>6, <2>5, <2>8
  <2>17. goesOn <=> ~Dry(q)
    BY <1>8
  <2> QED
    BY <1>8, <2>8, <2>11, <2>12, <2>13, <2>14, <2>15, <2>16 DEF q, e, u
<1> QED
  BY <1>7, <1>8

\* The tap after the mix.
LEMMA AfterMixKeeps ==
  ASSUME NEW r, TapInv(r), NEW shed \in Nat
  PROVE  LET a == AfterMix(r, shed)
             q == Ready(r)
             goesOn == q.primed /\ ~Dry(q) IN
         /\ TapInv(a) /\ a.on = r.on
         /\ a.primed <=> goesOn
         /\ goesOn => SameEntry(a.hold[1], Unemitted(q)[Chunk + 1])
<1> DEFINE q == Ready(r)
           d == IF q.primed THEN Read(q) ELSE q
           a == AfterMix(r, shed)
           w == Unemitted(q)[Chunk + 1]
<1>1. TapInv(q) /\ q.on = r.on
  BY ReadyKeeps
<1>2. a = IF d.primed /\ shed > 0 /\ shed <= Len(d.ring) THEN Spliced(d, shed) ELSE d
  BY DEF AfterMix
<1> HIDE DEF q, a
<1>3. /\ TapInv(d) /\ d.on = r.on /\ (d.primed <=> q.primed /\ ~Dry(q))
      /\ d.primed => d.hold[1] = w
  <2>1. CASE q.primed
    <3>1. LET b == Read(q) IN
          /\ TapInv(b) /\ b.on = q.on /\ (b.primed <=> ~Dry(q))
          /\ ~Dry(q) => b.hold[1] = w
      BY <1>1, <2>1, ReadKeeps
    <3>2. d = Read(q)
      BY <2>1
    <3> HIDE DEF d, w
    <3> QED
      BY <1>1, <2>1, <3>1, <3>2
  <2>2. CASE ~q.primed
    BY <1>1, <2>2
  <2> QED
    BY <2>1, <2>2
<1> HIDE DEF d, w
<1>4. Len(d.ring) \in Nat /\ (d.primed => Len(d.hold) = 1)
  BY <1>3, TapFacts DEF TapInv, HoldInv
<1>5. CASE d.primed /\ shed > 0 /\ shed <= Len(d.ring)
  <2>1. a = Spliced(d, shed) /\ shed \in 0..Len(d.ring)
    BY <1>2, <1>4, <1>5
  <2>2. LET s == Spliced(d, shed) IN
        /\ TapInv(s) /\ s.primed = d.primed
        /\ Len(d.hold) > 0 => SameEntry(s.hold[1], d.hold[1])
        /\ s.on = d.on
    BY <1>3, <2>1, SplicedKeeps
  <2>3. /\ TapInv(a) /\ a.primed = d.primed /\ a.on = d.on
        /\ Len(d.hold) > 0 => SameEntry(a.hold[1], d.hold[1])
    BY <2>1, <2>2
  <2> QED
    BY <1>3, <1>4, <1>5, <2>3 DEF a, q, w
<1>6. CASE ~(d.primed /\ shed > 0 /\ shed <= Len(d.ring))
  <2>1. a = d
    BY <1>2, <1>6
  <2> QED
    BY <1>3, <2>1 DEF a, q, w, SameEntry
<1> QED
  BY <1>5, <1>6

-----------------------------------------------------------------------------
(***************************************************************************)
(* What is heard.                                                          *)
(***************************************************************************)

\* Units that may be heard as one chunk.
Sounding(units) ==
  /\ units \in Seq(Units) /\ Len(units) <= Chunk /\ Chain(units)
  /\ Len(units) >= 1 /\ Len(units) < Chunk => units[Len(units)].right = "zero"

LEMMA HeardFacts ==
  ASSUME NEW units, Sounding(units)
  PROVE  LET h == Heard(units) IN
         /\ h \in Seq(Units) /\ Len(h) = Chunk /\ Chain(h)
         /\ Last(h).right = IF Len(units) = Chunk THEN units[Chunk].right ELSE "zero"
         /\ resume = "ramped" \/ Len(units) = 0 => h[1].left = "zero"
         /\ resume # "ramped" /\ Len(units) >= 1 => h[1] = units[1]
<1> DEFINE n == Len(units)
           s == [i \in 1..Chunk - n |-> Silence]
           p == units \o s
           h == Heard(units)
<1>1. /\ units \in Seq(Units) /\ n \in Nat /\ n <= Chunk /\ Chain(units)
      /\ n >= 1 /\ n < Chunk => units[n].right = "zero"
      /\ \A i \in 1..n : units[i] \in Units
  BY NonEmpty DEF Sounding
<1>2. Chunk \in Nat /\ Chunk >= 1
  BY Sizes
<1>3. Silence \in Units /\ Silence.left = "zero" /\ Silence.right = "zero"
  BY Constants
<1>4. h = IF resume = "ramped" THEN [p EXCEPT ![1] = Risen(p[1])] ELSE p
  BY DEF Heard
<1>5. s \in Seq(Units) /\ Len(s) = Chunk - n /\ \A i \in 1..Chunk - n : s[i] = Silence
  <2>1. Chunk - n \in Nat
    BY <1>1, <1>2
  <2> HIDE DEF n
  <2> QED
    BY <1>3, <2>1
<1> HIDE DEF n, s, h
<1>6. /\ p \in Seq(Units) /\ Len(p) = Chunk
      /\ \A i \in 1..Chunk : p[i] = IF i <= n THEN units[i] ELSE Silence
  <2>1. /\ p \in Seq(Units) /\ Len(p) = Len(units) + Len(s)
        /\ \A i \in 1..Len(units) + Len(s) :
             p[i] = IF i <= Len(units) THEN units[i] ELSE s[i - Len(units)]
    BY <1>1, <1>5, ConcatProperties
  <2> HIDE DEF p
  <2>2. Len(units) = n /\ n + Len(s) = Chunk
    BY <1>1, <1>2, <1>5 DEF n
  <2>3. ASSUME NEW i \in 1..Chunk, ~(i <= n)
        PROVE  s[i - n] = Silence
    <3>1. i - n \in 1..Chunk - n
      BY <1>1, <1>2, <2>3
    <3> QED
      BY <1>5, <3>1
  <2> QED
    BY <2>1, <2>2, <2>3
<1> HIDE DEF p
<1>7. \A i \in 1..Chunk : p[i] \in Units
  BY <1>6, NonEmpty
<1>8. Chain(p)
  <2> SUFFICES ASSUME NEW i \in 2..Chunk
               PROVE  Fits(p[i - 1].right, p[i])
    BY <1>6 DEF Chain
  <2>1. i \in 1..Chunk /\ i - 1 \in 1..Chunk /\ i \in Nat /\ i >= 2
    BY <1>2
  <2>2. CASE i <= n
    <3>1. i - 1 <= n /\ i \in 2..n
      BY <1>1, <2>1, <2>2
    <3>2. p[i] = units[i] /\ p[i - 1] = units[i - 1]
      BY <1>6, <2>1, <2>2, <3>1
    <3> QED
      BY <1>1, <3>1, <3>2 DEF Chain, n
  <2>3. CASE ~(i <= n)
    <3>1. p[i] = Silence
      BY <1>6, <2>1, <2>3
    <3>2. p[i - 1].right = "zero"
      <4>1. CASE i - 1 <= n
        <5>1. i - 1 = n /\ n >= 1 /\ n < Chunk
          BY <1>1, <1>2, <2>1, <2>3, <4>1
        <5> QED
          BY <1>1, <1>6, <2>1, <5>1
      <4>2. CASE ~(i - 1 <= n)
        BY <1>3, <1>6, <2>1, <4>2
      <4> QED
        BY <4>1, <4>2
    <3> QED
      BY <1>3, <3>1, <3>2, FitsFacts
  <2> QED
    BY <2>2, <2>3
<1>9. /\ h \in Seq(Units) /\ Len(h) = Chunk
      /\ \A i \in 2..Chunk : h[i] = p[i]
      /\ h[1] = IF resume = "ramped" THEN Risen(p[1]) ELSE p[1]
  <2>1. CASE resume = "ramped"
    <3>1. 1 \in 1..Len(p) /\ Risen(p[1]) \in Units
      <4>1. 1 \in 1..Chunk
        BY <1>2
      <4> QED
        BY <1>6, <1>7, <4>1, UnitFacts
    <3>2. h = [p EXCEPT ![1] = Risen(p[1])]
      BY <1>4, <2>1
    <3>3. /\ h \in Seq(Units) /\ Len(h) = Len(p)
          /\ \A i \in 1..Len(p) : h[i] = IF i = 1 THEN Risen(p[1]) ELSE p[i]
      BY <1>6, <3>1, <3>2, ExceptSeq
    <3> QED
      BY <1>2, <1>6, <2>1, <3>1, <3>3
  <2>2. CASE resume # "ramped"
    BY <1>4, <1>6, <2>2
  <2> QED
    BY <2>1, <2>2
<1>10. 1 \in 1..Chunk /\ Chunk \in 1..Chunk
  BY <1>2
<1>11. /\ Risen(p[1]).right = p[1].right /\ Risen(p[1]).left = "zero"
  BY <1>7, <1>10, UnitFacts
<1>12. \A i \in 1..Chunk : h[i].right = p[i].right
  <2> TAKE i \in 1..Chunk
  <2>1. CASE i = 1
    BY <1>9, <1>11, <2>1
  <2>2. CASE i # 1
    BY <1>2, <1>9, <2>2
  <2> QED
    BY <2>1, <2>2
<1>13. Chain(h)
  <2> SUFFICES ASSUME NEW i \in 2..Chunk
               PROVE  Fits(h[i - 1].right, h[i])
    BY <1>9 DEF Chain
  <2>1. i - 1 \in 1..Chunk /\ i \in 2..Len(p)
    BY <1>2, <1>6
  <2> QED
    BY <1>8, <1>9, <1>12, <2>1 DEF Chain
<1>14. Last(h).right = IF n = Chunk THEN units[Chunk].right ELSE "zero"
  <2>1. Last(h) = h[Chunk]
    BY <1>9 DEF Last
  <2>2. h[Chunk].right = p[Chunk].right
    BY <1>10, <1>12
  <2>3. p[Chunk] = IF n = Chunk THEN units[Chunk] ELSE Silence
    BY <1>1, <1>2, <1>6, <1>10
  <2> QED
    BY <1>3, <2>1, <2>2, <2>3
<1>15. resume = "ramped" \/ n = 0 => h[1].left = "zero"
  <2>1. n = 0 => p[1] = Silence
    BY <1>6, <1>10
  <2> QED
    BY <1>3, <1>9, <1>11, <2>1
<1>16. resume # "ramped" /\ n >= 1 => h[1] = units[1]
  BY <1>1, <1>6, <1>9, <1>10
<1> QED
  BY <1>9, <1>13, <1>14, <1>15, <1>16 DEF h, n

\* A chain that fits to the edge before it has no step that is not excused.
LEMMA NoUnfadedStep ==
  ASSUME NEW edge, NEW h \in Seq(Units), Chain(h),
         Len(h) >= 1 => Fits(edge, h[1]) \/ resume \in {"reopened", "starved"}
  PROVE  "unfaded" \notin Steps(edge, h)
<1>1. Len(h) \in Nat
  BY NonEmpty
<1> SUFFICES ASSUME NEW i \in {j \in 1..Len(h) : ~Smooth(EdgeBefore(edge, h, j), h[j])},
                    Reason(h[i], i) = "unfaded"
             PROVE  FALSE
  BY DEF Steps
<1>2. i \in 1..Len(h) /\ ~Smooth(EdgeBefore(edge, h, i), h[i])
  OBVIOUS
<1>3. ~h[i].lost /\ ~(i = 1 /\ resume \in {"reopened", "starved"})
  BY DEF Reason
<1>4. CASE i = 1
  <2>1. Fits(edge, h[1])
    BY <1>1, <1>2, <1>3, <1>4
  <2> QED
    BY <1>2, <1>3, <1>4, <2>1 DEF Fits, EdgeBefore
<1>5. CASE i # 1
  <2>1. i \in 2..Len(h)
    BY <1>1, <1>2, <1>5
  <2>2. Fits(h[i - 1].right, h[i])
    BY <2>1 DEF Chain
  <2> QED
    BY <1>2, <1>3, <1>5, <2>2 DEF Fits, EdgeBefore
<1> QED
  BY <1>4, <1>5

\* So a tap is heard without one, attached or detached.
LEMMA TapIsHeardSmooth ==
  ASSUME NEW held \in Seq(Units), NEW edge \in Edges, EdgeInv(held, edge),
         device \in {"warm", "up"}, resume \in {"steady", "reopened", "starved", "ramped"},
         NEW units, Sounding(units),
         held # <<>> => Len(units) >= 1 /\ SameEntry(units[1], held[1]),
         held = <<>> /\ Len(units) >= 1 => units[1].left = "zero"
  PROVE  "unfaded" \notin Steps(edge, Heard(units))
<1> DEFINE h == Heard(units)
<1>1. /\ h \in Seq(Units) /\ Len(h) = Chunk /\ Chain(h)
      /\ resume = "ramped" \/ Len(units) = 0 => h[1].left = "zero"
      /\ resume # "ramped" /\ Len(units) >= 1 => h[1] = units[1]
  BY HeardFacts
<1>2. Len(h) >= 1 /\ h[1] \in Units /\ Len(units) \in Nat
  BY <1>1, Sizes, NonEmpty DEF Sounding
<1> HIDE DEF h
<1>3. CASE resume \in {"reopened", "starved"}
  BY <1>1, <1>3, NoUnfadedStep DEF h
<1>4. CASE resume = "ramped" \/ held = <<>>
  <2>1. edge = "zero"
    BY <1>4 DEF EdgeInv
  <2>2. h[1].left = "zero"
    BY <1>1, <1>2, <1>4
  <2>3. Fits(edge, h[1])
    BY <1>2, <2>1, <2>2, FitsFacts
  <2> QED
    BY <1>1, <2>3, NoUnfadedStep DEF h
<1>5. CASE resume = "steady" /\ held # <<>>
  <2>1. Fits(edge, held[1])
    BY <1>5 DEF EdgeInv
  <2>2. SameEntry(h[1], held[1])
    BY <1>1, <1>5
  <2>3. held[1] \in Units
    BY <1>5, NonEmpty, EmptySeq
  <2>4. Fits(edge, h[1])
    BY <1>2, <2>1, <2>2, <2>3, FitsFacts
  <2> QED
    BY <1>1, <2>4, NoUnfadedStep DEF h
<1> QED
  BY <1>3, <1>4, <1>5

LEMMA DrainedFacts ==
  ASSUME NEW d, d.hold \in Seq(Units), Len(d.hold) <= 1
  PROVE  /\ Sounding(Drained(d))
         /\ d.hold # <<>> => Len(Drained(d)) >= 1 /\ SameEntry(Drained(d)[1], d.hold[1])
         /\ d.hold = <<>> => Len(Drained(d)) = 0
<1>1. Chunk \in Nat /\ Chunk >= 1
  BY Sizes
<1>2. CASE d.hold = <<>>
  <2>1. Drained(d) = <<>> /\ <<>> \in Seq(Units) /\ Len(<<>>) = 0
    BY <1>2, EmptySeq DEF Drained
  <2> QED
    BY <1>1, <1>2, <2>1 DEF Sounding, Chain
<1>3. CASE d.hold # <<>>
  <2> DEFINE t == Tapered(d.hold[1])
  <2>1. d.hold[1] \in Units
    BY <1>3, NonEmpty
  <2>2. t \in Units /\ t.right = "zero" /\ SameEntry(t, d.hold[1])
    BY <2>1, UnitFacts
  <2>3. Drained(d) = <<t>>
    BY <1>3 DEF Drained
  <2> HIDE DEF t
  <2>4. <<t>> \in Seq(Units) /\ Len(<<t>>) = 1 /\ <<t>>[1] = t
    BY <2>2, OnePlace
  <2> QED
    BY <1>1, <1>3, <2>2, <2>3, <2>4 DEF Sounding, Chain
<1> QED
  BY <1>2, <1>3

-----------------------------------------------------------------------------
(***************************************************************************)
(* The steps.                                                              *)
(***************************************************************************)

LEMMA SpliceFacts ==
  ASSUME SpliceInv
  PROVE  /\ TapInv(tap) /\ tap.hold \in Seq(Units) /\ tap.edge \in Edges
         /\ EdgeInv(tap.hold, tap.edge)
         /\ draining \in Seq([hold : Seq(Units), edge : Edges])
         /\ DOMAIN draining = 1..Len(draining)
         /\ \A i \in DOMAIN draining :
              /\ draining[i].hold \in Seq(Units) /\ draining[i].edge \in Edges
              /\ Len(draining[i].hold) <= 1
              /\ EdgeInv(draining[i].hold, draining[i].edge)
<1>1. tap \in TapType /\ draining \in Seq([hold : Seq(Units), edge : Edges])
  BY DEF SpliceInv, SpliceTypeOK
<1>2. DOMAIN draining = 1..Len(draining)
      /\ \A i \in 1..Len(draining) : draining[i] \in [hold : Seq(Units), edge : Edges]
  BY <1>1, NonEmpty
<1> QED
  BY <1>1, <1>2, TapFacts DEF SpliceInv, TapInv

\* A fresh tap.
LEMMA FreshTap ==
  ASSUME NEW d \in Nat, NEW b \in BOOLEAN
  PROVE  LET q == [NoTap EXCEPT !.on = b, !.want = d, !.delay = d] IN
         TapInv(q) /\ q.hold = <<>> /\ q.edge = "zero" /\ q.on = b
<1> DEFINE q == [NoTap EXCEPT !.on = b, !.want = d, !.delay = d]
<1>1. <<>> \in Seq(Units) /\ <<>> \in Seq(Unread) /\ Len(<<>>) = 0
  BY EmptySeq
<1>2. /\ q \in TapType /\ q.hold = <<>> /\ q.edge = "zero" /\ q.on = b /\ q.ring = <<>>
      /\ q.joint = None /\ q.primed = FALSE
  BY <1>1 DEF NoTap, TapType, Edges
<1> HIDE DEF q
<1>3. SeamInv(q) /\ MarkInv(q) /\ HoldInv(q)
  BY <1>1, <1>2 DEF SeamInv, MarkInv, HoldInv, None
<1> QED
  BY <1>2, <1>3 DEF TapInv, q

LEMMA NoTapFacts ==
  /\ TapInv(NoTap) /\ NoTap.hold = <<>> /\ NoTap.edge = "zero" /\ ~NoTap.on
  /\ NoTap.push = "idle"
<1>1. <<>> \in Seq(Units) /\ <<>> \in Seq(Unread) /\ Len(<<>>) = 0
  BY EmptySeq
<1>2. /\ NoTap \in TapType /\ NoTap.hold = <<>> /\ NoTap.edge = "zero"
      /\ NoTap.on = FALSE /\ NoTap.ring = <<>> /\ NoTap.push = "idle"
      /\ NoTap.joint = None /\ NoTap.primed = FALSE
  BY <1>1 DEF NoTap, TapType, Edges
<1>3. SeamInv(NoTap) /\ MarkInv(NoTap) /\ HoldInv(NoTap)
  BY <1>1, <1>2 DEF SeamInv, MarkInv, HoldInv, None
<1> QED
  BY <1>2, <1>3 DEF TapInv

\* A step of the tap alone that keeps what it holds back and what was heard of it,
\* but for the end of the unit held.
LEMMA TapMoves ==
  ASSUME SpliceInv, TapInv(tap'), tap'.on, tap'.edge = tap.edge,
         engine # "stopping",
         Len(tap'.hold) = Len(tap.hold),
         Len(tap.hold) > 0 => SameEntry(tap'.hold[1], tap.hold[1]),
         UNCHANGED <<draining, device, resume, engine>>,
         clicks' = clicks \/ clicks' = {}
  PROVE  SpliceInv'
<1>1. tap \in TapType /\ tap' \in TapType /\ EdgeInv(tap.hold, tap.edge)
  BY DEF SpliceInv, SpliceTypeOK, TapInv
<1>2. /\ tap.hold = <<>> <=> Len(tap.hold) = 0
      /\ tap'.hold = <<>> <=> Len(tap'.hold) = 0
      /\ Len(tap.hold) \in Nat /\ tap.edge \in Edges
      /\ \A i \in 1..Len(tap.hold) : tap.hold[i] \in Units
      /\ \A i \in 1..Len(tap'.hold) : tap'.hold[i] \in Units
  BY <1>1, TapFacts
<1>3. EdgeInv(tap.hold, tap.edge)'
  <2>1. tap'.hold = <<>> <=> tap.hold = <<>>
    BY <1>2
  <2>2. ASSUME device \in {"warm", "up"}, resume = "steady", tap.hold # <<>>
        PROVE  Fits(tap.edge, tap'.hold[1])
    <3>1. Fits(tap.edge, tap.hold[1])
      BY <1>1, <2>2 DEF EdgeInv
    <3>2. 1 \in 1..Len(tap.hold) /\ 1 \in 1..Len(tap'.hold) /\ Len(tap.hold) > 0
      BY <1>2, <2>2
    <3> QED
      BY <1>2, <3>1, <3>2, FitsFacts
  <2> QED
    BY <1>1, <2>1, <2>2 DEF EdgeInv
<1>4. \A i \in DOMAIN draining' :
        Len(draining'[i].hold) <= 1 /\ EdgeInv(draining[i].hold, draining[i].edge)'
  BY DEF SpliceInv, EdgeInv
<1>5. OnlyLostSeamsStep'
  BY DEF SpliceInv, OnlyLostSeamsStep
<1>6. SpliceTypeOK'
  BY <1>1 DEF SpliceInv, SpliceTypeOK
<1> QED
  BY <1>3, <1>4, <1>5, <1>6 DEF SpliceInv, TapInv

LEMMA PushMoves ==
  ASSUME SpliceInv,
         \/ \E jump \in BOOLEAN : CallbackBegin(jump)
         \/ \E n \in Blocks : PushWrite(n)
         \/ PushDropped
  PROVE  SpliceInv'
<1>1. TapInv(tap) /\ tap \in TapType /\ (~tap.on => tap = NoTap)
  BY SpliceFacts DEF SpliceInv, TapInv
<1>2. ASSUME NEW r, TapInv(r), NEW p \in {"idle", "writing", "dropping"}
      PROVE  LET q == [r EXCEPT !.push = p] IN
             TapInv(q) /\ q.hold = r.hold /\ q.edge = r.edge /\ q.on = r.on
  <2> DEFINE q == [r EXCEPT !.push = p]
  <2>1. /\ q \in TapType /\ q.hold = r.hold /\ q.fadeIn = r.fadeIn /\ q.ring = r.ring
        /\ q.joint = r.joint /\ q.rise = r.rise /\ q.gap = r.gap /\ q.late = r.late
        /\ q.primed = r.primed /\ q.edge = r.edge /\ q.on = r.on
    BY <1>2 DEF TapInv, TapType
  <2> HIDE DEF q
  <2>2. First(q) = First(r)
    BY <2>1 DEF First
  <2>3. SeamInv(q) /\ MarkInv(q) /\ HoldInv(q)
    BY <1>2, <2>1, <2>2 DEF SeamInv, MarkInv, HoldInv, TapInv
  <2> QED
    BY <2>1, <2>3 DEF TapInv, q
<1>3. /\ TapInv(tap') /\ tap'.hold = tap.hold /\ tap'.edge = tap.edge /\ tap'.on = tap.on
      /\ UNCHANGED <<draining, device, resume, engine, clicks>>
      /\ tap.on
  <2>1. CASE \E jump \in BOOLEAN : CallbackBegin(jump)
    <3>1. PICK jump \in BOOLEAN : CallbackBegin(jump)
      BY <2>1
    <3> DEFINE r == IF jump THEN Marked(tap) ELSE tap
    <3>2. TapInv(r) /\ r.hold = tap.hold /\ r.edge = tap.edge /\ r.on = tap.on
      BY <1>1, MarkedKeeps
    <3>3. tap' = [r EXCEPT !.push = "writing"]
      BY <3>1 DEF CallbackBegin
    <3>4. tap.on /\ UNCHANGED <<draining, device, resume, engine, clicks>>
      BY <3>1 DEF CallbackBegin
    <3> HIDE DEF r
    <3>5. LET q == [r EXCEPT !.push = "writing"] IN
          TapInv(q) /\ q.hold = r.hold /\ q.edge = r.edge /\ q.on = r.on
      BY <1>2, <3>2
    <3> QED
      BY <3>2, <3>3, <3>4, <3>5
  <2>2. CASE \E n \in Blocks : PushWrite(n)
    <3>1. PICK n \in Blocks : PushWrite(n)
      BY <2>2
    <3>2. tap.on
      <4>1. tap.push = "writing"
        BY <3>1 DEF PushWrite
      <4> QED
        BY <1>1, <4>1, NoTapFacts
    <3>3. UNCHANGED <<draining, device, resume, engine, clicks>>
      BY <3>1 DEF PushWrite
    <3>4. CASE Len(tap.ring) + n <= RingUnits
      <4> DEFINE w == [tap EXCEPT !.ring = Pushed(tap, n), !.rise = FALSE, !.gap = FALSE,
                                  !.late = FALSE, !.push = "idle"]
      <4>1. tap' = w
        BY <1>1, <3>1, <3>4 DEF PushWrite, Pushed, TapType
      <4>2. TapInv(w) /\ w.hold = tap.hold /\ w.edge = tap.edge /\ w.on = tap.on
        BY <1>1, Sizes, PushKeeps
      <4> HIDE DEF w
      <4> QED
        BY <3>2, <3>3, <4>1, <4>2
    <3>5. CASE ~(Len(tap.ring) + n <= RingUnits)
      <4>1. tap' = [tap EXCEPT !.push = "dropping"]
        BY <3>1, <3>5 DEF PushWrite
      <4>2. LET q == [tap EXCEPT !.push = "dropping"] IN
            TapInv(q) /\ q.hold = tap.hold /\ q.edge = tap.edge /\ q.on = tap.on
        BY <1>1, <1>2
      <4> QED
        BY <3>2, <3>3, <4>1, <4>2
    <3> QED
      BY <3>4, <3>5
  <2>3. CASE PushDropped
    <3> DEFINE r == Marked(tap)
    <3>1. tap.on
      <4>1. tap.push = "dropping"
        BY <2>3 DEF PushDropped
      <4> QED
        BY <1>1, <4>1, NoTapFacts
    <3>2. TapInv(r) /\ r.hold = tap.hold /\ r.edge = tap.edge /\ r.on = tap.on
      BY <1>1, MarkedKeeps
    <3>3. tap' = [r EXCEPT !.push = "idle"]
          /\ UNCHANGED <<draining, device, resume, engine, clicks>>
      BY <2>3 DEF PushDropped
    <3> HIDE DEF r
    <3>4. LET q == [r EXCEPT !.push = "idle"] IN
          TapInv(q) /\ q.hold = r.hold /\ q.edge = r.edge /\ q.on = r.on
      BY <1>2, <3>2
    <3> QED
      BY <3>1, <3>2, <3>3, <3>4
  <2> QED
    BY <2>1, <2>2, <2>3
<1>4. engine # "stopping"
  BY <1>3, NoTapFacts DEF SpliceInv
<1> QED
  BY <1>3, <1>4, TapMoves DEF SameEntry

LEMMA AttachMoves ==
  ASSUME SpliceInv, NEW delay \in Delays, AttachSource(delay)
  PROVE  SpliceInv'
<1> DEFINE q == [NoTap EXCEPT !.on = TRUE, !.want = delay, !.delay = delay]
<1>1. TapInv(q) /\ q.hold = <<>> /\ q.edge = "zero" /\ q.on
  BY Sizes, FreshTap
<1>2. /\ tap' = q /\ ~tap.on /\ engine # "stopping"
      /\ UNCHANGED <<draining, device, resume, engine, clicks>>
  BY DEF AttachSource
<1> HIDE DEF q
<1>3. tap = NoTap
  BY <1>2 DEF SpliceInv
<1>4. tap'.hold = tap.hold /\ tap'.edge = tap.edge /\ Len(<<>>) = 0 /\ tap.hold = <<>>
  BY <1>1, <1>2, <1>3, NoTapFacts
<1> QED
  BY <1>1, <1>2, <1>4, TapMoves DEF SameEntry

LEMMA OffsetMoves ==
  ASSUME SpliceInv, NEW delay \in Delays, SetSourceSyncOffset(delay)
  PROVE  SpliceInv'
<1> DEFINE q == [tap EXCEPT !.want = delay]
<1>1. TapInv(tap) /\ tap \in TapType
  BY SpliceFacts DEF TapInv
<1>2. /\ tap' = q /\ tap.on /\ engine # "stopping"
      /\ UNCHANGED <<draining, device, resume, engine, clicks>>
  BY DEF SetSourceSyncOffset
<1>3. /\ q \in TapType /\ q.hold = tap.hold /\ q.fadeIn = tap.fadeIn /\ q.ring = tap.ring
      /\ q.joint = tap.joint /\ q.rise = tap.rise /\ q.gap = tap.gap /\ q.late = tap.late
      /\ q.primed = tap.primed /\ q.edge = tap.edge /\ q.on = tap.on
  BY <1>1, Sizes DEF TapType
<1> HIDE DEF q
<1>4. First(q) = First(tap)
  BY <1>3 DEF First
<1>5. TapInv(q)
  BY <1>1, <1>3, <1>4 DEF SeamInv, MarkInv, HoldInv, TapInv
<1> QED
  BY <1>2, <1>3, <1>5, TapMoves DEF SameEntry

LEMMA ShedMoves ==
  ASSUME SpliceInv, NEW n \in Amounts, ServoShed(n)
  PROVE  SpliceInv'
<1>1. /\ tap.on /\ n <= Len(tap.ring) /\ tap' = Spliced(tap, n) /\ clicks' = {}
      /\ UNCHANGED <<draining, device, resume, engine>>
  BY DEF ServoShed
<1>2. TapInv(tap) /\ Len(tap.ring) \in Nat
  BY SpliceFacts, TapFacts DEF TapInv
<1>3. n \in 0..Len(tap.ring)
  BY <1>1, <1>2, Sizes DEF Amounts
<1>4. LET s == Spliced(tap, n) IN
      /\ TapInv(s) /\ Len(s.hold) = Len(tap.hold)
      /\ Len(tap.hold) > 0 => SameEntry(s.hold[1], tap.hold[1])
      /\ s.edge = tap.edge /\ s.on = tap.on
  BY <1>2, <1>3, SplicedKeeps
<1>5. engine # "stopping"
  BY <1>1, NoTapFacts DEF SpliceInv
<1> QED
  BY <1>1, <1>4, <1>5, TapMoves

\* A tap with another edge is as good a tap.
LEMMA EdgeSet ==
  ASSUME NEW r, TapInv(r), NEW x \in Edges
  PROVE  LET q == [r EXCEPT !.edge = x] IN
         /\ TapInv(q) /\ q.edge = x /\ q.hold = r.hold /\ q.on = r.on
         /\ r.edge = x => q = r
<1> DEFINE q == [r EXCEPT !.edge = x]
<1>1. r \in TapType /\ SeamInv(r) /\ MarkInv(r) /\ HoldInv(r)
  BY DEF TapInv
<1>2. /\ q \in TapType /\ q.hold = r.hold /\ q.fadeIn = r.fadeIn /\ q.ring = r.ring
      /\ q.joint = r.joint /\ q.rise = r.rise /\ q.gap = r.gap /\ q.late = r.late
      /\ q.primed = r.primed /\ q.edge = x /\ q.on = r.on
  BY <1>1 DEF TapType
<1>3. r.edge = x => q = r
  BY <1>1 DEF TapType
<1> HIDE DEF q
<1>4. First(q) = First(r)
  BY <1>2 DEF First
<1>5. SeamInv(q) /\ MarkInv(q) /\ HoldInv(q)
  BY <1>1, <1>2, <1>4 DEF SeamInv, MarkInv, HoldInv
<1> QED
  BY <1>2, <1>3, <1>5 DEF TapInv, q

\* A detach leaves what was held, and heard, with the draining tap.
LEMMA DetachedKeeps ==
  ASSUME SpliceInv, Detached, UNCHANGED <<device, resume>>
  PROVE  /\ tap' = NoTap
         /\ draining' \in Seq([hold : Seq(Units), edge : Edges])
         /\ \A i \in DOMAIN draining' :
              Len(draining'[i].hold) <= 1 /\ EdgeInv(draining[i].hold, draining[i].edge)'
<1>1. /\ TapInv(tap) /\ tap.hold \in Seq(Units) /\ tap.edge \in Edges
      /\ EdgeInv(tap.hold, tap.edge)
      /\ draining \in Seq([hold : Seq(Units), edge : Edges])
      /\ DOMAIN draining = 1..Len(draining)
      /\ \A i \in DOMAIN draining :
           Len(draining[i].hold) <= 1 /\ EdgeInv(draining[i].hold, draining[i].edge)
  BY SpliceFacts
<1>2. tap' = NoTap
  BY DEF Detached
<1>3. CASE ~tap.on
  <2>1. draining' = draining
    BY <1>3 DEF Detached
  <2> QED
    BY <1>1, <1>2, <2>1 DEF EdgeInv
<1>4. CASE tap.on
  <2> DEFINE d == [hold |-> tap.hold, edge |-> tap.edge]
             n == Len(draining)
  <2>1. draining' = Append(draining, d)
    BY <1>4 DEF Detached
  <2>2. d \in [hold : Seq(Units), edge : Edges] /\ d.hold = tap.hold /\ d.edge = tap.edge
    BY <1>1
  <2> HIDE DEF d
  <2>3. /\ draining' \in Seq([hold : Seq(Units), edge : Edges])
        /\ Len(draining') = n + 1
        /\ \A i \in 1..n : draining'[i] = draining[i]
        /\ draining'[n + 1] = d
    BY <1>1, <2>1, <2>2, AppendProperties
  <2>4. DOMAIN draining' = 1..n + 1 /\ n \in Nat
    BY <1>1, <2>3, NonEmpty
  <2>5. Len(tap.hold) <= 1
    BY <1>1 DEF TapInv, HoldInv
  <2>6. ASSUME NEW i \in DOMAIN draining'
        PROVE  Len(draining'[i].hold) <= 1 /\ EdgeInv(draining[i].hold, draining[i].edge)'
    <3>1. CASE i \in 1..n
      <4>1. draining'[i] = draining[i]
        BY <2>3, <3>1
      <4> QED
        BY <1>1, <3>1, <4>1 DEF EdgeInv
    <3>2. CASE i = n + 1
      <4>1. draining'[i].hold = tap.hold /\ draining'[i].edge = tap.edge
        BY <2>2, <2>3, <3>2
      <4> QED
        BY <1>1, <2>5, <4>1 DEF EdgeInv
    <3> QED
      BY <2>4, <3>1, <3>2
  <2> QED
    BY <1>2, <2>3, <2>6
<1> QED
  BY <1>3, <1>4

LEMMA VerbMoves ==
  ASSUME SpliceInv, DetachSource \/ Start \/ StopBegin \/ StopEnd
  PROVE  SpliceInv'
<1>1. TapInv(NoTap) /\ NoTap.hold = <<>> /\ NoTap.edge = "zero"
  BY NoTapFacts
<1>2. CASE DetachSource \/ StopBegin
  <2>1. /\ Detached /\ UNCHANGED <<device, resume, clicks>>
        /\ engine' \in {"off", "running", "stopping"}
        /\ engine' = "off" => engine = "off"
    BY <1>2 DEF DetachSource, StopBegin, SpliceInv, SpliceTypeOK
  <2>2. /\ tap' = NoTap
        /\ draining' \in Seq([hold : Seq(Units), edge : Edges])
        /\ \A i \in DOMAIN draining' :
             Len(draining'[i].hold) <= 1 /\ EdgeInv(draining[i].hold, draining[i].edge)'
    BY <2>1, DetachedKeeps
  <2>3. EdgeInv(tap.hold, tap.edge)'
    BY <1>1, <2>2 DEF EdgeInv
  <2>4. SpliceTypeOK'
    BY <1>1, <2>1, <2>2 DEF SpliceInv, SpliceTypeOK, TapInv
  <2>5. OnlyLostSeamsStep'
    BY <2>1 DEF SpliceInv, OnlyLostSeamsStep
  <2> QED
    BY <1>1, <2>1, <2>2, <2>3, <2>4, <2>5 DEF SpliceInv, TapInv
<1>3. CASE Start
  <2>1. /\ engine = "off" /\ engine' = "running"
        /\ UNCHANGED <<tap, draining, device, resume, clicks>>
    BY <1>3 DEF Start
  <2>2. EdgeInv(tap.hold, tap.edge)' /\ OnlyLostSeamsStep' /\ SpliceTypeOK'
    BY <2>1 DEF SpliceInv, SpliceTypeOK, EdgeInv, OnlyLostSeamsStep
  <2>3. \A i \in DOMAIN draining' :
          Len(draining'[i].hold) <= 1 /\ EdgeInv(draining[i].hold, draining[i].edge)'
    BY <2>1 DEF SpliceInv, EdgeInv
  <2> QED
    BY <2>1, <2>2, <2>3 DEF SpliceInv
<1>4. CASE StopEnd
  <2>1. /\ engine = "stopping" /\ engine' = "off" /\ draining' = <<>>
        /\ device' = "none" /\ resume' = "steady" /\ clicks' = {} /\ tap' = tap
    BY <1>4 DEF StopEnd
  <2>2. tap' = NoTap
    BY <2>1 DEF SpliceInv
  <2>3. EdgeInv(tap.hold, tap.edge)'
    BY <1>1, <2>1, <2>2 DEF EdgeInv
  <2>4. draining' \in Seq([hold : Seq(Units), edge : Edges]) /\ DOMAIN draining' = {}
    BY <2>1, EmptySeq, NonEmpty
  <2>5. SpliceTypeOK' /\ OnlyLostSeamsStep'
    BY <1>1, <2>1, <2>2, <2>4 DEF SpliceTypeOK, OnlyLostSeamsStep, TapInv
  <2> QED
    BY <1>1, <2>1, <2>2, <2>3, <2>4, <2>5 DEF SpliceInv, TapInv
<1> QED
  BY <1>2, <1>3, <1>4

\* A mix: what is heard has no unexcused step, and the unit held next fits to it.
LEMMA MixedTap ==
  ASSUME SpliceInv, tap.on, device \in {"warm", "up"}, NEW shed \in Nat
  PROVE  LET a == AfterMix(tap, shed)
             x == Last(Heard(Emitted(tap))).right IN
         /\ TapInv(a) /\ x \in Edges /\ a.on = tap.on
         /\ Len(a.hold) > 0 => Fits(x, a.hold[1])
         /\ Len(a.hold) = 0 => x = "zero"
         /\ "unfaded" \notin Steps(tap.edge, Heard(Emitted(tap)))
<1> DEFINE a == AfterMix(tap, shed)
           e == Emitted(tap)
           q == Ready(tap)
           goesOn == q.primed /\ ~Dry(q)
           w == Unemitted(q)[Chunk + 1]
           x == Last(Heard(e)).right
<1>1. /\ TapInv(tap) /\ tap \in TapType /\ tap.hold \in Seq(Units) /\ tap.edge \in Edges
      /\ EdgeInv(tap.hold, tap.edge)
      /\ resume \in {"steady", "reopened", "starved", "ramped"}
  BY SpliceFacts DEF SpliceInv, SpliceTypeOK
<1>2. /\ e \in Seq(Units) /\ Len(e) <= Chunk /\ Chain(e)
      /\ tap.primed => Len(e) >= 1 /\ SameEntry(e[1], tap.hold[1])
      /\ ~tap.primed /\ Len(e) >= 1 => e[1].left = "zero"
      /\ goesOn => Len(e) = Chunk /\ Fits(e[Chunk].right, w)
      /\ ~goesOn /\ Len(e) >= 1 => e[Len(e)].right = "zero"
  BY <1>1, EmittedFacts
<1>3. /\ TapInv(a) /\ a.on = tap.on /\ (a.primed <=> goesOn)
      /\ goesOn => SameEntry(a.hold[1], w)
  BY <1>1, AfterMixKeeps
<1> HIDE DEF a, e, goesOn, w
<1>4. Chunk \in Nat /\ Chunk >= 1 /\ Len(e) \in Nat
  BY <1>2, Sizes, NonEmpty
<1>5. Sounding(e)
  BY <1>2, <1>4 DEF Sounding
<1>6. /\ Heard(e) \in Seq(Units) /\ Len(Heard(e)) = Chunk
      /\ x = IF Len(e) = Chunk THEN e[Chunk].right ELSE "zero"
  BY <1>5, HeardFacts
<1>7. x \in Edges
  <2>1. Len(e) = Chunk => e[Chunk] \in Units
    BY <1>2, <1>4, NonEmpty
  <2> QED
    BY <1>6, <2>1 DEF Units, Edges
<1> HIDE DEF x
<1>8. /\ a.primed \in BOOLEAN /\ Len(a.hold) = (IF a.primed THEN 1 ELSE 0)
      /\ tap.primed \in BOOLEAN /\ Len(tap.hold) = (IF tap.primed THEN 1 ELSE 0)
  BY <1>1, <1>3, TapFacts DEF TapInv, HoldInv
<1>9. ASSUME Len(a.hold) > 0
      PROVE  Fits(x, a.hold[1])
  <2>1. goesOn
    BY <1>3, <1>8, <1>9
  <2>2. Fits(x, w) /\ SameEntry(a.hold[1], w)
    BY <1>2, <1>3, <1>6, <2>1
  <2> QED
    BY <2>2 DEF Fits, Smooth, SameEntry
<1>10. ASSUME Len(a.hold) = 0
       PROVE  x = "zero"
  <2>1. ~goesOn
    BY <1>3, <1>8, <1>10
  <2> QED
    BY <1>2, <1>4, <1>6, <2>1
<1>11. "unfaded" \notin Steps(tap.edge, Heard(e))
  <2>1. tap.hold # <<>> <=> tap.primed
    BY <1>1, <1>8, TapFacts
  <2> QED
    BY <1>1, <1>2, <1>5, <2>1, TapIsHeardSmooth
<1> QED
  BY <1>3, <1>7, <1>9, <1>10, <1>11 DEF a, x, e

LEMMA MixMoves ==
  ASSUME SpliceInv, NEW shed \in Amounts, MixChunk(shed)
  PROVE  SpliceInv'
<1> DEFINE a == AfterMix(tap, shed)
           x == Last(Heard(Emitted(tap))).right
           mine == IF tap.on THEN Steps(tap.edge, Heard(Emitted(tap))) ELSE {}
           theirs(i) == Steps(draining[i].edge, Heard(Drained(draining[i])))
<1>1. /\ engine # "off" /\ device \in {"warm", "up"}
      /\ tap' = IF tap.on THEN [a EXCEPT !.edge = x] ELSE tap
      /\ draining' = <<>> /\ resume' = "steady" /\ UNCHANGED <<device, engine>>
      /\ clicks' = mine \cup UNION {theirs(i) : i \in DOMAIN draining}
  BY DEF MixChunk
<1>2. shed \in Nat
  BY Sizes DEF Amounts
<1>3. "unfaded" \notin mine
  BY <1>1, <1>2, MixedTap
<1>4. ASSUME NEW i \in DOMAIN draining
      PROVE  "unfaded" \notin theirs(i)
  <2> DEFINE d == draining[i]
             u == Drained(d)
  <2>1. /\ d.hold \in Seq(Units) /\ d.edge \in Edges /\ Len(d.hold) <= 1
        /\ EdgeInv(d.hold, d.edge)
        /\ resume \in {"steady", "reopened", "starved", "ramped"}
    BY SpliceFacts DEF SpliceInv, SpliceTypeOK
  <2> HIDE DEF d
  <2>2. /\ Sounding(u)
        /\ d.hold # <<>> => Len(u) >= 1 /\ SameEntry(u[1], d.hold[1])
        /\ d.hold = <<>> => Len(u) = 0
    BY <2>1, DrainedFacts
  <2> HIDE DEF u
  <2>3. "unfaded" \notin Steps(d.edge, Heard(u))
    BY <1>1, <2>1, <2>2, TapIsHeardSmooth
  <2> QED
    BY <2>3 DEF d, u
<1> HIDE DEF mine, theirs
<1>5. OnlyLostSeamsStep'
  BY <1>1, <1>3, <1>4 DEF OnlyLostSeamsStep
<1>6. /\ TapInv(tap') /\ EdgeInv(tap.hold, tap.edge)' /\ (~tap'.on => tap' = NoTap)
      /\ engine' = "stopping" => tap' = NoTap
  <2>1. CASE tap.on
    <3>1. /\ TapInv(a) /\ x \in Edges /\ a.on = tap.on
          /\ Len(a.hold) > 0 => Fits(x, a.hold[1])
          /\ Len(a.hold) = 0 => x = "zero"
      BY <1>1, <1>2, <2>1, MixedTap
    <3> HIDE DEF a, x
    <3>2. /\ tap' = [a EXCEPT !.edge = x]
          /\ TapInv(tap') /\ tap'.edge = x /\ tap'.hold = a.hold /\ tap'.on
      BY <1>1, <2>1, <3>1, EdgeSet
    <3>3. a.hold = <<>> <=> Len(a.hold) = 0
      BY <3>1, TapFacts DEF TapInv
    <3>4. Len(a.hold) \in Nat
      BY <3>1, TapFacts DEF TapInv
    <3>5. EdgeInv(tap.hold, tap.edge)'
      BY <1>1, <3>1, <3>2, <3>3, <3>4 DEF EdgeInv
    <3>6. engine # "stopping"
      BY <2>1, NoTapFacts DEF SpliceInv
    <3> QED
      BY <1>1, <3>2, <3>5, <3>6
  <2>2. CASE ~tap.on
    <3>1. tap' = NoTap
      BY <1>1, <2>2 DEF SpliceInv
    <3>2. EdgeInv(tap.hold, tap.edge)'
      BY <1>1, <3>1, NoTapFacts DEF EdgeInv
    <3> QED
      BY <3>1, <3>2, NoTapFacts
  <2> QED
    BY <2>1, <2>2
<1>7. draining' \in Seq([hold : Seq(Units), edge : Edges]) /\ DOMAIN draining' = {}
  BY <1>1, EmptySeq, NonEmpty
<1>8. SpliceTypeOK'
  BY <1>1, <1>6, <1>7 DEF SpliceInv, SpliceTypeOK, TapInv
<1> QED
  BY <1>1, <1>5, <1>6, <1>7, <1>8 DEF SpliceInv, TapInv

\* Once nothing is heard, what is held of each tap may follow whatever it likes.
LEMMA SilencedKeeps ==
  ASSUME SpliceInv, Silenced, device \in {"warm", "up"}, device' \in {"warm", "up", "down"},
         resume' # "steady" \/ device' = "down"
  PROVE  /\ TapInv(tap') /\ EdgeInv(tap.hold, tap.edge)'
         /\ tap'.on = tap.on
         /\ tap = NoTap => tap' = NoTap
         /\ draining' \in Seq([hold : Seq(Units), edge : Edges])
         /\ \A i \in DOMAIN draining' :
              Len(draining'[i].hold) <= 1 /\ EdgeInv(draining[i].hold, draining[i].edge)'
         /\ OnlyLostSeamsStep'
<1> DEFINE hushed(d) == [d EXCEPT !.edge = "zero"]
<1>1. /\ TapInv(tap)
      /\ draining \in Seq([hold : Seq(Units), edge : Edges])
      /\ DOMAIN draining = 1..Len(draining)
      /\ \A i \in DOMAIN draining : Len(draining[i].hold) <= 1
  BY SpliceFacts
<1>2. /\ tap' = [tap EXCEPT !.edge = "zero"] /\ clicks' = {}
      /\ draining' = [i \in DOMAIN draining |-> hushed(draining[i])]
  BY DEF Silenced
<1>3. /\ TapInv(tap') /\ tap'.edge = "zero" /\ tap'.on = tap.on
      /\ tap.edge = "zero" => tap' = tap
  BY <1>1, <1>2, EdgeSet DEF Edges
<1>4. EdgeInv(tap.hold, tap.edge)'
  BY <1>3 DEF EdgeInv
<1>5. ASSUME NEW d \in [hold : Seq(Units), edge : Edges]
      PROVE  /\ hushed(d) \in [hold : Seq(Units), edge : Edges]
             /\ hushed(d).hold = d.hold /\ hushed(d).edge = "zero"
  BY <1>5 DEF Edges
<1>6. Len(draining) \in Nat /\ \A i \in DOMAIN draining : draining[i] \in [hold : Seq(Units), edge : Edges]
  BY <1>1, NonEmpty
<1> HIDE DEF hushed
<1>7. draining' \in Seq([hold : Seq(Units), edge : Edges])
  BY <1>1, <1>2, <1>5, <1>6
<1>8. ASSUME NEW i \in DOMAIN draining'
      PROVE  Len(draining'[i].hold) <= 1 /\ EdgeInv(draining[i].hold, draining[i].edge)'
  <2>1. i \in DOMAIN draining /\ draining'[i] = hushed(draining[i])
    BY <1>2, <1>8
  <2>2. draining'[i].hold = draining[i].hold /\ draining'[i].edge = "zero"
    BY <1>5, <1>6, <2>1
  <2> QED
    BY <1>1, <2>1, <2>2 DEF EdgeInv
<1>9. OnlyLostSeamsStep'
  BY <1>2 DEF OnlyLostSeamsStep
<1> QED
  BY <1>3, <1>4, <1>7, <1>8, <1>9, NoTapFacts

LEMMA SilenceMoves ==
  ASSUME SpliceInv, Starve \/ DeviceLost
  PROVE  SpliceInv'
<1>1. /\ Silenced /\ device \in {"warm", "up"} /\ device' \in {"warm", "up", "down"}
      /\ engine # "off" /\ engine' = engine
      /\ resume' \in {"steady", "reopened", "starved", "ramped"}
      /\ resume' = "steady" <=> device' = "down"
  BY DEF Starve, DeviceLost, SpliceInv, SpliceTypeOK
<1>2. /\ TapInv(tap') /\ EdgeInv(tap.hold, tap.edge)'
      /\ tap'.on = tap.on
      /\ tap = NoTap => tap' = NoTap
      /\ draining' \in Seq([hold : Seq(Units), edge : Edges])
      /\ \A i \in DOMAIN draining' :
           Len(draining'[i].hold) <= 1 /\ EdgeInv(draining[i].hold, draining[i].edge)'
      /\ OnlyLostSeamsStep'
  BY <1>1, SilencedKeeps
<1>3. SpliceTypeOK'
  BY <1>1, <1>2 DEF SpliceInv, SpliceTypeOK, TapInv
<1>4. /\ ~tap'.on => tap' = NoTap
      /\ engine' = "stopping" => tap' = NoTap
      /\ engine' = "off" => device' = "none"
      /\ device' \in {"none", "down"} => resume' = "steady"
  BY <1>1, <1>2 DEF SpliceInv
<1> QED
  BY <1>2, <1>3, <1>4 DEF SpliceInv, TapInv

\* A reopened device splices every tap; the first step of its first mix is excused.
LEMMA OpenMoves ==
  ASSUME SpliceInv, NEW shed \in Amounts, OpenDevice(shed)
  PROVE  SpliceInv'
<1>1. /\ TapInv(tap) /\ EdgeInv(tap.hold, tap.edge)
      /\ draining \in Seq([hold : Seq(Units), edge : Edges])
      /\ DOMAIN draining = 1..Len(draining) /\ Len(draining) \in Nat
      /\ \A i \in DOMAIN draining :
           /\ draining[i].hold \in Seq(Units) /\ draining[i].edge \in Edges
           /\ Len(draining[i].hold) <= 1
           /\ EdgeInv(draining[i].hold, draining[i].edge)
  BY SpliceFacts, NonEmpty
<1>2. /\ engine # "off" /\ device' = "warm" /\ clicks' = {} /\ engine' = engine
      /\ device \in {"none", "down"}
  BY DEF OpenDevice
<1>3. OnlyLostSeamsStep'
  BY <1>2 DEF OnlyLostSeamsStep
<1>4. CASE device = "none"
  <2>1. UNCHANGED <<tap, draining, resume>>
    BY <1>4 DEF OpenDevice
  <2>2. EdgeInv(tap.hold, tap.edge)'
    BY <1>1, <1>2, <1>4, <2>1 DEF EdgeInv
  <2>3. \A i \in DOMAIN draining' :
          Len(draining'[i].hold) <= 1 /\ EdgeInv(draining[i].hold, draining[i].edge)'
    BY <1>1, <1>2, <1>4, <2>1 DEF EdgeInv
  <2>4. SpliceTypeOK'
    BY <1>2, <2>1 DEF SpliceInv, SpliceTypeOK
  <2> QED
    BY <1>2, <1>3, <2>1, <2>2, <2>3, <2>4 DEF SpliceInv
<1>5. CASE device = "down"
  <2> DEFINE n == Smaller(shed, Len(tap.ring))
             s == Spliced(tap, n)
             faded(d) == [d EXCEPT !.hold = TaperedTail(d.hold)]
  <2>1. /\ tap' = IF tap.on THEN s ELSE tap
        /\ draining' = [i \in DOMAIN draining |-> faded(draining[i])]
        /\ resume' = "reopened"
    BY <1>5 DEF OpenDevice
  <2>2. n \in 0..Len(tap.ring)
    BY <1>1, Sizes, TapFacts DEF Amounts, Smaller, TapInv
  <2>3. TapInv(s) /\ Len(s.hold) = Len(tap.hold) /\ s.edge = tap.edge /\ s.on = tap.on
    BY <1>1, <2>2, SplicedKeeps
  <2> HIDE DEF n, s
  <2>4. /\ TapInv(tap') /\ Len(tap'.hold) = Len(tap.hold) /\ tap'.edge = tap.edge
        /\ tap'.on = tap.on /\ (~tap'.on => tap' = tap)
    BY <1>1, <2>1, <2>3
  <2>5. tap.edge = "zero"
    BY <1>1, <1>5 DEF EdgeInv
  <2>6. EdgeInv(tap.hold, tap.edge)'
    BY <1>2, <2>1, <2>4, <2>5 DEF EdgeInv
  <2>7. ASSUME NEW d \in [hold : Seq(Units), edge : Edges]
        PROVE  /\ faded(d) \in [hold : Seq(Units), edge : Edges]
               /\ Len(faded(d).hold) = Len(d.hold) /\ faded(d).edge = d.edge
    <3>1. TaperedTail(d.hold) \in Seq(Units) /\ Len(TaperedTail(d.hold)) = Len(d.hold)
      BY <2>7, TaperedTailFacts
    <3> QED
      BY <2>7, <3>1
  <2> HIDE DEF faded
  <2>8. \A i \in DOMAIN draining : draining[i] \in [hold : Seq(Units), edge : Edges]
    BY <1>1, NonEmpty
  <2>9. draining' \in Seq([hold : Seq(Units), edge : Edges])
    BY <1>1, <2>1, <2>7, <2>8
  <2>10. ASSUME NEW i \in DOMAIN draining'
         PROVE  Len(draining'[i].hold) <= 1 /\ EdgeInv(draining[i].hold, draining[i].edge)'
    <3>1. i \in DOMAIN draining /\ draining'[i] = faded(draining[i])
      BY <2>1, <2>10
    <3>2. Len(draining'[i].hold) = Len(draining[i].hold) /\ draining'[i].edge = draining[i].edge
      BY <2>7, <2>8, <3>1
    <3>3. draining[i].edge = "zero"
      BY <1>1, <1>5, <3>1 DEF EdgeInv
    <3> QED
      BY <1>1, <1>2, <2>1, <3>1, <3>2, <3>3 DEF EdgeInv
  <2>11. SpliceTypeOK'
    BY <1>2, <2>1, <2>4, <2>9 DEF SpliceInv, SpliceTypeOK, TapInv
  <2>12. /\ ~tap'.on => tap' = NoTap
         /\ engine' = "stopping" => tap' = NoTap
    BY <1>2, <2>1, <2>4, NoTapFacts DEF SpliceInv
  <2> QED
    BY <1>2, <1>3, <2>4, <2>6, <2>10, <2>11, <2>12 DEF SpliceInv, TapInv
<1> QED
  BY <1>2, <1>4, <1>5

LEMMA WarmMoves ==
  ASSUME SpliceInv, WarmedUp
  PROVE  SpliceInv'
<1>1. /\ device = "warm" /\ device' = "up"
      /\ UNCHANGED <<tap, draining, resume, engine, clicks>>
  BY DEF WarmedUp
<1>2. EdgeInv(tap.hold, tap.edge)' /\ SpliceTypeOK' /\ OnlyLostSeamsStep'
  BY <1>1 DEF SpliceInv, EdgeInv, SpliceTypeOK, OnlyLostSeamsStep
<1>3. \A i \in DOMAIN draining' :
        Len(draining'[i].hold) <= 1 /\ EdgeInv(draining[i].hold, draining[i].edge)'
  BY <1>1 DEF SpliceInv, EdgeInv
<1> QED
  BY <1>1, <1>2, <1>3 DEF SpliceInv

LEMMA StutterMoves ==
  ASSUME SpliceInv, UNCHANGED spliceVars
  PROVE  SpliceInv'
<1>1. UNCHANGED <<tap, draining, device, resume, engine, clicks>>
  BY DEF spliceVars
<1>2. EdgeInv(tap.hold, tap.edge)' /\ SpliceTypeOK' /\ OnlyLostSeamsStep'
  BY <1>1 DEF SpliceInv, EdgeInv, SpliceTypeOK, OnlyLostSeamsStep
<1>3. \A i \in DOMAIN draining' :
        Len(draining'[i].hold) <= 1 /\ EdgeInv(draining[i].hold, draining[i].edge)'
  BY <1>1 DEF SpliceInv, EdgeInv
<1> QED
  BY <1>1, <1>2, <1>3 DEF SpliceInv

-----------------------------------------------------------------------------
(***************************************************************************)
(* The theorems.                                                           *)
(***************************************************************************)

\* The audio of a source in its ring, in its holdback and on the device stays a chain
\* of units that fit to one another, or whose seam is marked to be faded, whatever
\* the push thread, the verbs, the servo and the device do, in any order.
THEOREM SpliceInvariant == SpliceSpec => []SpliceInv
<1>1. SpliceInit => SpliceInv
  <2> SUFFICES ASSUME SpliceInit
               PROVE  SpliceInv
    OBVIOUS
  <2>1. /\ tap = NoTap /\ draining = <<>> /\ device = "none" /\ resume = "steady"
        /\ engine = "off" /\ clicks = {}
    BY DEF SpliceInit
  <2>2. draining \in Seq([hold : Seq(Units), edge : Edges]) /\ DOMAIN draining = {}
    BY <2>1, EmptySeq, NonEmpty
  <2>3. TapInv(tap) /\ tap.hold = <<>> /\ tap.edge = "zero"
    BY <2>1, NoTapFacts
  <2>4. SpliceTypeOK /\ EdgeInv(tap.hold, tap.edge) /\ OnlyLostSeamsStep
    BY <2>1, <2>2, <2>3 DEF SpliceTypeOK, TapInv, EdgeInv, OnlyLostSeamsStep
  <2> QED
    BY <2>1, <2>2, <2>3, <2>4 DEF SpliceInv, TapInv
<1>2. SpliceInv /\ [SpliceNext]_spliceVars => SpliceInv'
  <2> SUFFICES ASSUME SpliceInv, [SpliceNext]_spliceVars
               PROVE  SpliceInv'
    OBVIOUS
  <2>1. CASE \/ \E jump \in BOOLEAN : CallbackBegin(jump)
             \/ \E n \in Blocks : PushWrite(n)
             \/ PushDropped
    BY <2>1, PushMoves
  <2>2. CASE \E delay \in Delays : AttachSource(delay) \/ SetSourceSyncOffset(delay)
    BY <2>2, AttachMoves, OffsetMoves
  <2>3. CASE DetachSource \/ Start \/ StopBegin \/ StopEnd
    BY <2>3, VerbMoves
  <2>4. CASE \E n \in Amounts : MixChunk(n) \/ ServoShed(n) \/ OpenDevice(n)
    BY <2>4, MixMoves, ShedMoves, OpenMoves
  <2>5. CASE Starve \/ DeviceLost
    BY <2>5, SilenceMoves
  <2>6. CASE WarmedUp
    BY <2>6, WarmMoves
  <2>7. CASE UNCHANGED spliceVars
    BY <2>7, StutterMoves
  <2> QED
    BY <2>1, <2>2, <2>3, <2>4, <2>5, <2>6, <2>7 DEF SpliceNext
<1> QED
  BY <1>1, <1>2, PTL DEF SpliceSpec

\* No mix has a step in it but for a lost mark or a resume from silence: every other
\* splice is faded out before it and in after it.
THEOREM SplicesAreHeardFaded == SpliceSpec => []OnlyLostSeamsStep
<1>1. SpliceInv => OnlyLostSeamsStep
  BY DEF SpliceInv
<1> QED
  BY <1>1, SpliceInvariant, PTL

=============================================================================
