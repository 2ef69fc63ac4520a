--------------------------- MODULE ServoTrimProofs ---------------------------
(***************************************************************************)
(* The servo's type invariant, the latch over its orders, the way out of a *)
(* full ring and the supply of a steady one, for any sources, ring, block  *)
(* sizes and delays.                                                       *)
(***************************************************************************)
EXTENDS ServoTrim, TLAPS

ServoType == [high : Nat, armed : BOOLEAN, warm : Nat, mixes : Nat,
              executed : BOOLEAN]

LEMMA DelayBound == \A d \in Delays \cup {0} : d \in Nat /\ d + Chunk < Capacity
BY DelaysAssumption, HeadroomAssumption

\* The cushion of a tap lies inside its ring, a chunk below the top.
LEMMA PrimeBound ==
  ASSUME NEW r \in TapType
  PROVE  Prime(r) \in 0..Capacity - Chunk
<1>1. r.burst \in Nat /\ r.env \in Nat /\ r.delay \in Delays \cup {0}
  BY DEF TapType
<1>3. r.delay \in Nat
  BY <1>1, DelayBound
<1>2. r.delay + Chunk < Capacity
  BY <1>1, DelayBound
<1> QED
  BY <1>1, <1>2, <1>3, CapacityAssumption
  DEF Prime, PrimeTarget, BurstNow, Larger, Smaller, Chunk, PrimeFloor, PrimeMargin

LEMMA DiscardedType ==
  ASSUME NEW r \in TapType, NEW n \in Nat
  PROVE  Discarded(r, n) \in TapType
BY CapacityAssumption DEF Discarded, TapType, Larger

LEMMA OrderDroppedType ==
  ASSUME NEW r \in TapType
  PROVE  /\ OrderDropped(r) \in TapType
         /\ OrderDropped(r).pending = 0
BY DEF OrderDropped, TapType

LEMMA ReconciledType ==
  ASSUME NEW r \in TapType
  PROVE  /\ Reconciled(r) \in TapType
         /\ Reconciled(r).mode = r.mode
         /\ Reconciled(r).pending \in {0, r.pending}
<1>1. CASE r.want = r.delay
  BY <1>1 DEF Reconciled
<1>2. CASE r.want # r.delay /\ r.want > r.delay
  BY <1>2 DEF Reconciled, OrderDropped, TapType
<1>3. CASE r.want # r.delay /\ ~(r.want > r.delay)
  <2>1. r.delay - r.want \in Nat
    <3>1. r.delay \in Delays \cup {0} /\ r.want \in Delays \cup {0}
      BY DEF TapType
    <3> QED
      BY <1>3, <3>1, DelayBound
  <2> DEFINE d == Discarded(r, IF r.primed THEN r.delay - r.want ELSE 0)
             spent == r.spent \/ r.fill < r.delay + r.due
  <2>2. d \in TapType /\ d.mode = r.mode /\ d.spent = r.spent
    BY <2>1, DiscardedType DEF Discarded, TapType
  <2>3. spent \in BOOLEAN /\ r.want \in Delays \cup {0}
    BY DEF TapType
  <2>4. Reconciled(r) = OrderDropped([d EXCEPT !.delay = r.want, !.spent = d.spent \/ r.fill < r.delay + r.due])
    BY <1>3 DEF Reconciled
  <2>5. Reconciled(r) = OrderDropped([d EXCEPT !.delay = r.want, !.spent = spent])
    BY <2>2, <2>4
  <2> HIDE DEF d, spent
  <2>6. [d EXCEPT !.delay = r.want, !.spent = spent] \in TapType
    BY <2>2, <2>3 DEF TapType
  <2>7. OrderDropped([d EXCEPT !.delay = r.want, !.spent = spent]).mode = d.mode
    BY <2>2 DEF OrderDropped, TapType
  <2> QED
    BY <2>2, <2>5, <2>6, <2>7, OrderDroppedType
<1> QED
  BY <1>1, <1>2, <1>3

LEMMA PrimedIfFullType ==
  ASSUME NEW r \in TapType
  PROVE  /\ PrimedIfFull(r) \in TapType
         /\ PrimedIfFull(r).mode = r.mode
         /\ PrimedIfFull(r).pending \in {0, r.pending}
<1>1. Prime(r) \in 0..Capacity
  BY PrimeBound, CapacityAssumption DEF Chunk
<1> QED
  BY <1>1 DEF PrimedIfFull, OrderDropped, TapType

LEMMA ElapsedType ==
  ASSUME NEW r \in TapType
  PROVE  /\ Elapsed(r) \in TapType
         /\ Elapsed(r).mode = r.mode
         /\ Elapsed(r).pending = r.pending
<1>1. Larger(r.due - Chunk, 0) \in Nat
  BY DEF TapType, Larger, Chunk
<1> DEFINE late == r.late \/ r.due < Chunk
<1>2. late \in BOOLEAN
  OBVIOUS
<1> HIDE DEF late
<1>3. Elapsed(r) = [r EXCEPT !.due = Larger(r.due - Chunk, 0), !.late = late]
  BY DEF Elapsed, late
<1> QED
  BY <1>1, <1>2, <1>3 DEF TapType

LEMMA ReadType ==
  ASSUME NEW r \in TapType
  PROVE  /\ Read(r) \in TapType
         /\ Read(r).mode = r.mode
         /\ Read(r).pending = r.pending
<1> DEFINE left == Larger(r.fill - Chunk, 0)
           peak == IF r.fill >= Chunk THEN Larger(r.peak, left) ELSE r.peak
           full == r.fill >= Chunk
<1>1. Trough(r) \in Int
  <2>1. r.delay \in Delays \cup {0} /\ r.fill \in Int /\ r.min \in Int
    BY CapacityAssumption DEF TapType
  <2>2. r.delay \in Nat
    BY <2>1, DelayBound
  <2> QED
    BY <2>1, <2>2 DEF Trough, Larger, None
<1>2. left \in 0..Capacity /\ peak \in 0..Capacity
  BY CapacityAssumption DEF TapType, Larger, Chunk
<1>3. full \in BOOLEAN
  OBVIOUS
<1>4. Read(r) = [r EXCEPT !.min = Trough(r), !.fill = left, !.primed = full, !.peak = peak]
  BY DEF Read
<1> HIDE DEF left, peak, full
<1> QED
  BY <1>1, <1>2, <1>3, <1>4, ZenonT(60) DEF TapType

LEMMA ShedIfReadyType ==
  ASSUME NEW r \in TapType
  PROVE  /\ ShedIfReady(r) \in TapType
         /\ ShedIfReady(r).pending \in {0, r.pending}
<1>1. r.pending \in Nat
  BY DEF TapType
<1>2. Discarded(r, r.pending) \in TapType
  BY <1>1, DiscardedType
<1> QED
  BY <1>2, OrderDroppedType DEF ShedIfReady

\* A mix keeps a tap's type and never makes an order.
LEMMA MixedType ==
  ASSUME NEW r \in TapType
  PROVE  /\ Mixed(r) \in TapType
         /\ Mixed(r).pending \in {0, r.pending}
<1>1. /\ BeforeRead(r) \in TapType
      /\ BeforeRead(r).pending \in {0, r.pending}
  <2>1. Reconciled(r) \in TapType /\ Reconciled(r).pending \in {0, r.pending}
    BY ReconciledType
  <2>2. /\ PrimedIfFull(Reconciled(r)) \in TapType
        /\ PrimedIfFull(Reconciled(r)).pending \in {0, r.pending}
    BY <2>1, PrimedIfFullType
  <2> QED
    BY <2>2, ElapsedType DEF BeforeRead
<1>2. /\ AfterRead(r) \in TapType
      /\ AfterRead(r).pending \in {0, r.pending}
  BY <1>1, ReadType DEF AfterRead
<1>3. NoTap \in TapType /\ NoTap.pending = 0
  BY CapacityAssumption DEF NoTap, TapType, None
<1> QED
  BY <1>2, <1>3, ShedIfReadyType DEF Mixed
----------------------------------------------------------------------------

LEMMA SettledType ==
  ASSUME NEW r \in TapType
  PROVE  /\ Settled(r) \in TapType
         /\ Settled(r).pending = r.pending
         /\ Settled(r).fill = r.fill
<1>1. BurstEnvelope(r.env, r.burst) \in Nat
  BY DEF BurstEnvelope, TapType, Larger
<1> DEFINE age == IF r.pending > 0 THEN 1 ELSE 0
<1>2. age \in {0, 1} /\ 0 \in 0..Capacity /\ None \in Int
  BY CapacityAssumption DEF None
<1>3. Settled(r) = [r EXCEPT !.min = None, !.peak = 0, !.burst = 0, !.age = age,
                             !.env = BurstEnvelope(r.env, r.burst)]
  BY DEF Settled
<1> DEFINE env == BurstEnvelope(r.env, r.burst)
<1>4. Settled(r) = [r EXCEPT !.min = None, !.peak = 0, !.burst = 0, !.age = age, !.env = env]
  BY <1>3
<1> HIDE DEF age, env
<1>5. [r EXCEPT !.min = None, !.peak = 0, !.burst = 0, !.age = age, !.env = env] \in TapType
  BY <1>1, <1>2 DEF TapType, env
<1>6. Settled(r).pending = r.pending /\ Settled(r).fill = r.fill
  BY <1>4 DEF TapType
<1> QED
  BY <1>4, <1>5, <1>6

LEMMA ExpiredType ==
  ASSUME NEW r \in TapType
  PROVE  /\ Expired(r) \in TapType
         /\ servo.armed => Expired(r).pending = 0
         /\ Expired(r).pending \in {0, r.pending}
BY SettledType, OrderDroppedType DEF Expired

LEMMA ViewType ==
  ASSUME NEW r \in TapType, NEW stale \in None..Capacity
  PROVE  /\ ShedNow(View(r, stale)) \in Nat
         /\ Arm(View(r, stale)) \in Nat
<1> DEFINE v == View(r, stale)
<1>1. v.trough \in Int /\ v.fill \in Int /\ v.env \in Int /\ v.peak \in Int
  BY SettledType, CapacityAssumption DEF View, TapType, None
<1>2. Excess(v) \in Nat
  BY <1>1 DEF Excess, Target
<1>3. ShedNow(v) \in Nat
  BY <1>2 DEF ShedNow
<1>4. Reach(v) \in Nat
  BY <1>1 DEF Reach, Larger, DeferredFloor, Chunk, Target, Slack
<1>5. Arm(v) \in Nat
  BY <1>2, <1>4 DEF Arm, Smaller
<1> QED
  BY <1>3, <1>5

LEMMA OrderedType ==
  ASSUME NEW r \in TapType, NEW stale \in None..Capacity
  PROVE  /\ Ordered(r, stale) \in TapType
         /\ \/ Ordered(r, stale).pending = 0
            \/ Arm(View(r, stale)) > 0
            \/ ~servo.armed /\ Ordered(r, stale).pending = r.pending
<1>1. ShedNow(View(r, stale)) \in Nat /\ Arm(View(r, stale)) \in Nat
  BY ViewType
<1>2. Settled(r) \in TapType
  BY SettledType
<1>3. OrderDropped(Discarded(Settled(r), ShedNow(View(r, stale)))) \in TapType
      /\ OrderDropped(Discarded(Settled(r), ShedNow(View(r, stale)))).pending = 0
  BY <1>1, <1>2, DiscardedType, OrderDroppedType
<1>4. [Settled(r) EXCEPT !.pending = Arm(View(r, stale)), !.age = 0] \in TapType
  BY <1>1, <1>2 DEF TapType
<1> QED
  BY <1>3, <1>4, ExpiredType DEF Ordered

LEMMA ResyncedType ==
  ASSUME NEW r \in TapType
  PROVE  /\ Resynced(r) \in TapType
         /\ Resynced(r).pending = r.pending
<1>1. Prime(r) \in 0..Capacity
  BY PrimeBound, CapacityAssumption DEF Chunk
<1> QED
  BY <1>1 DEF Resynced, TapType

----------------------------------------------------------------------------

TrimInv == TypeOK /\ OrdersLatched

LEMMA PushInv ==
  ASSUME TrimInv, NEW t \in Taps, NEW n \in Blocks, Push(t, n)
  PROVE  TrimInv'
<1>1. n \in Nat /\ tap[t] \in TapType
  BY BlocksAssumption DEF TrimInv, TypeOK
<1> DEFINE due == IF Fits(t, n) THEN n ELSE tap[t].due
           fill == IF Fits(t, n) THEN tap[t].fill + n ELSE tap[t].fill
           new == [tap[t] EXCEPT !.burst = Larger(@, n), !.due = due, !.fill = fill]
<1>4. Larger(tap[t].burst, n) \in Nat /\ due \in Nat /\ fill \in 0..Capacity
  BY <1>1, CapacityAssumption DEF Fits, TapType, Larger
<1>5. tap' = [tap EXCEPT ![t] = new]
  BY <1>1 DEF Push, TrimInv, TypeOK
<1> HIDE DEF due, fill
<1>6. new \in TapType
  BY <1>1, <1>4 DEF TapType
<1>2. tap' \in [Taps -> TapType]
  BY <1>5, <1>6 DEF TrimInv, TypeOK
<1>3. \A u \in Taps : tap'[u].pending = tap[u].pending
  BY <1>1 DEF Push, TrimInv, TypeOK, TapType
<1> QED
  BY <1>2, <1>3 DEF Push, TrimInv, TypeOK, OrdersLatched

LEMMA VerbInv ==
  ASSUME TrimInv, NEW t \in Taps, NEW delay \in Delays \cup {0},
         SetSourceSyncOffset(t, delay) \/ AttachSource(t, delay) \/ DetachSource(t)
  PROVE  TrimInv'
<1>1. tap[t] \in TapType /\ tap \in [Taps -> TapType]
  BY DEF TrimInv, TypeOK
<1>2. NewTap(delay) \in TapType /\ NewTap(delay).pending = 0
  <2>1. None \in Int /\ 0 \in 0..Capacity
    BY CapacityAssumption DEF None
  <2> QED
    BY <2>1 DEF NewTap, NoTap, TapType
<1>3. [tap[t] EXCEPT !.want = delay] \in TapType
      /\ [tap[t] EXCEPT !.want = delay].pending = tap[t].pending
  BY <1>1 DEF TapType
<1>4. [tap[t] EXCEPT !.mode = "draining"] \in TapType
      /\ [tap[t] EXCEPT !.mode = "draining"].pending = tap[t].pending
  BY <1>1 DEF TapType
<1>5. tap' \in [Taps -> TapType]
  BY <1>1, <1>2, <1>3, <1>4 DEF SetSourceSyncOffset, AttachSource, DetachSource
<1>6. \A u \in Taps : tap'[u].pending \in {0, tap[u].pending}
  BY <1>1, <1>2, <1>3, <1>4 DEF SetSourceSyncOffset, AttachSource, DetachSource
<1>7. UNCHANGED <<servo, device>>
  BY DEF SetSourceSyncOffset, AttachSource, DetachSource
<1> QED
  BY <1>5, <1>6, <1>7 DEF TrimInv, TypeOK, OrdersLatched

LEMMA MixInv ==
  ASSUME TrimInv, MixChunk
  PROVE  TrimInv'
<1>1. \A t \in Taps : tap[t] \in TapType
  BY DEF TrimInv, TypeOK
<1>2. \A t \in Taps : Mixed(tap[t]) \in TapType /\ Mixed(tap[t]).pending \in {0, tap[t].pending}
  BY <1>1, MixedType
<1>3. tap' = [t \in Taps |-> Mixed(tap[t])]
  BY DEF MixChunk
<1>4. servo' \in ServoType /\ servo'.armed = servo.armed /\ device' = device
  <2>1. servo \in ServoType
    BY DEF TrimInv, TypeOK, ServoType
  <2>2. Smaller(servo.mixes + 1, Window) \in Nat
    BY <2>1, WindowsAssumption DEF Smaller, ServoType
  <2> DEFINE landed == \E t \in Taps : tap[t].mode = "live" /\ Executes(AfterRead(tap[t]))
  <2> HIDE DEF landed
  <2>3. servo' = [servo EXCEPT !.mixes = Smaller(servo.mixes + 1, Window),
                               !.executed = servo.executed \/ landed]
    BY DEF MixChunk, landed
  <2> QED
    BY <2>1, <2>2, <2>3 DEF ServoType, MixChunk
<1> QED
  BY <1>2, <1>3, <1>4 DEF TrimInv, TypeOK, OrdersLatched, ServoType
LEMMA CountedType ==
  ASSUME servo \in ServoType, NEW high
  PROVE  Counted(high) \in Nat
BY WindowsAssumption DEF Counted, ServoType, Smaller, Larger

\* Below the patience, or without a decision, what was armed is cleared or
\* stays under its latch.
LEMMA QuietTickInv ==
  ASSUME TrimInv, NEW high,
         Undecided \/ Resolved \/ Patient(high)
  PROVE  /\ tap' \in [Taps -> TapType] /\ servo' \in ServoType
         /\ OrdersLatched'
<1>1. \A t \in Taps : tap[t] \in TapType
  BY DEF TrimInv, TypeOK
<1>2. servo \in ServoType
  BY DEF TrimInv, TypeOK, ServoType
<1>3. CASE Undecided
  <2>1. \A t \in Taps : Settled(tap[t]) \in TapType /\ Settled(tap[t]).pending = tap[t].pending
    BY <1>1, SettledType
  <2>2. servo' \in ServoType /\ servo'.armed = servo.armed
    <3>1. Larger(servo.warm - 1, 0) \in Nat
      BY <1>2 DEF ServoType, Larger
    <3>2. servo' = [servo EXCEPT !.warm = Larger(servo.warm - 1, 0), !.mixes = 0]
      BY <1>3 DEF Undecided
    <3> QED
      BY <1>2, <3>1, <3>2 DEF ServoType
  <2> QED
    BY <1>3, <2>1, <2>2 DEF Undecided, TrimInv, OrdersLatched
<1>4. CASE Resolved
  <2>1. \A t \in Taps : /\ OrderDropped(Settled(tap[t])) \in TapType
                        /\ OrderDropped(Settled(tap[t])).pending = 0
    BY <1>1, SettledType, OrderDroppedType
  <2>2. servo' \in ServoType
    BY <1>2, <1>4 DEF Resolved, ServoType
  <2> QED
    BY <1>4, <2>1, <2>2 DEF Resolved, OrdersLatched
<1>5. CASE Patient(high)
  <2>1. \A t \in Taps : /\ Expired(tap[t]) \in TapType
                        /\ Expired(tap[t]).pending = 0
    <3>1. \A t \in Taps : tap[t].pending \in Nat /\ (tap[t].pending > 0 => servo.armed)
      BY <1>1 DEF TrimInv, OrdersLatched, TapType
    <3> QED
      BY <1>1, <3>1, ExpiredType
  <2>2. \A t \in Taps : /\ Resynced(Expired(tap[t])) \in TapType
                        /\ Resynced(Expired(tap[t])).pending = 0
    BY <2>1, ResyncedType
  <2>3. servo' \in ServoType
    BY <1>2, <1>5, CountedType DEF Patient, ServoType
  <2>4. PICK resync \in BOOLEAN :
          tap' = [t \in Taps |->
                    IF resync THEN Resynced(Expired(tap[t])) ELSE Expired(tap[t])]
    BY <1>5 DEF Patient
  <2>5. tap' \in [Taps -> TapType] /\ \A t \in Taps : tap'[t].pending = 0
    BY <2>1, <2>2, <2>4
  <2> QED
    BY <2>3, <2>5 DEF OrdersLatched
<1> QED
  BY <1>3, <1>4, <1>5

\* A tick that trims leaves orders only of its own, and sets the latch for them.
LEMMA TrimmedInv ==
  ASSUME TrimInv, NEW high, NEW stale \in None..Capacity, Trimmed(high, stale)
  PROVE  /\ tap' \in [Taps -> TapType] /\ servo' \in ServoType
         /\ OrdersLatched'
<1> DEFINE shed == \E t \in Taps : ShedNow(View(tap[t], stale)) > 0
           armed == \E t \in Taps : Arm(View(tap[t], stale)) > 0
<1>1. \A t \in Taps : tap[t] \in TapType
  BY DEF TrimInv, TypeOK
<1>2. servo \in ServoType
  BY DEF TrimInv, TypeOK, ServoType
<1>3. /\ servo' = [servo EXCEPT !.high = IF shed /\ ~armed THEN 0 ELSE Counted(high),
                                !.armed = armed, !.mixes = 0]
      /\ \E resync \in BOOLEAN :
           tap' = [t \in Taps |-> IF resync THEN Resynced(Ordered(tap[t], stale))
                                  ELSE Ordered(tap[t], stale)]
  BY DEF Trimmed
<1>4. \A t \in Taps : /\ Ordered(tap[t], stale) \in TapType
                      /\ Ordered(tap[t], stale).pending > 0 => Arm(View(tap[t], stale)) > 0
  <2>1. \A t \in Taps : tap[t].pending \in Nat /\ (tap[t].pending > 0 => servo.armed)
    BY <1>1 DEF TrimInv, OrdersLatched, TapType
  <2> QED
    BY <1>1, <2>1, OrderedType
<1>5. \A t \in Taps : /\ Resynced(Ordered(tap[t], stale)) \in TapType
                      /\ Resynced(Ordered(tap[t], stale)).pending = Ordered(tap[t], stale).pending
  BY <1>4, ResyncedType
<1>6. /\ tap' \in [Taps -> TapType]
      /\ \A t \in Taps : tap'[t].pending > 0 => armed
  <2>1. PICK resync \in BOOLEAN :
          tap' = [t \in Taps |-> IF resync THEN Resynced(Ordered(tap[t], stale))
                                 ELSE Ordered(tap[t], stale)]
    BY <1>3
  <2>2. tap' \in [Taps -> TapType]
    BY <1>4, <1>5, <2>1
  <2>3. \A t \in Taps : tap'[t].pending = Ordered(tap[t], stale).pending
    BY <1>5, <2>1
  <2> QED
    BY <1>4, <2>2, <2>3
<1>7. Counted(high) \in Nat
  BY <1>2, CountedType
<1>8. shed \in BOOLEAN /\ armed \in BOOLEAN
  OBVIOUS
<1> HIDE DEF shed, armed
<1>9. servo' \in ServoType /\ servo'.armed = armed
  BY <1>2, <1>3, <1>7, <1>8 DEF ServoType
<1> QED
  BY <1>6, <1>9 DEF OrdersLatched

LEMMA TickInv ==
  ASSUME TrimInv, ServoTick
  PROVE  TrimInv'
<1> DEFINE high == High([t \in Sampled |-> tap[t].min])
<1>1. \/ Undecided \/ Resolved \/ Patient(high)
      \/ \E stale \in None..Capacity : Trimmed(high, stale)
  BY DEF ServoTick
<1> HIDE DEF high
<1>2. /\ tap' \in [Taps -> TapType] /\ servo' \in ServoType
      /\ OrdersLatched'
  BY <1>1, QuietTickInv, TrimmedInv
<1> QED
  BY <1>2 DEF TrimInv, TypeOK, ServoTick, ServoType

LEMMA DeviceInv ==
  ASSUME TrimInv, DeviceLost \/ OpenDevice
  PROVE  TrimInv'
<1>1. \A t \in Taps : tap[t] \in TapType
  BY DEF TrimInv, TypeOK
<1>2. \A t \in Taps : /\ Resynced(tap[t]) \in TapType
                      /\ Resynced(tap[t]).pending = tap[t].pending
  BY <1>1, ResyncedType
<1>3. CASE DeviceLost
  BY <1>3 DEF DeviceLost, TrimInv, TypeOK, OrdersLatched
<1>4. CASE OpenDevice
  <2>1. servo' \in ServoType /\ servo'.armed = servo.armed /\ device' = "up"
    BY <1>4, WindowsAssumption DEF OpenDevice, TrimInv, TypeOK, ServoType
  <2>2. /\ tap' \in [Taps -> TapType]
        /\ \A t \in Taps : tap'[t].pending = tap[t].pending
    BY <1>1, <1>2, <1>4 DEF OpenDevice, TrimInv, TypeOK
  <2> QED
    BY <2>1, <2>2 DEF TrimInv, TypeOK, OrdersLatched, ServoType
<1> QED
  BY <1>3, <1>4

LEMMA TrimInvInductive == Spec => []TrimInv
<1>1. Init => TrimInv
  <2> SUFFICES ASSUME Init PROVE TrimInv
    OBVIOUS
  <2>1. NoTap \in TapType /\ NoTap.pending = 0
    BY CapacityAssumption DEF NoTap, TapType, None
  <2> QED
    BY <2>1 DEF Init, TrimInv, TypeOK, OrdersLatched
<1>2. TrimInv /\ [Next]_vars => TrimInv'
  <2> SUFFICES ASSUME TrimInv, [Next]_vars PROVE TrimInv'
    OBVIOUS
  <2>1. ASSUME NEW t \in Taps, Verb(t) PROVE TrimInv'
    <3>1. CASE \E n \in Blocks : Push(t, n)
      BY <3>1, PushInv
    <3>2. CASE \E delay \in Delays : SetSourceSyncOffset(t, delay) \/ AttachSource(t, delay)
      BY <3>2, VerbInv
    <3>3. CASE DetachSource(t)
      <4>1. 0 \in Delays \cup {0}
        OBVIOUS
      <4> QED
        BY <3>3, <4>1, VerbInv
    <3> QED
      BY <2>1, <3>1, <3>2, <3>3 DEF Verb
  <2>2. CASE MixChunk
    BY <2>2, MixInv
  <2>3. CASE ServoTick
    BY <2>3, TickInv
  <2>4. CASE DeviceLost \/ OpenDevice
    BY <2>4, DeviceInv
  <2>5. CASE UNCHANGED vars
    <3>1. tap' = tap /\ servo' = servo /\ device' = device
      BY <2>5 DEF vars
    <3> QED
      BY <3>1 DEF TrimInv, TypeOK, OrdersLatched
  <2> QED
    BY <2>1, <2>2, <2>3, <2>4, <2>5 DEF Next
<1> QED
  BY <1>1, <1>2, PTL DEF Spec

----------------------------------------------------------------------------
(***************************************************************************)
(* A steady ring never dries: SupplyInv, stage by stage of a mix and of a  *)
(* tick.                                                                   *)
(***************************************************************************)

\* What OwedIsSeen depends on.
SameOwed(r, s) == s.due = r.due /\ s.env = r.env /\ s.burst = r.burst

LEMMA OwedCarries ==
  ASSUME NEW r, NEW s, NEW mixes, SameOwed(r, s), OwedIsSeen(r, mixes)
  PROVE  OwedIsSeen(s, mixes)
BY DEF SameOwed, OwedIsSeen, BurstNow

\* The cushion holds what is owed.
LEMMA PrimeCovers ==
  ASSUME NEW r \in TapType, NEW mixes, OwedIsSeen(r, mixes)
  PROVE  Prime(r) >= r.due
<1>1. r.delay \in Nat /\ r.delay + Chunk < Capacity
  BY DelayBound DEF TapType
<1>2. r.due \in Nat /\ r.burst \in Nat /\ r.env \in Nat
  BY DEF TapType
<1>3. r.due <= BurstNow(r) /\ r.due + Chunk <= Capacity /\ BurstNow(r) \in Nat
  BY <1>2 DEF OwedIsSeen, BurstNow, Larger
<1> QED
  BY <1>1, <1>2, <1>3, CapacityAssumption
  DEF Prime, PrimeTarget, Larger, Smaller, Chunk, PrimeFloor, PrimeMargin

LEMMA ReconciledFields ==
  ASSUME NEW r \in TapType
  PROVE  /\ SameOwed(r, Reconciled(r)) /\ Reconciled(r).late = r.late
         /\ Reconciled(r).delay = r.want
         /\ r.want = r.delay => Reconciled(r) = r
         /\ r.want > r.delay => ~Reconciled(r).primed
         /\ r.want < r.delay =>
              /\ Reconciled(r).primed = r.primed
              /\ Reconciled(r).spent = (r.spent \/ r.fill < r.delay + r.due)
              /\ r.primed => Reconciled(r).fill = Larger(r.fill - (r.delay - r.want), 0)
<1>1. CASE r.want = r.delay
  BY <1>1, DelayBound DEF Reconciled, SameOwed, TapType
<1>2. CASE r.want # r.delay /\ r.want > r.delay
  <2>1. Reconciled(r) = [r EXCEPT !.primed = FALSE, !.delay = r.want, !.pending = 0, !.age = 0]
    BY <1>2 DEF Reconciled, OrderDropped
  <2>2. /\ SameOwed(r, Reconciled(r)) /\ Reconciled(r).late = r.late
        /\ Reconciled(r).delay = r.want /\ ~Reconciled(r).primed
    BY <2>1 DEF SameOwed, TapType
  <2>3. r.want \in Nat /\ r.delay \in Nat
    BY DelayBound DEF TapType
  <2>4. ~(r.want < r.delay)
    BY <1>2, <2>3
  <2> QED
    BY <1>2, <2>2, <2>4
<1>3. CASE r.want # r.delay /\ ~(r.want > r.delay)
  <2> DEFINE n == IF r.primed THEN r.delay - r.want ELSE 0
             fill == Larger(r.fill - n, 0)
             spent == r.spent \/ r.fill < r.delay + r.due
  <2>1. Reconciled(r) = [r EXCEPT !.fill = fill, !.delay = r.want, !.spent = spent,
                                  !.pending = 0, !.age = 0]
    BY <1>3 DEF Reconciled, OrderDropped, Discarded, TapType
  <2>2. r.primed => fill = Larger(r.fill - (r.delay - r.want), 0)
    OBVIOUS
  <2> HIDE DEF fill
  <2>3. /\ SameOwed(r, Reconciled(r)) /\ Reconciled(r).late = r.late
        /\ Reconciled(r).delay = r.want /\ Reconciled(r).primed = r.primed
        /\ Reconciled(r).fill = fill
    BY <2>1 DEF SameOwed, TapType
  <2>4. Reconciled(r).spent = spent
    <3> HIDE DEF spent
    <3> QED
      BY <2>1 DEF TapType
  <2> QED
    BY <1>3, <2>2, <2>3, <2>4
<1>4. r.want \in Nat /\ r.delay \in Nat
  BY DelayBound DEF TapType
<1> QED
  BY <1>1, <1>2, <1>3, <1>4

\* Reconciling a delay keeps what is owed in the ring, or marks the reserve spent.
LEMMA ReconciledSupply ==
  ASSUME NEW r \in TapType, NEW mixes, OwedIsSeen(r, mixes), HoldsWhatIsOwed(r)
  PROVE  OwedIsSeen(Reconciled(r), mixes) /\ HoldsWhatIsOwed(Reconciled(r))
<1> DEFINE s == Reconciled(r)
<1>1. OwedIsSeen(s, mixes)
  BY ReconciledFields, OwedCarries
<1>2. r.want \in Nat /\ r.delay \in Nat /\ r.due \in Nat /\ r.fill \in Nat
  BY DelayBound, CapacityAssumption DEF TapType
<1>3. SUFFICES ASSUME s.primed, ~s.late, ~s.spent
               PROVE  s.fill >= s.due
  BY <1>1 DEF HoldsWhatIsOwed
<1>4. s.due = r.due /\ ~r.late
  BY <1>3, ReconciledFields DEF SameOwed
<1>5. CASE r.want = r.delay
  BY <1>3, <1>5, ReconciledFields DEF HoldsWhatIsOwed
<1>6. CASE r.want < r.delay
  <2>1. r.primed /\ ~(r.fill < r.delay + r.due)
    BY <1>3, <1>6, ReconciledFields
  <2>2. s.fill = Larger(r.fill - (r.delay - r.want), 0)
    BY <1>6, <2>1, ReconciledFields
  <2> HIDE DEF s
  <2> QED
    BY <1>2, <1>4, <1>6, <2>1, <2>2 DEF Larger
<1>7. ~(r.want > r.delay)
  BY <1>3, ReconciledFields
<1> QED
  BY <1>2, <1>5, <1>6, <1>7

\* Priming fills the ring to its cushion.
LEMMA PrimedIfFullSupply ==
  ASSUME NEW r \in TapType, NEW mixes, OwedIsSeen(r, mixes), HoldsWhatIsOwed(r)
  PROVE  /\ OwedIsSeen(PrimedIfFull(r), mixes) /\ HoldsWhatIsOwed(PrimedIfFull(r))
         /\ r.primed => PrimedIfFull(r) = r
         /\ PrimedIfFull(r).delay = r.delay
<1>1. CASE r.primed \/ r.fill < Prime(r)
  BY <1>1 DEF PrimedIfFull
<1>2. CASE ~(r.primed \/ r.fill < Prime(r))
  <2> DEFINE p == Prime(r)
  <2>1. PrimedIfFull(r) = [r EXCEPT !.pending = 0, !.age = 0, !.primed = TRUE,
                                    !.fill = p, !.late = FALSE, !.spent = FALSE]
    BY <1>2 DEF PrimedIfFull, OrderDropped, TapType
  <2>2. p >= r.due
    BY PrimeCovers
  <2> HIDE DEF p
  <2>3. SameOwed(r, PrimedIfFull(r)) /\ PrimedIfFull(r).fill = p /\ PrimedIfFull(r).delay = r.delay
    BY <2>1 DEF SameOwed, TapType
  <2> QED
    BY <1>2, <2>2, <2>3, OwedCarries DEF HoldsWhatIsOwed, SameOwed
<1> QED
  BY <1>1, <1>2

LEMMA ElapsedFields ==
  ASSUME NEW r \in TapType
  PROVE  /\ Elapsed(r).due = Larger(r.due - Chunk, 0)
         /\ Elapsed(r).late = (r.late \/ r.due < Chunk)
         /\ Elapsed(r).env = r.env /\ Elapsed(r).burst = r.burst
         /\ Elapsed(r).fill = r.fill /\ Elapsed(r).primed = r.primed
         /\ Elapsed(r).spent = r.spent /\ Elapsed(r).delay = r.delay
<1> DEFINE late == r.late \/ r.due < Chunk
           due == Larger(r.due - Chunk, 0)
<1>1. Elapsed(r) = [r EXCEPT !.due = due, !.late = late]
  BY DEF Elapsed
<1>2. late \in BOOLEAN
  OBVIOUS
<1> HIDE DEF late, due
<1>3. /\ Elapsed(r).due = due /\ Elapsed(r).late = late
      /\ Elapsed(r).env = r.env /\ Elapsed(r).burst = r.burst
      /\ Elapsed(r).fill = r.fill /\ Elapsed(r).primed = r.primed
      /\ Elapsed(r).spent = r.spent /\ Elapsed(r).delay = r.delay
  BY <1>1, <1>2 DEF TapType
<1> QED
  BY <1>3 DEF late, due

LEMMA ReadFields ==
  ASSUME NEW r \in TapType
  PROVE  /\ SameOwed(r, Read(r)) /\ Read(r).late = r.late
         /\ Read(r).spent = r.spent /\ Read(r).delay = r.delay
         /\ Read(r).fill = Larger(r.fill - Chunk, 0)
         /\ Read(r).primed = (r.fill >= Chunk)
<1> DEFINE left == Larger(r.fill - Chunk, 0)
           peak == IF r.fill >= Chunk THEN Larger(r.peak, left) ELSE r.peak
           full == r.fill >= Chunk
           min == Trough(r)
<1>1. Read(r) = [r EXCEPT !.min = min, !.fill = left, !.primed = full, !.peak = peak]
  BY DEF Read
<1> HIDE DEF left, peak, full, min
<1>2. /\ SameOwed(r, Read(r)) /\ Read(r).late = r.late
      /\ Read(r).spent = r.spent /\ Read(r).delay = r.delay
      /\ Read(r).fill = left /\ Read(r).primed = full
  BY <1>1 DEF SameOwed, TapType
<1> QED
  BY <1>2 DEF left, full

\* What is owed before the mix drops by a chunk, or was too little for one.
LEMMA ElapsedOwed ==
  ASSUME servo \in ServoType, servo.mixes <= Window,
         NEW r \in TapType, OwedIsSeen(r, servo.mixes)
  PROVE  /\ OwedIsSeen(Elapsed(r), Smaller(servo.mixes + 1, Window))
         /\ Elapsed(r).due <= BurstNow(r)
<1>1. r.due \in Nat /\ r.burst \in Nat /\ r.env \in Nat /\ servo.mixes \in Nat
  BY DEF TapType, ServoType
<1>2. Window \in Nat /\ Capacity \in Nat /\ Chunk < Capacity
  <2>1. 0 + Chunk < Capacity
    BY DelayBound
  <2> QED
    BY <2>1, WindowsAssumption, CapacityAssumption DEF Chunk
<1>3. /\ Elapsed(r).due = Larger(r.due - Chunk, 0)
      /\ Elapsed(r).burst = r.burst /\ BurstNow(Elapsed(r)) = BurstNow(r)
  BY ElapsedFields DEF BurstNow
<1>4. BurstNow(r) \in Nat
  BY <1>1 DEF BurstNow, Larger
<1> DEFINE mixes == Smaller(servo.mixes + 1, Window)
<1>5. mixes \in Nat /\ mixes <= servo.mixes + 1 /\ mixes <= Window
  BY <1>1, <1>2 DEF Smaller
<1> HIDE DEF mixes
<1>6. OwedIsSeen(Elapsed(r), mixes)
  BY <1>1, <1>2, <1>3, <1>4, <1>5 DEF OwedIsSeen, Larger, Chunk
<1> QED
  BY <1>1, <1>3, <1>4, <1>6 DEF OwedIsSeen, Larger, Chunk, mixes

\* A tap that owes nothing.
LEMMA NothingOwed ==
  ASSUME NEW mixes \in Nat, mixes <= Window,
         NEW delay \in Delays \cup {0}
  PROVE  /\ OwedIsSeen(NoTap, mixes) /\ HoldsWhatIsOwed(NoTap)
         /\ ~NoTap.primed /\ NoTap.mode = "off"
         /\ OwedIsSeen(NewTap(delay), mixes) /\ HoldsWhatIsOwed(NewTap(delay))
         /\ ~NewTap(delay).primed
<1>1. 0 + Chunk <= Capacity
  BY DelayBound, CapacityAssumption DEF Chunk
<1>2. Chunk * mixes <= Chunk * Window
  BY WindowsAssumption DEF Chunk
<1>3. 0 <= Chunk * Window
  BY WindowsAssumption DEF Chunk
<1>4. NoTap.due = 0 /\ NoTap.env = 0 /\ NoTap.burst = 0 /\ ~NoTap.primed /\ NoTap.mode = "off"
  BY DEF NoTap
<1>5. /\ NewTap(delay).due = 0 /\ NewTap(delay).env = 0 /\ NewTap(delay).burst = 0
      /\ ~NewTap(delay).primed
  BY DEF NewTap, NoTap
<1> QED
  BY <1>1, <1>2, <1>3, <1>4, <1>5 DEF OwedIsSeen, HoldsWhatIsOwed, BurstNow, Larger

\* A mix reads what was owed, and an order leaves a push period.
LEMMA MixedSupply ==
  ASSUME servo \in ServoType, servo.mixes <= Window,
         NEW r \in TapType, OwedIsSeen(r, servo.mixes), HoldsWhatIsOwed(r)
  PROVE  /\ OwedIsSeen(Mixed(r), Smaller(servo.mixes + 1, Window))
         /\ HoldsWhatIsOwed(Mixed(r))
         /\ Mixed(r).mode = "off" => ~Mixed(r).primed
         /\ /\ r.primed /\ ~Mixed(r).primed
            /\ Mixed(r).mode = "live" /\ Mixed(r).delay = r.delay
            => Mixed(r).late \/ Mixed(r).spent
<1> DEFINE mixes == Smaller(servo.mixes + 1, Window)
           p == PrimedIfFull(Reconciled(r))
           b == Elapsed(p)
           a == AfterRead(r)
<1>1. p \in TapType /\ b \in TapType /\ a \in TapType
  BY ReconciledType, PrimedIfFullType, ElapsedType, ReadType DEF BeforeRead, AfterRead
<1>2. /\ OwedIsSeen(p, servo.mixes) /\ HoldsWhatIsOwed(p)
      /\ p.delay = r.want
      /\ r.want = r.delay /\ r.primed => p = r
  BY ReconciledType, ReconciledFields, ReconciledSupply, PrimedIfFullSupply
<1>3. /\ OwedIsSeen(b, mixes) /\ b.due <= BurstNow(b)
      /\ b.due = Larger(p.due - Chunk, 0) /\ b.late = (p.late \/ p.due < Chunk)
      /\ b.fill = p.fill /\ b.primed = p.primed /\ b.spent = p.spent /\ b.delay = p.delay
  BY <1>1, <1>2, ElapsedOwed, ElapsedFields DEF BurstNow
<1>4. a = IF b.primed THEN Read(b) ELSE b
  BY DEF AfterRead, BeforeRead
<1>5. /\ SameOwed(b, a) /\ a.late = b.late /\ a.spent = b.spent /\ a.delay = b.delay
      /\ b.primed => a.fill = Larger(b.fill - Chunk, 0) /\ a.primed = (b.fill >= Chunk)
      /\ ~b.primed => a = b
  BY <1>1, <1>4, ReadFields DEF SameOwed
<1>6. /\ p.due \in Nat /\ p.fill \in Nat /\ b.due \in Nat /\ b.fill \in Nat
      /\ a.due \in Nat /\ a.fill \in Nat /\ a.env \in Nat /\ a.burst \in Nat /\ a.pending \in Nat
  BY <1>1, CapacityAssumption DEF TapType
<1>7. OwedIsSeen(a, mixes) /\ a.due <= BurstNow(a)
  BY <1>3, <1>5, OwedCarries DEF SameOwed, BurstNow
<1> HIDE DEF mixes, p, b, a
<1>8. HoldsWhatIsOwed(a)
  <2> SUFFICES ASSUME a.primed, ~a.late, ~a.spent PROVE a.fill >= a.due
    BY DEF HoldsWhatIsOwed
  <2>1. b.primed
    BY <1>5
  <2>2. p.primed /\ ~p.late /\ ~p.spent /\ ~(p.due < Chunk)
    BY <1>3, <1>5, <2>1, Zenon
  <2>3. p.fill >= p.due
    BY <1>2, <2>2 DEF HoldsWhatIsOwed
  <2> QED
    BY <1>3, <1>5, <1>6, <2>1, <2>2, <2>3 DEF Larger, Chunk, SameOwed
<1>9. ASSUME r.primed, ~a.primed, a.delay = r.delay
      PROVE  a.late \/ a.spent
  <2>1. r.want = r.delay /\ p = r
    BY <1>2, <1>3, <1>5, <1>9
  <2>2. b.primed /\ ~(p.fill >= Chunk)
    BY <1>3, <1>5, <1>9, <2>1
  <2>3. SUFFICES ASSUME ~p.late, ~p.spent, ~(p.due < Chunk) PROVE FALSE
    BY <1>3, <1>5, Zenon
  <2> QED
    BY <1>2, <1>6, <1>9, <2>1, <2>2, <2>3 DEF HoldsWhatIsOwed, Chunk
<1> DEFINE s == ShedIfReady(a)
<1>10. /\ OwedIsSeen(s, mixes) /\ HoldsWhatIsOwed(s)
       /\ s.primed = a.primed /\ s.late = a.late /\ s.spent = a.spent
       /\ s.delay = a.delay /\ s.mode = a.mode
  <2>1. CASE ~Executes(a)
    BY <1>7, <1>8, <2>1 DEF ShedIfReady
  <2>2. CASE Executes(a)
    <3> DEFINE fill == Larger(a.fill - a.pending, 0)
    <3>1. s = [a EXCEPT !.fill = fill, !.pending = 0, !.age = 0]
      BY <1>1, <2>2 DEF ShedIfReady, OrderDropped, Discarded, TapType
    <3>2. fill >= a.due
      <4>1. a.fill - DeferredFloor(BurstNow(a)) >= a.pending
        BY <2>2 DEF Executes, DeferredReady
      <4>2. BurstNow(a) \in Nat
        BY <1>6 DEF BurstNow, Larger
      <4> QED
        BY <1>6, <1>7, <4>1, <4>2 DEF DeferredFloor, Larger, Chunk, Target, Slack
    <3> HIDE DEF fill, s
    <3>3. /\ SameOwed(a, s) /\ s.fill = fill
          /\ s.primed = a.primed /\ s.late = a.late /\ s.spent = a.spent
          /\ s.delay = a.delay /\ s.mode = a.mode
      BY <1>1, <3>1 DEF SameOwed, TapType
    <3>4. OwedIsSeen(s, mixes)
      BY <1>7, <3>3, OwedCarries
    <3> QED
      BY <3>2, <3>3, <3>4 DEF HoldsWhatIsOwed, SameOwed
  <2> QED
    BY <2>1, <2>2
<1>11. Mixed(r) = IF r.mode = "live" THEN s ELSE NoTap
  BY DEF Mixed, a
<1>12. a.mode = r.mode
  <2>1. p.mode = r.mode
    BY ReconciledType, PrimedIfFullType DEF p
  <2>2. b.mode = r.mode
    BY <1>1, <2>1, ElapsedType DEF b
  <2> QED
    BY <1>1, <1>4, <2>2, ReadType
<1>13. mixes \in Nat /\ mixes <= Window
  BY WindowsAssumption DEF mixes, Smaller, ServoType
<1>14. OwedIsSeen(NoTap, mixes) /\ HoldsWhatIsOwed(NoTap) /\ ~NoTap.primed /\ NoTap.mode = "off"
  BY <1>13, NothingOwed
<1> HIDE DEF s
<1>15. CASE r.mode = "live"
  BY <1>9, <1>10, <1>11, <1>12, <1>15 DEF mixes
<1>16. CASE r.mode # "live"
  BY <1>11, <1>14, <1>16 DEF mixes
<1> QED
  BY <1>15, <1>16

LEMMA MixKeepsSupply ==
  ASSUME TrimInv, SupplyInv, MixChunk
  PROVE  SupplyInv' /\ \A t \in Taps : Dries(t) => tap'[t].late \/ tap'[t].spent
<1>1. servo \in ServoType /\ servo.mixes <= Window /\ \A t \in Taps : tap[t] \in TapType
  BY DEF TrimInv, TypeOK, ServoType, SupplyInv
<1>2. /\ \A t \in Taps : tap'[t] = Mixed(tap[t])
      /\ servo'.mixes = Smaller(servo.mixes + 1, Window)
  BY <1>1 DEF MixChunk, ServoType
<1>3. servo'.mixes <= Window
  BY <1>1, <1>2, WindowsAssumption DEF Smaller, ServoType
<1>4. ASSUME NEW t \in Taps
      PROVE  /\ OwedIsSeen(tap'[t], servo'.mixes) /\ HoldsWhatIsOwed(tap'[t])
             /\ tap'[t].mode = "off" => ~tap'[t].primed
             /\ Dries(t) => tap'[t].late \/ tap'[t].spent
  <2>1. OwedIsSeen(tap[t], servo.mixes) /\ HoldsWhatIsOwed(tap[t])
    BY DEF SupplyInv
  <2> QED
    BY <1>1, <1>2, <2>1, MixedSupply DEF Dries
<1> QED
  BY <1>3, <1>4 DEF SupplyInv

\* A change of the ring alone that leaves at least what is owed.
LeavesOwed(r, s) ==
  /\ SameOwed(r, s)
  /\ s.late = r.late /\ s.spent = r.spent /\ s.primed = r.primed /\ s.mode = r.mode
  /\ s.fill = r.fill \/ s.fill >= r.due

LEMMA SupplyCarries ==
  ASSUME NEW r, NEW s, NEW mixes, LeavesOwed(r, s),
         OwedIsSeen(r, mixes), HoldsWhatIsOwed(r)
  PROVE  OwedIsSeen(s, mixes) /\ HoldsWhatIsOwed(s)
<1>1. OwedIsSeen(s, mixes)
  BY OwedCarries DEF LeavesOwed
<1> QED
  BY <1>1 DEF LeavesOwed, SameOwed, HoldsWhatIsOwed

\* A window's end moves what was seen into the envelope.
LEMMA SettledSupply ==
  ASSUME NEW r \in TapType, OwedIsSeen(r, Window), HoldsWhatIsOwed(r)
  PROVE  /\ OwedIsSeen(Settled(r), 0) /\ HoldsWhatIsOwed(Settled(r))
         /\ Settled(r).due <= Settled(r).env
         /\ Settled(r).primed = r.primed /\ Settled(r).mode = r.mode
<1> DEFINE age == IF r.pending > 0 THEN 1 ELSE 0
           env == BurstEnvelope(r.env, r.burst)
<1>1. Settled(r) = [r EXCEPT !.min = None, !.peak = 0, !.burst = 0, !.age = age, !.env = env]
  BY DEF Settled
<1>2. r.due \in Nat /\ r.env \in Nat /\ r.burst \in Nat
  BY DEF TapType
<1>3. env \in Nat
  BY <1>2 DEF BurstEnvelope, Larger
<1>4. r.due <= env
  <2>1. CASE r.burst = 0
    BY <1>2, <2>1 DEF OwedIsSeen, BurstNow, BurstEnvelope, Larger
  <2>2. CASE r.burst # 0
    <3>1. env >= r.burst
      BY <1>2, <2>2 DEF BurstEnvelope, Larger
    <3>2. r.due <= r.burst
      BY <1>2, WindowsAssumption DEF OwedIsSeen, Chunk
    <3> QED
      BY <1>2, <1>3, <3>1, <3>2
  <2> QED
    BY <2>1, <2>2
<1> HIDE DEF age, env
<1>5. /\ Settled(r).due = r.due /\ Settled(r).env = env /\ Settled(r).burst = 0
      /\ Settled(r).fill = r.fill /\ Settled(r).late = r.late /\ Settled(r).spent = r.spent
      /\ Settled(r).primed = r.primed /\ Settled(r).mode = r.mode
  BY <1>1 DEF TapType
<1>6. HoldsWhatIsOwed(Settled(r))
  BY <1>5 DEF HoldsWhatIsOwed
<1>7. r.due <= Chunk * Window /\ r.due + Chunk <= Capacity
  BY DEF OwedIsSeen
<1> HIDE DEF HoldsWhatIsOwed
<1>8. OwedIsSeen(Settled(r), 0)
  BY <1>2, <1>3, <1>4, <1>5, <1>7, WindowsAssumption DEF OwedIsSeen, BurstNow, Larger, Chunk
<1> QED
  BY <1>4, <1>5, <1>6, <1>8

LEMMA OrderDroppedLeaves ==
  ASSUME NEW r \in TapType
  PROVE  LeavesOwed(r, OrderDropped(r))
BY DEF OrderDropped, LeavesOwed, SameOwed, TapType

\* A resync leaves the cushion.
LEMMA ResyncedLeaves ==
  ASSUME NEW r \in TapType, NEW mixes, OwedIsSeen(r, mixes)
  PROVE  LeavesOwed(r, Resynced(r))
<1> DEFINE p == Prime(r)
<1>1. p >= r.due
  BY PrimeCovers
<1>2. Resynced(r) = IF r.fill > p THEN [r EXCEPT !.fill = p] ELSE r
  BY DEF Resynced
<1> HIDE DEF p
<1>3. CASE r.fill > p
  <2>1. Resynced(r) = [r EXCEPT !.fill = p]
    BY <1>2, <1>3
  <2>2. /\ SameOwed(r, Resynced(r)) /\ Resynced(r).fill = p
        /\ Resynced(r).late = r.late /\ Resynced(r).spent = r.spent
        /\ Resynced(r).primed = r.primed /\ Resynced(r).mode = r.mode
    BY <2>1 DEF SameOwed, TapType
  <2> QED
    BY <1>1, <2>2 DEF LeavesOwed
<1>4. CASE ~(r.fill > p)
  BY <1>2, <1>4 DEF LeavesOwed, SameOwed
<1> QED
  BY <1>3, <1>4

LEMMA ExpiredSupply ==
  ASSUME NEW r \in TapType, OwedIsSeen(r, Window), HoldsWhatIsOwed(r)
  PROVE  /\ OwedIsSeen(Expired(r), 0) /\ HoldsWhatIsOwed(Expired(r))
         /\ Expired(r).primed = r.primed /\ Expired(r).mode = r.mode
<1>1. Settled(r) \in TapType
  BY SettledType
<1>2. LeavesOwed(Settled(r), OrderDropped(Settled(r)))
  BY <1>1, OrderDroppedLeaves
<1>3. /\ OwedIsSeen(Settled(r), 0) /\ HoldsWhatIsOwed(Settled(r))
      /\ Settled(r).primed = r.primed /\ Settled(r).mode = r.mode
  BY SettledSupply
<1>4. /\ OwedIsSeen(OrderDropped(Settled(r)), 0) /\ HoldsWhatIsOwed(OrderDropped(Settled(r)))
  BY <1>2, <1>3, SupplyCarries
<1> QED
  BY <1>2, <1>3, <1>4 DEF Expired, LeavesOwed

\* A shed at once leaves a push period.
LEMMA OrderedSupply ==
  ASSUME NEW r \in TapType, OwedIsSeen(r, Window), HoldsWhatIsOwed(r),
         NEW stale \in None..Capacity
  PROVE  /\ OwedIsSeen(Ordered(r, stale), 0) /\ HoldsWhatIsOwed(Ordered(r, stale))
         /\ Ordered(r, stale).primed = r.primed /\ Ordered(r, stale).mode = r.mode
<1> DEFINE w == Settled(r)
           n == ShedNow(View(r, stale))
           m == Arm(View(r, stale))
<1>1. /\ OwedIsSeen(w, 0) /\ HoldsWhatIsOwed(w) /\ w.due <= w.env
      /\ w.primed = r.primed /\ w.mode = r.mode
  BY SettledSupply
<1>2. w \in TapType /\ w.fill = r.fill /\ n \in Nat
  BY SettledType, ViewType
<1>3. CASE n > 0
  <2> DEFINE fill == Larger(w.fill - n, 0)
  <2>1. Ordered(r, stale) = OrderDropped(Discarded(w, n))
    BY <1>3 DEF Ordered
  <2>2. Ordered(r, stale) = [w EXCEPT !.fill = fill, !.pending = 0, !.age = 0]
    BY <1>2, <2>1 DEF OrderDropped, Discarded, TapType
  <2>3. r.fill - BridgeFloor(w.env) >= n
    BY <1>3 DEF ShedNow, View
  <2>4. w.fill \in Nat /\ w.env \in Nat /\ w.due \in Nat
    BY <1>2, CapacityAssumption DEF TapType
  <2> HIDE DEF n, w
  <2>5. fill >= w.due
    BY <1>1, <1>2, <2>3, <2>4 DEF BridgeFloor, Larger
  <2> HIDE DEF fill
  <2>6. LeavesOwed(w, Ordered(r, stale))
    <3> DEFINE o == [w EXCEPT !.fill = fill, !.pending = 0, !.age = 0]
    <3>1. /\ SameOwed(w, o) /\ o.fill = fill /\ o.late = w.late /\ o.spent = w.spent
          /\ o.primed = w.primed /\ o.mode = w.mode
      BY <1>2 DEF SameOwed, TapType
    <3> QED
      BY <2>2, <2>5, <3>1 DEF LeavesOwed
  <2> QED
    BY <1>1, <2>6, SupplyCarries DEF LeavesOwed
<1>4. CASE ~(n > 0) /\ m > 0
  <2>1. Ordered(r, stale) = [w EXCEPT !.pending = m, !.age = 0]
    BY <1>4 DEF Ordered
  <2> HIDE DEF n, m, w
  <2>2. LeavesOwed(w, Ordered(r, stale))
    BY <1>2, <2>1 DEF LeavesOwed, SameOwed, TapType
  <2> QED
    BY <1>1, <2>2, SupplyCarries DEF LeavesOwed
<1>5. CASE ~(n > 0) /\ ~(m > 0)
  BY <1>5, ExpiredSupply DEF Ordered
<1> QED
  BY <1>3, <1>4, <1>5

\* A resync after either.
LEMMA ResyncedSupply ==
  ASSUME NEW r \in TapType, NEW mixes, OwedIsSeen(r, mixes), HoldsWhatIsOwed(r)
  PROVE  /\ OwedIsSeen(Resynced(r), mixes) /\ HoldsWhatIsOwed(Resynced(r))
         /\ Resynced(r).primed = r.primed /\ Resynced(r).mode = r.mode
BY ResyncedLeaves, SupplyCarries DEF LeavesOwed

LEMMA TickKeepsSupply ==
  ASSUME TrimInv, SupplyInv, ServoTick
  PROVE  SupplyInv' /\ \A t \in Taps : ~Dries(t)
<1> DEFINE high == High([t \in Sampled |-> tap[t].min])
           Kept(r, s) == /\ OwedIsSeen(s, 0) /\ HoldsWhatIsOwed(s)
                         /\ s.primed = r.primed /\ s.mode = r.mode
<1>1. \A t \in Taps : tap[t] \in TapType /\ OwedIsSeen(tap[t], Window) /\ HoldsWhatIsOwed(tap[t])
  BY DEF TrimInv, TypeOK, SupplyInv, ServoTick
<1>2. servo'.mixes = 0
  BY DEF TrimInv, TypeOK, ServoTick, Undecided, Resolved, Patient, Trimmed
<1>3. \/ Undecided \/ Resolved \/ Patient(high)
      \/ \E stale \in None..Capacity : Trimmed(high, stale)
  BY DEF ServoTick
<1> HIDE DEF high
<1>4. ASSUME NEW t \in Taps PROVE Kept(tap[t], tap'[t])
  <2>1. CASE Undecided
    BY <1>1, <2>1, SettledSupply DEF Undecided
  <2>2. CASE Resolved
    <3>1. Kept(tap[t], Settled(tap[t])) /\ Settled(tap[t]) \in TapType
      BY <1>1, SettledSupply, SettledType
    <3>2. LeavesOwed(Settled(tap[t]), OrderDropped(Settled(tap[t])))
      BY <3>1, OrderDroppedLeaves
    <3>3. Kept(tap[t], OrderDropped(Settled(tap[t])))
      BY <3>1, <3>2, SupplyCarries DEF LeavesOwed
    <3> QED
      BY <2>2, <3>3 DEF Resolved
  <2>3. CASE Patient(high)
    <3>1. Kept(tap[t], Expired(tap[t])) /\ Expired(tap[t]) \in TapType
      BY <1>1, ExpiredSupply, ExpiredType
    <3>2. Kept(tap[t], Resynced(Expired(tap[t])))
      BY <3>1, ResyncedSupply
    <3>3. tap'[t] \in {Expired(tap[t]), Resynced(Expired(tap[t]))}
      BY <2>3 DEF Patient
    <3> QED
      BY <3>1, <3>2, <3>3
  <2>4. CASE \E stale \in None..Capacity : Trimmed(high, stale)
    <3>1. PICK stale \in None..Capacity : Trimmed(high, stale)
      BY <2>4
    <3>2. Kept(tap[t], Ordered(tap[t], stale)) /\ Ordered(tap[t], stale) \in TapType
      BY <1>1, OrderedSupply, OrderedType
    <3>3. Kept(tap[t], Resynced(Ordered(tap[t], stale)))
      BY <3>2, ResyncedSupply
    <3>4. tap'[t] \in {Ordered(tap[t], stale), Resynced(Ordered(tap[t], stale))}
      BY <3>1 DEF Trimmed
    <3> QED
      BY <3>2, <3>3, <3>4
  <2> QED
    BY <1>3, <2>1, <2>2, <2>3, <2>4
<1>5. 0 <= Window
  BY WindowsAssumption
<1>6. ASSUME NEW t \in Taps PROVE (tap'[t].mode = "off" => ~tap'[t].primed) /\ ~Dries(t)
  <2>1. tap'[t].primed = tap[t].primed /\ tap'[t].mode = tap[t].mode
    BY <1>4
  <2> QED
    BY <2>1 DEF SupplyInv, Dries
<1> QED
  BY <1>2, <1>4, <1>5, <1>6 DEF SupplyInv

LEMMA PushKeepsSupply ==
  ASSUME ShortPushes, TrimInv, SupplyInv, NEW t \in Taps, NEW n \in Blocks, Push(t, n)
  PROVE  SupplyInv' /\ \A u \in Taps : ~Dries(u)
<1>1. /\ n \in Nat /\ n <= Chunk * Window /\ n + Chunk <= Capacity
      /\ tap[t] \in TapType /\ tap \in [Taps -> TapType]
  BY BlocksAssumption DEF TrimInv, TypeOK, ShortPushes
<1>2. /\ tap[t].due \in Nat /\ tap[t].burst \in Nat /\ tap[t].env \in Nat /\ tap[t].fill \in Nat
      /\ servo.mixes \in Nat /\ Window \in Nat
  BY <1>1, CapacityAssumption, WindowsAssumption DEF TapType, TrimInv, TypeOK
<1> DEFINE fits == Fits(t, n)
           burst == Larger(tap[t].burst, n)
           due == IF fits THEN n ELSE tap[t].due
           fill == IF fits THEN tap[t].fill + n ELSE tap[t].fill
           new == [tap[t] EXCEPT !.burst = burst, !.due = due, !.fill = fill]
<1>3. tap' = [tap EXCEPT ![t] = new]
  BY <1>1 DEF Push
<1>4. burst \in Nat /\ due \in Nat /\ fill \in Nat /\ burst >= n /\ burst >= tap[t].burst
  BY <1>1, <1>2 DEF Larger
<1>5. OwedIsSeen(tap[t], servo.mixes) /\ HoldsWhatIsOwed(tap[t])
  BY DEF SupplyInv
<1>6. /\ due <= Larger(tap[t].env, burst)
      /\ due <= burst \/ due + Chunk * servo.mixes <= Chunk * Window
      /\ due <= Chunk * Window /\ due + Chunk <= Capacity
      /\ (due = tap[t].due /\ fill = tap[t].fill) \/ fill >= due
  <2>1. CASE fits
    <3> HIDE DEF burst
    <3>1. due = n /\ fill = tap[t].fill + n
      BY <2>1
    <3> QED
      BY <1>1, <1>2, <1>4, <3>1 DEF Larger, Chunk
  <2>2. CASE ~fits
    <3> HIDE DEF burst
    <3>1. due = tap[t].due /\ fill = tap[t].fill
      BY <2>2
    <3> HIDE DEF due, fill
    <3> QED
      BY <1>1, <1>2, <1>4, <1>5, <3>1 DEF OwedIsSeen, BurstNow, Larger, Chunk
  <2> QED
    BY <2>1, <2>2
<1> HIDE DEF burst, due, fill
<1>7. /\ new.due = due /\ new.burst = burst /\ new.fill = fill /\ new.env = tap[t].env
      /\ new.late = tap[t].late /\ new.spent = tap[t].spent
      /\ new.primed = tap[t].primed /\ new.mode = tap[t].mode
  BY <1>1 DEF TapType
<1> HIDE DEF new
<1>8. OwedIsSeen(new, servo.mixes)
  BY <1>6, <1>7 DEF OwedIsSeen, BurstNow
<1>9. HoldsWhatIsOwed(new)
  BY <1>5, <1>6, <1>7 DEF HoldsWhatIsOwed
<1>10. tap[t].mode = "live" /\ servo' = servo
  BY DEF Push
<1>11. \A u \in Taps : tap'[u] = IF u = t THEN new ELSE tap[u]
  BY <1>1, <1>3
<1> QED
  BY <1>7, <1>8, <1>9, <1>10, <1>11 DEF SupplyInv, Dries

LEMMA VerbKeepsSupply ==
  ASSUME TrimInv, SupplyInv, NEW t \in Taps, NEW delay \in Delays \cup {0},
         SetSourceSyncOffset(t, delay) \/ AttachSource(t, delay) \/ DetachSource(t)
  PROVE  SupplyInv' /\ \A u \in Taps : ~Dries(u)
<1>1. tap[t] \in TapType /\ tap \in [Taps -> TapType] /\ servo.mixes \in Nat
  BY DEF TrimInv, TypeOK
<1>2. OwedIsSeen(tap[t], servo.mixes) /\ HoldsWhatIsOwed(tap[t]) /\ servo.mixes <= Window
      /\ (tap[t].mode = "off" => ~tap[t].primed)
  BY DEF SupplyInv
<1>3. servo' = servo
  BY DEF SetSourceSyncOffset, AttachSource, DetachSource
<1>4. PICK new : /\ tap' = [tap EXCEPT ![t] = new]
                 /\ OwedIsSeen(new, servo.mixes) /\ HoldsWhatIsOwed(new)
                 /\ new.mode = "off" => ~new.primed
                 /\ new.primed = tap[t].primed
  <2>1. CASE SetSourceSyncOffset(t, delay)
    <3> DEFINE new == [tap[t] EXCEPT !.want = delay]
    <3>1. tap' = [tap EXCEPT ![t] = new]
      BY <1>1, <2>1 DEF SetSourceSyncOffset
    <3>2. LeavesOwed(tap[t], new)
      BY <1>1 DEF LeavesOwed, SameOwed, TapType
    <3> HIDE DEF new
    <3> QED
      BY <1>2, <3>1, <3>2, SupplyCarries DEF LeavesOwed
  <2>2. CASE AttachSource(t, delay)
    <3>1. tap' = [tap EXCEPT ![t] = NewTap(delay)] /\ tap[t].mode = "off"
      BY <2>2 DEF AttachSource
    <3>2. /\ OwedIsSeen(NewTap(delay), servo.mixes) /\ HoldsWhatIsOwed(NewTap(delay))
          /\ ~NewTap(delay).primed /\ NewTap(delay).primed \in BOOLEAN
      BY <1>1, <1>2, NothingOwed DEF NewTap, NoTap
    <3>3. tap[t].primed \in BOOLEAN /\ ~tap[t].primed
      BY <1>1, <1>2, <3>1 DEF TapType
    <3> QED
      BY <3>1, <3>2, <3>3
  <2>3. CASE DetachSource(t)
    <3> DEFINE new == [tap[t] EXCEPT !.mode = "draining"]
    <3>1. tap' = [tap EXCEPT ![t] = new]
      BY <1>1, <2>3 DEF DetachSource
    <3>2. /\ SameOwed(tap[t], new) /\ new.late = tap[t].late /\ new.spent = tap[t].spent
          /\ new.primed = tap[t].primed /\ new.fill = tap[t].fill /\ new.mode = "draining"
      BY <1>1 DEF SameOwed, TapType
    <3> HIDE DEF new
    <3>3. OwedIsSeen(new, servo.mixes) /\ HoldsWhatIsOwed(new)
      BY <1>2, <3>2, OwedCarries DEF HoldsWhatIsOwed, SameOwed
    <3> QED
      BY <3>1, <3>2, <3>3
  <2> QED
    BY <2>1, <2>2, <2>3
<1>5. \A u \in Taps : tap'[u] = IF u = t THEN new ELSE tap[u]
  BY <1>1, <1>4
<1> QED
  BY <1>2, <1>3, <1>4, <1>5 DEF SupplyInv, Dries

LEMMA DeviceKeepsSupply ==
  ASSUME TrimInv, SupplyInv, DeviceLost \/ OpenDevice
  PROVE  SupplyInv' /\ \A t \in Taps : ~Dries(t)
<1>1. \A t \in Taps : tap[t] \in TapType
  BY DEF TrimInv, TypeOK
<1>2. CASE DeviceLost
  BY <1>2 DEF DeviceLost, SupplyInv, Dries
<1>3. CASE OpenDevice
  <2>1. servo'.mixes = 0 /\ 0 <= Window /\ Window \in Nat
    BY <1>3, WindowsAssumption DEF OpenDevice, TrimInv, TypeOK
  <2>2. ASSUME NEW t \in Taps
        PROVE  /\ OwedIsSeen(tap[t], 0) /\ HoldsWhatIsOwed(tap[t])
               /\ tap'[t] \in {tap[t], Resynced(tap[t])}
    <3>1. OwedIsSeen(tap[t], servo.mixes) /\ HoldsWhatIsOwed(tap[t]) /\ tap[t].due \in Nat
      BY <1>1 DEF SupplyInv, TapType
    <3>2. OwedIsSeen(tap[t], 0)
      BY <2>1, <3>1 DEF OwedIsSeen, Chunk
    <3> QED
      BY <1>3, <3>1, <3>2 DEF OpenDevice
  <2>3. ASSUME NEW t \in Taps
        PROVE  /\ OwedIsSeen(tap'[t], 0) /\ HoldsWhatIsOwed(tap'[t])
               /\ tap'[t].primed = tap[t].primed /\ tap'[t].mode = tap[t].mode
    BY <1>1, <2>2, ResyncedSupply
  <2>4. ASSUME NEW t \in Taps PROVE (tap'[t].mode = "off" => ~tap'[t].primed) /\ ~Dries(t)
    BY <2>3 DEF SupplyInv, Dries
  <2> QED
    BY <2>1, <2>3, <2>4 DEF SupplyInv
<1> QED
  BY <1>2, <1>3

LEMMA StepKeepsSupply ==
  ASSUME ShortPushes, TrimInv, SupplyInv, [Next]_vars
  PROVE  SupplyInv' /\ \A t \in Taps : Dries(t) => tap'[t].late \/ tap'[t].spent
<1>1. ASSUME NEW t \in Taps, Verb(t)
      PROVE  SupplyInv' /\ \A u \in Taps : ~Dries(u)
  <2>1. CASE \E n \in Blocks : Push(t, n)
    BY <2>1, PushKeepsSupply
  <2>2. CASE \E delay \in Delays : SetSourceSyncOffset(t, delay) \/ AttachSource(t, delay)
    BY <2>2, VerbKeepsSupply
  <2>3. CASE DetachSource(t)
    <3>1. 0 \in Delays \cup {0}
      OBVIOUS
    <3> QED
      BY <2>3, <3>1, VerbKeepsSupply
  <2> QED
    BY <1>1, <2>1, <2>2, <2>3 DEF Verb
<1>2. CASE MixChunk
  BY <1>2, MixKeepsSupply
<1>3. CASE ServoTick
  BY <1>3, TickKeepsSupply
<1>4. CASE DeviceLost \/ OpenDevice
  BY <1>4, DeviceKeepsSupply
<1>5. CASE UNCHANGED vars
  <2>1. tap' = tap /\ servo' = servo
    BY <1>5 DEF vars
  <2> QED
    BY <2>1 DEF SupplyInv, Dries
<1> QED
  BY <1>1, <1>2, <1>3, <1>4, <1>5 DEF Next

----------------------------------------------------------------------------
(***************************************************************************)
(* The results.                                                            *)
(***************************************************************************)

\* Every variable keeps its type, and no ring holds more than its capacity
\* (AudioMixEngine's taps and the servo state of renderThread).
THEOREM TypeCorrect == Spec => []TypeOK
<1>1. TrimInv => TypeOK
  BY DEF TrimInv
<1> QED
  BY <1>1, TrimInvInductive, PTL

\* No shed order is ever outstanding without the latch that expires it
\* (servoWindowTick's one-window validity), however many taps arm together.
THEOREM OrdersStayLatched == Spec => []OrdersLatched
<1>1. TrimInv => OrdersLatched
  BY DEF TrimInv
<1> QED
  BY <1>1, TrimInvInductive, PTL

\* A ring with less than a mix chunk of room is full enough to prime
\* (primeTargetFrames caps the cushion below the ring minus its reserve).
THEOREM FullRingsPrime == Spec => []FullRingPrimes
<1>1. TrimInv => FullRingPrimes
  <2> SUFFICES ASSUME TrimInv, NEW t \in Taps, tap[t].fill + Chunk > Capacity
               PROVE  tap[t].fill >= Prime(tap[t])
    BY DEF FullRingPrimes
  <2>1. tap[t] \in TapType
    BY DEF TrimInv, TypeOK
  <2>2. tap[t].fill \in 0..Capacity
    BY <2>1 DEF TapType
  <2>3. Prime(tap[t]) \in 0..Capacity - Chunk
    BY <2>1, PrimeBound
  <2> QED
    BY <2>2, <2>3, CapacityAssumption DEF Chunk
<1> QED
  BY <1>1, TrimInvInductive, PTL

\* A contributing ring never runs dry while its producer is on time and its reserve
\* was whole when its delay was shortened (renderThread's reads, the immediate and
\* deferred sheds, the resyncs), when no push is longer than a servo window or within
\* a chunk of the ring.
THEOREM SteadyRingsNeverDry == ShortPushes /\ Spec => SteadyNeverDries
<1> DEFINE Safe == \A t \in Taps : Dries(t) => tap'[t].late \/ tap'[t].spent
<1>1. Init => SupplyInv
  <2> SUFFICES ASSUME Init PROVE SupplyInv
    OBVIOUS
  <2>1. 0 \in Nat /\ 0 <= Window
    BY WindowsAssumption
  <2>2. servo.mixes = 0 /\ \A t \in Taps : tap[t] = NoTap
    BY DEF Init
  <2>3. OwedIsSeen(NoTap, 0) /\ HoldsWhatIsOwed(NoTap) /\ ~NoTap.primed
    BY <2>1, NothingOwed
  <2> QED
    BY <2>1, <2>2, <2>3 DEF SupplyInv
<1>2. ShortPushes /\ TrimInv /\ SupplyInv /\ [Next]_vars => SupplyInv' /\ [Safe]_vars
  BY StepKeepsSupply
<1>3. ShortPushes => ShortPushes'
  BY DEF ShortPushes
<1> HIDE DEF Safe
<1>4. ShortPushes /\ Spec => [][Safe]_vars
  BY <1>1, <1>2, <1>3, TrimInvInductive, PTL DEF Spec
<1> QED
  BY <1>4 DEF SteadyNeverDries, Safe
=============================================================================
