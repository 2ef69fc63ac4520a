------------------------------ MODULE ServoTrim ------------------------------
(***************************************************************************)
(* The fill of the rings and the servo that regulates it: push threads     *)
(* fill, the render thread mixes chunk by chunk, and once a window it      *)
(* decides (ServoTrimLogic) which tap sheds standing fill, now or by an    *)
(* order the mixing executes when the fill allows it.  Verb threads change *)
(* a source's sync offset, sources come and go, the device is lost and     *)
(* reopened.                                                               *)
(*                                                                         *)
(* Abstracted: the samples and their fades (see TapSplice), the resampler  *)
(* ratio, and the EMA behind the saturation resync, which may come in any  *)
(* window that commands the servo.  A tap's `due' is the fill that may     *)
(* still be read before its next push is late, `late' that one was, and    *)
(* `spent' that a delay was shortened of which a shed had already taken a  *)
(* part, both since the last prime; they observe, nothing reads them.      *)
(* `age' is the number of windows an order has survived.                   *)
(***************************************************************************)
EXTENDS ServoTrimLogic

CONSTANTS
  Taps,      \* the sources that may be attached
  Capacity,  \* the units a ring holds
  Blocks,    \* the sizes of a push
  Delays,    \* the sync offsets, in units
  Patience,  \* the net high windows before the trim acts (kTrimWindows)
  HighLimit, \* the bound on the count of high windows
  Window,    \* the mixes a servo window holds at least (kServoPeriodSec)
  Warmup     \* the windows after an open in which nothing is decided

ASSUME CapacityAssumption == Capacity \in Nat
ASSUME BlocksAssumption == Blocks \subseteq Nat \ {0}
ASSUME DelaysAssumption == Delays \subseteq Nat
\* kSyncOffsetMaxMs leaves more than a chunk of the ring.
ASSUME HeadroomAssumption == \A d \in Delays \cup {0} : d + Chunk < Capacity
ASSUME WindowsAssumption ==
  /\ Patience \in Nat /\ HighLimit \in Nat
  /\ Window \in Nat /\ Warmup \in Nat

VARIABLES
  tap,     \* tap[t]: the tap of source t
  servo,   \* the regulation state: high, armed, executed, and its clock: warm, mixes
  device   \* "up", "lost" or "none" (never opened)

vars == <<tap, servo, device>>

None == -1  \* winMinMs before a sample, and any negative trough

NoTap == [mode |-> "off", primed |-> FALSE, fill |-> 0, env |-> 0, burst |-> 0,
          min |-> None, peak |-> 0, want |-> 0, delay |-> 0,
          pending |-> 0, age |-> 0, due |-> 0, late |-> FALSE, spent |-> FALSE]

\* A tap starts with the delay its source has stored.
NewTap(delay) == [NoTap EXCEPT !.mode = "live", !.want = delay, !.delay = delay]

Init ==
  /\ tap = [t \in Taps |-> NoTap]
  /\ servo = [high |-> 0, armed |-> FALSE, warm |-> 0, mixes |-> 0,
              executed |-> FALSE]
  /\ device = "none"

BurstNow(r) == Larger(r.env, r.burst)
Prime(r) == PrimeTarget(BurstNow(r), Capacity - r.delay) + r.delay
Discarded(r, n) == [r EXCEPT !.fill = Larger(@ - n, 0)]
OrderDropped(r) == [r EXCEPT !.pending = 0, !.age = 0]

----------------------------------------------------------------------------
(***************************************************************************)
(* The push threads and the verbs.                                         *)
(***************************************************************************)

Fits(t, n) == tap[t].fill + n <= Capacity

\* A chunk that does not fit is dropped whole; its size counts all the same.
Push(t, n) ==
  /\ tap[t].mode = "live"
  /\ tap' = [tap EXCEPT ![t].burst = Larger(@, n),
                        ![t].due = IF Fits(t, n) THEN n ELSE @,
                        ![t].fill = IF Fits(t, n) THEN @ + n ELSE @]
  /\ UNCHANGED <<servo, device>>

SetSourceSyncOffset(t, delay) ==
  /\ tap[t].mode = "live"
  /\ tap' = [tap EXCEPT ![t].want = delay]
  /\ UNCHANGED <<servo, device>>

AttachSource(t, delay) ==
  /\ tap[t].mode = "off"
  /\ tap' = [tap EXCEPT ![t] = NewTap(delay)]
  /\ UNCHANGED <<servo, device>>

\* The tap stays listed until the next mix has drained it.
DetachSource(t) ==
  /\ tap[t].mode = "live"
  /\ tap' = [tap EXCEPT ![t].mode = "draining"]
  /\ UNCHANGED <<servo, device>>

----------------------------------------------------------------------------
(***************************************************************************)
(* One mix: every listed tap in turn is reconciled with its delay target,  *)
(* primed if it is full enough, sampled, read, and shed if its order is    *)
(* ready.                                                                  *)
(***************************************************************************)

Reconciled(r) ==
  IF r.want = r.delay THEN r
  ELSE OrderDropped(
    IF r.want > r.delay THEN [r EXCEPT !.primed = FALSE, !.delay = r.want]
    ELSE [Discarded(r, IF r.primed THEN r.delay - r.want ELSE 0)
            EXCEPT !.delay = r.want, !.spent = @ \/ r.fill < r.delay + r.due])

PrimedIfFull(r) ==
  IF r.primed \/ r.fill < Prime(r) THEN r
  ELSE [OrderDropped(r) EXCEPT !.primed = TRUE, !.fill = Prime(r),
                               !.late = FALSE, !.spent = FALSE]

\* winMinMs: a negative trough reads as no sample yet.
Trough(r) ==
  LET basis == r.fill - r.delay IN
  IF r.min = None \/ basis < r.min THEN Larger(basis, None) ELSE r.min

\* The clock of one chunk: what the producer owes.
Elapsed(r) == [r EXCEPT !.due = Larger(@ - Chunk, 0),
                        !.late = @ \/ r.due < Chunk]

Read(r) ==
  LET left == Larger(r.fill - Chunk, 0) IN
  [r EXCEPT !.min = Trough(r),
            !.fill = left,
            !.primed = r.fill >= Chunk,
            !.peak = IF r.fill >= Chunk THEN Larger(@, left) ELSE @]

Executes(r) ==
  /\ r.pending > 0 /\ r.primed
  /\ DeferredReady(r.pending, r.fill, BurstNow(r))

ShedIfReady(r) ==
  IF Executes(r) THEN OrderDropped(Discarded(r, r.pending)) ELSE r

BeforeRead(r) == Elapsed(PrimedIfFull(Reconciled(r)))
AfterRead(r) == IF BeforeRead(r).primed THEN Read(BeforeRead(r)) ELSE BeforeRead(r)

Mixed(r) ==
  IF r.mode = "live" THEN ShedIfReady(AfterRead(r)) ELSE NoTap

MixChunk ==
  /\ device = "up"
  /\ tap' = [t \in Taps |-> Mixed(tap[t])]
  /\ servo' = [servo EXCEPT
       !.mixes = Smaller(@ + 1, Window),
       !.executed = @ \/ \E t \in Taps : tap[t].mode = "live" /\ Executes(AfterRead(tap[t]))]
  /\ UNCHANGED device

----------------------------------------------------------------------------
(***************************************************************************)
(* The servo tick.                                                         *)
(***************************************************************************)

Listed == {t \in Taps : tap[t].mode # "off"}
Sampled == {t \in Listed : tap[t].min # None}

\* What settles at the end of a window.
Settled(r) ==
  [r EXCEPT !.min = None,
            !.peak = 0,
            !.env = BurstEnvelope(@, r.burst),
            !.burst = 0,
            !.age = IF r.pending > 0 THEN 1 ELSE 0]

\* What the decision sees.  A tap without a sample is judged by its last one
\* (lastWinTroughMs): `stale', whatever that was.
View(r, stale) ==
           [eligible |-> r.mode = "live" /\ r.primed,
            trough |-> IF r.min # None THEN r.min ELSE stale,
            fill |-> r.fill,
            peak |-> r.peak,
            env |-> Settled(r).env]

\* The net count of high windows; it saturates below, and the model bounds it.
Counted(high) == IF high THEN Smaller(servo.high + 1, HighLimit)
                 ELSE Larger(servo.high - 1, 0)

\* Mutant: an order stays until it lands.
NeverExpired(r) == Settled(r)

\* An order of an earlier window expires, when the latch says there is one.
Expired(r) == IF servo.armed THEN OrderDropped(Settled(r)) ELSE Settled(r)

Ordered(r, stale) ==
  IF ShedNow(View(r, stale)) > 0
    THEN OrderDropped(Discarded(Settled(r), ShedNow(View(r, stale))))
  ELSE IF Arm(View(r, stale)) > 0 THEN [Settled(r) EXCEPT !.pending = Arm(View(r, stale)), !.age = 0]
  ELSE Expired(r)

Resynced(r) == IF r.fill > Prime(r) THEN [r EXCEPT !.fill = Prime(r)] ELSE r

\* No trough was sampled, or the warm-up is not over: nothing is decided.
Undecided ==
  /\ tap' = [t \in Taps |-> Settled(tap[t])]
  /\ servo' = [servo EXCEPT !.warm = Larger(@ - 1, 0), !.mixes = 0]

\* A deferred shed has landed: it retires every order of its window.
Resolved ==
  /\ servo.executed
  /\ tap' = [t \in Taps |-> OrderDropped(Settled(tap[t]))]
  /\ servo' = [servo EXCEPT !.high = 0, !.armed = FALSE, !.mixes = 0,
                            !.executed = FALSE]

\* Below the patience no tap is touched, and what was armed expires.
Patient(high) ==
  /\ ~servo.executed
  /\ Counted(high) < Patience
  /\ \E resync \in BOOLEAN :
       tap' = [t \in Taps |->
                 IF resync THEN Resynced(Expired(tap[t])) ELSE Expired(tap[t])]
  /\ servo' = [servo EXCEPT !.high = Counted(high), !.armed = FALSE,
                            !.mixes = 0]

\* At the patience each eligible tap sheds its excess or is armed for it.
Trimmed(high, stale) ==
  LET shed == \E t \in Taps : ShedNow(View(tap[t], stale)) > 0
      armed == \E t \in Taps : Arm(View(tap[t], stale)) > 0 IN
  /\ ~servo.executed
  /\ Counted(high) >= Patience
  /\ \E resync \in BOOLEAN :
       /\ resync => ~shed
       /\ tap' = [t \in Taps |->
                    IF resync THEN Resynced(Ordered(tap[t], stale)) ELSE Ordered(tap[t], stale)]
  /\ servo' = [servo EXCEPT !.high = IF shed /\ ~armed THEN 0 ELSE Counted(high),
                            !.armed = armed, !.mixes = 0]

Decides == Sampled # {} /\ servo.warm = 0

ServoTick ==
  /\ device = "up" /\ servo.mixes = Window
  /\ IF Decides
       THEN LET high == High([t \in Sampled |-> tap[t].min]) IN
            \/ Resolved
            \/ Patient(high)
            \/ \E stale \in None..Capacity : Trimmed(high, stale)
       ELSE Undecided
  /\ UNCHANGED device

----------------------------------------------------------------------------
(***************************************************************************)
(* The device.                                                             *)
(***************************************************************************)

DeviceLost ==
  /\ device = "up"
  /\ device' = "lost"
  /\ UNCHANGED <<tap, servo>>

\* The backlog of the gap is shed; the trim's latch and orders are not.
OpenDevice ==
  /\ device # "up"
  /\ device' = "up"
  /\ servo' = [servo EXCEPT !.warm = Warmup, !.mixes = 0]
  /\ tap' = IF device = "none" THEN tap
            ELSE [t \in Taps |-> IF t \in Listed THEN Resynced(tap[t]) ELSE tap[t]]

----------------------------------------------------------------------------

Verb(t) ==
  \/ \E n \in Blocks : Push(t, n)
  \/ \E delay \in Delays : SetSourceSyncOffset(t, delay) \/ AttachSource(t, delay)
  \/ DetachSource(t)

Next == (\E t \in Taps : Verb(t)) \/ MixChunk \/ ServoTick \/ DeviceLost \/ OpenDevice

Spec == Init /\ [][Next]_vars

----------------------------------------------------------------------------
(***************************************************************************)
(* Properties.                                                             *)
(***************************************************************************)

TapType ==
  [mode : {"off", "live", "draining"}, primed : BOOLEAN, fill : 0..Capacity,
   env : Nat, burst : Nat, min : Int, peak : 0..Capacity,
   want : Delays \cup {0}, delay : Delays \cup {0}, pending : Nat, age : {0, 1}, due : Nat,
   late : BOOLEAN, spent : BOOLEAN]

\* Every variable keeps its type; no ring holds more than its capacity.
TypeOK ==
  /\ tap \in [Taps -> TapType]
  /\ servo \in [high : Nat, armed : BOOLEAN, warm : Nat, mixes : Nat,
               executed : BOOLEAN]
  /\ device \in {"none", "up", "lost"}

\* No order is outstanding without the latch that makes it expire: not the
\* sibling of a tap that shed at once, not one left over when another landed.
OrdersLatched == \A t \in Taps : tap[t].pending > 0 => servo.armed

\* The steps at which a contributing tap runs dry.
Dries(t) ==
  /\ tap[t].primed /\ ~tap'[t].primed
  /\ tap'[t].mode = "live" /\ tap'[t].delay = tap[t].delay

\* Whatever sheds, delay changes, resyncs and reopened devices do to its
\* ring, since the last prime its producer was late when a tap runs dry, or its
\* delay was shortened by more than the sheds had left of it.
SteadyNeverDries == [][\A t \in Taps : Dries(t) => tap'[t].late \/ tap'[t].spent]_vars

\* No push is longer than a window, and every push fits with a chunk to spare.
ShortPushes ==
  \A n \in Blocks : n <= Chunk * Window /\ n + Chunk <= Capacity

\* What is still owed has been seen as a burst: by the envelope or in this window,
\* and in this window unless there was time for all of it before the window began.
OwedIsSeen(r, mixes) ==
  /\ r.due <= BurstNow(r)
  /\ r.due <= r.burst \/ r.due + Chunk * mixes <= Chunk * Window
  /\ r.due <= Chunk * Window /\ r.due + Chunk <= Capacity

\* A contributing ring holds what will be read before the next push is late.
HoldsWhatIsOwed(r) == r.primed /\ ~r.late /\ ~r.spent => r.fill >= r.due

\* Why a steady ring never dries, under ShortPushes.
SupplyInv ==
  /\ servo.mixes <= Window
  /\ \A t \in Taps : /\ tap[t].mode = "off" => ~tap[t].primed
                     /\ OwedIsSeen(tap[t], servo.mixes)
                     /\ HoldsWhatIsOwed(tap[t])

\* No ring is stuck: one that cannot take another mix chunk is full enough to
\* prime, whatever its burst envelope and its delay reserve.
FullRingPrimes ==
  \A t \in Taps : tap[t].fill + Chunk > Capacity => tap[t].fill >= Prime(tap[t])

\* The steps at which an order is executed.
Lands(t) == MixChunk /\ tap[t].mode = "live" /\ Executes(AfterRead(tap[t]))

\* Claimed (servoWindowTick): a deferred shed lands in the window it was armed for.
\* One armed before the device was lost does not.
OrdersExpire == [][\A t \in Taps : Lands(t) => tap[t].age = 0]_vars

\* Claimed (AudioMixEngine.cpp:907, "the trim never eats a deliberate reserve"):
\* while its producer is on time a tap keeps its delay.  It does not when the trough
\* was sampled in less than one push period, which leaves the reserve to the shed.
ReserveKept ==
  \A t \in Taps : tap[t].primed /\ ~tap[t].late => tap[t].fill >= tap[t].delay
=============================================================================
