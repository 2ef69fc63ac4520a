--------------------------- MODULE ServoTrimLogic ---------------------------
(***************************************************************************)
(* The decisions of the audio fill servo (ServoTrimLogic.hpp): cushions,   *)
(* shed floors and one window's choice between shedding now, arming an     *)
(* order for later and commanding the resampler.  Pure operators, without  *)
(* state.  The unit of fill is 240 frames (5 ms): every constant of the    *)
(* source is a whole number of units, but for the 19 ms of the threshold.  *)
(***************************************************************************)
EXTENDS Integers, FiniteSets, Functions

Chunk == 2        \* kChunkFrames: what one mix reads
PrimeFloor == 5   \* kPrimeFloorFrames
PrimeMargin == 3  \* kPrimeMarginFrames
Target == 3       \* kTroughTargetMs
Slack == 1        \* kShedSlackFrames
Quantum == 1      \* kShedQuantumFrames

Larger(m, n) == IF m >= n THEN m ELSE n
Smaller(m, n) == IF m <= n THEN m ELSE n

\* The burst envelope: up at once, down a quarter per window, held in silence.
BurstEnvelope(env, windowMax) ==
  IF windowMax = 0 THEN env ELSE Larger(windowMax, (env * 3) \div 4)

\* Mutant: the cushion is not capped to what the ring can hold.
PrimeTargetUncapped(burst, capacity) == Larger(PrimeFloor, burst + PrimeMargin)

\* The fill a tap waits for before it contributes.
PrimeTarget(burst, capacity) ==
  Smaller(Larger(PrimeFloor, burst + PrimeMargin),
          IF capacity > Chunk THEN capacity - Chunk ELSE capacity)

\* Mutant: the push period still to bridge is forgotten.
BridgeFloorFlat(env) == 1

\* The fill an immediate shed leaves: a push period and 5 ms.
BridgeFloor(env) == env + 1

\* The fill a deferred shed leaves, just after a read.
DeferredFloor(burst) == Larger(burst - Chunk, 0) + Target - Slack

DeferredReady(pending, fill, burst) == fill - DeferredFloor(burst) >= pending

----------------------------------------------------------------------------
(***************************************************************************)
(* One window of one tap, from its view: eligible, trough, fill, peak, env *)
(***************************************************************************)

Excess(view) ==
  IF view.eligible /\ view.trough > Target THEN view.trough - Target ELSE 0

ShedNow(view) ==
  IF view.fill - BridgeFloor(view.env) >= Excess(view) THEN Excess(view) ELSE 0

\* The orbit's reach: what a deferred shed can clear above its floor.
Reach(view) == Larger(view.peak - DeferredFloor(view.env), 0)

Arm(view) ==
  IF ShedNow(view) > 0 \/ Smaller(Excess(view), Reach(view)) < Quantum
    THEN 0
    ELSE Smaller(Excess(view), Reach(view))

\* The mean of the troughs (a function of the sampled taps) is above 19 ms.
High(troughs) == 5 * SumFunction(troughs) > 19 * Cardinality(DOMAIN troughs)
=============================================================================
