---------------------------- MODULE DeviceProofs ----------------------------
(***************************************************************************)
(* For any number of sources of any type: the references are balanced,     *)
(* and neither a disabled nor an idle source keeps one it should not.      *)
(* RefsBalanced is what makes TypeOK inductive (a lowered count stays in   *)
(* Nat); the other two are inductive given it.  Then the same with the     *)
(* preview running beside the verbs, and that the preview follows and lets *)
(* go (FeedInv).  Last, for any number of cameras and devices: the passes  *)
(* restart no camera for ever and leave none behind (HealInv).             *)
(***************************************************************************)
EXTENDS PreviewFeed, DeviceHeal, SequenceTheorems, TLAPS

IInv == TypeOK /\ RefsBalanced /\ DisabledHoldsNoRef /\ IdleHoldsNoRef

\* What holds of one source, so that a step is argued about the source it moves.
Sound(s, r, held, why) ==
  /\ r \in RecType
  /\ held \in Nat
  /\ why \in BOOLEAN
  /\ held = Bit(r.deviceShowing) + Bit(r.slot)
  /\ HoldsExclusiveDevice(s) /\ r.disabled => ~r.deviceShowing
  /\ HoldsExclusiveDevice(s) /\ r.releaseWhenIdle /\ r.deviceShowing => r.slot \/ why

\* The invariant is that every source is sound.
LEMMA InvIsPerSource ==
  IInv <=> /\ rec \in [Sources -> RecType]
           /\ showRefs \in [Sources -> Nat]
           /\ excused \in [Sources -> BOOLEAN]
           /\ \A s \in Sources : Sound(s, rec[s], showRefs[s], excused[s])
  BY DEF IInv, TypeOK, RefsBalanced, DisabledHoldsNoRef, IdleHoldsNoRef, Sound, Bit

\* applyDeviceShowing on a balanced record: one reference for the flag, whatever it was.
LEMMA AppliedIsBalanced ==
  ASSUME NEW r \in RecType, NEW on \in BOOLEAN, NEW held \in Nat,
         held = Bit(r.deviceShowing) + Bit(r.slot)
  PROVE  /\ Shown(r, on) \in RecType
         /\ RefsAfter(held, r, on) \in Nat
         /\ RefsAfter(held, r, on) = Bit(on) + Bit(r.slot)
         /\ Shown(r, on).deviceShowing = on
         /\ Shown(r, on).slot = r.slot
         /\ Shown(r, on).disabled = r.disabled
         /\ Shown(r, on).releaseWhenIdle = r.releaseWhenIdle
  <1>1. /\ Shown(r, on) \in RecType
        /\ Shown(r, on).deviceShowing = on
        /\ Shown(r, on).slot = r.slot
        /\ Shown(r, on).disabled = r.disabled
        /\ Shown(r, on).releaseWhenIdle = r.releaseWhenIdle
    BY DEF Shown, RecType
  <1>2. /\ RefsAfter(held, r, on) \in Nat
        /\ RefsAfter(held, r, on) = Bit(on) + Bit(r.slot)
    <2>1. r.deviceShowing \in BOOLEAN /\ r.slot \in BOOLEAN
      BY DEF RecType
    <2>2. CASE on
      BY <2>1, <2>2 DEF RefsAfter, Bit
    <2>3. CASE ~on
      BY <2>1, <2>3 DEF RefsAfter, Bit
    <2> QED BY <2>2, <2>3
  <1> QED BY <1>1, <1>2

\* A step that replaces the entries of one source by sound ones keeps the invariant.
LEMMA OneSourceMoves ==
  ASSUME IInv, NEW s \in Sources, NEW r, NEW held, NEW why,
         rec' = [rec EXCEPT ![s] = r],
         showRefs' = [showRefs EXCEPT ![s] = held],
         excused' = [excused EXCEPT ![s] = why],
         Sound(s, r, held, why)
  PROVE  IInv'
  <1>1. /\ rec \in [Sources -> RecType]
        /\ showRefs \in [Sources -> Nat]
        /\ excused \in [Sources -> BOOLEAN]
        /\ \A q \in Sources : Sound(q, rec[q], showRefs[q], excused[q])
    BY InvIsPerSource
  <1>2. r \in RecType /\ held \in Nat /\ why \in BOOLEAN
    BY DEF Sound
  <1>3. /\ rec' \in [Sources -> RecType]
        /\ showRefs' \in [Sources -> Nat]
        /\ excused' \in [Sources -> BOOLEAN]
    BY <1>1, <1>2
  <1>4. ASSUME NEW q \in Sources
        PROVE  Sound(q, rec'[q], showRefs'[q], excused'[q])
    <2>1. CASE q = s
      <3>1. rec'[q] = r /\ showRefs'[q] = held /\ excused'[q] = why
        BY <1>1, <2>1
      <3> QED BY <3>1, <2>1
    <2>2. CASE q # s
      <3>1. rec'[q] = rec[q] /\ showRefs'[q] = showRefs[q] /\ excused'[q] = excused[q]
        BY <1>1, <2>2
      <3> QED BY <3>1, <1>1
    <2> QED BY <2>1, <2>2
  <1>5. \A q \in Sources : Sound(q, rec'[q], showRefs'[q], excused'[q])
    BY <1>4
  <1> QED BY <1>3, <1>5
       DEF IInv, TypeOK, RefsBalanced, DisabledHoldsNoRef, IdleHoldsNoRef, Sound, Bit

\* The facts a step starts from, about the source it moves.
LEMMA SoundNow ==
  ASSUME IInv, NEW s \in Sources
  PROVE  /\ Sound(s, rec[s], showRefs[s], excused[s])
         /\ excused = [excused EXCEPT ![s] = excused[s]]
         /\ rec[s].live \in BOOLEAN /\ rec[s].configured \in BOOLEAN
         /\ rec[s].releaseWhenIdle \in BOOLEAN /\ rec[s].disabled \in BOOLEAN
         /\ rec[s].deviceShowing \in BOOLEAN /\ rec[s].slot \in BOOLEAN
  <1>1. /\ excused \in [Sources -> BOOLEAN]
        /\ Sound(s, rec[s], showRefs[s], excused[s])
    BY InvIsPerSource
  <1> QED BY <1>1 DEF Sound, RecType

LEMMA TypesOfSources == \A s \in Sources : HoldsExclusiveDevice(s) \in BOOLEAN
  BY DEF HoldsExclusiveDevice

LEMMA InitIsSound == Init => IInv
  BY DEF Init, IInv, TypeOK, RefsBalanced, DisabledHoldsNoRef, IdleHoldsNoRef, NoRec, RecType
-----------------------------------------------------------------------------
LEMMA CreateIsSound ==
  ASSUME IInv, NEW s \in Sources, CreateSource(s)  PROVE IInv'
  <1>1. PICK chosen \in BOOLEAN, attached \in BOOLEAN :
          /\ rec' = [rec EXCEPT ![s] =
                       [NoRec EXCEPT !.live = TRUE, !.configured = chosen,
                                     !.deviceShowing = chosen \/ ~Gated(s),
                                     !.slot = attached]]
          /\ showRefs' = [showRefs EXCEPT ![s] = Bit(chosen \/ ~Gated(s)) + Bit(attached)]
    BY DEF CreateSource, TargetConfigured, Bit
  <1> DEFINE r == [NoRec EXCEPT !.live = TRUE, !.configured = chosen,
                                !.deviceShowing = chosen \/ ~Gated(s), !.slot = attached]
             held == Bit(chosen \/ ~Gated(s)) + Bit(attached)
  <1>2. Gated(s) \in BOOLEAN
    BY DEF Gated
  <1>3. /\ r \in RecType
        /\ r.deviceShowing = (chosen \/ ~Gated(s))
        /\ r.slot = attached
        /\ ~r.disabled
        /\ ~r.releaseWhenIdle
    BY <1>2 DEF RecType, NoRec
  <1>4. held \in Nat
    BY DEF Bit
  <1>5. held = Bit(r.deviceShowing) + Bit(r.slot)
    BY <1>3
  <1>6. Sound(s, r, held, FALSE)
    BY <1>3, <1>4, <1>5 DEF Sound
  <1>7. excused' = [excused EXCEPT ![s] = FALSE]
    BY DEF CreateSource, Excuse
  <1> QED BY <1>1, <1>6, <1>7, OneSourceMoves

LEMMA RemoveIsSound ==
  ASSUME IInv, NEW s \in Sources, RemoveSource(s)  PROVE IInv'
  <1>1. Sound(s, rec[s], showRefs[s], excused[s])
    BY SoundNow
  <1>2. showRefs[s] - Bit(rec[s].slot) - Bit(rec[s].deviceShowing) = 0
    BY <1>1 DEF Sound, Bit
  <1>3. Sound(s, NoRec, 0, FALSE)
    BY DEF Sound, NoRec, RecType, Bit
  <1>4. /\ rec' = [rec EXCEPT ![s] = NoRec]
        /\ excused' = [excused EXCEPT ![s] = FALSE]
        /\ showRefs' = [showRefs EXCEPT ![s] = showRefs[s] - Bit(rec[s].slot)
                                                 - Bit(rec[s].deviceShowing)]
    BY DEF RemoveSource, Excuse, Bit
  <1>5. showRefs' = [showRefs EXCEPT ![s] = 0]
    BY <1>2, <1>4
  <1> QED BY <1>3, <1>4, <1>5, OneSourceMoves

\* Setting one flag of a record leaves the other fields alone.
LEMMA SlotSet ==
  ASSUME NEW r \in RecType, NEW on \in BOOLEAN
  PROVE  /\ [r EXCEPT !.slot = on] \in RecType
         /\ [r EXCEPT !.slot = on].slot = on
         /\ [r EXCEPT !.slot = on].deviceShowing = r.deviceShowing
         /\ [r EXCEPT !.slot = on].disabled = r.disabled
         /\ [r EXCEPT !.slot = on].releaseWhenIdle = r.releaseWhenIdle
  BY DEF RecType

LEMMA ReleaseSet ==
  ASSUME NEW r \in RecType, NEW release \in BOOLEAN
  PROVE  /\ [r EXCEPT !.releaseWhenIdle = release] \in RecType
         /\ [r EXCEPT !.releaseWhenIdle = release].slot = r.slot
         /\ [r EXCEPT !.releaseWhenIdle = release].deviceShowing = r.deviceShowing
         /\ [r EXCEPT !.releaseWhenIdle = release].disabled = r.disabled
  BY DEF RecType

LEMMA TargetSet ==
  ASSUME NEW r \in RecType, NEW chosen \in BOOLEAN
  PROVE  /\ [r EXCEPT !.configured = chosen] \in RecType
         /\ [r EXCEPT !.configured = chosen].slot = r.slot
         /\ [r EXCEPT !.configured = chosen].deviceShowing = r.deviceShowing
         /\ [r EXCEPT !.configured = chosen].disabled = r.disabled
         /\ [r EXCEPT !.configured = chosen].releaseWhenIdle = r.releaseWhenIdle
  BY DEF RecType

\* Attaching after the reference was decided by disabled alone, whether or not it succeeds.
LEMMA StartIsSound ==
  ASSUME IInv, NEW s \in Sources, StartBroadcast(s)  PROVE IInv'
  <1> DEFINE r == rec[s]
             on == ~r.disabled
             shown == Shown(r, on)
             held == RefsAfter(showRefs[s], r, on)
             live == [shown EXCEPT !.slot = TRUE]
  <1>1. /\ r \in RecType
        /\ showRefs[s] \in Nat
        /\ showRefs[s] = Bit(r.deviceShowing) + Bit(r.slot)
        /\ on \in BOOLEAN
        /\ ~r.slot
    BY SoundNow DEF Sound, StartBroadcast
  <1>2. /\ shown \in RecType
        /\ held \in Nat
        /\ held = Bit(on) + Bit(r.slot)
        /\ shown.deviceShowing = on
        /\ shown.slot = r.slot
        /\ shown.disabled = r.disabled
        /\ shown.releaseWhenIdle = r.releaseWhenIdle
    BY <1>1, AppliedIsBalanced
  <1>3. \/ Keep(s, held + 1, live) /\ Excuse(s, FALSE)
        \/ Keep(s, held, shown) /\ Excuse(s, TRUE)
    BY DEF StartBroadcast
  <1>4. CASE Keep(s, held + 1, live) /\ Excuse(s, FALSE)
    <2>1. /\ live \in RecType
          /\ live.slot = TRUE
          /\ live.deviceShowing = on
          /\ live.disabled = r.disabled
      BY <1>2, SlotSet
    <2>2. held + 1 = Bit(live.deviceShowing) + Bit(live.slot) /\ held + 1 \in Nat
      <3>1. live.deviceShowing = on /\ live.slot
        BY <2>1
      <3>2. ~r.slot /\ on \in BOOLEAN /\ held \in Nat /\ held = Bit(on) + Bit(r.slot)
        BY <1>1, <1>2
      <3> HIDE DEF r, on, held, live
      <3> QED BY <3>1, <3>2 DEF Bit
    <2>3. Sound(s, live, held + 1, FALSE)
      BY <2>1, <2>2 DEF Sound
    <2>4. /\ rec' = [rec EXCEPT ![s] = live]
          /\ showRefs' = [showRefs EXCEPT ![s] = held + 1]
          /\ excused' = [excused EXCEPT ![s] = FALSE]
      BY <1>4 DEF Keep, Excuse
    <2> QED BY <2>3, <2>4, OneSourceMoves
  <1>5. CASE Keep(s, held, shown) /\ Excuse(s, TRUE)
    <2>1. held = Bit(shown.deviceShowing) + Bit(shown.slot)
      BY <1>2
    <2>2. Sound(s, shown, held, TRUE)
      BY <1>2, <2>1 DEF Sound
    <2>3. /\ rec' = [rec EXCEPT ![s] = shown]
          /\ showRefs' = [showRefs EXCEPT ![s] = held]
          /\ excused' = [excused EXCEPT ![s] = TRUE]
      BY <1>5 DEF Keep, Excuse
    <2> QED BY <2>2, <2>3, OneSourceMoves
  <1> QED BY <1>3, <1>4, <1>5

\* Stopping takes the slot's reference back and, where it must, the helper's.
LEMMA StopIsSound ==
  ASSUME IInv, NEW s \in Sources, StopBroadcast(s)  PROVE IInv'
  <1> DEFINE r == [rec[s] EXCEPT !.slot = FALSE]
             held == showRefs[s] - 1
             frees == (r.releaseWhenIdle \/ r.disabled) /\ HoldsExclusiveDevice(s)
  <1>1. /\ rec[s] \in RecType
        /\ showRefs[s] \in Nat
        /\ showRefs[s] = Bit(rec[s].deviceShowing) + Bit(rec[s].slot)
        /\ rec[s].slot
    BY SoundNow DEF Sound, StopBroadcast
  <1>2. /\ r \in RecType
        /\ r.slot = FALSE
        /\ r.deviceShowing = rec[s].deviceShowing
        /\ r.disabled = rec[s].disabled
        /\ r.releaseWhenIdle = rec[s].releaseWhenIdle
    BY <1>1, SlotSet
  <1>3. held \in Nat /\ held = Bit(r.deviceShowing) + Bit(r.slot)
    BY <1>1, <1>2 DEF Bit
  <1>4. /\ IF frees THEN Apply(s, held, r, FALSE) ELSE Keep(s, held, r)
        /\ excused' = [excused EXCEPT ![s] = FALSE]
    BY DEF StopBroadcast, Excuse
  <1>5. CASE frees
    <2> DEFINE shown == Shown(r, FALSE)
               left == RefsAfter(held, r, FALSE)
    <2>1. /\ shown \in RecType
          /\ left \in Nat
          /\ left = Bit(FALSE) + Bit(r.slot)
          /\ shown.deviceShowing = FALSE
          /\ shown.slot = r.slot
      BY <1>2, <1>3, AppliedIsBalanced
    <2>2. Sound(s, shown, left, FALSE)
      BY <2>1 DEF Sound
    <2>3. /\ rec' = [rec EXCEPT ![s] = shown]
          /\ showRefs' = [showRefs EXCEPT ![s] = left]
      BY <1>4, <1>5 DEF Apply
    <2> QED BY <1>4, <2>2, <2>3, OneSourceMoves
  <1>6. CASE ~frees
    <2>1. Sound(s, r, held, FALSE)
      BY <1>2, <1>3, <1>6 DEF Sound
    <2>2. /\ rec' = [rec EXCEPT ![s] = r]
          /\ showRefs' = [showRefs EXCEPT ![s] = held]
      BY <1>4, <1>6 DEF Keep
    <2> QED BY <1>4, <2>1, <2>2, OneSourceMoves
  <1> QED BY <1>5, <1>6

\* A re-attach that works changes nothing; one that fails gives the slot's reference back.
LEMMA FormatIsSound ==
  ASSUME IInv, NEW s \in Sources, SetSourceFormat(s)  PROVE IInv'
  <1> DEFINE r == [rec[s] EXCEPT !.slot = FALSE]
             held == showRefs[s] - 1
  <1>1. CASE UNCHANGED vars
    BY <1>1 DEF vars, IInv, TypeOK, RefsBalanced, DisabledHoldsNoRef, IdleHoldsNoRef
  <1>2. CASE Keep(s, held, r) /\ Excuse(s, TRUE)
    <2>1. /\ rec[s] \in RecType
          /\ showRefs[s] \in Nat
          /\ showRefs[s] = Bit(rec[s].deviceShowing) + Bit(rec[s].slot)
          /\ rec[s].slot
          /\ HoldsExclusiveDevice(s) /\ rec[s].disabled => ~rec[s].deviceShowing
      BY SoundNow DEF Sound, SetSourceFormat
    <2>2. /\ r \in RecType
          /\ r.slot = FALSE
          /\ r.deviceShowing = rec[s].deviceShowing
          /\ r.disabled = rec[s].disabled
      BY <2>1, SlotSet
    <2>3. held \in Nat /\ held = Bit(r.deviceShowing) + Bit(r.slot)
      BY <2>1, <2>2 DEF Bit
    <2>4. Sound(s, r, held, TRUE)
      BY <2>1, <2>2, <2>3 DEF Sound
    <2>5. /\ rec' = [rec EXCEPT ![s] = r]
          /\ showRefs' = [showRefs EXCEPT ![s] = held]
          /\ excused' = [excused EXCEPT ![s] = TRUE]
      BY <1>2 DEF Keep, Excuse
    <2> QED BY <2>4, <2>5, OneSourceMoves
  <1> QED BY <1>1, <1>2 DEF SetSourceFormat

\* A refused idle mode has stored releaseWhenIdle, which is why the source is excused.
LEMMA RefusedIsSound ==
  ASSUME IInv, NEW s \in Sources, IdleModeRefused(s)  PROVE IInv'
  <1>1. PICK release \in BOOLEAN :
          Keep(s, showRefs[s], [rec[s] EXCEPT !.releaseWhenIdle = release])
    BY DEF IdleModeRefused
  <1> DEFINE r == [rec[s] EXCEPT !.releaseWhenIdle = release]
  <1>2. Sound(s, rec[s], showRefs[s], excused[s])
    BY SoundNow
  <1>3. /\ r \in RecType
        /\ r.slot = rec[s].slot
        /\ r.deviceShowing = rec[s].deviceShowing
        /\ r.disabled = rec[s].disabled
    BY <1>2, ReleaseSet DEF Sound
  <1>4. Sound(s, r, showRefs[s], TRUE)
    BY <1>2, <1>3 DEF Sound
  <1>5. /\ rec' = [rec EXCEPT ![s] = r]
        /\ showRefs' = [showRefs EXCEPT ![s] = showRefs[s]]
        /\ excused' = [excused EXCEPT ![s] = TRUE]
    BY <1>1 DEF Keep, Excuse, IdleModeRefused
  <1> QED BY <1>4, <1>5, OneSourceMoves

\* deviceShouldShow puts the override first and idleness second.
LEMMA DecidedIsSound ==
  ASSUME NEW s \in Sources, NEW r \in RecType, NEW held \in Nat,
         held = Bit(r.deviceShowing) + Bit(r.slot)
  PROVE  /\ DeviceShouldShow(r) \in BOOLEAN
         /\ Sound(s, Shown(r, DeviceShouldShow(r)),
                  RefsAfter(held, r, DeviceShouldShow(r)), FALSE)
  <1>1. DeviceShouldShow(r) \in BOOLEAN
    BY DEF DeviceShouldShow, RecType
  <1> DEFINE on == DeviceShouldShow(r)
             shown == Shown(r, on)
             left == RefsAfter(held, r, on)
  <1>2. /\ shown \in RecType
        /\ left \in Nat
        /\ left = Bit(on) + Bit(r.slot)
        /\ shown.deviceShowing = on
        /\ shown.slot = r.slot
        /\ shown.disabled = r.disabled
        /\ shown.releaseWhenIdle = r.releaseWhenIdle
    BY <1>1, AppliedIsBalanced
  <1>3. on => ~r.disabled /\ (r.releaseWhenIdle => r.slot)
    BY DEF DeviceShouldShow
  <1>4. left = Bit(shown.deviceShowing) + Bit(shown.slot)
    BY <1>2
  <1> HIDE DEF on, shown, left
  <1>5. Sound(s, shown, left, FALSE)
    BY <1>2, <1>3, <1>4 DEF Sound
  <1> QED BY <1>1, <1>5 DEF on, shown, left

LEMMA IdleModeIsSound ==
  ASSUME IInv, NEW s \in Sources, SetSourceIdleMode(s)  PROVE IInv'
  <1>1. PICK release \in BOOLEAN, disable \in BOOLEAN :
          LET r == [rec[s] EXCEPT !.releaseWhenIdle = release, !.disabled = disable]
          IN IF HoldsExclusiveDevice(s)
             THEN Apply(s, showRefs[s], r, DeviceShouldShow(r)) /\ Excuse(s, FALSE)
             ELSE Keep(s, showRefs[s], r) /\ UNCHANGED excused
    BY DEF SetSourceIdleMode
  <1> DEFINE r == [rec[s] EXCEPT !.releaseWhenIdle = release, !.disabled = disable]
  <1>2. Sound(s, rec[s], showRefs[s], excused[s])
    BY SoundNow
  <1>3. /\ r \in RecType
        /\ r.slot = rec[s].slot
        /\ r.deviceShowing = rec[s].deviceShowing
    <2>1. rec[s] \in RecType
      BY <1>2 DEF Sound
    <2>2. \A x \in RecType :
            LET y == [x EXCEPT !.releaseWhenIdle = release, !.disabled = disable]
            IN y \in RecType /\ y.slot = x.slot /\ y.deviceShowing = x.deviceShowing
      BY ONLY release \in BOOLEAN, disable \in BOOLEAN DEF RecType
    <2> QED BY <2>1, <2>2
  <1>4. showRefs[s] \in Nat /\ showRefs[s] = Bit(r.deviceShowing) + Bit(r.slot)
    <2> HIDE DEF r
    <2> QED BY <1>2, <1>3 DEF Sound
  <1>5. CASE HoldsExclusiveDevice(s)
    <2> DEFINE shown == Shown(r, DeviceShouldShow(r))
               left == RefsAfter(showRefs[s], r, DeviceShouldShow(r))
    <2>1. Sound(s, shown, left, FALSE)
      BY <1>3, <1>4, DecidedIsSound
    <2>2. /\ rec' = [rec EXCEPT ![s] = shown]
          /\ showRefs' = [showRefs EXCEPT ![s] = left]
          /\ excused' = [excused EXCEPT ![s] = FALSE]
      BY <1>1, <1>5 DEF Apply, Excuse
    <2> QED BY <2>1, <2>2, OneSourceMoves
  <1>6. CASE ~HoldsExclusiveDevice(s)
    <2>1. Sound(s, r, showRefs[s], excused[s])
      BY <1>2, <1>3, <1>4, <1>6 DEF Sound
    <2>2. /\ rec' = [rec EXCEPT ![s] = r]
          /\ showRefs' = [showRefs EXCEPT ![s] = showRefs[s]]
          /\ excused' = [excused EXCEPT ![s] = excused[s]]
      BY <1>1, <1>6, SoundNow DEF Keep
    <2> QED BY <2>1, <2>2, OneSourceMoves
  <1> QED BY <1>5, <1>6

LEMMA PropertiesAreSound ==
  ASSUME IInv, NEW s \in Sources, SetSourceProperties(s)  PROVE IInv'
  <1>1. Sound(s, rec[s], showRefs[s], excused[s]) /\ rec[s].configured \in BOOLEAN
    BY SoundNow
  <1>2. PICK chosen \in BOOLEAN :
          LET r == [rec[s] EXCEPT !.configured = chosen]
          IN IF ~r.deviceShowing /\ TargetConfigured(s, chosen)
             THEN Apply(s, showRefs[s], r, DeviceShouldShow(r)) /\ Excuse(s, FALSE)
             ELSE Keep(s, showRefs[s], r) /\ UNCHANGED excused
    BY <1>1 DEF SetSourceProperties
  <1> DEFINE r == [rec[s] EXCEPT !.configured = chosen]
             decides == ~r.deviceShowing /\ TargetConfigured(s, chosen)
  <1>3. /\ r \in RecType
        /\ r.slot = rec[s].slot
        /\ r.deviceShowing = rec[s].deviceShowing
        /\ r.disabled = rec[s].disabled
        /\ r.releaseWhenIdle = rec[s].releaseWhenIdle
    BY <1>1, TargetSet DEF Sound
  <1>4. showRefs[s] \in Nat /\ showRefs[s] = Bit(r.deviceShowing) + Bit(r.slot)
    BY <1>1, <1>3 DEF Sound
  <1>5. CASE decides
    <2> DEFINE shown == Shown(r, DeviceShouldShow(r))
               left == RefsAfter(showRefs[s], r, DeviceShouldShow(r))
    <2>1. Sound(s, shown, left, FALSE)
      BY <1>3, <1>4, DecidedIsSound
    <2>2. /\ rec' = [rec EXCEPT ![s] = shown]
          /\ showRefs' = [showRefs EXCEPT ![s] = left]
          /\ excused' = [excused EXCEPT ![s] = FALSE]
      BY <1>2, <1>5 DEF Apply, Excuse
    <2> QED BY <2>1, <2>2, OneSourceMoves
  <1>6. CASE ~decides
    <2>1. Sound(s, r, showRefs[s], excused[s])
      BY <1>1, <1>3, <1>4 DEF Sound
    <2>2. /\ rec' = [rec EXCEPT ![s] = r]
          /\ showRefs' = [showRefs EXCEPT ![s] = showRefs[s]]
          /\ excused' = [excused EXCEPT ![s] = excused[s]]
      BY <1>2, <1>6, SoundNow DEF Keep
    <2> QED BY <2>1, <2>2, OneSourceMoves
  <1> QED BY <1>5, <1>6
-----------------------------------------------------------------------------
LEMMA StepIsSound == IInv /\ [Next]_vars => IInv'
  <1> SUFFICES ASSUME IInv, [Next]_vars PROVE IInv'
    OBVIOUS
  <1>1. CASE UNCHANGED vars
    BY <1>1 DEF vars, IInv, TypeOK, RefsBalanced, DisabledHoldsNoRef, IdleHoldsNoRef
  <1>2. ASSUME NEW s \in Sources,
               \/ CreateSource(s) \/ RemoveSource(s) \/ StartBroadcast(s)
               \/ StopBroadcast(s) \/ SetSourceFormat(s) \/ IdleModeRefused(s)
               \/ SetSourceIdleMode(s) \/ SetSourceProperties(s)
        PROVE  IInv'
    BY <1>2, CreateIsSound, RemoveIsSound, StartIsSound, StopIsSound, FormatIsSound,
       RefusedIsSound, IdleModeIsSound, PropertiesAreSound
  <1> QED BY <1>1, <1>2 DEF Next

\* Every reachable state is sound, source by source.
THEOREM Soundness == Spec => []IInv
  BY InitIsSound, StepIsSound, PTL DEF Spec

\* libobs's count of a source is the helper's reference and the slot's, in every
\* reachable state and for any number of sources of any type.
THEOREM ReferencesBalance == Spec => []RefsBalanced
  <1>1. IInv => RefsBalanced
    BY DEF IInv
  <1> QED BY <1>1, Soundness, PTL

\* No order of verbs and failures leaves a disabled camera or audio input with the
\* helper's reference.
THEOREM DisabledStaysReleased == Spec => []DisabledHoldsNoRef
  <1>1. IInv => DisabledHoldsNoRef
    BY DEF IInv
  <1> QED BY <1>1, Soundness, PTL

\* A source that releases its device while idle holds it idle only after a failure.
THEOREM IdleStaysReleased == Spec => []IdleHoldsNoRef
  <1>1. IInv => IdleHoldsNoRef
    BY DEF IInv
  <1> QED BY <1>1, Soundness, PTL

\* Records, counts and observers keep their types.
THEOREM TypeCorrect == Spec => []TypeOK
  <1>1. IInv => TypeOK
    BY DEF IInv
  <1> QED BY <1>1, Soundness, PTL

-----------------------------------------------------------------------------
(***************************************************************************)
(* The preview beside the verbs.                                           *)
(***************************************************************************)

\* What a verb does to the set of sources that exist, and to libobs's count.
Steady ==
  /\ \A t \in Sources : rec'[t].live = rec[t].live
  /\ refs' = refs
Made(s) ==
  /\ Unreferenced(s) /\ ~rec[s].live /\ rec'[s].live
  /\ \A t \in Sources \ {s} : rec'[t].live = rec[t].live
  /\ refs' = [refs EXCEPT ![s] = 1]
Lost(s) ==
  /\ rec[s].live /\ ~rec'[s].live
  /\ \A t \in Sources \ {s} : rec'[t].live = rec[t].live
  /\ refs' = [refs EXCEPT ![s] = @ - 1]

LEMMA CreateMakes ==
  ASSUME IInv, NEW s \in Sources, Create(s)
  PROVE  Made(s)
  <1>1. PICK t \in BOOLEAN, a \in BOOLEAN :
          rec' = [rec EXCEPT ![s] =
                    [NoRec EXCEPT !.live = TRUE, !.configured = t,
                                  !.deviceShowing = TargetConfigured(s, t), !.slot = a]]
    BY DEF Create, CreateSource
  <1>2. rec'[s].live /\ \A t_1 \in Sources \ {s} : rec'[t_1] = rec[t_1]
    BY <1>1 DEF NoRec, IInv, TypeOK
  <1> QED BY <1>2 DEF Create, CreateSource, Made

LEMMA RemoveLoses ==
  ASSUME IInv, NEW s \in Sources, Remove(s)
  PROVE  Lost(s)
  <1>1. ~rec'[s].live /\ \A t \in Sources \ {s} : rec'[t] = rec[t]
    BY DEF Remove, RemoveSource, NoRec, IInv, TypeOK
  <1> QED BY <1>1 DEF Remove, RemoveSource, Lost

\* Every other verb leaves a source in being.
LEMMA VerbsKeepSources ==
  ASSUME IInv, NEW s \in Sources,
         \/ StartBroadcast(s) \/ StopBroadcast(s) \/ SetSourceFormat(s)
         \/ IdleModeRefused(s) \/ SetSourceIdleMode(s) \/ SetSourceProperties(s)
  PROVE  \A t \in Sources : rec'[t].live = rec[t].live
  <1> DEFINE Keeps == \A t \in Sources : rec'[t].live = rec[t].live
  <1>1. rec \in [Sources -> RecType] /\ rec[s] \in RecType
    BY DEF IInv, TypeOK
  <1>2. ASSUME NEW r, r.live = rec[s].live, rec' = [rec EXCEPT ![s] = r]
        PROVE  Keeps
    <2>1. \A t \in Sources : rec'[t] = IF t = s THEN r ELSE rec[t]
      BY <1>1, <1>2
    <2> QED BY <1>2, <2>1
  <1>3. \A r \in RecType, on \in BOOLEAN :
          /\ Shown(r, on).live = r.live
          /\ [Shown(r, on) EXCEPT !.slot = TRUE].live = r.live
    BY DEF Shown, RecType
  <1>4. ASSUME StartBroadcast(s) PROVE Keeps
    <2>1. (~rec[s].disabled) \in BOOLEAN
      BY <1>1 DEF RecType
    <2> QED BY <1>1, <1>2, <1>3, <1>4, <2>1 DEF StartBroadcast, Keep
  <1>5. ASSUME StopBroadcast(s) PROVE Keeps
    <2> DEFINE r == [rec[s] EXCEPT !.slot = FALSE]
    <2>1. r \in RecType /\ r.live = rec[s].live
      BY <1>1 DEF RecType
    <2>2. rec' = [rec EXCEPT ![s] = Shown(r, FALSE)] \/ rec' = [rec EXCEPT ![s] = r]
      BY <1>5 DEF StopBroadcast, Apply, Keep
    <2>3. Shown(r, FALSE).live = rec[s].live
      BY <1>3, <2>1
    <2> QED BY <1>2, <2>1, <2>2, <2>3
  <1>6. ASSUME SetSourceFormat(s) PROVE Keeps
    <2>1. [rec[s] EXCEPT !.slot = FALSE].live = rec[s].live
      BY <1>1 DEF RecType
    <2> QED BY <1>2, <1>6, <2>1 DEF SetSourceFormat, Keep, vars
  <1>7. ASSUME IdleModeRefused(s) PROVE Keeps
    <2>1. PICK b \in BOOLEAN : rec' = [rec EXCEPT ![s] = [rec[s] EXCEPT !.releaseWhenIdle = b]]
      BY <1>7 DEF IdleModeRefused, Keep
    <2>2. [rec[s] EXCEPT !.releaseWhenIdle = b].live = rec[s].live
      BY <1>1 DEF RecType
    <2> QED BY <1>2, <2>1, <2>2
  <1>8. ASSUME SetSourceIdleMode(s) PROVE Keeps
    <2>1. PICK b \in BOOLEAN, d \in BOOLEAN :
            LET r == [rec[s] EXCEPT !.releaseWhenIdle = b, !.disabled = d]
            IN \/ rec' = [rec EXCEPT ![s] = Shown(r, DeviceShouldShow(r))]
               \/ rec' = [rec EXCEPT ![s] = r]
      BY <1>8 DEF SetSourceIdleMode, Apply, Keep
    <2> DEFINE r == [rec[s] EXCEPT !.releaseWhenIdle = b, !.disabled = d]
    <2>2. r \in RecType /\ r.live = rec[s].live
      BY <1>1 DEF RecType
    <2>3. Shown(r, DeviceShouldShow(r)).live = rec[s].live
      BY <2>2 DEF Shown, RecType
    <2> QED BY <1>2, <2>1, <2>2, <2>3
  <1>9. ASSUME SetSourceProperties(s) PROVE Keeps
    <2>1. PICK aim : LET r == [rec[s] EXCEPT !.configured = aim]
                     IN \/ rec' = [rec EXCEPT ![s] = Shown(r, DeviceShouldShow(r))]
                        \/ rec' = [rec EXCEPT ![s] = r]
      BY <1>9 DEF SetSourceProperties, Apply, Keep
    <2> DEFINE r == [rec[s] EXCEPT !.configured = aim]
    <2>2. r.live = rec[s].live /\ Shown(r, DeviceShouldShow(r)).live = rec[s].live
      BY <1>1 DEF Shown, RecType
    <2> QED BY <1>2, <2>1, <2>2
  <1> QED BY <1>4, <1>5, <1>6, <1>7, <1>8, <1>9

\* The preview only adds the shutdown to what the verbs do to a record.
LEMMA FeedKeepsShowing == IInv /\ FeedType /\ [FeedNext]_allVars => IInv'
  <1> SUFFICES ASSUME IInv, FeedType, [FeedNext]_allVars PROVE IInv'
    OBVIOUS
  <1>1. CASE [Next]_vars
    BY <1>1, StepIsSound
  <1>2. CASE ReleaseAllSources
    <2>1. /\ rec' = [s \in Sources |-> NoRec]
          /\ showRefs' = [s \in Sources |-> 0]
          /\ excused' = [s \in Sources |-> FALSE]
      BY <1>2 DEF ReleaseAllSources
    <2> QED BY <2>1 DEF IInv, TypeOK, RefsBalanced, DisabledHoldsNoRef, IdleHoldsNoRef,
                        NoRec, RecType
  <1>3. ASSUME NEW s \in Sources, ClientVerb(s) \/ AddSource(s) PROVE [Next]_vars
    BY <1>3 DEF ClientVerb, AddSource, Create, Remove, Next
  <1>4. CASE RemoveSelected
    <2>1. bound \in Sources /\ RemoveSource(bound)
      BY <1>4 DEF RemoveSelected, Remove, FeedType, MaybeSource
    <2> QED BY <1>1, <2>1 DEF Next
  <1>5. ASSUME NEW s \in MaybeSource, SelectRow(s) PROVE [Next]_vars
    BY <1>5 DEF SelectRow
  <1>6. ASSUME \/ QueuedRefresh \/ HookFires \/ CreateDisplay \/ SurfaceDies
               \/ ConsumeTick \/ Consumed \/ DrawPreview \/ TickEnds
               \/ LeaveLoop \/ CloseWindow \/ StopConsume \/ TearDown
               \/ UNCHANGED allVars
        PROVE  [Next]_vars
    BY <1>6 DEF QueuedRefresh, HookFires, CreateDisplay, SurfaceDies, ConsumeTick, Consumed,
       DrawPreview, TickEnds, LeaveLoop, CloseWindow, StopConsume, TearDown, allVars
  <1> QED BY <1>1, <1>2, <1>3, <1>4, <1>5, <1>6 DEF FeedNext, MaybeSource

\* The count of every source, and that it is a natural number.
CountOK ==
  /\ refs \in [Sources -> Nat]
  /\ \A s \in Sources : refs[s] = Bit(rec[s].live) + Bit(frame.source = s)

LEMMA BitValues ==
  /\ \A b : b => Bit(b) = 1
  /\ \A b : ~b => Bit(b) = 0
  /\ \A b : Bit(b) \in {0, 1}
  BY DEF Bit

\* A verb moves the record's reference along with the record.
LEMMA CountOfVerb ==
  ASSUME CountOK, frame' = frame, frame.source \in MaybeSource,
         Steady \/ \E s \in Sources : Made(s) \/ Lost(s)
  PROVE  CountOK'
  <1>1. CASE Steady
    BY <1>1 DEF CountOK, Steady
  <1>2. ASSUME NEW s \in Sources, Made(s) PROVE CountOK'
    <2>1. refs' = [refs EXCEPT ![s] = 1] /\ refs[s] = 0
      BY <1>2 DEF Made, Unreferenced
    <2>2. frame.source # s
      <3>1. SUFFICES ASSUME frame.source = s PROVE FALSE
        OBVIOUS
      <3>2. refs[s] = Bit(rec[s].live) + Bit(frame.source = s)
        BY DEF CountOK
      <3>3. Bit(frame.source = s) = 1 /\ Bit(rec[s].live) \in {0, 1}
        BY <3>1, BitValues
      <3> QED BY <2>1, <3>2, <3>3
    <2>3. Bit(rec'[s].live) = 1 /\ Bit(frame'.source = s) = 0
      BY <1>2, <2>2, BitValues DEF Made
    <2>4. refs' \in [Sources -> Nat] /\ refs'[s] = 1
      BY <2>1 DEF CountOK
    <2>5. ASSUME NEW t \in Sources \ {s}
          PROVE  refs'[t] = Bit(rec'[t].live) + Bit(frame'.source = t)
      BY <1>2, <2>1 DEF CountOK, Made
    <2> QED BY <2>3, <2>4, <2>5 DEF CountOK
  <1>3. ASSUME NEW s \in Sources, Lost(s) PROVE CountOK'
    <2>1. refs' = [refs EXCEPT ![s] = refs[s] - 1]
      BY <1>3 DEF Lost
    <2>2. refs[s] = 1 + Bit(frame.source = s) /\ Bit(frame.source = s) \in Nat
      BY <1>3, BitValues DEF CountOK, Lost
    <2>3. refs'[s] = Bit(rec'[s].live) + Bit(frame'.source = s)
      <3>1. Bit(rec'[s].live) = 0 /\ refs'[s] = refs[s] - 1
        BY <1>3, <2>1, BitValues DEF Lost, CountOK
      <3> QED BY <2>2, <3>1
    <2>4. refs' \in [Sources -> Nat]
      BY <2>1, <2>2 DEF CountOK
    <2>5. ASSUME NEW t \in Sources \ {s}
          PROVE  refs'[t] = Bit(rec'[t].live) + Bit(frame'.source = t)
      BY <1>3, <2>1 DEF CountOK, Lost
    <2> QED BY <2>3, <2>4, <2>5 DEF CountOK
  <1> QED BY <1>1, <1>2, <1>3

\* A callback upgrades its weak reference, and later gives the strong one back.
LEMMA CountOfTake ==
  ASSUME CountOK, rec' = rec, frame.source = None, NEW w \in MaybeSource,
         frame'.source = w, refs' = Taken(w)
  PROVE  CountOK'
  <1> USE NoneAssumption
  <1>1. CASE w = None
    BY <1>1 DEF CountOK, Taken
  <1>2. CASE w # None
    <2>1. w \in Sources /\ refs' = [refs EXCEPT ![w] = refs[w] + 1]
      BY <1>2 DEF Taken, MaybeSource
    <2>2. /\ Bit(frame.source = w) = 0 /\ Bit(frame'.source = w) = 1
          /\ \A t \in Sources \ {w} : Bit(frame.source = t) = 0 /\ Bit(frame'.source = t) = 0
      BY <2>1, BitValues
    <2>3. refs' \in [Sources -> Nat] /\ refs'[w] = refs[w] + 1
      BY <2>1 DEF CountOK
    <2>4. Bit(rec[w].live) \in Nat /\ refs[w] = Bit(rec[w].live)
      BY <2>1, <2>2, BitValues DEF CountOK
    <2>5. refs'[w] = Bit(rec'[w].live) + Bit(frame'.source = w)
      BY <2>2, <2>3, <2>4
    <2>6. ASSUME NEW t \in Sources \ {w}
          PROVE  refs'[t] = Bit(rec'[t].live) + Bit(frame'.source = t)
      <3>1. refs'[t] = refs[t]
        BY <2>1 DEF CountOK
      <3> QED BY <2>2, <3>1 DEF CountOK
    <2> QED BY <2>3, <2>5, <2>6 DEF CountOK
  <1> QED BY <1>1, <1>2

LEMMA CountOfRelease ==
  ASSUME CountOK, rec' = rec, frame.source \in MaybeSource,
         frame'.source = None, refs' = Released(frame.source)
  PROVE  CountOK'
  <1> USE NoneAssumption
  <1> DEFINE w == frame.source
  <1>1. CASE w = None
    BY <1>1 DEF CountOK, Released
  <1>2. CASE w # None
    <2>1. w \in Sources /\ refs' = [refs EXCEPT ![w] = refs[w] - 1]
      BY <1>2 DEF Released, MaybeSource
    <2>2. /\ Bit(frame.source = w) = 1 /\ Bit(frame'.source = w) = 0
          /\ \A t \in Sources \ {w} : Bit(frame.source = t) = 0 /\ Bit(frame'.source = t) = 0
      BY <2>1, BitValues
    <2>3. Bit(rec[w].live) \in Nat /\ refs[w] = Bit(rec[w].live) + 1
      BY <2>1, <2>2, BitValues DEF CountOK
    <2>4. refs' \in [Sources -> Nat] /\ refs'[w] = refs[w] - 1
      BY <2>1, <2>3 DEF CountOK
    <2>5. refs'[w] = Bit(rec'[w].live) + Bit(frame'.source = w)
      BY <2>2, <2>3, <2>4
    <2>6. ASSUME NEW t \in Sources \ {w}
          PROVE  refs'[t] = Bit(rec'[t].live) + Bit(frame'.source = t)
      <3>1. refs'[t] = refs[t]
        BY <2>1 DEF CountOK
      <3> QED BY <2>2, <3>1 DEF CountOK
    <2> QED BY <2>4, <2>5, <2>6 DEF CountOK
  <1> QED BY <1>1, <1>2

\* Shutting down gives back what the records hold.
LEMMA CountOfShutdown ==
  ASSUME CountOK, frame' = frame, ReleaseAllSources
  PROVE  CountOK'
  <1>1. ASSUME NEW s \in Sources
        PROVE  refs'[s] \in Nat /\ refs'[s] = Bit(rec'[s].live) + Bit(frame'.source = s)
    <2>1. refs'[s] = refs[s] - Bit(rec[s].live) /\ rec'[s] = NoRec
      BY DEF ReleaseAllSources, Bit
    <2>2. Bit(rec'[s].live) = 0
      BY <2>1 DEF NoRec, Bit
    <2>3. /\ refs[s] = Bit(rec[s].live) + Bit(frame.source = s)
          /\ Bit(rec[s].live) \in Nat /\ Bit(frame.source = s) \in Nat
      BY BitValues DEF CountOK
    <2> QED BY <2>1, <2>2, <2>3
  <1>2. refs' = [s \in Sources |-> refs'[s]]
    BY DEF ReleaseAllSources
  <1> QED BY <1>1, <1>2 DEF CountOK

\* Binding a source leaves the widget on it if it exists, and the hook owed.
LEMMA RebindFollows ==
  ASSUME FeedType, Following, Idle, NEW s \in MaybeSource, Rebind(s), consume' = consume,
         bound # None /\ rec'[bound].live => rec[bound].live
  PROVE  /\ bound' = s
         /\ bound' \in MaybeSource /\ weak' \in MaybeSource /\ owed' \in BOOLEAN
         /\ weak' # None => weak' = bound'
         /\ weak' = None /\ bound' # None => ~rec'[bound'].live
         /\ owed' \/ consume' = weak'
  <1>1. CASE s # None /\ s = bound
    <2>1. UNCHANGED <<bound, weak, owed>>
      BY <1>1 DEF Rebind
    <2> QED BY <1>1, <2>1 DEF Following, FeedType, Idle
  <1>2. CASE ~(s # None /\ s = bound)
    <2>1. bound' = s /\ weak' = Resolved(s) /\ owed' = TRUE
      BY <1>2 DEF Rebind
    <2> QED BY <2>1 DEF Resolved, MaybeSource
  <1> QED BY <1>1, <1>2

\* A client's verb: the window hears of a source that came or went by its queue.
LEMMA VerbOfClient ==
  ASSUME IInv, NEW s \in Sources, ClientVerb(s)
  PROVE  /\ \/ Steady /\ queued' = queued
            \/ (Made(s) \/ Lost(s)) /\ queued' = TRUE
         /\ Idle
         /\ UNCHANGED <<rows, bound, weak, consume, owed, display, running, target, frame, phase>>
  BY CreateMakes, RemoveLoses, VerbsKeepSources DEF ClientVerb, Steady

\* The rows of a refresh, against the sources that exist after it.
LEMMA RefreshRows ==
  ASSUME FeedType, Refresh
  PROVE  /\ rows' = Live
         /\ \E s \in MaybeSource :
              /\ Rebind(s)
              /\ s # None => rec'[s].live
  <1>1. CASE bound \in Live
    BY <1>1 DEF Refresh, Live, MaybeSource
  <1>2. CASE bound \notin Live
    BY <1>2 DEF Refresh, MaybeSource
  <1> QED BY <1>1, <1>2 DEF Refresh

\* One lemma per part of the system: the main thread's verbs, ...
LEMMA ClientVerbStep ==
  ASSUME IInv, FeedInv, NEW s \in Sources, ClientVerb(s)
  PROVE  FeedInv'
  <1>1. CountOK /\ FeedType /\ Counted /\ Following /\ TakenDown
    BY DEF FeedInv, CountOK, Counted, FeedType
  <1>2. /\ UNCHANGED <<rows, bound, weak, consume, owed, display, running, target, frame, phase>>
        /\ phase = "loop"
        /\ \/ Steady /\ queued' = queued
           \/ (Made(s) \/ Lost(s)) /\ queued' = TRUE
    BY VerbOfClient DEF Idle
  <1>3. CountOK'
    BY <1>1, <1>2, CountOfVerb DEF FeedType
  <1>4. FeedType'
    BY <1>1, <1>2, <1>3 DEF FeedType, CountOK
  <1>5. Counted'
    BY <1>1, <1>2, <1>3 DEF Counted, CountOK
  <1>6. Following'
    <2>1. weak = None /\ bound # None => ~rec'[bound].live
      <3>1. bound # None => bound \in Sources
        BY <1>1 DEF FeedType, MaybeSource
      <3> QED BY <1>1, <1>2, <3>1 DEF Following, Steady, Made, Lost, Unreferenced
    <2>2. \A t \in rows : rec'[t].live \/ queued'
      BY <1>1, <1>2 DEF Following, Steady, FeedType
    <2>3. bound # None => rec'[bound].live \/ queued'
      BY <1>1, <1>2 DEF Following, Steady, FeedType, MaybeSource
    <2> QED BY <1>1, <1>2, <2>1, <2>2, <2>3 DEF Following
  <1>7. TakenDown'
    BY <1>1, <1>2 DEF TakenDown
  <1> QED BY <1>4, <1>5, <1>6, <1>7 DEF FeedInv

\* ... the window's own verbs and refreshes, ...
LEMMA WindowStep ==
  ASSUME IInv, FeedInv,
         \/ QueuedRefresh \/ RemoveSelected
         \/ \E s \in Sources : AddSource(s)
         \/ \E s \in Sources \cup {None} : SelectRow(s)
  PROVE  FeedInv'
  <1> USE NoneAssumption
  <1>1. CountOK /\ FeedType /\ Counted /\ Following /\ TakenDown
    BY DEF FeedInv, CountOK, Counted, FeedType
  <1>2. Idle /\ UNCHANGED <<consume, display, running, target, frame, phase>>
    BY DEF QueuedRefresh, RemoveSelected, AddSource, SelectRow
  <1>3. PICK s \in MaybeSource :
          /\ Rebind(s)
          /\ \/ rec' = rec /\ refs' = refs
             \/ Made(s) /\ s \in Sources
             \/ bound # None /\ Lost(bound)
          /\ \/ rows' = Live /\ (s # None => rec'[s].live)
             \/ /\ rows' = rows /\ queued' = queued /\ rec' = rec
                /\ s \in rows \cup {None}
          /\ queued' \in BOOLEAN
    <2>1. CASE QueuedRefresh
      BY <1>1, <2>1, RefreshRows DEF QueuedRefresh, vars
    <2>2. CASE RemoveSelected
      <3>1. bound \in Sources /\ Remove(bound)
        BY <1>1, <2>2 DEF RemoveSelected, FeedType, MaybeSource
      <3> QED BY <1>1, <2>2, <3>1, RemoveLoses, RefreshRows DEF RemoveSelected
    <2>3. ASSUME NEW q \in Sources, AddSource(q)
          PROVE  /\ Rebind(q) /\ Made(q) /\ q \in MaybeSource
                 /\ rows' = Live /\ rec'[q].live /\ queued' \in BOOLEAN
      <3>1. Made(q)
        BY <2>3, CreateMakes DEF AddSource
      <3> QED BY <2>3, <3>1 DEF AddSource, MaybeSource, Made
    <2>4. ASSUME NEW q \in Sources \cup {None}, SelectRow(q)
          PROVE  /\ Rebind(q) /\ q \in MaybeSource /\ rec' = rec /\ refs' = refs
                 /\ rows' = rows /\ queued' = queued /\ q \in rows \cup {None}
                 /\ queued' \in BOOLEAN
      BY <1>1, <2>4 DEF SelectRow, vars, MaybeSource, FeedType
    <2> QED BY <2>1, <2>2, <2>3, <2>4
  <1>4. bound # None /\ rec'[bound].live => rec[bound].live
    BY <1>1, <1>3 DEF Made, Lost, Unreferenced, FeedType, MaybeSource
  <1>5. /\ bound' = s
        /\ bound' \in MaybeSource /\ weak' \in MaybeSource /\ owed' \in BOOLEAN
        /\ weak' # None => weak' = bound'
        /\ weak' = None /\ bound' # None => ~rec'[bound'].live
        /\ owed' \/ consume' = weak'
    BY <1>1, <1>2, <1>3, <1>4, RebindFollows
  <1>6. CountOK'
    <2>1. Steady \/ \E q \in Sources : Made(q) \/ Lost(q)
      BY <1>1, <1>3 DEF Steady, FeedType, MaybeSource
    <2> QED BY <1>1, <1>2, <2>1, CountOfVerb DEF FeedType
  <1>7. rows' \subseteq Sources /\ \A t \in rows' : rec'[t].live \/ queued'
    BY <1>1, <1>2, <1>3 DEF Live, Following, FeedType, Idle
  <1>8. bound' # None => rec'[bound'].live \/ queued'
    BY <1>1, <1>2, <1>3, <1>5 DEF Following, Idle
  <1>9. FeedType' /\ Counted'
    BY <1>1, <1>2, <1>3, <1>5, <1>6, <1>7 DEF FeedType, CountOK, Counted
  <1>10. Following' /\ TakenDown'
    BY <1>1, <1>2, <1>5, <1>7, <1>8 DEF Following, TakenDown, Idle
  <1> QED BY <1>9, <1>10 DEF FeedInv

\* ... the hook and the display's surface, ...
LEMMA DisplayStep ==
  ASSUME IInv, FeedInv, HookFires \/ CreateDisplay \/ SurfaceDies
  PROVE  FeedInv'
  <1>1. FeedType /\ Counted /\ Following /\ TakenDown
    BY DEF FeedInv
  <1>2. UNCHANGED <<rec, refs, rows, bound, queued, weak, running, target, frame, phase>>
    BY DEF HookFires, CreateDisplay, SurfaceDies, vars
  <1>3. Counted'
    BY <1>1, <1>2 DEF Counted
  <1>4. FeedType' /\ Following'
    BY <1>1, <1>2 DEF HookFires, CreateDisplay, SurfaceDies, FeedType, Following
  <1>5. TakenDown'
    BY <1>1, <1>2 DEF HookFires, CreateDisplay, SurfaceDies, DestroyDisplay, TakenDown, FeedType
  <1> QED BY <1>3, <1>4, <1>5 DEF FeedInv

\* ... libobs's graphics thread, ...
LEMMA GraphicsTickStep ==
  ASSUME IInv, FeedInv, ConsumeTick \/ Consumed \/ DrawPreview \/ TickEnds
  PROVE  FeedInv'
  <1> USE NoneAssumption
  <1>1. CountOK /\ FeedType /\ Counted /\ Following /\ TakenDown
    BY DEF FeedInv, CountOK, Counted, FeedType
  <1>2. UNCHANGED <<rec, rows, bound, queued, weak, consume, owed, display, running, phase>>
    BY DEF ConsumeTick, Consumed, DrawPreview, TickEnds, vars
  <1>3. frame.at \in Ticks /\ frame.source \in MaybeSource
    BY <1>1 DEF FeedType
  <1>4. CASE ConsumeTick \/ DrawPreview
    <2>1. PICK w \in {weak, consume} :
            /\ frame'.source = Upgraded(w) /\ refs' = Taken(Upgraded(w))
            /\ frame' \in [at : {"consuming", "drawing"}, source : {Upgraded(w)}]
            /\ target' = target
      BY <1>4 DEF ConsumeTick, DrawPreview
    <2>2. Upgraded(w) \in MaybeSource
      BY <1>1 DEF Upgraded, FeedType, MaybeSource
    <2>3. frame.source = None
      BY <1>1, <1>4 DEF ConsumeTick, DrawPreview, Counted
    <2>4. CountOK'
      BY <1>1, <1>2, <2>1, <2>2, <2>3, CountOfTake
    <2>5. frame'.at \in {"consuming", "drawing"} /\ frame' \in [at : Ticks, source : MaybeSource]
      BY <2>1, <2>2 DEF Ticks
    <2>6. FeedType' /\ Counted' /\ Following'
      BY <1>1, <1>2, <2>1, <2>4, <2>5 DEF FeedType, CountOK, Counted, Following
    <2>7. TakenDown'
      <3>1. phase \notin {"stopped", "torn", "down"}
        BY <1>1, <1>4 DEF ConsumeTick, DrawPreview, TakenDown
      <3> QED BY <1>1, <1>2, <3>1 DEF TakenDown
    <2> QED BY <2>6, <2>7 DEF FeedInv
  <1>5. CASE Consumed \/ TickEnds
    <2>1. /\ refs' = Released(frame.source)
          /\ \/ frame' = [at |-> "consumed", source |-> None]
             \/ frame' = [at |-> "idle", source |-> None]
          /\ \/ target' = target
             \/ frame.at = "consuming" /\ target'
      <3>1. CASE Consumed
        BY <3>1 DEF Consumed
      <3>2. CASE TickEnds
        BY <3>2 DEF TickEnds
      <3> QED BY <1>5, <3>1, <3>2
    <2>2. /\ frame'.source = None /\ frame'.at \in {"consumed", "idle"}
          /\ frame' \in [at : Ticks, source : MaybeSource]
      BY <2>1 DEF Ticks, MaybeSource
    <2>3. CountOK'
      BY <1>1, <1>2, <1>3, <2>1, <2>2, CountOfRelease
    <2>4. FeedType' /\ Counted' /\ Following'
      BY <1>1, <1>2, <2>1, <2>2, <2>3 DEF FeedType, CountOK, Counted, Following
    <2>5. TakenDown'
      <3>1. phase \in {"torn", "down"} => FALSE
        BY <1>1, <1>5 DEF Consumed, TickEnds, TakenDown
      <3> QED BY <1>1, <1>2, <2>2, <3>1 DEF TakenDown
    <2> QED BY <2>4, <2>5 DEF FeedInv
  <1> QED BY <1>4, <1>5

\* ... and the teardown.
LEMMA TeardownStep ==
  ASSUME IInv, FeedInv,
         LeaveLoop \/ CloseWindow \/ StopConsume \/ TearDown \/ ReleaseAllSources
  PROVE  FeedInv'
  <1> USE NoneAssumption DEF At
  <1>1. CountOK /\ FeedType /\ Counted /\ Following /\ TakenDown
    BY DEF FeedInv, CountOK, Counted, FeedType
  <1>2. UNCHANGED <<rows, bound, queued, frame>> /\ phase' \in Phases \ {"loop"}
    BY DEF LeaveLoop, CloseWindow, StopConsume, TearDown, ReleaseAllSources, Phases
  <1>3. CountOK'
    <2>1. CASE ReleaseAllSources
      BY <1>1, <1>2, <2>1, CountOfShutdown
    <2>2. CASE ~ReleaseAllSources
      <3>1. rec' = rec /\ refs' = refs
        BY <2>2 DEF LeaveLoop, CloseWindow, StopConsume, TearDown, vars
      <3> QED BY <1>1, <1>2, <3>1 DEF CountOK
    <2> QED BY <2>1, <2>2
  <1>4. Counted'
    BY <1>1, <1>2, <1>3 DEF Counted, CountOK
  <1>5. Following'
    BY <1>2 DEF Following
  <1>6. FeedType'
    <2>1. /\ weak' \in {weak, None} /\ consume' \in {consume, None}
          /\ owed' \in BOOLEAN /\ running' \in BOOLEAN /\ target' \in BOOLEAN
      <3>1. CASE LeaveLoop
        BY <1>1, <3>1 DEF LeaveLoop, FeedType
      <3>2. CASE CloseWindow
        BY <1>1, <3>2 DEF CloseWindow, FeedType
      <3>3. CASE StopConsume
        BY <1>1, <3>3 DEF StopConsume, FeedType
      <3>4. CASE TearDown
        BY <1>1, <3>4 DEF TearDown, FeedType
      <3>5. CASE ReleaseAllSources
        BY <1>1, <3>5 DEF ReleaseAllSources, FeedType
      <3> QED BY <3>1, <3>2, <3>3, <3>4, <3>5
    <2> QED BY <1>1, <1>2, <1>3, <2>1 DEF FeedType, CountOK, MaybeSource
  <1>7. TakenDown'
    <2>1. CASE LeaveLoop
      BY <1>1, <2>1 DEF LeaveLoop, TakenDown
    <2>2. CASE CloseWindow
      BY <1>1, <2>2 DEF CloseWindow, DestroyDisplay, TakenDown
    <2>3. CASE StopConsume
      BY <1>1, <2>3 DEF StopConsume, TakenDown
    <2>4. CASE TearDown
      BY <1>1, <2>4 DEF TearDown, TakenDown
    <2>5. CASE ReleaseAllSources
      <3>1. \A s \in Sources : ~rec'[s].live
        BY <2>5 DEF ReleaseAllSources, NoRec
      <3>2. /\ phase = "torn" /\ phase' = "down" /\ ~owed
            /\ UNCHANGED <<weak, consume, owed, display, running, target, frame>>
        BY <2>5 DEF ReleaseAllSources
      <3> QED BY <1>1, <3>1, <3>2 DEF TakenDown
    <2> QED BY <2>1, <2>2, <2>3, <2>4, <2>5
  <1> QED BY <1>4, <1>5, <1>6, <1>7 DEF FeedInv

LEMMA FeedInitHolds == FeedInit => IInv /\ FeedInv
  <1> SUFFICES ASSUME FeedInit PROVE IInv /\ FeedInv
    OBVIOUS
  <1>1. IInv
    BY InitIsSound DEF FeedInit
  <1>2. \A s \in Sources : ~rec[s].live /\ Bit(rec[s].live) = 0
    BY DEF FeedInit, Init, NoRec, Bit
  <1>3. \A s \in Sources : refs[s] = 0 /\ Bit(frame.source = s) = 0
    BY NoneAssumption DEF FeedInit, Bit
  <1>4. Counted
    BY <1>2, <1>3 DEF Counted, FeedInit
  <1>5. FeedType /\ Following /\ TakenDown
    BY DEF FeedInit, FeedType, Following, TakenDown, MaybeSource, Phases, Ticks
  <1> QED BY <1>1, <1>4, <1>5 DEF FeedInv

LEMMA FeedInvariant == FeedSpec => [](IInv /\ FeedInv)
  <1>1. IInv /\ FeedInv /\ [FeedNext]_allVars => FeedInv'
    <2> SUFFICES ASSUME IInv, FeedInv, [FeedNext]_allVars PROVE FeedInv'
      OBVIOUS
    <2>1. CASE UNCHANGED allVars
      BY <2>1 DEF allVars, vars, feed, FeedInv, FeedType, Counted, Following, TakenDown
    <2> QED BY <2>1, ClientVerbStep, WindowStep, DisplayStep, GraphicsTickStep, TeardownStep
            DEF FeedNext
  <1>2. FeedInv => FeedType
    BY DEF FeedInv
  <1> QED BY <1>1, <1>2, FeedInitHolds, FeedKeepsShowing, PTL DEF FeedSpec

\* With the preview and its graphics thread running beside the verbs, a source
\* that releases its device while idle still holds it idle only after a failure.
THEOREM IdleStaysReleasedBesidePreview == FeedSpec => []IdleHoldsNoRef
  <1>1. IInv => IdleHoldsNoRef
    BY DEF IInv
  <1> QED BY <1>1, FeedInvariant, PTL

\* The display widget and the consume engine both follow the selection, to a
\* source that exists, whenever no refresh is queued and no hook is owed.
THEOREM PreviewFollowsSelection == FeedSpec => []PreviewFollows
  <1>1. FeedInv => PreviewFollows
    <2> SUFFICES ASSUME FeedInv, Idle, ~queued
                 PROVE  weak = bound /\ consume = bound /\ (bound # None => rec[bound].live)
      BY DEF PreviewFollows
    <2>1. phase = "loop" /\ ~owed /\ Following
      BY DEF Idle, FeedInv
    <2> QED BY <2>1 DEF Following
  <1> QED BY <1>1, FeedInvariant, PTL

\* libobs counts one reference for a record that exists and one for the frame
\* that holds the source, so a removed source goes with the frame.
THEOREM RemovedSourceGoesWithFrame == FeedSpec => []GoneAfterFrame
  <1>1. FeedInv => GoneAfterFrame
    <2> SUFFICES ASSUME FeedInv, NEW s \in Sources, refs[s] > Bit(rec[s].live)
                 PROVE  frame.source = s
      BY DEF GoneAfterFrame, Bit
    <2>1. refs[s] = Bit(rec[s].live) + Bit(frame.source = s) /\ Bit(rec[s].live) \in Nat
      BY BitValues DEF FeedInv, Counted
    <2>2. Bit(frame.source = s) # 0
      BY <2>1
    <2> QED BY <2>2, BitValues
  <1> QED BY <1>1, FeedInvariant, PTL

\* Whatever the graphics thread was doing at each step of the teardown, nothing
\* of the preview and no source is left when libobs is shut down.
THEOREM NothingOutlivesTeardown == FeedSpec => []NothingLeft
  <1>1. FeedInv => NothingLeft
    <2> SUFFICES ASSUME FeedInv, phase = "down"
                 PROVE  /\ ~running /\ ~target /\ display # "up"
                        /\ weak = None /\ consume = None
                        /\ \A s \in Sources : refs[s] = 0
      BY DEF NothingLeft
    <2>1. /\ ~running /\ ~target /\ display = "dead"
          /\ weak = None /\ consume = None /\ frame.at = "idle"
          /\ \A s \in Sources : ~rec[s].live
      BY DEF FeedInv, TakenDown
    <2>2. frame.source = None
      BY <2>1 DEF FeedInv, Counted
    <2>3. ASSUME NEW s \in Sources PROVE refs[s] = 0
      <3>1. Bit(rec[s].live) = 0 /\ Bit(frame.source = s) = 0
        BY <2>1, <2>2, BitValues, NoneAssumption
      <3> QED BY <3>1 DEF FeedInv, Counted
    <2> QED BY <2>1, <2>3
  <1> QED BY <1>1, FeedInvariant, PTL
-----------------------------------------------------------------------------
(***************************************************************************)
(* Self-heal.                                                              *)
(***************************************************************************)

LEMMA HealTypes ==
  ASSUME HealType, NEW c \in Cameras
  PROVE  /\ TargetOf[c] \in Devices /\ TargetOf[c] \in Saved
         /\ owner[TargetOf[c]] \in Cameras \cup {Nobody, Foreign}
         /\ dims[c] \in BOOLEAN /\ run[c] \in Nat
         /\ heal[c].fruitless \in 0..MaxFruitless /\ heal[c].fruitless \in Nat
         /\ heal[c].attempted \in BOOLEAN /\ heal[c].seen \in BOOLEAN
         /\ heal[c].cooling \in BOOLEAN
         /\ c # Nobody /\ c # Foreign
  <1>1. TargetOf[c] \in Devices /\ TargetOf[c] \in Saved
    BY TargetAssumption DEF Saved
  <1> QED BY <1>1, OwnerAssumption, FruitlessAssumption DEF HealType, HealRec

\* A restart concerns the hold and the frame size of its camera alone, and it
\* keeps the size only with the device.
LEMMA RestartEffect ==
  ASSUME HealType, NEW c \in Cameras, Restart(c)
  PROVE  /\ owner' \in [Saved -> Cameras \cup {Nobody, Foreign}]
         /\ dims' \in [Cameras -> BOOLEAN]
         /\ dims'[c] => dims[c] /\ owner'[TargetOf[c]] = c
         /\ \A o \in Cameras : o # c =>
              /\ dims'[o] = dims[o]
              /\ owner'[TargetOf[o]] = o <=> owner[TargetOf[o]] = o
  <1> DEFINE d == TargetOf[c]
  <1>1. d \in Saved /\ c # Nobody /\ c # Foreign
    BY HealTypes
  <1>2. /\ owner \in [Saved -> Cameras \cup {Nobody, Foreign}]
        /\ dims \in [Cameras -> BOOLEAN]
    BY DEF HealType
  <1>3. \A o \in Cameras : TargetOf[o] \in Saved /\ o # Nobody
    BY HealTypes
  <1>4. CASE /\ d \in plugged /\ owner[d] \in {Nobody, c}
             /\ owner' = [owner EXCEPT ![d] = c]
             /\ \E kept \in {FALSE, dims[c]} : dims' = [dims EXCEPT ![c] = kept]
    <2>1. PICK kept \in {FALSE, dims[c]} : dims' = [dims EXCEPT ![c] = kept]
      BY <1>4
    <2>2. kept \in BOOLEAN /\ (kept => dims[c])
      BY <1>2, <2>1
    <2>3. dims' \in [Cameras -> BOOLEAN] /\ dims'[c] = kept
      BY <1>2, <2>1, <2>2
    <2>4. owner' \in [Saved -> Cameras \cup {Nobody, Foreign}] /\ owner'[d] = c
      BY <1>1, <1>2, <1>4
    <2>5. ASSUME NEW o \in Cameras, o # c
          PROVE  dims'[o] = dims[o] /\ (owner'[TargetOf[o]] = o <=> owner[TargetOf[o]] = o)
      BY <1>1, <1>2, <1>3, <1>4, <2>1, <2>5
    <2> QED BY <2>2, <2>3, <2>4, <2>5
  <1>5. CASE /\ owner' = [owner EXCEPT ![d] = IF @ = c THEN Nobody ELSE @]
             /\ dims' = [dims EXCEPT ![c] = FALSE]
    <2>1. dims' \in [Cameras -> BOOLEAN] /\ ~dims'[c]
      BY <1>2, <1>5
    <2>2. owner' \in [Saved -> Cameras \cup {Nobody, Foreign}]
      BY <1>1, <1>2, <1>5
    <2>3. ASSUME NEW o \in Cameras, o # c
          PROVE  dims'[o] = dims[o] /\ (owner'[TargetOf[o]] = o <=> owner[TargetOf[o]] = o)
      BY <1>1, <1>2, <1>3, <1>5, <2>3
    <2> QED BY <2>1, <2>2, <2>3
  <1> QED BY <1>4, <1>5 DEF Restart

LEMMA NoPassSees == NoPass.arrived = {} /\ NoPass.current = {} /\ NoPass.next = 0
  BY DEF NoPass

LEMMA HealInitHolds == HealInit => HealInv
  <1> SUFFICES ASSUME HealInit PROVE HealInv
    OBVIOUS
  <1>1. HealType
    <2>1. Fresh \in HealRec
      BY FruitlessAssumption DEF Fresh, HealRec
    <2>2. NoPass \in [next : Nat, current : SUBSET Devices, arrived : SUBSET Devices]
      BY DEF NoPass
    <2> QED BY <2>1, <2>2 DEF HealInit, HealType
  <1>2. \A c \in Cameras : /\ ~dims[c] /\ owner[TargetOf[c]] # c
                           /\ run[c] = 0 /\ heal[c].fruitless = 0
    BY <1>1, HealTypes DEF HealInit, Fresh
  <1>3. pass = NoPass /\ ~haveSnapshot
    BY DEF HealInit
  <1> QED
    BY <1>1, <1>2, <1>3, NoPassSees
    DEF HealInv, PassSees, OnlyWanted, StreakCovers, ArrivalOwed, StaleIsKnown, Stale, IsArrival

LEMMA UnplugKeeps == ASSUME HealInv, NEW d \in Devices, Unplug(d) PROVE HealInv'
  <1>1. /\ UNCHANGED <<dims, wanted, snapshot, haveSnapshot, timers, pass, heal, run, blank>>
        /\ plugged' = plugged \ {d} /\ poked' = TRUE
    BY DEF Unplug
  <1>2. /\ owner' = [s \in Saved |-> IF s = d THEN Nobody ELSE owner[s]]
        /\ gap' = [s \in Saved |-> IF s = d THEN "missed" ELSE gap[s]]
    BY DEF Unplug
  <1>3. HealType
    BY DEF HealInv
  <1>4. HealType'
    BY <1>1, <1>2, <1>3 DEF HealType
  <1>5. ASSUME NEW c \in Cameras
        PROVE  IF TargetOf[c] = d
               THEN owner'[TargetOf[c]] # c /\ gap'[TargetOf[c]] = "missed"
               ELSE owner'[TargetOf[c]] = owner[TargetOf[c]] /\ gap'[TargetOf[c]] = gap[TargetOf[c]]
    BY <1>2, <1>3, HealTypes
  <1>6. OnlyWanted'
    BY <1>1, <1>5 DEF HealInv, OnlyWanted
  <1>7. PassSees' /\ ArrivalOwed' /\ StreakCovers'
    BY <1>1 DEF HealInv, PassSees, ArrivalOwed, StreakCovers, IsArrival
  <1>8. StaleIsKnown'
    BY <1>1, <1>5 DEF HealInv, StaleIsKnown, Stale, ToCome, IsArrival
  <1> QED BY <1>4, <1>6, <1>7, <1>8 DEF HealInv

LEMMA PlugKeeps == ASSUME HealInv, NEW d \in Devices, Plug(d) PROVE HealInv'
  <1>1. /\ UNCHANGED <<owner, dims, wanted, snapshot, haveSnapshot, timers, pass, heal, gap, blank>>
        /\ plugged' = plugged \cup {d} /\ poked' = TRUE
        /\ run' = [c \in Cameras |-> IF TargetOf[c] = d THEN 0 ELSE run[c]]
    BY DEF Plug
  <1>2. HealType
    BY DEF HealInv
  <1>3. HealType'
    BY <1>1, <1>2 DEF HealType
  <1>4. \A c \in Cameras : /\ run'[c] = 0 \/ run'[c] = run[c]
                           /\ TargetOf[c] = d => run'[c] = 0
    BY <1>1
  <1>5. StreakCovers'
    <2> SUFFICES ASSUME NEW c \in Cameras
                 PROVE  /\ run'[c] <= heal[c].fruitless
                        /\ dims[c] => run'[c] = 0
                        /\ haveSnapshot /\ TargetOf[c] \in plugged' \ snapshot => run'[c] = 0
                        /\ IsArrival(c) => run'[c] = 0
      BY <1>1 DEF StreakCovers, IsArrival
    <2>1. heal[c].fruitless \in Nat
      BY <1>2, HealTypes
    <2> QED BY <1>1, <1>4, <2>1 DEF HealInv, StreakCovers
  <1>6. PassSees' /\ OnlyWanted' /\ ArrivalOwed' /\ StaleIsKnown'
    BY <1>1 DEF HealInv, PassSees, OnlyWanted, ArrivalOwed, StaleIsKnown, Stale, ToCome, IsArrival
  <1> QED BY <1>3, <1>5, <1>6 DEF HealInv

LEMMA FrameKeeps == ASSUME HealInv, NEW c \in Cameras, Frame(c) PROVE HealInv'
  <1>1. /\ UNCHANGED <<plugged, owner, wanted, watch, pass, heal, gap, blank>>
        /\ owner[TargetOf[c]] = c
        /\ dims' = [dims EXCEPT ![c] = TRUE] /\ run' = [run EXCEPT ![c] = 0]
    BY DEF Frame
  <1>2. HealType
    BY DEF HealInv
  <1>3. HealType'
    BY <1>1, <1>2 DEF HealType, watch
  <1>4. \A o \in Cameras : IF o = c THEN dims'[o] /\ run'[o] = 0
                                    ELSE dims'[o] = dims[o] /\ run'[o] = run[o]
    BY <1>1, <1>2 DEF HealType
  <1>5. StreakCovers'
    <2> SUFFICES ASSUME NEW o \in Cameras
                 PROVE  /\ run'[o] <= heal[o].fruitless
                        /\ dims'[o] => run'[o] = 0
                        /\ haveSnapshot /\ TargetOf[o] \in plugged \ snapshot => run'[o] = 0
                        /\ IsArrival(o) => run'[o] = 0
      BY <1>1 DEF StreakCovers, IsArrival, watch
    <2>1. heal[o].fruitless \in Nat
      BY <1>2, HealTypes
    <2> QED BY <1>4, <2>1 DEF HealInv, StreakCovers
  <1>6. PassSees' /\ OnlyWanted' /\ ArrivalOwed' /\ StaleIsKnown'
    BY <1>1, <1>4
    DEF HealInv, PassSees, OnlyWanted, ArrivalOwed, StaleIsKnown, Stale, ToCome, IsArrival, watch
  <1> QED BY <1>3, <1>5, <1>6 DEF HealInv

LEMMA ForeignKeeps == ASSUME HealInv, NEW d \in Saved, ForeignGrabs(d) PROVE HealInv'
  <1>1. /\ UNCHANGED <<plugged, dims, wanted, watch, pass, heal, gap, run, blank>>
        /\ owner[d] \in {Nobody, Foreign}
        /\ owner' = [owner EXCEPT ![d] = IF @ = Nobody THEN Foreign ELSE Nobody]
    BY DEF ForeignGrabs
  <1>2. HealType
    BY DEF HealInv
  <1>3. HealType'
    BY <1>1, <1>2 DEF HealType, watch
  <1>4. ASSUME NEW c \in Cameras
        PROVE  owner'[TargetOf[c]] = c <=> owner[TargetOf[c]] = c
    <2>1. c # Nobody /\ c # Foreign /\ TargetOf[c] \in Saved
      BY <1>2, HealTypes
    <2> QED BY <1>1, <1>2, <2>1 DEF HealType
  <1> QED
    BY <1>1, <1>3, <1>4
    DEF HealInv, PassSees, OnlyWanted, StreakCovers, ArrivalOwed, StaleIsKnown, Stale, ToCome,
        IsArrival, watch

LEMMA SetWantedKeeps == ASSUME HealInv, NEW c \in Cameras, SetWanted(c) PROVE HealInv'
  <1>1. UNCHANGED <<plugged, watch, pass, heal, gap, run, blank>>
    BY DEF SetWanted
  <1>2. HealType
    BY DEF HealInv
  <1>3. /\ owner' \in [Saved -> Cameras \cup {Nobody, Foreign}]
        /\ dims' \in [Cameras -> BOOLEAN]
        /\ dims'[c] => dims[c] /\ owner'[TargetOf[c]] = c
        /\ \A o \in Cameras : o # c =>
             /\ dims'[o] = dims[o]
             /\ owner'[TargetOf[o]] = o <=> owner[TargetOf[o]] = o
        /\ wanted' \subseteq Cameras
        /\ \A o \in Cameras : o # c => (o \in wanted' <=> o \in wanted)
        /\ c \in wanted' \/ (owner'[TargetOf[c]] # c /\ ~dims'[c])
    <2>1. CASE c \in wanted
      <3>1. /\ wanted' = wanted \ {c}
            /\ owner' = [owner EXCEPT ![TargetOf[c]] = IF @ = c THEN Nobody ELSE @]
            /\ dims' = [dims EXCEPT ![c] = FALSE]
        BY <2>1 DEF SetWanted
      <3>2. TargetOf[c] \in Saved /\ c # Nobody
        BY <1>2, HealTypes
      <3>3. /\ owner \in [Saved -> Cameras \cup {Nobody, Foreign}]
            /\ dims \in [Cameras -> BOOLEAN] /\ wanted \subseteq Cameras
        BY <1>2 DEF HealType
      <3>4. owner' \in [Saved -> Cameras \cup {Nobody, Foreign}] /\ owner'[TargetOf[c]] # c
        BY <3>1, <3>2, <3>3
      <3>5. dims' \in [Cameras -> BOOLEAN] /\ ~dims'[c]
        BY <3>1, <3>3
      <3>6. ASSUME NEW o \in Cameras, o # c
            PROVE  dims'[o] = dims[o] /\ (owner'[TargetOf[o]] = o <=> owner[TargetOf[o]] = o)
        <4>1. TargetOf[o] \in Saved /\ o # Nobody
          BY <1>2, HealTypes
        <4> QED BY <3>1, <3>2, <3>3, <3>6, <4>1
      <3> QED BY <3>1, <3>3, <3>4, <3>5, <3>6
    <2>2. CASE c \notin wanted
      <3>1. wanted' = wanted \cup {c} /\ Restart(c)
        BY <2>2 DEF SetWanted
      <3> QED BY <1>2, <3>1, RestartEffect DEF HealType
    <2> QED BY <2>1, <2>2
  <1>4. HealType'
    BY <1>1, <1>2, <1>3 DEF HealType, watch
  <1>5. OnlyWanted' /\ StreakCovers'
    BY <1>1, <1>3 DEF HealInv, OnlyWanted, StreakCovers, IsArrival, watch
  <1>6. PassSees' /\ ArrivalOwed'
    BY <1>1 DEF HealInv, PassSees, ArrivalOwed, watch
  <1>7. StaleIsKnown'
    BY <1>1, <1>3 DEF HealInv, StaleIsKnown, Stale, ToCome, IsArrival, watch
  <1> QED BY <1>4, <1>5, <1>6, <1>7 DEF HealInv

LEMMA PokeKeeps == ASSUME HealInv, Poke PROVE HealInv'
  <1>1. /\ UNCHANGED <<plugged, owner, dims, wanted, snapshot, haveSnapshot, pass, heal, gap, run, blank>>
        /\ poked' = FALSE /\ timers' = timers \cup {"debounce"}
    BY DEF Poke, external
  <1>2. HealType'
    BY <1>1 DEF HealInv, HealType
  <1> QED
    BY <1>1, <1>2
    DEF HealInv, PassSees, OnlyWanted, StreakCovers, ArrivalOwed, StaleIsKnown, Stale, ToCome,
        IsArrival

LEMMA CoolDownKeeps == ASSUME HealInv, NEW c \in Cameras, CoolDown(c) PROVE HealInv'
  <1>1. /\ UNCHANGED <<plugged, owner, dims, wanted, watch, pass, gap, run, blank>>
        /\ heal' = [heal EXCEPT ![c] = [heal[c] EXCEPT !.cooling = FALSE]]
    BY DEF CoolDown, external
  <1>2. HealType
    BY DEF HealInv
  <1> DEFINE cooled == [heal[c] EXCEPT !.cooling = FALSE]
  <1>5. heal \in [Cameras -> HealRec] /\ heal[c] \in HealRec
    BY <1>2 DEF HealType, HealRec
  <1>6. cooled \in HealRec /\ cooled.fruitless = heal[c].fruitless
    BY <1>5 DEF HealRec
  <1>7. heal' = [heal EXCEPT ![c] = cooled]
    BY <1>1
  <1> HIDE DEF cooled
  <1>8. heal' \in [Cameras -> HealRec]
    BY <1>5, <1>6, <1>7
  <1>3. HealType'
    BY <1>1, <1>2, <1>8 DEF HealType, HealRec, watch
  <1>4. \A o \in Cameras : heal'[o].fruitless = heal[o].fruitless
    BY <1>5, <1>6, <1>7
  <1> QED
    BY <1>1, <1>3, <1>4
    DEF HealInv, PassSees, OnlyWanted, StreakCovers, ArrivalOwed, StaleIsKnown, Stale, ToCome,
        IsArrival, watch

\* An enumeration that is kept lists what is plugged in, and starts a pass
\* whose arrivals were plugged in since the one before.
LEMMA EnumerateKeeps ==
  ASSUME HealInv, NEW timer \in timers, Enumerate(timer)  PROVE HealInv'
  <1>1. /\ UNCHANGED <<plugged, owner, dims, wanted, poked, heal, run>>
        /\ pass = NoPass /\ timers' = timers \ {timer}
    BY DEF Enumerate, external
  <1>2. HealType
    BY DEF HealInv
  <1>3. PICK current \in {plugged, {}} :
          /\ Looked(current)
          /\ IF current = {}
             THEN UNCHANGED <<snapshot, haveSnapshot, pass>>
             ELSE /\ snapshot' = current /\ haveSnapshot' = TRUE
                  /\ pass' = [next |-> 1, current |-> current, arrived |-> Arrived(current)]
    BY DEF Enumerate
  <1>4. /\ blank' = (current = {})
        /\ gap' = [d \in Saved |->
                     IF d \in plugged \/ gap[d] \in {"none", "seen"} THEN gap[d]
                     ELSE IF current = {} THEN "passed" ELSE "seen"]
    BY <1>3 DEF Looked
  <1>5. ASSUME NEW c \in Cameras
        PROVE  \/ gap'[TargetOf[c]] = gap[TargetOf[c]]
               \/ current = {} /\ gap'[TargetOf[c]] = "passed"
               \/ current # {} /\ gap'[TargetOf[c]] = "seen" /\ TargetOf[c] \notin plugged
    BY <1>2, <1>4, HealTypes
  <1>6. CASE current = {}
    <2>1. UNCHANGED <<snapshot, haveSnapshot, pass>> /\ blank'
      BY <1>3, <1>4, <1>6
    <2>2. HealType'
      <3>1. gap' \in [Saved -> {"none", "missed", "passed", "seen"}] /\ blank' \in BOOLEAN
        BY <1>2, <1>4 DEF HealType
      <3> QED BY <1>1, <1>2, <2>1, <3>1 DEF HealType
    <2>3. StaleIsKnown'
      BY <1>1, <1>5, <1>6, <2>1 DEF HealInv, StaleIsKnown, Stale, ToCome, IsArrival
    <2> QED
      BY <1>1, <2>1, <2>2, <2>3
      DEF HealInv, PassSees, OnlyWanted, StreakCovers, ArrivalOwed, IsArrival
  <1>7. CASE current # {}
    <2>1. /\ snapshot' = plugged /\ haveSnapshot' = TRUE /\ current = plugged
          /\ pass' = [next |-> 1, current |-> plugged, arrived |-> Arrived(plugged)]
      BY <1>3, <1>7
    <2>2. pass'.next = 1 /\ pass'.current = plugged /\ pass'.arrived = Arrived(plugged)
      BY <2>1
    <2>3. /\ Arrived(plugged) \subseteq plugged
          /\ \A d \in Arrived(plugged) : haveSnapshot /\ d \in plugged \ snapshot
          /\ haveSnapshot => \A d \in plugged : d \notin snapshot => d \in Arrived(plugged)
      BY DEF Arrived
    <2>4. HealType'
      <3>1. gap' \in [Saved -> {"none", "missed", "passed", "seen"}] /\ blank' \in BOOLEAN
        BY <1>2, <1>4 DEF HealType
      <3>2. pass' \in [next : Nat, current : SUBSET Devices, arrived : SUBSET Devices]
        BY <1>2, <2>1, <2>3 DEF HealType
      <3> QED BY <1>1, <1>2, <2>1, <3>1, <3>2 DEF HealType
    <2>5. PassSees' /\ ArrivalOwed'
      BY <1>1, <2>1, <2>2, <2>3 DEF PassSees, ArrivalOwed
    <2>6. StreakCovers'
      BY <1>1, <2>1, <2>2, <2>3 DEF HealInv, StreakCovers, IsArrival
    <2>7. StaleIsKnown'
      <3> SUFFICES ASSUME NEW c \in Cameras, Stale(c),
                          gap'[TargetOf[c]] \notin {"missed", "passed"}
                   PROVE  /\ gap'[TargetOf[c]] = "seen"
                          /\ TargetOf[c] \in plugged => ToCome(c)'
        BY <1>1, <2>1 DEF StaleIsKnown, Stale
      <3>1. CASE TargetOf[c] \notin plugged
        <4>1. gap'[TargetOf[c]] \in {"none", "seen"}
          BY <1>2, <2>4, HealTypes DEF HealType
        <4>2. gap[TargetOf[c]] # "none"
          BY DEF HealInv, StaleIsKnown
        <4> QED BY <1>5, <1>7, <3>1, <4>1, <4>2
      <3>2. CASE TargetOf[c] \in plugged
        <4>1. gap'[TargetOf[c]] = gap[TargetOf[c]]
          BY <1>5, <1>7, <3>2
        <4>2. /\ gap[TargetOf[c]] = "seen" /\ haveSnapshot
              /\ TargetOf[c] \notin snapshot \/ ToCome(c)
          BY <4>1 DEF HealInv, StaleIsKnown
        <4>3. ~ToCome(c)
          BY <1>1, NoPassSees DEF ToCome, IsArrival
        <4>4. IsArrival(c)'
          BY <2>2, <2>3, <3>2, <4>2, <4>3 DEF IsArrival
        <4>5. \E i \in 1..Len(Order) : Order[i] = c
          BY DEF Cameras
        <4> QED BY <2>2, <4>1, <4>2, <4>4, <4>5 DEF ToCome
      <3> QED BY <3>1, <3>2
    <2>8. OnlyWanted'
      BY <1>1 DEF HealInv, OnlyWanted
    <2> QED BY <2>4, <2>5, <2>6, <2>7, <2>8 DEF HealInv
  <1> QED BY <1>6, <1>7

\* What a pass notes in a camera's fields, and the attempt it may add.
LEMMA HealFields ==
  ASSUME HealType, NEW c \in Cameras, NEW k \in 0..MaxFruitless
  PROVE  /\ Noted(c) \in HealRec
         /\ Noted(c).fruitless = IF dims[c] THEN 0 ELSE heal[c].fruitless
         /\ dims[c] => Noted(c).seen
         /\ [Noted(c) EXCEPT !.fruitless = k] \in HealRec
         /\ [Noted(c) EXCEPT !.fruitless = k].fruitless = k
         /\ Attempted([Noted(c) EXCEPT !.fruitless = k]) \in HealRec
         /\ Attempted([Noted(c) EXCEPT !.fruitless = k]).fruitless = k
  <1>1. heal[c] \in HealRec /\ dims[c] \in BOOLEAN
    BY DEF HealType, HealRec
  <1>2. 0 \in 0..MaxFruitless
    BY FruitlessAssumption
  <1>3. /\ Noted(c) \in HealRec
        /\ Noted(c).fruitless = IF dims[c] THEN 0 ELSE heal[c].fruitless
        /\ dims[c] => Noted(c).seen
    BY <1>1, <1>2 DEF Noted, HealRec
  <1> DEFINE n == Noted(c)
             m == [n EXCEPT !.fruitless = k]
  <1> HIDE DEF n
  <1>4. n \in HealRec
    BY <1>3 DEF n
  <1>5. m \in HealRec /\ m.fruitless = k
    BY <1>4 DEF HealRec
  <1> HIDE DEF m
  <1>6. Attempted(m) \in HealRec /\ Attempted(m).fruitless = k
    BY <1>5 DEF Attempted, HealRec
  <1> QED BY <1>3, <1>5, <1>6 DEF m, n

\* The turn of a camera: what becomes of its fields, its hold and its frame size.
LEMMA TurnEffect ==
  ASSUME HealInv, HealOne, NEW c, c = Order[pass.next]
  PROVE  /\ owner' \in [Saved -> Cameras \cup {Nobody, Foreign}]
         /\ dims' \in [Cameras -> BOOLEAN]
         /\ heal' \in [Cameras -> HealRec] /\ run' \in [Cameras -> Nat]
         /\ \A o \in Cameras : o # c =>
              /\ dims'[o] = dims[o] /\ heal'[o] = heal[o] /\ run'[o] = run[o]
              /\ owner'[TargetOf[o]] = o <=> owner[TargetOf[o]] = o
         /\ c \in Cameras =>
              /\ owner'[TargetOf[c]] = c \/ dims'[c] => c \in wanted
              /\ run'[c] <= heal'[c].fruitless
              /\ dims'[c] => run'[c] = 0
              /\ run'[c] # 0 => ~IsArrival(c) /\ (run[c] # 0 \/ TargetOf[c] \in pass.current)
              /\ dims'[c] /\ owner'[TargetOf[c]] # c =>
                   Stale(c) /\ (TargetOf[c] \in pass.current => ~IsArrival(c))
  <1> DEFINE n == Noted(c)
  <1>1. HealType /\ wanted \subseteq Cameras
    BY DEF HealInv, HealType
  <1>2. /\ owner \in [Saved -> Cameras \cup {Nobody, Foreign}]
        /\ dims \in [Cameras -> BOOLEAN]
        /\ heal \in [Cameras -> HealRec] /\ run \in [Cameras -> Nat]
    BY <1>1 DEF HealType, HealRec
  <1>3. \A o \in Cameras : /\ owner[TargetOf[o]] = o \/ dims[o] => o \in wanted
                           /\ run[o] <= heal[o].fruitless
                           /\ dims[o] => run[o] = 0
                           /\ IsArrival(o) => run[o] = 0
    BY DEF HealInv, OnlyWanted, StreakCovers
  <1>4. /\ pass.arrived \subseteq pass.current
        /\ 0 \in 0..MaxFruitless
    BY FruitlessAssumption DEF HealInv, PassSees
  <1>5. CASE ~Present(c) /\ UNCHANGED <<plugged, owner, dims, heal, run>>
    <2>1. TargetOf[c] \in pass.current /\ c \in Cameras => ~dims[c]
      BY <1>3, <1>5 DEF Present
    <2> QED BY <1>2, <1>3, <1>5, <2>1 DEF Stale
  <1>6. CASE /\ Present(c) /\ ArrivalHeals(c)
             /\ heal' = [heal EXCEPT ![c] = Attempted([n EXCEPT !.fruitless = 0])]
             /\ Restart(c) /\ UNCHANGED run
    <2>1. c \in wanted /\ c \in Cameras /\ IsArrival(c)
      BY <1>1, <1>6 DEF Present, ArrivalHeals
    <2>2. /\ Attempted([n EXCEPT !.fruitless = 0]) \in HealRec
          /\ Attempted([n EXCEPT !.fruitless = 0]).fruitless = 0
      BY <1>1, <1>4, <2>1, HealFields
    <2> DEFINE h == Attempted([n EXCEPT !.fruitless = 0])
    <2>3. heal' = [heal EXCEPT ![c] = h]
      BY <1>6
    <2> HIDE DEF h
    <2>4. /\ heal' \in [Cameras -> HealRec] /\ heal'[c].fruitless = 0
          /\ \A o \in Cameras : o # c => heal'[o] = heal[o]
      BY <1>2, <2>1, <2>2, <2>3 DEF h
    <2>5. run[c] = 0
      BY <1>3, <2>1
    <2> QED BY <1>1, <1>2, <1>6, <2>1, <2>4, <2>5, RestartEffect
  <1>7. CASE /\ Present(c) /\ FramelessHeals(c)
             /\ heal' = [heal EXCEPT ![c] = Attempted([n EXCEPT !.fruitless = @ + 1])]
             /\ Restart(c) /\ run' = [run EXCEPT ![c] = @ + 1]
    <2>1. c \in wanted /\ c \in Cameras /\ TargetOf[c] \in pass.current
      BY <1>1, <1>7 DEF Present
    <2>2. ~IsArrival(c) /\ ~dims[c] /\ heal[c].fruitless < MaxFruitless
      BY <1>7 DEF FramelessHeals
    <2>3. n.fruitless = heal[c].fruitless /\ heal[c].fruitless \in 0..MaxFruitless
      BY <1>1, <1>4, <2>1, <2>2, HealFields, HealTypes
    <2> DEFINE k == heal[c].fruitless + 1
    <2>4. k \in 0..MaxFruitless
      BY <2>2, <2>3, FruitlessAssumption
    <2> DEFINE h == Attempted([n EXCEPT !.fruitless = k])
    <2>5. heal' = [heal EXCEPT ![c] = h]
      BY <1>7, <2>3
    <2>6. h \in HealRec /\ h.fruitless = k
      BY <1>1, <2>1, <2>4, HealFields
    <2> HIDE DEF h
    <2>7. /\ heal' \in [Cameras -> HealRec] /\ heal'[c].fruitless = k
          /\ \A o \in Cameras : o # c => heal'[o] = heal[o]
      BY <1>2, <2>1, <2>5, <2>6
    <2>8. /\ run' \in [Cameras -> Nat] /\ run'[c] = run[c] + 1
          /\ \A o \in Cameras : o # c => run'[o] = run[o]
      BY <1>2, <1>7, <2>1
    <2>9. run[c] + 1 <= k
      BY <1>2, <1>3, <2>1, <2>3
    <2> QED BY <1>1, <1>7, <2>1, <2>2, <2>7, <2>8, <2>9, RestartEffect
  <1>8. CASE /\ Present(c) /\ ~ArrivalHeals(c)
             /\ heal' = [heal EXCEPT ![c] = IF IsArrival(c) THEN [n EXCEPT !.fruitless = 0]
                                                            ELSE n]
             /\ UNCHANGED <<plugged, owner, dims, run>>
    <2>1. c \in Cameras
      BY <1>1, <1>8 DEF Present
    <2>2. /\ n \in HealRec /\ n.fruitless = IF dims[c] THEN 0 ELSE heal[c].fruitless
          /\ dims[c] => n.seen
          /\ [n EXCEPT !.fruitless = 0] \in HealRec /\ [n EXCEPT !.fruitless = 0].fruitless = 0
      BY <1>1, <1>4, <2>1, HealFields
    <2>3. dims[c] => ~IsArrival(c)
      BY <1>8, <2>2 DEF ArrivalHeals
    <2> DEFINE h == IF IsArrival(c) THEN [n EXCEPT !.fruitless = 0] ELSE n
    <2>4. h \in HealRec /\ run[c] <= h.fruitless
      BY <1>2, <1>3, <2>1, <2>2
    <2>5. heal' = [heal EXCEPT ![c] = h]
      BY <1>8
    <2> HIDE DEF h
    <2>6. /\ heal' \in [Cameras -> HealRec] /\ heal'[c] = h
          /\ \A o \in Cameras : o # c => heal'[o] = heal[o]
      BY <1>2, <2>1, <2>4, <2>5
    <2> QED BY <1>2, <1>3, <1>8, <2>1, <2>3, <2>4, <2>6 DEF Stale
  <1> QED BY <1>5, <1>6, <1>7, <1>8 DEF HealOne, external

LEMMA HealOneKeeps == ASSUME HealInv, HealOne PROVE HealInv'
  <1> DEFINE c == Order[pass.next]
  <1>1. /\ UNCHANGED <<plugged, wanted, watch, gap, blank>> /\ Advance /\ pass # NoPass
    BY DEF HealOne, external
  <1>2. HealType
    BY DEF HealInv
  <1>3. /\ owner' \in [Saved -> Cameras \cup {Nobody, Foreign}]
        /\ dims' \in [Cameras -> BOOLEAN]
        /\ heal' \in [Cameras -> HealRec] /\ run' \in [Cameras -> Nat]
        /\ \A o \in Cameras : o # c =>
             /\ dims'[o] = dims[o] /\ heal'[o] = heal[o] /\ run'[o] = run[o]
             /\ owner'[TargetOf[o]] = o <=> owner[TargetOf[o]] = o
        /\ c \in Cameras =>
             /\ owner'[TargetOf[c]] = c \/ dims'[c] => c \in wanted
             /\ run'[c] <= heal'[c].fruitless
             /\ dims'[c] => run'[c] = 0
             /\ run'[c] # 0 => ~IsArrival(c) /\ (run[c] # 0 \/ TargetOf[c] \in pass.current)
             /\ dims'[c] /\ owner'[TargetOf[c]] # c =>
                  Stale(c) /\ (TargetOf[c] \in pass.current => ~IsArrival(c))
    BY TurnEffect
  <1>4. /\ pass \in [next : Nat, current : SUBSET Devices, arrived : SUBSET Devices]
        /\ pass.arrived \subseteq pass.current
        /\ haveSnapshot /\ pass.current = snapshot
    BY <1>1, <1>2 DEF HealInv, HealType, PassSees
  <1>5. \/ pass.next = Len(Order) /\ pass' = NoPass
        \/ pass.next # Len(Order) /\ pass' = [pass EXCEPT !.next = pass.next + 1]
    BY <1>1 DEF Advance
  <1>6. /\ pass' \in [next : Nat, current : SUBSET Devices, arrived : SUBSET Devices]
        /\ pass'.arrived \subseteq pass.arrived
    <2>1. CASE pass' = NoPass
      BY <2>1 DEF NoPass
    <2>2. CASE pass' = [pass EXCEPT !.next = pass.next + 1]
      BY <1>4, <2>2
    <2> QED BY <1>5, <2>1, <2>2
  <1>7. PassSees'
    BY <1>1, <1>4, <1>5, NoPassSees DEF PassSees, watch
  <1>8. \A o \in Cameras : o # c /\ ToCome(o) => ToCome(o)'
    <2> SUFFICES ASSUME NEW o \in Cameras, o # c, ToCome(o) PROVE ToCome(o)'
      OBVIOUS
    <2>1. PICK i \in pass.next..Len(Order) : Order[i] = o
      BY DEF ToCome
    <2>2. Len(Order) \in Nat /\ pass.next \in Nat
      BY <1>4, TargetAssumption, LenProperties
    <2>3. i # pass.next
      BY <2>1
    <2>4. pass.next # Len(Order)
      BY <2>1, <2>2, <2>3
    <2>5. pass'.arrived = pass.arrived /\ pass'.next = pass.next + 1
      BY <1>4, <1>5, <2>4
    <2>6. i \in pass'.next..Len(Order)
      BY <2>1, <2>2, <2>3, <2>5
    <2> QED BY <2>1, <2>5, <2>6 DEF ToCome, IsArrival
  <1> HIDE DEF c
  <1>9. HealType'
    BY <1>1, <1>2, <1>3, <1>6 DEF HealType, HealRec, watch
  <1>10. OnlyWanted' /\ ArrivalOwed'
    BY <1>1, <1>3 DEF HealInv, OnlyWanted, ArrivalOwed, watch
  <1>11. StreakCovers'
    <2> SUFFICES ASSUME NEW o \in Cameras
                 PROVE  /\ run'[o] <= heal'[o].fruitless
                        /\ dims'[o] => run'[o] = 0
                        /\ haveSnapshot /\ TargetOf[o] \in plugged \ snapshot => run'[o] = 0
                        /\ IsArrival(o) => run'[o] = 0
      BY <1>1, <1>6 DEF StreakCovers, IsArrival, watch
    <2>1. /\ haveSnapshot /\ TargetOf[o] \in plugged \ snapshot => run[o] = 0
          /\ run[o] <= heal[o].fruitless /\ (dims[o] => run[o] = 0)
          /\ IsArrival(o) => run[o] = 0
      BY DEF HealInv, StreakCovers
    <2>2. CASE o # c
      BY <1>3, <2>1, <2>2
    <2>3. CASE o = c
      BY <1>3, <1>4, <2>1, <2>3
    <2> QED BY <2>2, <2>3
  <1>12. StaleIsKnown'
    <2> SUFFICES ASSUME NEW o \in Cameras, dims'[o], owner'[TargetOf[o]] # o
                 PROVE  \/ gap[TargetOf[o]] \in {"missed", "passed"}
                        \/ /\ gap[TargetOf[o]] = "seen" /\ haveSnapshot
                           /\ TargetOf[o] \notin snapshot \/ ToCome(o)'
      BY <1>1 DEF StaleIsKnown, Stale, watch
    <2>1. Stale(o) =>
            \/ gap[TargetOf[o]] \in {"missed", "passed"}
            \/ /\ gap[TargetOf[o]] = "seen" /\ haveSnapshot
               /\ TargetOf[o] \notin snapshot \/ ToCome(o)
      BY DEF HealInv, StaleIsKnown
    <2>2. CASE o # c
      BY <1>3, <1>8, <2>1, <2>2 DEF Stale
    <2>3. CASE o = c
      BY <1>3, <1>4, <2>1, <2>3 DEF ToCome
    <2> QED BY <2>2, <2>3
  <1> QED BY <1>7, <1>9, <1>10, <1>11, <1>12 DEF HealInv

LEMMA HealInvariant == HealSpec => []HealInv
  <1>1. HealInv /\ [HealNext]_healVars => HealInv'
    <2>1. HealInv /\ UNCHANGED healVars => HealInv'
      BY DEF healVars, external, watch, HealInv, HealType, PassSees, OnlyWanted, StreakCovers,
             ArrivalOwed, StaleIsKnown, Stale, ToCome, IsArrival
    <2> QED
      BY <2>1, UnplugKeeps, PlugKeeps, ForeignKeeps, FrameKeeps, SetWantedKeeps, CoolDownKeeps,
         EnumerateKeeps, PokeKeeps, HealOneKeeps
      DEF HealNext
  <1> QED BY <1>1, HealInitHolds, PTL DEF HealSpec

(***************************************************************************)
(* However devices come and go, between a replug or a frame and the next   *)
(* one the passes restart a camera a bounded number of times               *)
(* (refreshDeviceSnapshotAndHeal, kHealMaxFruitless), for any number of    *)
(* cameras on any devices, several of them on one.                         *)
(***************************************************************************)
THEOREM RestartsAreBounded == HealSpec => []NoRestartStorm
  <1>1. HealInv => NoRestartStorm
    <2> SUFFICES ASSUME HealInv, NEW c \in Cameras PROVE run[c] <= MaxFruitless
      BY DEF NoRestartStorm
    <2>1. heal[c].fruitless \in 0..MaxFruitless /\ run[c] \in Nat /\ run[c] <= heal[c].fruitless
      BY HealTypes DEF HealInv, StreakCovers
    <2> QED BY <2>1, FruitlessAssumption
  <1> QED BY <1>1, HealInvariant, PTL

(***************************************************************************)
(* At rest, a camera that shows the frame from before its device was       *)
(* pulled, with the device back and free, is one whose device's absence no *)
(* kept enumeration saw, or the last enumeration came back empty.          *)
(***************************************************************************)
THEOREM NobodyStaysFrozen == HealSpec => []FrozenOnlyIfMissed
  <1>1. HealInv => FrozenOnlyIfMissed
    <2> SUFFICES ASSUME HealInv, Quiet, NEW c \in Cameras, Frozen(c)
                 PROVE  gap[TargetOf[c]] \in {"missed", "passed"} \/ blank
      BY DEF FrozenOnlyIfMissed
    <2>1. c # Nobody /\ TargetOf[c] \in plugged
      BY HealTypes DEF HealInv, Frozen
    <2>2. Stale(c)
      BY <2>1 DEF Frozen, Stale
    <2>3. ~ToCome(c)
      BY NoPassSees DEF Quiet, ToCome, IsArrival
    <2>4. TargetOf[c] \in plugged \ snapshot /\ haveSnapshot => blank
      BY DEF HealInv, ArrivalOwed, Quiet
    <2> QED BY <2>1, <2>2, <2>3, <2>4 DEF HealInv, StaleIsKnown
  <1> QED BY <1>1, HealInvariant, PTL
=============================================================================
