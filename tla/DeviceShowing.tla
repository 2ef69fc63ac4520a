---------------------------- MODULE DeviceShowing ----------------------------
(***************************************************************************)
(* When a source holds its capture device.  libobs keeps a capture open    *)
(* while a count of showing references is positive; the helper owns one    *)
(* reference per source (ControlVerbs::SourceRec::deviceShowing) and the   *)
(* sender engine raises another one for as long as a slot is attached.     *)
(* Verbs move both: CreateSource, RemoveSource, StartBroadcast,            *)
(* StopBroadcast, SetSourceFormat, SetSourceIdleMode and                   *)
(* SetSourceProperties, each a whole handler on the main thread.           *)
(*                                                                         *)
(* Left out: everything a handler does to names, senders and audio taps    *)
(* (SenderBroadcast), the property cache, and a second outcome of          *)
(* SetSourceProperties that changes nothing here (an unknown key).         *)
(***************************************************************************)
EXTENDS Naturals

CONSTANTS Sources,   \* every record the session may hold
          KindOf     \* its type: "camera", "wasapi", "screen" or "plain"

Kinds == {"camera", "wasapi", "screen", "plain"}

ASSUME KindAssumption == KindOf \in [Sources -> Kinds]

VARIABLES rec,       \* the record, or NoRec
          showRefs,  \* external: libobs's show_refs of the source
          excused    \* observer: the last decision on showing was skipped or overtaken

vars == <<rec, showRefs, excused>>

NoRec == [live |-> FALSE, configured |-> FALSE, releaseWhenIdle |-> FALSE,
          disabled |-> FALSE, deviceShowing |-> FALSE, slot |-> FALSE]

\* Types whose engine holds a capture device no one else can open.
HoldsExclusiveDevice(s) == KindOf[s] \in {"camera", "wasapi"}

\* Types that are created without a reference until a target is chosen.
Gated(s) == KindOf[s] \in {"camera", "screen"}

TargetConfigured(s, target) == target \/ ~Gated(s)

DeviceShouldShow(r) == ~r.disabled /\ ~(r.releaseWhenIdle /\ ~r.slot)

(***************************************************************************)
(* applyDeviceShowing: the record r of s, with the helper's reference      *)
(* raised or lowered, and the count libobs is left with.  `held' is the    *)
(* count before, since a handler may have moved it already.                *)
(***************************************************************************)
Shown(r, on) == [r EXCEPT !.deviceShowing = on]

RefsAfter(held, r, on) ==
  IF on THEN held + (IF r.deviceShowing THEN 0 ELSE 1)
        ELSE held - (IF r.deviceShowing THEN 1 ELSE 0)

Apply(s, held, r, on) ==
  /\ rec' = [rec EXCEPT ![s] = Shown(r, on)]
  /\ showRefs' = [showRefs EXCEPT ![s] = RefsAfter(held, r, on)]

Keep(s, held, r) ==
  /\ rec' = [rec EXCEPT ![s] = r]
  /\ showRefs' = [showRefs EXCEPT ![s] = held]

Excuse(s, why) == excused' = [excused EXCEPT ![s] = why]

Init == /\ rec = [s \in Sources |-> NoRec]
        /\ showRefs = [s \in Sources |-> 0]
        /\ excused = [s \in Sources |-> FALSE]

(***************************************************************************)
(* CreateSource: the factory raises the reference unless the type waits    *)
(* for a target; startBroadcast attaches at once, without looking at the   *)
(* reference, and its failure leaves a source that is merely not live.     *)
(***************************************************************************)
CreateSource(s) ==
  /\ ~rec[s].live
  /\ \E target, attached \in BOOLEAN :
       LET shows == TargetConfigured(s, target)
       IN /\ rec' = [rec EXCEPT ![s] =
                       [NoRec EXCEPT !.live = TRUE, !.configured = target,
                                     !.deviceShowing = shows, !.slot = attached]]
          /\ showRefs' = [showRefs EXCEPT
                            ![s] = (IF shows THEN 1 ELSE 0) + (IF attached THEN 1 ELSE 0)]
  /\ Excuse(s, FALSE)

\* RemoveSource: detach lowers the slot's reference, then the helper's own if it is raised.
RemoveSource(s) ==
  /\ rec[s].live
  /\ rec' = [rec EXCEPT ![s] = NoRec]
  /\ showRefs' = [showRefs EXCEPT
                    ![s] = @ - (IF rec[s].slot THEN 1 ELSE 0)
                             - (IF rec[s].deviceShowing THEN 1 ELSE 0)]
  /\ Excuse(s, FALSE)

(***************************************************************************)
(* StartBroadcast of one target: the reference is decided before attach,   *)
(* for every type and by disabled alone; a failed attach leaves it as it   *)
(* is.                                                                     *)
(***************************************************************************)
StartBroadcast(s) ==
  /\ rec[s].live
  /\ ~rec[s].slot
  /\ LET r    == rec[s]
         on   == ~r.disabled
         held == RefsAfter(showRefs[s], r, on)
     IN \/ /\ Keep(s, held + 1, [Shown(r, on) EXCEPT !.slot = TRUE])
           /\ Excuse(s, FALSE)
        \/ /\ Keep(s, held, Shown(r, on))
           /\ Excuse(s, TRUE)

\* Mutant: stopping leaves the reference to the next request.
StopBroadcastKeeps(s) ==
  /\ rec[s].live
  /\ rec[s].slot
  /\ Keep(s, showRefs[s] - 1, [rec[s] EXCEPT !.slot = FALSE])
  /\ Excuse(s, FALSE)

\* StopBroadcast of one target: detach, then release what an idle source must not hold.
StopBroadcast(s) ==
  /\ rec[s].live
  /\ rec[s].slot
  /\ LET r    == [rec[s] EXCEPT !.slot = FALSE]
         held == showRefs[s] - 1
     IN IF (r.releaseWhenIdle \/ r.disabled) /\ HoldsExclusiveDevice(s)
        THEN Apply(s, held, r, FALSE)
        ELSE Keep(s, held, r)
  /\ Excuse(s, FALSE)

(***************************************************************************)
(* SetSourceFormat of a broadcasting source: detach and attach again; a    *)
(* failed attach is a broadcast stop that decides nothing about showing.   *)
(***************************************************************************)
SetSourceFormat(s) ==
  /\ rec[s].live
  /\ rec[s].slot
  /\ \/ UNCHANGED vars
     \/ /\ Keep(s, showRefs[s] - 1, [rec[s] EXCEPT !.slot = FALSE])
        /\ Excuse(s, TRUE)

(***************************************************************************)
(* SetSourceIdleMode: releaseWhenIdle is stored before `disabled' is       *)
(* looked at; `disabled' may be malformed, absent (the old value) or a value. *)
(***************************************************************************)
IdleModeRefused(s) ==
  /\ rec[s].live
  /\ \E release \in BOOLEAN :
       /\ Keep(s, showRefs[s], [rec[s] EXCEPT !.releaseWhenIdle = release])
       /\ Excuse(s, TRUE)

SetSourceIdleMode(s) ==
  /\ rec[s].live
  /\ \E release \in BOOLEAN, disable \in BOOLEAN :
       LET r == [rec[s] EXCEPT !.releaseWhenIdle = release, !.disabled = disable]
       IN IF HoldsExclusiveDevice(s)
          THEN Apply(s, showRefs[s], r, DeviceShouldShow(r)) /\ Excuse(s, FALSE)
          ELSE Keep(s, showRefs[s], r) /\ UNCHANGED excused

(***************************************************************************)
(* SetSourceProperties, or the same echo after a device came back: the     *)
(* target may be set, changed or cleared; a dark source with a target is   *)
(* decided again, a showing one is left alone.                             *)
(***************************************************************************)
SetSourceProperties(s) ==
  /\ rec[s].live
  /\ \E target \in (IF Gated(s) THEN BOOLEAN ELSE {rec[s].configured}) :
       LET r == [rec[s] EXCEPT !.configured = target]
       IN IF ~r.deviceShowing /\ TargetConfigured(s, target)
          THEN Apply(s, showRefs[s], r, DeviceShouldShow(r)) /\ Excuse(s, FALSE)
          ELSE Keep(s, showRefs[s], r) /\ UNCHANGED excused

Next == \E s \in Sources :
          \/ CreateSource(s)
          \/ RemoveSource(s)
          \/ StartBroadcast(s)
          \/ StopBroadcast(s)
          \/ SetSourceFormat(s)
          \/ IdleModeRefused(s)
          \/ SetSourceIdleMode(s)
          \/ SetSourceProperties(s)

Spec == Init /\ [][Next]_vars
-----------------------------------------------------------------------------
RecType == [live : BOOLEAN, configured : BOOLEAN, releaseWhenIdle : BOOLEAN,
            disabled : BOOLEAN, deviceShowing : BOOLEAN, slot : BOOLEAN]

\* Every record and observer keeps its type and libobs's count never wraps below zero.
TypeOK == /\ rec \in [Sources -> RecType]
          /\ showRefs \in [Sources -> Nat]
          /\ excused \in [Sources -> BOOLEAN]

(***************************************************************************)
(* "deviceShowing mirrors whether that ref is raised so dec/inc are always *)
(* balanced": through every verb and failure libobs holds exactly the      *)
(* helper's reference and the slot's, and none for a source that is gone.  *)
(***************************************************************************)
RefsBalanced ==
  \A s \in Sources :
    showRefs[s] = (IF rec[s].deviceShowing THEN 1 ELSE 0) + (IF rec[s].slot THEN 1 ELSE 0)

(***************************************************************************)
(* A disabled camera or audio input never keeps the helper's reference:    *)
(* whatever order starting, stopping, failing, re-targeting and the idle   *)
(* mode come in, none of them raises it again.                             *)
(***************************************************************************)
DisabledHoldsNoRef ==
  \A s \in Sources :
    HoldsExclusiveDevice(s) /\ rec[s].disabled => ~rec[s].deviceShowing

(***************************************************************************)
(* A source that releases its device while idle holds it only while it is  *)
(* broadcasting, or after a request that failed half way: an idle mode     *)
(* refused after releaseWhenIdle was stored, or an attach that failed      *)
(* after the reference was raised or the old slot given up.                *)
(***************************************************************************)
IdleHoldsNoRef ==
  \A s \in Sources :
    HoldsExclusiveDevice(s) /\ rec[s].releaseWhenIdle /\ rec[s].deviceShowing
      => rec[s].slot \/ excused[s]

(***************************************************************************)
(* "disabled is a HARD override: the device is released and no frames are  *)
(* produced regardless of idle/placement" (ControlVerbs.cpp:2384).  The    *)
(* slot of a broadcast keeps its own reference.                            *)
(***************************************************************************)
DisabledIsDark ==
  \A s \in Sources :
    HoldsExclusiveDevice(s) /\ rec[s].disabled => showRefs[s] = 0
=============================================================================
