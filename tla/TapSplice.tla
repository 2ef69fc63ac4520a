------------------------------ MODULE TapSplice ------------------------------
(***************************************************************************)
(* What is heard of one source: the push thread marks the discontinuities  *)
(* of its audio, the render thread mixes chunk by chunk through a holdback *)
(* of one fade length, and every splice (a seam of the source, a dry ring, *)
(* a shed, a new delay, a detach, a lost device) is to be faded on both    *)
(* sides.                                                                  *)
(*                                                                         *)
(* The unit of audio is one fade (kFadeFrames, 5 ms); a chunk is Chunk of  *)
(* them.  A unit is known by its two edges, each at "zero" (silent, or the *)
(* end of a fade) or "on", by whether it follows the unit before it (cut), *)
(* and by whether the mark of its seam was lost; fades that begin inside a *)
(* unit are abstracted.  How much is shed and when is ServoTrim's concern: *)
(* here any amount may be.  Volume ramps, meters and counters are left out.*)
(***************************************************************************)
EXTENDS Integers, Sequences, SequencesExt

CONSTANTS
  Chunk,       \* the units of one mix
  RingUnits,   \* the units a ring holds
  Cushion,     \* the units a tap waits for before it contributes
  Blocks,      \* the sizes of a push
  Delays,      \* the sync offsets, in units
  MaxDraining  \* the bound on detached taps that wait for a mix

ASSUME SizesAssumption ==
  /\ Chunk \in Nat \ {0} /\ RingUnits \in Nat /\ Cushion \in Nat
  /\ Blocks \subseteq Nat \ {0} /\ Delays \subseteq Nat

VARIABLES
  tap,       \* the attached tap of the source, if any
  draining,  \* the detached taps that still hold audio
  device,    \* "none", "down", "warm" (just opened) or "up"
  resume,    \* how the next mix resumes: "steady", "reopened", "starved", "ramped"
  engine,    \* "off", "running" or "stopping"
  clicks     \* observes: why the last mix had a step in it

spliceVars == <<tap, draining, device, resume, engine, clicks>>

None == -1

Plain == [left |-> "on", right |-> "on", cut |-> FALSE, lost |-> FALSE]
Silence == [left |-> "zero", right |-> "zero", cut |-> FALSE, lost |-> FALSE]

Risen(u) == [u EXCEPT !.left = "zero"]
Tapered(u) == [u EXCEPT !.right = "zero"]
Cut(u) == [u EXCEPT !.cut = TRUE]

NoTap == [on |-> FALSE, push |-> "idle", ring |-> <<>>, rise |-> FALSE, gap |-> FALSE,
          joint |-> None, late |-> FALSE, primed |-> FALSE, fadeIn |-> FALSE,
          hold |-> <<>>, want |-> 0, delay |-> 0, edge |-> "zero"]

SpliceInit ==
  /\ tap = NoTap /\ draining = <<>>
  /\ device = "none" /\ resume = "steady" /\ engine = "off"
  /\ clicks = {}

TaperedTail(hold) == IF hold = <<>> THEN hold ELSE [hold EXCEPT ![Len(hold)] = Tapered(@)]

----------------------------------------------------------------------------
(***************************************************************************)
(* The push thread.                                                        *)
(***************************************************************************)

\* Where the mark of an earlier seam still waits to be read, a new mark at
\* another place replaces it.
Forgotten(r) ==
  IF r.joint > 0 /\ r.joint < Len(r.ring)
    THEN [r EXCEPT !.ring[r.joint + 1].lost = TRUE]
    ELSE r

\* The seam is marked at the tail.  With nothing unread before it the fade
\* comes too late for what was read already.
Marked(r) ==
  [Forgotten(r) EXCEPT !.joint = Len(r.ring), !.rise = TRUE, !.gap = TRUE,
                       !.late = @ \/ r.ring = <<>>]

\* A callback starts; a timestamp jump is marked before anything is written.
CallbackBegin(jump) ==
  /\ tap.on /\ tap.push = "idle"
  /\ tap' = [IF jump THEN Marked(tap) ELSE tap EXCEPT !.push = "writing"]
  /\ UNCHANGED <<draining, device, resume, engine, clicks>>

First(r) ==
  LET u == IF r.gap THEN [Cut(Plain) EXCEPT !.lost = r.late] ELSE Plain IN
  IF r.rise THEN Risen(u) ELSE u

\* All of the push fits, or none of it.
PushWrite(n) ==
  /\ tap.push = "writing"
  /\ tap' = IF Len(tap.ring) + n <= RingUnits
              THEN [tap EXCEPT !.ring = (@ \o <<First(tap)>>) \o [i \in 1..n - 1 |-> Plain],
                               !.rise = FALSE, !.gap = FALSE, !.late = FALSE,
                               !.push = "idle"]
              ELSE [tap EXCEPT !.push = "dropping"]
  /\ UNCHANGED <<draining, device, resume, engine, clicks>>

\* The hole of a dropped push is a seam too.
PushDropped ==
  /\ tap.push = "dropping"
  /\ tap' = [Marked(tap) EXCEPT !.push = "idle"]
  /\ UNCHANGED <<draining, device, resume, engine, clicks>>

----------------------------------------------------------------------------
(***************************************************************************)
(* The verbs.                                                              *)
(***************************************************************************)

AttachSource(delay) ==
  /\ ~tap.on
  /\ engine # "stopping"
  /\ tap' = [NoTap EXCEPT !.on = TRUE, !.want = delay, !.delay = delay]
  /\ UNCHANGED <<draining, device, resume, engine, clicks>>

SetSourceSyncOffset(delay) ==
  /\ tap.on
  /\ engine # "stopping"
  /\ tap' = [tap EXCEPT !.want = delay]
  /\ UNCHANGED <<draining, device, resume, engine, clicks>>

\* The callback is removed first, which waits for one under way.
Detached ==
  /\ tap.on => tap.push = "idle"
  /\ tap' = NoTap
  /\ draining' = IF tap.on THEN Append(draining, [hold |-> tap.hold, edge |-> tap.edge])
                 ELSE draining

DetachSource ==
  /\ tap.on
  /\ engine # "stopping"
  /\ Len(draining) < MaxDraining
  /\ Detached
  /\ UNCHANGED <<device, resume, engine, clicks>>

Start ==
  /\ engine = "off"
  /\ engine' = "running"
  /\ UNCHANGED <<tap, draining, device, resume, clicks>>

StopBegin ==
  /\ engine = "running"
  /\ engine' = "stopping"
  /\ Detached
  /\ UNCHANGED <<device, resume, clicks>>

\* The taps have drained, or 150 ms have passed without a mix: by then the
\* queue of the device has run out and nothing is heard.
StopEnd ==
  /\ engine = "stopping"
  /\ engine' = "off"
  /\ draining' = <<>>
  /\ device' = "none" /\ resume' = "steady" /\ clicks' = {}
  /\ UNCHANGED tap

----------------------------------------------------------------------------
(***************************************************************************)
(* One mix.                                                                *)
(***************************************************************************)

Smaller(m, n) == IF m < n THEN m ELSE n

\* n units are thrown away; what follows does not follow what was read.
Discarded(r, n) ==
  LET rest == SubSeq(r.ring, n + 1, Len(r.ring)) IN
  [r EXCEPT !.ring = IF n = 0 \/ rest = <<>> THEN rest ELSE [rest EXCEPT ![1] = Cut(@)],
            !.gap = @ \/ (n > 0 /\ rest = <<>>),
            !.joint = IF @ = None THEN None ELSE IF @ < n THEN 0 ELSE @ - n]

\* A splice of the render thread: old side out, new side in.
Spliced(r, n) == [Discarded(r, n) EXCEPT !.hold = TaperedTail(@), !.fadeIn = TRUE]

\* A longer delay lets the ring fill up again; what was held is emitted.
Refills(r) == r.want > r.delay /\ r.primed

Reconciled(r) ==
  IF Refills(r) THEN [r EXCEPT !.primed = FALSE, !.hold = <<>>, !.delay = r.want]
  ELSE IF r.want < r.delay /\ r.primed
    THEN [Spliced(r, Smaller(r.delay - r.want, Len(r.ring))) EXCEPT !.delay = r.want]
  ELSE [r EXCEPT !.delay = r.want]

\* A full enough tap starts to contribute, from a silent holdback.
PrimedIfFull(r) ==
  IF r.primed \/ Len(r.ring) < Cushion + r.delay THEN r
  ELSE [Discarded(r, Len(r.ring) - (Cushion + r.delay))
          EXCEPT !.primed = TRUE, !.fadeIn = TRUE, !.hold = <<Silence>>]

\* Mutant: only the unit after the seam is faded.
JointTaperedNever(units, joint) == units

\* The unit before a seam is faded out as it is read.
JointTapered(units, joint) ==
  IF joint \in 1..Len(units) THEN [units EXCEPT ![joint] = Tapered(@)] ELSE units

Pulled(r) ==
  LET units == JointTapered(SubSeq(r.ring, 1, Smaller(Chunk, Len(r.ring))), r.joint) IN
  IF r.fadeIn /\ units # <<>> THEN [units EXCEPT ![1] = Risen(@)] ELSE units

Dry(r) == Len(r.ring) < Chunk

\* What the holdback holds before it is emitted; a dry ring fades it out.
Unemitted(r) ==
  IF Dry(r) THEN TaperedTail(r.hold \o Pulled(r)) ELSE r.hold \o Pulled(r)

\* A read: the newest unit is held back, all of it emitted when dry.
Read(r) ==
  LET n == Len(Pulled(r)) IN
  [r EXCEPT !.ring = SubSeq(@, n + 1, Len(@)),
            !.joint = IF @ = None \/ @ <= n THEN None ELSE @ - n,
            !.fadeIn = @ /\ n = 0,
            !.primed = ~Dry(r),
            !.hold = IF Dry(r) THEN <<>> ELSE <<Last(Unemitted(r))>>]

Ready(r) == PrimedIfFull(Reconciled(r))

\* The units one tap puts into the chunk.
Emitted(r) ==
  LET early == IF Refills(r) THEN <<Tapered(r.hold[1])>> ELSE <<>>
      main == IF ~Ready(r).primed THEN <<>>
              ELSE IF Dry(Ready(r)) THEN Unemitted(Ready(r))
              ELSE Front(Unemitted(Ready(r))) IN
  early \o SubSeq(main, Len(early) + 1, Len(main))

AfterMix(r, shed) ==
  LET read == IF Ready(r).primed THEN Read(Ready(r)) ELSE Ready(r) IN
  IF read.primed /\ shed > 0 /\ shed <= Len(read.ring) THEN Spliced(read, shed) ELSE read

\* The chunk as it is heard: padded with silence, ramped in after a stall.
Heard(units) ==
  LET padded == units \o [i \in 1..Chunk - Len(units) |-> Silence] IN
  IF resume = "ramped" THEN [padded EXCEPT ![1] = Risen(@)] ELSE padded

Smooth(edge, u) ==
  IF edge = "zero" THEN u.left = "zero" ELSE u.left = "on" /\ ~u.cut

EdgeBefore(edge, units, i) == IF i = 1 THEN edge ELSE units[i - 1].right

\* Why there is a step at a unit.
Reason(u, i) ==
  IF u.lost THEN "lost"
  ELSE IF i = 1 /\ resume \in {"reopened", "starved"} THEN resume
  ELSE "unfaded"

Steps(edge, units) ==
  {Reason(units[i], i) :
     i \in {j \in 1..Len(units) : ~Smooth(EdgeBefore(edge, units, j), units[j])}}

Drained(d) == IF d.hold = <<>> THEN <<>> ELSE <<Tapered(d.hold[1])>>

\* Every detached tap is gone with the mix that emitted what it held.
MixChunk(shed) ==
  /\ engine # "off" /\ device \in {"warm", "up"}
  /\ tap' = IF tap.on
              THEN [AfterMix(tap, shed) EXCEPT !.edge = Last(Heard(Emitted(tap))).right]
              ELSE tap
  /\ draining' = <<>>
  /\ clicks' = (IF tap.on THEN Steps(tap.edge, Heard(Emitted(tap))) ELSE {})
               \cup UNION {Steps(draining[i].edge, Heard(Drained(draining[i]))) :
                             i \in DOMAIN draining}
  /\ resume' = "steady"
  /\ UNCHANGED <<device, engine>>

\* The servo sheds between two mixes.
ServoShed(n) ==
  /\ engine # "off" /\ device \in {"warm", "up"}
  /\ tap.on /\ n <= Len(tap.ring)
  /\ tap' = Spliced(tap, n)
  /\ clicks' = {}
  /\ UNCHANGED <<draining, device, resume, engine>>

----------------------------------------------------------------------------
(***************************************************************************)
(* The device.                                                             *)
(***************************************************************************)

\* Nothing is heard any more.
Silenced ==
  /\ tap' = [tap EXCEPT !.edge = "zero"]
  /\ draining' = [i \in DOMAIN draining |-> [draining[i] EXCEPT !.edge = "zero"]]
  /\ clicks' = {}

\* The queue of the device ran empty.  The seam is ramped in, once warm.
Starve ==
  /\ engine # "off" /\ device \in {"warm", "up"}
  /\ Silenced
  /\ resume' = IF device = "up" THEN "ramped" ELSE IF resume = "steady" THEN "starved" ELSE resume
  /\ UNCHANGED <<device, engine>>

DeviceLost ==
  /\ engine # "off" /\ device \in {"warm", "up"}
  /\ device' = "down"
  /\ Silenced
  /\ resume' = "steady"
  /\ UNCHANGED engine

\* A first open finds taps that were never mixed; a later one splices them.
OpenDevice(shed) ==
  /\ engine # "off" /\ device \in {"none", "down"}
  /\ device' = "warm"
  /\ IF device = "none" THEN UNCHANGED <<tap, draining, resume>>
     ELSE /\ tap' = IF tap.on THEN Spliced(tap, Smaller(shed, Len(tap.ring))) ELSE tap
          /\ draining' = [i \in DOMAIN draining |->
                            [draining[i] EXCEPT !.hold = TaperedTail(@)]]
          /\ resume' = "reopened"
  /\ clicks' = {}
  /\ UNCHANGED engine

WarmedUp ==
  /\ device = "warm"
  /\ device' = "up"
  /\ UNCHANGED <<tap, draining, resume, engine, clicks>>

----------------------------------------------------------------------------

Amounts == 0..RingUnits

SpliceNext ==
  \/ \E jump \in BOOLEAN : CallbackBegin(jump)
  \/ \E n \in Blocks : PushWrite(n)
  \/ PushDropped
  \/ \E delay \in Delays : AttachSource(delay) \/ SetSourceSyncOffset(delay)
  \/ DetachSource
  \/ Start \/ StopBegin \/ StopEnd
  \/ \E n \in Amounts : MixChunk(n) \/ ServoShed(n) \/ OpenDevice(n)
  \/ Starve \/ DeviceLost \/ WarmedUp

SpliceSpec == SpliceInit /\ [][SpliceNext]_spliceVars

----------------------------------------------------------------------------
(***************************************************************************)
(* Properties.                                                             *)
(***************************************************************************)

\* Every splice is heard as a fade, on both sides: dry rings, refills, sheds,
\* drops, jumps, delays and detaches, in any order.  The exceptions are a seam
\* whose mark was replaced or came too late, and a resume from silence.
OnlyLostSeamsStep == "unfaded" \notin clicks

\* Claimed (kFadeFrames, AudioMixEngine.cpp): jumps, drops, dry rings, detaches and
\* recovered devices are always faded.  It does not hold.
SplicesAreFaded == clicks \subseteq {"starved"}
----------------------------------------------------------------------------
(***************************************************************************)
(* The invariant the property rests on.                                    *)
(***************************************************************************)

Edges == {"zero", "on"}
Units == [left : Edges, right : Edges, cut : BOOLEAN, lost : BOOLEAN]
Unread == {u \in Units : u.right = "on"}

TapType ==
  [on : BOOLEAN, push : {"idle", "writing", "dropping"}, ring : Seq(Unread),
   rise : BOOLEAN, gap : BOOLEAN, joint : Nat \cup {None}, late : BOOLEAN,
   primed : BOOLEAN, fadeIn : BOOLEAN, hold : Seq(Units), want : Nat, delay : Nat,
   edge : Edges]

SpliceTypeOK ==
  /\ tap \in TapType
  /\ draining \in Seq([hold : Seq(Units), edge : Edges])
  /\ device \in {"none", "down", "warm", "up"}
  /\ resume \in {"steady", "reopened", "starved", "ramped"}
  /\ engine \in {"off", "running", "stopping"}

\* A unit sounds right after an edge, or the mark of its seam was lost.
Fits(edge, u) == u.lost \/ Smooth(edge, u)

\* In the ring each unit fits to the one before it: the one at the mark will be
\* faded out when it is read.
SeamInv(r) ==
  \A i \in 2..Len(r.ring) : Fits(IF r.joint = i - 1 THEN "zero" ELSE "on", r.ring[i])

\* The mark lies inside the ring; at its tail it waits for the unit to be pushed.
MarkInv(r) ==
  /\ r.joint <= Len(r.ring)
  /\ r.ring # <<>> => /\ r.rise \/ r.gap => r.rise /\ r.joint = Len(r.ring)
                      /\ r.joint = Len(r.ring) => r.rise
                      /\ ~r.late

\* A contributing tap holds back one unit.  The next one, be it pushed or not, fits
\* to it, or is to be faded in after a fade to zero.
HoldInv(r) ==
  /\ Len(r.hold) = IF r.primed THEN 1 ELSE 0
  /\ r.primed => IF r.fadeIn THEN r.hold[1].right = "zero"
                 ELSE Fits(r.hold[1].right, (r.ring \o <<First(r)>>)[1])

\* What was heard last and the unit held back, of a tap attached or detached.
EdgeInv(held, edge) ==
  /\ held = <<>> \/ resume = "ramped" \/ device = "down" => edge = "zero"
  /\ device = "none" => held = <<>>
  /\ device \in {"warm", "up"} /\ resume = "steady" /\ held # <<>> => Fits(edge, held[1])

SpliceInv ==
  /\ SpliceTypeOK
  /\ ~tap.on => tap = NoTap
  /\ SeamInv(tap) /\ MarkInv(tap) /\ HoldInv(tap) /\ EdgeInv(tap.hold, tap.edge)
  /\ \A i \in DOMAIN draining :
       Len(draining[i].hold) <= 1 /\ EdgeInv(draining[i].hold, draining[i].edge)
  /\ engine = "off" => device = "none"
  /\ engine = "stopping" => tap = NoTap
  /\ device \in {"none", "down"} => resume = "steady"
  /\ OnlyLostSeamsStep
=============================================================================
