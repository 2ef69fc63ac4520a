----------------------------- MODULE DeviceHeal ------------------------------
(***************************************************************************)
(* Cameras that lost their device are restarted when it comes back.        *)
(* Device notifications restart a debounce timer (DeviceArrivalWatch);     *)
(* when it fires, the main thread enumerates the present devices, compares *)
(* them with the last snapshot and restarts, camera by camera, the ones    *)
(* that need it (refreshDeviceSnapshotAndHeal).  While it does, devices    *)
(* come and go and frames arrive on other threads.                         *)
(*                                                                         *)
(* External, from how the pass relies on it: win-dshow and the bus.  A     *)
(* camera whose device is pulled keeps the size of its last frame; a       *)
(* restart opens a free device (keeping that size or clearing it) or fails *)
(* and clears it; nobody but a restart reopens a device.                   *)
(*                                                                         *)
(* `wanted' is deviceShouldShow, moved by the verbs of DeviceShowing.      *)
(* `gap' and `run' are observers: what the enumerations saw of a device's  *)
(* last absence, and the restarts that nothing new justified.              *)
(***************************************************************************)
EXTENDS Naturals, Sequences

CONSTANTS Order,        \* the cameras, in the order of the records
          Devices,      \* the devices that may be plugged in
          TargetOf,     \* the device each camera has saved
          MaxFruitless, \* kHealMaxFruitless
          Nobody,       \* owns a free device
          Foreign       \* another program that may own a device

Cameras == {Order[i] : i \in 1..Len(Order)}
Saved == {TargetOf[c] : c \in Cameras}

ASSUME TargetAssumption == Order \in Seq(Cameras) /\ TargetOf \in [Cameras -> Devices]
ASSUME OwnerAssumption == Cameras \cap {Nobody, Foreign} = {}
ASSUME FruitlessAssumption == MaxFruitless \in Nat

VARIABLES
  plugged, owner, dims,        \* external: the bus, the captures, the last frame sizes
  wanted,                      \* the cameras deviceShouldShow holds for
  snapshot, haveSnapshot,      \* the last enumeration that was committed
  poked, timers,               \* a notification on its way; the timers that run
  pass,                        \* the pass in progress: the next camera, what it saw
  heal,                        \* the heal fields of each record
  gap, run, blank              \* observers

external == <<plugged, owner, dims>>
watch == <<snapshot, haveSnapshot, poked, timers>>
healVars == <<external, wanted, watch, pass, heal, gap, run, blank>>

NoPass == [next |-> 0, current |-> {}, arrived |-> {}]

Fresh == [fruitless |-> 0, attempted |-> FALSE, seen |-> FALSE, cooling |-> FALSE]

HealInit ==
  /\ plugged \in SUBSET Devices
  /\ owner = [d \in Saved |-> Nobody]
  /\ dims = [c \in Cameras |-> FALSE]
  /\ wanted = {}
  /\ snapshot = {} /\ haveSnapshot = FALSE
  /\ poked = FALSE /\ timers = {"baseline"}
  /\ pass = NoPass
  /\ heal = [c \in Cameras |-> Fresh]
  /\ gap = [d \in Saved |-> "none"]
  /\ run = [c \in Cameras |-> 0]
  /\ blank = FALSE
-----------------------------------------------------------------------------
(* The world.                                                              *)

\* Any thread of the system: the notification only hops to the main thread.
Unplug(d) ==
  /\ d \in plugged
  /\ plugged' = plugged \ {d}
  /\ owner' = [s \in Saved |-> IF s = d THEN Nobody ELSE owner[s]]
  /\ gap' = [s \in Saved |-> IF s = d THEN "missed" ELSE gap[s]]
  /\ poked' = TRUE
  /\ UNCHANGED <<dims, wanted, snapshot, haveSnapshot, timers, pass, heal, run, blank>>

Plug(d) ==
  /\ d \notin plugged
  /\ plugged' = plugged \cup {d}
  /\ poked' = TRUE
  /\ run' = [c \in Cameras |-> IF TargetOf[c] = d THEN 0 ELSE run[c]]
  /\ UNCHANGED <<owner, dims, wanted, snapshot, haveSnapshot, timers, pass, heal, gap, blank>>

Frame(c) ==
  /\ owner[TargetOf[c]] = c
  /\ dims' = [dims EXCEPT ![c] = TRUE]
  /\ run' = [run EXCEPT ![c] = 0]
  /\ UNCHANGED <<plugged, owner, wanted, watch, pass, heal, gap, blank>>

ForeignGrabs(d) ==
  /\ d \in plugged
  /\ owner[d] \in {Nobody, Foreign}
  /\ owner' = [owner EXCEPT ![d] = IF @ = Nobody THEN Foreign ELSE Nobody]
  /\ UNCHANGED <<plugged, dims, wanted, watch, pass, heal, gap, run, blank>>

\* A capture is (re)started: its own hold on the device is given up first.
Restart(c) ==
  LET d == TargetOf[c]
      free == d \in plugged /\ owner[d] \in {Nobody, c}
  IN \/ /\ free
        /\ owner' = [owner EXCEPT ![d] = c]
        /\ \E kept \in {FALSE, dims[c]} : dims' = [dims EXCEPT ![c] = kept]
     \/ /\ owner' = [owner EXCEPT ![d] = IF @ = c THEN Nobody ELSE @]
        /\ dims' = [dims EXCEPT ![c] = FALSE]

\* A verb changed what deviceShouldShow says: the reference follows, and the capture with it.
SetWanted(c) ==
  /\ pass = NoPass
  /\ IF c \in wanted
     THEN /\ wanted' = wanted \ {c}
          /\ owner' = [owner EXCEPT ![TargetOf[c]] = IF @ = c THEN Nobody ELSE @]
          /\ dims' = [dims EXCEPT ![c] = FALSE]
     ELSE /\ wanted' = wanted \cup {c}
          /\ Restart(c)
  /\ UNCHANGED <<plugged, watch, pass, heal, gap, run, blank>>
-----------------------------------------------------------------------------
(* The watch.                                                              *)

\* The hop lands: the trailing debounce starts anew.
Poke ==
  /\ pass = NoPass
  /\ poked
  /\ poked' = FALSE
  /\ timers' = timers \cup {"debounce"}
  /\ UNCHANGED <<external, wanted, snapshot, haveSnapshot, pass, heal, gap, run, blank>>

(***************************************************************************)
(* A timer fires: enumerate, and compare with the last snapshot.  An empty *)
(* list ends the pass and is not kept; the first list that is kept is only *)
(* the baseline.  The list may come back empty although devices are there. *)
(***************************************************************************)
Arrived(current) == IF haveSnapshot THEN current \ snapshot ELSE {}

Looked(current) ==
  /\ blank' = (current = {})
  /\ gap' = [d \in Saved |->
               IF d \in plugged \/ gap[d] \in {"none", "seen"} THEN gap[d]
               ELSE IF current = {} THEN "passed" ELSE "seen"]

Enumerate(timer) ==
  /\ pass = NoPass
  /\ timer \in timers
  /\ timers' = timers \ {timer}
  /\ \E current \in {plugged, {}} :
       /\ Looked(current)
       /\ IF current = {}
          THEN UNCHANGED <<snapshot, haveSnapshot, pass>>
          ELSE /\ snapshot' = current
               /\ haveSnapshot' = TRUE
               /\ pass' = [next |-> 1, current |-> current, arrived |-> Arrived(current)]
  /\ UNCHANGED <<external, wanted, poked, heal, run>>

-----------------------------------------------------------------------------
(* The pass, one camera at a time.                                         *)

Present(c) == TargetOf[c] \in pass.current /\ c \in wanted

\* Frames were seen: a fresh chance, whatever comes next.
Noted(c) == IF dims[c] THEN [heal[c] EXCEPT !.fruitless = 0, !.seen = TRUE]
                       ELSE heal[c]

\* No attempt yet, or the last one is kHealCooldownMs past.
Rested(h) == h.attempted => ~h.cooling

SiblingOwns(c) ==
  \E o \in Cameras \ {c} : TargetOf[o] = TargetOf[c] /\ dims[o]

IsArrival(c) == TargetOf[c] \in pass.arrived

\* Mutant: a camera that has a frame size is live, arrival or not.
ArrivalHealsDark(c) == IsArrival(c) /\ ~dims[c] /\ Rested(heal[c])

\* An arrival is held back only by a recent attempt that brought no frames.
ArrivalHeals(c) == IsArrival(c) /\ (Noted(c).seen \/ Rested(heal[c]))

\* Mutant: the streak is not asked.
FramelessHealsUncapped(c) ==
  /\ ~IsArrival(c)
  /\ ~dims[c]
  /\ Rested(heal[c])
  /\ ~SiblingOwns(c)

\* A dark camera is retried a few times, at a distance, and not against a sibling.
FramelessHeals(c) ==
  /\ ~IsArrival(c)
  /\ ~dims[c]
  /\ heal[c].fruitless < MaxFruitless
  /\ Rested(heal[c])
  /\ ~SiblingOwns(c)

Attempted(h) == [h EXCEPT !.attempted = TRUE, !.seen = FALSE, !.cooling = TRUE]

Advance == pass' = IF pass.next = Len(Order) THEN NoPass ELSE [pass EXCEPT !.next = @ + 1]

HealOne ==
  /\ pass # NoPass
  /\ LET c == Order[pass.next]
         n == Noted(c)
     IN \/ /\ ~Present(c)
           /\ UNCHANGED <<external, heal, run>>
        \/ /\ Present(c)
           /\ ArrivalHeals(c)
           /\ heal' = [heal EXCEPT ![c] = Attempted([n EXCEPT !.fruitless = 0])]
           /\ Restart(c)
           /\ UNCHANGED <<plugged, run>>
        \/ /\ Present(c)
           /\ FramelessHeals(c)
           /\ heal' = [heal EXCEPT ![c] = Attempted([n EXCEPT !.fruitless = @ + 1])]
           /\ Restart(c)
           /\ run' = [run EXCEPT ![c] = @ + 1]
           /\ UNCHANGED plugged
        \/ /\ Present(c)
           /\ ~ArrivalHeals(c)
           /\ ~FramelessHeals(c)
           /\ heal' = [heal EXCEPT ![c] = IF IsArrival(c) THEN [n EXCEPT !.fruitless = 0]
                                                          ELSE n]
           /\ UNCHANGED <<external, run>>
  /\ Advance
  /\ UNCHANGED <<wanted, watch, gap, blank>>

\* kHealCooldownMs pass.
CoolDown(c) ==
  /\ heal[c].cooling
  /\ heal' = [heal EXCEPT ![c].cooling = FALSE]
  /\ UNCHANGED <<external, wanted, watch, pass, gap, run, blank>>

HealNext ==
  \/ \E d \in Devices : Unplug(d) \/ Plug(d)
  \/ \E d \in Saved : ForeignGrabs(d)
  \/ \E c \in Cameras : Frame(c) \/ SetWanted(c) \/ CoolDown(c)
  \/ \E timer \in timers : Enumerate(timer)
  \/ Poke
  \/ HealOne

HealSpec == HealInit /\ [][HealNext]_healVars
-----------------------------------------------------------------------------
Quiet == ~poked /\ timers = {} /\ pass = NoPass

\* Wanted, its device there and free, and yet showing the frame from before it was pulled.
Frozen(c) == /\ c \in wanted
             /\ dims[c]
             /\ TargetOf[c] \in plugged
             /\ owner[TargetOf[c]] = Nobody

(***************************************************************************)
(* No restart storm: between two real changes (the device was plugged in,  *)
(* or the camera really delivered a frame) the pass restarts a camera that *)
(* did not just arrive at most MaxFruitless times, however often other     *)
(* devices come and go and the cooldown elapses.                           *)
(***************************************************************************)
NoRestartStorm == \A c \in Cameras : run[c] <= MaxFruitless

(***************************************************************************)
(* When the watch has come to rest, a camera is still frozen in front of   *)
(* its free device only if no kept enumeration fell into the device's      *)
(* absence, or the last enumeration came back empty; neither the stale     *)
(* frame size, nor a sibling on the same device, nor the rate limits, nor  *)
(* changes during the pass leave it behind.                                *)
(***************************************************************************)
FrozenOnlyIfMissed ==
  Quiet => \A c \in Cameras :
             Frozen(c) => gap[TargetOf[c]] \in {"missed", "passed"} \/ blank

(***************************************************************************)
(* "A legit replug therefore heals instantly (the source produced frames   *)
(* before the unplug, or the last attempt is long past)"                   *)
(* (ControlVerbs.cpp:1338): a device whose absence an enumeration fell     *)
(* into and that is back leaves no camera frozen.  It does where the       *)
(* machine has no other camera.                                            *)
(***************************************************************************)
ReplugHeals ==
  Quiet => \A c \in Cameras : Frozen(c) => gap[TargetOf[c]] = "missed"
-----------------------------------------------------------------------------
(* The inductive invariant.                                                *)

HealRec == [fruitless : 0..MaxFruitless, attempted : BOOLEAN,
            seen : BOOLEAN, cooling : BOOLEAN]

HealType ==
  /\ plugged \subseteq Devices
  /\ owner \in [Saved -> Cameras \cup {Nobody, Foreign}]
  /\ dims \in [Cameras -> BOOLEAN]
  /\ wanted \subseteq Cameras
  /\ snapshot \subseteq Devices /\ haveSnapshot \in BOOLEAN
  /\ poked \in BOOLEAN /\ timers \subseteq {"baseline", "debounce"}
  /\ pass \in [next : Nat, current : SUBSET Devices, arrived : SUBSET Devices]
  /\ heal \in [Cameras -> HealRec]
  /\ gap \in [Saved -> {"none", "missed", "passed", "seen"}]
  /\ run \in [Cameras -> Nat]
  /\ blank \in BOOLEAN

\* A pass works on the enumeration it has committed.
PassSees ==
  /\ pass.arrived \subseteq pass.current
  /\ pass # NoPass => haveSnapshot /\ pass.current = snapshot

\* Only a camera that is wanted holds a device or the size of a frame.
OnlyWanted ==
  \A c \in Cameras : owner[TargetOf[c]] = c \/ dims[c] => c \in wanted

\* The streak counts at least what `run' does: what ends a streak (a frame, an
\* arrival) has ended the run before, when the frame came or the device was plugged in.
StreakCovers ==
  \A c \in Cameras :
    /\ run[c] <= heal[c].fruitless
    /\ dims[c] => run[c] = 0
    /\ haveSnapshot /\ TargetOf[c] \in plugged \ snapshot => run[c] = 0
    /\ IsArrival(c) => run[c] = 0

\* A device that came after the last kept enumeration is still to be enumerated.
ArrivalOwed ==
  haveSnapshot /\ plugged \ snapshot # {} => poked \/ "debounce" \in timers \/ blank

\* The frame size of a camera that lost its device.
Stale(c) == dims[c] /\ owner[TargetOf[c]] # c
ToCome(c) == IsArrival(c) /\ \E i \in pass.next..Len(Order) : Order[i] = c

\* Such a camera has its device missing from the snapshot, or its turn in the
\* pass is to come, unless no kept enumeration fell into the absence.
StaleIsKnown ==
  \A c \in Cameras : Stale(c) =>
    \/ gap[TargetOf[c]] \in {"missed", "passed"}
    \/ /\ gap[TargetOf[c]] = "seen"
       /\ haveSnapshot
       /\ TargetOf[c] \notin snapshot \/ ToCome(c)

HealInv ==
  HealType /\ PassSees /\ OnlyWanted /\ StreakCovers /\ ArrivalOwed /\ StaleIsKnown
=============================================================================
