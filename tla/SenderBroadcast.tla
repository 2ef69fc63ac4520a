--------------------------- MODULE SenderBroadcast ---------------------------
(***************************************************************************)
(* The broadcast path of one instance: the source records of the control   *)
(* layer (ControlVerbs, Qt main thread), the sender slots of the engine    *)
(* (SpoutSenderEngine, main and graphics thread), the process-local set of *)
(* reserved names (SenderNameAllocator), and the session-wide Spout        *)
(* registry, which other processes of the session write too.               *)
(*                                                                         *)
(* A source record has at most one slot at a time and slot ids are never   *)
(* reused, so a slot is identified here by the source it was attached for. *)
(* Names are members of a set: AllocNames[b] is the sequence of candidates *)
(* the allocator tries for the base name b (b, b_2, b_3, ... up to its     *)
(* suffix budget), SpoutNames[n] the sequence Spout itself tries for a     *)
(* requested name n (n, n_1, n_2, ...).                                    *)
(***************************************************************************)
EXTENDS Naturals, Sequences, FiniteSets

CONSTANTS
  Sources,       \* the sources a user creates and removes
  Names,         \* every sender name of this instance's prefix
  None,          \* no name, no source
  BaseName,      \* BaseName[s]: SpoutNaming::makeSenderName for s, truncated
  AllocNames,    \* AllocNames[b]: the allocator's candidates for base b
  SpoutNames,    \* SpoutNames[n]: Spout's candidates for requested name n
  ForeignNames,  \* the names other processes may register
  MaxSenders     \* the capacity of the session registry (maxSenders_)

ASSUME NoneAssumption == None \notin Sources /\ None \notin Names
ASSUME NamingAssumption ==
  /\ BaseName \in [Sources -> Names]
  /\ AllocNames \in [Names -> Seq(Names)]
  /\ SpoutNames \in [Names -> Seq(Names)]
  \* Spout tries the requested name itself first
  /\ \A n \in Names : Len(SpoutNames[n]) > 0 /\ SpoutNames[n][1] = n
  /\ ForeignNames \subseteq Names
ASSUME MaxSendersAssumption == MaxSenders \in Nat \ {0}

VARIABLES
  \* ---- Qt main thread
  rec,       \* rec[s]: the control layer's record of source s
  main,      \* the verb the main thread is in the middle of
  \* ---- SpoutSenderEngine (mutex_)
  slot,      \* slot[s]: the sender slot attached for s
  running,   \* the render callback is registered
  \* ---- SenderNameAllocator (its own mutex)
  reserved,  \* the names reserved by this process
  \* ---- graphics thread
  frame,     \* the snapshotted slots the current frame has still to render
  sent,      \* the slot whose send is done and whose bookkeeping is pending
  \* ---- Spout, session-wide
  registry,  \* every registered sender name
  foreign,   \* those registered by other processes
  \* ---- auxiliary
  published  \* published[s]: the last name s was read back as published under

mainVars == <<rec, main>>
engineVars == <<slot, running, reserved>>
graphicsVars == <<frame, sent>>
sessionVars == <<registry, foreign>>
vars == <<mainVars, engineVars, graphicsVars, sessionVars, published>>

MaybeName == Names \cup {None}

NoRecord == [here |-> FALSE, live |-> FALSE, alloc |-> None, sender |-> None]
DarkRecord == [NoRecord EXCEPT !.here = TRUE]

NoSlot == [phase |-> "none", resolved |-> None, actual |-> None,
           spout |-> None, up |-> FALSE, failed |-> FALSE]
NewSlot(n) == [NoSlot EXCEPT !.phase = "attached", !.resolved = n]

Idle == main.op = "idle"
ToIdle == main' = [op |-> "idle", src |-> None]
InVerb(op, s) == main.op = op /\ main.src = s
ToVerb(op, s) == main' = [op |-> op, src |-> s]

FrameOver == frame = {} /\ sent = None

\* The first entry of a candidate sequence that is not taken, or None.
FirstFree(candidates, taken) ==
  LET free == {i \in DOMAIN candidates : candidates[i] \notin taken}
  IN IF free = {} THEN None
     ELSE candidates[CHOOSE i \in free : \A j \in free : i <= j]

----------------------------------------------------------------------------
(***************************************************************************)
(* SenderNameAllocator.                                                    *)
(***************************************************************************)

\* Mutants: a lookup that forgets this process's reservations, and one that
\* forgets the sticky name.
ResolvedNameUnreserved(s, sticky) ==
  IF sticky # None /\ sticky \in reserved
  THEN sticky ELSE FirstFree(AllocNames[BaseName[s]], registry)
ResolvedNameForgets(s, sticky) ==
  FirstFree(AllocNames[BaseName[s]], registry \cup reserved)

\* resolve(): a sticky name that is still reserved by anyone in this process
\* comes back unchanged; otherwise the first candidate free in both sets.
ResolvedName(s, sticky) ==
  IF sticky # None /\ sticky \in reserved
  THEN sticky
  ELSE FirstFree(AllocNames[BaseName[s]], registry \cup reserved)

\* rebind(): the reservation follows the name Spout registered.
Rebind(old, adopted) == reserved' = (reserved \ {old}) \cup {adopted}

----------------------------------------------------------------------------
(***************************************************************************)
(* Qt main thread.  A verb runs to its end before the next begins; it is   *)
(* split where the graphics thread can run in between.                     *)
(***************************************************************************)

Init ==
  /\ rec = [s \in Sources |-> NoRecord]
  /\ main = [op |-> "idle", src |-> None]
  /\ slot = [s \in Sources |-> NoSlot]
  /\ running = TRUE
  /\ reserved = {}
  /\ frame = {}
  /\ sent = None
  /\ registry = {}
  /\ foreign = {}
  /\ published = [s \in Sources |-> None]

\* SpoutSenderEngine::attach: reserve a name, push the slot.
Attach(s, sticky) ==
  LET name == ResolvedName(s, sticky) IN
  /\ name # None
  /\ reserved' = reserved \cup {name}
  /\ slot' = [slot EXCEPT ![s] = NewSlot(name)]

\* CreateSource without startBroadcast.
CreateSource(s) ==
  /\ Idle
  /\ ~rec[s].here
  /\ rec' = [rec EXCEPT ![s] = DarkRecord]
  /\ UNCHANGED <<main, engineVars, graphicsVars, sessionVars, published>>

\* CreateSource with startBroadcast: no sticky name is passed.
CreateAndBroadcast(s) ==
  /\ Idle
  /\ ~rec[s].here
  /\ Attach(s, None)
  /\ rec' = [rec EXCEPT ![s] = DarkRecord]
  /\ running' = TRUE
  /\ ToVerb("capture", s)
  /\ UNCHANGED <<graphicsVars, sessionVars, published>>

\* Mutant: a restart that asks for any name instead of its own.
StartBroadcastAnew(s) ==
  /\ Idle
  /\ rec[s].here /\ ~rec[s].live
  /\ Attach(s, None)
  /\ running' = TRUE
  /\ ToVerb("capture", s)
  /\ UNCHANGED <<rec, graphicsVars, sessionVars, published>>

\* StartBroadcast, one target at a time; a target already broadcasting is
\* skipped, and one that cannot be attached stays dark.
StartBroadcast(s) ==
  /\ Idle
  /\ rec[s].here /\ ~rec[s].live
  /\ Attach(s, rec[s].alloc)
  /\ running' = TRUE
  /\ ToVerb("capture", s)
  /\ UNCHANGED <<rec, graphicsVars, sessionVars, published>>

\* The tail of every attaching verb: the record reads back the name its
\* slot holds by now.
CaptureName(s) ==
  /\ InVerb("capture", s)
  /\ rec' = [rec EXCEPT ![s].live = TRUE, ![s].alloc = slot[s].resolved,
                        ![s].sender = None]
  /\ ToIdle
  /\ UNCHANGED <<engineVars, graphicsVars, sessionVars, published>>

\* SpoutSenderEngine::detach, first half: move the slot out of slots_.  The
\* verb then blocks until the graphics thread has run the teardown task.
Claim(s, verb) ==
  /\ Idle
  /\ rec[s].live
  /\ slot' = [slot EXCEPT ![s].phase = "claimed"]
  /\ ToVerb(verb, s)
  /\ UNCHANGED <<rec, running, reserved, graphicsVars, sessionVars, published>>

StopBroadcast(s) == Claim(s, "stop")
RemoveLiveSource(s) == Claim(s, "remove")
SetSourceFormat(s) == Claim(s, "format")

TornDown(s) == slot[s].phase = "none"

\* StopBroadcast, after the detach: the record keeps its sticky name.
FinishStop(s) ==
  /\ InVerb("stop", s) /\ TornDown(s)
  /\ rec' = [rec EXCEPT ![s].live = FALSE, ![s].sender = None]
  /\ ToIdle
  /\ UNCHANGED <<engineVars, graphicsVars, sessionVars, published>>

\* The record ends: the name it believes it owns returns to the pool.
DropRecord(s) ==
  /\ reserved' = reserved \ {rec[s].alloc}
  /\ rec' = [rec EXCEPT ![s] = NoRecord]
  /\ published' = [published EXCEPT ![s] = None]

FinishRemove(s) ==
  /\ InVerb("remove", s) /\ TornDown(s)
  /\ DropRecord(s)
  /\ ToIdle
  /\ UNCHANGED <<slot, running, graphicsVars, sessionVars>>

RemoveDarkSource(s) ==
  /\ Idle
  /\ rec[s].here /\ ~rec[s].live
  /\ DropRecord(s)
  /\ UNCHANGED <<main, slot, running, graphicsVars, sessionVars>>

\* SetSourceFormat re-attaches under the sticky name.
FinishFormat(s) ==
  /\ InVerb("format", s) /\ TornDown(s)
  /\ rec' = [rec EXCEPT ![s].live = FALSE, ![s].sender = None]
  /\ Attach(s, rec[s].alloc)
  /\ ToVerb("capture", s)
  /\ UNCHANGED <<running, graphicsVars, sessionVars, published>>

\* ... and reports 1011 when no name is left; the source is dark then.
FormatFails(s) ==
  /\ InVerb("format", s) /\ TornDown(s)
  /\ ResolvedName(s, rec[s].alloc) = None
  /\ rec' = [rec EXCEPT ![s].live = FALSE, ![s].sender = None]
  /\ ToIdle
  /\ UNCHANGED <<engineVars, graphicsVars, sessionVars, published>>

\* Mutants: announcing the reserved name before it is published, and
\* announcing only a name that differs from the one reserved.
RefreshedEarly(r, sl) == [r EXCEPT !.alloc = sl.resolved, !.sender = sl.resolved]
RefreshedOnChange(r, sl) ==
  [r EXCEPT !.alloc = sl.resolved,
            !.sender = IF sl.resolved # r.alloc THEN sl.actual ELSE r.sender]

\* refreshFromEngine: the poll tick, GetStatus and ListSources mirror the
\* engine's names into the records and announce a newly read-back name.
Refreshed(r, sl) ==
  [r EXCEPT !.alloc = sl.resolved,
            !.sender = IF sl.actual # None THEN sl.actual ELSE r.sender]

RefreshFromEngine ==
  /\ Idle
  /\ rec' = [s \in Sources |->
               IF rec[s].live /\ slot[s].phase = "attached"
               THEN Refreshed(rec[s], slot[s]) ELSE rec[s]]
  /\ UNCHANGED <<main, engineVars, graphicsVars, sessionVars, published>>

\* SpoutSenderEngine::stop, first half (profile load, teardown): no new
\* frame begins, and the verb waits for the one in flight.
BeginReload ==
  /\ Idle
  /\ running' = FALSE
  /\ ToVerb("reload", None)
  /\ UNCHANGED <<rec, slot, reserved, graphicsVars, sessionVars, published>>

\* The slots are torn down, their names and then those of all records are
\* released, and the profile's sources (none at exit) take over, dark.
FinishReload(profile) ==
  LET upNames == {slot[s].spout : s \in {t \in Sources : slot[t].up}}
      slotNames == {slot[s].resolved : s \in Sources}
      recNames == {rec[s].alloc : s \in Sources}
  IN
  /\ InVerb("reload", None)
  /\ FrameOver
  /\ slot' = [s \in Sources |-> NoSlot]
  /\ registry' = registry \ upNames
  /\ foreign' = foreign \ upNames
  /\ reserved' = reserved \ (slotNames \cup recNames)
  /\ rec' = [s \in Sources |-> IF s \in profile THEN DarkRecord ELSE NoRecord]
  /\ published' = [s \in Sources |-> None]
  /\ running' = TRUE
  /\ ToIdle
  /\ UNCHANGED graphicsVars

----------------------------------------------------------------------------
(***************************************************************************)
(* Graphics thread.                                                        *)
(***************************************************************************)

\* renderAllImpl: snapshot the live slots under the mutex.
FrameBegin ==
  /\ running
  /\ FrameOver
  /\ frame' = {s \in Sources : slot[s].phase = "attached" /\ ~slot[s].failed}
  /\ frame' # {}
  /\ UNCHANGED <<mainVars, engineVars, sent, sessionVars, published>>

RenderDone(s) == frame' = frame \ {s}

\* initSlotOnRenderThread: SetSenderName already steps aside for a name that
\* is registered at that moment.
SlotInit(s) ==
  LET name == FirstFree(SpoutNames[slot[s].resolved], registry) IN
  /\ s \in frame /\ sent = None
  /\ slot[s].spout = None
  /\ name # None
  /\ slot' = [slot EXCEPT ![s].spout = name]
  /\ UNCHANGED <<mainVars, running, reserved, graphicsVars, sessionVars, published>>

\* No device: the sender is disabled for the life of the slot.
SlotInitFails(s) ==
  /\ s \in frame /\ sent = None
  /\ slot[s].spout = None
  /\ slot' = [slot EXCEPT ![s].failed = TRUE]
  /\ RenderDone(s)
  /\ UNCHANGED <<mainVars, running, reserved, sent, sessionVars, published>>

\* A 0x0 source, a failed texrender begin or a failed send: no bookkeeping
\* of names.
SlotSkip(s) ==
  /\ s \in frame /\ sent = None
  /\ slot[s].spout # None
  /\ RenderDone(s)
  /\ UNCHANGED <<mainVars, engineVars, sent, sessionVars, published>>

\* SendTexture succeeds.  The first one registers the sender; Spout suffixes
\* once more if the name was taken since, and registers nothing, yet reports
\* success, when the registry is full.
SlotSend(s) ==
  LET full == Cardinality(registry) >= MaxSenders
      name == IF full THEN slot[s].spout
              ELSE FirstFree(SpoutNames[slot[s].spout], registry)
  IN
  /\ s \in frame /\ sent = None
  /\ slot[s].spout # None
  /\ IF slot[s].up
     THEN UNCHANGED <<slot, registry>>
     ELSE /\ name # None
          /\ slot' = [slot EXCEPT ![s].up = TRUE, ![s].spout = name]
          /\ registry' = IF full THEN registry ELSE registry \cup {name}
  /\ sent' = s
  /\ UNCHANGED <<mainVars, running, reserved, frame, foreign, published>>

\* The locked bookkeeping after the send: read the name back once and, when
\* it is not the reserved one, move reservation and resolved name to it.
SlotCommit(s) ==
  /\ sent = s
  /\ IF slot[s].actual = None
     THEN /\ slot' = [slot EXCEPT ![s].actual = slot[s].spout,
                                  ![s].resolved = slot[s].spout]
          /\ IF slot[s].spout # slot[s].resolved
             THEN Rebind(slot[s].resolved, slot[s].spout)
             ELSE UNCHANGED reserved
          /\ published' = [published EXCEPT ![s] = slot[s].spout]
     ELSE UNCHANGED <<slot, reserved, published>>
  /\ RenderDone(s)
  /\ sent' = None
  /\ UNCHANGED <<mainVars, running, sessionVars>>

\* Mutants: the slot is freed under a running frame, freed without releasing
\* its sender, or freed only when it ever published.
TeardownAnytime(s) ==
  /\ slot[s].phase = "claimed"
  /\ slot' = [slot EXCEPT ![s] = NoSlot]
  /\ registry' = registry \ {slot[s].spout}
  /\ UNCHANGED <<mainVars, running, reserved, graphicsVars, foreign, published>>
TeardownKeepsSender(s) ==
  /\ slot[s].phase = "claimed"
  /\ FrameOver
  /\ slot' = [slot EXCEPT ![s] = NoSlot]
  /\ UNCHANGED <<mainVars, running, reserved, graphicsVars, sessionVars, published>>
TeardownPublishedOnly(s) ==
  /\ slot[s].phase = "claimed" /\ slot[s].up
  /\ FrameOver
  /\ slot' = [slot EXCEPT ![s] = NoSlot]
  /\ registry' = registry \ {slot[s].spout}
  /\ UNCHANGED <<mainVars, running, reserved, graphicsVars, foreign, published>>

\* teardownSlotGpuTask, queued by detach: it runs between two frames.
Teardown(s) ==
  /\ slot[s].phase = "claimed"
  /\ FrameOver
  /\ slot' = [slot EXCEPT ![s] = NoSlot]
  /\ IF slot[s].up
     THEN /\ registry' = registry \ {slot[s].spout}
          /\ foreign' = foreign \ {slot[s].spout}
     ELSE UNCHANGED sessionVars
  /\ UNCHANGED <<mainVars, running, reserved, graphicsVars, published>>

----------------------------------------------------------------------------
(***************************************************************************)
(* Other processes of the session (external to src/).                      *)
(***************************************************************************)

ForeignRegister(n) ==
  /\ n \notin registry
  /\ Cardinality(registry) < MaxSenders
  /\ registry' = registry \cup {n}
  /\ foreign' = foreign \cup {n}
  /\ UNCHANGED <<mainVars, engineVars, graphicsVars, published>>

\* It releases the name, or crashed and CleanSenders pruned it.
ForeignRelease(n) ==
  /\ n \in foreign
  /\ registry' = registry \ {n}
  /\ foreign' = foreign \ {n}
  /\ UNCHANGED <<mainVars, engineVars, graphicsVars, published>>

----------------------------------------------------------------------------

MainStep(s) ==
  \/ CreateSource(s) \/ CreateAndBroadcast(s) \/ StartBroadcast(s)
  \/ StopBroadcast(s) \/ RemoveLiveSource(s) \/ SetSourceFormat(s)
  \/ RemoveDarkSource(s)

\* What the main thread does on its own once a verb has begun.
VerbStep(s) ==
  \/ CaptureName(s) \/ FinishStop(s) \/ FinishRemove(s)
  \/ FinishFormat(s) \/ FormatFails(s)

GraphicsStep(s) ==
  \/ SlotInit(s) \/ SlotInitFails(s) \/ SlotSkip(s) \/ SlotSend(s)
  \/ SlotCommit(s)

Next ==
  \/ \E s \in Sources : MainStep(s) \/ VerbStep(s) \/ GraphicsStep(s) \/ Teardown(s)
  \/ RefreshFromEngine
  \/ BeginReload
  \/ \E profile \in SUBSET Sources : FinishReload(profile)
  \/ FrameBegin
  \/ \E n \in ForeignNames : ForeignRegister(n) \/ ForeignRelease(n)

\* The Qt event loop finishes the verb it is in and, however many verbs are
\* queued, serves its one-second poll timer between two of them; the graphics
\* thread keeps rendering the frame it began and runs its task queue on every
\* iteration of its loop, hence between any two frames.
Fairness ==
  /\ \A s \in Sources :
       /\ WF_vars(VerbStep(s))
       /\ WF_vars(GraphicsStep(s))
       /\ SF_vars(Teardown(s))
  /\ WF_vars(\E profile \in SUBSET Sources : FinishReload(profile))
  /\ SF_vars(RefreshFromEngine)

Spec == Init /\ [][Next]_vars
FairSpec == Spec /\ Fairness

----------------------------------------------------------------------------
(***************************************************************************)
(* Properties.                                                             *)
(***************************************************************************)

RecordType ==
  [here : BOOLEAN, live : BOOLEAN, alloc : MaybeName, sender : MaybeName]

SlotType ==
  [phase : {"none", "attached", "claimed"}, resolved : MaybeName,
   actual : MaybeName, spout : MaybeName, up : BOOLEAN, failed : BOOLEAN]

MainType ==
  [op : {"idle", "capture", "stop", "remove", "format", "reload"},
   src : Sources \cup {None}]

\* Every variable keeps its type (the records and slots of the classes).
TypeOK ==
  /\ rec \in [Sources -> RecordType]
  /\ main \in MainType
  /\ slot \in [Sources -> SlotType]
  /\ running \in BOOLEAN
  /\ reserved \subseteq Names
  /\ frame \subseteq Sources
  /\ sent \in Sources \cup {None}
  /\ registry \subseteq Names
  /\ foreign \subseteq Names
  /\ published \in [Sources -> MaybeName]

\* The names source s relies on: its record's sticky name and the name of
\* the slot attached for it.
Holds(s) == {rec[s].alloc, slot[s].resolved} \ {None}

\* A reservation has one owner: no two sources ever rely on the same name,
\* whether they broadcast, are dark, or are in the middle of a verb.
ExclusiveNames ==
  \A s, t \in Sources : s # t => Holds(s) \cap Holds(t) = {}

\* Nothing leaks and nothing is unprotected: the allocator's set is exactly
\* what the records and slots rely on, after any sequence of verbs.
ReservationsAccounted ==
  reserved = UNION {Holds(s) : s \in Sources}

\* A source that was published once is only ever attached again under the
\* name it was published under ("every later re-attach re-announces the
\* name that was actually published").
StickyReattach ==
  \A s \in Sources :
    slot[s].phase = "attached" /\ published[s] # None
      => slot[s].resolved = published[s]

\* The graphics thread never touches a slot record that was freed: whatever
\* is in the frame's snapshot still exists, and a claimed slot is in it only
\* until the frame is over.
NoDanglingSlot ==
  \A s \in frame \cup ({sent} \ {None}) : slot[s].phase # "none"

\* The allocator hands out no name that Spout's own suffixing could give to
\* a sibling: a name adopted at registration is relied on by nobody else.
\* Claimed (SenderNameAllocator.hpp); two foreign names refute it.
AdoptedNameIsFree ==
  [][\A s, t \in Sources :
       s # t /\ slot[s].actual = None /\ slot'[s].actual # None
         => slot'[s].actual \notin Holds(t)]_vars

\* What the control API reports is the truth: an announced sender name is
\* the name the record's own slot registered, and only while it broadcasts.
AnnouncedIsRegistered ==
  \A s \in Sources :
    rec[s].sender # None =>
      /\ rec[s].live
      /\ slot[s].phase # "none" => slot[s].up /\ rec[s].sender = slot[s].spout

\* The session registry holds no name of this instance without a live
\* sender behind it, and no two slots publish under one registered name.
NoStaleRegistration ==
  registry \ foreign \subseteq {slot[s].spout : s \in {t \in Sources : slot[t].up}}

OneSlotPerName ==
  \A s, t \in Sources :
    s # t /\ slot[s].up /\ slot[t].up => slot[s].spout # slot[t].spout

RegistryMatchesSlots == NoStaleRegistration /\ OneSlotPerName

\* detach() and stop() block the main thread on a task of the graphics
\* thread; the wait always ends and the verb completes.
VerbsComplete == ~Idle ~> Idle

\* A name that was read back reaches the clients: the record announces it,
\* unless the slot is gone before the next poll tick.
NamesAnnounced ==
  \A s \in Sources :
    slot[s].phase = "attached" /\ slot[s].actual # None
      ~> rec[s].sender = slot[s].actual \/ slot[s].phase # "attached"

\* The abstract specification this one implements.
LeaseOf ==
  [s \in Sources |-> IF slot[s].phase # "none" THEN slot[s].resolved
                     ELSE rec[s].alloc]
OnAir == [s \in Sources |-> IF slot[s].up THEN slot[s].spout ELSE None]

Lease == INSTANCE NameLease WITH lease <- LeaseOf, onAir <- OnAir

\* Every behaviour of the broadcast path is one of the name-lease contract.
ImplementsLease == Lease!Spec

----------------------------------------------------------------------------
(***************************************************************************)
(* Inductive invariants.  LifeInv holds whatever other processes do, SoloInv *)
(* while none of them claims a name of the prefix.                         *)
(***************************************************************************)
Detaching == {"stop", "remove", "format"}

\* Where the main thread is, against the record and slot it works on.
MainInv ==
  /\ \A s \in Sources :
       /\ rec[s].live => rec[s].here /\ rec[s].alloc # None
       /\ ~rec[s].here => rec[s] = NoRecord /\ slot[s].phase = "none" /\ published[s] = None
       /\ slot[s].phase = "attached" /\ ~rec[s].live => InVerb("capture", s)
       /\ slot[s].phase = "claimed" => rec[s].live /\ main.src = s /\ main.op \in Detaching
       /\ rec[s].live /\ slot[s].phase = "none" => main.src = s /\ main.op \in Detaching
       /\ InVerb("capture", s) => slot[s].phase = "attached" /\ rec[s].here /\ ~rec[s].live
       /\ main.src = s /\ main.op \in Detaching => rec[s].live /\ slot[s].phase # "attached"
  /\ main.op \in Detaching \cup {"capture"} => main.src \in Sources

\* A slot has a name from its attach on, and Spout one once it registered.
SlotInv ==
  \A s \in Sources :
    /\ slot[s].phase = "none" => slot[s] = NoSlot
    /\ slot[s].phase # "none" => slot[s].resolved # None
    /\ slot[s].up => slot[s].spout # None

\* The graphics thread works on slots that exist.
FrameInv ==
  /\ \A s \in frame : slot[s].phase # "none"
  /\ sent # None => sent \in frame /\ slot[sent].spout # None

LifeInv ==
  /\ TypeOK
  /\ MainInv
  /\ SlotInv
  /\ FrameInv

\* Spout publishes a slot under the name it was attached with.
SpoutAgrees ==
  \A s \in Sources :
    /\ slot[s].spout # None => slot[s].spout = slot[s].resolved
    /\ slot[s].actual # None => slot[s].actual = slot[s].resolved

\* The registry holds nothing but the names of senders that are up.
RegistryInv ==
  /\ foreign = {}
  /\ \A n \in registry : \E s \in Sources : slot[s].up /\ slot[s].spout = n

\* Record and slot of a source agree on one name.
OneName ==
  \A s \in Sources :
    /\ rec[s].alloc # None /\ slot[s].resolved # None => rec[s].alloc = slot[s].resolved
    /\ published[s] # None => published[s] \in Holds(s)

SoloInv ==
  /\ LifeInv
  /\ SpoutAgrees
  /\ RegistryInv
  /\ OneName
  /\ ExclusiveNames
  /\ ReservationsAccounted

\* A name is read back only from a sender that is up, and stays its name.
ReadBack ==
  /\ \A s \in Sources :
       slot[s].actual # None => slot[s].up /\ slot[s].actual = slot[s].spout
  /\ sent # None => slot[sent].up

\* Whatever other processes do: what is announced and what is registered
\* both belong to a sender that is up.
AnnounceInv ==
  /\ LifeInv
  /\ ReadBack
  /\ AnnouncedIsRegistered
  /\ NoStaleRegistration

\* A first send registers: the session's registry is not full.
RegistryHasRoom == ~(Cardinality(registry) >= MaxSenders)

\* While there is room, a sender that is up owns its entry of the registry.
UpIsRegistered ==
  \A s \in Sources : slot[s].up => slot[s].spout \in registry \ foreign

ForeignIsRegistered == foreign \subseteq registry

RoomInv ==
  /\ AnnounceInv
  /\ ForeignIsRegistered
  /\ UpIsRegistered
  /\ OneSlotPerName
=============================================================================
