------------------------------ MODULE PreviewFeed ------------------------------
(***************************************************************************)
(* The preview beside the verbs of DeviceShowing: the window selects a     *)
(* source, the display widget and the consume engine each keep a weak      *)
(* reference to it, and libobs's graphics thread upgrades one after the    *)
(* other in every tick to a strong reference of its own while clients      *)
(* remove sources, surfaces die and the window goes down.                  *)
(*                                                                         *)
(* Left out: what is drawn, and the slot's own strong reference, which     *)
(* goes with the detach inside a verb (SenderBroadcast).                   *)
(***************************************************************************)
EXTENDS DeviceShowing

CONSTANT None

ASSUME NoneAssumption == None \notin Sources

VARIABLES
  refs,     \* external: libobs's strong references to the source
  rows,     \* the sources the Sources list shows
  bound,    \* boundSourceId_, the selection
  queued,   \* sourcesRefreshQueued_
  weak,     \* MoxDisplayWidget::weakSource_
  consume,  \* PreviewConsumeEngine::weakSource_
  owed,     \* setSource has still to call the hook
  display,  \* "none", "up", or "dead" once its surface went
  running,  \* the consume engine's render callback is registered
  target,   \* texrender_ exists
  frame,    \* the graphics thread: where it is and the reference it holds
  phase     \* how far run_gui's teardown has come

feed == <<refs, rows, bound, queued, weak, consume, owed, display, running, target, frame, phase>>
allVars == <<vars, feed>>

FeedInit ==
  /\ Init
  /\ refs = [s \in Sources |-> 0]
  /\ rows = {} /\ bound = None /\ queued = FALSE
  /\ weak = None /\ consume = None /\ owed = FALSE
  /\ display = "none"
  /\ running = TRUE /\ target = FALSE
  /\ frame = [at |-> "idle", source |-> None]
  /\ phase = "loop"

Idle == phase = "loop" /\ ~owed   \* the main thread takes an event

-----------------------------------------------------------------------------
(* The window.                                                             *)

Resolved(s) == IF s # None /\ rec'[s].live THEN s ELSE None

\* onSelectionChanged: an unchanged binding is kept; the widget's half of
\* MoxDisplayWidget::setSource.
Rebind(s) ==
  IF s # None /\ s = bound
    THEN UNCHANGED <<bound, weak, owed>>
    ELSE bound' = s /\ weak' = Resolved(s) /\ owed' = TRUE

\* The hook: the consume engine follows, outside the widget's lock.
HookFires ==
  /\ owed
  /\ owed' = FALSE
  /\ consume' = weak
  /\ UNCHANGED <<vars, refs, rows, bound, queued, weak, display, running, target, frame, phase>>

SelectRow(s) ==
  /\ Idle /\ s \in rows \cup {None}
  /\ UNCHANGED vars
  /\ Rebind(s)
  /\ UNCHANGED <<refs, rows, queued, consume, display, running, target, frame, phase>>

Live == {s \in Sources : rec'[s].live}

\* Mutant: the selected row is kept even if its source is gone.
RefreshSticky ==
  /\ rows' = Live
  /\ Rebind(bound)

\* refreshSources: the rows are rebuilt and the selection kept if it is still there.
Refresh ==
  /\ rows' = Live
  /\ Rebind(IF bound \in Live THEN bound ELSE None)

QueuedRefresh ==
  /\ Idle /\ queued
  /\ queued' = FALSE
  /\ UNCHANGED vars
  /\ Refresh
  /\ UNCHANGED <<refs, consume, display, running, target, frame, phase>>

-----------------------------------------------------------------------------
(* The verbs.  sourceAdded and sourceRemoved queue a refresh at once.      *)

\* A new source has an id and an object of its own: a name of the model is
\* used again only when nothing refers to the old source.
Unreferenced(s) == refs[s] = 0 /\ s \notin {bound, weak, consume} \cup rows

Create(s) ==
  /\ Unreferenced(s)
  /\ CreateSource(s)
  /\ refs' = [refs EXCEPT ![s] = 1]

Remove(s) ==
  /\ RemoveSource(s)
  /\ refs' = [refs EXCEPT ![s] = @ - 1]

ClientVerb(s) ==
  /\ Idle
  /\ \/ (Create(s) \/ Remove(s)) /\ queued' = TRUE
     \/ /\ \/ StartBroadcast(s) \/ StopBroadcast(s) \/ SetSourceFormat(s)
           \/ IdleModeRefused(s) \/ SetSourceIdleMode(s) \/ SetSourceProperties(s)
        /\ UNCHANGED <<refs, queued>>
  /\ UNCHANGED <<rows, bound, weak, consume, owed, display, running, target, frame, phase>>

\* addSourceDialog selects what it created; removeSelectedSource refreshes at once.
AddSource(s) ==
  /\ Idle
  /\ Create(s)
  /\ queued' = TRUE
  /\ rows' = Live
  /\ Rebind(s)
  /\ UNCHANGED <<consume, display, running, target, frame, phase>>

RemoveSelected ==
  /\ Idle /\ bound # None
  /\ Remove(bound)
  /\ queued' = TRUE
  /\ Refresh
  /\ UNCHANGED <<consume, display, running, target, frame, phase>>

-----------------------------------------------------------------------------
(* The display's surface.                                                  *)

CreateDisplay ==
  /\ phase = "loop" /\ display = "none"
  /\ display' = "up"
  /\ UNCHANGED <<vars, refs, rows, bound, queued, weak, consume, owed, running, target, frame, phase>>

\* Removing the draw callback waits for one that runs.
DestroyDisplay == frame.at # "drawing" /\ display' = "dead"

SurfaceDies ==
  /\ phase = "loop"
  /\ DestroyDisplay
  /\ UNCHANGED <<vars, refs, rows, bound, queued, weak, consume, owed, running, target, frame, phase>>

-----------------------------------------------------------------------------
(* The graphics thread: the render callbacks, then the displays.           *)

Upgraded(w) == IF w # None /\ refs[w] > 0 THEN w ELSE None
Taken(s) == IF s = None THEN refs ELSE [refs EXCEPT ![s] = @ + 1]
Released(s) == IF s = None THEN refs ELSE [refs EXCEPT ![s] = @ - 1]

ConsumeTick ==
  /\ frame.at = "idle" /\ running
  /\ frame' = [at |-> "consuming", source |-> Upgraded(consume)]
  /\ refs' = Taken(Upgraded(consume))
  /\ UNCHANGED <<vars, rows, bound, queued, weak, consume, owed, display, running, target, phase>>

\* Mutant: a source without a picture is left without releasing it.
ConsumedLeaks ==
  /\ frame.at = "consuming"
  /\ frame' = [at |-> "consumed", source |-> None]
  /\ \/ UNCHANGED <<refs, target>>
     \/ /\ frame.source # None /\ ~rec[frame.source].slot
        /\ target' = TRUE /\ refs' = Released(frame.source)
  /\ UNCHANGED <<vars, rows, bound, queued, weak, consume, owed, display, running, phase>>

\* Nothing to draw, no picture, a slot that renders it: or else it is rendered
\* into the target made for it.
Consumed ==
  /\ frame.at = "consuming"
  /\ frame' = [at |-> "consumed", source |-> None]
  /\ refs' = Released(frame.source)
  /\ \/ UNCHANGED target
     \/ frame.source # None /\ ~rec[frame.source].slot /\ target' = TRUE
  /\ UNCHANGED <<vars, rows, bound, queued, weak, consume, owed, display, running, phase>>

DrawPreview ==
  /\ frame.at = "consumed" \/ (frame.at = "idle" /\ ~running)
  /\ display = "up"
  /\ frame' = [at |-> "drawing", source |-> Upgraded(weak)]
  /\ refs' = Taken(Upgraded(weak))
  /\ UNCHANGED <<vars, rows, bound, queued, weak, consume, owed, display, running, target, phase>>

TickEnds ==
  /\ frame.at = "drawing" \/ (frame.at = "consumed" /\ display # "up")
  /\ frame' = [at |-> "idle", source |-> None]
  /\ refs' = Released(frame.source)
  /\ UNCHANGED <<vars, rows, bound, queued, weak, consume, owed, display, running, target, phase>>

-----------------------------------------------------------------------------
(* run_gui after the loop, in its order.                                   *)

At(from, to) == phase = from /\ ~owed /\ phase' = to

LeaveLoop ==
  /\ At("loop", "left")
  /\ weak' = None /\ owed' = TRUE
  /\ UNCHANGED <<vars, refs, rows, bound, queued, consume, display, running, target, frame>>

CloseWindow ==
  /\ At("left", "closed")
  /\ DestroyDisplay
  /\ weak' = None /\ owed' = TRUE
  /\ UNCHANGED <<vars, refs, rows, bound, queued, consume, running, target, frame>>

\* PreviewConsumeEngine::stop: the callback first, which waits for one that runs.
StopConsume ==
  /\ At("closed", "stopped")
  /\ frame.at # "consuming" /\ running' = FALSE
  /\ UNCHANGED <<vars, refs, rows, bound, queued, weak, consume, owed, display, target, frame>>

\* Mutant: an engine that follows nothing keeps its texture.
TearDownBound ==
  /\ At("stopped", "torn")
  /\ frame.at = "idle" /\ target' = (target /\ consume = None) /\ consume' = None
  /\ UNCHANGED <<vars, refs, rows, bound, queued, weak, owed, display, running, frame>>

\* Then the texture, on the graphics thread, and the weak reference.
TearDown ==
  /\ At("stopped", "torn")
  /\ frame.at = "idle" /\ target' = FALSE /\ consume' = None
  /\ UNCHANGED <<vars, refs, rows, bound, queued, weak, owed, display, running, frame>>

ReleaseAllSources ==
  /\ At("torn", "down")
  /\ rec' = [s \in Sources |-> NoRec]
  /\ showRefs' = [s \in Sources |-> 0]
  /\ excused' = [s \in Sources |-> FALSE]
  /\ refs' = [s \in Sources |-> refs[s] - (IF rec[s].live THEN 1 ELSE 0)]
  /\ UNCHANGED <<rows, bound, queued, weak, consume, owed, display, running, target, frame>>

FeedNext ==
  \/ \E s \in Sources : ClientVerb(s) \/ AddSource(s)
  \/ \E s \in Sources \cup {None} : SelectRow(s)
  \/ RemoveSelected \/ QueuedRefresh \/ HookFires
  \/ CreateDisplay \/ SurfaceDies
  \/ ConsumeTick \/ Consumed \/ DrawPreview \/ TickEnds
  \/ LeaveLoop \/ CloseWindow \/ StopConsume \/ TearDown \/ ReleaseAllSources

FeedSpec == FeedInit /\ [][FeedNext]_allVars
-----------------------------------------------------------------------------
\* Once the window has caught up, the widget and the consume engine both follow the
\* selection, and it is a source that exists, whoever added, selected or removed
\* what in which order (onSelectionChanged, MoxDisplayWidget::setSource).
PreviewFollows ==
  Idle /\ ~queued =>
    /\ weak = bound /\ consume = bound
    /\ bound # None => rec[bound].live

\* A source that was removed outlives its record only within the frame that holds
\* it: neither weak reference nor any early return of a callback keeps it, or its
\* device, open (PreviewConsumeEngine::renderTickImpl, DrawPreview).
GoneAfterFrame ==
  \A s \in Sources : refs[s] > (IF rec[s].live THEN 1 ELSE 0) => frame.source = s

\* libobs is shut down when no callback, texture, reference or source of the preview
\* is left, wherever the graphics thread was at every step of the teardown
\* ("stop() MUST run while libobs is still up", PreviewConsumeEngine.hpp).
NothingLeft ==
  phase = "down" =>
    /\ ~running /\ ~target /\ display # "up"
    /\ weak = None /\ consume = None
    /\ \A s \in Sources : refs[s] = 0
-----------------------------------------------------------------------------
(* The inductive invariant of the feed.                                    *)

Phases == {"loop", "left", "closed", "stopped", "torn", "down"}
Ticks == {"idle", "consuming", "consumed", "drawing"}
MaybeSource == Sources \cup {None}

FeedType ==
  /\ refs \in [Sources -> Nat]
  /\ rows \subseteq Sources
  /\ bound \in MaybeSource /\ weak \in MaybeSource /\ consume \in MaybeSource
  /\ queued \in BOOLEAN /\ owed \in BOOLEAN
  /\ running \in BOOLEAN /\ target \in BOOLEAN
  /\ frame \in [at : Ticks, source : MaybeSource]
  /\ phase \in Phases

Bit(b) == IF b THEN 1 ELSE 0

\* libobs counts the record's reference and the frame's, and no other; only a
\* callback that runs holds one.
Counted ==
  /\ \A s \in Sources : refs[s] = Bit(rec[s].live) + Bit(frame.source = s)
  /\ frame.at \in {"idle", "consumed"} => frame.source = None

\* What the window still shows of a source that is gone waits for the refresh
\* that is queued, and what it follows of a selection waits for the hook.
Following ==
  phase = "loop" =>
    /\ \A s \in rows : rec[s].live \/ queued
    /\ bound # None => rec[bound].live \/ queued
    /\ weak # None => weak = bound
    /\ weak = None /\ bound # None => ~rec[bound].live
    /\ owed \/ consume = weak

\* What each step of the teardown leaves for good.
TakenDown ==
  /\ phase # "loop" => weak = None
  /\ phase \notin {"loop", "left"} => display = "dead"
  /\ phase \in {"stopped", "torn", "down"} =>
       ~running /\ ~owed /\ frame.at # "consuming"
  /\ phase \in {"torn", "down"} => ~target /\ consume = None /\ frame.at = "idle"
  /\ phase = "down" => \A s \in Sources : ~rec[s].live

FeedInv == FeedType /\ Counted /\ Following /\ TakenDown
=============================================================================
