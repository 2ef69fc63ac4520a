----------------------------- MODULE ProfileDesk -----------------------------
(***************************************************************************)
(* Standalone profiles: saved scenes on disk, the live scene, the window   *)
(* that edits it and the video engine under it.  A load replaces the live  *)
(* set and may change the frame rate, which resets libobs's video: the     *)
(* graphics thread is ended and started again, or, when the reset fails,   *)
(* perhaps not.  Until then it draws the sender engine's slots and keeps   *)
(* the previewed source fresh, and a verb that takes a slot down waits for *)
(* it.  The process may stop between any two steps and comes back with the *)
(* last profile.                                                           *)
(*                                                                         *)
(* A handler of the main thread is cut where the disk or the engine is in  *)
(* between: `stage' is where it is, `job' what it was asked.  Verbs of the *)
(* window and of the wire share the handlers and never overlap.            *)
(*                                                                         *)
(* Abstracted: a scene is Empty or Full (what matters is that an empty one *)
(* cannot be built), with its frame rate; all of it has video and is on    *)
(* air or none; filters, audio, the preview's display, the window's place  *)
(* and the asterisk are left out.  `origin', `strayed', `torn' and         *)
(* `recast' observe: the profile the live scene descends from, whether the *)
(* window was left behind by a failed load or a client's, whether a        *)
(* deletion or the note of the last profile was cut short, and whether a   *)
(* broadcast was started when there was no graphics thread.                *)
(***************************************************************************)
EXTENDS Naturals

CONSTANTS Names,   \* profile names
          Files,   \* files of the profiles directory
          FileOf,  \* the file of a name: names that differ in case share it
          Tiers,   \* frame rates
          Default, \* engine/fpsTier, the rate without a profile
          None

ASSUME FilesAssumption == FileOf \in [Names -> Files]
ASSUME NamesAssumption == None \notin Names
ASSUME TiersAssumption == Tiers \subseteq Nat \ {0} /\ Default \in Tiers

VARIABLES
  store,                   \* the profiles directory: what each file holds
  last,                    \* state.json: the last profile
  up,                      \* the process runs
  live,                    \* the live scene: content and rate
  gfx,                     \* libobs's graphics thread runs
  armed, casting, gpu,     \* the sender engine: its callback, attached slots, their GPU objects
  texture,                 \* the texrender of the preview's consume engine
  stage, job,              \* the handler in progress
  active,                  \* MainWindow::activeProfile_
  origin, strayed, torn, recast    \* observers

disk == <<store, last>>
engine == <<gfx, armed, casting, gpu, texture>>
watched == <<origin, strayed, torn, recast>>
vars == <<disk, up, live, engine, stage, job, active, watched>>

Missing == [kind |-> "missing", name |-> None, content |-> "none", tier |-> 0]
Corrupt(n) == [kind |-> "corrupt", name |-> n, content |-> "none", tier |-> 0]
Doc(n, c, t) == [kind |-> "doc", name |-> n, content |-> c, tier |-> t]
Contents == {"empty", "full"}

NoJob == [what |-> "none", who |-> "none", name |-> None, old |-> None,
          doc |-> Missing, was |-> FALSE]

Job(what, who, name) == [NoJob EXCEPT !.what = what, !.who = who, !.name = name]

InFile(n) == store[FileOf[n]]
Listed(n) == InFile(n).kind # "missing" /\ InFile(n).name = n

Ready == up /\ stage = "idle"
Done == stage' = "idle" /\ job' = NoJob

Init == /\ store = [f \in Files |-> Missing]
        /\ last = None
        /\ up = FALSE
        /\ live = [content |-> "empty", tier |-> Default]
        /\ gfx = FALSE /\ armed = FALSE /\ casting = FALSE /\ gpu = FALSE /\ texture = FALSE
        /\ stage = "idle" /\ job = NoJob
        /\ active = None
        /\ origin = None /\ strayed = FALSE /\ torn = FALSE /\ recast = FALSE
-----------------------------------------------------------------------------
(* The process, its graphics thread, and who waits for it.                 *)

\* The rate to boot at: the last profile's if it can be read and names one.
BootTier == IF last # None /\ InFile(last).tier > 0 THEN InFile(last).tier
                                                    ELSE Default

Boot ==
  /\ ~up
  /\ up' = TRUE
  /\ live' = [content |-> "empty", tier |-> BootTier]
  /\ gfx' = TRUE /\ armed' = TRUE
  /\ IF last # None /\ Listed(last) /\ InFile(last).kind = "doc"
     THEN /\ stage' = "stopping"
          /\ job' = [Job("load", "boot", last) EXCEPT !.doc = InFile(last)]
     ELSE /\ stage' = "idle"
          /\ job' = NoJob
  /\ UNCHANGED <<disk, casting, gpu, texture, active, watched>>

\* What is left of a process is the disk.
Gone ==
  /\ up' = FALSE
  /\ live' = [content |-> "empty", tier |-> Default]
  /\ gfx' = FALSE /\ armed' = FALSE /\ casting' = FALSE /\ gpu' = FALSE /\ texture' = FALSE
  /\ Done
  /\ active' = None
  /\ origin' = None /\ strayed' = FALSE /\ recast' = FALSE
  /\ UNCHANGED disk

\* The process is ended, at any step.
Crash ==
  /\ up
  /\ Gone
  /\ torn' = (torn \/ stage = "forgetting")

\* The render callback initialises the slots it finds.
Render ==
  /\ gfx /\ armed /\ casting /\ ~gpu
  /\ gpu' = TRUE
  /\ UNCHANGED <<disk, up, live, gfx, armed, casting, texture, stage, job, active, watched>>

\* PreviewConsumeEngine's callback stays from start-up to the exit.
Consuming == up

\* renderTickImpl: the first frame of a previewed source that is not on air.
Preview ==
  /\ gfx /\ Consuming /\ ~texture
  /\ live.content = "full" /\ ~casting
  /\ texture' = TRUE
  /\ UNCHANGED <<disk, up, live, gfx, armed, casting, gpu, stage, job, active, watched>>

\* A wait=true task is posted for every slot that is detached or drained, and on
\* the way out for the texrender.
Posts == \/ stage \in {"idle", "draining"} /\ casting
         \/ stage = "quitting" /\ (casting \/ texture)
Served == Posts => gfx

\* Nobody runs the task: the main thread waits for ever, in any verb that detaches.
Starve ==
  /\ up /\ ~Served
  /\ stage' = "waiting"
  /\ UNCHANGED <<disk, up, live, engine, job, active, watched>>

\* The event loop is left, the engines are stopped, the process ends.
Quit ==
  /\ Ready
  /\ stage' = "quitting"
  /\ job' = Job("quit", "gui", None)
  /\ UNCHANGED <<disk, up, live, engine, active, watched>>

Exit ==
  /\ stage = "quitting" /\ Served
  /\ Gone
  /\ UNCHANGED torn
-----------------------------------------------------------------------------
(* Edits and broadcasting.                                                 *)

Edit ==
  /\ Ready /\ Served
  /\ live' = [live EXCEPT !.content = IF @ = "full" THEN "empty" ELSE "full"]
  /\ casting' = FALSE /\ gpu' = FALSE   \* the last source leaves with its slot
  /\ UNCHANGED <<disk, up, gfx, armed, texture, stage, job, active, watched>>

StartBroadcast ==
  /\ Ready
  /\ live.content = "full" /\ ~casting
  /\ armed' = TRUE /\ casting' = TRUE
  /\ recast' = (recast \/ ~gfx)
  /\ UNCHANGED <<disk, up, live, gfx, gpu, texture, stage, job, active, origin, strayed, torn>>

\* Detaching a slot waits for the graphics thread to take its objects down.
StopBroadcast ==
  /\ Ready /\ Served
  /\ casting
  /\ casting' = FALSE /\ gpu' = FALSE
  /\ UNCHANGED <<disk, up, live, gfx, armed, texture, stage, job, active, watched>>
-----------------------------------------------------------------------------
(* guiSetFpsTier: StopBroadcast, the engine's stop, the reset, and back.    *)

SetFpsTier(t) ==
  /\ Ready /\ Served
  /\ t # live.tier
  /\ stage' = "stopping"
  /\ job' = [Job("tier", "gui", None) EXCEPT !.was = casting,
                                             !.doc = Doc(None, "none", t)]
  /\ casting' = FALSE /\ gpu' = FALSE
  /\ UNCHANGED <<disk, up, live, gfx, armed, texture, active, watched>>

Rearm ==
  /\ stage = "rearming"
  /\ armed' = TRUE
  /\ casting' = (job.was /\ live.content = "full")
  /\ Done
  /\ UNCHANGED <<disk, up, live, gfx, gpu, texture, active, watched>>
-----------------------------------------------------------------------------
(* SpoutSenderEngine::stop and the reset, shared by load and guiSetFpsTier. *)

\* The sender engine's callback goes first ...
EngineStop ==
  /\ stage = "stopping"
  /\ armed' = FALSE
  /\ stage' = "draining"
  /\ UNCHANGED <<disk, up, live, gfx, casting, gpu, texture, job, active, watched>>

\* A load releases the sources after the engine has drained.
Released == live' = IF job.what = "load" THEN [live EXCEPT !.content = "empty"] ELSE live

\* Mutant: stop() returns once the callback is removed.
EngineDrainSkipped ==
  /\ stage = "draining"
  /\ Released
  /\ stage' = "resetting"
  /\ UNCHANGED <<disk, up, engine, job, active, watched>>

\* ... then its slots, each waiting for the graphics thread.  The preview is left alone.
EngineDrain ==
  /\ stage = "draining" /\ Served
  /\ casting' = FALSE /\ gpu' = FALSE
  /\ Released
  /\ stage' = "resetting"
  /\ UNCHANGED <<disk, up, gfx, armed, texture, job, active, watched>>

NeedsReset == job.doc.tier > 0 /\ job.doc.tier # live.tier

\* obs_reset_video, or the step past it when the rate stays: the graphics thread is
\* joined and started again.
Reset ==
  /\ stage = "resetting"
  /\ stage' = IF job.what = "load" THEN "building" ELSE "rearming"
  /\ live' = IF NeedsReset THEN [live EXCEPT !.tier = job.doc.tier] ELSE live
  /\ gfx' = (gfx \/ NeedsReset)
  /\ UNCHANGED <<disk, up, armed, casting, gpu, texture, job, active, watched>>

\* A failed reset leaves libobs with its graphics thread or without.  The callback is
\* installed again; slots and, in a load, sources stay gone.
ResetFails ==
  /\ stage = "resetting"
  /\ NeedsReset
  /\ gfx' \in {gfx, FALSE}
  /\ armed' = TRUE
  /\ Done
  /\ strayed' = (strayed \/ job.what = "load")
  /\ UNCHANGED <<disk, up, live, casting, gpu, texture, active, origin, torn, recast>>
-----------------------------------------------------------------------------
(* LoadProfile.                                                            *)

\* onProfileSelected leaves the active profile alone; a client may ask for any.
LoadProfile(n, who) ==
  /\ Ready
  /\ who = "gui" => n # active
  /\ InFile(n).kind = "doc"
  /\ stage' = "stopping"
  /\ job' = [Job("load", who, n) EXCEPT !.doc = InFile(n)]
  /\ UNCHANGED <<disk, up, live, engine, active, watched>>

\* Mutant: the window names the profile before it looks at the reply.
LoadRefusedNamed(n, who) ==
  /\ Ready
  /\ who = "gui" => n # active
  /\ InFile(n).kind # "doc"
  /\ active' = IF who = "gui" THEN n ELSE active
  /\ UNCHANGED <<disk, up, live, engine, stage, job, watched>>

\* A profile that is not there or does not parse changes nothing.
LoadRefused(n, who) ==
  /\ Ready
  /\ who = "gui" => n # active
  /\ InFile(n).kind # "doc"
  /\ UNCHANGED vars

\* create_from_config_data: no entries is an error, and any entry may fail the whole list.
Buildable(content) == IF content = "full" THEN BOOLEAN ELSE {FALSE}

Adopted == live' = [live EXCEPT !.content = "full"]

Build ==
  /\ stage = "building"
  /\ armed' = TRUE
  /\ \E built \in Buildable(job.doc.content) :
       \/ /\ built
          /\ Adopted
          /\ origin' = job.name
          /\ strayed' = (job.who = "wire" /\ job.name # active)
          /\ stage' = "remembering"
          /\ UNCHANGED job
       \/ /\ ~built
          /\ strayed' = TRUE
          /\ Done
          /\ UNCHANGED <<live, origin>>
  /\ UNCHANGED <<disk, up, gfx, casting, gpu, texture, active, torn, recast>>
-----------------------------------------------------------------------------
(* SaveProfile, and what the window makes of it: Save, Save As, Duplicate  *)
(* and Rename (which goes on to delete the old name).                      *)

Snapshot(n) == Doc(n, live.content, live.tier)

\* Whose scene the window writes: its own active profile's, unless asked for a new name.
Owned(n, who) ==
  /\ origin' = IF who = "gui" THEN n ELSE origin
  /\ strayed' = IF who = "gui" THEN FALSE ELSE strayed

SaveProfile(n, who, old) ==
  /\ Ready
  /\ old # None => who = "gui" /\ old = active /\ n # active
  /\ store' = [store EXCEPT ![FileOf[n]] = Snapshot(n)]
  /\ stage' = "remembering"
  /\ job' = [Job("save", who, n) EXCEPT !.old = old]
  /\ Owned(n, who)
  /\ UNCHANGED <<last, up, live, engine, active, torn, recast>>

\* setLastProfile, whose failure nobody looks at; then the window's own bookkeeping.
Remember ==
  /\ stage = "remembering"
  /\ last' \in {job.name, last}
  /\ torn' = (torn \/ last' # job.name)
  /\ active' = IF job.who \in {"gui", "boot"} /\ job.old = None THEN job.name ELSE active
  /\ IF job.old = None THEN Done
                       ELSE stage' = "removing" /\ UNCHANGED job
  /\ UNCHANGED <<store, up, live, engine, origin, strayed, recast>>
-----------------------------------------------------------------------------
(* DeleteProfile, asked for or as the second half of a rename.             *)

DeleteProfile(n, who) ==
  /\ Ready
  /\ who = "gui" => n = active
  /\ InFile(n).kind # "missing"
  /\ stage' = "removing"
  /\ job' = [Job("delete", who, n) EXCEPT !.old = n]
  /\ UNCHANGED <<disk, up, live, engine, active, watched>>

\* What the window calls active once the deletion is over, however it went for a rename.
AfterDelete ==
  active' = IF job.what = "save" THEN job.name
            ELSE IF job.who = "gui" THEN None ELSE active

RemoveFile ==
  /\ stage = "removing"
  /\ \/ /\ InFile(job.old).kind # "missing"
        /\ store' = [store EXCEPT ![FileOf[job.old]] = Missing]
        /\ stage' = "forgetting"
        /\ UNCHANGED <<job, active>>
     \/ /\ Done                       \* the deletion fails; only a rename does not mind
        /\ active' = IF job.what = "save" THEN job.name ELSE active
        /\ UNCHANGED store
  /\ UNCHANGED <<last, up, live, engine, watched>>

\* Mutant: the note of the last profile is left alone.
ForgetNothing ==
  /\ stage = "forgetting"
  /\ AfterDelete
  /\ Done
  /\ UNCHANGED <<disk, up, live, engine, watched>>

Forget ==
  /\ stage = "forgetting"
  /\ last' \in (IF last = job.old THEN {None, last} ELSE {last})
  /\ torn' = (torn \/ last' = job.old)
  /\ AfterDelete
  /\ Done
  /\ UNCHANGED <<store, up, live, engine, origin, strayed, recast>>

\* Import stores any text under a name; nothing else changes.
Texts(n) == {Corrupt(n)} \cup {Doc(n, c, t) : c \in Contents, t \in Tiers \cup {0}}

Import(n) ==
  /\ Ready
  /\ \E d \in Texts(n) : store' = [store EXCEPT ![FileOf[n]] = d]
  /\ UNCHANGED <<last, up, live, engine, stage, job, active, watched>>

Next ==
  \/ Boot \/ Crash \/ Quit \/ Exit
  \/ Render \/ Preview \/ Starve
  \/ Edit \/ StartBroadcast \/ StopBroadcast
  \/ \E t \in Tiers : SetFpsTier(t)
  \/ Rearm \/ EngineStop \/ EngineDrain \/ Reset \/ ResetFails
  \/ \E n \in Names :
       \/ Import(n)
       \/ \E old \in {None, active} : SaveProfile(n, "gui", old)
       \/ SaveProfile(n, "wire", None)
       \/ \E who \in {"gui", "wire"} :
            LoadProfile(n, who) \/ LoadRefused(n, who) \/ DeleteProfile(n, who)
  \/ Build \/ Remember \/ RemoveFile \/ Forget

Spec == Init /\ [][Next]_vars
-----------------------------------------------------------------------------
Docs == {Missing} \cup {Corrupt(n) : n \in Names}
        \cup {Doc(n, c, t) : n \in Names, c \in Contents, t \in Tiers \cup {0}}

(***************************************************************************)
(* obs_reset_video ends the graphics thread, and when it fails there may   *)
(* be none afterwards: a task posted then is never run, and the main       *)
(* thread, with window and wire, waits for it for ever (ObsBootstrap,      *)
(* retier; ControlVerbs, loadProfileSources).  No load and no change of    *)
(* rate leaves a slot of the sender engine for such a wait, nor a GPU      *)
(* object of one, whatever reset failed and whatever is done next, until a *)
(* broadcast is started that the missing thread never draws.  The preview  *)
(* is no part of this: its texrender is left, and the exit waits for it.   *)
(***************************************************************************)
NoWaitStarves ==
  /\ stage = "waiting" => recast \/ (job.what = "quit" /\ texture)
  /\ gpu => gfx

(***************************************************************************)
(* The window saves a profile only over its own scene: what a Save writes  *)
(* under the active name descends from that profile, through any loads,    *)
(* renames, deletions and refused loads before; except after a load that   *)
(* failed half way or one a client made, which leave the window behind.    *)
(***************************************************************************)
SavesOwnScene ==
  (Ready /\ active # None /\ ~strayed) => origin = active

(***************************************************************************)
(* The note of the last profile names a file that exists, in every state a *)
(* restart can find, except inside a deletion and after one (or the note   *)
(* itself) was cut short by a crash or a write that failed.                *)
(***************************************************************************)
DanglingOnlyAfterTear ==
  last # None /\ InFile(last).kind = "missing" => torn \/ stage = "forgetting"

(***************************************************************************)
(* "After stop() returns, ZERO GPU objects + ZERO render callbacks remain" *)
(* (ControlVerbs.cpp:2778).  Of the sender engine's that is so; the        *)
(* preview's callback is installed and its texrender there.                *)
(***************************************************************************)
NothingLeftAtReset == stage = "resetting" => ~armed /\ ~gpu /\ ~Consuming /\ ~texture

(***************************************************************************)
(* "Re-arm the engine so a non-broadcasting GUI still runs"                *)
(* (ControlVerbs.cpp:2795), after a reset that failed.  Without a graphics *)
(* thread the exit of such a GUI waits for the preview's texrender.        *)
(***************************************************************************)
QuietGuiEnds == ~recast => stage # "waiting"

(***************************************************************************)
(* "Rename = save the live state under the new name, then delete the old"  *)
(* (MainWindow.cpp:663): when the rename is over, the scene is on disk     *)
(* under the new name.  It is not when the two spellings share a file.     *)
(***************************************************************************)
RenameKeepsScene ==
  stage = "forgetting" /\ job.what = "save" => InFile(job.name).kind = "doc"
-----------------------------------------------------------------------------
(* The inductive invariant.                                                *)

Stages == {"idle", "stopping", "draining", "resetting", "rearming", "building",
           "remembering", "removing", "forgetting", "quitting", "waiting"}
MaybeName == Names \cup {None}
JobType == [what : {"none", "load", "tier", "save", "delete", "quit"},
            who : {"none", "boot", "gui", "wire"},
            name : MaybeName, old : MaybeName,
            doc : Docs \cup {Doc(None, "none", t) : t \in Tiers}, was : BOOLEAN]

\* The directory, the scene, the engine and the handler in progress keep their types.
TypeOK ==
  /\ store \in [Files -> Docs] /\ last \in MaybeName
  /\ live \in [content : Contents, tier : Tiers]
  /\ up \in BOOLEAN /\ gfx \in BOOLEAN /\ texture \in BOOLEAN
  /\ armed \in BOOLEAN /\ casting \in BOOLEAN /\ gpu \in BOOLEAN
  /\ strayed \in BOOLEAN /\ torn \in BOOLEAN /\ recast \in BOOLEAN
  /\ stage \in Stages /\ job \in JobType
  /\ active \in MaybeName /\ origin \in MaybeName

\* What each stage of a handler was asked, and that a dead process is in none.
StageInv ==
  /\ ~up => stage = "idle" /\ active = None
  /\ stage = "idle" => job.what = "none"
  /\ stage \in {"stopping", "draining", "resetting"} => job.what \in {"load", "tier"}
  /\ stage = "building" => job.what = "load"
  /\ stage = "rearming" => job.what = "tier"
  /\ stage = "quitting" => job.what = "quit"
  /\ stage = "remembering" => job.what \in {"load", "save"}
  /\ stage \in {"removing", "forgetting"} => job.what \in {"save", "delete"} /\ job.old \in Names
  /\ job.what \in {"load", "save", "delete"} => job.name \in Names
  /\ job.what = "load" => job.old = None /\ job.who \in {"boot", "gui", "wire"}
  /\ job.what = "save" => job.who \in {"gui", "wire"} /\ (job.old # None => job.who = "gui")

\* No slot is left when the graphics thread ends, and a change of rate that brings the
\* broadcast back has started it again.
SlotsInv ==
  /\ stage = "resetting" => ~casting /\ ~gpu
  /\ job.what = "tier" /\ stage \in {"stopping", "draining", "resetting"} => NeedsReset
  /\ stage = "rearming" => gfx
  /\ casting => gfx \/ recast
  /\ NoWaitStarves

\* The window is on its own scene, or the handler in progress will put it there.
Own(n) == n # None /\ ~strayed => origin = n
OwnInv ==
  /\ stage = "remembering" /\ job.what = "load" =>
       IF job.who = "wire" THEN Own(active) ELSE origin = job.name
  /\ job.what = "save" =>
       IF job.who = "gui" THEN origin = job.name ELSE Own(active)
  /\ ~(stage = "remembering" /\ job.what = "load") /\ job.what # "save" => Own(active)

\* A load keeps the file it reads, and a save has written the one it will note.
NotedInv ==
  /\ job.what = "load" => InFile(job.name).kind = "doc"
  /\ stage = "remembering" => InFile(job.name).kind = "doc"

\* The file of the last profile is only gone with the profile.
LastInv == last # None /\ InFile(last).kind = "missing"
             => torn \/ (stage = "forgetting" /\ last = job.old)

\* No two names are spellings of one file: LastInv needs it, deleting either would do.
NamesApart == \A m, n \in Names : FileOf[m] = FileOf[n] => m = n

DeskInv == TypeOK /\ StageInv /\ SlotsInv /\ OwnInv /\ NotedInv
=============================================================================
