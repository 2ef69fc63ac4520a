---------------------------- MODULE PropertyPanel ----------------------------
(***************************************************************************)
(* The descriptor-driven property form and the source it edits: the        *)
(* window's selection, the panel with its three ways of committing an edit *)
(* (the batch window, the live drag, the typed field), the verbs it goes   *)
(* through, their echo, and clients that change or remove the same source. *)
(*                                                                         *)
(* One thread, but not one step: a rebuild, a refresh of the source list   *)
(* and the commit of a list's default are posted to the event loop         *)
(* (`posted', first in first out), and a timer or the user may come first. *)
(*                                                                         *)
(* Abstracted: a dependent list (a camera's resolutions) holds one item,   *)
(* the value of the key it depends on.  The engine stores what it is       *)
(* given.  `parted' observes that lastProperties_/lastSettings_ are not    *)
(* what the form shows, `dropped' that a rebuild was thrown away then.     *)
(***************************************************************************)
EXTENDS Naturals, SequencesExt

CONSTANTS Targets,     \* sources
          NoSource,
          KeysOf,      \* the settings keys of a source
          Parent,      \* dependent list |-> the key that decides its items
          CascadeKeys, \* isCascadeKey's table
          Lists, Sliders, TextKeys, \* keys by their editor
          MaxOps       \* acts of the user and of clients

Vals == 0..1

Keys == Lists \cup Sliders \cup TextKeys

\* isCascadeKey's table is audited (ControlVerbs.cpp:1043): it has every key
\* that decides a list, and none that is typed; an unaudited type has no
\* cache, each apply enumerates it afresh.  A key has one editor.
ASSUME KeysAssumption ==
  /\ NoSource \notin Targets
  /\ Lists \cap (Sliders \cup TextKeys) = {} /\ Sliders \cap TextKeys = {}
  /\ \A t \in Targets : KeysOf[t] \subseteq Keys /\ IsFiniteSet(KeysOf[t])
  /\ \A k \in DOMAIN Parent : k \in Lists /\ Parent[k] \in CascadeKeys \ TextKeys
  /\ \A t \in Targets : \A k \in DOMAIN Parent \cap KeysOf[t] : Parent[k] \in KeysOf[t]

VARIABLES life,   \* new, live or gone: is there such a source
          stored, \* its settings in the engine
          cache,  \* cachedDescriptors
          panel,  \* the PropertyPanel and the posted events
          ops

panelVars == <<life, stored, cache, panel, ops>>

\* A batch of one edit; settings with a batch laid over them.
OneEdit(k, v) == [x \in {k} |-> v]
Over(batch, settings) ==
  [k \in DOMAIN batch \cup DOMAIN settings |->
     IF k \in DOMAIN batch THEN batch[k] ELSE settings[k]]

\* What the engine enumerates: each dependent list's item.
Props(st) == [k \in DOMAIN st \cap DOMAIN Parent |-> st[Parent[k]]]

\* What a form built from these settings shows, and which lists show an item
\* that is not what is set.
Display(st) == Over(Props(st), st)
Unmatched(st) == {k \in DOMAIN Props(st) : Props(st)[k] # st[k]}

Nothing == [k \in {} |-> 0]
Blank == [of |-> NoSource, shown |-> Nothing]
Event(do, k, v) == [do |-> do, key |-> k, val |-> v]
Reload == Event("reload", "", 0)
Refresh == Event("refresh", "", 0)
In(e, p) == e \in Range(p.posted)

PanelInit ==
  /\ life \in [Targets -> {"new", "live"}]
  /\ stored = [t \in Targets |-> [k \in KeysOf[t] |-> 0]]
  /\ cache = [t \in Targets |-> Props(stored[t])]
  /\ panel = [bound |-> NoSource, form |-> Blank,
              lastProperties |-> Nothing, lastSettings |-> Nothing,
              pending |-> Nothing, debounce |-> FALSE, trailing |-> FALSE,
              drag |-> FALSE, typing |-> NoSource,
              queued |-> FALSE, suppress |-> FALSE, deferred |-> FALSE,
              posted |-> << >>, parted |-> FALSE, dropped |-> FALSE]
  /\ ops = 0
-----------------------------------------------------------------------------
(* The verbs.                                                              *)

IsCascadeKey(k) == k \in CascadeKeys

Accepts(t, batch) == life[t] = "live" /\ DOMAIN batch \subseteq KeysOf[t]

\* SetSourceProperties replays the cached descriptors unless a cascade key is
\* in the batch.
Echo(t, batch) == IF \E k \in DOMAIN batch : IsCascadeKey(k)
                  THEN Props(Over(batch, stored[t])) ELSE cache[t]

Written(t, batch) ==
  IF Accepts(t, batch)
  THEN /\ stored' = [stored EXCEPT ![t] = Over(batch, @)]
       /\ cache' = [cache EXCEPT ![t] = Echo(t, batch)]
  ELSE UNCHANGED <<stored, cache>>
-----------------------------------------------------------------------------
(* The panel's own steps.                                                  *)

ScheduleReload(p) ==
  [p EXCEPT !.suppress = FALSE, !.queued = TRUE,
            !.posted = IF p.queued THEN @ ELSE Append(@, Reload)]

\* Mutant: a refused value is kept and the parked refresh forgotten.
UnparkNever(p) == p

\* A refresh that was parked behind an edit or a gesture runs after all.
Unpark(p) == IF p.deferred THEN ScheduleReload([p EXCEPT !.deferred = FALSE])
                           ELSE p

\* The end of applyNow.  Accepted: rebuild only if something else than the
\* submitted keys changed, else a rebuild already posted is the edit's own echo.
Reconciled(p, batch) ==
  LET props == Echo(p.bound, batch)
      settings == Over(batch, stored[p.bound])
      others == DOMAIN settings \ DOMAIN batch
      cascade == \/ p.deferred
                 \/ props # p.lastProperties
                 \/ \E k \in others : \/ k \notin DOMAIN p.lastSettings
                                      \/ settings[k] # p.lastSettings[k]
      q == [p EXCEPT !.deferred = FALSE, !.lastProperties = props,
                     !.lastSettings = settings]
  IN IF cascade THEN [ScheduleReload(q) EXCEPT !.parted = TRUE]
                ELSE [q EXCEPT !.suppress = @ \/ q.queued]

AfterApply(p, batch, live) ==
  IF p.bound = NoSource \/ batch = Nothing THEN p
  ELSE IF ~Accepts(p.bound, batch) THEN Unpark(p)
  ELSE IF live THEN [ScheduleReload(p) EXCEPT !.parted = TRUE] \* suppressReload_
  ELSE Reconciled(ScheduleReload(p), batch)  \* its own event comes first

ApplyNow(p, batch, live) ==
  /\ panel' = AfterApply(p, batch, live)
  /\ IF p.bound = NoSource THEN UNCHANGED <<stored, cache>>
                       ELSE Written(p.bound, batch)

FlushPending(p) ==
  IF p.pending = Nothing
  THEN panel' = Unpark(p) /\ UNCHANGED <<stored, cache>>
  ELSE ApplyNow([p EXCEPT !.pending = Nothing], p.pending, FALSE)

FlushLive(p) == ApplyNow([p EXCEPT !.pending = Nothing, !.trailing = FALSE],
                         p.pending, TRUE)

Shows(p, k, v) == [p EXCEPT !.form.shown[k] = v]
QueueChange(p, k, v) == [Shows(p, k, v) EXCEPT !.pending = Over(OneEdit(k, v), @),
                                               !.debounce = TRUE]

\* setTarget and clearTarget end with the gesture state of the old target gone.
Unbound(p) == [p EXCEPT !.pending = Nothing, !.debounce = FALSE,
                        !.trailing = FALSE, !.drag = FALSE, !.deferred = FALSE]
Rebound(p, t) ==
  IF t = NoSource
  THEN [Unbound(p) EXCEPT !.bound = NoSource, !.form = Blank, !.typing = NoSource]
  ELSE [ScheduleReload([Unbound(p) EXCEPT !.bound = t]) EXCEPT !.parted = TRUE]

\* Mutant: rebinding drops what waits in the batch window.
SetTargetDrops(t) ==
  panel' = Rebound(panel, t) /\ UNCHANGED <<stored, cache>>

\* The pending batch goes to the old target first; its echo finds another
\* source selected.
SetTarget(t) ==
  /\ panel' = Rebound(AfterApply(panel, panel.pending, FALSE), t)
  /\ IF panel.bound = NoSource \/ panel.pending = Nothing
     THEN UNCHANGED <<stored, cache>>
     ELSE Written(panel.bound, panel.pending)

\* The lists whose stored value is not among their items commit what they show.
Defaults(st) ==
  LET ks == SetToSeq(Unmatched(st))
  IN [i \in DOMAIN ks |-> Event("commit", ks[i], Props(st)[ks[i]])]

\* reloadNow: ListSourceProperties enumerates and refreshes the cache.
ReloadNow(p) ==
  LET q == [p EXCEPT !.parted = FALSE, !.dropped = FALSE]
      st == stored[p.bound]
  IN IF p.bound = NoSource \/ life[p.bound] # "live"
     THEN panel' = [q EXCEPT !.form = Blank] /\ UNCHANGED cache
     ELSE /\ panel' = [q EXCEPT !.form = [of |-> p.bound, shown |-> Display(st)],
                                !.lastProperties = Props(st), !.lastSettings = st,
                                !.posted = @ \o Defaults(st)]
          /\ cache' = [cache EXCEPT ![p.bound] = Props(st)]
-----------------------------------------------------------------------------
(* The user.                                                               *)

Act == ops < MaxOps /\ ops' = ops + 1
Offers(k) == k \in DOMAIN panel.form.shown
AtRest == panel.typing = NoSource /\ ~panel.drag   \* a click ends both

\* A combo pick, an arrow step, the wheel.
Pick(k, v) ==
  /\ Act /\ AtRest /\ Offers(k) /\ k \notin TextKeys /\ k \notin DOMAIN Parent
  /\ v # panel.form.shown[k]
  /\ panel' = QueueChange(panel, k, v)
  /\ UNCHANGED <<life, stored, cache>>

Press(k) ==
  /\ Act /\ AtRest /\ Offers(k) /\ k \in Sliders
  /\ panel' = [panel EXCEPT !.drag = TRUE]
  /\ UNCHANGED <<life, stored, cache>>

\* A step of the held handle: applied at once, or when its window is over.
Drag(k, v) ==
  LET p == [Shows(panel, k, v) EXCEPT !.pending = Over(OneEdit(k, v), @)]
  IN /\ Act /\ panel.drag /\ Offers(k) /\ k \in Sliders /\ v # panel.form.shown[k]
     /\ \/ FlushLive(p)
        \/ panel' = [p EXCEPT !.trailing = TRUE] /\ UNCHANGED <<stored, cache>>
     /\ UNCHANGED life

\* endLiveDrag.
Release ==
  LET p == [panel EXCEPT !.drag = FALSE, !.trailing = FALSE]
  IN /\ panel.drag
     /\ IF p.pending # Nothing
        THEN FlushPending(p)
        ELSE /\ panel' = ScheduleReload([p EXCEPT !.deferred = FALSE])
             /\ UNCHANGED <<stored, cache>>
     /\ UNCHANGED <<life, ops>>

StartTyping(k) ==
  /\ Act /\ AtRest /\ Offers(k) /\ k \in Sliders \cup TextKeys
  /\ panel' = [panel EXCEPT !.typing = k]
  /\ UNCHANGED <<life, stored, cache>>

\* Enter, Tab or the focus leaves: a text applies at once, a number with the
\* batch.
EndTyping(v) ==
  LET k == panel.typing
      p == [panel EXCEPT !.typing = NoSource]
  IN /\ panel.typing # NoSource
     /\ IF k \in TextKeys THEN ApplyNow(Shows(p, k, v), OneEdit(k, v), FALSE)
        ELSE IF v = panel.form.shown[k] THEN FlushPending(p)
        ELSE FlushPending(QueueChange(p, k, v))
     /\ UNCHANGED <<life, ops>>

\* InvokeSourceButton changes settings without an event.
InvokeButton(k, v) ==
  /\ Act /\ AtRest /\ Offers(k) /\ k \in TextKeys
  /\ panel.bound # NoSource /\ Accepts(panel.bound, OneEdit(k, v))
  /\ stored' = [stored EXCEPT ![panel.bound][k] = v]
  /\ panel' = ScheduleReload(panel)
  /\ UNCHANGED <<life, cache>>

\* A row of the list; a removed source keeps its row until the refresh.
Select(t) ==
  /\ Act /\ AtRest /\ t # panel.bound
  /\ \/ life[t] = "live"
     \/ life[t] = "gone" /\ In(Refresh, panel)
  /\ SetTarget(t)
  /\ UNCHANGED life

AddSourceDialog(t) ==
  /\ Act /\ AtRest /\ life[t] = "new"
  /\ life' = [life EXCEPT ![t] = "live"]
  /\ SetTarget(t)

\* removeSelectedSource refreshes at once; the flush finds no source.
RemoveSelectedSource ==
  /\ Act /\ AtRest /\ panel.bound # NoSource /\ life[panel.bound] = "live"
  /\ life' = [life EXCEPT ![panel.bound] = "gone"]
  /\ panel' = Rebound(panel, NoSource)
  /\ UNCHANGED <<stored, cache>>
-----------------------------------------------------------------------------
(* Clients.                                                                *)

ClientSets(t, k, v) ==
  /\ Act /\ Accepts(t, OneEdit(k, v)) /\ v # stored[t][k]
  /\ Written(t, OneEdit(k, v))
  /\ panel' = IF t = panel.bound THEN ScheduleReload(panel) ELSE panel
  /\ UNCHANGED life

ClientRemoves(t) ==
  /\ Act /\ life[t] = "live"
  /\ life' = [life EXCEPT ![t] = "gone"]
  /\ panel' = IF In(Refresh, panel) THEN panel
              ELSE [panel EXCEPT !.posted = Append(@, Refresh)]
  /\ UNCHANGED <<stored, cache>>
-----------------------------------------------------------------------------
(* Timers and posted events.                                               *)

DebounceTimeout ==
  /\ panel.debounce
  /\ FlushPending([panel EXCEPT !.debounce = FALSE])
  /\ UNCHANGED <<life, ops>>

LiveTrailingTimeout ==
  /\ panel.trailing
  /\ FlushLive(panel)
  /\ UNCHANGED <<life, ops>>

Taken(p) == [p EXCEPT !.posted = Tail(@)]

PostedReload ==
  LET p == [Taken(panel) EXCEPT !.queued = FALSE]
      busy == p.debounce \/ p.drag \/ p.typing # NoSource
  IN /\ panel.posted # << >> /\ Head(panel.posted) = Reload
     /\ IF p.suppress
        THEN /\ panel' = [p EXCEPT !.suppress = FALSE, !.dropped = @ \/ p.parted]
             /\ UNCHANGED cache
        ELSE IF busy
        THEN panel' = [p EXCEPT !.deferred = TRUE] /\ UNCHANGED cache
        ELSE ReloadNow(p)
     /\ UNCHANGED <<life, stored, ops>>

PostedCommit ==
  /\ panel.posted # << >> /\ Head(panel.posted).do = "commit"
  /\ LET e == Head(panel.posted) IN ApplyNow(Taken(panel), OneEdit(e.key, e.val), FALSE)
  /\ UNCHANGED <<life, ops>>

\* refreshSources: a selection that is still there keeps its binding.
PostedRefresh ==
  /\ panel.posted # << >> /\ Head(panel.posted) = Refresh
  /\ panel' = IF panel.bound # NoSource /\ life[panel.bound] = "gone"
              THEN Rebound(AfterApply(Taken(panel), panel.pending, FALSE), NoSource)
              ELSE Taken(panel)
  /\ UNCHANGED <<life, stored, cache, ops>>

PanelNext ==
  \/ \E k \in Keys :
       \/ Press(k) \/ StartTyping(k)
       \/ \E v \in Vals : \/ Pick(k, v) \/ Drag(k, v) \/ InvokeButton(k, v)
                          \/ \E t \in Targets : ClientSets(t, k, v)
  \/ \E v \in Vals : EndTyping(v)
  \/ \E t \in Targets : Select(t) \/ AddSourceDialog(t) \/ ClientRemoves(t)
  \/ Release \/ RemoveSelectedSource
  \/ DebounceTimeout \/ LiveTrailingTimeout
  \/ PostedReload \/ PostedCommit \/ PostedRefresh

PanelSpec == PanelInit /\ [][PanelNext]_panelVars
-----------------------------------------------------------------------------
Quiet == /\ panel.posted = << >> /\ panel.pending = Nothing
         /\ ~panel.debounce /\ ~panel.drag /\ panel.typing = NoSource

\* What is shown is what is set, and every list offers it.
InStep ==
  IF panel.bound = NoSource THEN panel.form = Blank
  ELSE /\ panel.form = [of |-> panel.bound, shown |-> stored[panel.bound]]
       /\ Unmatched(stored[panel.bound]) = {}

\* Once nothing is queued, pending or held, the form shows the bound source as
\* the engine has it, whoever changed it and whatever gesture the rebuild had
\* to wait for, unless applyNow compared the reply with settings the form never
\* showed and so took a rebuild for the echo of its own edit
\* (PropertyPanel::scheduleReload, applyNow, endLiveDrag).
StaleOnlyIfDropped == Quiet /\ ~panel.dropped => InStep

\* An edit that waits in the batch window when the panel is bound elsewhere
\* reaches the source it was made on, if that one still exists
\* (PropertyPanel::setTarget, clearTarget: "dropping it would silently lose the
\* user's change").
NoEditLost ==
  [][ \A t \in Targets :
        /\ panel.bound = t /\ panel'.bound # t
        /\ panel.form.of = t /\ life'[t] = "live"
        => \A k \in DOMAIN panel.pending : stored'[t][k] = panel.pending[k] ]_panelVars
-----------------------------------------------------------------------------
(* The inductive invariant.                                                *)

Maps == UNION {[K -> Vals] : K \in SUBSET Keys}
Commits == [do : {"commit"}, key : Keys, val : Vals]
Events == {Reload, Refresh} \cup Commits
PanelType ==
  [bound : Targets \cup {NoSource},
   form : [of : Targets \cup {NoSource}, shown : Maps],
   lastProperties : Maps, lastSettings : Maps,
   pending : Maps, debounce : BOOLEAN, trailing : BOOLEAN,
   drag : BOOLEAN, typing : Keys \cup {NoSource},
   queued : BOOLEAN, suppress : BOOLEAN, deferred : BOOLEAN,
   posted : Seq(Events), parted : BOOLEAN, dropped : BOOLEAN]

PanelTypeOK ==
  /\ life \in [Targets -> {"new", "live", "gone"}]
  /\ DOMAIN stored = Targets
  /\ \A t \in Targets : stored[t] \in [KeysOf[t] -> Vals]
  /\ cache = [t \in Targets |-> Props(stored[t])]
  /\ panel \in PanelType

\* A rebuild is posted at most once, and lists' defaults go before it.
QueueInv(p) ==
  /\ p.queued <=> In(Reload, p)
  /\ \A i, j \in DOMAIN p.posted :
       i < j /\ p.posted[i] = Reload => p.posted[j] = Refresh

\* Below, `there' is the life of the source the panel is bound to, `st' its
\* settings.  A source that is selected is there, or the list's refresh is on
\* its way.
BindingInv(p, there) ==
  /\ IF p.form.of = NoSource THEN p.form = Blank
     ELSE DOMAIN p.form.shown = KeysOf[p.form.of]
  /\ IF p.bound = NoSource THEN p.form = Blank
     ELSE there = "live" \/ (there = "gone" /\ In(Refresh, p))

\* The batch holds what the form shows and waits for a gesture or a window.
BatchInv(p) ==
  /\ DOMAIN p.pending \subseteq DOMAIN p.form.shown \ (DOMAIN Parent \cup TextKeys)
  /\ \A k \in DOMAIN p.pending : p.form.shown[k] = p.pending[k]
  /\ p.typing # NoSource => p.typing \in DOMAIN p.form.shown \cap (Sliders \cup TextKeys)
  /\ p.pending # Nothing => p.debounce \/ p.drag

\* So does a parked rebuild.
ParkedInv(p) == p.deferred => p.debounce \/ p.drag \/ p.typing # NoSource

\* A rebuild is to come.
Due(p) == (p.queued /\ ~p.suppress) \/ p.deferred

\* lastProperties_ and lastSettings_ are what the form shows but for the batch,
\* and each list that shows something else than what is set will commit it.
FollowsLast(p) ==
  /\ p.form.of = p.bound
  /\ p.lastSettings \in [KeysOf[p.bound] -> Vals]
  /\ p.lastProperties = Props(p.lastSettings)
  /\ \A k \in KeysOf[p.bound] \ DOMAIN p.pending :
       p.form.shown[k] = Display(p.lastSettings)[k]
  /\ \A e \in Commits : In(e, p) =>
       e.key \in DOMAIN p.lastProperties /\ e.val = p.lastProperties[e.key]
  /\ \A k \in Unmatched(p.lastSettings) :
       In(Event("commit", k, p.lastProperties[k]), p)

\* Unless they parted, they follow each other, and are the engine's unless a
\* rebuild is to come.
FormInv(p, there, st) ==
  p.bound # NoSource =>
    /\ p.parted => p.queued \/ p.deferred \/ p.dropped
    /\ there = "live" /\ ~p.parted =>
         FollowsLast(p) /\ (~Due(p) => st = p.lastSettings)

PanelOK(p, there, st) ==
  QueueInv(p) /\ BindingInv(p, there) /\ BatchInv(p) /\ ParkedInv(p) /\ FormInv(p, there, st)

PanelInv == PanelTypeOK /\ PanelOK(panel, life[panel.bound], stored[panel.bound])
=============================================================================
