---------------------------- MODULE MediaTransport ----------------------------
(***************************************************************************)
(* Media playback: libobs's state of each file, what mediaChanged last told *)
(* clients of it, and the window's transport strip.  A verb only queues an *)
(* action and waits for the state it should lead to, 250 ms at most; the   *)
(* video thread carries the actions out one by one.  Playback threads      *)
(* change the state too.  Most changes are signalled, and a signal queues  *)
(* an evaluation on the main thread; opening is silent and is found by the *)
(* poll.                                                                   *)
(*                                                                         *)
(* Abstracted: buffering (as silent as opening), errors, looping, the      *)
(* throttle's clock; a change of state and its signal are one step; a file *)
(* has a duration unless it is opening.  The selection is the filter       *)
(* inspector's.                                                            *)
(***************************************************************************)
EXTENDS FilterChain

Positions == {"start", "middle"}

VARIABLES
  media,     \* each file: state, pos, the queued actions, what clients were
             \* told, the queued evaluations
  transport, \* the transport strip
  waiting    \* for whom ControlMedia, on the main thread, waits

mediaVars == <<media, transport, waiting>>

MediaInit ==
  /\ media = [s \in Sources |->
                [state |-> "ended", pos |-> "start", acts |-> << >>, told |-> "ended", heard |-> 0,
                 \* observer: an unsignalled change since the last evaluation
                 silent |-> FALSE]]
  /\ transport = [state |-> "none", enabled |-> FALSE, pos |-> "start",
                  down |-> FALSE, dirty |-> FALSE, trail |-> FALSE,
                  \* observers: where the user moved the handle to, and whether the
                  \* strip was filled again while that waited
                  hand |-> "start", refilled |-> FALSE]
  /\ waiting = "nobody"
-----------------------------------------------------------------------------
(* libobs: an action, or the playback thread, changes the state and signals. *)

\* Mutant: the end of playback is not listened to.
MediaSignalsNoEnd == {"media_play", "media_pause", "media_restart", "media_stopped",
                      "media_started"}

MediaSignals == {"media_play", "media_pause", "media_restart", "media_stopped",
                 "media_started", "media_ended"}

\* notifyMediaSignal queues one evaluation.
Signalled(m, state, signal) ==
  [m EXCEPT !.state = state,
            !.heard = IF signal \in MediaSignals THEN @ + 1 ELSE @]

\* play_pause flips the state word whatever it was, of a finished file too.
Performed(m, act) ==
  CASE act = "play"    -> Signalled(m, "playing", "media_play")
    [] act = "pause"   -> Signalled(m, "paused", "media_pause")
    [] act = "restart" -> [Signalled(m, "playing", "media_restart") EXCEPT !.pos = "start"]
    [] act = "stop"    -> [Signalled(m, "stopped", "media_stopped") EXCEPT !.pos = "start"]
    [] act \in Positions -> [m EXCEPT !.pos = act]

\* process_media_actions lets go of the queue between two actions.
VideoTick(s) ==
  /\ s \in live /\ media[s].acts # << >>
  /\ LET m == media[s]
     IN media' = [media EXCEPT ![s] = Performed([m EXCEPT !.acts = Tail(m.acts)], Head(m.acts))]
  /\ UNCHANGED <<transport, waiting>>

\* The file is opened again, starts, plays on, ends.
Playback(s) ==
  /\ Act /\ s \in live
  /\ \/ /\ media[s].state = "playing"
        /\ \/ media' = [media EXCEPT ![s].state = "opening", ![s].silent = TRUE]
           \/ media' = [media EXCEPT ![s] = Signalled(@, "ended", "media_ended")]
           \/ \E pos \in Positions \ {media[s].pos} : media' = [media EXCEPT ![s].pos = pos]
     \/ /\ media[s].state = "opening"
        /\ media' = [media EXCEPT ![s] = Signalled(@, "playing", "media_started")]
  /\ UNCHANGED <<transport, waiting>>
-----------------------------------------------------------------------------
(* The main thread: evaluations, verbs.                                    *)

\* mediaChanged is sent if the state is not the one told last.
Evaluated(m) == [m EXCEPT !.told = m.state, !.silent = FALSE]

QueuedEvaluation(s) ==
  /\ s \in live /\ media[s].heard > 0
  /\ LET m == media[s]
     IN media' = [media EXCEPT ![s] = Evaluated([m EXCEPT !.heard = m.heard - 1])]
  /\ UNCHANGED <<transport, waiting>>

PollTick ==
  /\ \E s \in live : media[s].silent \/ media[s].told # media[s].state
  /\ media' = [s \in Sources |-> IF s \in live THEN Evaluated(media[s]) ELSE media[s]]
  /\ UNCHANGED <<transport, waiting>>

\* What an action queues: playing a finished file restarts it.
Queues(s, action) ==
  IF action = "play" /\ media[s].state \in {"ended", "stopped"} THEN "restart" ELSE action

Queued(s, act) == [media EXCEPT ![s].acts = Append(@, act)]

\* The main thread waits, whatever the video thread makes of it.
ControlMedia(s, action, who) ==
  /\ media' = Queued(s, Queues(s, action))
  /\ waiting' = who

HasDuration(s) == media[s].state # "opening"

SeekMedia(s, pos) == media' = IF HasDuration(s) THEN Queued(s, pos) ELSE media
-----------------------------------------------------------------------------
(* The transport strip.                                                    *)

\* refreshMediaStatus reads m, the state of the selected file; a held handle is
\* the user's.  A slider that is disabled is let go, and that is a release: it stops
\* the trailing timer, though the seek itself is refused.
Refreshed(t, m) ==
  IF m.state = "opening"
  THEN [t EXCEPT !.state = m.state, !.enabled = FALSE, !.down = FALSE,
                 !.trail = @ /\ ~(t.down /\ t.dirty)]
  ELSE [t EXCEPT !.state = m.state, !.enabled = TRUE,
                 !.pos = IF t.down THEN @ ELSE m.pos,
                 !.refilled = @ \/ (t.trail /\ ~t.down)]

Playable == insp.src # None /\ insp.editing = 0
Refresh(t) == transport' = IF insp.src \in live THEN Refreshed(t, media'[insp.src]) ELSE t

\* onSelectionChanged: the pending seek is not dropped.  Of a source that is gone
\* there is no status.
MediaRebound(s) ==
  LET t == [transport EXCEPT !.refilled = @ \/ transport.trail]
  IN IF s = None THEN [t EXCEPT !.down = FALSE] ELSE IF s \in live THEN Refreshed(t, media[s]) ELSE t

\* flushSeek.
FlushSeek(t) ==
  IF insp.src \in live THEN SeekMedia(insp.src, t.pos) ELSE UNCHANGED media

MoveHandle(pos) ==
  LET t == [transport EXCEPT !.pos = pos, !.dirty = TRUE, !.hand = pos, !.refilled = FALSE]
  IN /\ Act /\ Playable /\ transport.enabled /\ transport.pos # pos
     /\ \/ transport' = [t EXCEPT !.trail = FALSE] /\ FlushSeek(t)
        \/ transport' = [t EXCEPT !.trail = TRUE] /\ UNCHANGED media
     /\ UNCHANGED waiting

\* Mutant: a press does not begin a new gesture.
PressHandleDirty ==
  /\ Act /\ Playable /\ transport.enabled /\ ~transport.down
  /\ transport' = [transport EXCEPT !.down = TRUE]
  /\ UNCHANGED <<media, waiting>>

PressHandle ==
  /\ Act /\ Playable /\ transport.enabled /\ ~transport.down
  /\ transport' = [transport EXCEPT !.down = TRUE, !.dirty = FALSE]
  /\ UNCHANGED <<media, waiting>>

ReleaseHandle ==
  /\ transport.down
  /\ IF transport.dirty
     THEN FlushSeek(transport) /\ Refresh([transport EXCEPT !.down = FALSE, !.trail = FALSE])
     ELSE UNCHANGED media /\ Refresh([transport EXCEPT !.down = FALSE])
  /\ UNCHANGED waiting

SeekTrailing ==
  /\ transport.trail
  /\ transport' = [transport EXCEPT !.trail = FALSE]
  /\ FlushSeek(transport)
  /\ UNCHANGED waiting

ClickTransport(button) ==
  LET action == IF button # "play" THEN button
                ELSE IF transport.state = "playing" THEN "pause" ELSE "play"
  IN /\ Act /\ Playable
     /\ IF insp.src \in live THEN ControlMedia(insp.src, action, "window")
                             ELSE UNCHANGED <<media, waiting>>
     /\ UNCHANGED transport

\* The state is reached or the time is over; the window refreshes its strip.
WaitEnds ==
  /\ waiting # "nobody"
  /\ waiting' = "nobody"
  /\ UNCHANGED media
  /\ IF waiting = "window" THEN Refresh(transport) ELSE UNCHANGED transport

\* mediaTimer, and the refresh a mediaChanged posts.
MediaTimer ==
  /\ insp.src \in live
  /\ UNCHANGED <<media, waiting>>
  /\ Refresh(transport)

ClientControlsMedia(s) ==
  /\ Act /\ s \in live
  /\ \/ \E action \in {"play", "pause", "restart", "stop"} : ControlMedia(s, action, "client")
     \/ \E pos \in Positions : SeekMedia(s, pos) /\ UNCHANGED waiting
  /\ UNCHANGED transport
-----------------------------------------------------------------------------
\* A client that was told something else than the state has an evaluation coming,
\* or the change was one that makes no signal and the poll will find it
\* (ControlVerbs: kMediaSignals, notifyMediaSignal, evalMediaState).
AnnouncedOrOwed ==
  \A s \in live :
    media[s].told # media[s].state => media[s].heard > 0 \/ media[s].silent

\* The strip seeks the selected file, and to the place the user last moved the
\* handle to, unless it was filled again while that seek waited for the throttle
\* (MainWindow::buildTransportStrip, refreshMediaStatus, flushSeek).
SeeksFollowTheHand ==
  [][\A s \in Sources, pos \in Positions :
       media'[s].acts = Append(media[s].acts, pos) /\ transport' # transport
         => s = insp.src /\ (pos = transport'.hand \/ transport.refilled)]_mediaVars
-----------------------------------------------------------------------------
(* The inductive invariant.                                                *)

MediaStates == {"playing", "paused", "stopped", "ended", "opening"}
Actions == {"play", "pause", "restart", "stop"}
File == [state : MediaStates, pos : Positions, acts : Seq(Actions \cup Positions),
         told : MediaStates, heard : Nat, silent : BOOLEAN]
Transport == [state : MediaStates \cup {"none"}, enabled : BOOLEAN, pos : Positions,
              down : BOOLEAN, dirty : BOOLEAN, trail : BOOLEAN,
              hand : Positions, refilled : BOOLEAN]
MediaType == /\ media \in [Sources -> File] /\ transport \in Transport
             /\ waiting \in {"nobody", "client", "window"}

\* A seek to come goes where the hand was, unless the strip was filled meanwhile.
Leads(t) == /\ t.down /\ t.dirty => t.pos = t.hand
            /\ t.trail => t.pos = t.hand \/ t.refilled

MediaInv == MediaType /\ AnnouncedOrOwed /\ Leads(transport)
==============================================================================
