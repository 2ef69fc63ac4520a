------------------------------ MODULE SourceDesk ------------------------------
(***************************************************************************)
(* The window's properties dock: the filter inspector, the mixer strip and *)
(* the transport strip follow one selection, which the user moves and a    *)
(* removed source takes away, in MainWindow::onSelectionChanged.  A user   *)
(* has one pair of hands: a held slider, a typed-in box or an open editor  *)
(* is let go of before the next thing is touched.  The selection's source  *)
(* is a media file, which has picture, sound and transport.                *)
(***************************************************************************)
EXTENDS AudioStrip, MediaTransport

deskVars == <<vars, audioVars, mediaVars>>

DeskInit == Init /\ AudioInit /\ MediaInit

HandsFree == ~strip.down /\ ~strip.focus /\ ~transport.down

\* onSelectionChanged binds the inspector, the transport strip and the mixer.
Rebind(s) ==
  /\ strip' = AudioRebound(strip, s)
  /\ transport' = MediaRebound(s)
  /\ Aged
  /\ UNCHANGED <<level, media, waiting>>

Selection ==
  \/ \E s \in Sources : HandsFree /\ SelectSource(s) /\ Rebind(s)
  \/ /\ PostedSourceRefresh
     /\ IF insp.src \in live THEN UNCHANGED <<audioVars, mediaVars>> ELSE Rebind(None)

FilterStep ==
  /\ UNCHANGED <<audioVars, mediaVars>>
  /\ \/ /\ HandsFree
        /\ \/ \E f \in Ids : SelectRow(f) \/ StartRename(f)
           \/ \E r \in DOMAIN insp.rows :
                \/ ToggleRow(r)
                \/ \E name \in Names : EndRename(r, name)
                \/ \E to \in Ids : DropRow(r, to)
           \/ AddFilterDialog \/ RemoveSelectedFilter
     \/ \E s \in Sources : ClientEdits(s) \/ ClientRemovesSource(s)
     \/ PostedRefresh

AudioStep ==
  /\ UNCHANGED <<live, chain, engine, attr, nextNum, insp, listed, mediaVars>>
  /\ \/ /\ ~transport.down
        /\ \/ \E v \in Levels : MoveGain(v) \/ TypeSync(v)
           \/ PressGain \/ FocusSync \/ EnterSync
     \/ \E s \in Sources, k \in Controls, v \in Levels : ClientSetsAudio(s, k, v)
     \/ /\ UNCHANGED ops
        /\ \/ ReleaseGain \/ LeaveSync \/ PostedCopy
           \/ \E k \in Controls : TrailingTimeout(k)

MediaStep ==
  /\ UNCHANGED <<live, chain, engine, attr, nextNum, insp, listed, audioVars>>
  /\ \/ /\ ~strip.down /\ ~strip.focus
        /\ \/ \E pos \in Positions : MoveHandle(pos)
           \/ PressHandle
           \/ /\ ~transport.down
              /\ \E button \in {"play", "restart", "stop"} : ClickTransport(button)
     \/ \E s \in Sources : ClientControlsMedia(s)
     \/ /\ UNCHANGED ops
        /\ \/ ReleaseHandle \/ SeekTrailing \/ MediaTimer \/ PollTick
           \/ \E s \in Sources : QueuedEvaluation(s)

\* libobs's threads, and the end of the one verb that waits for them.
PlaybackStep ==
  /\ UNCHANGED <<live, chain, engine, attr, nextNum, insp, listed, audioVars>>
  /\ \/ \E s \in Sources : Playback(s)
     \/ UNCHANGED ops /\ (WaitEnds \/ \E s \in Sources : VideoTick(s))

DeskNext ==
  \/ waiting = "nobody" /\ (Selection \/ FilterStep \/ AudioStep \/ MediaStep)
  \/ PlaybackStep

DeskSpec == DeskInit /\ [][DeskNext]_deskVars
=============================================================================
