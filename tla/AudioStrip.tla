------------------------------ MODULE AudioStrip ------------------------------
(***************************************************************************)
(* The window's mixer strip over the selected source's audio, which clients *)
(* set through the same verb.  Two controls stand for the four: gain, a    *)
(* slider that is applied while it moves (balance is another one), and     *)
(* sync, a spin box whose edits settle before they are applied (mute has   *)
(* neither drag nor delay).  Every change is announced; the window posts   *)
(* itself a copy of the announcement if the source is selected.            *)
(*                                                                         *)
(* Abstracted: the clamp of both controls' values, the decibel curve, the  *)
(* throttle's clock (a move is applied at once or after the trailing       *)
(* timer) and the meters.  The selection is the filter inspector's.        *)
(***************************************************************************)
EXTENDS FilterChain

Controls == {"gain", "sync"}
Levels == 0..1

VARIABLES
  level,   \* what libobs holds for each source
  strip,   \* the AudioMixerStrip
  copies   \* posted copies of audioChanged; old: the selection has changed since

audioVars == <<level, strip, copies>>

Bound == insp.src
Neither == [k \in Controls |-> FALSE]

AudioInit ==
  /\ level = [s \in Sources |-> [k \in Controls |-> 0]]
  /\ strip = [shown |-> [k \in Controls |-> 0], down |-> FALSE, focus |-> FALSE,
              trail |-> Neither,
              \* observers: what the user set and still sees, and the controls told
              \* in vain or by an old copy
              hand |-> [k \in Controls |-> None], missed |-> Neither, stray |-> Neither]
  /\ copies = << >>
-----------------------------------------------------------------------------
(* SetSourceAudio and its announcement.                                    *)

InFlight(t, k) == t.trail[k] \/ (IF k = "gain" THEN t.down ELSE t.focus)

Announced(s, k, v) ==
  IF s = Bound THEN Append(copies, [control |-> k, value |-> v, old |-> FALSE]) ELSE copies

\* Mutant: the sync offset is left out of the diff.
SetSourceAudioGainOnly(s, k, v) ==
  /\ level' = [level EXCEPT ![s][k] = v]
  /\ copies' = IF level[s][k] # v /\ k = "gain" THEN Announced(s, k, v) ELSE copies

SetSourceAudio(s, k, v) ==
  /\ level' = [level EXCEPT ![s][k] = v]
  /\ copies' = IF level[s][k] # v THEN Announced(s, k, v) ELSE copies

\* What the strip shows where it takes over the stored values.
Takes(t, which, values) ==
  [t EXCEPT !.shown  = [k \in Controls |-> IF k \in which THEN values[k] ELSE @[k]],
            !.hand   = [k \in Controls |->
                         IF k \in which /\ @[k] # values[k] THEN None ELSE @[k]],
            !.missed = [k \in Controls |-> @[k] /\ k \notin which],
            !.stray  = [k \in Controls |-> @[k] /\ k \notin which]]

\* flushGain, flushSyncOffset of a strip t: the reply reconciles what is not in
\* flight; a source that is gone answers with an error.
Flush(t, k) ==
  LET quiet == [t EXCEPT !.trail[k] = FALSE]
      sent  == Takes(quiet, {k}, quiet.shown)
  IN IF Bound \in live
     THEN /\ SetSourceAudio(Bound, k, quiet.shown[k])
          /\ strip' = Takes(sent, {j \in Controls : ~InFlight(sent, j)}, level'[Bound])
     ELSE strip' = quiet /\ UNCHANGED <<level, copies>>

\* Mutant: the strip is shown for the next source as it was.
AudioReboundUnloaded(t, s) == [t EXCEPT !.trail = Neither]

\* setSource: a pending edit belongs to the previous source and is dropped; a source
\* that is gone has nothing to load.
AudioRebound(t, s) ==
  LET dropped == [t EXCEPT !.trail = Neither]
  IN IF s = None THEN [dropped EXCEPT !.down = FALSE, !.focus = FALSE]
     ELSE IF s \in live THEN Takes(dropped, Controls, level[s]) ELSE dropped
-----------------------------------------------------------------------------
(* The user.                                                               *)

Audible == Bound # None /\ insp.editing = 0
Hands(t, k, v) == [t EXCEPT !.shown[k] = v, !.hand[k] = v]

MoveGain(v) ==
  LET t == Hands(strip, "gain", v)
  IN /\ Act /\ Audible /\ strip.shown["gain"] # v
     /\ \/ Flush(t, "gain")
        \/ strip' = [t EXCEPT !.trail["gain"] = TRUE] /\ UNCHANGED <<level, copies>>

PressGain ==
  /\ Act /\ Audible /\ ~strip.down /\ ~strip.focus
  /\ strip' = [strip EXCEPT !.down = TRUE]
  /\ UNCHANGED <<level, copies>>

ReleaseGain == strip.down /\ Flush([strip EXCEPT !.down = FALSE], "gain")

FocusSync ==
  /\ Act /\ Audible /\ ~strip.focus /\ ~strip.down
  /\ strip' = [strip EXCEPT !.focus = TRUE]
  /\ UNCHANGED <<level, copies>>

TypeSync(v) ==
  /\ Act /\ Audible /\ strip.focus /\ strip.shown["sync"] # v
  /\ strip' = [Hands(strip, "sync", v) EXCEPT !.trail["sync"] = TRUE]
  /\ UNCHANGED <<level, copies>>

\* editingFinished: the box is left, or Enter is pressed in it.
LeaveSync == strip.focus /\ Flush([strip EXCEPT !.focus = FALSE], "sync")
EnterSync == Act /\ strip.focus /\ Flush(strip, "sync")

TrailingTimeout(k) == strip.trail[k] /\ Flush(strip, k)
-----------------------------------------------------------------------------
(* A client, and the posted copies.                                        *)

ClientSetsAudio(s, k, v) ==
  /\ Act /\ s \in live /\ level[s][k] # v
  /\ SetSourceAudio(s, k, v)
  /\ UNCHANGED strip

\* The copies that are posted already outlive a change of selection.
Aged == copies' = [i \in DOMAIN copies |-> [copies[i] EXCEPT !.old = TRUE]]

\* onAudioChanged: an edit in flight wins.  The copy is applied to whatever
\* source is shown by then.
PostedCopy ==
  /\ copies # << >>
  /\ copies' = Tail(copies)
  /\ LET c == Head(copies)
         k == c.control
     IN strip' = IF Bound = None THEN strip
                 ELSE IF InFlight(strip, k)
                 THEN [strip EXCEPT !.missed[k] = @ \/ ~c.old]
                 ELSE [Takes(strip, {k}, [strip.shown EXCEPT ![k] = c.value])
                         EXCEPT !.stray[k] = c.old]
  /\ UNCHANGED level
-----------------------------------------------------------------------------
Told(k) == \E i \in DOMAIN copies : copies[i].control = k /\ ~copies[i].old

\* A control nobody is working shows what libobs holds as soon as the posted
\* announcements are in, whoever set it and whatever was ignored on the way
\* (AudioMixerStrip::reconcile, onAudioChanged, handleSetSourceAudio).  The one
\* way past it: a copy that was posted before the selection changed.
StripSettles ==
  \A k \in Controls :
    Bound \in live /\ ~InFlight(strip, k) /\ ~Told(k) /\ ~strip.stray[k]
      => strip.shown[k] = level[Bound][k]

\* The strip changes what libobs holds only of the source it shows, and to what
\* the user set there, unless a client's newer value was on its way or was ignored
\* because the control was held or had the focus (AudioMixerStrip::setSource,
\* flushGain, flushSyncOffset).
StripWritesEdits ==
  [][\A s \in Sources, k \in Controls :
       level'[s][k] # level[s][k] /\ strip' # strip
         => /\ s = Bound
            /\ level'[s][k] = strip'.hand[k]
               \/ strip.missed[k] \/ strip.stray[k] \/ Told(k)]_<<level, strip>>
-----------------------------------------------------------------------------
(* The inductive invariant.                                                *)

Copies == [control : Controls, value : Levels, old : BOOLEAN]
Strip == [shown : [Controls -> Levels], down : BOOLEAN, focus : BOOLEAN,
          trail : [Controls -> BOOLEAN], hand : [Controls -> Levels \cup {None}],
          missed : [Controls -> BOOLEAN], stray : [Controls -> BOOLEAN]]
StripType ==
  level \in [Sources -> [Controls -> Levels]] /\ strip \in Strip /\ copies \in Seq(Copies)

\* Copy i of the queue q tells the control k; it is the last one that does.
Tells(q, i, k) == q[i].control = k /\ ~q[i].old
ToldIn(q, k) == \E i \in 1..Len(q) : Tells(q, i, k)
LastWord(q, i, k) == Tells(q, i, k) /\ \A j \in 1..Len(q) : j > i => ~Tells(q, j, k)

\* The control k of a strip t, with the copies q on their way and v in libobs: what is
\* told last is v; what is shown is v or what the user set, unless a change is on its
\* way, was missed or an old copy has come in; and v, when nobody is working it.
InStep(t, q, v, k) ==
  /\ \A i \in 1..Len(q) : LastWord(q, i, k) => q[i].value = v
  /\ ~t.missed[k] /\ ~t.stray[k] /\ ~ToldIn(q, k) => t.shown[k] \in {v, t.hand[k]}
  /\ ~InFlight(t, k) /\ ~t.stray[k] /\ ~ToldIn(q, k) => t.shown[k] = v

StripInv ==
  /\ StripType
  /\ Bound \in live => \A k \in Controls : InStep(strip, copies, level[Bound][k], k)
==============================================================================
