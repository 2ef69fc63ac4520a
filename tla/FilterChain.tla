----------------------------- MODULE FilterChain -----------------------------
(***************************************************************************)
(* A source's filters, kept three times: the helper's vector in apply      *)
(* order, libobs's array in the reverse order, and the rows of the window's *)
(* filter inspector, which are right only after a refresh.  Clients and    *)
(* the window edit the same chains through the same verbs; the events of   *)
(* the selected source post a refresh.                                     *)
(*                                                                         *)
(* Abstracted: filter types and settings (the configure pane is a          *)
(* PropertyPanel), all but two names.  A drop of a dragged row and the     *)
(* acceptance of the add dialog are one step: what Qt moves is the row     *)
(* selected at the drop, and what the dialog adds to is the source bound   *)
(* when it is accepted.  An open in-place editor is a state of its own.    *)
(***************************************************************************)
EXTENDS Naturals, SequencesExt

CONSTANTS Sources,
          None,
          MaxFilters,  \* flt_N numbers a source may use
          MaxOps       \* acts of the user and of clients

ASSUME NoneAssumption == None \notin Sources
ASSUME MaxFiltersAssumption == MaxFilters \in Nat

Names == 0..1
Ids == 1..MaxFilters

VARIABLES
  live,     \* the sources that exist
  chain,    \* rec.filters: ids in apply order
  engine,   \* libobs's array of the source's filters
  attr,     \* a filter's enabled flag and name, by number
  nextNum,  \* rec.nextFilterNum
  insp,     \* the FilterInspector
  listed,   \* the rows of the window's source list; behind, its refresh is posted
  ops

vars == <<live, chain, engine, attr, nextNum, insp, listed, ops>>
desk == <<insp, listed>>

Unbound == [src |-> None, id |-> 0]
Closed == [src |-> None, rows |-> << >>, sel |-> 0, pane |-> Unbound,
           queued |-> FALSE, editing |-> 0]

Init ==
  /\ live = Sources
  /\ chain = [s \in Sources |-> << >>]
  /\ engine = [s \in Sources |-> << >>]
  /\ attr = [s \in Sources |-> [f \in Ids |-> [on |-> TRUE, name |-> 0]]]
  /\ nextNum = [s \in Sources |-> 1]
  /\ insp = Closed
  /\ listed = Sources
  /\ ops = 0
-----------------------------------------------------------------------------
(* The verbs: each takes the source and gives its new record and array.    *)

Has(s, f) == s \in live /\ f \in ToSet(chain[s])
Position(seq, f) == CHOOSE i \in DOMAIN seq : seq[i] = f

\* ReorderFilter's target: the requested index, clamped to the chain's end.
Target(s, index) == IF index < Len(chain[s]) THEN index + 1 ELSE Len(chain[s])

\* Mutant: the chain's index is passed on as it is.
EngineTargetStraight(s, to) == to

\* The engine's place of the chain's place `to', both counted from 1.
EngineTarget(s, to) == Len(chain[s]) + 1 - to

Moved(seq, f, to) == InsertAt(RemoveAt(seq, Position(seq, f)), to, f)

\* obs_source_filter_add puts the new filter at the front of the array.
AddFilter(s) ==
  /\ s \in live /\ nextNum[s] <= MaxFilters
  /\ nextNum' = [nextNum EXCEPT ![s] = @ + 1]
  /\ chain' = [chain EXCEPT ![s] = Append(@, nextNum[s])]
  /\ engine' = [engine EXCEPT ![s] = <<nextNum[s]>> \o @]
  /\ UNCHANGED <<live, attr>>

RemoveFilter(s, f) ==
  /\ Has(s, f)
  /\ chain' = [chain EXCEPT ![s] = RemoveAt(@, Position(@, f))]
  /\ engine' = [engine EXCEPT ![s] = RemoveAt(@, Position(@, f))]
  /\ UNCHANGED <<live, attr, nextNum>>

ReorderFilter(s, f, index) ==
  LET to == Target(s, index)
  IN /\ Has(s, f) /\ Position(chain[s], f) # to
     /\ chain' = [chain EXCEPT ![s] = Moved(@, f, to)]
     /\ engine' = [engine EXCEPT ![s] = Moved(@, f, EngineTarget(s, to))]
     /\ UNCHANGED <<live, attr, nextNum>>

SetFilterEnabled(s, f, on) ==
  /\ Has(s, f) /\ attr[s][f].on # on
  /\ attr' = [attr EXCEPT ![s][f].on = on]
  /\ UNCHANGED <<live, chain, engine, nextNum>>

SetFilterName(s, f, name) ==
  /\ Has(s, f) /\ attr[s][f].name # name
  /\ attr' = [attr EXCEPT ![s][f].name = name]
  /\ UNCHANGED <<live, chain, engine, nextNum>>

\* A refused or idempotent request: no change, no event.
NoEffect == UNCHANGED <<live, chain, engine, attr, nextNum>>

RemoveSource(s) ==
  /\ s \in live
  /\ live' = live \ {s}
  /\ chain' = [chain EXCEPT ![s] = << >>]
  /\ engine' = [engine EXCEPT ![s] = << >>]
  /\ UNCHANGED <<attr, nextNum>>

\* ListFilters: filterInfoJson of each, in apply order.
Infos(c, a) == [i \in DOMAIN c |->
                 [id |-> c[i], on |-> a[c[i]].on, name |-> a[c[i]].name]]
-----------------------------------------------------------------------------
(* The inspector's own steps.                                              *)

\* onControlEvent and scheduleRefresh.
Notified(i, s) == IF s = i.src THEN [i EXCEPT !.queued = TRUE] ELSE i

RowIds(i) == {i.rows[r].id : r \in DOMAIN i.rows}

\* onSelectionChanged: the configure pane follows the current row.  Only the
\* number is compared, and every source has its flt_1.
Selected(i, f) ==
  [i EXCEPT !.sel = f,
            !.pane = IF f = 0 THEN Unbound
                     ELSE IF f = @.id THEN @ ELSE [src |-> i.src, id |-> f]]

\* refreshNow fills the rows from ListFilters and keeps the current filter if
\* it is still there; an open editor goes with its row.  For a source that is gone
\* the rows stay as they were, whosever they are.
RefreshNow(i) ==
  IF i.src \notin live' THEN i
  ELSE LET q == [i EXCEPT !.rows = Infos(chain'[i.src], attr'[i.src]), !.editing = 0]
       IN Selected(q, IF i.sel \in RowIds(q) THEN i.sel ELSE 0)

\* Mutant: the bound filter's number outlives its source.
SetSourceKeeps(s) ==
  IF s = None THEN Closed ELSE RefreshNow([insp EXCEPT !.src = s])

SetSource(s) ==
  IF s = None THEN [Closed EXCEPT !.queued = insp.queued]
  ELSE RefreshNow([insp EXCEPT !.src = s, !.pane = Unbound])
-----------------------------------------------------------------------------
(* The user: rows may be behind the chain, so a request may be refused.    *)

Act == ops < MaxOps /\ ops' = ops + 1
Row(f) == f \in RowIds(insp) /\ insp.editing = 0
Wire(s) == insp' = Notified(insp, s) /\ UNCHANGED listed

\* The row of a source that is gone can be selected until the list is refreshed.
SelectSource(s) ==
  /\ Act /\ s \in listed /\ s # insp.src /\ insp.editing = 0
  /\ NoEffect
  /\ insp' = SetSource(s)
  /\ UNCHANGED listed

SelectRow(f) ==
  /\ Act /\ Row(f) /\ f # insp.sel
  /\ NoEffect
  /\ insp' = Selected(insp, f)
  /\ UNCHANGED listed

\* addFilterDialog refreshes at once and selects the new row; its event's
\* refresh is posted as well.
AddFilterDialog ==
  /\ Act /\ insp.src # None
  /\ AddFilter(insp.src)
  /\ insp' = Selected(RefreshNow(Notified(insp, insp.src)), nextNum[insp.src])
  /\ UNCHANGED listed

RemoveSelectedFilter ==
  /\ Act /\ insp.sel # 0
  /\ IF Has(insp.src, insp.sel)
     THEN /\ RemoveFilter(insp.src, insp.sel)
          /\ insp' = RefreshNow(Notified(insp, insp.src))
     ELSE NoEffect /\ UNCHANGED insp
  /\ UNCHANGED listed

\* onItemChanged: the row already shows the new state.
ToggleRow(r) ==
  LET f == insp.rows[r].id
      on == ~insp.rows[r].on
      shown == [insp EXCEPT !.rows[r].on = on]
  IN /\ Act /\ Row(f)
     /\ \/ SetFilterEnabled(insp.src, f, on) /\ insp' = Notified(shown, insp.src)
        \/ /\ ~(Has(insp.src, f) /\ attr[insp.src][f].on # on)
           /\ NoEffect /\ insp' = shown
     /\ UNCHANGED listed

StartRename(f) ==
  /\ Act /\ Row(f)
  /\ NoEffect
  /\ insp' = [insp EXCEPT !.editing = f]
  /\ UNCHANGED listed

EndRename(r, name) ==
  LET f == insp.rows[r].id
      shown == [insp EXCEPT !.rows[r].name = name, !.editing = 0]
  IN /\ insp.editing = f
     /\ \/ SetFilterName(insp.src, f, name) /\ insp' = Notified(shown, insp.src)
        \/ /\ ~(Has(insp.src, f) /\ attr[insp.src][f].name # name)
           /\ NoEffect /\ insp' = shown
     /\ UNCHANGED <<listed, ops>>

\* onRowsMoved: the row's new place is the requested index; the rows are
\* refreshed whatever the verb did.
DropRow(r, to) ==
  LET f == insp.rows[r].id
      shown == [insp EXCEPT !.rows = InsertAt(RemoveAt(@, r), to, @[r]),
                            !.queued = TRUE]
  IN /\ Act /\ Row(f) /\ insp.sel = f /\ to \in DOMAIN insp.rows \ {r}
     /\ \/ ReorderFilter(insp.src, f, to - 1)
        \/ /\ ~(Has(insp.src, f) /\ Position(chain[insp.src], f) # Target(insp.src, to - 1))
           /\ NoEffect
     /\ insp' = shown
     /\ UNCHANGED listed
-----------------------------------------------------------------------------
(* Clients, and the posted refreshes.                                      *)

\* A sourceRemoved posted a refresh of the list.
ListBehind == listed # live

ClientEdits(s) ==
  /\ Act
  /\ \/ AddFilter(s)
     \/ \E f \in ToSet(chain[s]) :
          \/ RemoveFilter(s, f)
          \/ \E index \in 0..Len(chain[s]) : ReorderFilter(s, f, index)
          \/ \E on \in BOOLEAN : SetFilterEnabled(s, f, on)
          \/ \E name \in Names : SetFilterName(s, f, name)
  /\ Wire(s)

ClientRemovesSource(s) ==
  /\ Act /\ RemoveSource(s)
  /\ UNCHANGED <<insp, listed>>

PostedRefresh ==
  /\ insp.queued
  /\ NoEffect
  /\ insp' = RefreshNow([insp EXCEPT !.queued = FALSE])
  /\ UNCHANGED <<listed, ops>>

\* refreshSources: a source that is gone is no longer selected.
PostedSourceRefresh ==
  /\ ListBehind
  /\ listed' = live
  /\ NoEffect
  /\ insp' = IF insp.src \in live THEN insp ELSE SetSource(None)
  /\ UNCHANGED ops

Next ==
  \/ \E s \in Sources : SelectSource(s) \/ ClientEdits(s) \/ ClientRemovesSource(s)
  \/ \E f \in Ids : SelectRow(f) \/ StartRename(f)
  \/ \E r \in DOMAIN insp.rows :
       \/ ToggleRow(r)
       \/ \E name \in Names : EndRename(r, name)
       \/ \E to \in Ids : DropRow(r, to)
  \/ AddFilterDialog \/ RemoveSelectedFilter
  \/ PostedRefresh \/ PostedSourceRefresh

Spec == Init /\ [][Next]_vars
-----------------------------------------------------------------------------
\* Whatever the order of adding, removing and moving, libobs's array is the
\* vector read backwards, so that the index a client is told is the place at
\* which the filter is applied (ControlVerbs, the chain order model; add at the
\* front, and ReorderFilter's (N-1) - index).
ChainMirrorsEngine == \A s \in Sources : engine[s] = Reverse(chain[s])

\* When no refresh is posted the inspector shows the selected source's chain as
\* it is, its current row is a filter of that source and the configure pane
\* edits that filter, whoever edited the chain and however far behind the rows
\* were (FilterInspector::refreshNow, onItemChanged, onRowsMoved).
InspectorConverges ==
  ~insp.queued /\ ~ListBehind =>
    IF insp.src = None THEN insp.rows = << >> /\ insp.pane = Unbound
    ELSE /\ insp.rows = Infos(chain[insp.src], attr[insp.src])
         /\ insp.sel \in RowIds(insp) \cup {0}
         /\ insp.pane = IF insp.sel = 0 THEN Unbound
                        ELSE [src |-> insp.src, id |-> insp.sel]
-----------------------------------------------------------------------------
(* The inductive invariant of the inspector.                               *)

\* Filters are numbered within the bound, and the flags and names keep their types.
FiltersTyped ==
  /\ attr \in [Sources -> [Ids -> [on : BOOLEAN, name : Names]]]
  /\ \A s \in Sources : nextNum[s] \in 1..MaxFilters+1 /\ ToSet(chain[s]) \subseteq Ids

\* An inspector has six fields; the pane follows the current row of a source that
\* exists, also while the rows are behind the chain.
Shaped(i) == DOMAIN i = {"src", "rows", "sel", "pane", "queued", "editing"}
PaneFollows(i) ==
  i.src \in live \cup {None} =>
    i.pane = IF i.sel = 0 THEN Unbound ELSE [src |-> i.src, id |-> i.sel]
InspectorType ==
  /\ Shaped(insp) /\ PaneFollows(insp)
  /\ insp.src \in Sources \cup {None} /\ insp.queued \in BOOLEAN

\* What is selected has a row, and so has every source that exists.
SelectionListed ==
  live \subseteq listed /\ listed \subseteq Sources /\ insp.src \in listed \cup {None}

\* Rows that no refresh is posted for are the chain.
RowsFollow ==
  /\ insp.src = None => insp.rows = << >> /\ insp.sel = 0
  /\ insp.src \in live /\ ~insp.queued =>
       /\ insp.rows = Infos(chain[insp.src], attr[insp.src])
       /\ insp.sel \in RowIds(insp) \cup {0}

InspectorInv == FiltersTyped /\ InspectorType /\ SelectionListed /\ RowsFollow
==============================================================================
