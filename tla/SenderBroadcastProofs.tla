------------------------ MODULE SenderBroadcastProofs ------------------------
(***************************************************************************)
(* Theorems about SenderBroadcast, for any sources, names and suffixing.   *)
(***************************************************************************)
EXTENDS SenderBroadcast, WellFoundedInduction, TLAPS

-----------------------------------------------------------------------------
(***************************************************************************)
(* FirstFree, the candidate search of the allocator and of Spout.          *)
(***************************************************************************)

\* A nonempty set of naturals has a least element.
LEMMA LeastElement ==
  ASSUME NEW T, T \subseteq Nat, T # {}
  PROVE  \E i \in T : \A j \in T : i <= j
<1>1. IsWellFoundedOn(OpToRel(<, Nat), Nat)
  BY NatLessThanWellFounded
<1>2. PICK i \in T : \A j \in T : ~(<<j, i>> \in OpToRel(<, Nat))
  BY <1>1, WFMin
<1>3. SUFFICES ASSUME NEW j \in T PROVE i <= j
  BY <1>2
<1>4. i \in Nat /\ j \in Nat /\ ~(j < i)
  BY <1>2 DEF OpToRel
<1>5. QED
  BY <1>4

\* The search returns an entry of the sequence that is not taken, or None.
LEMMA FirstFreeIsFree ==
  ASSUME NEW c \in Seq(Names), NEW taken, FirstFree(c, taken) # None
  PROVE  FirstFree(c, taken) \in Names /\ FirstFree(c, taken) \notin taken
<1> DEFINE free == {i \in DOMAIN c : c[i] \notin taken}
<1> DEFINE first == CHOOSE i \in free : \A j \in free : i <= j
<1>1. free # {}
  BY DEF FirstFree
<1>2. free \subseteq Nat
  OBVIOUS
<1>3. \E i \in free : \A j \in free : i <= j
  <2> HIDE DEF free
  <2> QED  BY <1>1, <1>2, LeastElement
<1>4. first \in free
  <2> HIDE DEF free
  <2> QED  BY <1>3
<1>5. c[first] \in Names /\ c[first] \notin taken
  BY <1>4
<1>6. FirstFree(c, taken) = c[first]
  BY <1>1 DEF FirstFree
<1> QED
  BY <1>5, <1>6

\* A search whose first candidate is free returns that candidate.
LEMMA FirstFreeHead ==
  ASSUME NEW c \in Seq(Names), Len(c) > 0, NEW taken, c[1] \notin taken
  PROVE  FirstFree(c, taken) = c[1]
<1> DEFINE free == {i \in DOMAIN c : c[i] \notin taken}
<1> DEFINE first == CHOOSE i \in free : \A j \in free : i <= j
<1>1. 1 \in free /\ free \subseteq Nat /\ \A j \in free : 1 <= j
  OBVIOUS
<1>2. first = 1
  <2>1. first \in free /\ \A j \in free : first <= j
    <3> HIDE DEF free
    <3> QED  BY <1>1
  <2> HIDE DEF first, free
  <2> QED  BY <1>1, <2>1
<1>3. FirstFree(c, taken) = c[first]
  BY <1>1 DEF FirstFree
<1> QED
  BY <1>2, <1>3

-----------------------------------------------------------------------------
(***************************************************************************)
(* Type correctness.                                                       *)
(***************************************************************************)

\* The name attach() picks is a sender name, or there is none.
LEMMA ResolvedNameType ==
  ASSUME TypeOK, NEW s \in Sources, NEW sticky \in MaybeName,
         ResolvedName(s, sticky) # None
  PROVE  ResolvedName(s, sticky) \in Names
<1>1. CASE sticky # None /\ sticky \in reserved
  BY <1>1 DEF ResolvedName, TypeOK
<1>2. CASE ~(sticky # None /\ sticky \in reserved)
  <2>1. AllocNames[BaseName[s]] \in Seq(Names)
    BY NamingAssumption
  <2>2. ResolvedName(s, sticky) = FirstFree(AllocNames[BaseName[s]], registry \cup reserved)
    BY <1>2 DEF ResolvedName
  <2> QED
    BY <2>1, <2>2, FirstFreeIsFree
<1> QED
  BY <1>1, <1>2

LEMMA InitType == Init => TypeOK
BY NoneAssumption DEF Init, TypeOK, NoRecord, NoSlot, RecordType, SlotType,
   MainType, MaybeName

\* The verbs the main thread can be in.
LEMMA MainTypes ==
  ASSUME NEW s \in Sources \cup {None}, NEW op \in {"idle", "capture", "stop",
         "remove", "format", "reload"}, ToIdle \/ ToVerb(op, s)
  PROVE  main' \in MainType
BY DEF MainType, ToIdle, ToVerb

\* attach() pushes a slot and reserves a name.
LEMMA AttachType ==
  ASSUME TypeOK, NEW s \in Sources, NEW sticky \in MaybeName, Attach(s, sticky)
  PROVE  slot' \in [Sources -> SlotType] /\ reserved' \subseteq Names
<1> DEFINE name == ResolvedName(s, sticky)
<1>1. name \in Names
  BY ResolvedNameType DEF Attach
<1>2. NewSlot(name) \in SlotType
  <2> HIDE DEF name
  <2> QED  BY <1>1 DEF NewSlot, NoSlot, SlotType, MaybeName
<1>3. slot' = [slot EXCEPT ![s] = NewSlot(name)] /\ reserved' = reserved \cup {name}
  BY DEF Attach
<1> QED
  BY <1>1, <1>2, <1>3 DEF TypeOK

\* What a successful send does: nothing new, a registration under the first
\* free candidate, or (full registry) a first send that registers nothing.
LEMMA SendOutcome ==
  ASSUME TypeOK, NEW s \in Sources, SlotSend(s), ~slot[s].up
  PROVE  \E n \in Names :
           /\ slot' = [slot EXCEPT ![s].up = TRUE, ![s].spout = n]
           /\ \/ n = slot[s].spout /\ registry' = registry
              \/ /\ n = FirstFree(SpoutNames[slot[s].spout], registry)
                 /\ n \notin registry
                 /\ registry' = registry \cup {n}
<1> DEFINE first == FirstFree(SpoutNames[slot[s].spout], registry)
<1>1. slot[s].spout \in Names
  BY DEF SlotSend, TypeOK, SlotType, MaybeName
<1>2. SpoutNames[slot[s].spout] \in Seq(Names)
  BY <1>1, NamingAssumption
<1>3. CASE Cardinality(registry) >= MaxSenders
  BY <1>1, <1>3 DEF SlotSend
<1>4. CASE ~(Cardinality(registry) >= MaxSenders)
  <2>1. /\ first # None
        /\ slot' = [slot EXCEPT ![s].up = TRUE, ![s].spout = first]
        /\ registry' = registry \cup {first}
    BY <1>4 DEF SlotSend
  <2>2. first \in Names /\ first \notin registry
    BY <1>2, <2>1, FirstFreeIsFree
  <2> QED
    BY <2>1, <2>2
<1> QED
  BY <1>3, <1>4

\* Every action preserves the types.
LEMMA NextType == LifeInv /\ [Next]_vars => TypeOK'
<1> SUFFICES ASSUME LifeInv, [Next]_vars PROVE TypeOK'
  OBVIOUS
<1> TypeOK
  BY DEF LifeInv
<1>maybe. None \in MaybeName /\ Names \subseteq MaybeName /\ MaybeName \ {None} \subseteq Names
  BY DEF MaybeName
<1>noRecord. NoRecord \in RecordType /\ DarkRecord \in RecordType
  BY <1>maybe DEF NoRecord, DarkRecord, RecordType
<1>noSlot. NoSlot \in SlotType
  BY <1>maybe DEF NoSlot, SlotType
<1>claim. ASSUME NEW s \in Sources, NEW verb \in {"stop", "remove", "format"},
                 Claim(s, verb)
          PROVE  TypeOK'
  <2>1. slot' \in [Sources -> SlotType]
    BY <1>claim DEF Claim, TypeOK, SlotType
  <2>2. main' \in MainType
    BY <1>claim, MainTypes DEF Claim
  <2> QED
    BY <1>claim, <2>1, <2>2 DEF Claim, TypeOK, graphicsVars, sessionVars
<1>drop. ASSUME NEW s \in Sources, DropRecord(s)
         PROVE  /\ reserved' \subseteq Names
                /\ rec' \in [Sources -> RecordType]
                /\ published' \in [Sources -> MaybeName]
  BY <1>drop, <1>noRecord, <1>maybe DEF DropRecord, TypeOK
<1>dark. ASSUME NEW s \in Sources,
                rec' = [rec EXCEPT ![s].live = FALSE, ![s].sender = None]
         PROVE  rec' \in [Sources -> RecordType]
  BY <1>dark, <1>maybe DEF TypeOK, RecordType
<1>1. ASSUME NEW s \in Sources, CreateSource(s) PROVE TypeOK'
  BY <1>1, <1>noRecord DEF CreateSource, TypeOK, engineVars, graphicsVars, sessionVars
<1>2. ASSUME NEW s \in Sources, CreateAndBroadcast(s) PROVE TypeOK'
  <2>1. main' \in MainType
    BY <1>2, MainTypes DEF CreateAndBroadcast
  <2>2. slot' \in [Sources -> SlotType] /\ reserved' \subseteq Names
    BY <1>2, <1>maybe, AttachType DEF CreateAndBroadcast
  <2> QED
    BY <1>2, <1>noRecord, <2>1, <2>2 DEF CreateAndBroadcast, TypeOK, graphicsVars, sessionVars
<1>3. ASSUME NEW s \in Sources, StartBroadcast(s) PROVE TypeOK'
  <2>1. main' \in MainType
    BY <1>3, MainTypes DEF StartBroadcast
  <2>2. rec[s].alloc \in MaybeName
    BY DEF TypeOK, RecordType
  <2>3. slot' \in [Sources -> SlotType] /\ reserved' \subseteq Names
    BY <1>3, <2>2, AttachType DEF StartBroadcast
  <2> QED
    BY <1>3, <2>1, <2>3 DEF StartBroadcast, TypeOK, graphicsVars, sessionVars
<1>4. ASSUME NEW s \in Sources, CaptureName(s) PROVE TypeOK'
  <2>1. slot[s].resolved \in MaybeName
    BY DEF TypeOK, SlotType
  <2>2. rec' \in [Sources -> RecordType]
    BY <1>4, <2>1, <1>maybe, ZenonT(60) DEF CaptureName, TypeOK, RecordType
  <2>3. main' \in MainType
    BY <1>4, MainTypes DEF CaptureName
  <2> QED
    BY <1>4, <2>2, <2>3 DEF CaptureName, TypeOK, engineVars, graphicsVars, sessionVars
<1>5. ASSUME NEW s \in Sources, StopBroadcast(s) \/ RemoveLiveSource(s) \/ SetSourceFormat(s)
      PROVE  TypeOK'
  BY <1>5, <1>claim DEF StopBroadcast, RemoveLiveSource, SetSourceFormat
<1>6. ASSUME NEW s \in Sources, FinishStop(s) PROVE TypeOK'
  <2>1. rec' \in [Sources -> RecordType] /\ main' \in MainType
    BY <1>6, <1>dark, MainTypes DEF FinishStop
  <2> QED
    BY <1>6, <2>1 DEF FinishStop, TypeOK, engineVars, graphicsVars, sessionVars
<1>7. ASSUME NEW s \in Sources, FinishRemove(s) PROVE TypeOK'
  <2>1. main' \in MainType
    BY <1>7, MainTypes DEF FinishRemove
  <2> QED
    BY <1>7, <1>drop, <2>1 DEF FinishRemove, TypeOK, graphicsVars, sessionVars
<1>8. ASSUME NEW s \in Sources, RemoveDarkSource(s) PROVE TypeOK'
  BY <1>8, <1>drop DEF RemoveDarkSource, TypeOK, graphicsVars, sessionVars
<1>9. ASSUME NEW s \in Sources, FinishFormat(s) PROVE TypeOK'
  <2>1. rec' \in [Sources -> RecordType] /\ main' \in MainType
    BY <1>9, <1>dark, MainTypes DEF FinishFormat
  <2>2. rec[s].alloc \in MaybeName
    BY DEF TypeOK, RecordType
  <2>3. slot' \in [Sources -> SlotType] /\ reserved' \subseteq Names
    BY <1>9, <2>2, AttachType DEF FinishFormat
  <2> QED
    BY <1>9, <2>1, <2>3 DEF FinishFormat, TypeOK, graphicsVars, sessionVars
<1>10. ASSUME NEW s \in Sources, FormatFails(s) PROVE TypeOK'
  <2>1. rec' \in [Sources -> RecordType] /\ main' \in MainType
    BY <1>10, <1>dark, MainTypes DEF FormatFails
  <2> QED
    BY <1>10, <2>1 DEF FormatFails, TypeOK, engineVars, graphicsVars, sessionVars
<1>11. CASE RefreshFromEngine
  <2>1. ASSUME NEW s \in Sources PROVE Refreshed(rec[s], slot[s]) \in RecordType
    BY DEF Refreshed, TypeOK, RecordType, SlotType
  <2> QED
    BY <1>11, <2>1 DEF RefreshFromEngine, TypeOK, engineVars, graphicsVars, sessionVars
<1>12. CASE BeginReload
  BY <1>12, MainTypes DEF BeginReload, TypeOK, graphicsVars, sessionVars
<1>13. ASSUME NEW profile \in SUBSET Sources, FinishReload(profile) PROVE TypeOK'
  <2>1. main' \in MainType
    BY <1>13, MainTypes DEF FinishReload
  <2> QED
    BY <1>13, <1>noRecord, <1>noSlot, <1>maybe, <2>1 DEF FinishReload, TypeOK, graphicsVars
<1>14. CASE FrameBegin
  BY <1>14 DEF FrameBegin, TypeOK, mainVars, engineVars, sessionVars
<1>15. ASSUME NEW s \in Sources, SlotInit(s) PROVE TypeOK'
  <2> DEFINE name == FirstFree(SpoutNames[slot[s].resolved], registry)
  <2>1. slot[s].resolved \in Names
    BY <1>15, <1>maybe DEF SlotInit, LifeInv, FrameInv, SlotInv, TypeOK, SlotType
  <2>2. SpoutNames[slot[s].resolved] \in Seq(Names)
    BY <2>1, NamingAssumption
  <2>3. name \in MaybeName /\ slot' = [slot EXCEPT ![s].spout = name]
    BY <1>15, <1>maybe, <2>2, FirstFreeIsFree DEF SlotInit
  <2>4. slot' \in [Sources -> SlotType]
    <3> HIDE DEF name
    <3> QED  BY <2>3 DEF TypeOK, SlotType
  <2> QED
    BY <1>15, <2>4 DEF SlotInit, TypeOK, mainVars, graphicsVars, sessionVars
<1>16. ASSUME NEW s \in Sources, SlotInitFails(s) PROVE TypeOK'
  <2>1. slot' \in [Sources -> SlotType]
    BY <1>16 DEF SlotInitFails, TypeOK, SlotType
  <2> QED
    BY <1>16, <2>1 DEF SlotInitFails, RenderDone, TypeOK, mainVars, sessionVars
<1>17. ASSUME NEW s \in Sources, SlotSkip(s) PROVE TypeOK'
  BY <1>17 DEF SlotSkip, RenderDone, TypeOK, mainVars, engineVars, sessionVars
<1>18. ASSUME NEW s \in Sources, SlotSend(s) PROVE TypeOK'
  <2>1. CASE slot[s].up
    BY <1>18, <2>1 DEF SlotSend, TypeOK, mainVars
  <2>2. CASE ~slot[s].up
    <3>1. PICK n \in Names :
            /\ slot' = [slot EXCEPT ![s].up = TRUE, ![s].spout = n]
            /\ registry' = registry \/ registry' = registry \cup {n}
      BY <1>18, <2>2, SendOutcome
    <3>2. slot' \in [Sources -> SlotType]
      BY <3>1, <1>maybe, ZenonT(60) DEF TypeOK, SlotType
    <3> QED
      BY <1>18, <3>1, <3>2 DEF SlotSend, TypeOK, mainVars
  <2> QED
    BY <2>1, <2>2
<1>19. ASSUME NEW s \in Sources, SlotCommit(s) PROVE TypeOK'
  <2>1. slot[s].spout \in Names
    BY <1>19, <1>maybe, NoneAssumption DEF SlotCommit, LifeInv, FrameInv, TypeOK, SlotType
  <2>2. slot' \in [Sources -> SlotType]
    BY <1>19, <2>1, <1>maybe DEF SlotCommit, TypeOK, SlotType
  <2>3. reserved' \subseteq Names /\ published' \in [Sources -> MaybeName]
    BY <1>19, <2>1, <1>maybe DEF SlotCommit, Rebind, TypeOK
  <2> QED
    BY <1>19, <2>2, <2>3 DEF SlotCommit, RenderDone, TypeOK, mainVars, sessionVars
<1>20. ASSUME NEW s \in Sources, Teardown(s) PROVE TypeOK'
  BY <1>20, <1>noSlot DEF Teardown, TypeOK, mainVars, graphicsVars, sessionVars
<1>21. ASSUME NEW n \in ForeignNames, ForeignRegister(n) \/ ForeignRelease(n) PROVE TypeOK'
  BY <1>21, NamingAssumption DEF ForeignRegister, ForeignRelease, TypeOK, mainVars,
     engineVars, graphicsVars
<1>22. CASE UNCHANGED vars
  BY <1>22 DEF vars, TypeOK, mainVars, engineVars, graphicsVars, sessionVars
<1> QED
  BY <1>1, <1>2, <1>3, <1>4, <1>5, <1>6, <1>7, <1>8, <1>9, <1>10, <1>11, <1>12,
     <1>13, <1>14, <1>15, <1>16, <1>17, <1>18, <1>19, <1>20, <1>21, <1>22
  DEF Next, MainStep, VerbStep, GraphicsStep

-----------------------------------------------------------------------------
(***************************************************************************)
(* LifeInv: where the threads are against the records and slots.           *)
(***************************************************************************)

LEMMA InitLife == Init => LifeInv
BY InitType, NoneAssumption DEF Init, LifeInv, MainInv, SlotInv, FrameInv, NoRecord, NoSlot,
   InVerb, Detaching

\* A graphics step that keeps every phase keeps MainInv.
LEMMA PhasesKeepMain ==
  ASSUME MainInv, UNCHANGED <<rec, main>>,
         \A t \in Sources : slot'[t].phase = slot[t].phase,
         \A t \in Sources : published'[t] = published[t] \/ slot[t].phase # "none"
  PROVE  MainInv'
BY DEF MainInv, InVerb

\* attach() touches one slot, and leaves it with a name and no sender.
LEMMA AttachEffect ==
  ASSUME TypeOK, NEW s \in Sources, NEW sticky \in MaybeName, Attach(s, sticky)
  PROVE  /\ slot'[s].phase = "attached" /\ slot'[s].resolved = ResolvedName(s, sticky)
         /\ slot'[s].resolved # None
         /\ slot'[s].spout = None /\ slot'[s].actual = None /\ ~slot'[s].up
         /\ \A t \in Sources : t # s => slot'[t] = slot[t]
         /\ reserved' = reserved \cup {ResolvedName(s, sticky)}
<1> DEFINE name == ResolvedName(s, sticky)
<1>1. name # None /\ slot' = [slot EXCEPT ![s] = NewSlot(name)]
      /\ reserved' = reserved \cup {name}
  BY DEF Attach
<1>2. slot'[s] = NewSlot(name) /\ \A t \in Sources : t # s => slot'[t] = slot[t]
  BY <1>1 DEF TypeOK
<1> HIDE DEF name
<1>3. /\ NewSlot(name).phase = "attached" /\ NewSlot(name).resolved = name
      /\ NewSlot(name).spout = None /\ NewSlot(name).actual = None /\ ~NewSlot(name).up
  BY DEF NewSlot, NoSlot
<1> QED
  BY <1>1, <1>2, <1>3 DEF name

\* What an absent and a dark record say.
LEMMA RecordFields ==
  /\ ~NoRecord.here /\ ~NoRecord.live /\ NoRecord.alloc = None
  /\ DarkRecord.here /\ ~DarkRecord.live /\ DarkRecord.alloc = None
BY DEF NoRecord, DarkRecord

\* Each step of a verb keeps the main thread in line with record and slot.
LEMMA MainNext == LifeInv /\ [Next]_vars => MainInv'
<1> SUFFICES ASSUME LifeInv, [Next]_vars PROVE MainInv'
  OBVIOUS
<1> TypeOK /\ MainInv /\ SlotInv /\ FrameInv
  BY DEF LifeInv
<1> USE NoneAssumption DEF InVerb, Detaching
<1>attach. ASSUME NEW s \in Sources, NEW sticky \in MaybeName, Attach(s, sticky),
                  ToVerb("capture", s), slot[s].phase = "none",
                  rec'[s].here, ~rec'[s].live, rec'[s].alloc = rec[s].alloc,
                  \A t \in Sources : t # s => rec'[t] = rec[t],
                  main.op = "idle" \/ main.src = s, UNCHANGED published
           PROVE  MainInv'
  BY <1>attach, AttachEffect DEF MainInv, ToVerb
<1>claim. ASSUME NEW s \in Sources, NEW verb \in {"stop", "remove", "format"},
                 Claim(s, verb)
          PROVE  MainInv'
  <2>1. /\ slot'[s].phase = "claimed"
        /\ \A t \in Sources : t # s => slot'[t] = slot[t]
    BY <1>claim DEF Claim, TypeOK, SlotType
  <2>2. rec' = rec /\ published' = published /\ main.op = "idle" /\ rec[s].live
    BY <1>claim DEF Claim, Idle
  <2>3. main'.op = verb /\ main'.src = s
    BY <1>claim DEF Claim, ToVerb
  <2> QED
    BY <2>1, <2>2, <2>3 DEF MainInv
<1>1. ASSUME NEW s \in Sources, CreateSource(s) PROVE MainInv'
  BY <1>1 DEF CreateSource, MainInv, DarkRecord, NoRecord, TypeOK, engineVars, Idle
<1>2. ASSUME NEW s \in Sources, CreateAndBroadcast(s) PROVE MainInv'
  <2>1. rec'[s] = DarkRecord /\ \A t \in Sources : t # s => rec'[t] = rec[t]
    BY <1>2 DEF CreateAndBroadcast, TypeOK
  <2>2. slot[s].phase = "none" /\ rec[s] = NoRecord
    BY <1>2 DEF CreateAndBroadcast, MainInv
  <2>3. None \in MaybeName
    BY DEF MaybeName
  <2> QED
    BY <1>2, <1>attach, <2>1, <2>2, <2>3, RecordFields DEF CreateAndBroadcast, Idle
<1>3. ASSUME NEW s \in Sources, StartBroadcast(s) PROVE MainInv'
  <2>1. rec' = rec /\ rec[s].here /\ ~rec[s].live /\ main.op = "idle"
    BY <1>3 DEF StartBroadcast, Idle
  <2>2. slot[s].phase = "none" /\ rec[s].alloc \in MaybeName
    BY <2>1 DEF MainInv, TypeOK, SlotType, RecordType
  <2> QED
    BY <1>3, <1>attach, <2>1, <2>2 DEF StartBroadcast
<1>4. ASSUME NEW s \in Sources, CaptureName(s) PROVE MainInv'
  <2>1. /\ rec'[s].here = rec[s].here /\ rec'[s].live /\ rec'[s].alloc = slot[s].resolved
        /\ \A t \in Sources : t # s => rec'[t] = rec[t]
    BY <1>4 DEF CaptureName, TypeOK, RecordType
  <2>2. main.op = "capture" /\ main.src = s /\ main'.op = "idle" /\ main'.src = None
    BY <1>4 DEF CaptureName, ToIdle
  <2>3. UNCHANGED <<slot, published>>
    BY <1>4 DEF CaptureName, engineVars
  <2>4. rec[s].here /\ slot[s].phase = "attached" /\ slot[s].resolved # None
    BY <2>2 DEF MainInv, SlotInv
  <2> QED
    <3>1. ASSUME NEW t \in Sources, t # s
          PROVE  /\ slot[t].phase = "attached" => rec[t].live
                 /\ slot[t].phase # "claimed"
                 /\ ~(rec[t].live /\ slot[t].phase = "none")
      BY <2>2, <3>1 DEF MainInv
    <3>2. /\ rec'[s].here /\ rec'[s].live /\ rec'[s].alloc # None
          /\ slot'[s].phase = "attached"
      BY <2>1, <2>3, <2>4
    <3> QED
      BY <2>1, <2>2, <2>3, <3>1, <3>2 DEF MainInv
<1>5. ASSUME NEW s \in Sources, StopBroadcast(s) \/ RemoveLiveSource(s) \/ SetSourceFormat(s)
      PROVE  MainInv'
  BY <1>5, <1>claim DEF StopBroadcast, RemoveLiveSource, SetSourceFormat
<1>6. ASSUME NEW s \in Sources, FinishStop(s) PROVE MainInv'
  <2>1. /\ rec'[s].here = rec[s].here /\ rec'[s].alloc = rec[s].alloc /\ ~rec'[s].live
        /\ \A t \in Sources : t # s => rec'[t] = rec[t]
    BY <1>6 DEF FinishStop, TypeOK, RecordType
  <2>2. main.op = "stop" /\ main.src = s /\ main'.op = "idle" /\ main'.src = None
    BY <1>6 DEF FinishStop, ToIdle
  <2>3. slot[s].phase = "none" /\ UNCHANGED <<slot, published>>
    BY <1>6 DEF FinishStop, TornDown, engineVars
  <2> QED
    BY <2>1, <2>2, <2>3 DEF MainInv
<1>7. ASSUME NEW s \in Sources, FinishRemove(s) PROVE MainInv'
  <2>1. /\ rec'[s] = NoRecord /\ published'[s] = None
        /\ \A t \in Sources : t # s => rec'[t] = rec[t] /\ published'[t] = published[t]
    BY <1>7 DEF FinishRemove, DropRecord, TypeOK
  <2>2. main.op = "remove" /\ main.src = s /\ main'.op = "idle" /\ main'.src = None
    BY <1>7 DEF FinishRemove, ToIdle
  <2>3. slot[s].phase = "none" /\ slot' = slot
    BY <1>7 DEF FinishRemove, TornDown
  <2> QED
    BY <2>1, <2>2, <2>3, RecordFields DEF MainInv
<1>8. ASSUME NEW s \in Sources, RemoveDarkSource(s) PROVE MainInv'
  <2>1. /\ rec'[s] = NoRecord /\ published'[s] = None
        /\ \A t \in Sources : t # s => rec'[t] = rec[t] /\ published'[t] = published[t]
    BY <1>8 DEF RemoveDarkSource, DropRecord, TypeOK
  <2>2. main.op = "idle" /\ main' = main /\ slot' = slot /\ ~rec[s].live
    BY <1>8 DEF RemoveDarkSource, Idle
  <2>3. slot[s].phase = "none"
    BY <2>2 DEF MainInv, TypeOK, SlotType
  <2> QED
    BY <2>1, <2>2, <2>3, RecordFields DEF MainInv
<1>9. ASSUME NEW s \in Sources, FinishFormat(s) PROVE MainInv'
  <2>1. /\ rec'[s].here = rec[s].here /\ rec'[s].alloc = rec[s].alloc /\ ~rec'[s].live
        /\ \A t \in Sources : t # s => rec'[t] = rec[t]
    BY <1>9 DEF FinishFormat, TypeOK, RecordType
  <2>2. main.op = "format" /\ main.src = s /\ slot[s].phase = "none" /\ rec[s].here
    BY <1>9 DEF FinishFormat, TornDown, MainInv
  <2>3. rec[s].alloc \in MaybeName
    BY DEF TypeOK, RecordType
  <2> QED
    BY <1>9, <1>attach, <2>1, <2>2, <2>3 DEF FinishFormat
<1>10. ASSUME NEW s \in Sources, FormatFails(s) PROVE MainInv'
  <2>1. /\ rec'[s].here = rec[s].here /\ rec'[s].alloc = rec[s].alloc /\ ~rec'[s].live
        /\ \A t \in Sources : t # s => rec'[t] = rec[t]
    BY <1>10 DEF FormatFails, TypeOK, RecordType
  <2>2. main.op = "format" /\ main.src = s /\ main'.op = "idle" /\ main'.src = None
    BY <1>10 DEF FormatFails, ToIdle
  <2>3. slot[s].phase = "none" /\ UNCHANGED <<slot, published>>
    BY <1>10 DEF FormatFails, TornDown, engineVars
  <2> QED
    BY <2>1, <2>2, <2>3 DEF MainInv
<1>11. CASE RefreshFromEngine
  <2>1. \A t \in Sources : /\ rec'[t].here = rec[t].here /\ rec'[t].live = rec[t].live
                           /\ ~rec[t].live => rec'[t] = rec[t]
                           /\ rec[t].live => rec'[t].alloc # None
    <3>1. SUFFICES ASSUME NEW t \in Sources
          PROVE  /\ rec'[t].here = rec[t].here /\ rec'[t].live = rec[t].live
                 /\ ~rec[t].live => rec'[t] = rec[t]
                 /\ rec[t].live => rec'[t].alloc # None
      OBVIOUS
    <3>2. CASE rec[t].live /\ slot[t].phase = "attached"
      <4>1. rec'[t] = Refreshed(rec[t], slot[t])
        BY <1>11, <3>2 DEF RefreshFromEngine
      <4>2. rec[t] \in RecordType /\ slot[t].resolved # None
        BY <3>2 DEF TypeOK, SlotInv
      <4> QED
        BY <3>2, <4>1, <4>2 DEF Refreshed, RecordType
    <3>3. CASE ~(rec[t].live /\ slot[t].phase = "attached")
      BY <1>11, <3>3 DEF RefreshFromEngine, MainInv
    <3> QED
      BY <3>2, <3>3
  <2>2. UNCHANGED <<main, slot, published>>
    BY <1>11 DEF RefreshFromEngine, engineVars
  <2> QED
    BY <2>1, <2>2 DEF MainInv
<1>12. CASE BeginReload
  BY <1>12 DEF BeginReload, ToVerb, Idle, MainInv
<1>13. ASSUME NEW profile \in SUBSET Sources, FinishReload(profile) PROVE MainInv'
  BY <1>13 DEF FinishReload, NoSlot, NoRecord, DarkRecord, ToIdle, MainInv
<1>14. CASE FrameBegin
  BY <1>14, PhasesKeepMain DEF FrameBegin, mainVars, engineVars
<1>15. ASSUME NEW s \in Sources, SlotInit(s) \/ SlotInitFails(s) PROVE MainInv'
  <2>1. \A t \in Sources : slot'[t].phase = slot[t].phase
    BY <1>15 DEF SlotInit, SlotInitFails, TypeOK, SlotType
  <2> QED
    BY <1>15, <2>1, PhasesKeepMain DEF SlotInit, SlotInitFails, mainVars
<1>17. ASSUME NEW s \in Sources, SlotSkip(s) PROVE MainInv'
  BY <1>17, PhasesKeepMain DEF SlotSkip, mainVars, engineVars
<1>18. ASSUME NEW s \in Sources, SlotSend(s) PROVE MainInv'
  <2>1. \A t \in Sources : slot'[t].phase = slot[t].phase
    <3>1. CASE slot[s].up
      BY <1>18, <3>1 DEF SlotSend
    <3>2. CASE ~slot[s].up
      <4>1. PICK n \in Names : slot' = [slot EXCEPT ![s].up = TRUE, ![s].spout = n]
        BY <1>18, <3>2, SendOutcome
      <4> QED
        BY <4>1 DEF TypeOK, SlotType
    <3> QED
      BY <3>1, <3>2
  <2> QED
    BY <1>18, <2>1, PhasesKeepMain DEF SlotSend, mainVars
<1>19. ASSUME NEW s \in Sources, SlotCommit(s) PROVE MainInv'
  <2>1. slot[s].phase # "none"
    BY <1>19 DEF SlotCommit, FrameInv
  <2>2. \A t \in Sources : slot'[t].phase = slot[t].phase
    BY <1>19 DEF SlotCommit, TypeOK, SlotType
  <2>3. \A t \in Sources : published'[t] = published[t] \/ slot[t].phase # "none"
    BY <1>19, <2>1 DEF SlotCommit, TypeOK
  <2> QED
    BY <1>19, <2>2, <2>3, PhasesKeepMain DEF SlotCommit, mainVars
<1>20. ASSUME NEW s \in Sources, Teardown(s) PROVE MainInv'
  <2>1. slot'[s].phase = "none" /\ \A t \in Sources : t # s => slot'[t] = slot[t]
    BY <1>20 DEF Teardown, TypeOK, NoSlot
  <2> QED
    BY <1>20, <2>1 DEF Teardown, mainVars, MainInv
<1>21. ASSUME NEW n \in ForeignNames, ForeignRegister(n) \/ ForeignRelease(n) PROVE MainInv'
  BY <1>21, PhasesKeepMain DEF ForeignRegister, ForeignRelease, mainVars, engineVars
<1>22. CASE UNCHANGED vars
  BY <1>22, PhasesKeepMain DEF vars, mainVars, engineVars
<1> QED
  BY <1>1, <1>2, <1>3, <1>4, <1>5, <1>6, <1>7, <1>8, <1>9, <1>10, <1>11, <1>12,
     <1>13, <1>14, <1>15, <1>17, <1>18, <1>19, <1>20, <1>21, <1>22
  DEF Next, MainStep, VerbStep, GraphicsStep

\* A registered slot keeps its sender, and a freed one is never in a frame.
LEMMA SlotFrameNext == LifeInv /\ [Next]_vars => SlotInv' /\ FrameInv'
<1> SUFFICES ASSUME LifeInv, [Next]_vars PROVE SlotInv' /\ FrameInv'
  OBVIOUS
<1> TypeOK /\ MainInv /\ SlotInv /\ FrameInv
  BY DEF LifeInv
<1> USE NoneAssumption
<1>noSlot. /\ NoSlot.phase = "none" /\ NoSlot.spout = None /\ NoSlot.resolved = None
           /\ NoSlot.actual = None /\ ~NoSlot.up
  BY DEF NoSlot
<1>attach. ASSUME NEW s \in Sources, NEW sticky \in MaybeName, Attach(s, sticky),
                  slot[s].phase = "none", UNCHANGED <<frame, sent>>
           PROVE  SlotInv' /\ FrameInv'
  <2>1. s \notin frame /\ sent # s
    BY <1>attach DEF FrameInv
  <2> QED
    BY <1>attach, <2>1, AttachEffect DEF SlotInv, FrameInv, TypeOK
<1>still. ASSUME UNCHANGED <<slot, frame, sent>>
          PROVE  SlotInv' /\ FrameInv'
  BY <1>still DEF SlotInv, FrameInv
<1>one. ASSUME NEW s \in Sources, UNCHANGED sent, frame' \subseteq frame, sent # None => frame' = frame,
               \A t \in Sources : t # s => slot'[t] = slot[t],
               slot'[s].phase # "none", slot'[s].resolved # None,
               slot'[s].up => slot'[s].spout # None,
               slot[s].spout # None => slot'[s].spout # None
        PROVE  SlotInv' /\ FrameInv'
  BY <1>one DEF SlotInv, FrameInv, TypeOK
<1>claim. ASSUME NEW s \in Sources, NEW verb \in {"stop", "remove", "format"}, Claim(s, verb)
          PROVE  SlotInv' /\ FrameInv'
  <2>1. /\ slot'[s].phase = "claimed" /\ slot'[s].resolved = slot[s].resolved
        /\ slot'[s].spout = slot[s].spout /\ slot'[s].up = slot[s].up
        /\ \A t \in Sources : t # s => slot'[t] = slot[t]
    BY <1>claim DEF Claim, TypeOK, SlotType
  <2>2. slot[s].phase # "none"
    BY <1>claim DEF Claim, MainInv, Idle, Detaching
  <2> QED
    BY <1>claim, <1>one, <2>1, <2>2 DEF Claim, graphicsVars, SlotInv
<1>1. ASSUME NEW s \in Sources, CreateSource(s) PROVE SlotInv' /\ FrameInv'
  BY <1>1, <1>still DEF CreateSource, engineVars, graphicsVars
<1>2. ASSUME NEW s \in Sources, CreateAndBroadcast(s) PROVE SlotInv' /\ FrameInv'
  <2>1. slot[s].phase = "none" /\ None \in MaybeName
    BY <1>2 DEF CreateAndBroadcast, MainInv, MaybeName
  <2> QED
    BY <1>2, <1>attach, <2>1 DEF CreateAndBroadcast, graphicsVars
<1>3. ASSUME NEW s \in Sources, StartBroadcast(s) PROVE SlotInv' /\ FrameInv'
  <2>1. slot[s].phase = "none" /\ rec[s].alloc \in MaybeName
    BY <1>3 DEF StartBroadcast, MainInv, Idle, InVerb, Detaching, TypeOK, SlotType, RecordType
  <2> QED
    BY <1>3, <1>attach, <2>1 DEF StartBroadcast, graphicsVars
<1>4. ASSUME NEW s \in Sources,
             CaptureName(s) \/ FinishStop(s) \/ FinishRemove(s) \/ RemoveDarkSource(s) \/ FormatFails(s)
      PROVE SlotInv' /\ FrameInv'
  BY <1>4, <1>still DEF CaptureName, FinishStop, FinishRemove, RemoveDarkSource, FormatFails,
     engineVars, graphicsVars
<1>5. ASSUME NEW s \in Sources, StopBroadcast(s) \/ RemoveLiveSource(s) \/ SetSourceFormat(s)
      PROVE  SlotInv' /\ FrameInv'
  BY <1>5, <1>claim DEF StopBroadcast, RemoveLiveSource, SetSourceFormat
<1>9. ASSUME NEW s \in Sources, FinishFormat(s) PROVE SlotInv' /\ FrameInv'
  <2>1. slot[s].phase = "none" /\ rec[s].alloc \in MaybeName
    BY <1>9 DEF FinishFormat, TornDown, TypeOK, RecordType
  <2> QED
    BY <1>9, <1>attach, <2>1 DEF FinishFormat, graphicsVars
<1>11. CASE RefreshFromEngine \/ BeginReload
  BY <1>11, <1>still DEF RefreshFromEngine, BeginReload, engineVars, graphicsVars
<1>13. ASSUME NEW profile \in SUBSET Sources, FinishReload(profile) PROVE SlotInv' /\ FrameInv'
  BY <1>13, <1>noSlot DEF FinishReload, FrameOver, graphicsVars, SlotInv, FrameInv
<1>14. CASE FrameBegin
  <2>1. /\ frame' = {s \in Sources : slot[s].phase = "attached" /\ ~slot[s].failed}
        /\ UNCHANGED <<slot, sent>> /\ sent = None
    BY <1>14 DEF FrameBegin, FrameOver, engineVars
  <2>2. \A s \in frame' : slot[s].phase # "none"
    BY <2>1
  <2> QED
    BY <2>1, <2>2 DEF SlotInv, FrameInv
<1>15. ASSUME NEW s \in Sources, SlotInit(s) PROVE SlotInv' /\ FrameInv'
  <2>1. s \in frame /\ UNCHANGED <<frame, sent>>
    BY <1>15 DEF SlotInit, graphicsVars
  <2>2. PICK n : n # None /\ slot' = [slot EXCEPT ![s].spout = n]
    BY <1>15 DEF SlotInit
  <2>3. /\ slot'[s].phase = slot[s].phase /\ slot'[s].resolved = slot[s].resolved
        /\ slot'[s].spout # None
        /\ \A t \in Sources : t # s => slot'[t] = slot[t]
    BY <2>2 DEF TypeOK, SlotType
  <2> QED
    BY <1>one, <2>1, <2>3 DEF SlotInv, FrameInv
<1>16. ASSUME NEW s \in Sources, SlotInitFails(s) PROVE SlotInv' /\ FrameInv'
  <2>1. s \in frame /\ sent' = sent /\ sent = None /\ frame' \subseteq frame
    BY <1>16 DEF SlotInitFails, RenderDone
  <2>2. /\ slot'[s].phase = slot[s].phase /\ slot'[s].resolved = slot[s].resolved
        /\ slot'[s].spout = slot[s].spout /\ slot'[s].up = slot[s].up
        /\ \A t \in Sources : t # s => slot'[t] = slot[t]
    BY <1>16 DEF SlotInitFails, TypeOK, SlotType
  <2> QED
    BY <1>one, <2>1, <2>2 DEF SlotInv, FrameInv
<1>17. ASSUME NEW s \in Sources, SlotSkip(s) PROVE SlotInv' /\ FrameInv'
  BY <1>17 DEF SlotSkip, RenderDone, engineVars, SlotInv, FrameInv
<1>18. ASSUME NEW s \in Sources, SlotSend(s) PROVE SlotInv' /\ FrameInv'
  <2>1. s \in frame /\ frame' = frame /\ sent' = s /\ slot[s].spout # None
    BY <1>18 DEF SlotSend
  <2>2. CASE slot[s].up
    BY <1>18, <2>1, <2>2 DEF SlotSend, SlotInv, FrameInv
  <2>3. CASE ~slot[s].up
    <3>1. PICK n \in Names : slot' = [slot EXCEPT ![s].up = TRUE, ![s].spout = n]
      BY <1>18, <2>3, SendOutcome
    <3>2. /\ slot'[s].phase = slot[s].phase /\ slot'[s].resolved = slot[s].resolved
          /\ slot'[s].spout # None
          /\ \A t \in Sources : t # s => slot'[t] = slot[t]
      BY <3>1 DEF TypeOK, SlotType
    <3> QED
      BY <2>1, <3>2 DEF SlotInv, FrameInv, TypeOK
  <2> QED
    BY <2>2, <2>3
<1>19. ASSUME NEW s \in Sources, SlotCommit(s) PROVE SlotInv' /\ FrameInv'
  <2>1. s \in frame /\ sent' = None /\ frame' \subseteq frame /\ slot[s].spout # None
    BY <1>19 DEF SlotCommit, RenderDone, FrameInv
  <2>2. /\ slot'[s].phase = slot[s].phase /\ slot'[s].spout = slot[s].spout
        /\ slot'[s].resolved \in {slot[s].resolved, slot[s].spout}
        /\ \A t \in Sources : t # s => slot'[t] = slot[t]
    BY <1>19 DEF SlotCommit, TypeOK, SlotType
  <2> QED
    BY <2>1, <2>2 DEF SlotInv, FrameInv, TypeOK
<1>20. ASSUME NEW s \in Sources, Teardown(s) PROVE SlotInv' /\ FrameInv'
  <2>1. slot'[s] = NoSlot /\ \A t \in Sources : t # s => slot'[t] = slot[t]
    BY <1>20 DEF Teardown, TypeOK
  <2>2. frame' = {} /\ sent' = None
    BY <1>20 DEF Teardown, FrameOver, graphicsVars
  <2> QED
    BY <1>noSlot, <2>1, <2>2 DEF SlotInv, FrameInv
<1>21. ASSUME NEW n \in ForeignNames, ForeignRegister(n) \/ ForeignRelease(n)
       PROVE  SlotInv' /\ FrameInv'
  BY <1>21, <1>still DEF ForeignRegister, ForeignRelease, engineVars, graphicsVars
<1>22. CASE UNCHANGED vars
  BY <1>22, <1>still DEF vars, engineVars, graphicsVars
<1> QED
  BY <1>1, <1>2, <1>3, <1>4, <1>5, <1>9, <1>11, <1>13, <1>14, <1>15, <1>16, <1>17,
     <1>18, <1>19, <1>20, <1>21, <1>22
  DEF Next, MainStep, VerbStep, GraphicsStep

LEMMA LifeInvariant == Spec => []LifeInv
<1>1. LifeInv /\ [Next]_vars => LifeInv'
  BY NextType, MainNext, SlotFrameNext DEF LifeInv
<1> QED
  BY InitLife, <1>1, PTL DEF Spec

\* Every record, slot and set of names keeps its type, whatever the other
\* processes of the session do.
THEOREM TypeCorrect == Spec => []TypeOK
<1>1. LifeInv => TypeOK
  BY DEF LifeInv
<1> QED
  BY <1>1, LifeInvariant, PTL

\* No slot is freed while the frame in flight can still reach it, for any
\* number of sources and whatever the other processes do.
THEOREM NoDanglingSlotCorrect == Spec => []NoDanglingSlot
<1>1. LifeInv => NoDanglingSlot
  BY DEF LifeInv, FrameInv, NoDanglingSlot
<1> QED
  BY <1>1, LifeInvariant, PTL

-----------------------------------------------------------------------------
(***************************************************************************)
(* AnnounceInv and RoomInv: what is announced and what is registered, with *)
(* other processes at work on the same registry.  The argument: a sender   *)
(* that is up never changes its name, the name is read back only from it,  *)
(* and only its own teardown takes it off the air.                         *)
(***************************************************************************)

\* Nobody goes on or off the air, reads a name back or touches the registry.
SameOnAir ==
  /\ \A t \in Sources :
       /\ slot'[t].up <=> slot[t].up
       /\ slot'[t].actual = slot[t].actual
       /\ slot[t].up => slot'[t].spout = slot[t].spout
  /\ registry' = registry /\ foreign' = foreign /\ sent' = sent

\* The steps that may do one of these things.
OnAirStep ==
  \/ \E s \in Sources : SlotSend(s) \/ SlotCommit(s) \/ Teardown(s)
  \/ \E profile \in SUBSET Sources : FinishReload(profile)
  \/ \E n \in ForeignNames : ForeignRegister(n) \/ ForeignRelease(n)

\* The fields of a slot nobody attached, and of one just attached.
LEMMA EmptySlot == NoSlot.phase = "none" /\ NoSlot.actual = None /\ ~NoSlot.up
BY DEF NoSlot

\* Any other step leaves the air as it is.
LEMMA OnAirSteps == LifeInv /\ [Next]_vars => SameOnAir \/ OnAirStep
<1> SUFFICES ASSUME LifeInv, [Next]_vars, ~OnAirStep PROVE SameOnAir
  OBVIOUS
<1> TypeOK /\ MainInv /\ SlotInv /\ FrameInv
  BY DEF LifeInv
<1>same. ASSUME UNCHANGED <<slot, registry, foreign, sent>> PROVE SameOnAir
  BY <1>same DEF SameOnAir
<1>attach. ASSUME NEW s \in Sources, NEW sticky \in MaybeName, Attach(s, sticky),
                  slot[s].phase = "none", UNCHANGED <<registry, foreign, sent>>
           PROVE  SameOnAir
  <2>1. slot[s].actual = None /\ ~slot[s].up
    BY <1>attach, EmptySlot DEF SlotInv
  <2>2. /\ slot'[s].actual = None /\ ~slot'[s].up
        /\ \A t \in Sources : t # s => slot'[t] = slot[t]
    BY <1>attach, AttachEffect
  <2> QED
    BY <1>attach, <2>1, <2>2 DEF SameOnAir
<1>claim. ASSUME NEW s \in Sources, NEW verb \in {"stop", "remove", "format"}, Claim(s, verb)
          PROVE  SameOnAir
  BY <1>claim DEF Claim, SameOnAir, TypeOK, SlotType, graphicsVars, sessionVars
<1>1. ASSUME NEW s \in Sources, CreateSource(s) PROVE SameOnAir
  BY <1>1, <1>same DEF CreateSource, engineVars, graphicsVars, sessionVars
<1>2. ASSUME NEW s \in Sources, CreateAndBroadcast(s) PROVE SameOnAir
  <2>1. slot[s].phase = "none" /\ None \in MaybeName
    BY <1>2 DEF CreateAndBroadcast, MainInv, MaybeName
  <2> QED
    BY <1>2, <1>attach, <2>1 DEF CreateAndBroadcast, graphicsVars, sessionVars
<1>3. ASSUME NEW s \in Sources, StartBroadcast(s) PROVE SameOnAir
  <2>1. slot[s].phase = "none" /\ rec[s].alloc \in MaybeName
    BY <1>3 DEF StartBroadcast, MainInv, Idle, InVerb, Detaching, TypeOK, SlotType, RecordType
  <2> QED
    BY <1>3, <1>attach, <2>1 DEF StartBroadcast, graphicsVars, sessionVars
<1>4. ASSUME NEW s \in Sources,
             CaptureName(s) \/ FinishStop(s) \/ FinishRemove(s) \/ RemoveDarkSource(s) \/ FormatFails(s)
      PROVE  SameOnAir
  BY <1>4, <1>same DEF CaptureName, FinishStop, FinishRemove, RemoveDarkSource, FormatFails,
     engineVars, graphicsVars, sessionVars
<1>5. ASSUME NEW s \in Sources, StopBroadcast(s) \/ RemoveLiveSource(s) \/ SetSourceFormat(s)
      PROVE  SameOnAir
  BY <1>5, <1>claim DEF StopBroadcast, RemoveLiveSource, SetSourceFormat
<1>6. ASSUME NEW s \in Sources, FinishFormat(s) PROVE SameOnAir
  <2>1. slot[s].phase = "none" /\ rec[s].alloc \in MaybeName
    BY <1>6 DEF FinishFormat, TornDown, TypeOK, RecordType
  <2> QED
    BY <1>6, <1>attach, <2>1 DEF FinishFormat, graphicsVars, sessionVars
<1>7. CASE RefreshFromEngine \/ BeginReload
  BY <1>7, <1>same DEF RefreshFromEngine, BeginReload, engineVars, graphicsVars, sessionVars
<1>8. CASE FrameBegin
  BY <1>8, <1>same DEF FrameBegin, engineVars, sessionVars
<1>9. ASSUME NEW s \in Sources, SlotInit(s) PROVE SameOnAir
  <2>1. slot[s].spout = None /\ ~slot[s].up
    BY <1>9 DEF SlotInit, SlotInv
  <2>2. PICK n : slot' = [slot EXCEPT ![s].spout = n]
    BY <1>9 DEF SlotInit
  <2> QED
    BY <1>9, <2>1, <2>2 DEF SlotInit, SameOnAir, TypeOK, SlotType, graphicsVars, sessionVars
<1>10. ASSUME NEW s \in Sources, SlotInitFails(s) PROVE SameOnAir
  BY <1>10 DEF SlotInitFails, SameOnAir, TypeOK, SlotType, sessionVars
<1>11. ASSUME NEW s \in Sources, SlotSkip(s) PROVE SameOnAir
  BY <1>11, <1>same DEF SlotSkip, engineVars, sessionVars
<1>12. CASE UNCHANGED vars
  BY <1>12, <1>same DEF vars, engineVars, graphicsVars, sessionVars
<1> QED
  BY <1>1, <1>2, <1>3, <1>4, <1>5, <1>6, <1>7, <1>8, <1>9, <1>10, <1>11, <1>12
  DEF Next, MainStep, VerbStep, GraphicsStep, OnAirStep

\* What a frame's send does to the air: one sender goes up under a name, and
\* registers it if it was not registered.
LEMMA SendEffect ==
  ASSUME LifeInv, NEW s \in Sources, SlotSend(s)
  PROVE  /\ \A t \in Sources : t # s => slot'[t] = slot[t]
         /\ slot'[s].up /\ slot'[s].phase = slot[s].phase
         /\ slot'[s].actual = slot[s].actual
         /\ slot[s].up => slot' = slot /\ registry' = registry
         /\ \/ registry' = registry
            \/ /\ slot'[s].spout \notin registry
               /\ registry' = registry \cup {slot'[s].spout}
         /\ foreign' = foreign /\ sent' = s /\ rec' = rec
<1> TypeOK
  BY DEF LifeInv
<1>1. foreign' = foreign /\ sent' = s /\ rec' = rec
  BY DEF SlotSend, mainVars
<1>2. CASE slot[s].up
  BY <1>1, <1>2 DEF SlotSend
<1>3. CASE ~slot[s].up
  <2>1. PICK n \in Names :
          /\ slot' = [slot EXCEPT ![s].up = TRUE, ![s].spout = n]
          /\ \/ registry' = registry
             \/ n \notin registry /\ registry' = registry \cup {n}
    BY <1>3, SendOutcome
  <2>2. /\ slot'[s].up /\ slot'[s].phase = slot[s].phase
        /\ slot'[s].actual = slot[s].actual /\ slot'[s].spout = n
        /\ \A t \in Sources : t # s => slot'[t] = slot[t]
    BY <2>1 DEF TypeOK, SlotType
  <2> QED
    BY <1>1, <1>3, <2>1, <2>2
<1> QED
  BY <1>2, <1>3

\* What the bookkeeping after it does: a name is read back, or nothing.
LEMMA CommitEffect ==
  ASSUME LifeInv, NEW s \in Sources, SlotCommit(s)
  PROVE  /\ \A t \in Sources : t # s => slot'[t] = slot[t]
         /\ slot'[s].up = slot[s].up /\ slot'[s].phase = slot[s].phase
         /\ slot'[s].spout = slot[s].spout
         /\ slot'[s].actual \in {slot[s].actual, slot[s].spout}
         /\ registry' = registry /\ foreign' = foreign /\ rec' = rec
         /\ sent = s /\ sent' = None
<1>1. /\ sent = s /\ sent' = None
      /\ registry' = registry /\ foreign' = foreign /\ rec' = rec
  BY DEF SlotCommit, sessionVars, mainVars
<1>2. CASE slot[s].actual = None
  <2>1. slot' = [slot EXCEPT ![s].actual = slot[s].spout, ![s].resolved = slot[s].spout]
    BY <1>2 DEF SlotCommit
  <2> QED
    BY <1>1, <2>1 DEF LifeInv, TypeOK, SlotType
<1>3. CASE slot[s].actual # None
  BY <1>1, <1>3 DEF SlotCommit
<1> QED
  BY <1>2, <1>3

\* What a teardown does: the slot is gone, and its name with it.
LEMMA TeardownEffect ==
  ASSUME LifeInv, NEW s \in Sources, Teardown(s)
  PROVE  /\ \A t \in Sources : t # s => slot'[t] = slot[t]
         /\ slot'[s] = NoSlot
         /\ \/ slot[s].up /\ registry' = registry \ {slot[s].spout}
                          /\ foreign' = foreign \ {slot[s].spout}
            \/ ~slot[s].up /\ registry' = registry /\ foreign' = foreign
         /\ rec' = rec /\ sent' = None
<1>1. /\ slot' = [slot EXCEPT ![s] = NoSlot]
      /\ rec' = rec /\ sent' = None
  BY DEF Teardown, FrameOver, graphicsVars, mainVars
<1>2. slot'[s] = NoSlot /\ \A t \in Sources : t # s => slot'[t] = slot[t]
  BY <1>1 DEF LifeInv, TypeOK
<1>3. \/ slot[s].up /\ registry' = registry \ {slot[s].spout}
                    /\ foreign' = foreign \ {slot[s].spout}
      \/ ~slot[s].up /\ registry' = registry /\ foreign' = foreign
  BY DEF Teardown, sessionVars
<1> QED
  BY <1>1, <1>2, <1>3

\* A name is read back only from a sender that is up.
LEMMA ReadBackNext == LifeInv /\ ReadBack /\ [Next]_vars => ReadBack'
<1> SUFFICES ASSUME LifeInv, ReadBack, [Next]_vars PROVE ReadBack'
  OBVIOUS
<1> FrameInv /\ frame \subseteq Sources
  BY DEF LifeInv, TypeOK
<1> USE NoneAssumption
<1>1. CASE SameOnAir
  BY <1>1 DEF ReadBack, SameOnAir, FrameInv
<1>2. ASSUME NEW s \in Sources, SlotSend(s) PROVE ReadBack'
  BY <1>2, SendEffect DEF ReadBack
<1>3. ASSUME NEW s \in Sources, SlotCommit(s) PROVE ReadBack'
  BY <1>3, CommitEffect DEF ReadBack
<1>4. ASSUME NEW s \in Sources, Teardown(s) PROVE ReadBack'
  BY <1>4, TeardownEffect, EmptySlot DEF ReadBack
<1>5. ASSUME NEW profile \in SUBSET Sources, FinishReload(profile) PROVE ReadBack'
  <2>1. sent' = None /\ \A t \in Sources : slot'[t] = NoSlot
    BY <1>5 DEF FinishReload, FrameOver, graphicsVars
  <2> QED
    BY <2>1, EmptySlot DEF ReadBack
<1>6. ASSUME NEW n \in ForeignNames, ForeignRegister(n) \/ ForeignRelease(n) PROVE ReadBack'
  BY <1>6 DEF ForeignRegister, ForeignRelease, engineVars, graphicsVars, ReadBack
<1> QED
  BY <1>1, <1>2, <1>3, <1>4, <1>5, <1>6, OnAirSteps DEF OnAirStep

\* Only a poll announces a name, and only one its record's slot read back;
\* a record that lets its slot go keeps no announced name into the next.
LEMMA AnnounceSteps ==
  ASSUME LifeInv, [Next]_vars, NEW s \in Sources, rec'[s].sender # None
  PROVE  \/ /\ rec'[s] = rec[s]
            /\ slot[s].phase = "none" /\ rec[s].live => slot'[s].phase = "none"
         \/ /\ RefreshFromEngine
            /\ rec'[s].live = rec[s].live
            /\ \/ rec'[s].sender = rec[s].sender
               \/ rec[s].live /\ rec'[s].sender = slot[s].actual
<1> TypeOK /\ MainInv /\ SlotInv /\ FrameInv
  BY DEF LifeInv
<1> DEFINE Kept == /\ rec'[s] = rec[s]
                   /\ slot[s].phase = "none" /\ rec[s].live => slot'[s].phase = "none"
<1>none. NoRecord.sender = None /\ DarkRecord.sender = None
  BY DEF NoRecord, DarkRecord
<1>rec. ASSUME rec' = rec, slot[s].phase = "none" => slot'[s].phase = "none" PROVE Kept
  BY <1>rec
<1>other. ASSUME NEW r \in Sources, r # s,
                 \A t \in Sources : t # r => rec'[t] = rec[t] /\ slot'[t] = slot[t]
          PROVE  Kept
  BY <1>other
<1>own. ASSUME NEW r \in Sources, rec'[r].sender = None,
               \A t \in Sources : t # r => rec'[t] = rec[t] /\ slot'[t] = slot[t]
        PROVE  Kept
  <2>1. r # s
    BY <1>own
  <2> QED
    BY <1>own, <1>other, <2>1
<1>attach. ASSUME NEW r \in Sources, NEW sticky \in MaybeName, Attach(r, sticky)
           PROVE  \A t \in Sources : t # r => slot'[t] = slot[t]
  BY <1>attach, AttachEffect
<1>1. ASSUME NEW r \in Sources, CreateSource(r) \/ CreateAndBroadcast(r) PROVE Kept
  <2>1. rec'[r] = DarkRecord /\ \A t \in Sources : t # r => rec'[t] = rec[t]
    BY <1>1 DEF CreateSource, CreateAndBroadcast, TypeOK
  <2>2. \A t \in Sources : t # r => slot'[t] = slot[t]
    BY <1>1, <1>attach DEF CreateSource, CreateAndBroadcast, engineVars, MaybeName
  <2> QED
    BY <1>none, <1>own, <2>1, <2>2
<1>2. ASSUME NEW r \in Sources, StartBroadcast(r) PROVE Kept
  <2>1. rec' = rec /\ ~rec[r].live /\ rec[r].alloc \in MaybeName
    BY <1>2 DEF StartBroadcast, TypeOK, RecordType
  <2>2. \A t \in Sources : t # r => slot'[t] = slot[t]
    BY <1>2, <1>attach, <2>1 DEF StartBroadcast
  <2> QED
    BY <2>1, <2>2
<1>3. ASSUME NEW r \in Sources, StopBroadcast(r) \/ RemoveLiveSource(r) \/ SetSourceFormat(r)
      PROVE  Kept
  <2>1. PICK verb : Claim(r, verb)
    BY <1>3 DEF StopBroadcast, RemoveLiveSource, SetSourceFormat
  <2>2. slot[r].phase # "none"
    BY <2>1 DEF Claim, MainInv, Idle, Detaching
  <2>3. rec' = rec /\ \A t \in Sources : t # r => slot'[t] = slot[t]
    BY <2>1 DEF Claim, TypeOK
  <2> QED
    BY <2>2, <2>3
<1>4. ASSUME NEW r \in Sources, CaptureName(r) \/ FinishStop(r) \/ FormatFails(r) PROVE Kept
  <2>1. rec'[r].sender = None /\ \A t \in Sources : t # r => rec'[t] = rec[t]
    BY <1>4 DEF CaptureName, FinishStop, FormatFails, TypeOK, RecordType
  <2>2. slot' = slot
    BY <1>4 DEF CaptureName, FinishStop, FormatFails, engineVars
  <2> QED
    BY <1>own, <2>1, <2>2
<1>5. ASSUME NEW r \in Sources, FinishRemove(r) \/ RemoveDarkSource(r) PROVE Kept
  <2>1. rec'[r] = NoRecord /\ \A t \in Sources : t # r => rec'[t] = rec[t]
    BY <1>5 DEF FinishRemove, RemoveDarkSource, DropRecord, TypeOK
  <2>2. slot' = slot
    BY <1>5 DEF FinishRemove, RemoveDarkSource
  <2> QED
    BY <1>none, <1>own, <2>1, <2>2
<1>6. ASSUME NEW r \in Sources, FinishFormat(r) PROVE Kept
  <2>1. rec'[r].sender = None /\ \A t \in Sources : t # r => rec'[t] = rec[t]
    BY <1>6 DEF FinishFormat, TypeOK, RecordType
  <2>2. rec[r].alloc \in MaybeName
    BY DEF TypeOK, RecordType
  <2>3. \A t \in Sources : t # r => slot'[t] = slot[t]
    BY <1>6, <1>attach, <2>2 DEF FinishFormat
  <2> QED
    BY <1>own, <2>1, <2>3
<1>7. ASSUME RefreshFromEngine
      PROVE  /\ rec'[s].live = rec[s].live
             /\ \/ rec'[s].sender = rec[s].sender
                \/ rec[s].live /\ rec'[s].sender = slot[s].actual
  <2>1. CASE rec[s].live /\ slot[s].phase = "attached"
    <3>1. rec'[s] = Refreshed(rec[s], slot[s])
      BY <1>7, <2>1 DEF RefreshFromEngine
    <3> QED
      BY <2>1, <3>1 DEF Refreshed, TypeOK, RecordType
  <2>2. CASE ~(rec[s].live /\ slot[s].phase = "attached")
    BY <1>7, <2>2 DEF RefreshFromEngine
  <2> QED
    BY <2>1, <2>2
<1>8. ASSUME NEW profile \in SUBSET Sources, FinishReload(profile) PROVE FALSE
  <2>1. rec'[s] \in {NoRecord, DarkRecord}
    BY <1>8 DEF FinishReload
  <2> QED
    BY <1>none, <2>1
<1>9. ASSUME BeginReload \/ FrameBegin \/ UNCHANGED vars PROVE Kept
  BY <1>9, <1>rec DEF BeginReload, FrameBegin, vars, mainVars, engineVars
<1>10. ASSUME NEW r \in Sources, SlotInit(r) \/ SlotInitFails(r) \/ SlotSkip(r) PROVE Kept
  <2>1. rec' = rec /\ \A t \in Sources : slot'[t].phase = slot[t].phase
    BY <1>10, SMTT(40) DEF SlotInit, SlotInitFails, SlotSkip, mainVars, engineVars, TypeOK, SlotType
  <2> QED
    BY <1>rec, <2>1
<1>11. ASSUME NEW r \in Sources, SlotSend(r) \/ SlotCommit(r) PROVE Kept
  <2>1. rec' = rec /\ \A t \in Sources : slot'[t].phase = slot[t].phase
    BY <1>11, SendEffect, CommitEffect
  <2> QED
    BY <1>rec, <2>1
<1>12. ASSUME NEW r \in Sources, Teardown(r) PROVE Kept
  <2>1. /\ rec' = rec /\ slot'[r].phase = "none"
        /\ \A t \in Sources : t # r => slot'[t] = slot[t]
    BY <1>12, TeardownEffect, EmptySlot
  <2> QED
    BY <1>rec, <2>1
<1>13. ASSUME NEW n \in ForeignNames, ForeignRegister(n) \/ ForeignRelease(n) PROVE Kept
  BY <1>13, <1>rec DEF ForeignRegister, ForeignRelease, mainVars, engineVars
<1> QED
  <2> HIDE DEF Kept
  <2>1. Kept \/ RefreshFromEngine
    BY <1>1, <1>2, <1>3, <1>4, <1>5, <1>6, <1>8, <1>9, <1>10, <1>11, <1>12, <1>13
    DEF Next, MainStep, VerbStep, GraphicsStep
  <2> QED
    BY <1>7, <2>1 DEF Kept

\* A step keeps every announced name the name of its record's own sender.
LEMMA AnnouncedNext == AnnounceInv /\ [Next]_vars => AnnouncedIsRegistered'
<1> SUFFICES ASSUME AnnounceInv, [Next]_vars, NEW s \in Sources, rec'[s].sender # None
             PROVE  /\ rec'[s].live
                    /\ slot'[s].phase # "none" => slot'[s].up /\ rec'[s].sender = slot'[s].spout
  BY DEF AnnouncedIsRegistered
<1> LifeInv /\ ReadBack /\ AnnouncedIsRegistered /\ SlotInv
  BY DEF AnnounceInv, LifeInv
<1>1. CASE RefreshFromEngine
  <2>1. slot' = slot
    BY <1>1 DEF RefreshFromEngine, engineVars
  <2>2. \/ rec'[s] = rec[s]
        \/ /\ rec'[s].live = rec[s].live
           /\ \/ rec'[s].sender = rec[s].sender
              \/ rec[s].live /\ rec'[s].sender = slot[s].actual
    BY AnnounceSteps
  <2> QED
    BY <2>1, <2>2 DEF AnnouncedIsRegistered, ReadBack
<1>2. CASE ~RefreshFromEngine
  <2>1. /\ rec'[s] = rec[s]
        /\ slot[s].phase = "none" /\ rec[s].live => slot'[s].phase = "none"
    BY <1>2, AnnounceSteps
  <2>2. rec[s].live /\ (slot[s].phase # "none" => slot[s].up /\ rec[s].sender = slot[s].spout)
    BY <2>1 DEF AnnouncedIsRegistered
  <2> DEFINE Stays == slot[s].up => \/ slot'[s].phase = "none"
                                    \/ slot'[s].up /\ slot'[s].spout = slot[s].spout
  <2>3. Stays
    <3>1. CASE SameOnAir
      BY <3>1 DEF SameOnAir
    <3>2. ASSUME NEW t \in Sources, SlotSend(t) \/ SlotCommit(t) PROVE Stays
      <4>1. slot'[s] = slot[s] \/ t = s
        BY <3>2, SendEffect, CommitEffect
      <4> QED
        BY <3>2, <4>1, SendEffect, CommitEffect
    <3>3. ASSUME NEW t \in Sources, Teardown(t) PROVE Stays
      BY <3>3, TeardownEffect, EmptySlot
    <3>4. ASSUME NEW profile \in SUBSET Sources, FinishReload(profile) PROVE Stays
      BY <3>4, EmptySlot DEF FinishReload
    <3>5. ASSUME NEW n \in ForeignNames, ForeignRegister(n) \/ ForeignRelease(n) PROVE Stays
      BY <3>5 DEF ForeignRegister, ForeignRelease, engineVars
    <3> QED
      BY <3>1, <3>2, <3>3, <3>4, <3>5, OnAirSteps DEF OnAirStep
  <2> QED
    BY <2>1, <2>2, <2>3
<1> QED
  BY <1>1, <1>2

\* What is up stays behind its entry of the registry until it goes down.
LEMMA NoStaleNext == AnnounceInv /\ [Next]_vars => NoStaleRegistration'
<1> SUFFICES ASSUME AnnounceInv, [Next]_vars,
                    NEW n \in registry', n \notin foreign'
             PROVE  \E s \in Sources : slot'[s].up /\ slot'[s].spout = n
  BY DEF NoStaleRegistration
<1> LifeInv /\ NoStaleRegistration /\ SlotInv
  BY DEF AnnounceInv, LifeInv
<1>behind. ASSUME n \in registry, n \notin foreign
           PROVE  \E s \in Sources : slot[s].up /\ slot[s].spout = n
  BY <1>behind DEF NoStaleRegistration
<1>1. CASE SameOnAir
  BY <1>1, <1>behind DEF SameOnAir
<1>2. ASSUME NEW s \in Sources, SlotSend(s)
      PROVE  \E t \in Sources : slot'[t].up /\ slot'[t].spout = n
  <2>1. CASE n \in registry
    <3>1. PICK t \in Sources : slot[t].up /\ slot[t].spout = n
      BY <1>2, <1>behind, <2>1, SendEffect
    <3>2. slot'[t] = slot[t]
      BY <1>2, <3>1, SendEffect
    <3> QED
      BY <3>1, <3>2
  <2>2. CASE n \notin registry
    BY <1>2, <2>2, SendEffect
  <2> QED
    BY <2>1, <2>2
<1>3. ASSUME NEW s \in Sources, SlotCommit(s)
      PROVE  \E t \in Sources : slot'[t].up /\ slot'[t].spout = n
  <2>1. PICK t \in Sources : slot[t].up /\ slot[t].spout = n
    BY <1>3, <1>behind, CommitEffect
  <2>2. slot'[t].up /\ slot'[t].spout = slot[t].spout
    BY <1>3, <2>1, CommitEffect
  <2> QED
    BY <2>1, <2>2
<1>4. ASSUME NEW s \in Sources, Teardown(s)
      PROVE  \E t \in Sources : slot'[t].up /\ slot'[t].spout = n
  <2>1. n \in registry /\ n \notin foreign /\ (slot[s].up => n # slot[s].spout)
    BY <1>4, TeardownEffect
  <2>2. PICK t \in Sources : slot[t].up /\ slot[t].spout = n
    BY <1>behind, <2>1
  <2>3. slot'[t] = slot[t]
    BY <1>4, <2>1, <2>2, TeardownEffect
  <2> QED
    BY <2>2, <2>3
<1>5. ASSUME NEW profile \in SUBSET Sources, FinishReload(profile) PROVE FALSE
  <2> DEFINE upNames == {slot[s].spout : s \in {t \in Sources : slot[t].up}}
  <2>1. registry' = registry \ upNames /\ foreign' = foreign \ upNames
    BY <1>5 DEF FinishReload
  <2>2. n \in registry /\ n \notin upNames /\ n \notin foreign
    BY <2>1
  <2> QED
    BY <1>behind, <2>2
<1>6. ASSUME NEW m \in ForeignNames, ForeignRegister(m) \/ ForeignRelease(m)
      PROVE  \E t \in Sources : slot'[t].up /\ slot'[t].spout = n
  BY <1>6, <1>behind DEF ForeignRegister, ForeignRelease, engineVars
<1> QED
  BY <1>1, <1>2, <1>3, <1>4, <1>5, <1>6, OnAirSteps, <1>behind DEF OnAirStep, SameOnAir

LEMMA InitAnnounce == Init => AnnounceInv
<1> SUFFICES ASSUME Init PROVE AnnounceInv
  OBVIOUS
<1>1. /\ \A s \in Sources : rec[s] = NoRecord /\ slot[s] = NoSlot
      /\ registry = {} /\ sent = None
  BY DEF Init
<1>2. NoRecord.sender = None
  BY DEF NoRecord
<1> QED
  BY <1>1, <1>2, EmptySlot, InitLife
  DEF AnnounceInv, ReadBack, AnnouncedIsRegistered, NoStaleRegistration

LEMMA AnnounceInvariant == Spec => []AnnounceInv
<1>1. LifeInv /\ [Next]_vars => LifeInv'
  BY NextType, MainNext, SlotFrameNext DEF LifeInv
<1>2. AnnounceInv /\ [Next]_vars => AnnounceInv'
  BY <1>1, ReadBackNext, AnnouncedNext, NoStaleNext DEF AnnounceInv
<1> QED
  BY InitAnnounce, <1>2, PTL DEF Spec

\* What the control API announces is the name the record's own sender is
\* published under, for any number of sources, any candidate sequences and a
\* registry of any capacity that other processes fill as they like.
THEOREM AnnouncementsAreTrue == Spec => []AnnouncedIsRegistered
<1>1. AnnounceInv => AnnouncedIsRegistered
  BY DEF AnnounceInv
<1> QED
  BY <1>1, AnnounceInvariant, PTL

\* Under the same conditions no name of this instance stays registered once
\* its sender is gone.
THEOREM NothingStaysRegistered == Spec => []NoStaleRegistration
<1>1. AnnounceInv => NoStaleRegistration
  BY DEF AnnounceInv
<1> QED
  BY <1>1, AnnounceInvariant, PTL

\* With room in the registry a first send registers the name it publishes.
LEMMA SendRegisters ==
  ASSUME LifeInv, RegistryHasRoom, NEW s \in Sources, SlotSend(s), ~slot[s].up
  PROVE  slot'[s].spout \notin registry /\ registry' = registry \cup {slot'[s].spout}
<1> DEFINE first == FirstFree(SpoutNames[slot[s].spout], registry)
<1> TypeOK
  BY DEF LifeInv
<1>1. slot[s].spout \in Names
  BY DEF SlotSend, TypeOK, SlotType, MaybeName
<1>2. SpoutNames[slot[s].spout] \in Seq(Names)
  BY <1>1, NamingAssumption
<1>3. ~(Cardinality(registry) >= MaxSenders)
  BY DEF RegistryHasRoom
<1>4. /\ first # None
      /\ slot' = [slot EXCEPT ![s].up = TRUE, ![s].spout = first]
      /\ registry' = registry \cup {first}
  BY <1>3 DEF SlotSend
<1>5. slot'[s].spout = first
  <2> HIDE DEF first
  <2> QED  BY <1>4 DEF TypeOK, SlotType
<1>6. first \notin registry
  BY <1>2, <1>4, FirstFreeIsFree
<1> QED
  BY <1>4, <1>5, <1>6

\* With room, a sender that is up owns its entry of the registry alone.
LEMMA RoomNext ==
  RoomInv /\ RegistryHasRoom /\ [Next]_vars => UpIsRegistered' /\ OneSlotPerName'
<1> SUFFICES ASSUME RoomInv, RegistryHasRoom, [Next]_vars
             PROVE  UpIsRegistered' /\ OneSlotPerName'
  OBVIOUS
<1> LifeInv /\ UpIsRegistered /\ OneSlotPerName
  BY DEF RoomInv, AnnounceInv
<1>same. ASSUME \A t \in Sources : /\ slot'[t].up <=> slot[t].up
                                   /\ slot[t].up => slot'[t].spout = slot[t].spout
         PROVE  OneSlotPerName'
  BY <1>same DEF OneSlotPerName
<1>1. CASE SameOnAir
  BY <1>1, <1>same DEF SameOnAir, UpIsRegistered
<1>2. ASSUME NEW s \in Sources, SlotSend(s) PROVE UpIsRegistered' /\ OneSlotPerName'
  <2>1. CASE slot[s].up
    BY <1>2, <2>1, SendEffect DEF UpIsRegistered, OneSlotPerName
  <2>2. CASE ~slot[s].up
    <3>1. slot'[s].spout \notin registry /\ registry' = registry \cup {slot'[s].spout}
      BY <1>2, <2>2, SendRegisters
    <3>2. foreign' = foreign /\ \A t \in Sources : t # s => slot'[t] = slot[t]
      BY <1>2, SendEffect
    <3>3. slot'[s].spout \notin foreign
      BY <3>1 DEF RoomInv, ForeignIsRegistered
    <3> QED
      BY <3>1, <3>2, <3>3 DEF UpIsRegistered, OneSlotPerName
  <2> QED
    BY <2>1, <2>2
<1>3. ASSUME NEW s \in Sources, SlotCommit(s) PROVE UpIsRegistered' /\ OneSlotPerName'
  <2>1. \A t \in Sources : slot'[t].up = slot[t].up /\ slot'[t].spout = slot[t].spout
    BY <1>3, CommitEffect
  <2>2. registry' = registry /\ foreign' = foreign
    BY <1>3, CommitEffect
  <2> QED
    BY <2>1, <2>2 DEF UpIsRegistered, OneSlotPerName
<1>4. ASSUME NEW s \in Sources, Teardown(s) PROVE UpIsRegistered' /\ OneSlotPerName'
  <2>1. /\ ~slot'[s].up
        /\ \A t \in Sources : t # s => slot'[t] = slot[t]
        /\ foreign' \subseteq foreign
        /\ \A n \in registry : n \notin registry' => slot[s].up /\ n = slot[s].spout
    BY <1>4, TeardownEffect, EmptySlot
  <2> QED
    BY <2>1 DEF UpIsRegistered, OneSlotPerName
<1>5. ASSUME NEW profile \in SUBSET Sources, FinishReload(profile)
      PROVE  UpIsRegistered' /\ OneSlotPerName'
  <2>1. \A t \in Sources : ~slot'[t].up
    BY <1>5, EmptySlot DEF FinishReload
  <2> QED
    BY <2>1 DEF UpIsRegistered, OneSlotPerName
<1>6. ASSUME NEW n \in ForeignNames, ForeignRegister(n) PROVE UpIsRegistered' /\ OneSlotPerName'
  BY <1>6 DEF ForeignRegister, engineVars, UpIsRegistered, OneSlotPerName
<1>7. ASSUME NEW n \in ForeignNames, ForeignRelease(n) PROVE UpIsRegistered' /\ OneSlotPerName'
  BY <1>7 DEF ForeignRelease, engineVars, UpIsRegistered, OneSlotPerName
<1> QED
  BY <1>1, <1>2, <1>3, <1>4, <1>5, <1>6, <1>7, OnAirSteps DEF OnAirStep

\* The names other processes hold stay entries of the registry.
LEMMA ForeignNext ==
  AnnounceInv /\ ForeignIsRegistered /\ [Next]_vars => ForeignIsRegistered'
<1> SUFFICES ASSUME LifeInv, ForeignIsRegistered, [Next]_vars PROVE ForeignIsRegistered'
  BY DEF AnnounceInv
<1> USE DEF ForeignIsRegistered
<1>1. CASE SameOnAir
  BY <1>1 DEF SameOnAir
<1>2. ASSUME NEW s \in Sources, SlotSend(s) \/ SlotCommit(s) \/ Teardown(s)
      PROVE  ForeignIsRegistered'
  BY <1>2, SendEffect, CommitEffect, TeardownEffect
<1>3. ASSUME NEW profile \in SUBSET Sources, FinishReload(profile) PROVE ForeignIsRegistered'
  BY <1>3 DEF FinishReload
<1>4. ASSUME NEW n \in ForeignNames, ForeignRegister(n) \/ ForeignRelease(n)
      PROVE  ForeignIsRegistered'
  BY <1>4 DEF ForeignRegister, ForeignRelease
<1> QED
  BY <1>1, <1>2, <1>3, <1>4, OnAirSteps DEF OnAirStep

\* As long as the session's registry never fills up, it mirrors the slots
\* of this instance exactly, whatever names other processes take and leave:
\* no stale entry, and no two senders under one name.
THEOREM RegistryMirrorsSlots ==
  Spec /\ []RegistryHasRoom => []RegistryMatchesSlots
<1>1. Init => RoomInv
  BY AnnounceInvariant, EmptySlot, InitAnnounce
  DEF Init, RoomInv, UpIsRegistered, OneSlotPerName, ForeignIsRegistered
<1>2. RoomInv /\ RegistryHasRoom /\ AnnounceInv' /\ [Next]_vars => RoomInv'
  BY RoomNext, ForeignNext DEF RoomInv
<1>3. RoomInv => RegistryMatchesSlots
  BY DEF RoomInv, AnnounceInv, RegistryMatchesSlots
<1> QED
  BY <1>1, <1>2, <1>3, AnnounceInvariant, PTL DEF Spec

-----------------------------------------------------------------------------
(***************************************************************************)
(* SoloInv: one owner per name, while no other process claims any.  The    *)
(* argument: the registry then holds only names of senders that are up,    *)
(* each relied on by its own source alone, so Spout finds the requested    *)
(* name free and the read-back name is the reserved one.                   *)
(***************************************************************************)
Ownership == OneName /\ ExclusiveNames /\ ReservationsAccounted
Publishing == SpoutAgrees /\ RegistryInv

\* The three ways a step can disturb what the sources rely on: not at all,
LEMMA HoldsKept ==
  ASSUME Ownership, UNCHANGED reserved,
         \A t \in Sources : Holds(t)' = Holds(t),
         \A t \in Sources : rec'[t].alloc # None /\ slot'[t].resolved # None
                            => rec'[t].alloc = slot'[t].resolved,
         \A t \in Sources : published'[t] \in {published[t], None} \cup Holds(t)
  PROVE  Ownership'
<1>1. OneName'
  BY DEF Ownership, OneName
<1>2. ExclusiveNames'
  BY DEF Ownership, ExclusiveNames
<1>3. ReservationsAccounted'
  BY DEF Ownership, ReservationsAccounted
<1> QED
  BY <1>1, <1>2, <1>3 DEF Ownership

\* by one source taking a name of its own,
LEMMA HoldsTaken ==
  ASSUME Ownership, NEW s \in Sources, NEW n,
         Holds(s) \subseteq {n}, n \in reserved => n \in Holds(s),
         reserved' = reserved \cup {n},
         Holds(s)' = {n}, \A t \in Sources : t # s => Holds(t)' = Holds(t),
         \A t \in Sources : rec'[t].alloc # None /\ slot'[t].resolved # None
                            => rec'[t].alloc = slot'[t].resolved,
         UNCHANGED published
  PROVE  Ownership'
<1>1. OneName'
  BY DEF Ownership, OneName
<1>2. \A t \in Sources : t # s => n \notin Holds(t)
  BY DEF Ownership, ExclusiveNames, ReservationsAccounted
<1>3. ExclusiveNames'
  BY <1>2 DEF Ownership, ExclusiveNames
<1>4. ReservationsAccounted'
  BY DEF Ownership, ReservationsAccounted
<1> QED
  BY <1>1, <1>3, <1>4 DEF Ownership

\* or by one source giving up all it has.
LEMMA HoldsDropped ==
  ASSUME Ownership, NEW s \in Sources,
         reserved' = reserved \ Holds(s),
         Holds(s)' = {}, \A t \in Sources : t # s => Holds(t)' = Holds(t),
         \A t \in Sources : rec'[t].alloc # None /\ slot'[t].resolved # None
                            => rec'[t].alloc = slot'[t].resolved,
         published'[s] = None, \A t \in Sources : t # s => published'[t] = published[t]
  PROVE  Ownership'
<1>1. OneName'
  BY DEF Ownership, OneName
<1>2. ExclusiveNames'
  BY DEF Ownership, ExclusiveNames
<1>3. ReservationsAccounted'
  BY DEF Ownership, ReservationsAccounted, ExclusiveNames
<1> QED
  BY <1>1, <1>2, <1>3 DEF Ownership

\* A source without a slot is attached under its own name, or a fresh one.
LEMMA AttachOwns ==
  ASSUME LifeInv, Ownership, NEW s \in Sources, slot[s].phase = "none",
         Attach(s, rec[s].alloc),
         rec'[s].alloc = rec[s].alloc,
         \A t \in Sources : t # s => rec'[t] = rec[t],
         UNCHANGED published
  PROVE  Ownership'
<1> DEFINE name == ResolvedName(s, rec[s].alloc)
<1>1. rec[s].alloc \in MaybeName
  BY DEF LifeInv, TypeOK, RecordType
<1>2. /\ slot'[s].resolved = name /\ name # None /\ reserved' = reserved \cup {name}
      /\ \A t \in Sources : t # s => slot'[t] = slot[t]
  BY <1>1, AttachEffect DEF LifeInv
<1>3. slot[s].resolved = None
  BY DEF LifeInv, SlotInv, NoSlot
<1>4. CASE rec[s].alloc # None
  <2>1. rec[s].alloc \in reserved
    BY <1>4 DEF Ownership, ReservationsAccounted, Holds
  <2>2. name = rec[s].alloc
    BY <1>4, <2>1 DEF ResolvedName
  <2> HIDE DEF name
  <2>3. Holds(s) = {name} /\ Holds(s)' = {name}
    BY <1>2, <1>3, <1>4, <2>2 DEF Holds
  <2>4. \A t \in Sources : t # s => Holds(t)' = Holds(t)
    BY <1>2 DEF Holds
  <2>5. \A t \in Sources : rec'[t].alloc # None /\ slot'[t].resolved # None
                           => rec'[t].alloc = slot'[t].resolved
    BY <1>2, <2>2 DEF Ownership, OneName
  <2> QED
    BY <1>2, <2>3, <2>4, <2>5, HoldsTaken
<1>5. CASE rec[s].alloc = None
  <2>1. AllocNames[BaseName[s]] \in Seq(Names)
    BY NamingAssumption
  <2>2. name = FirstFree(AllocNames[BaseName[s]], registry \cup reserved)
    BY <1>5 DEF ResolvedName
  <2>3. name \notin reserved
    BY <1>2, <2>1, <2>2, FirstFreeIsFree
  <2> HIDE DEF name
  <2>4. Holds(s) = {} /\ Holds(s)' = {name}
    BY <1>2, <1>3, <1>5 DEF Holds
  <2>5. \A t \in Sources : t # s => Holds(t)' = Holds(t)
    BY <1>2 DEF Holds
  <2>6. \A t \in Sources : rec'[t].alloc # None /\ slot'[t].resolved # None
                           => rec'[t].alloc = slot'[t].resolved
    BY <1>2, <1>5 DEF Ownership, OneName
  <2> QED
    BY <1>2, <2>3, <2>4, <2>5, <2>6, HoldsTaken
<1> QED
  BY <1>4, <1>5

\* Every action keeps one owner per reservation.
LEMMA OwnershipNext == SoloInv /\ [Next]_vars => Ownership'
<1> SUFFICES ASSUME SoloInv, [Next]_vars PROVE Ownership'
  OBVIOUS
<1> LifeInv /\ TypeOK /\ MainInv /\ SlotInv /\ FrameInv /\ Ownership /\ SpoutAgrees
  BY DEF SoloInv, LifeInv, Ownership
<1> USE NoneAssumption
<1>same. ASSUME UNCHANGED <<reserved, published>>,
                \A t \in Sources : rec'[t].alloc = rec[t].alloc,
                \A t \in Sources : slot'[t].resolved = slot[t].resolved
         PROVE  Ownership'
  <2>1. \A t \in Sources : Holds(t)' = Holds(t)
    BY <1>same DEF Holds
  <2> QED
    BY <1>same, <2>1, HoldsKept DEF Ownership, OneName
<1>claim. ASSUME NEW s \in Sources, NEW verb \in {"stop", "remove", "format"}, Claim(s, verb)
          PROVE  Ownership'
  <2>1. \A t \in Sources : slot'[t].resolved = slot[t].resolved
    BY <1>claim DEF Claim, TypeOK, SlotType
  <2> QED
    BY <1>claim, <1>same, <2>1 DEF Claim
<1>drop. ASSUME NEW s \in Sources, DropRecord(s), slot[s].phase = "none", UNCHANGED slot
         PROVE  Ownership'
  <2>1. slot[s].resolved = None
    BY <1>drop DEF SlotInv, NoSlot
  <2>2. /\ rec'[s].alloc = None
        /\ \A t \in Sources : t # s => rec'[t] = rec[t]
        /\ published'[s] = None
        /\ \A t \in Sources : t # s => published'[t] = published[t]
    BY <1>drop, RecordFields DEF DropRecord, TypeOK
  <2>3. reserved' = reserved \ Holds(s)
    BY <1>drop, <2>1 DEF DropRecord, Holds, TypeOK
  <2>4. Holds(s)' = {} /\ \A t \in Sources : t # s => Holds(t)' = Holds(t)
    BY <1>drop, <2>1, <2>2 DEF Holds
  <2>5. \A t \in Sources : rec'[t].alloc # None /\ slot'[t].resolved # None
                           => rec'[t].alloc = slot'[t].resolved
    BY <1>drop, <2>1, <2>2 DEF Ownership, OneName
  <2> QED
    BY <2>2, <2>3, <2>4, <2>5, HoldsDropped
<1>1. ASSUME NEW s \in Sources, CreateSource(s) PROVE Ownership'
  <2>1. rec[s] = NoRecord
    BY <1>1 DEF CreateSource, MainInv
  <2>2. \A t \in Sources : rec'[t].alloc = rec[t].alloc
    BY <1>1, <2>1, RecordFields DEF CreateSource, TypeOK
  <2> QED
    BY <1>1, <1>same, <2>2 DEF CreateSource, engineVars
<1>2. ASSUME NEW s \in Sources, CreateAndBroadcast(s) PROVE Ownership'
  <2>1. rec[s] = NoRecord /\ slot[s].phase = "none"
    BY <1>2 DEF CreateAndBroadcast, MainInv
  <2>2. rec'[s].alloc = rec[s].alloc /\ \A t \in Sources : t # s => rec'[t] = rec[t]
    BY <1>2, <2>1, RecordFields DEF CreateAndBroadcast, TypeOK
  <2>3. Attach(s, rec[s].alloc) /\ published' = published
    BY <1>2, <2>1, RecordFields DEF CreateAndBroadcast
  <2> QED
    BY <2>1, <2>2, <2>3, AttachOwns
<1>3. ASSUME NEW s \in Sources, StartBroadcast(s) PROVE Ownership'
  <2>1. slot[s].phase = "none"
    BY <1>3 DEF StartBroadcast, MainInv, Idle, InVerb, Detaching, TypeOK, SlotType
  <2> QED
    BY <1>3, <2>1, AttachOwns DEF StartBroadcast
<1>4. ASSUME NEW s \in Sources, CaptureName(s) PROVE Ownership'
  <2>1. slot[s].phase = "attached"
    BY <1>4 DEF CaptureName, MainInv
  <2>2. /\ rec'[s].alloc = slot[s].resolved /\ slot[s].resolved # None
        /\ \A t \in Sources : t # s => rec'[t] = rec[t]
    BY <1>4, <2>1 DEF CaptureName, TypeOK, RecordType, SlotInv
  <2>3. UNCHANGED <<slot, reserved, published>>
    BY <1>4 DEF CaptureName, engineVars
  <2>4. \A t \in Sources : Holds(t)' = Holds(t)
    BY <2>2, <2>3 DEF Holds, Ownership, OneName
  <2>5. \A t \in Sources : rec'[t].alloc # None /\ slot'[t].resolved # None
                           => rec'[t].alloc = slot'[t].resolved
    BY <2>2, <2>3 DEF Ownership, OneName
  <2> QED
    BY <2>3, <2>4, <2>5, HoldsKept
<1>5. ASSUME NEW s \in Sources, StopBroadcast(s) \/ RemoveLiveSource(s) \/ SetSourceFormat(s)
      PROVE  Ownership'
  BY <1>5, <1>claim DEF StopBroadcast, RemoveLiveSource, SetSourceFormat
<1>6. ASSUME NEW s \in Sources, FinishStop(s) \/ FormatFails(s) PROVE Ownership'
  <2>1. \A t \in Sources : rec'[t].alloc = rec[t].alloc
    BY <1>6 DEF FinishStop, FormatFails, TypeOK, RecordType
  <2> QED
    BY <1>6, <1>same, <2>1 DEF FinishStop, FormatFails, engineVars
<1>7. ASSUME NEW s \in Sources, FinishRemove(s) PROVE Ownership'
  BY <1>7, <1>drop DEF FinishRemove, TornDown
<1>8. ASSUME NEW s \in Sources, RemoveDarkSource(s) PROVE Ownership'
  <2>1. slot[s].phase = "none"
    BY <1>8 DEF RemoveDarkSource, MainInv, Idle, InVerb, Detaching, TypeOK, SlotType
  <2> QED
    BY <1>8, <1>drop, <2>1 DEF RemoveDarkSource
<1>9. ASSUME NEW s \in Sources, FinishFormat(s) PROVE Ownership'
  <2>1. rec'[s].alloc = rec[s].alloc /\ \A t \in Sources : t # s => rec'[t] = rec[t]
    BY <1>9 DEF FinishFormat, TypeOK, RecordType
  <2> QED
    BY <1>9, <2>1, AttachOwns DEF FinishFormat, TornDown
<1>11. CASE RefreshFromEngine
  <2>1. \A t \in Sources : rec'[t].alloc = rec[t].alloc
    <3>1. SUFFICES ASSUME NEW t \in Sources PROVE rec'[t].alloc = rec[t].alloc
      OBVIOUS
    <3>2. CASE rec[t].live /\ slot[t].phase = "attached"
      <4>1. rec[t].alloc = slot[t].resolved
        BY <3>2 DEF MainInv, SlotInv, Ownership, OneName
      <4>2. rec'[t] = Refreshed(rec[t], slot[t])
        BY <1>11, <3>2 DEF RefreshFromEngine
      <4> QED
        BY <4>1, <4>2 DEF Refreshed, TypeOK, RecordType
    <3>3. CASE ~(rec[t].live /\ slot[t].phase = "attached")
      BY <1>11, <3>3 DEF RefreshFromEngine
    <3> QED
      BY <3>2, <3>3
  <2> QED
    BY <1>11, <1>same, <2>1 DEF RefreshFromEngine, engineVars
<1>12. CASE BeginReload
  BY <1>12, <1>same DEF BeginReload
<1>13. ASSUME NEW profile \in SUBSET Sources, FinishReload(profile) PROVE Ownership'
  <2>1. \A t \in Sources : /\ rec'[t].alloc = None /\ slot'[t].resolved = None
                           /\ published'[t] = None
    BY <1>13, RecordFields DEF FinishReload, NoSlot
  <2>2. \A t \in Sources : Holds(t)' = {}
    BY <2>1 DEF Holds
  <2>3. reserved' = {}
    BY <1>13 DEF FinishReload, Ownership, ReservationsAccounted, Holds
  <2> QED
    BY <2>1, <2>2, <2>3 DEF Ownership, OneName, ExclusiveNames, ReservationsAccounted
<1>14. CASE FrameBegin
  BY <1>14, <1>same DEF FrameBegin, mainVars, engineVars
<1>15. ASSUME NEW s \in Sources, SlotInit(s) \/ SlotInitFails(s) PROVE Ownership'
  <2>1. \A t \in Sources : slot'[t].resolved = slot[t].resolved
    BY <1>15 DEF SlotInit, SlotInitFails, TypeOK, SlotType
  <2> QED
    BY <1>15, <1>same, <2>1 DEF SlotInit, SlotInitFails, mainVars
<1>17. ASSUME NEW s \in Sources, SlotSkip(s) PROVE Ownership'
  BY <1>17, <1>same DEF SlotSkip, mainVars, engineVars
<1>18. ASSUME NEW s \in Sources, SlotSend(s) PROVE Ownership'
  <2>1. \A t \in Sources : slot'[t].resolved = slot[t].resolved
    <3>1. CASE slot[s].up
      BY <1>18, <3>1 DEF SlotSend
    <3>2. CASE ~slot[s].up
      <4>1. PICK n \in Names : slot' = [slot EXCEPT ![s].up = TRUE, ![s].spout = n]
        BY <1>18, <3>2, SendOutcome
      <4> QED
        BY <4>1 DEF TypeOK, SlotType
    <3> QED
      BY <3>1, <3>2
  <2> QED
    BY <1>18, <1>same, <2>1 DEF SlotSend, mainVars
<1>19. ASSUME NEW s \in Sources, SlotCommit(s) PROVE Ownership'
  <2>1. CASE slot[s].actual # None
    BY <1>19, <2>1, <1>same DEF SlotCommit, mainVars
  <2>2. CASE slot[s].actual = None
    <3>1. slot[s].spout = slot[s].resolved /\ slot[s].resolved # None
      BY <1>19 DEF SlotCommit, FrameInv, SpoutAgrees
    <3>2. \A t \in Sources : slot'[t].resolved = slot[t].resolved
      BY <1>19, <2>2, <3>1 DEF SlotCommit, TypeOK, SlotType
    <3>3. slot[s].resolved \in Holds(s) /\ slot[s].resolved \in reserved
      BY <3>1 DEF Holds, Ownership, ReservationsAccounted
    <3>4. reserved' = reserved /\ rec' = rec
      BY <1>19, <2>2, <3>1, <3>3 DEF SlotCommit, Rebind, mainVars
    <3>5. \A t \in Sources : published'[t] \in {published[t], None} \cup Holds(t)
      BY <1>19, <2>2, <3>1, <3>3 DEF SlotCommit, TypeOK
    <3>6. \A t \in Sources : Holds(t)' = Holds(t)
      BY <3>2, <3>4 DEF Holds
    <3> QED
      BY <3>2, <3>4, <3>5, <3>6, HoldsKept DEF Ownership, OneName
  <2> QED
    BY <2>1, <2>2
<1>20. ASSUME NEW s \in Sources, Teardown(s) PROVE Ownership'
  <2>1. slot'[s].resolved = None /\ \A t \in Sources : t # s => slot'[t] = slot[t]
    BY <1>20 DEF Teardown, TypeOK, NoSlot
  <2>2. rec[s].alloc # None /\ rec[s].alloc = slot[s].resolved
    BY <1>20 DEF Teardown, MainInv, SlotInv, Ownership, OneName
  <2>3. UNCHANGED <<rec, reserved, published>>
    BY <1>20 DEF Teardown, mainVars
  <2>4. \A t \in Sources : Holds(t)' = Holds(t)
    BY <2>1, <2>2, <2>3 DEF Holds
  <2> QED
    BY <2>1, <2>2, <2>3, <2>4, HoldsKept DEF Ownership, OneName
<1>21. ASSUME NEW n \in ForeignNames, ForeignRegister(n) \/ ForeignRelease(n) PROVE Ownership'
  BY <1>21, <1>same DEF ForeignRegister, ForeignRelease, mainVars, engineVars
<1>22. CASE UNCHANGED vars
  BY <1>22, <1>same DEF vars, mainVars, engineVars
<1> QED
  BY <1>1, <1>2, <1>3, <1>4, <1>5, <1>6, <1>7, <1>8, <1>9, <1>11, <1>12, <1>13,
     <1>14, <1>15, <1>17, <1>18, <1>19, <1>20, <1>21, <1>22
  DEF Next, MainStep, VerbStep, GraphicsStep

\* The name a slot was attached with is registered by nobody but that slot.
LEMMA RequestedNameIsFree ==
  ASSUME SoloInv, NEW s \in Sources, slot[s].resolved # None, ~slot[s].up
  PROVE  slot[s].resolved \notin registry
<1>1. SUFFICES ASSUME slot[s].resolved \in registry PROVE FALSE
  OBVIOUS
<1>2. PICK t \in Sources : slot[t].up /\ slot[t].spout = slot[s].resolved
  BY <1>1 DEF SoloInv, RegistryInv
<1>3. slot[t].resolved = slot[s].resolved /\ t # s
  BY <1>2 DEF SoloInv, SpoutAgrees
<1>4. slot[s].resolved \in Holds(s) \cap Holds(t)
  BY <1>3 DEF Holds
<1> QED
  BY <1>3, <1>4 DEF SoloInv, ExclusiveNames

\* Asked for a free name, Spout gives exactly that name.
LEMMA SpoutGivesFreeName ==
  ASSUME NEW n \in Names, n \notin registry
  PROVE  FirstFree(SpoutNames[n], registry) = n
BY NamingAssumption, FirstFreeHead

\* Every action keeps Spout in agreement with the reservations.
LEMMA PublishingNext ==
  ForeignNames = {} /\ SoloInv /\ [Next]_vars => Publishing'
<1> SUFFICES ASSUME ForeignNames = {}, SoloInv, [Next]_vars PROVE Publishing'
  OBVIOUS
<1> LifeInv /\ TypeOK /\ MainInv /\ SlotInv /\ FrameInv /\ Publishing
  BY DEF SoloInv, LifeInv, Publishing
<1> USE NoneAssumption
<1>noSlot. NoSlot.spout = None /\ NoSlot.actual = None /\ ~NoSlot.up
  BY DEF NoSlot
<1>same. ASSUME UNCHANGED sessionVars,
                \A t \in Sources : slot'[t].up = slot[t].up /\ slot'[t].spout = slot[t].spout
                   /\ slot'[t].actual = slot[t].actual /\ slot'[t].resolved = slot[t].resolved
         PROVE  Publishing'
  <2>1. SpoutAgrees'
    BY <1>same DEF Publishing, SpoutAgrees
  <2>2. RegistryInv'
    BY <1>same DEF Publishing, RegistryInv, sessionVars
  <2> QED
    BY <2>1, <2>2 DEF Publishing
<1>attach. ASSUME NEW s \in Sources, NEW sticky \in MaybeName, Attach(s, sticky),
                  slot[s].phase = "none", UNCHANGED sessionVars
           PROVE  Publishing'
  <2>1. ~slot[s].up
    BY <1>attach, <1>noSlot DEF SlotInv
  <2>2. /\ slot'[s].spout = None /\ slot'[s].actual = None /\ ~slot'[s].up
        /\ \A t \in Sources : t # s => slot'[t] = slot[t]
    BY <1>attach, AttachEffect
  <2>3. SpoutAgrees'
    BY <2>2 DEF Publishing, SpoutAgrees
  <2>4. RegistryInv'
    BY <1>attach, <2>1, <2>2 DEF Publishing, RegistryInv, sessionVars
  <2> QED
    BY <2>3, <2>4 DEF Publishing
<1>claim. ASSUME NEW s \in Sources, NEW verb \in {"stop", "remove", "format"}, Claim(s, verb)
          PROVE  Publishing'
  BY <1>claim, <1>same DEF Claim, TypeOK, SlotType
<1>1. ASSUME NEW s \in Sources,
             CreateSource(s) \/ CaptureName(s) \/ FinishStop(s) \/ FinishRemove(s)
               \/ RemoveDarkSource(s) \/ FormatFails(s)
      PROVE  Publishing'
  BY <1>1, <1>same DEF CreateSource, CaptureName, FinishStop, FinishRemove,
     RemoveDarkSource, FormatFails, engineVars
<1>2. ASSUME NEW s \in Sources, CreateAndBroadcast(s) PROVE Publishing'
  <2>1. slot[s].phase = "none" /\ None \in MaybeName
    BY <1>2 DEF CreateAndBroadcast, MainInv, MaybeName
  <2> QED
    BY <1>2, <1>attach, <2>1 DEF CreateAndBroadcast
<1>3. ASSUME NEW s \in Sources, StartBroadcast(s) PROVE Publishing'
  <2>1. slot[s].phase = "none" /\ rec[s].alloc \in MaybeName
    BY <1>3 DEF StartBroadcast, MainInv, Idle, InVerb, Detaching, TypeOK, SlotType, RecordType
  <2> QED
    BY <1>3, <1>attach, <2>1 DEF StartBroadcast
<1>5. ASSUME NEW s \in Sources, StopBroadcast(s) \/ RemoveLiveSource(s) \/ SetSourceFormat(s)
      PROVE  Publishing'
  BY <1>5, <1>claim DEF StopBroadcast, RemoveLiveSource, SetSourceFormat
<1>9. ASSUME NEW s \in Sources, FinishFormat(s) PROVE Publishing'
  <2>1. slot[s].phase = "none" /\ rec[s].alloc \in MaybeName
    BY <1>9 DEF FinishFormat, TornDown, TypeOK, RecordType
  <2> QED
    BY <1>9, <1>attach, <2>1 DEF FinishFormat
<1>11. CASE RefreshFromEngine \/ BeginReload
  BY <1>11, <1>same DEF RefreshFromEngine, BeginReload, engineVars
<1>13. ASSUME NEW profile \in SUBSET Sources, FinishReload(profile) PROVE Publishing'
  <2>1. \A t \in Sources : slot'[t] = NoSlot
    BY <1>13 DEF FinishReload
  <2>2. registry' = {} /\ foreign' = {}
    BY <1>13 DEF FinishReload, Publishing, RegistryInv
  <2> QED
    BY <1>noSlot, <2>1, <2>2 DEF Publishing, SpoutAgrees, RegistryInv
<1>14. CASE FrameBegin
  BY <1>14, <1>same DEF FrameBegin, engineVars
<1>15. ASSUME NEW s \in Sources, SlotInit(s) PROVE Publishing'
  <2>1. slot[s].spout = None /\ slot[s].resolved # None /\ ~slot[s].up
    BY <1>15 DEF SlotInit, FrameInv, SlotInv
  <2>2. slot[s].resolved \in Names
    BY <2>1 DEF TypeOK, SlotType, MaybeName
  <2>3. FirstFree(SpoutNames[slot[s].resolved], registry) = slot[s].resolved
    BY <2>1, <2>2, RequestedNameIsFree, SpoutGivesFreeName
  <2>4. slot' = [slot EXCEPT ![s].spout = slot[s].resolved]
    BY <1>15, <2>3 DEF SlotInit
  <2>5. /\ slot'[s].spout = slot[s].resolved /\ slot'[s].resolved = slot[s].resolved
        /\ slot'[s].actual = slot[s].actual /\ ~slot'[s].up
        /\ \A t \in Sources : t # s => slot'[t] = slot[t]
    BY <2>1, <2>4 DEF TypeOK, SlotType
  <2>6. SpoutAgrees'
    BY <2>5 DEF Publishing, SpoutAgrees
  <2>7. RegistryInv'
    BY <1>15, <2>1, <2>5 DEF SlotInit, Publishing, RegistryInv, sessionVars
  <2> QED
    BY <2>6, <2>7 DEF Publishing
<1>16. ASSUME NEW s \in Sources, SlotInitFails(s) PROVE Publishing'
  BY <1>16, <1>same DEF SlotInitFails, TypeOK, SlotType
<1>17. ASSUME NEW s \in Sources, SlotSkip(s) PROVE Publishing'
  BY <1>17, <1>same DEF SlotSkip, engineVars
<1>18. ASSUME NEW s \in Sources, SlotSend(s) PROVE Publishing'
  <2>1. CASE slot[s].up
    BY <1>18, <2>1, <1>same DEF SlotSend, sessionVars
  <2>2. CASE ~slot[s].up
    <3>1. slot[s].spout # None /\ slot[s].spout = slot[s].resolved /\ slot[s].spout \in Names
      BY <1>18 DEF SlotSend, Publishing, SpoutAgrees, TypeOK, SlotType, MaybeName
    <3>2. FirstFree(SpoutNames[slot[s].spout], registry) = slot[s].spout
      BY <2>2, <3>1, RequestedNameIsFree, SpoutGivesFreeName
    <3>3. /\ slot' = [slot EXCEPT ![s].up = TRUE, ![s].spout = slot[s].spout]
          /\ registry' \in {registry, registry \cup {slot[s].spout}}
      BY <1>18, <2>2, <3>2, SendOutcome
    <3>4. /\ slot'[s].up /\ slot'[s].spout = slot[s].spout
          /\ slot'[s].resolved = slot[s].resolved /\ slot'[s].actual = slot[s].actual
          /\ \A t \in Sources : t # s => slot'[t] = slot[t]
      BY <3>3 DEF TypeOK, SlotType
    <3>5. SpoutAgrees'
      BY <3>4 DEF Publishing, SpoutAgrees
    <3>6. RegistryInv'
      <4>1. foreign' = foreign /\ foreign = {}
        BY <1>18 DEF SlotSend, Publishing, RegistryInv
      <4>2. ASSUME NEW n \in registry'
            PROVE  \E t \in Sources : slot'[t].up /\ slot'[t].spout = n
        <5>1. CASE n = slot[s].spout
          BY <3>4, <5>1
        <5>2. CASE n # slot[s].spout
          <6>1. PICK t \in Sources : slot[t].up /\ slot[t].spout = n
            BY <3>3, <5>2 DEF Publishing, RegistryInv
          <6> QED
            BY <3>4, <5>2, <6>1
        <5> QED
          BY <5>1, <5>2
      <4> QED
        BY <4>1, <4>2 DEF RegistryInv
    <3> QED
      BY <3>5, <3>6 DEF Publishing
  <2> QED
    BY <2>1, <2>2
<1>19. ASSUME NEW s \in Sources, SlotCommit(s) PROVE Publishing'
  <2>1. slot[s].spout # None /\ slot[s].spout = slot[s].resolved
    BY <1>19 DEF SlotCommit, FrameInv, Publishing, SpoutAgrees
  <2>2. /\ slot'[s].up = slot[s].up /\ slot'[s].spout = slot[s].spout
        /\ slot'[s].resolved = slot[s].resolved
        /\ slot'[s].actual \in {slot[s].actual, slot[s].resolved}
        /\ \A t \in Sources : t # s => slot'[t] = slot[t]
    BY <1>19, <2>1 DEF SlotCommit, TypeOK, SlotType
  <2>3. SpoutAgrees'
    BY <2>2 DEF Publishing, SpoutAgrees
  <2>4. RegistryInv'
    BY <1>19, <2>2 DEF SlotCommit, Publishing, RegistryInv, sessionVars
  <2> QED
    BY <2>3, <2>4 DEF Publishing
<1>20. ASSUME NEW s \in Sources, Teardown(s) PROVE Publishing'
  <2>1. slot'[s] = NoSlot /\ \A t \in Sources : t # s => slot'[t] = slot[t]
    BY <1>20 DEF Teardown, TypeOK
  <2>2. SpoutAgrees'
    BY <1>noSlot, <2>1 DEF Publishing, SpoutAgrees
  <2>3. /\ registry' = IF slot[s].up THEN registry \ {slot[s].spout} ELSE registry
        /\ foreign' = {}
    BY <1>20 DEF Teardown, sessionVars, Publishing, RegistryInv
  <2>4. RegistryInv'
    BY <2>1, <2>3 DEF Publishing, RegistryInv
  <2> QED
    BY <2>2, <2>4 DEF Publishing
<1>22. CASE UNCHANGED vars
  BY <1>22, <1>same DEF vars, engineVars
<1> QED
  BY <1>1, <1>2, <1>3, <1>5, <1>9, <1>11, <1>13, <1>14, <1>15, <1>16, <1>17,
     <1>18, <1>19, <1>20, <1>22
  DEF Next, MainStep, VerbStep, GraphicsStep

LEMMA SoloInvariant == ForeignNames = {} /\ Spec => []SoloInv
<1> SUFFICES ASSUME ForeignNames = {} PROVE Spec => []SoloInv
  OBVIOUS
<1>1. Init => SoloInv
  BY InitLife DEF Init, SoloInv, SpoutAgrees, RegistryInv, OneName, ExclusiveNames,
     ReservationsAccounted, Holds, NoSlot, NoRecord
<1>2. LifeInv /\ [Next]_vars => LifeInv'
  BY NextType, MainNext, SlotFrameNext DEF LifeInv
<1>3. SoloInv /\ [Next]_vars => SoloInv'
  BY <1>2, OwnershipNext, PublishingNext DEF SoloInv, Ownership, Publishing
<1> QED
  BY <1>1, <1>3, PTL DEF Spec

\* No two sources ever rely on one name, however many sources there are and
\* whatever the candidate sequences, when no other process claims a name.
THEOREM NamesExclusive == ForeignNames = {} /\ Spec => []ExclusiveNames
<1>1. SoloInv => ExclusiveNames
  BY DEF SoloInv
<1> QED
  BY <1>1, SoloInvariant, PTL

\* No verb, in any order, leaks a reservation or loses one a source needs.
THEOREM NoReservationLeak == ForeignNames = {} /\ Spec => []ReservationsAccounted
<1>1. SoloInv => ReservationsAccounted
  BY DEF SoloInv
<1> QED
  BY <1>1, SoloInvariant, PTL

\* Alone under its prefix an instance has exactly its own senders in the
\* registry, even when the rest of the session has filled it up.
THEOREM SoloRegistryMirrorsSlots == ForeignNames = {} /\ Spec => []RegistryMatchesSlots
<1>1. SoloInv => OneSlotPerName
  <2> SUFFICES ASSUME SoloInv, NEW s \in Sources, NEW t \in Sources, s # t,
                      slot[s].up, slot[t].up, slot[s].spout = slot[t].spout
               PROVE  FALSE
    BY DEF OneSlotPerName
  <2>1. /\ slot[s].spout # None
        /\ slot[s].resolved = slot[s].spout /\ slot[t].resolved = slot[s].spout
    BY DEF SoloInv, LifeInv, SlotInv, SpoutAgrees
  <2>2. slot[s].spout \in Holds(s) \cap Holds(t)
    BY <2>1 DEF Holds
  <2> QED
    BY <2>2 DEF SoloInv, ExclusiveNames
<1>2. AnnounceInv /\ SoloInv => RegistryMatchesSlots
  BY <1>1 DEF AnnounceInv, RegistryMatchesSlots
<1> QED
  BY <1>2, AnnounceInvariant, SoloInvariant, PTL

\* A source published once is only ever attached again under that name.
THEOREM ReattachIsSticky == ForeignNames = {} /\ Spec => []StickyReattach
<1>1. SoloInv => StickyReattach
  <2> SUFFICES ASSUME SoloInv, NEW s \in Sources,
                      slot[s].phase = "attached", published[s] # None
               PROVE  slot[s].resolved = published[s]
    BY DEF StickyReattach
  <2>1. slot[s].resolved # None /\ published[s] \in Holds(s)
    BY DEF SoloInv, LifeInv, SlotInv, OneName
  <2> QED
    BY <2>1 DEF Holds, SoloInv, OneName
<1> QED
  BY <1>1, SoloInvariant, PTL

-----------------------------------------------------------------------------
(***************************************************************************)
(* The broadcast path implements the name-lease contract: each step is one *)
(* step of NameLease or leaves leases and registrations alone.             *)
(***************************************************************************)

\* Lease and registration of one source.
LEMMA LeaseValues ==
  \A s \in Sources :
    /\ slot[s].phase # "none" => LeaseOf[s] = slot[s].resolved
    /\ slot[s].phase = "none" => LeaseOf[s] = rec[s].alloc
    /\ slot[s].up => OnAir[s] = slot[s].spout
    /\ ~slot[s].up => OnAir[s] = None
BY DEF LeaseOf, OnAir

\* The name a source leases is one it relies on.
LEMMA LeaseHeld ==
  \A s \in Sources : LeaseOf[s] # None => LeaseOf[s] \in Holds(s)
BY DEF LeaseOf, Holds

\* Attaching a source either renews its lease or acquires a fresh one.
LEMMA AttachAcquires ==
  ASSUME SoloInv, NEW s \in Sources, slot[s].phase = "none",
         Attach(s, rec[s].alloc),
         \A t \in Sources : t # s => rec'[t] = rec[t]
  PROVE  Lease!Next \/ UNCHANGED Lease!vars
<1> DEFINE name == ResolvedName(s, rec[s].alloc)
<1> LifeInv /\ TypeOK /\ SlotInv
  BY DEF SoloInv, LifeInv
<1>1. rec[s].alloc \in MaybeName
  BY DEF TypeOK, RecordType
<1>2. /\ slot'[s].phase = "attached" /\ slot'[s].resolved = name /\ name # None
      /\ ~slot'[s].up /\ \A t \in Sources : t # s => slot'[t] = slot[t]
  BY <1>1, AttachEffect
<1>3. ~slot[s].up /\ LeaseOf[s] = rec[s].alloc
  BY LeaseValues DEF SlotInv, NoSlot
<1>4. OnAir' = OnAir
  <2>1. \A t \in Sources : (slot'[t].up = slot[t].up /\ slot'[t].spout = slot[t].spout)
                           \/ (~slot'[t].up /\ ~slot[t].up)
    BY <1>2, <1>3
  <2> QED
    BY <2>1 DEF OnAir
<1>5. LeaseOf' = [LeaseOf EXCEPT ![s] = name]
  <2> HIDE DEF name
  <2> QED
    BY <1>2 DEF LeaseOf
<1>6. CASE rec[s].alloc # None
  <2>1. name = rec[s].alloc
    BY <1>6 DEF ResolvedName, SoloInv, ReservationsAccounted, Holds
  <2> HIDE DEF name
  <2>2. LeaseOf' = LeaseOf
    BY <1>3, <1>5, <2>1 DEF LeaseOf
  <2> QED
    BY <1>4, <2>2 DEF Lease!vars
<1>7. CASE rec[s].alloc = None
  <2>1. name = FirstFree(AllocNames[BaseName[s]], registry \cup reserved)
    BY <1>7 DEF ResolvedName
  <2>2. AllocNames[BaseName[s]] \in Seq(Names)
    BY NamingAssumption
  <2>3. name \in Names /\ name \notin reserved
    BY <1>2, <2>1, <2>2, FirstFreeIsFree
  <2> HIDE DEF name
  <2>4. \A t \in Sources : LeaseOf[t] # name
    BY <1>2, <2>3, LeaseHeld DEF SoloInv, ReservationsAccounted
  <2>5. Lease!Acquire(s, name)
    BY <1>3, <1>4, <1>5, <1>7, <2>4 DEF Lease!Acquire
  <2> QED
    BY <2>3, <2>5 DEF Lease!Next
<1> QED
  BY <1>6, <1>7

\* Every step is a step of the contract.
LEMMA LeaseNext ==
  ForeignNames = {} /\ SoloInv /\ [Next]_vars => Lease!Next \/ UNCHANGED Lease!vars
<1> SUFFICES ASSUME ForeignNames = {}, SoloInv, [Next]_vars
             PROVE  Lease!Next \/ UNCHANGED Lease!vars
  OBVIOUS
<1> LifeInv /\ TypeOK /\ MainInv /\ SlotInv /\ FrameInv /\ SpoutAgrees
  BY DEF SoloInv, LifeInv
<1> USE NoneAssumption
<1>noSlot. NoSlot.phase = "none" /\ ~NoSlot.up
  BY DEF NoSlot
<1>stutter. ASSUME \A t \in Sources : LeaseOf'[t] = LeaseOf[t] /\ OnAir'[t] = OnAir[t]
            PROVE  UNCHANGED Lease!vars
  BY <1>stutter DEF Lease!vars, LeaseOf, OnAir
<1>same. ASSUME \A t \in Sources :
                  /\ slot'[t].up = slot[t].up /\ slot'[t].spout = slot[t].spout
                  /\ slot'[t].resolved = slot[t].resolved
                  /\ (slot'[t].phase = "none") <=> (slot[t].phase = "none")
                  /\ slot[t].phase = "none" => rec'[t].alloc = rec[t].alloc
         PROVE  UNCHANGED Lease!vars
  BY <1>same, <1>stutter DEF LeaseOf, OnAir
<1>claim. ASSUME NEW s \in Sources, NEW verb \in {"stop", "remove", "format"}, Claim(s, verb)
          PROVE  UNCHANGED Lease!vars
  <2>1. slot[s].phase # "none"
    BY <1>claim DEF Claim, MainInv, Idle, Detaching
  <2>2. /\ slot'[s].up = slot[s].up /\ slot'[s].spout = slot[s].spout
        /\ slot'[s].resolved = slot[s].resolved /\ slot'[s].phase = "claimed"
        /\ \A t \in Sources : t # s => slot'[t] = slot[t]
    BY <1>claim DEF Claim, TypeOK, SlotType
  <2> QED
    BY <1>claim, <1>same, <2>1, <2>2 DEF Claim
<1>drop. ASSUME NEW s \in Sources, DropRecord(s), slot[s].phase = "none", UNCHANGED slot
         PROVE  Lease!Next \/ UNCHANGED Lease!vars
  <2>1. rec'[s].alloc = None /\ \A t \in Sources : t # s => rec'[t] = rec[t]
    BY <1>drop, RecordFields DEF DropRecord, TypeOK
  <2>2. OnAir' = OnAir /\ LeaseOf' = [LeaseOf EXCEPT ![s] = None]
    BY <1>drop, <2>1 DEF OnAir, LeaseOf
  <2>3. OnAir[s] = None
    BY <1>drop, <1>noSlot, LeaseValues DEF SlotInv
  <2>4. CASE LeaseOf[s] # None
    BY <2>2, <2>3, <2>4 DEF Lease!Next, Lease!Surrender
  <2>5. CASE LeaseOf[s] = None
    <3>1. LeaseOf' = LeaseOf
      BY <2>2, <2>5 DEF LeaseOf
    <3> QED
      BY <2>2, <3>1 DEF Lease!vars
  <2> QED
    BY <2>4, <2>5
<1>1. ASSUME NEW s \in Sources, CreateSource(s) PROVE UNCHANGED Lease!vars
  <2>1. rec[s] = NoRecord
    BY <1>1 DEF CreateSource, MainInv
  <2>2. \A t \in Sources : rec'[t].alloc = rec[t].alloc
    BY <1>1, <2>1, RecordFields DEF CreateSource, TypeOK
  <2> QED
    BY <1>1, <1>same, <2>2 DEF CreateSource, engineVars
<1>2. ASSUME NEW s \in Sources, CreateAndBroadcast(s)
      PROVE  Lease!Next \/ UNCHANGED Lease!vars
  <2>1. rec[s] = NoRecord /\ slot[s].phase = "none"
    BY <1>2 DEF CreateAndBroadcast, MainInv
  <2>2. /\ Attach(s, rec[s].alloc)
        /\ \A t \in Sources : t # s => rec'[t] = rec[t]
    BY <1>2, <2>1, RecordFields DEF CreateAndBroadcast, TypeOK
  <2> QED
    BY <2>1, <2>2, AttachAcquires
<1>3. ASSUME NEW s \in Sources, StartBroadcast(s)
      PROVE  Lease!Next \/ UNCHANGED Lease!vars
  <2>1. slot[s].phase = "none"
    BY <1>3 DEF StartBroadcast, MainInv, Idle, InVerb, Detaching, TypeOK, SlotType
  <2> QED
    BY <1>3, <2>1, AttachAcquires DEF StartBroadcast
<1>4. ASSUME NEW s \in Sources, CaptureName(s) PROVE UNCHANGED Lease!vars
  <2>1. slot[s].phase # "none" /\ slot' = slot
    BY <1>4 DEF CaptureName, MainInv, engineVars
  <2>2. \A t \in Sources : t # s => rec'[t] = rec[t]
    BY <1>4 DEF CaptureName, TypeOK
  <2> QED
    BY <1>same, <2>1, <2>2
<1>5. ASSUME NEW s \in Sources, StopBroadcast(s) \/ RemoveLiveSource(s) \/ SetSourceFormat(s)
      PROVE  UNCHANGED Lease!vars
  BY <1>5, <1>claim DEF StopBroadcast, RemoveLiveSource, SetSourceFormat
<1>6. ASSUME NEW s \in Sources, FinishStop(s) \/ FormatFails(s) PROVE UNCHANGED Lease!vars
  <2>1. \A t \in Sources : rec'[t].alloc = rec[t].alloc
    BY <1>6 DEF FinishStop, FormatFails, TypeOK, RecordType
  <2> QED
    BY <1>6, <1>same, <2>1 DEF FinishStop, FormatFails, engineVars
<1>7. ASSUME NEW s \in Sources, FinishRemove(s) PROVE Lease!Next \/ UNCHANGED Lease!vars
  BY <1>7, <1>drop DEF FinishRemove, TornDown
<1>8. ASSUME NEW s \in Sources, RemoveDarkSource(s) PROVE Lease!Next \/ UNCHANGED Lease!vars
  <2>1. slot[s].phase = "none"
    BY <1>8 DEF RemoveDarkSource, MainInv, Idle, InVerb, Detaching, TypeOK, SlotType
  <2> QED
    BY <1>8, <1>drop, <2>1 DEF RemoveDarkSource
<1>9. ASSUME NEW s \in Sources, FinishFormat(s) PROVE Lease!Next \/ UNCHANGED Lease!vars
  <2>1. \A t \in Sources : t # s => rec'[t] = rec[t]
    BY <1>9 DEF FinishFormat, TypeOK
  <2> QED
    BY <1>9, <2>1, AttachAcquires DEF FinishFormat, TornDown
<1>11. CASE RefreshFromEngine
  <2>1. \A t \in Sources : slot[t].phase = "none" => rec'[t] = rec[t]
    BY <1>11 DEF RefreshFromEngine
  <2> QED
    BY <1>11, <1>same, <2>1 DEF RefreshFromEngine, engineVars
<1>12. CASE BeginReload
  BY <1>12, <1>same DEF BeginReload
<1>13. ASSUME NEW profile \in SUBSET Sources, FinishReload(profile) PROVE Lease!Next
  <2>1. \A t \in Sources : rec'[t].alloc = None /\ slot'[t].phase = "none" /\ ~slot'[t].up
    BY <1>13, <1>noSlot, RecordFields DEF FinishReload
  <2>2. Lease!SurrenderAll
    BY <2>1 DEF Lease!SurrenderAll, LeaseOf, OnAir
  <2> QED
    BY <2>2 DEF Lease!Next
<1>14. CASE FrameBegin
  BY <1>14, <1>same DEF FrameBegin, mainVars, engineVars
<1>15. ASSUME NEW s \in Sources, SlotInit(s) PROVE UNCHANGED Lease!vars
  <2>1. ~slot[s].up
    BY <1>15 DEF SlotInit, SlotInv
  <2>2. PICK n : slot' = [slot EXCEPT ![s].spout = n]
    BY <1>15 DEF SlotInit
  <2>3. /\ slot'[s].phase = slot[s].phase /\ slot'[s].resolved = slot[s].resolved
        /\ ~slot'[s].up /\ \A t \in Sources : t # s => slot'[t] = slot[t]
    BY <2>1, <2>2 DEF TypeOK, SlotType
  <2>4. rec' = rec
    BY <1>15 DEF SlotInit, mainVars
  <2> QED
    BY <1>stutter, <2>1, <2>3, <2>4 DEF LeaseOf, OnAir
<1>16. ASSUME NEW s \in Sources, SlotInitFails(s) PROVE UNCHANGED Lease!vars
  <2>1. \A t \in Sources : /\ slot'[t].up = slot[t].up /\ slot'[t].spout = slot[t].spout
                           /\ slot'[t].resolved = slot[t].resolved
                           /\ slot'[t].phase = slot[t].phase
    BY <1>16 DEF SlotInitFails, TypeOK, SlotType
  <2> QED
    BY <1>16, <1>same, <2>1 DEF SlotInitFails, mainVars
<1>17. ASSUME NEW s \in Sources, SlotSkip(s) PROVE UNCHANGED Lease!vars
  BY <1>17, <1>same DEF SlotSkip, mainVars, engineVars
<1>18. ASSUME NEW s \in Sources, SlotSend(s) PROVE Lease!Next \/ UNCHANGED Lease!vars
  <2>1. CASE slot[s].up
    BY <1>18, <2>1, <1>same DEF SlotSend, mainVars
  <2>2. CASE ~slot[s].up
    <3>1. /\ slot[s].phase # "none" /\ slot[s].spout # None
          /\ slot[s].spout = slot[s].resolved /\ slot[s].resolved \in Names
      BY <1>18 DEF SlotSend, FrameInv, SpoutAgrees, TypeOK, SlotType, MaybeName
    <3>2. FirstFree(SpoutNames[slot[s].spout], registry) = slot[s].spout
      BY <2>2, <3>1, RequestedNameIsFree, SpoutGivesFreeName
    <3>3. slot' = [slot EXCEPT ![s].up = TRUE, ![s].spout = slot[s].spout] /\ rec' = rec
      BY <1>18, <2>2, <3>2, SendOutcome DEF SlotSend, mainVars
    <3>4. /\ slot'[s].up /\ slot'[s].spout = slot[s].spout
          /\ slot'[s].phase = slot[s].phase /\ slot'[s].resolved = slot[s].resolved
          /\ \A t \in Sources : t # s => slot'[t] = slot[t]
      BY <3>3 DEF TypeOK, SlotType
    <3>5. LeaseOf[s] = slot[s].resolved /\ LeaseOf[s] # None /\ OnAir[s] = None
      BY <2>2, <3>1, LeaseValues
    <3>6. LeaseOf' = LeaseOf
      <4>1. \A t \in Sources : /\ slot'[t].phase = slot[t].phase
                               /\ slot'[t].resolved = slot[t].resolved
                               /\ rec'[t].alloc = rec[t].alloc
        BY <3>3, <3>4
      <4> QED
        BY <4>1 DEF LeaseOf
    <3>7. OnAir' = [OnAir EXCEPT ![s] = LeaseOf[s]]
      <4>1. OnAir' = [OnAir EXCEPT ![s] = slot[s].spout]
        BY <3>4 DEF OnAir
      <4> QED
        BY <3>1, <3>5, <4>1
    <3> QED
      BY <3>5, <3>6, <3>7 DEF Lease!Next, Lease!GoOnAir
  <2> QED
    BY <2>1, <2>2
<1>19. ASSUME NEW s \in Sources, SlotCommit(s) PROVE UNCHANGED Lease!vars
  <2>1. slot[s].spout = slot[s].resolved
    BY <1>19 DEF SlotCommit, FrameInv, SpoutAgrees
  <2>2. \A t \in Sources : /\ slot'[t].up = slot[t].up /\ slot'[t].spout = slot[t].spout
                           /\ slot'[t].resolved = slot[t].resolved
                           /\ slot'[t].phase = slot[t].phase
    BY <1>19, <2>1 DEF SlotCommit, TypeOK, SlotType
  <2> QED
    BY <1>19, <1>same, <2>2 DEF SlotCommit, mainVars
<1>20. ASSUME NEW s \in Sources, Teardown(s) PROVE Lease!Next \/ UNCHANGED Lease!vars
  <2>1. /\ slot'[s].phase = "none" /\ ~slot'[s].up /\ rec' = rec
        /\ \A t \in Sources : t # s => slot'[t] = slot[t]
    BY <1>20, <1>noSlot DEF Teardown, TypeOK, mainVars
  <2>2. rec[s].alloc = slot[s].resolved /\ slot[s].phase # "none"
    BY <1>20 DEF Teardown, MainInv, SlotInv, SoloInv, OneName
  <2>3. LeaseOf' = LeaseOf
    BY <2>1, <2>2 DEF LeaseOf
  <2>4. OnAir' = [OnAir EXCEPT ![s] = None]
    BY <2>1 DEF OnAir
  <2>5. CASE slot[s].up
    <3>1. OnAir[s] # None
      BY <2>5, LeaseValues DEF SlotInv
    <3> QED
      BY <2>3, <2>4, <3>1 DEF Lease!Next, Lease!GoDark
  <2>6. CASE ~slot[s].up
    <3>1. OnAir' = OnAir
      BY <2>1, <2>6 DEF OnAir
    <3> QED
      BY <2>3, <3>1 DEF Lease!vars
  <2> QED
    BY <2>5, <2>6
<1>22. CASE UNCHANGED vars
  BY <1>22, <1>same DEF vars, mainVars, engineVars
<1> QED
  BY <1>1, <1>2, <1>3, <1>4, <1>5, <1>6, <1>7, <1>8, <1>9, <1>11, <1>12, <1>13,
     <1>14, <1>15, <1>16, <1>17, <1>18, <1>19, <1>20, <1>22
  DEF Next, MainStep, VerbStep, GraphicsStep

\* The records, slots, reservations and registrations of one instance behave
\* as leases: one name per source, kept until the source is gone.
THEOREM BroadcastImplementsLease == ForeignNames = {} /\ Spec => ImplementsLease
<1> SUFFICES ASSUME ForeignNames = {} PROVE Spec => Lease!Spec
  BY DEF ImplementsLease
<1>1. Init => Lease!Init
  BY DEF Init, Lease!Init, LeaseOf, OnAir, NoSlot, NoRecord
<1>2. SoloInv /\ [Next]_vars => [Lease!Next]_Lease!vars
  BY LeaseNext
<1> QED
  BY <1>1, <1>2, SoloInvariant, PTL DEF Spec, Lease!Spec
=============================================================================
