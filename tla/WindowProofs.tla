---------------------------- MODULE WindowProofs ----------------------------
(***************************************************************************)
(* What the window saves and what it shows, for any profiles, frame rates, *)
(* sources, keys and cascade table.                                        *)
(*                                                                         *)
(* ProfileDesk: nothing of the sender engine is left for a task that a     *)
(* missing graphics thread never runs, the window saves over its own scene *)
(* only, and the note of the last profile dangles only after a cut.        *)
(* DeskInv says of each stage of a handler what the property says of the   *)
(* state it ends in.                                                       *)
(*                                                                         *)
(* PropertyPanel: a form at rest shows what the engine has, and a batch    *)
(* reaches its source.  PanelInv says which replies the form follows and   *)
(* what is posted to make it follow; every way to end an edit comes down   *)
(* to AppliedOK, which rests on OwnEcho: a reply that differs from the     *)
(* last one in the submitted keys only is what the form shows already.     *)
(***************************************************************************)
EXTENDS ProfileDesk, PropertyPanel, FiniteSetTheorems, SequenceTheorems, TLAPS

\* What a handler is asked to do.
LEMMA JobFields ==
  ASSUME NEW what, NEW who, NEW name
  PROVE  /\ Job(what, who, name).what = what /\ Job(what, who, name).who = who
         /\ Job(what, who, name).name = name /\ Job(what, who, name).old = None
  BY DEF Job, NoJob

LEMMA JobIsTyped ==
  ASSUME NEW what \in {"none", "load", "tier", "save", "delete", "quit"},
         NEW who \in {"none", "boot", "gui", "wire"}, NEW name \in MaybeName
  PROVE  Job(what, who, name) \in JobType
  <1>1. NoJob \in JobType
    BY DEF NoJob, JobType, Docs, MaybeName
  <1> QED BY <1>1 DEF Job, JobType

LEMMA NoJobTyped == NoJob \in JobType /\ NoJob.what = "none"
  BY DEF NoJob, JobType, Docs, MaybeName

\* A document of the directory, and what a scene leaves there.
LEMMA DocFields ==
  ASSUME NEW d \in Docs
  PROVE  d.tier \in Tiers \cup {0} /\ d.kind \in {"missing", "corrupt", "doc"}
  BY DEF Docs, Missing, Corrupt, Doc

LEMMA ReadFile ==
  ASSUME TypeOK, NEW n \in Names
  PROVE  InFile(n) \in Docs /\ FileOf[n] \in Files
  BY FilesAssumption DEF TypeOK, InFile

LEMMA SnapshotIsDoc ==
  ASSUME TypeOK, NEW n \in Names
  PROVE  Snapshot(n) \in Docs /\ Snapshot(n).kind = "doc"
  BY DEF TypeOK, Snapshot, Docs, Doc

LEMMA InitHolds == Init => DeskInv /\ LastInv
  <1> SUFFICES ASSUME Init PROVE DeskInv /\ LastInv
    OBVIOUS
  <1>1. TypeOK
    <2>1. Default \in Tiers
      BY TiersAssumption
    <2>2. live \in [content : Contents, tier : Tiers]
      BY <2>1 DEF Init, Contents
    <2>3. store \in [Files -> Docs]
      BY DEF Init, Docs
    <2> QED BY <2>2, <2>3, NoJobTyped DEF Init, TypeOK, Stages, MaybeName
  <1>2. StageInv /\ SlotsInv /\ OwnInv /\ NotedInv /\ LastInv
    BY NoJobTyped DEF Init, StageInv, SlotsInv, NoWaitStarves, OwnInv, Own, NotedInv, LastInv
  <1> QED BY <1>1, <1>2 DEF DeskInv
-----------------------------------------------------------------------------
(* What the steps that start a handler ask of it.                          *)

LEMMA BootJob ==
  ASSUME DeskInv, Boot
  PROVE  /\ stage' \in {"idle", "stopping"} /\ job' \in JobType
         /\ \/ stage' = "idle" /\ job'.what = "none"
            \/ /\ stage' = "stopping"
               /\ job'.what = "load" /\ job'.who = "boot" /\ job'.old = None
               /\ job'.name = last /\ last \in Names /\ InFile(last).kind = "doc"
         /\ stage = "idle" /\ job.what = "none" /\ active = None
         /\ live' \in [content : Contents, tier : Tiers]
         /\ up' = TRUE /\ gfx' = TRUE /\ armed' = TRUE
         /\ UNCHANGED <<disk, casting, gpu, texture, active, watched>>
  <1> TypeOK /\ StageInv
    BY DEF DeskInv
  <1>1. /\ stage = "idle" /\ active = None /\ job.what = "none"
        /\ up' = TRUE /\ gfx' = TRUE /\ armed' = TRUE
        /\ UNCHANGED <<disk, casting, gpu, texture, active, watched>>
    BY DEF Boot, StageInv
  <1>2. BootTier \in Tiers
    <2>1. CASE last # None /\ InFile(last).tier > 0
      <3>1. last \in Names
        BY <2>1 DEF TypeOK, MaybeName
      <3>2. InFile(last).tier \in Tiers \cup {0}
        BY <3>1, ReadFile, DocFields
      <3> QED BY <2>1, <3>2 DEF BootTier
    <2>2. CASE ~(last # None /\ InFile(last).tier > 0)
      BY <2>2, TiersAssumption DEF BootTier
    <2> QED BY <2>1, <2>2
  <1>3. live' \in [content : Contents, tier : Tiers]
    BY <1>2 DEF Boot, Contents
  <1>4. CASE last # None /\ Listed(last) /\ InFile(last).kind = "doc"
    <2>1. last \in Names /\ last \in MaybeName /\ InFile(last) \in Docs
      BY <1>4, ReadFile DEF TypeOK, MaybeName
    <2>2. stage' = "stopping" /\ job' = [Job("load", "boot", last) EXCEPT !.doc = InFile(last)]
      BY <1>4 DEF Boot
    <2>3. job' \in JobType
      BY <2>1, <2>2, JobIsTyped DEF JobType
    <2>4. /\ job'.what = "load" /\ job'.who = "boot" /\ job'.old = None /\ job'.name = last
      BY <2>2, JobFields DEF Job, NoJob
    <2> QED BY <1>1, <1>3, <1>4, <2>1, <2>2, <2>3, <2>4
  <1>5. CASE ~(last # None /\ Listed(last) /\ InFile(last).kind = "doc")
    BY <1>1, <1>3, <1>5, NoJobTyped DEF Boot
  <1> QED BY <1>4, <1>5

LEMMA LoadJob ==
  ASSUME DeskInv, NEW n \in Names, NEW who \in {"gui", "wire"}, LoadProfile(n, who)
  PROVE  /\ stage = "idle" /\ job.what = "none" /\ stage' = "stopping" /\ job' \in JobType
         /\ job'.what = "load" /\ job'.who = who /\ job'.old = None /\ job'.name = n
         /\ InFile(n).kind = "doc"
         /\ UNCHANGED <<disk, up, live, engine, active, watched>>
  <1> TypeOK /\ StageInv
    BY DEF DeskInv
  <1>1. /\ stage = "idle" /\ stage' = "stopping" /\ InFile(n).kind = "doc"
        /\ job' = [Job("load", who, n) EXCEPT !.doc = InFile(n)]
        /\ UNCHANGED <<disk, up, live, engine, active, watched>>
    BY DEF LoadProfile, Ready
  <1>2. job' \in JobType
    <2>1. n \in MaybeName /\ InFile(n) \in Docs
      BY ReadFile DEF MaybeName
    <2> QED BY <1>1, <2>1, JobIsTyped DEF JobType
  <1>3. job'.what = "load" /\ job'.who = who /\ job'.old = None /\ job'.name = n
    BY <1>1 DEF Job, NoJob
  <1> QED BY <1>1, <1>2, <1>3 DEF StageInv

LEMMA TierJob ==
  ASSUME DeskInv, NEW t \in Tiers, SetFpsTier(t)
  PROVE  /\ stage = "idle" /\ job.what = "none" /\ stage' = "stopping" /\ job' \in JobType
         /\ job'.what = "tier" /\ casting' = FALSE /\ gpu' = FALSE
         /\ job'.doc.tier = t /\ t # live.tier /\ t > 0
         /\ UNCHANGED <<disk, up, live, gfx, armed, texture, active, watched>>
  <1> TypeOK /\ StageInv
    BY DEF DeskInv
  <1>1. /\ stage = "idle" /\ stage' = "stopping" /\ casting' = FALSE /\ gpu' = FALSE
        /\ job' = [Job("tier", "gui", None) EXCEPT !.was = casting,
                                                   !.doc = Doc(None, "none", t)]
        /\ t # live.tier
        /\ UNCHANGED <<disk, up, live, gfx, armed, texture, active, watched>>
    BY DEF SetFpsTier, Ready
  <1>2. job' \in JobType
    <2>1. Job("tier", "gui", None) \in JobType
      BY JobIsTyped DEF MaybeName
    <2>2. casting \in BOOLEAN /\ Doc(None, "none", t) \in {Doc(None, "none", u) : u \in Tiers}
      BY DEF TypeOK
    <2> QED BY <1>1, <2>1, <2>2 DEF JobType
  <1>3. job'.what = "tier" /\ job'.doc.tier = t
    BY <1>1 DEF Job, NoJob, Doc
  <1>4. t > 0
    BY TiersAssumption
  <1> QED BY <1>1, <1>2, <1>3, <1>4 DEF StageInv

LEMMA SaveJob ==
  ASSUME DeskInv, NEW n \in Names, NEW who \in {"gui", "wire"}, NEW old \in {None, active},
         SaveProfile(n, who, old)
  PROVE  /\ stage = "idle" /\ job.what = "none" /\ stage' = "remembering" /\ job' \in JobType
         /\ job'.what = "save" /\ job'.who = who /\ job'.old = old /\ job'.name = n
         /\ old # None => who = "gui" /\ old \in Names
         /\ store' = [store EXCEPT ![FileOf[n]] = Snapshot(n)]
         /\ Owned(n, who)
         /\ UNCHANGED <<last, up, live, engine, active, torn, recast>>
  <1> TypeOK /\ StageInv
    BY DEF DeskInv
  <1>1. /\ stage = "idle" /\ stage' = "remembering"
        /\ job' = [Job("save", who, n) EXCEPT !.old = old]
        /\ old # None => who = "gui"
        /\ store' = [store EXCEPT ![FileOf[n]] = Snapshot(n)]
        /\ Owned(n, who)
        /\ UNCHANGED <<last, up, live, engine, active, torn, recast>>
    BY DEF SaveProfile, Ready
  <1>2. old \in MaybeName /\ n \in MaybeName
    BY DEF TypeOK, MaybeName
  <1>3. job' \in JobType
    BY <1>1, <1>2, JobIsTyped DEF JobType
  <1>4. job'.what = "save" /\ job'.who = who /\ job'.old = old /\ job'.name = n
    BY <1>1 DEF Job, NoJob
  <1> QED BY <1>1, <1>2, <1>3, <1>4 DEF StageInv, MaybeName

LEMMA DeleteJob ==
  ASSUME DeskInv, NEW n \in Names, NEW who \in {"gui", "wire"}, DeleteProfile(n, who)
  PROVE  /\ stage = "idle" /\ job.what = "none" /\ stage' = "removing" /\ job' \in JobType
         /\ job'.what = "delete" /\ job'.old = n /\ job'.name = n
         /\ UNCHANGED <<disk, up, live, engine, active, watched>>
  <1> TypeOK /\ StageInv
    BY DEF DeskInv
  <1>1. /\ stage = "idle" /\ stage' = "removing"
        /\ job' = [Job("delete", who, n) EXCEPT !.old = n]
        /\ UNCHANGED <<disk, up, live, engine, active, watched>>
    BY DEF DeleteProfile, Ready
  <1>2. job' \in JobType
    <2>1. n \in MaybeName
      BY DEF MaybeName
    <2> QED BY <1>1, <2>1, JobIsTyped DEF JobType
  <1>3. job'.what = "delete" /\ job'.old = n /\ job'.name = n
    BY <1>1 DEF Job, NoJob
  <1> QED BY <1>1, <1>2, <1>3 DEF StageInv

LEMMA QuitJob ==
  ASSUME DeskInv, Quit
  PROVE  /\ stage = "idle" /\ job.what = "none" /\ stage' = "quitting" /\ job' \in JobType
         /\ job'.what = "quit" /\ up
         /\ UNCHANGED <<disk, up, live, engine, active, watched>>
  <1>1. job' = Job("quit", "gui", None) /\ Job("quit", "gui", None) \in JobType
    BY JobIsTyped DEF Quit, MaybeName
  <1> QED BY <1>1, JobFields DEF Quit, Ready, DeskInv, StageInv

\* How a process ends, and that a wait for ever is the end of its handler.
LEMMA ProcessEnds ==
  ASSUME TypeOK, Crash \/ Exit
  PROVE  /\ up' = FALSE /\ stage' = "idle" /\ job' = NoJob /\ casting' = FALSE /\ gpu' = FALSE
         /\ gfx' = FALSE /\ armed' = FALSE /\ texture' = FALSE /\ recast' = FALSE
         /\ active' = None /\ origin' = None /\ strayed' = FALSE
         /\ live' = [content |-> "empty", tier |-> Default]
         /\ UNCHANGED disk
         /\ torn' \in BOOLEAN /\ (torn \/ stage = "forgetting" => torn')
  BY DEF Crash, Exit, Gone, Done, TypeOK

LEMMA WaitsForEver ==
  ASSUME Starve
  PROVE  /\ up /\ stage \in {"idle", "draining", "quitting"} /\ stage' = "waiting"
         /\ ~gfx /\ (casting \/ (stage = "quitting" /\ texture))
         /\ UNCHANGED <<disk, up, live, engine, job, active, watched>>
  BY DEF Starve, Served, Posts
-----------------------------------------------------------------------------
(* Every step, conjunct by conjunct.                                       *)

LEMMA JobDocTier ==
  ASSUME TypeOK, job.doc.tier > 0
  PROVE  job.doc.tier \in Tiers
  <1>1. job.doc \in Docs \cup {Doc(None, "none", t) : t \in Tiers}
    BY DEF TypeOK, JobType
  <1>2. job.doc \in Docs => job.doc.tier \in Tiers \cup {0}
    BY DocFields
  <1>3. job.doc \in {Doc(None, "none", t) : t \in Tiers} => job.doc.tier \in Tiers
    BY DEF Doc
  <1> QED BY <1>1, <1>2, <1>3

\* What the steps that change the directory leave in it.
LEMMA StoreTyped ==
  ASSUME TypeOK, NEW n \in Names, NEW d \in Docs,
         store' = [store EXCEPT ![FileOf[n]] = d]
  PROVE  store' \in [Files -> Docs]
  BY DEF TypeOK

LEMMA ImportedDoc ==
  ASSUME NEW n \in Names, Import(n)
  PROVE  \E d \in Docs : store' = [store EXCEPT ![FileOf[n]] = d]
  <1>1. Texts(n) \subseteq Docs
    BY DEF Texts, Docs
  <1> QED BY <1>1 DEF Import

LEMMA TypeNext ==
  ASSUME DeskInv, Next
  PROVE  TypeOK'
  <1> TypeOK /\ StageInv
    BY DEF DeskInv
  <1> USE DEF disk, engine, watched, vars
  <1>1. CASE Boot
    BY <1>1, BootJob DEF TypeOK, Stages
  <1>2. CASE Crash \/ Exit
    <2>1. live' \in [content : Contents, tier : Tiers]
      <3>1. live' = [content |-> "empty", tier |-> Default]
        BY <1>2, ProcessEnds
      <3> QED BY ONLY <3>1, TiersAssumption DEF Contents
    <2> QED BY <1>2, <2>1, ProcessEnds, NoJobTyped DEF TypeOK, Stages, MaybeName
  <1>3. CASE Render \/ Preview \/ Starve
    BY <1>3 DEF Render, Preview, Starve, TypeOK, Stages
  <1>4. CASE Edit
    <2>1. live' \in [content : Contents, tier : Tiers]
      BY <1>4 DEF Edit, TypeOK, Contents
    <2> QED BY <1>4, <2>1 DEF Edit, TypeOK
  <1>5. CASE StartBroadcast \/ StopBroadcast
    BY <1>5 DEF StartBroadcast, StopBroadcast, TypeOK
  <1>6. ASSUME NEW t \in Tiers, SetFpsTier(t) PROVE TypeOK'
    BY <1>6, TierJob DEF TypeOK, Stages
  <1>7. CASE Rearm
    <2>1. casting' \in BOOLEAN
      BY <1>7 DEF Rearm, TypeOK, JobType
    <2> QED BY <1>7, <2>1, NoJobTyped DEF Rearm, Done, TypeOK, Stages
  <1>8. CASE EngineStop
    BY <1>8 DEF EngineStop, TypeOK, Stages
  <1>9. CASE EngineDrain
    <2>1. live' \in [content : Contents, tier : Tiers]
      BY <1>9 DEF EngineDrain, Released, TypeOK, Contents
    <2> QED BY <1>9, <2>1 DEF EngineDrain, TypeOK, Stages
  <1>10. CASE Reset
    <2>1. live' \in [content : Contents, tier : Tiers]
      <3>1. job.doc.tier > 0 => job.doc.tier \in Tiers
        BY JobDocTier
      <3> QED BY <1>10, <3>1 DEF Reset, NeedsReset, TypeOK
    <2> QED BY <1>10, <2>1 DEF Reset, TypeOK, Stages
  <1>11. CASE ResetFails
    BY <1>11, NoJobTyped DEF ResetFails, Done, TypeOK, Stages
  <1>12. ASSUME NEW n \in Names, Import(n) PROVE TypeOK'
    <2>1. PICK d \in Docs : store' = [store EXCEPT ![FileOf[n]] = d]
      BY <1>12, ImportedDoc
    <2>2. store' \in [Files -> Docs]
      BY ONLY TypeOK, <2>1, StoreTyped
    <2> QED BY <1>12, <2>2 DEF Import, TypeOK
  <1>13. ASSUME NEW n \in Names, NEW who \in {"gui", "wire"}, NEW old \in {None, active},
                SaveProfile(n, who, old)
         PROVE  TypeOK'
    <2>1. store' \in [Files -> Docs]
      BY <1>13, SaveJob, SnapshotIsDoc, StoreTyped
    <2>2. origin' \in MaybeName /\ strayed' \in BOOLEAN
      BY <1>13, SaveJob DEF Owned, TypeOK, MaybeName
    <2> QED BY <1>13, <2>1, <2>2, SaveJob DEF TypeOK, Stages
  <1>14. ASSUME NEW n \in Names, NEW who \in {"gui", "wire"}, LoadProfile(n, who)
         PROVE  TypeOK'
    BY <1>14, LoadJob DEF TypeOK, Stages
  <1>15. ASSUME NEW n \in Names, NEW who \in {"gui", "wire"}, LoadRefused(n, who)
         PROVE  TypeOK'
    BY <1>15 DEF LoadRefused, TypeOK
  <1>16. ASSUME NEW n \in Names, NEW who \in {"gui", "wire"}, DeleteProfile(n, who)
         PROVE  TypeOK'
    BY <1>16, DeleteJob DEF TypeOK, Stages
  <1>17. CASE Build
    <2>1. job.name \in Names
      BY <1>17 DEF Build, StageInv
    <2>2. live' \in [content : Contents, tier : Tiers]
      BY <1>17 DEF Build, Adopted, TypeOK, Contents
    <2>3. origin' \in MaybeName /\ strayed' \in BOOLEAN
      BY <1>17, <2>1 DEF Build, TypeOK, MaybeName
    <2>4. stage' \in Stages /\ job' \in JobType
      BY <1>17, NoJobTyped DEF Build, Done, TypeOK, Stages
    <2> QED BY <1>17, <2>2, <2>3, <2>4 DEF Build, TypeOK
  <1>18. CASE Remember
    <2>1. job.name \in Names
      BY <1>18 DEF Remember, StageInv
    <2>2. last' \in MaybeName /\ active' \in MaybeName /\ torn' \in BOOLEAN
      BY <1>18, <2>1 DEF Remember, TypeOK, MaybeName
    <2>3. stage' \in Stages /\ job' \in JobType
      BY <1>18, NoJobTyped DEF Remember, Done, TypeOK, Stages
    <2> QED BY <1>18, <2>2, <2>3 DEF Remember, TypeOK
  <1>19. CASE RemoveFile
    <2>1. job.old \in Names /\ job.name \in MaybeName
      BY <1>19 DEF RemoveFile, StageInv, TypeOK, JobType
    <2>2. store' \in [Files -> Docs]
      BY <1>19, <2>1, StoreTyped DEF RemoveFile, TypeOK, Docs
    <2>3. active' \in MaybeName
      BY <1>19, <2>1 DEF RemoveFile, TypeOK
    <2>4. stage' \in Stages /\ job' \in JobType
      BY <1>19, NoJobTyped DEF RemoveFile, Done, TypeOK, Stages
    <2> QED BY <1>19, <2>2, <2>3, <2>4 DEF RemoveFile, TypeOK
  <1>20. CASE Forget
    <2>1. active' \in MaybeName
      BY <1>20 DEF Forget, AfterDelete, TypeOK, JobType, MaybeName
    <2>2. last' \in MaybeName /\ torn' \in BOOLEAN
      BY <1>20 DEF Forget, TypeOK, MaybeName
    <2> QED BY <1>20, <2>1, <2>2, NoJobTyped DEF Forget, Done, TypeOK, Stages
  <1>21. CASE Quit
    BY <1>21, QuitJob DEF TypeOK, Stages
  <1> QED
    BY <1>1, <1>2, <1>3, <1>4, <1>5, <1>6, <1>7, <1>8, <1>9, <1>10, <1>11, <1>12,
       <1>13, <1>14, <1>15, <1>16, <1>17, <1>18, <1>19, <1>20, <1>21 DEF Next

\* A step of the engine or of the window leaves the handler or ends it.
LEMMA StageNext ==
  ASSUME DeskInv, Next
  PROVE  StageInv'
  <1> TypeOK /\ StageInv
    BY DEF DeskInv
  <1>1. CASE Boot
    BY <1>1, BootJob DEF StageInv, TypeOK, MaybeName
  <1>2. CASE Rearm \/ ResetFails
    <2>1. up /\ up' /\ stage' = "idle" /\ job' = NoJob
      BY <1>2 DEF Rearm, ResetFails, Done, StageInv
    <2> QED BY ONLY <2>1, NoJobTyped DEF NoJob, StageInv
  <1>18. CASE Forget
    BY <1>18 DEF Forget, Done, NoJob, StageInv
  <1>3. CASE Render \/ Preview \/ Edit \/ StartBroadcast \/ StopBroadcast
    BY <1>3 DEF Render, Preview, Edit, StartBroadcast, StopBroadcast, Ready, StageInv
  <1>4. ASSUME NEW t \in Tiers, SetFpsTier(t) PROVE StageInv'
    BY <1>4, TierJob DEF SetFpsTier, Ready, StageInv
  <1>5. CASE EngineStop \/ EngineDrain
    BY <1>5 DEF EngineStop, EngineDrain, StageInv
  <1>6. CASE Reset
    BY <1>6 DEF Reset, StageInv
  <1>7. ASSUME NEW n \in Names, Import(n) PROVE StageInv'
    BY <1>7 DEF Import, StageInv
  <1>8. ASSUME NEW n \in Names, NEW who \in {"gui", "wire"}, NEW old \in {None, active},
               SaveProfile(n, who, old)
        PROVE  StageInv'
    BY <1>8, SaveJob DEF SaveProfile, Ready, StageInv
  <1>9. ASSUME NEW n \in Names, NEW who \in {"gui", "wire"}, LoadProfile(n, who)
        PROVE  StageInv'
    BY <1>9, LoadJob DEF LoadProfile, Ready, StageInv
  <1>10. ASSUME NEW n \in Names, NEW who \in {"gui", "wire"}, LoadRefused(n, who)
         PROVE  StageInv'
    BY <1>10 DEF LoadRefused, vars, StageInv
  <1>11. ASSUME NEW n \in Names, NEW who \in {"gui", "wire"}, DeleteProfile(n, who)
         PROVE  StageInv'
    BY <1>11, DeleteJob DEF DeleteProfile, Ready, StageInv
  <1>12. CASE Build
    BY <1>12 DEF Build, Done, NoJob, StageInv
  <1>13. CASE Remember
    BY <1>13 DEF Remember, Done, NoJob, StageInv, TypeOK, JobType, MaybeName
  <1>14. CASE RemoveFile
    BY <1>14 DEF RemoveFile, Done, NoJob, StageInv
  <1>15. CASE Crash \/ Exit
    BY <1>15, ProcessEnds, NoJobTyped DEF NoJob, StageInv
  <1>16. CASE Quit
    BY <1>16, QuitJob DEF StageInv
  <1>17. CASE Starve
    BY <1>17, WaitsForEver DEF StageInv
  <1> QED
    BY <1>1, <1>2, <1>3, <1>4, <1>5, <1>6, <1>7, <1>8, <1>9, <1>10, <1>11, <1>12,
       <1>13, <1>14, <1>15, <1>16, <1>17, <1>18 DEF Next

\* The slots go before the reset, and only a broadcast or a reset that has started the
\* graphics thread again brings them back.
LEMMA SlotsNext ==
  ASSUME DeskInv, Next
  PROVE  SlotsInv'
  <1> TypeOK /\ SlotsInv /\ StageInv
    BY DEF DeskInv
  <1> USE DEF SlotsInv, NoWaitStarves, engine, watched
  <1>1. CASE Boot
    BY <1>1, BootJob DEF StageInv
  <1>2. CASE Crash \/ Exit
    BY <1>2, ProcessEnds, NoJobTyped
  <1>3. CASE Render \/ Preview
    BY <1>3 DEF Render, Preview, NeedsReset
  <1>4. CASE Edit \/ StopBroadcast
    BY <1>4 DEF Edit, StopBroadcast, Ready
  <1>18. CASE StartBroadcast
    BY <1>18 DEF StartBroadcast, Ready, TypeOK
  <1>5. ASSUME NEW t \in Tiers, SetFpsTier(t) PROVE SlotsInv'
    BY <1>5, TierJob DEF NeedsReset
  <1>6. CASE Rearm
    BY <1>6, NoJobTyped DEF Rearm, Done
  <1>7. CASE EngineStop
    BY <1>7 DEF EngineStop, NeedsReset
  <1>8. CASE EngineDrain
    <2>1. live'.tier = live.tier
      BY <1>8 DEF EngineDrain, Released, TypeOK
    <2> QED BY <1>8, <2>1 DEF EngineDrain, NeedsReset
  <1>9. CASE Reset
    BY <1>9 DEF Reset, StageInv
  <1>10. CASE ResetFails
    BY <1>10, NoJobTyped DEF ResetFails, Done, StageInv
  <1>11. CASE Starve
    BY <1>11, WaitsForEver DEF StageInv
  <1>12. CASE Quit
    BY <1>12, QuitJob
  <1>13. CASE \E n \in Names, who \in {"gui", "wire"} : Import(n) \/ LoadRefused(n, who)
    BY <1>13 DEF Import, LoadRefused, vars, Ready, NeedsReset
  <1>14. ASSUME NEW n \in Names, NEW who \in {"gui", "wire"}, NEW old \in {None, active},
                SaveProfile(n, who, old)
         PROVE  SlotsInv'
    BY <1>14, SaveJob
  <1>15. ASSUME NEW n \in Names, NEW who \in {"gui", "wire"}, LoadProfile(n, who)
         PROVE  SlotsInv'
    BY <1>15, LoadJob
  <1>16. ASSUME NEW n \in Names, NEW who \in {"gui", "wire"}, DeleteProfile(n, who)
         PROVE  SlotsInv'
    BY <1>16, DeleteJob
  <1>17. CASE Build \/ Remember \/ RemoveFile \/ Forget
    BY <1>17, NoJobTyped DEF Build, Remember, RemoveFile, Forget, Done
  <1> QED
    BY <1>1, <1>2, <1>3, <1>4, <1>5, <1>6, <1>7, <1>8, <1>9, <1>10, <1>11, <1>12,
       <1>13, <1>14, <1>15, <1>16, <1>17, <1>18 DEF Next

\* Who the scene belongs to only changes with a load or with a save of the window.
LEMMA OwnNext ==
  ASSUME DeskInv, Next
  PROVE  OwnInv'
  <1> TypeOK /\ StageInv /\ OwnInv
    BY DEF DeskInv
  <1> USE DEF OwnInv, Own, watched
  <1>1. CASE Boot
    BY <1>1, BootJob DEF StageInv
  <1>2. CASE Crash \/ Exit
    BY <1>2, ProcessEnds, NoJobTyped
  <1>3. CASE Render \/ Preview \/ Edit \/ StartBroadcast \/ StopBroadcast
    BY <1>3 DEF Render, Preview, Edit, StartBroadcast, StopBroadcast, Ready
  <1>4. ASSUME NEW t \in Tiers, SetFpsTier(t) PROVE OwnInv'
    BY <1>4, TierJob
  <1>5. CASE Rearm
    BY <1>5, NoJobTyped DEF Rearm, Done, StageInv
  <1>17. CASE ResetFails
    <2>1. strayed => strayed'
      BY <1>17 DEF ResetFails, TypeOK
    <2> QED BY <1>17, <2>1, NoJobTyped DEF ResetFails, Done, StageInv
  <1>6. CASE EngineStop \/ EngineDrain \/ Reset
    BY <1>6 DEF EngineStop, EngineDrain, Reset, StageInv
  <1>7. ASSUME NEW n \in Names, Import(n) PROVE OwnInv'
    BY <1>7 DEF Import, Ready
  <1>8. ASSUME NEW n \in Names, NEW who \in {"gui", "wire"}, NEW old \in {None, active},
               SaveProfile(n, who, old)
        PROVE  OwnInv'
    BY <1>8, SaveJob DEF Owned
  <1>9. ASSUME NEW n \in Names, NEW who \in {"gui", "wire"}, LoadProfile(n, who)
        PROVE  OwnInv'
    BY <1>9, LoadJob
  <1>10. ASSUME NEW n \in Names, NEW who \in {"gui", "wire"}, LoadRefused(n, who)
         PROVE  OwnInv'
    BY <1>10 DEF LoadRefused, vars
  <1>11. ASSUME NEW n \in Names, NEW who \in {"gui", "wire"}, DeleteProfile(n, who)
         PROVE  OwnInv'
    BY <1>11, DeleteJob
  <1>12. CASE Build
    <2>1. job.what = "load" /\ job.name \in Names /\ active' = active
      BY <1>12 DEF Build, StageInv
    <2>2. CASE origin' = job.name /\ strayed' = (job.who = "wire" /\ job.name # active)
               /\ stage' = "remembering" /\ job' = job
      BY <2>1, <2>2
    <2>3. CASE strayed' /\ job' = NoJob /\ stage' = "idle"
      BY <2>1, <2>3, NoJobTyped
    <2> QED BY <1>12, <2>2, <2>3 DEF Build, Done
  <1>13. CASE Remember
    <2>1. /\ job.what = "load" => job.old = None /\ job.who \in {"boot", "gui", "wire"}
          /\ job.what = "save" => job.who \in {"gui", "wire"} /\ (job.old # None => job.who = "gui")
          /\ job.what \in {"load", "save"}
      BY <1>13 DEF Remember, StageInv
    <2>2. UNCHANGED <<origin, strayed>>
      BY <1>13 DEF Remember
    <2>3. CASE job.old = None
      BY <1>13, <2>1, <2>2, <2>3, NoJobTyped DEF Remember, Done
    <2>4. CASE job.old # None
      BY <1>13, <2>1, <2>2, <2>4 DEF Remember
    <2> QED BY <2>3, <2>4
  <1>14. CASE RemoveFile \/ Forget
    <2>1. job.what = "save" => job.who = "gui"
      BY <1>14, NamesAssumption DEF RemoveFile, Forget, StageInv
    <2>2. UNCHANGED <<origin, strayed>>
      BY <1>14 DEF RemoveFile, Forget
    <2>3. CASE stage' = "forgetting" /\ UNCHANGED <<job, active>>
      BY <1>14, <2>1, <2>2, <2>3 DEF RemoveFile, Forget, Done
    <2>4. CASE job' = NoJob /\ stage' = "idle"
      <3>1. Own(active)'
        BY <1>14, <2>1, <2>2, <2>4 DEF RemoveFile, Forget, AfterDelete, StageInv
      <3> QED BY <2>4, <3>1, NoJobTyped
    <2> QED BY <1>14, <2>3, <2>4 DEF RemoveFile, Forget, Done
  <1>15. CASE Quit
    BY <1>15, QuitJob
  <1>16. CASE Starve
    BY <1>16, WaitsForEver DEF StageInv
  <1> QED
    BY <1>1, <1>2, <1>3, <1>4, <1>5, <1>6, <1>7, <1>8, <1>9, <1>10, <1>11, <1>12,
       <1>13, <1>14, <1>15, <1>16, <1>17 DEF Next

\* The file of a handler in progress is not taken from under it.
LEMMA NotedNext ==
  ASSUME DeskInv, Next
  PROVE  NotedInv'
  <1> TypeOK /\ StageInv /\ NotedInv
    BY DEF DeskInv
  <1> USE DEF NotedInv, InFile, disk
  <1>1. CASE Boot
    BY <1>1, BootJob
  <1>2. CASE Rearm \/ ResetFails \/ Forget
    BY <1>2, NoJobTyped DEF Rearm, ResetFails, Forget, Done
  <1>3. CASE Render \/ Preview \/ Edit \/ StartBroadcast \/ StopBroadcast
    BY <1>3 DEF Render, Preview, Edit, StartBroadcast, StopBroadcast
  <1>4. ASSUME NEW t \in Tiers, SetFpsTier(t) PROVE NotedInv'
    BY <1>4, TierJob
  <1>5. CASE EngineStop \/ EngineDrain \/ Reset
    BY <1>5 DEF EngineStop, EngineDrain, Reset
  <1>6. ASSUME NEW n \in Names, Import(n) PROVE NotedInv'
    BY <1>6 DEF Import, Ready, StageInv
  <1>7. ASSUME NEW n \in Names, NEW who \in {"gui", "wire"}, NEW old \in {None, active},
               SaveProfile(n, who, old)
        PROVE  NotedInv'
    <2>1. FileOf[n] \in Files /\ store' = [store EXCEPT ![FileOf[n]] = Snapshot(n)]
      BY <1>7, SaveJob, ReadFile
    <2>2. store'[FileOf[n]].kind = "doc"
      BY <2>1, SnapshotIsDoc DEF TypeOK
    <2> QED BY <1>7, <2>2, SaveJob
  <1>8. ASSUME NEW n \in Names, NEW who \in {"gui", "wire"}, LoadProfile(n, who)
        PROVE  NotedInv'
    BY <1>8, LoadJob
  <1>9. ASSUME NEW n \in Names, NEW who \in {"gui", "wire"},
               LoadRefused(n, who)
        PROVE  NotedInv'
    BY <1>9 DEF LoadRefused, vars
  <1>10. ASSUME NEW n \in Names, NEW who \in {"gui", "wire"}, DeleteProfile(n, who)
         PROVE  NotedInv'
    BY <1>10, DeleteJob
  <1>11. CASE Build
    <2>1. job.what = "load"
      BY <1>11 DEF Build, StageInv
    <2> QED BY <1>11, <2>1, NoJobTyped DEF Build, Done
  <1>12. CASE Remember
    BY <1>12, NoJobTyped DEF Remember, Done
  <1>13. CASE RemoveFile
    <2>1. job.what \in {"save", "delete"}
      BY <1>13 DEF RemoveFile, StageInv
    <2> QED BY <1>13, <2>1, NoJobTyped DEF RemoveFile, Done
  <1>14. CASE Crash \/ Exit
    BY <1>14, ProcessEnds, NoJobTyped
  <1>15. CASE Quit
    BY <1>15, QuitJob
  <1>16. CASE Starve
    BY <1>16, WaitsForEver
  <1> QED
    BY <1>1, <1>2, <1>3, <1>4, <1>5, <1>6, <1>7, <1>8, <1>9, <1>10, <1>11, <1>12,
       <1>13, <1>14, <1>15, <1>16 DEF Next

\* With names of their own, only its own deletion takes the last profile's file away.
LEMMA LastNext ==
  ASSUME NamesApart, DeskInv, LastInv, Next
  PROVE  LastInv'
  <1> TypeOK /\ StageInv /\ NotedInv
    BY DEF DeskInv
  <1> USE DEF LastInv, InFile, disk, watched
  <1>1. CASE Boot
    BY <1>1, BootJob
  <1>2. CASE Crash \/ Exit
    BY <1>2, ProcessEnds
  <1>3. CASE Render \/ Preview \/ Edit \/ StartBroadcast \/ StopBroadcast
    BY <1>3 DEF Render, Preview, Edit, StartBroadcast, StopBroadcast
  <1>4. ASSUME NEW t \in Tiers, SetFpsTier(t) PROVE LastInv'
    BY <1>4, TierJob
  <1>5. CASE Rearm \/ ResetFails \/ EngineStop \/ EngineDrain \/ Reset
    BY <1>5 DEF Rearm, ResetFails, EngineStop, EngineDrain, Reset
  <1>6. ASSUME NEW n \in Names, Import(n) PROVE LastInv'
    <2>1. PICK d \in Texts(n) : store' = [store EXCEPT ![FileOf[n]] = d]
      BY <1>6 DEF Import
    <2>2. d.kind # "missing"
      BY DEF Texts, Corrupt, Doc
    <2>3. stage = "idle" /\ UNCHANGED <<last, torn>>
      BY <1>6 DEF Import, Ready
    <2>4. last # None /\ InFile(last)'.kind = "missing" => InFile(last).kind = "missing"
      BY <2>1, <2>2, <2>3, FilesAssumption DEF TypeOK, MaybeName
    <2> QED BY <2>3, <2>4
  <1>7. ASSUME NEW n \in Names, NEW who \in {"gui", "wire"}, NEW old \in {None, active},
               SaveProfile(n, who, old)
        PROVE  LastInv'
    <2>1. last # None /\ InFile(last)'.kind = "missing" => InFile(last).kind = "missing"
      BY <1>7, SaveJob, SnapshotIsDoc, FilesAssumption DEF TypeOK, MaybeName
    <2> QED BY <1>7, <2>1, SaveJob
  <1>8. ASSUME NEW n \in Names, NEW who \in {"gui", "wire"}, LoadProfile(n, who)
        PROVE  LastInv'
    BY <1>8, LoadJob
  <1>9. ASSUME NEW n \in Names, NEW who \in {"gui", "wire"},
               LoadRefused(n, who)
        PROVE  LastInv'
    BY <1>9 DEF LoadRefused, vars
  <1>10. ASSUME NEW n \in Names, NEW who \in {"gui", "wire"}, DeleteProfile(n, who)
         PROVE  LastInv'
    BY <1>10, DeleteJob
  <1>11. CASE Build
    BY <1>11 DEF Build
  <1>12. CASE Remember
    <2>1. InFile(job.name).kind = "doc"
      BY <1>12 DEF Remember, NotedInv
    <2>2. CASE last' = job.name
      BY <1>12, <2>1, <2>2 DEF Remember
    <2>3. CASE last' = last /\ last' # job.name
      BY <1>12, <2>3 DEF Remember
    <2> QED BY <1>12, <2>2, <2>3 DEF Remember
  <1>13. CASE RemoveFile
    <2>1. stage = "removing" /\ job.old \in Names /\ UNCHANGED <<last, torn>>
      BY <1>13 DEF RemoveFile, StageInv
    <2>2. CASE store' = [store EXCEPT ![FileOf[job.old]] = Missing] /\ UNCHANGED job
               /\ stage' = "forgetting"
      <3>1. last # None /\ last # job.old => InFile(last)' = InFile(last)
        BY <2>1, <2>2, FilesAssumption DEF TypeOK, MaybeName, NamesApart
      <3> QED BY <2>1, <2>2, <3>1
    <2>3. CASE UNCHANGED store
      BY <2>1, <2>3
    <2> QED BY <1>13, <2>2, <2>3 DEF RemoveFile
  <1>14. CASE Forget
    BY <1>14 DEF Forget
  <1>15. CASE Quit
    BY <1>15, QuitJob
  <1>16. CASE Starve
    BY <1>16, WaitsForEver
  <1> QED
    BY <1>1, <1>2, <1>3, <1>4, <1>5, <1>6, <1>7, <1>8, <1>9, <1>10, <1>11, <1>12,
       <1>13, <1>14, <1>15, <1>16 DEF Next
-----------------------------------------------------------------------------
LEMMA DeskStays ==
  ASSUME DeskInv, [Next]_vars
  PROVE  DeskInv'
  <1>1. CASE Next
    BY <1>1, TypeNext, StageNext, SlotsNext, OwnNext, NotedNext DEF DeskInv
  <1>2. CASE UNCHANGED vars
    BY <1>2 DEF vars, disk, engine, watched, DeskInv, TypeOK, StageInv, SlotsInv,
                NoWaitStarves, NeedsReset, OwnInv, Own, NotedInv, InFile
  <1> QED BY <1>1, <1>2

LEMMA LastStays ==
  ASSUME NamesApart, DeskInv, LastInv, [Next]_vars
  PROVE  LastInv'
  <1>1. CASE Next
    BY <1>1, LastNext
  <1>2. CASE UNCHANGED vars
    BY <1>2 DEF vars, disk, watched, LastInv, InFile
  <1> QED BY <1>1, <1>2

\* The inductive invariant, for any names, spellings of one file included.
LEMMA DeskInvariant == Spec => []DeskInv
  BY InitHolds, DeskStays, PTL DEF Spec

(***************************************************************************)
(* For any profiles and rates: whichever reset failed and left libobs      *)
(* without its graphics thread, the main thread waits for that thread for  *)
(* ever only in taking down a broadcast that was started after it was gone *)
(* or, in the exit, for the preview's texrender; and the thread never ends *)
(* with a GPU object of a sender slot left.                                *)
(***************************************************************************)
THEOREM LoadsLeaveNoWait == Spec => []NoWaitStarves
  <1>1. DeskInv => NoWaitStarves
    BY DEF DeskInv, SlotsInv
  <1> QED BY <1>1, DeskInvariant, PTL

(***************************************************************************)
(* A Save of the window never writes one profile's scene over another:     *)
(* through any sequence of loads, renames, deletions, imports, failures    *)
(* and crashes, and also when several names are spellings of one file.     *)
(***************************************************************************)
THEOREM WindowSavesItsOwn == Spec => []SavesOwnScene
  <1>1. DeskInv => SavesOwnScene
    BY DEF DeskInv, StageInv, OwnInv, Own, SavesOwnScene, Ready
  <1> QED BY <1>1, DeskInvariant, PTL

(***************************************************************************)
(* When no two names share a file, a restart finds the last profile it     *)
(* noted, unless a deletion or the note was cut short.  (With two          *)
(* spellings of a file, deleting the one leaves a note of the other.)      *)
(***************************************************************************)
THEOREM LastProfileIsThere == NamesApart /\ Spec => []DanglingOnlyAfterTear
  <1>1. LastInv => DanglingOnlyAfterTear
    BY DEF LastInv, DanglingOnlyAfterTear
  <1>2. NamesApart /\ Spec => []LastInv
    <2> SUFFICES ASSUME NamesApart PROVE Spec => []LastInv
      OBVIOUS
    <2>1. DeskInv /\ LastInv /\ [Next]_vars => LastInv'
      BY LastStays
    <2> QED BY InitHolds, DeskInvariant, <2>1, PTL DEF Spec
  <1> QED BY <1>1, <1>2, PTL
-----------------------------------------------------------------------------
(* Settings: a batch laid over them, and what a form shows of them.        *)

LEMMA MapFacts ==
  ASSUME NEW f \in Maps
  PROVE  /\ f \in [DOMAIN f -> Vals] /\ DOMAIN f \subseteq Keys
         /\ \A k \in DOMAIN f : f[k] \in Vals
BY DEF Maps

LEMMA MapIntro ==
  ASSUME NEW S, S \subseteq Keys, NEW f \in [S -> Vals]
  PROVE  f \in Maps
BY DEF Maps

\* The batch covers the settings.
LEMMA OverFacts ==
  ASSUME NEW f \in Maps, NEW g \in Maps
  PROVE  /\ Over(f, g) \in Maps /\ DOMAIN Over(f, g) = DOMAIN f \cup DOMAIN g
         /\ \A k \in DOMAIN f : Over(f, g)[k] = f[k]
         /\ \A k \in DOMAIN g \ DOMAIN f : Over(f, g)[k] = g[k]
<1>1. /\ f \in [DOMAIN f -> Vals] /\ g \in [DOMAIN g -> Vals]
      /\ DOMAIN f \cup DOMAIN g \subseteq Keys
  BY MapFacts
<1>2. Over(f, g) \in [DOMAIN f \cup DOMAIN g -> Vals]
  BY <1>1 DEF Over
<1>3. Over(f, g) \in Maps
  BY <1>1, <1>2, MapIntro
<1> QED
  BY <1>3 DEF Over

LEMMA OneEditFacts ==
  ASSUME NEW k \in Keys, NEW v \in Vals
  PROVE  /\ OneEdit(k, v) \in Maps /\ DOMAIN OneEdit(k, v) = {k} /\ OneEdit(k, v)[k] = v
         /\ OneEdit(k, v) # Nothing
<1>1. OneEdit(k, v) \in [{k} -> Vals]
  BY DEF OneEdit
<1>2. OneEdit(k, v) \in Maps
  BY <1>1, MapIntro
<1>3. DOMAIN OneEdit(k, v) = {k} /\ DOMAIN Nothing = {}
  BY DEF OneEdit, Nothing
<1> QED
  BY <1>2, <1>3 DEF OneEdit

LEMMA NothingFacts ==
  /\ Nothing \in Maps /\ DOMAIN Nothing = {}
  /\ \A f \in Maps : DOMAIN f = {} => f = Nothing
<1>1. Nothing \in [{} -> Vals] /\ DOMAIN Nothing = {}
  BY DEF Nothing
<1>2. Nothing \in Maps
  BY <1>1, MapIntro
<1>3. ASSUME NEW f \in Maps, DOMAIN f = {} PROVE f = Nothing
  BY <1>1, <1>3, MapFacts
<1> QED
  BY <1>1, <1>2, <1>3

\* The items of a source's dependent lists, and what its form shows.
LEMMA PropsFacts ==
  ASSUME NEW t \in Targets, NEW st \in [KeysOf[t] -> Vals]
  PROVE  /\ st \in Maps /\ Props(st) \in Maps
         /\ DOMAIN Props(st) = KeysOf[t] \cap DOMAIN Parent
         /\ \A k \in DOMAIN Props(st) : Parent[k] \in KeysOf[t] /\ Props(st)[k] = st[Parent[k]]
<1>1. KeysOf[t] \subseteq Keys /\ \A k \in DOMAIN Parent \cap KeysOf[t] : Parent[k] \in KeysOf[t]
  BY KeysAssumption
<1>2. st \in Maps
  BY <1>1, MapIntro
<1>3. Props(st) = [k \in KeysOf[t] \cap DOMAIN Parent |-> st[Parent[k]]]
  BY DEF Props
<1>4. Props(st) \in [KeysOf[t] \cap DOMAIN Parent -> Vals]
  BY <1>1, <1>3
<1>5. Props(st) \in Maps
  BY <1>1, <1>4, MapIntro
<1> QED
  BY <1>1, <1>2, <1>3, <1>5

LEMMA DisplayFacts ==
  ASSUME NEW t \in Targets, NEW st \in [KeysOf[t] -> Vals]
  PROVE  /\ Display(st) \in Maps /\ DOMAIN Display(st) = KeysOf[t]
         /\ \A k \in KeysOf[t] \cap DOMAIN Parent : Display(st)[k] = Props(st)[k]
         /\ \A k \in KeysOf[t] \ DOMAIN Parent : Display(st)[k] = st[k]
<1>1. /\ st \in Maps /\ Props(st) \in Maps /\ DOMAIN st = KeysOf[t]
      /\ DOMAIN Props(st) = KeysOf[t] \cap DOMAIN Parent
  BY PropsFacts
<1> DEFINE ps == Props(st)
<1>2. /\ Over(ps, st) \in Maps /\ DOMAIN Over(ps, st) = DOMAIN ps \cup DOMAIN st
      /\ \A k \in DOMAIN ps : Over(ps, st)[k] = ps[k]
      /\ \A k \in DOMAIN st \ DOMAIN ps : Over(ps, st)[k] = st[k]
  BY <1>1, OverFacts
<1>3. Display(st) = Over(ps, st)
  BY DEF Display
<1> HIDE DEF ps
<1>4. DOMAIN ps = KeysOf[t] \cap DOMAIN Parent
  BY <1>1 DEF ps
<1>5. DOMAIN Display(st) = KeysOf[t] /\ Display(st) \in Maps
  BY <1>1, <1>2, <1>3, <1>4
<1>6. ASSUME NEW k \in KeysOf[t] PROVE Display(st)[k] = IF k \in DOMAIN Parent THEN ps[k] ELSE st[k]
  BY <1>1, <1>2, <1>3, <1>4
<1> QED
  BY <1>5, <1>6 DEF ps

\* With nothing that shows something else than what is set, the form shows what
\* is set.
LEMMA MatchedDisplay ==
  ASSUME NEW t \in Targets, NEW st \in [KeysOf[t] -> Vals], Unmatched(st) = {}
  PROVE  \A k \in KeysOf[t] : Display(st)[k] = st[k]
<1>1. DOMAIN Props(st) = KeysOf[t] \cap DOMAIN Parent
  BY PropsFacts
<1>2. \A k \in DOMAIN Props(st) : Props(st)[k] = st[k]
  BY DEF Unmatched
<1> QED
  BY <1>1, <1>2, DisplayFacts
-----------------------------------------------------------------------------
(* The queue of posted events.                                             *)

LEMMA EventFacts ==
  /\ Reload \in Events /\ Refresh \in Events /\ Reload # Refresh
  /\ Reload \notin Commits /\ Refresh \notin Commits
  /\ Reload.do # "commit" /\ Refresh.do # "commit"
  /\ \A k \in Keys, v \in Vals : Event("commit", k, v) \in Commits
  /\ \A e \in Events : e.do = "commit" <=> e \in Commits
  /\ \A e \in Commits : e.key \in Keys /\ e.val \in Vals /\ e = Event("commit", e.key, e.val)
<1>1. Reload.do = "reload" /\ Refresh.do = "refresh"
  BY DEF Reload, Refresh, Event
<1>2. \A e \in Commits : e.do = "commit" /\ e.key \in Keys /\ e.val \in Vals
  BY DEF Commits
<1>3. \A k \in Keys, v \in Vals : Event("commit", k, v) \in Commits
  BY DEF Commits, Event
<1>4. \A e \in Commits : e = Event("commit", e.key, e.val)
  BY DEF Commits, Event
<1>5. Reload \in Events /\ Refresh \in Events /\ \A e \in Events : e = Reload \/ e = Refresh \/ e \in Commits
  BY DEF Events
<1>6. Reload # Refresh /\ Reload.do # "commit" /\ Refresh.do # "commit"
  BY <1>1
<1> QED
  BY <1>2, <1>3, <1>4, <1>5, <1>6

LEMMA AppendRange ==
  ASSUME NEW S, NEW s \in Seq(S), NEW e \in S
  PROVE  Range(Append(s, e)) = Range(s) \cup {e}
<1>1. /\ Append(s, e) \in Seq(S) /\ Len(Append(s, e)) = Len(s) + 1
      /\ \A i \in 1..Len(s) : Append(s, e)[i] = s[i]
      /\ Append(s, e)[Len(s) + 1] = e /\ Len(s) \in Nat
  BY AppendProperties
<1>2. Range(s) = {s[i] : i \in 1..Len(s)}
  BY RangeEquality
<1>3. Range(Append(s, e)) = {Append(s, e)[i] : i \in 1..(Len(s) + 1)}
  BY <1>1, RangeEquality
<1>4. 1..(Len(s) + 1) = 1..Len(s) \cup {Len(s) + 1}
  BY <1>1
<1> QED
  BY <1>1, <1>2, <1>3, <1>4

LEMMA TailRange ==
  ASSUME NEW S, NEW s \in Seq(S), s # << >>
  PROVE  /\ Range(s) = {Head(s)} \cup Range(Tail(s))
         /\ Tail(s) \in Seq(S) /\ Head(s) \in S /\ Head(s) = s[1]
<1>1. /\ Tail(s) \in Seq(S) /\ Len(Tail(s)) = Len(s) - 1 /\ Head(s) \in S
      /\ \A i \in 1..Len(Tail(s)) : Tail(s)[i] = s[i + 1]
  BY HeadTailProperties
<1>2. Range(s) = {s[i] : i \in 1..Len(s)} /\ Range(Tail(s)) = {Tail(s)[i] : i \in 1..Len(Tail(s))}
  BY <1>1, RangeEquality
<1>3. Len(s) \in Nat /\ Len(s) # 0 /\ Head(s) = s[1]
  BY EmptySeq, LenProperties
<1>4. ASSUME NEW x \in Range(s) PROVE x = Head(s) \/ x \in Range(Tail(s))
  <2>1. PICK i \in 1..Len(s) : x = s[i]
    BY <1>2
  <2>2. CASE i = 1
    BY <2>1, <2>2, <1>3
  <2>3. CASE i # 1
    <3>1. i - 1 \in 1..Len(Tail(s)) /\ (i - 1) + 1 = i
      BY <2>3, <1>1, <1>3
    <3>2. Tail(s)[i - 1] = s[i]
      BY <3>1, <1>1
    <3> QED
      BY <3>1, <3>2, <2>1, <1>2
  <2> QED
    BY <2>2, <2>3
<1>5. ASSUME NEW x \in Range(Tail(s)) PROVE x \in Range(s)
  <2>1. PICK i \in 1..Len(Tail(s)) : x = Tail(s)[i]
    BY <1>2
  <2>2. x = s[i + 1] /\ i + 1 \in 1..Len(s)
    BY <2>1, <1>1, <1>3
  <2> QED
    BY <2>2, <1>2
<1>6. Head(s) \in Range(s)
  <2>1. 1 \in 1..Len(s)
    BY <1>3
  <2> QED
    BY <2>1, <1>2, <1>3
<1> QED
  BY <1>1, <1>3, <1>4, <1>5, <1>6

\* SetToSeq leaves nothing out.
LEMMA SetToSeqFacts ==
  ASSUME NEW S, IsFiniteSet(S)
  PROVE  SetToSeq(S) \in Seq(S) /\ Range(SetToSeq(S)) = S
<1> DEFINE n == Cardinality(S)
           f == SetToSeq(S)
<1>1. n \in Nat /\ ExistsBijection(1..n, S)
  BY FS_CardinalityType
<1>2. \E g \in [1..n -> S] : IsInjective(g)
  BY <1>1 DEF ExistsBijection, Bijection, Injection
<1>3. f \in [1..n -> S] /\ IsInjective(f)
  BY <1>2 DEF SetToSeq
<1>4. f \in Injection(1..n, S)
  BY <1>3 DEF Injection
<1>5. IsFiniteSet(1..n) /\ Cardinality(1..n) = n
  BY <1>1, FS_Interval
<1>6. f \in Surjection(1..n, S)
  BY <1>4, <1>5, FS_Injection
<1>7. Range(f) = S
  BY <1>3, <1>6 DEF Surjection, Range
<1>8. f \in Seq(S)
  BY <1>1, <1>3, IsASeq
<1> QED
  BY <1>7, <1>8

\* Nothing but a refresh comes after a rebuild.
Ordered(s) == \A i, j \in DOMAIN s : i < j /\ s[i] = Reload => s[j] = Refresh

LEMMA OrderedAppend ==
  ASSUME NEW s \in Seq(Events), Ordered(s), NEW e \in Events,
         Reload \notin Range(s) \/ e = Refresh
  PROVE  Ordered(Append(s, e))
<1>1. /\ Append(s, e) \in Seq(Events) /\ Len(Append(s, e)) = Len(s) + 1
      /\ \A i \in 1..Len(s) : Append(s, e)[i] = s[i]
      /\ Append(s, e)[Len(s) + 1] = e /\ Len(s) \in Nat
  BY AppendProperties
<1>2. DOMAIN s = 1..Len(s) /\ DOMAIN Append(s, e) = 1..(Len(s) + 1)
  BY <1>1, LenProperties
<1> DEFINE a == Append(s, e)
<1>3. SUFFICES ASSUME NEW i \in DOMAIN a, NEW j \in DOMAIN a, i < j, a[i] = Reload
               PROVE  a[j] = Refresh
  BY DEF Ordered
<1> HIDE DEF a
<1>4. i \in 1..Len(s) /\ a[i] = s[i]
  BY <1>1, <1>2, <1>3 DEF a
<1>5. CASE j = Len(s) + 1
  <2>1. Reload \in Range(s)
    BY <1>2, <1>3, <1>4 DEF Range
  <2> QED
    BY <2>1, <1>1, <1>5 DEF a
<1>6. CASE j # Len(s) + 1
  <2>1. j \in 1..Len(s) /\ a[j] = s[j]
    BY <1>1, <1>2, <1>3, <1>6 DEF a
  <2> QED
    BY <2>1, <1>2, <1>3, <1>4 DEF Ordered
<1> QED
  BY <1>5, <1>6

LEMMA OrderedTail ==
  ASSUME NEW s \in Seq(Events), Ordered(s), s # << >>
  PROVE  /\ Ordered(Tail(s))
         /\ Head(s) = Reload => Range(Tail(s)) \subseteq {Refresh}
<1>1. /\ Tail(s) \in Seq(Events) /\ Len(Tail(s)) = Len(s) - 1
      /\ \A i \in 1..Len(Tail(s)) : Tail(s)[i] = s[i + 1]
  BY HeadTailProperties
<1>2. Len(s) \in Nat /\ Len(s) # 0 /\ Head(s) = s[1] /\ DOMAIN s = 1..Len(s)
  BY EmptySeq, LenProperties
<1>3. DOMAIN Tail(s) = 1..Len(Tail(s))
  BY <1>1, LenProperties
<1>4. \A i \in DOMAIN Tail(s) : i + 1 \in DOMAIN s /\ Tail(s)[i] = s[i + 1] /\ 1 < i + 1
  BY <1>1, <1>2, <1>3
<1>5. ASSUME NEW i \in DOMAIN Tail(s), NEW j \in DOMAIN Tail(s), i < j, Tail(s)[i] = Reload
      PROVE  Tail(s)[j] = Refresh
  <2>1. i + 1 < j + 1
    BY <1>3, <1>5
  <2> QED
    BY <2>1, <1>4, <1>5 DEF Ordered
<1>6. ASSUME Head(s) = Reload, NEW x \in Range(Tail(s)) PROVE x = Refresh
  <2>1. PICK j \in DOMAIN Tail(s) : x = Tail(s)[j]
    BY <1>6 DEF Range
  <2>2. 1 \in DOMAIN s
    BY <1>2
  <2> QED
    BY <2>1, <2>2, <1>2, <1>4, <1>6 DEF Ordered
<1> QED
  BY <1>5, <1>6 DEF Ordered

LEMMA OrderedFree ==
  ASSUME NEW s \in Seq(Events), Reload \notin Range(s)
  PROVE  Ordered(s)
  BY DEF Ordered, Range

LEMMA QueueIsOrdered ==
  ASSUME NEW p \in PanelType
  PROVE  QueueInv(p) <=> (p.queued <=> In(Reload, p)) /\ Ordered(p.posted)
  BY DEF QueueInv, Ordered
-----------------------------------------------------------------------------
(* What the panel's own steps leave alone, and what they keep.             *)

\* The form and what the hand holds.
Kept(q, p) ==
  /\ q.bound = p.bound /\ q.form = p.form /\ q.pending = p.pending
  /\ q.debounce = p.debounce /\ q.drag = p.drag /\ q.typing = p.typing

\* Whatever is posted stays posted, and it is only a rebuild that joins it.
Joined(q, p) == /\ \A e : In(e, p) => In(e, q)
                /\ \A e : In(e, q) => e = Reload \/ In(e, p)

LEMMA ScheduleFacts ==
  ASSUME NEW p \in PanelType, QueueInv(p)
  PROVE  LET q == ScheduleReload(p)
         IN /\ q \in PanelType /\ QueueInv(q) /\ Kept(q, p) /\ Joined(q, p)
            /\ q.queued /\ ~q.suppress
            /\ q.lastProperties = p.lastProperties /\ q.lastSettings = p.lastSettings
            /\ q.deferred = p.deferred /\ q.parted = p.parted /\ q.dropped = p.dropped
<1> DEFINE s == IF p.queued THEN p.posted ELSE Append(p.posted, Reload)
           q == ScheduleReload(p)
<1>1. p.posted \in Seq(Events) /\ p.queued \in BOOLEAN
  BY DEF PanelType
<1>2. (p.queued <=> In(Reload, p)) /\ Ordered(p.posted)
  BY QueueIsOrdered
<1>3. s \in Seq(Events) /\ Ordered(s) /\ Range(s) = Range(p.posted) \cup {Reload}
  <2>1. CASE p.queued
    BY <2>1, <1>1, <1>2 DEF In
  <2>2. CASE ~p.queued
    <3>1. Reload \notin Range(p.posted)
      BY <2>2, <1>2 DEF In
    <3>2. s = Append(p.posted, Reload)
      BY <2>2
    <3> HIDE DEF s
    <3>3. Append(p.posted, Reload) \in Seq(Events) /\ Ordered(Append(p.posted, Reload))
      BY <3>1, <1>1, <1>2, EventFacts, OrderedAppend, AppendProperties
    <3> QED
      BY <3>2, <3>3, <1>1, EventFacts, AppendRange
  <2> QED
    BY <2>1, <2>2
<1>4. q = [p EXCEPT !.suppress = FALSE, !.queued = TRUE, !.posted = s]
  BY DEF ScheduleReload
<1> HIDE DEF s, q
<1>5. q \in PanelType
  BY <1>3, <1>4 DEF PanelType
<1>6. /\ q.bound = p.bound /\ q.form = p.form /\ q.pending = p.pending
      /\ q.debounce = p.debounce /\ q.trailing = p.trailing
      /\ q.drag = p.drag /\ q.typing = p.typing
      /\ q.lastProperties = p.lastProperties /\ q.lastSettings = p.lastSettings
      /\ q.deferred = p.deferred /\ q.parted = p.parted /\ q.dropped = p.dropped
      /\ q.posted = s /\ q.queued = TRUE /\ q.suppress = FALSE
  BY <1>4 DEF PanelType
<1>7. QueueInv(q)
  BY <1>3, <1>5, <1>6, QueueIsOrdered DEF In
<1>8. Joined(q, p)
  BY <1>3, <1>6 DEF Joined, In
<1> QED
  BY <1>5, <1>6, <1>7, <1>8 DEF Kept, q

LEMMA KeptBatch ==
  ASSUME NEW p, NEW q, Kept(q, p), BatchInv(p)
  PROVE  BatchInv(q)
  BY DEF Kept, BatchInv

LEMMA KeptBinding ==
  ASSUME NEW p, NEW q, NEW there, Kept(q, p), In(Refresh, p) => In(Refresh, q),
         BindingInv(p, there)
  PROVE  BindingInv(q, there)
  BY DEF Kept, BindingInv

LEMMA KeptFollows ==
  ASSUME NEW p, NEW q, Kept(q, p), Joined(q, p),
         q.lastProperties = p.lastProperties, q.lastSettings = p.lastSettings,
         FollowsLast(p)
  PROVE  FollowsLast(q)
<1>1. \A e \in Commits : In(e, q) => In(e, p)
  BY EventFacts DEF Joined
<1>2. \A e : In(e, p) => In(e, q)
  BY DEF Joined
<1>3. \A k : In(Event("commit", k, q.lastProperties[k]), p) => In(Event("commit", k, q.lastProperties[k]), q)
  BY <1>2
<1> QED
  BY <1>1, <1>3 DEF Kept, FollowsLast

\* As long as nothing parted the panel from the reply it keeps.
Follows(p, there) == p.bound # NoSource /\ there = "live" /\ ~p.parted => FollowsLast(p)

LEMMA FollowsFromForm ==
  ASSUME NEW p, NEW there, NEW st, FormInv(p, there, st)
  PROVE  Follows(p, there)
  BY DEF Follows, FormInv

\* With a rebuild posted it does not matter what the engine has.
LEMMA ScheduleOK ==
  ASSUME NEW p \in PanelType, NEW there, NEW st, QueueInv(p), BindingInv(p, there),
         BatchInv(p), ParkedInv(p), Follows(p, there)
  PROVE  PanelOK(ScheduleReload(p), there, st)
<1> DEFINE q == ScheduleReload(p)
<1>1. /\ q \in PanelType /\ QueueInv(q) /\ Kept(q, p) /\ Joined(q, p)
      /\ q.queued /\ ~q.suppress
      /\ q.lastProperties = p.lastProperties /\ q.lastSettings = p.lastSettings
      /\ q.deferred = p.deferred /\ q.parted = p.parted
  BY ScheduleFacts
<1> HIDE DEF q
<1>2. BatchInv(q)
  BY <1>1, KeptBatch
<1>3. BindingInv(q, there)
  BY <1>1, KeptBinding DEF Joined
<1>4. ParkedInv(q)
  BY <1>1 DEF ParkedInv, Kept
<1>5. Follows(q, there)
  BY <1>1, KeptFollows DEF Follows, Kept
<1>6. Due(q)
  BY <1>1 DEF Due
<1>7. FormInv(q, there, st)
  BY <1>1, <1>5, <1>6 DEF FormInv, Follows
<1> QED
  BY <1>1, <1>2, <1>3, <1>4, <1>7 DEF PanelOK, q

LEMMA UnparkFacts ==
  ASSUME NEW p \in PanelType, QueueInv(p)
  PROVE  LET q == Unpark(p)
         IN /\ q \in PanelType /\ QueueInv(q) /\ Kept(q, p) /\ Joined(q, p)
            /\ q.deferred = FALSE
<1>1. CASE p.deferred
  <2> DEFINE r == [p EXCEPT !.deferred = FALSE]
  <2>1. r \in PanelType /\ Kept(r, p) /\ r.posted = p.posted /\ r.queued = p.queued /\ r.deferred = FALSE
    BY DEF PanelType, Kept
  <2>2. Unpark(p) = ScheduleReload(r)
    BY <1>1 DEF Unpark
  <2> HIDE DEF r
  <2>3. QueueInv(r)
    BY <2>1 DEF QueueInv, In
  <2> DEFINE q == ScheduleReload(r)
  <2>4. /\ q \in PanelType /\ QueueInv(q) /\ Kept(q, r) /\ Joined(q, r) /\ q.deferred = r.deferred
    BY <2>1, <2>3, ScheduleFacts
  <2> HIDE DEF q
  <2>5. Kept(q, p) /\ Joined(q, p)
    BY <2>1, <2>4 DEF Kept, Joined, In
  <2> QED
    BY <2>1, <2>2, <2>4, <2>5 DEF q
<1>2. CASE ~p.deferred
  <2>1. p.deferred = FALSE
    BY <1>2 DEF PanelType
  <2> QED
    BY <1>2, <2>1 DEF Unpark, Kept, Joined
<1> QED
  BY <1>1, <1>2

LEMMA UnparkOK ==
  ASSUME NEW p \in PanelType, NEW there, NEW st, QueueInv(p), BindingInv(p, there),
         BatchInv(p), FormInv(p, there, st)
  PROVE  PanelOK(Unpark(p), there, st)
<1>1. CASE p.deferred
  <2> DEFINE r == [p EXCEPT !.deferred = FALSE]
  <2>1. /\ r \in PanelType /\ Kept(r, p) /\ r.posted = p.posted /\ r.queued = p.queued
        /\ r.deferred = FALSE /\ r.parted = p.parted
        /\ r.lastProperties = p.lastProperties /\ r.lastSettings = p.lastSettings
    BY DEF PanelType, Kept
  <2>2. Unpark(p) = ScheduleReload(r)
    BY <1>1 DEF Unpark
  <2> HIDE DEF r
  <2>3. QueueInv(r) /\ Joined(r, p)
    BY <2>1 DEF QueueInv, In, Joined
  <2>4. BatchInv(r) /\ BindingInv(r, there) /\ ParkedInv(r)
    BY <2>1, <2>3, KeptBatch, KeptBinding DEF Joined, ParkedInv
  <2>5. Follows(r, there)
    BY <2>1, <2>3, KeptFollows, FollowsFromForm DEF Follows, Kept
  <2> QED
    BY <2>1, <2>2, <2>3, <2>4, <2>5, ScheduleOK
<1>2. CASE ~p.deferred
  BY <1>2 DEF Unpark, ParkedInv, PanelOK
<1> QED
  BY <1>1, <1>2

\* The rebuild that follows an edit, or a new target.
LEMMA PartedFacts ==
  ASSUME NEW p \in PanelType, QueueInv(p)
  PROVE  LET q == [ScheduleReload(p) EXCEPT !.parted = TRUE]
         IN /\ q \in PanelType /\ QueueInv(q) /\ Kept(q, p) /\ Joined(q, p)
            /\ q.deferred = p.deferred /\ q.queued /\ q.parted
<1> DEFINE r == ScheduleReload(p)
           q == [r EXCEPT !.parted = TRUE]
<1>1. /\ r \in PanelType /\ QueueInv(r) /\ Kept(r, p) /\ Joined(r, p)
      /\ r.queued /\ r.deferred = p.deferred
  BY ScheduleFacts
<1> HIDE DEF r
<1>2. /\ q \in PanelType /\ Kept(q, r) /\ q.posted = r.posted /\ q.queued = r.queued
      /\ q.deferred = r.deferred /\ q.parted
  BY <1>1 DEF PanelType, Kept
<1> HIDE DEF q
<1>3. QueueInv(q) /\ Kept(q, p) /\ Joined(q, p)
  BY <1>1, <1>2 DEF QueueInv, In, Kept, Joined
<1> QED
  BY <1>1, <1>2, <1>3 DEF q, r

LEMMA PartedOK ==
  ASSUME NEW q \in PanelType, NEW there, NEW st, QueueInv(q), BindingInv(q, there),
         BatchInv(q), ParkedInv(q), q.queued, q.parted
  PROVE  PanelOK(q, there, st)
  BY DEF PanelOK, FormInv
-----------------------------------------------------------------------------
(* What the verbs leave in the engine.                                     *)

\* The cached descriptors are what the settings call for.
EngineOK == /\ DOMAIN stored = Targets
            /\ \A t \in Targets : stored[t] \in [KeysOf[t] -> Vals]
            /\ cache = [t \in Targets |-> Props(stored[t])]

LEMMA TypeIsEngine ==
  ASSUME PanelTypeOK
  PROVE  EngineOK
  BY DEF PanelTypeOK, EngineOK

LEMMA OverSettings ==
  ASSUME NEW t \in Targets, NEW st \in [KeysOf[t] -> Vals], NEW batch \in Maps,
         DOMAIN batch \subseteq KeysOf[t]
  PROVE  /\ Over(batch, st) \in [KeysOf[t] -> Vals]
         /\ \A k \in DOMAIN batch : Over(batch, st)[k] = batch[k]
         /\ \A k \in KeysOf[t] \ DOMAIN batch : Over(batch, st)[k] = st[k]
<1>1. st \in Maps /\ DOMAIN st = KeysOf[t]
  BY PropsFacts
<1>2. /\ Over(batch, st) \in Maps /\ DOMAIN Over(batch, st) = DOMAIN batch \cup DOMAIN st
      /\ \A k \in DOMAIN batch : Over(batch, st)[k] = batch[k]
      /\ \A k \in DOMAIN st \ DOMAIN batch : Over(batch, st)[k] = st[k]
  BY <1>1, OverFacts
<1>3. DOMAIN Over(batch, st) = KeysOf[t]
  BY <1>1, <1>2
<1> QED
  BY <1>1, <1>2, <1>3, MapFacts

\* Without a cascade key in the batch no list changes its item.
LEMMA EchoFacts ==
  ASSUME EngineOK, NEW t \in Targets, NEW batch \in Maps, DOMAIN batch \subseteq KeysOf[t]
  PROVE  Echo(t, batch) = Props(Over(batch, stored[t]))
<1>1. CASE \E k \in DOMAIN batch : IsCascadeKey(k)
  BY <1>1 DEF Echo
<1>2. CASE ~\E k \in DOMAIN batch : IsCascadeKey(k)
  <2> DEFINE st == stored[t]
             new == Over(batch, st)
  <2>1. st \in [KeysOf[t] -> Vals] /\ Echo(t, batch) = Props(st)
    BY <1>2 DEF EngineOK, Echo
  <2> HIDE DEF st
  <2>2. /\ new \in [KeysOf[t] -> Vals]
        /\ \A k \in KeysOf[t] \ DOMAIN batch : new[k] = st[k]
    BY <2>1, OverSettings
  <2> HIDE DEF new
  <2>3. \A k \in KeysOf[t] \cap DOMAIN Parent : Parent[k] \in KeysOf[t] \ DOMAIN batch
    BY <1>2, KeysAssumption DEF IsCascadeKey
  <2>4. /\ Props(st) = [k \in KeysOf[t] \cap DOMAIN Parent |-> st[Parent[k]]]
        /\ Props(new) = [k \in KeysOf[t] \cap DOMAIN Parent |-> new[Parent[k]]]
    BY <2>1, <2>2 DEF Props
  <2>5. Props(st) = Props(new)
    BY <2>2, <2>3, <2>4
  <2> QED
    BY <2>1, <2>5 DEF new, st
<1> QED
  BY <1>1, <1>2

LEMMA WrittenFacts ==
  ASSUME EngineOK, NEW t \in Targets, NEW batch \in Maps, Written(t, batch)
  PROVE  /\ EngineOK'
         /\ stored'[t] = IF Accepts(t, batch) THEN Over(batch, stored[t]) ELSE stored[t]
         /\ \A u \in Targets \ {t} : stored'[u] = stored[u]
<1>1. CASE Accepts(t, batch)
  <2> DEFINE new == Over(batch, stored[t])
  <2>1. /\ stored' = [stored EXCEPT ![t] = new] /\ cache' = [cache EXCEPT ![t] = Props(new)]
    BY <1>1, EchoFacts DEF Written, Accepts
  <2>2. new \in [KeysOf[t] -> Vals]
    BY <1>1, OverSettings DEF EngineOK, Accepts
  <2> HIDE DEF new
  <2>3. EngineOK'
    BY <2>1, <2>2 DEF EngineOK
  <2> QED
    BY <1>1, <2>1, <2>3 DEF EngineOK, new
<1>2. CASE ~Accepts(t, batch)
  BY <1>2 DEF Written, EngineOK
<1> QED
  BY <1>1, <1>2
-----------------------------------------------------------------------------
(* The end of an edit.                                                     *)

\* The form shows the batch over what the panel keeps of the last reply; the
\* lists whose default is in the batch need no other commit.
Takes(p, batch) ==
  /\ p.form.of = p.bound
  /\ p.lastSettings \in [KeysOf[p.bound] -> Vals]
  /\ p.lastProperties = Props(p.lastSettings)
  /\ DOMAIN batch \subseteq KeysOf[p.bound]
  /\ \A k \in DOMAIN batch \cap DOMAIN Parent : batch[k] = p.lastProperties[k]
  /\ \A k \in DOMAIN batch \ DOMAIN p.pending : p.form.shown[k] = batch[k]
  /\ \A k \in KeysOf[p.bound] \ (DOMAIN batch \cup DOMAIN p.pending) :
       p.form.shown[k] = Display(p.lastSettings)[k]
  /\ \A e \in Commits : In(e, p) =>
       e.key \in DOMAIN p.lastProperties /\ e.val = p.lastProperties[e.key]
  /\ \A k \in Unmatched(p.lastSettings) \ DOMAIN batch :
       In(Event("commit", k, p.lastProperties[k]), p)

LEMMA KeptTakes ==
  ASSUME NEW p, NEW q, NEW batch, Kept(q, p), Joined(q, p),
         q.lastProperties = p.lastProperties, q.lastSettings = p.lastSettings,
         Takes(p, batch)
  PROVE  Takes(q, batch)
<1>1. \A e \in Commits : In(e, q) => In(e, p)
  BY EventFacts DEF Joined
<1>2. \A k : In(Event("commit", k, q.lastProperties[k]), p) => In(Event("commit", k, q.lastProperties[k]), q)
  BY DEF Joined
<1> QED
  BY <1>1, <1>2 DEF Kept, Takes

\* The reply that differs from the last one in the submitted keys only is what
\* the form shows.
LEMMA OwnEcho ==
  ASSUME NEW p \in PanelType, p.bound \in Targets, NEW batch \in Maps, Takes(p, batch),
         NEW new \in [KeysOf[p.bound] -> Vals],
         \A k \in DOMAIN batch : new[k] = batch[k],
         \A k \in KeysOf[p.bound] \ DOMAIN batch : new[k] = p.lastSettings[k],
         Props(new) = p.lastProperties
  PROVE  FollowsLast([p EXCEPT !.lastProperties = Props(new), !.lastSettings = new])
<1> DEFINE q == [p EXCEPT !.lastProperties = Props(new), !.lastSettings = new]
           t == p.bound
           old == p.lastSettings
<1>1. /\ q.form = p.form /\ q.bound = p.bound /\ q.pending = p.pending /\ q.posted = p.posted
      /\ q.lastSettings = new /\ q.lastProperties = p.lastProperties
  BY DEF PanelType
<1> HIDE DEF q
<1>2. old \in [KeysOf[t] -> Vals] /\ p.lastProperties = Props(old) /\ t \in Targets
  BY DEF Takes
<1>3. DOMAIN Props(old) = KeysOf[t] \cap DOMAIN Parent
  BY <1>2, PropsFacts
<1>4. ASSUME NEW k \in KeysOf[t] \ DOMAIN p.pending
      PROVE  p.form.shown[k] = Display(new)[k]
  <2>1. CASE k \in DOMAIN Parent
    <3>1. Display(new)[k] = p.lastProperties[k] /\ Display(old)[k] = p.lastProperties[k]
      BY <1>2, <2>1, DisplayFacts
    <3> QED
      BY <3>1, <1>4, <2>1 DEF Takes
  <2>2. CASE k \notin DOMAIN Parent
    <3>1. Display(new)[k] = new[k] /\ Display(old)[k] = old[k]
      BY <1>2, <2>2, DisplayFacts
    <3> QED
      BY <3>1, <1>4, <2>2 DEF Takes
  <2> QED
    BY <2>1, <2>2
<1>5. ASSUME NEW k \in Unmatched(new)
      PROVE  k \in Unmatched(old) \ DOMAIN batch
  <2>1. k \in DOMAIN Props(old) /\ Props(old)[k] # new[k]
    BY <1>2, <1>5 DEF Unmatched
  <2>2. k \notin DOMAIN batch
    BY <1>2, <1>3, <2>1 DEF Takes
  <2>3. new[k] = old[k]
    BY <2>1, <2>2, <1>3
  <2> QED
    BY <2>1, <2>2, <2>3 DEF Unmatched
<1>6. \A k \in Unmatched(new) : In(Event("commit", k, q.lastProperties[k]), q)
  BY <1>1, <1>5 DEF Takes, In
<1>7. \A e \in Commits : In(e, q) => e.key \in DOMAIN q.lastProperties /\ e.val = q.lastProperties[e.key]
  BY <1>1 DEF Takes, In
<1>8. q.form.of = q.bound /\ q.lastSettings \in [KeysOf[q.bound] -> Vals]
  BY <1>1 DEF Takes
<1>9. FollowsLast(q)
  BY <1>1, <1>4, <1>6, <1>7, <1>8 DEF FollowsLast
<1> QED
  BY <1>9 DEF q

\* Whichever way applyNow takes the reply, hand and form are left alone.
LEMMA ReconciledFacts ==
  ASSUME EngineOK, NEW p \in PanelType, p.bound \in Targets, QueueInv(p),
         NEW batch \in Maps, DOMAIN batch \subseteq KeysOf[p.bound]
  PROVE  LET q == Reconciled(p, batch)
         IN /\ q \in PanelType /\ QueueInv(q) /\ Kept(q, p) /\ Joined(q, p)
            /\ q.deferred = FALSE
<1> DEFINE props == Echo(p.bound, batch)
           settings == Over(batch, stored[p.bound])
           r == [p EXCEPT !.deferred = FALSE, !.lastProperties = props, !.lastSettings = settings]
           a == [ScheduleReload(r) EXCEPT !.parted = TRUE]
           b == [r EXCEPT !.suppress = @ \/ r.queued]
<1>1. settings \in Maps /\ props \in Maps
  <2>1. stored[p.bound] \in [KeysOf[p.bound] -> Vals]
    BY DEF EngineOK
  <2>2. settings \in [KeysOf[p.bound] -> Vals]
    BY <2>1, OverSettings
  <2> QED
    BY <2>2, EchoFacts, PropsFacts
<1>2. Reconciled(p, batch) = a \/ Reconciled(p, batch) = b
  BY DEF Reconciled
<1> HIDE DEF props, settings
<1>3. /\ r \in PanelType /\ Kept(r, p) /\ r.posted = p.posted /\ r.queued = p.queued
      /\ r.deferred = FALSE
  BY <1>1 DEF PanelType, Kept
<1> HIDE DEF r
<1>4. QueueInv(r)
  BY <1>3 DEF QueueInv, In
<1>5. /\ a \in PanelType /\ QueueInv(a) /\ Kept(a, r) /\ Joined(a, r) /\ a.deferred = r.deferred
  BY <1>3, <1>4, PartedFacts
<1> DEFINE s == r.suppress \/ r.queued
<1>6. s \in BOOLEAN /\ b = [r EXCEPT !.suppress = s]
  BY <1>3 DEF PanelType
<1> HIDE DEF a, s
<1>7. /\ b \in PanelType /\ Kept(b, r) /\ b.posted = r.posted /\ b.queued = r.queued
      /\ b.deferred = r.deferred
  BY <1>3, <1>6 DEF PanelType, Kept
<1> HIDE DEF b
<1>8. QueueInv(b)
  BY <1>4, <1>7 DEF QueueInv, In
<1>9. Kept(a, p) /\ Joined(a, p) /\ Kept(b, p) /\ Joined(b, p)
  BY <1>3, <1>5, <1>7 DEF Kept, Joined, In
<1> QED
  BY <1>2, <1>3, <1>5, <1>7, <1>8, <1>9

LEMMA ReconciledOK ==
  ASSUME EngineOK, NEW p \in PanelType, NEW there, p.bound \in Targets, p.queued,
         QueueInv(p), BindingInv(p, there), BatchInv(p),
         NEW batch \in Maps, DOMAIN batch \subseteq KeysOf[p.bound],
         there = "live" /\ ~p.parted => Takes(p, batch)
  PROVE  PanelOK(Reconciled(p, batch), there, Over(batch, stored[p.bound]))
<1> DEFINE props == Echo(p.bound, batch)
           settings == Over(batch, stored[p.bound])
           others == DOMAIN settings \ DOMAIN batch
           cascade == \/ p.deferred
                      \/ props # p.lastProperties
                      \/ \E k \in others : \/ k \notin DOMAIN p.lastSettings
                                           \/ settings[k] # p.lastSettings[k]
           r == [p EXCEPT !.deferred = FALSE, !.lastProperties = props, !.lastSettings = settings]
           a == [ScheduleReload(r) EXCEPT !.parted = TRUE]
           b == [r EXCEPT !.suppress = @ \/ r.queued]
           q == Reconciled(p, batch)
<1>1. q = IF cascade THEN a ELSE b
  BY DEF Reconciled
<1>2. stored[p.bound] \in [KeysOf[p.bound] -> Vals]
  BY DEF EngineOK
<1>3. /\ settings \in [KeysOf[p.bound] -> Vals] /\ props = Props(settings)
      /\ \A k \in DOMAIN batch : settings[k] = batch[k]
  BY <1>2, OverSettings, EchoFacts
<1>4. q \in PanelType /\ QueueInv(q) /\ Kept(q, p) /\ Joined(q, p) /\ q.deferred = FALSE
  BY ReconciledFacts
<1>5. settings \in Maps /\ props \in Maps
  BY <1>3, PropsFacts
<1> HIDE DEF q, props, settings
<1>6. BatchInv(q) /\ BindingInv(q, there) /\ ParkedInv(q)
  BY <1>4, KeptBatch, KeptBinding DEF Joined, ParkedInv
<1>7. /\ r \in PanelType /\ r.posted = p.posted /\ r.queued = p.queued
      /\ r.deferred = FALSE /\ r.parted = p.parted /\ r.bound = p.bound
      /\ r.lastSettings = settings
  BY <1>5 DEF PanelType
<1>8. CASE cascade
  <2> HIDE DEF r
  <2>1. QueueInv(r)
    BY <1>7 DEF QueueInv, In
  <2>2. q = a
    BY <1>1, <1>8
  <2>3. q.queued /\ q.parted
    BY <1>7, <2>1, <2>2, PartedFacts
  <2>4. PanelOK(q, there, settings)
    BY <1>4, <1>6, <2>3, PartedOK
  <2> QED
    BY <2>4 DEF q, settings
<1>9. CASE ~cascade
  <2>1. /\ p.deferred = FALSE /\ props = p.lastProperties
        /\ \A k \in KeysOf[p.bound] \ DOMAIN batch : settings[k] = p.lastSettings[k]
    BY <1>3, <1>9 DEF PanelType
  <2> DEFINE f == [p EXCEPT !.lastProperties = props, !.lastSettings = settings]
  <2>2. there = "live" /\ ~p.parted => FollowsLast(f)
    BY <1>3, <2>1, OwnEcho
  <2>3. /\ Kept(r, f) /\ r.posted = f.posted
        /\ r.lastProperties = f.lastProperties /\ r.lastSettings = f.lastSettings
    BY DEF PanelType, Kept
  <2> DEFINE s == r.suppress \/ r.queued
  <2>4. s = TRUE /\ q = [r EXCEPT !.suppress = s]
    BY <1>1, <1>7, <1>9
  <2> HIDE DEF f, r, s
  <2>5. /\ Kept(q, r) /\ q.posted = r.posted /\ q.queued = r.queued /\ q.deferred = r.deferred
        /\ q.lastProperties = r.lastProperties /\ q.lastSettings = r.lastSettings
        /\ q.parted = r.parted /\ q.suppress
    BY <1>7, <2>4 DEF PanelType, Kept
  <2> HIDE DEF cascade
  <2>6. Kept(q, f) /\ Joined(q, f)
    BY <2>3, <2>5 DEF Kept, Joined, In
  <2>7. there = "live" /\ ~q.parted => FollowsLast(q)
    BY <1>7, <2>2, <2>3, <2>5, <2>6, KeptFollows
  <2>8. q.queued /\ q.lastSettings = settings
    BY <1>7, <2>5
  <2>9. FormInv(q, there, settings)
    BY <2>7, <2>8 DEF FormInv
  <2> QED
    BY <1>4, <1>6, <2>9 DEF PanelOK, q, settings
<1> QED
  BY <1>8, <1>9

\* What applyNow gives, whatever the engine answers.
LEMMA AppliedFacts ==
  ASSUME EngineOK, NEW p \in PanelType, p.bound \in Targets \cup {NoSource}, QueueInv(p),
         NEW batch \in Maps, NEW quick \in BOOLEAN
  PROVE  LET q == AfterApply(p, batch, quick)
         IN q \in PanelType /\ QueueInv(q) /\ Kept(q, p) /\ Joined(q, p)
<1>1. CASE p.bound = NoSource \/ batch = Nothing
  BY <1>1 DEF AfterApply, Kept, Joined
<1>2. CASE ~(p.bound = NoSource \/ batch = Nothing) /\ ~Accepts(p.bound, batch)
  BY <1>2, UnparkFacts DEF AfterApply
<1>3. CASE ~(p.bound = NoSource \/ batch = Nothing) /\ Accepts(p.bound, batch) /\ quick
  BY <1>3, PartedFacts DEF AfterApply
<1>4. CASE ~(p.bound = NoSource \/ batch = Nothing) /\ Accepts(p.bound, batch) /\ ~quick
  <2> DEFINE r == ScheduleReload(p)
             q == Reconciled(r, batch)
  <2>1. AfterApply(p, batch, quick) = q
    BY <1>4 DEF AfterApply
  <2>2. r \in PanelType /\ QueueInv(r) /\ Kept(r, p) /\ Joined(r, p)
    BY ScheduleFacts
  <2> HIDE DEF r
  <2>3. r.bound \in Targets /\ DOMAIN batch \subseteq KeysOf[r.bound]
    BY <1>4, <2>2 DEF Kept, Accepts
  <2>4. q \in PanelType /\ QueueInv(q) /\ Kept(q, r) /\ Joined(q, r)
    BY <2>2, <2>3, ReconciledFacts
  <2> HIDE DEF q
  <2>5. Kept(q, p) /\ Joined(q, p)
    BY <2>2, <2>4 DEF Kept, Joined
  <2> QED
    BY <2>1, <2>4, <2>5
<1> QED
  BY <1>1, <1>2, <1>3, <1>4

\* After an edit of the bound source the invariant holds of the panel and of
\* what the engine has now.
LEMMA AppliedOK ==
  ASSUME EngineOK, NEW p \in PanelType, p.bound \in Targets,
         QueueInv(p), BindingInv(p, life[p.bound]), BatchInv(p),
         p.parted => p.queued \/ p.deferred \/ p.dropped,
         NEW batch \in Maps, batch # Nothing, NEW quick \in BOOLEAN,
         quick => ParkedInv(p),
         life[p.bound] = "live" /\ ~p.parted => Takes(p, batch)
  PROVE  PanelOK(AfterApply(p, batch, quick), life[p.bound],
                 IF Accepts(p.bound, batch) THEN Over(batch, stored[p.bound]) ELSE stored[p.bound])
<1> DEFINE there == life[p.bound]
<1>1. p.bound # NoSource
  BY KeysAssumption
<1>2. CASE ~Accepts(p.bound, batch)
  <2>1. AfterApply(p, batch, quick) = Unpark(p)
    BY <1>1, <1>2 DEF AfterApply
  <2>2. ~(there = "live" /\ ~p.parted)
    BY <1>2 DEF Accepts, Takes
  <2>3. FormInv(p, there, stored[p.bound])
    BY <2>2 DEF FormInv
  <2>4. PanelOK(Unpark(p), there, stored[p.bound])
    BY <2>3, UnparkOK
  <2> QED
    BY <1>2, <2>1, <2>4
<1>3. CASE Accepts(p.bound, batch) /\ quick
  <2> DEFINE q == [ScheduleReload(p) EXCEPT !.parted = TRUE]
  <2>1. AfterApply(p, batch, quick) = q
    BY <1>1, <1>3 DEF AfterApply
  <2>2. /\ q \in PanelType /\ QueueInv(q) /\ Kept(q, p) /\ Joined(q, p)
        /\ q.deferred = p.deferred /\ q.queued /\ q.parted
    BY PartedFacts
  <2> HIDE DEF q
  <2>3. BatchInv(q) /\ BindingInv(q, there) /\ ParkedInv(q)
    BY <1>3, <2>2, KeptBatch, KeptBinding DEF Joined, ParkedInv, Kept
  <2> QED
    BY <2>1, <2>2, <2>3, PartedOK
<1>4. CASE Accepts(p.bound, batch) /\ ~quick
  <2> DEFINE r == ScheduleReload(p)
  <2>1. AfterApply(p, batch, quick) = Reconciled(r, batch)
    BY <1>1, <1>4 DEF AfterApply
  <2>2. /\ r \in PanelType /\ QueueInv(r) /\ Kept(r, p) /\ Joined(r, p) /\ r.queued
        /\ r.lastProperties = p.lastProperties /\ r.lastSettings = p.lastSettings
        /\ r.parted = p.parted
    BY ScheduleFacts
  <2> HIDE DEF r
  <2>3. r.bound = p.bound /\ DOMAIN batch \subseteq KeysOf[r.bound]
    BY <1>4, <2>2 DEF Kept, Accepts
  <2>4. BatchInv(r) /\ BindingInv(r, there)
    BY <2>2, KeptBatch, KeptBinding DEF Joined
  <2>5. there = "live" /\ ~r.parted => Takes(r, batch)
    BY <2>2, KeptTakes
  <2>6. PanelOK(Reconciled(r, batch), there, Over(batch, stored[r.bound]))
    BY <2>2, <2>3, <2>4, <2>5, ReconciledOK
  <2> QED
    BY <1>4, <2>1, <2>3, <2>6
<1> QED
  BY <1>2, <1>3, <1>4
-----------------------------------------------------------------------------
(* The steps.                                                              *)

\* The batch holds what the form shows.
Matches(p) ==
  /\ DOMAIN p.pending \subseteq DOMAIN p.form.shown \ (DOMAIN Parent \cup TextKeys)
  /\ \A k \in DOMAIN p.pending : p.form.shown[k] = p.pending[k]
  /\ p.typing # NoSource => p.typing \in DOMAIN p.form.shown \cap (Sliders \cup TextKeys)

LEMMA BatchMatches ==
  ASSUME NEW p
  PROVE  BatchInv(p) <=> Matches(p) /\ (p.pending # Nothing => p.debounce \/ p.drag)
  BY DEF BatchInv, Matches

LEMMA InvFacts ==
  ASSUME PanelInv
  PROVE  /\ EngineOK /\ panel \in PanelType /\ life \in [Targets -> {"new", "live", "gone"}]
         /\ panel.bound \in Targets \cup {NoSource} /\ NoSource \notin Targets
         /\ QueueInv(panel) /\ BindingInv(panel, life[panel.bound]) /\ BatchInv(panel)
         /\ ParkedInv(panel) /\ FormInv(panel, life[panel.bound], stored[panel.bound])
         /\ Follows(panel, life[panel.bound])
<1>1. PanelTypeOK /\ PanelOK(panel, life[panel.bound], stored[panel.bound])
  BY DEF PanelInv
<1>2. EngineOK /\ panel \in PanelType /\ life \in [Targets -> {"new", "live", "gone"}]
  BY <1>1 DEF PanelTypeOK, EngineOK
<1>3. panel.bound \in Targets \cup {NoSource}
  BY <1>2 DEF PanelType
<1> QED
  BY <1>1, <1>2, <1>3, KeysAssumption, FollowsFromForm DEF PanelOK

LEMMA InvIntro ==
  ASSUME life' \in [Targets -> {"new", "live", "gone"}], EngineOK', panel' \in PanelType,
         PanelOK(panel', life'[panel'.bound], stored'[panel'.bound])
  PROVE  PanelInv'
  BY DEF PanelInv, PanelTypeOK, EngineOK

\* A binding without a source has no form, hence no batch.
LEMMA NothingUnbound ==
  ASSUME NEW p \in PanelType, NEW there, BindingInv(p, there), Matches(p), p.bound = NoSource
  PROVE  p.pending = Nothing /\ p.typing = NoSource
<1>1. DOMAIN p.form.shown = {}
  BY DEF BindingInv, Blank, Nothing
<1>2. p.pending \in Maps
  BY DEF PanelType
<1> QED
  BY <1>1, <1>2, NothingFacts DEF Matches

\* The panel with its batch taken out shows the batch.
LEMMA BatchTaken ==
  ASSUME NEW p \in PanelType, NEW r, NEW there, p.bound \in Targets, BindingInv(p, there),
         Matches(p), FollowsLast(p),
         r.bound = p.bound /\ r.form = p.form /\ r.pending = Nothing /\ r.posted = p.posted,
         r.lastProperties = p.lastProperties, r.lastSettings = p.lastSettings
  PROVE  Takes(r, p.pending)
<1>1. DOMAIN p.form.shown = KeysOf[p.bound]
  BY KeysAssumption DEF BindingInv, FollowsLast
<1>2. DOMAIN p.pending \subseteq KeysOf[p.bound] \ DOMAIN Parent
  BY <1>1 DEF Matches
<1>3. \A k \in DOMAIN p.pending : p.form.shown[k] = p.pending[k]
  BY DEF Matches
<1>4. \A e : In(e, r) <=> In(e, p)
  BY DEF In
<1> QED
  BY <1>2, <1>3, <1>4, NothingFacts DEF Takes, FollowsLast

LEMMA ApplyNowOK ==
  ASSUME EngineOK, life \in [Targets -> {"new", "live", "gone"}], UNCHANGED life,
         NEW p \in PanelType, p.bound \in Targets,
         QueueInv(p), BindingInv(p, life[p.bound]), BatchInv(p),
         p.parted => p.queued \/ p.deferred \/ p.dropped,
         NEW batch \in Maps, batch # Nothing, NEW quick \in BOOLEAN,
         quick => ParkedInv(p),
         life[p.bound] = "live" /\ ~p.parted => Takes(p, batch),
         ApplyNow(p, batch, quick)
  PROVE  PanelInv' /\ panel'.bound = p.bound
<1>1. panel' = AfterApply(p, batch, quick) /\ Written(p.bound, batch)
  BY KeysAssumption DEF ApplyNow
<1>2. panel' \in PanelType /\ panel'.bound = p.bound
  BY <1>1, AppliedFacts DEF Kept
<1>3. /\ EngineOK'
      /\ stored'[p.bound] = IF Accepts(p.bound, batch) THEN Over(batch, stored[p.bound]) ELSE stored[p.bound]
  BY <1>1, WrittenFacts
<1>4. PanelOK(panel', life[p.bound], stored'[p.bound])
  BY <1>1, <1>3, AppliedOK
<1> QED
  BY <1>2, <1>3, <1>4, InvIntro

LEMMA FlushPendingOK ==
  ASSUME EngineOK, life \in [Targets -> {"new", "live", "gone"}], UNCHANGED life,
         NEW p \in PanelType, QueueInv(p), BindingInv(p, life[p.bound]),
         Matches(p), FormInv(p, life[p.bound], stored[p.bound]), FlushPending(p)
  PROVE  PanelInv' /\ panel'.bound = p.bound
<1>1. CASE p.pending = Nothing
  <2>1. panel' = Unpark(p) /\ UNCHANGED <<stored, cache>>
    BY <1>1 DEF FlushPending
  <2>2. BatchInv(p)
    BY <1>1, BatchMatches
  <2>3. PanelOK(panel', life[p.bound], stored[p.bound])
    BY <2>1, <2>2, UnparkOK
  <2>4. panel' \in PanelType /\ panel'.bound = p.bound
    BY <2>1, UnparkFacts DEF Kept
  <2>5. EngineOK'
    BY <2>1 DEF EngineOK
  <2> QED
    BY <2>1, <2>3, <2>4, <2>5, InvIntro
<1>2. CASE p.pending # Nothing
  <2> DEFINE r == [p EXCEPT !.pending = Nothing]
             batch == p.pending
  <2>1. p.bound \in Targets /\ batch \in Maps
    BY <1>2, NothingUnbound DEF PanelType
  <2>2. ApplyNow(r, batch, FALSE)
    BY <1>2 DEF FlushPending
  <2>3. /\ r \in PanelType /\ r.bound = p.bound /\ r.form = p.form /\ r.pending = Nothing
        /\ r.posted = p.posted /\ r.queued = p.queued /\ r.typing = p.typing
        /\ r.lastProperties = p.lastProperties /\ r.lastSettings = p.lastSettings
        /\ r.deferred = p.deferred /\ r.parted = p.parted /\ r.dropped = p.dropped
    BY NothingFacts DEF PanelType
  <2> HIDE DEF r
  <2>4. QueueInv(r) /\ BindingInv(r, life[r.bound])
    BY <2>3 DEF QueueInv, BindingInv, In
  <2>5. BatchInv(r)
    BY <2>3, NothingFacts DEF BatchInv, Matches
  <2>6. r.parted => r.queued \/ r.deferred \/ r.dropped
    BY <2>1, <2>3, KeysAssumption DEF FormInv
  <2>7. life[r.bound] = "live" /\ ~r.parted => Takes(r, batch)
    BY <2>1, <2>3, KeysAssumption, BatchTaken DEF FormInv
  <2> QED
    BY <1>2, <2>1, <2>2, <2>3, <2>4, <2>5, <2>6, <2>7, ApplyNowOK
<1> QED
  BY <1>1, <1>2

LEMMA SamePanel ==
  ASSUME NEW p, NEW q, NEW there, NEW st, PanelOK(p, there, st), Kept(q, p),
         q.posted = p.posted, q.queued = p.queued, q.suppress = p.suppress,
         q.deferred = p.deferred, q.parted = p.parted, q.dropped = p.dropped,
         q.lastProperties = p.lastProperties, q.lastSettings = p.lastSettings
  PROVE  PanelOK(q, there, st)
<1>1. QueueInv(q) /\ Joined(q, p)
  BY DEF PanelOK, QueueInv, Joined, In
<1>2. BatchInv(q) /\ BindingInv(q, there) /\ ParkedInv(q)
  BY <1>1, KeptBatch, KeptBinding DEF PanelOK, Joined, ParkedInv, Kept
<1>3. FollowsLast(p) => FollowsLast(q)
  BY <1>1, KeptFollows
<1>4. FormInv(q, there, st)
  BY <1>3 DEF PanelOK, FormInv, Kept, Due
<1> QED
  BY <1>1, <1>2, <1>4 DEF PanelOK

LEMMA FlushLiveOK ==
  ASSUME EngineOK, life \in [Targets -> {"new", "live", "gone"}], UNCHANGED life,
         NEW p \in PanelType, PanelOK(p, life[p.bound], stored[p.bound]), FlushLive(p)
  PROVE  PanelInv' /\ panel'.bound = p.bound
<1> DEFINE r == [p EXCEPT !.pending = Nothing, !.trailing = FALSE]
           batch == p.pending
<1>1. ApplyNow(r, batch, TRUE) /\ batch \in Maps
  BY DEF FlushLive, PanelType
<1>2. /\ r \in PanelType /\ r.bound = p.bound /\ r.form = p.form /\ r.pending = Nothing
      /\ r.posted = p.posted /\ r.queued = p.queued /\ r.typing = p.typing
      /\ r.lastProperties = p.lastProperties /\ r.lastSettings = p.lastSettings
      /\ r.deferred = p.deferred /\ r.parted = p.parted /\ r.dropped = p.dropped
      /\ r.debounce = p.debounce /\ r.drag = p.drag /\ r.suppress = p.suppress
  BY NothingFacts DEF PanelType
<1>3. /\ QueueInv(p) /\ BindingInv(p, life[p.bound]) /\ Matches(p) /\ ParkedInv(p)
      /\ FormInv(p, life[p.bound], stored[p.bound])
  BY BatchMatches DEF PanelOK
<1> HIDE DEF r
<1>4. CASE batch = Nothing
  <2>1. panel' = r
    BY <1>1, <1>4 DEF ApplyNow, AfterApply
  <2>2. PanelOK(r, life[p.bound], stored[p.bound])
    BY <1>2, <1>4, SamePanel DEF Kept
  <2>3. CASE p.bound = NoSource
    <3>1. UNCHANGED <<stored, cache>>
      BY <1>1, <1>2, <2>3 DEF ApplyNow
    <3>2. EngineOK'
      BY <3>1 DEF EngineOK
    <3> QED
      BY <1>2, <2>1, <2>2, <3>1, <3>2, InvIntro
  <2>4. CASE p.bound # NoSource
    <3>1. p.bound \in Targets /\ Written(p.bound, batch)
      BY <1>1, <1>2, <2>4 DEF ApplyNow, PanelType
    <3>2. /\ EngineOK'
          /\ stored'[p.bound] = IF Accepts(p.bound, batch) THEN Over(batch, stored[p.bound]) ELSE stored[p.bound]
      BY <1>1, <3>1, WrittenFacts
    <3>3. Over(batch, stored[p.bound]) = stored[p.bound]
      <4>1. stored[p.bound] \in [KeysOf[p.bound] -> Vals]
        BY <3>1 DEF EngineOK
      <4>2. DOMAIN batch = {}
        BY <1>4, NothingFacts
      <4> QED
        BY <1>1, <3>1, <4>1, <4>2, OverSettings
    <3> QED
      BY <1>2, <2>1, <2>2, <3>2, <3>3, InvIntro
  <2> QED
    BY <2>3, <2>4
<1>5. CASE batch # Nothing
  <2>1. p.bound \in Targets
    BY <1>3, <1>5, NothingUnbound DEF PanelType
  <2>2. QueueInv(r) /\ BindingInv(r, life[r.bound]) /\ ParkedInv(r)
    BY <1>2, <1>3 DEF QueueInv, BindingInv, In, ParkedInv
  <2>3. BatchInv(r)
    BY <1>2, <1>3, NothingFacts DEF BatchInv, Matches
  <2>4. r.parted => r.queued \/ r.deferred \/ r.dropped
    BY <1>2, <1>3, <2>1, KeysAssumption DEF FormInv
  <2>5. life[r.bound] = "live" /\ ~r.parted => Takes(r, batch)
    BY <1>2, <1>3, <2>1, KeysAssumption, BatchTaken DEF FormInv
  <2> QED
    BY <1>1, <1>2, <1>5, <2>1, <2>2, <2>3, <2>4, <2>5, ApplyNowOK
<1> QED
  BY <1>4, <1>5
-----------------------------------------------------------------------------
(* The user's edits.                                                       *)

LEMMA ShowFacts ==
  ASSUME NEW p \in PanelType, NEW k \in DOMAIN p.form.shown, NEW v \in Vals
  PROVE  LET q == Shows(p, k, v)
         IN /\ q \in PanelType /\ q.bound = p.bound /\ q.posted = p.posted
            /\ q.form.of = p.form.of /\ DOMAIN q.form.shown = DOMAIN p.form.shown
            /\ q.form.shown[k] = v
            /\ \A x \in DOMAIN p.form.shown \ {k} : q.form.shown[x] = p.form.shown[x]
            /\ q.pending = p.pending /\ q.typing = p.typing
            /\ q.debounce = p.debounce /\ q.drag = p.drag /\ q.trailing = p.trailing
            /\ q.queued = p.queued /\ q.suppress = p.suppress /\ q.deferred = p.deferred
            /\ q.parted = p.parted /\ q.dropped = p.dropped
            /\ q.lastProperties = p.lastProperties /\ q.lastSettings = p.lastSettings
<1> DEFINE m == [p.form.shown EXCEPT ![k] = v]
           f == [p.form EXCEPT !.shown = m]
           q == Shows(p, k, v)
<1>1. p.form.shown \in Maps /\ p.form \in [of : Targets \cup {NoSource}, shown : Maps]
  BY DEF PanelType
<1>2. /\ DOMAIN m = DOMAIN p.form.shown /\ m[k] = v
      /\ \A x \in DOMAIN p.form.shown \ {k} : m[x] = p.form.shown[x]
      /\ m \in Maps
  <2>1. /\ p.form.shown \in [DOMAIN p.form.shown -> Vals] /\ DOMAIN p.form.shown \subseteq Keys
    BY <1>1, MapFacts
  <2>2. m \in [DOMAIN p.form.shown -> Vals]
    BY <2>1
  <2> QED
    BY <2>1, <2>2, MapIntro
<1>3. q = [p EXCEPT !.form = f]
  BY DEF Shows
<1> HIDE DEF m, q
<1>4. f \in [of : Targets \cup {NoSource}, shown : Maps] /\ f.of = p.form.of /\ f.shown = m
  BY <1>1, <1>2
<1> HIDE DEF f
<1>5. /\ q \in PanelType /\ q.form = f /\ q.bound = p.bound /\ q.posted = p.posted
      /\ q.pending = p.pending /\ q.typing = p.typing
      /\ q.debounce = p.debounce /\ q.drag = p.drag /\ q.trailing = p.trailing
      /\ q.queued = p.queued /\ q.suppress = p.suppress /\ q.deferred = p.deferred
      /\ q.parted = p.parted /\ q.dropped = p.dropped
      /\ q.lastProperties = p.lastProperties /\ q.lastSettings = p.lastSettings
  BY <1>3, <1>4 DEF PanelType
<1> QED
  BY <1>2, <1>4, <1>5 DEF q

\* A form that offers a key is a form of a source.
LEMMA FormHasSource ==
  ASSUME NEW p, NEW there, BindingInv(p, there), NEW k \in DOMAIN p.form.shown
  PROVE  p.form.of # NoSource /\ p.bound # NoSource /\ DOMAIN p.form.shown = KeysOf[p.form.of]
  BY DEF BindingInv, Blank, Nothing

\* An edit that joins the batch.
Edited(p, k, v, d) ==
  [Shows(p, k, v) EXCEPT !.pending = Over(OneEdit(k, v), @), !.debounce = d]

LEMMA EditOK ==
  ASSUME NEW p \in PanelType, NEW there, NEW st, QueueInv(p), BindingInv(p, there),
         Matches(p), FormInv(p, there, st), NEW v \in Vals,
         NEW k \in DOMAIN p.form.shown \ (DOMAIN Parent \cup TextKeys), NEW d \in BOOLEAN
  PROVE  LET q == Edited(p, k, v, d)
         IN /\ q \in PanelType /\ QueueInv(q) /\ BindingInv(q, there)
            /\ Matches(q) /\ FormInv(q, there, st)
            /\ q.bound = p.bound /\ q.drag = p.drag /\ q.typing = p.typing
            /\ q.trailing = p.trailing /\ q.deferred = p.deferred /\ q.debounce = d
<1> DEFINE r == Shows(p, k, v)
           b == Over(OneEdit(k, v), p.pending)
           q == [r EXCEPT !.pending = b, !.debounce = d]
<1>1. /\ r \in PanelType /\ r.bound = p.bound /\ r.posted = p.posted
      /\ r.form.of = p.form.of /\ DOMAIN r.form.shown = DOMAIN p.form.shown
      /\ r.form.shown[k] = v
      /\ \A x \in DOMAIN p.form.shown \ {k} : r.form.shown[x] = p.form.shown[x]
      /\ r.pending = p.pending /\ r.typing = p.typing
      /\ r.debounce = p.debounce /\ r.drag = p.drag /\ r.trailing = p.trailing
      /\ r.queued = p.queued /\ r.suppress = p.suppress /\ r.deferred = p.deferred
      /\ r.parted = p.parted /\ r.dropped = p.dropped
      /\ r.lastProperties = p.lastProperties /\ r.lastSettings = p.lastSettings
  BY ShowFacts
<1>2. p.form.of # NoSource /\ p.bound # NoSource /\ DOMAIN p.form.shown = KeysOf[p.form.of]
  BY FormHasSource
<1>3. k \in Keys /\ p.pending \in Maps
  BY MapFacts DEF PanelType
<1>4. /\ b \in Maps /\ DOMAIN b = {k} \cup DOMAIN p.pending /\ b[k] = v
      /\ \A x \in DOMAIN p.pending \ {k} : b[x] = p.pending[x]
  <2> DEFINE e == OneEdit(k, v)
  <2>1. e \in Maps /\ DOMAIN e = {k} /\ e[k] = v
    BY <1>3, OneEditFacts
  <2>2. b = Over(e, p.pending)
    OBVIOUS
  <2> HIDE DEF e, b
  <2> QED
    BY <1>3, <2>1, <2>2, OverFacts
<1>5. Edited(p, k, v, d) = q
  BY <1>1 DEF Edited
<1> HIDE DEF r, b
<1>6. /\ q \in PanelType /\ q.pending = b /\ q.form = r.form /\ q.bound = r.bound
      /\ q.posted = r.posted /\ q.typing = r.typing /\ q.debounce = d
      /\ q.drag = r.drag /\ q.trailing = r.trailing /\ q.queued = r.queued
      /\ q.suppress = r.suppress /\ q.deferred = r.deferred
      /\ q.parted = r.parted /\ q.dropped = r.dropped
      /\ q.lastProperties = r.lastProperties /\ q.lastSettings = r.lastSettings
  BY <1>1, <1>4 DEF PanelType
<1> HIDE DEF q
<1>7. QueueInv(q)
  BY <1>1, <1>6 DEF QueueInv, In
<1>8. BindingInv(q, there)
  BY <1>1, <1>2, <1>6 DEF BindingInv, In
<1>9. Matches(q)
  <2>1. DOMAIN q.pending \subseteq DOMAIN q.form.shown \ (DOMAIN Parent \cup TextKeys)
    BY <1>1, <1>4, <1>6 DEF Matches
  <2>2. ASSUME NEW x \in DOMAIN q.pending PROVE q.form.shown[x] = q.pending[x]
    <3>1. CASE x = k
      BY <1>1, <1>4, <1>6, <3>1
    <3>2. CASE x # k
      <4>1. x \in DOMAIN p.pending /\ x \in DOMAIN p.form.shown
        BY <1>4, <1>6, <2>2, <3>2 DEF Matches
      <4> QED
        BY <1>1, <1>4, <1>6, <3>2, <4>1 DEF Matches
    <3> QED
      BY <3>1, <3>2
  <2>3. q.typing # NoSource => q.typing \in DOMAIN q.form.shown \cap (Sliders \cup TextKeys)
    BY <1>1, <1>6 DEF Matches
  <2> QED
    BY <2>1, <2>2, <2>3 DEF Matches
<1>10. ASSUME FollowsLast(p) PROVE FollowsLast(q)
  <2>1. \A x \in KeysOf[p.bound] \ DOMAIN q.pending :
          q.form.shown[x] = Display(p.lastSettings)[x]
    BY <1>1, <1>2, <1>4, <1>6, <1>10 DEF FollowsLast
  <2>2. \A e : In(e, q) <=> In(e, p)
    BY <1>1, <1>6 DEF In
  <2> QED
    BY <1>1, <1>6, <1>10, <2>1, <2>2 DEF FollowsLast
<1>11. FormInv(q, there, st)
  BY <1>1, <1>6, <1>10 DEF FormInv, Due
<1> QED
  BY <1>1, <1>5, <1>6, <1>7, <1>8, <1>9, <1>11 DEF q, r

LEMMA PanelInitHolds == PanelInit => PanelInv
<1> SUFFICES ASSUME PanelInit PROVE PanelInv
  OBVIOUS
<1>1. /\ panel.bound = NoSource /\ panel.form = Blank /\ panel.pending = Nothing
      /\ panel.typing = NoSource /\ panel.deferred = FALSE /\ panel.queued = FALSE
      /\ panel.posted = << >>
  BY DEF PanelInit
<1>2. panel \in PanelType
  <2>1. << >> \in Seq(Events)
    OBVIOUS
  <2>2. Blank \in [of : Targets \cup {NoSource}, shown : Maps]
    BY NothingFacts DEF Blank
  <2> QED
    BY <2>1, <2>2, NothingFacts DEF PanelInit, PanelType
<1>3. life \in [Targets -> {"new", "live", "gone"}]
  BY DEF PanelInit
<1>4. PanelTypeOK
  BY <1>2, <1>3 DEF PanelInit, PanelTypeOK, Vals
<1>5. QueueInv(panel)
  BY <1>1 DEF QueueInv, In, Range
<1>6. BindingInv(panel, life[panel.bound])
  BY <1>1 DEF BindingInv, Blank
<1>7. BatchInv(panel) /\ ParkedInv(panel)
  BY <1>1, NothingFacts DEF BatchInv, ParkedInv
<1>8. FormInv(panel, life[panel.bound], stored[panel.bound])
  BY <1>1 DEF FormInv
<1> QED
  BY <1>4, <1>5, <1>6, <1>7, <1>8 DEF PanelInv, PanelOK

LEMMA EngineSame ==
  ASSUME EngineOK, UNCHANGED <<stored, cache>>
  PROVE  EngineOK'
  BY DEF EngineOK

LEMMA PickStep ==
  ASSUME PanelInv, NEW k \in Keys, NEW v \in Vals, Pick(k, v)
  PROVE  PanelInv' /\ panel'.bound = panel.bound
<1>1. /\ panel' = QueueChange(panel, k, v) /\ UNCHANGED <<life, stored, cache>>
      /\ k \in DOMAIN panel.form.shown \ (DOMAIN Parent \cup TextKeys)
  BY DEF Pick, Offers
<1> DEFINE d == TRUE
           q == Edited(panel, k, v, d)
<1>2. /\ panel \in PanelType /\ QueueInv(panel) /\ BindingInv(panel, life[panel.bound])
      /\ Matches(panel) /\ FormInv(panel, life[panel.bound], stored[panel.bound])
  BY InvFacts, BatchMatches
<1>3. /\ q \in PanelType /\ QueueInv(q) /\ BindingInv(q, life[panel.bound])
      /\ Matches(q) /\ FormInv(q, life[panel.bound], stored[panel.bound])
      /\ q.bound = panel.bound /\ q.debounce = d
  <2>1. d \in BOOLEAN
    OBVIOUS
  <2> HIDE DEF d
  <2> QED
    BY <1>1, <1>2, <2>1, EditOK
<1>4. panel' = q
  BY <1>1 DEF QueueChange, Edited
<1> HIDE DEF q
<1>5. /\ panel' \in PanelType /\ QueueInv(panel') /\ BindingInv(panel', life[panel.bound])
      /\ Matches(panel') /\ FormInv(panel', life[panel.bound], stored[panel.bound])
      /\ panel'.bound = panel.bound /\ panel'.debounce = TRUE
  BY <1>3, <1>4
<1>6. BatchInv(panel') /\ ParkedInv(panel')
  BY <1>5, BatchMatches DEF ParkedInv
<1> QED
  BY <1>1, <1>5, <1>6, InvFacts, EngineSame, InvIntro DEF PanelOK

LEMMA PressStep ==
  ASSUME PanelInv, NEW k \in Keys, Press(k)
  PROVE  PanelInv' /\ panel'.bound = panel.bound
<1>1. panel' = [panel EXCEPT !.drag = TRUE] /\ UNCHANGED <<life, stored, cache>>
  BY DEF Press
<1>2. /\ panel' \in PanelType /\ panel'.bound = panel.bound /\ panel'.form = panel.form
      /\ panel'.pending = panel.pending /\ panel'.typing = panel.typing /\ panel'.drag
      /\ panel'.posted = panel.posted /\ panel'.queued = panel.queued
      /\ panel'.suppress = panel.suppress /\ panel'.deferred = panel.deferred
      /\ panel'.parted = panel.parted /\ panel'.dropped = panel.dropped
      /\ panel'.lastProperties = panel.lastProperties /\ panel'.lastSettings = panel.lastSettings
  BY <1>1, InvFacts DEF PanelType
<1>3. QueueInv(panel') /\ BindingInv(panel', life[panel.bound])
  BY <1>2, InvFacts DEF QueueInv, BindingInv, In
<1>4. BatchInv(panel') /\ ParkedInv(panel')
  BY <1>2, InvFacts DEF BatchInv, ParkedInv
<1>5. FormInv(panel', life[panel.bound], stored[panel.bound])
  BY <1>2, InvFacts DEF FormInv, FollowsLast, Due, In
<1> QED
  BY <1>1, <1>2, <1>3, <1>4, <1>5, InvFacts, EngineSame, InvIntro DEF PanelOK

LEMMA DragStep ==
  ASSUME PanelInv, NEW k \in Keys, NEW v \in Vals, Drag(k, v)
  PROVE  PanelInv' /\ panel'.bound = panel.bound
<1> DEFINE s == Shows(panel, k, v)
           b == Over(OneEdit(k, v), s.pending)
           p == [s EXCEPT !.pending = Over(OneEdit(k, v), @)]
           q == Edited(panel, k, v, panel.debounce)
<1>1. /\ FlushLive(p) \/ (panel' = [p EXCEPT !.trailing = TRUE] /\ UNCHANGED <<stored, cache>>)
      /\ UNCHANGED life /\ panel.drag /\ k \in DOMAIN panel.form.shown /\ k \in Sliders
  BY DEF Drag, Offers
<1>2. k \in DOMAIN panel.form.shown \ (DOMAIN Parent \cup TextKeys)
  BY <1>1, KeysAssumption
<1>3. panel.debounce \in BOOLEAN /\ panel \in PanelType
  BY InvFacts DEF PanelType
<1>4. s \in PanelType /\ s.debounce = panel.debounce
  BY <1>1, <1>3, ShowFacts
<1>5. p = [s EXCEPT !.pending = b] /\ q = [s EXCEPT !.pending = b, !.debounce = s.debounce]
  BY <1>4 DEF Edited
<1> HIDE DEF s, b, q
<1>6. p = q
  BY <1>4, <1>5 DEF PanelType
<1>7. /\ q \in PanelType /\ QueueInv(q) /\ BindingInv(q, life[panel.bound])
      /\ Matches(q) /\ FormInv(q, life[panel.bound], stored[panel.bound])
      /\ q.bound = panel.bound /\ q.drag = panel.drag /\ q.typing = panel.typing
      /\ q.deferred = panel.deferred /\ q.debounce = panel.debounce
  <2>1. /\ QueueInv(panel) /\ BindingInv(panel, life[panel.bound])
        /\ Matches(panel) /\ FormInv(panel, life[panel.bound], stored[panel.bound])
    BY InvFacts, BatchMatches
  <2> QED
    BY <1>2, <1>3, <2>1, EditOK DEF q
<1> HIDE DEF p
<1>8. BatchInv(q) /\ ParkedInv(q)
  BY <1>1, <1>7, InvFacts, BatchMatches DEF ParkedInv
<1>9. PanelOK(q, life[q.bound], stored[q.bound])
  BY <1>7, <1>8 DEF PanelOK
<1>10. CASE FlushLive(p)
  BY <1>1, <1>6, <1>7, <1>9, <1>10, InvFacts, FlushLiveOK
<1>11. CASE panel' = [p EXCEPT !.trailing = TRUE] /\ UNCHANGED <<stored, cache>>
  <2>1. /\ panel' \in PanelType /\ Kept(panel', q)
        /\ panel'.posted = q.posted /\ panel'.queued = q.queued /\ panel'.suppress = q.suppress
        /\ panel'.deferred = q.deferred /\ panel'.parted = q.parted /\ panel'.dropped = q.dropped
        /\ panel'.lastProperties = q.lastProperties /\ panel'.lastSettings = q.lastSettings
    BY <1>6, <1>7, <1>11 DEF PanelType, Kept
  <2>2. PanelOK(panel', life[q.bound], stored[q.bound]) /\ panel'.bound = q.bound
    BY <1>9, <2>1, SamePanel DEF Kept
  <2> QED
    BY <1>1, <1>7, <1>11, <2>1, <2>2, InvFacts, EngineSame, InvIntro
<1> QED
  BY <1>1, <1>10, <1>11

\* A gesture that is over changes nothing of what is shown or owed.
LEMMA LetGo ==
  ASSUME NEW p, NEW q, NEW there, NEW st, QueueInv(p), BindingInv(p, there), Matches(p),
         FormInv(p, there, st),
         q.bound = p.bound, q.form = p.form, q.pending = p.pending,
         q.typing = p.typing \/ q.typing = NoSource,
         q.posted = p.posted, q.queued = p.queued, q.suppress = p.suppress,
         q.deferred = p.deferred, q.parted = p.parted, q.dropped = p.dropped,
         q.lastProperties = p.lastProperties, q.lastSettings = p.lastSettings
  PROVE  QueueInv(q) /\ BindingInv(q, there) /\ Matches(q) /\ FormInv(q, there, st)
<1>1. QueueInv(q) /\ BindingInv(q, there)
  BY DEF QueueInv, BindingInv, In
<1>2. Matches(q)
  BY DEF Matches
<1>3. FollowsLast(p) => FollowsLast(q)
  BY DEF FollowsLast, In
<1> QED
  BY <1>1, <1>2, <1>3 DEF FormInv, Due

LEMMA ReleaseStep ==
  ASSUME PanelInv, Release
  PROVE  PanelInv' /\ panel'.bound = panel.bound
<1> DEFINE p == [panel EXCEPT !.drag = FALSE, !.trailing = FALSE]
           r == [p EXCEPT !.deferred = FALSE]
<1>1. /\ IF p.pending # Nothing THEN FlushPending(p)
         ELSE panel' = ScheduleReload(r) /\ UNCHANGED <<stored, cache>>
      /\ UNCHANGED life
  BY DEF Release
<1>2. /\ p \in PanelType /\ p.bound = panel.bound /\ p.form = panel.form
      /\ p.pending = panel.pending /\ p.typing = panel.typing
      /\ p.posted = panel.posted /\ p.queued = panel.queued
      /\ p.suppress = panel.suppress /\ p.deferred = panel.deferred
      /\ p.parted = panel.parted /\ p.dropped = panel.dropped
      /\ p.lastProperties = panel.lastProperties /\ p.lastSettings = panel.lastSettings
  BY InvFacts DEF PanelType
<1> HIDE DEF p
<1>3. /\ QueueInv(p) /\ BindingInv(p, life[p.bound]) /\ Matches(p)
      /\ FormInv(p, life[p.bound], stored[p.bound])
  BY <1>2, InvFacts, BatchMatches, LetGo
<1>4. CASE p.pending # Nothing
  BY <1>1, <1>2, <1>3, <1>4, InvFacts, FlushPendingOK
<1>5. CASE p.pending = Nothing
  <2>1. /\ r \in PanelType /\ Kept(r, p) /\ r.deferred = FALSE
        /\ r.posted = p.posted /\ r.queued = p.queued /\ r.parted = p.parted
        /\ r.lastProperties = p.lastProperties /\ r.lastSettings = p.lastSettings
    BY <1>2 DEF PanelType, Kept
  <2> HIDE DEF r
  <2>2. QueueInv(r) /\ Joined(r, p)
    BY <1>3, <2>1 DEF QueueInv, In, Joined
  <2>3. BatchInv(r) /\ BindingInv(r, life[p.bound]) /\ ParkedInv(r)
    BY <1>3, <1>5, <2>1, <2>2, BatchMatches, KeptBatch, KeptBinding DEF Joined, ParkedInv
  <2>4. Follows(r, life[p.bound])
    BY <1>3, <2>1, <2>2, KeptFollows, FollowsFromForm DEF Follows, Kept
  <2>5. PanelOK(ScheduleReload(r), life[p.bound], stored[p.bound])
    BY <2>1, <2>2, <2>3, <2>4, ScheduleOK
  <2>6. panel' = ScheduleReload(r) /\ UNCHANGED <<life, stored, cache>>
    BY <1>1, <1>5
  <2>7. panel' \in PanelType /\ panel'.bound = p.bound
    BY <2>1, <2>2, <2>6, ScheduleFacts DEF Kept
  <2> QED
    BY <1>2, <2>5, <2>6, <2>7, InvFacts, EngineSame, InvIntro
<1> QED
  BY <1>4, <1>5

LEMMA StartTypingStep ==
  ASSUME PanelInv, NEW k \in Keys, StartTyping(k)
  PROVE  PanelInv' /\ panel'.bound = panel.bound
<1>1. /\ panel' = [panel EXCEPT !.typing = k] /\ UNCHANGED <<life, stored, cache>>
      /\ k \in DOMAIN panel.form.shown \cap (Sliders \cup TextKeys)
      /\ panel.typing = NoSource /\ ~panel.drag
  BY DEF StartTyping, Offers, AtRest
<1>2. /\ panel' \in PanelType /\ panel'.bound = panel.bound /\ panel'.form = panel.form
      /\ panel'.pending = panel.pending /\ panel'.typing = k /\ panel'.debounce = panel.debounce
      /\ panel'.drag = panel.drag
      /\ panel'.posted = panel.posted /\ panel'.queued = panel.queued
      /\ panel'.suppress = panel.suppress /\ panel'.deferred = panel.deferred
      /\ panel'.parted = panel.parted /\ panel'.dropped = panel.dropped
      /\ panel'.lastProperties = panel.lastProperties /\ panel'.lastSettings = panel.lastSettings
  BY <1>1, InvFacts DEF PanelType
<1>3. QueueInv(panel') /\ BindingInv(panel', life[panel.bound])
  BY <1>2, InvFacts DEF QueueInv, BindingInv, In
<1>4. BatchInv(panel') /\ ParkedInv(panel')
  BY <1>1, <1>2, InvFacts DEF BatchInv, ParkedInv
<1>5. FormInv(panel', life[panel.bound], stored[panel.bound])
  BY <1>2, InvFacts DEF FormInv, FollowsLast, Due, In
<1> QED
  BY <1>1, <1>2, <1>3, <1>4, <1>5, InvFacts, EngineSame, InvIntro DEF PanelOK

LEMMA EndTypingStep ==
  ASSUME PanelInv, NEW v \in Vals, EndTyping(v)
  PROVE  PanelInv' /\ panel'.bound = panel.bound
<1> DEFINE k == panel.typing
           p == [panel EXCEPT !.typing = NoSource]
           r == Shows(p, k, v)
           q == QueueChange(p, k, v)
           batch == OneEdit(k, v)
<1>1. /\ k # NoSource /\ UNCHANGED life
      /\ IF k \in TextKeys THEN ApplyNow(r, batch, FALSE)
         ELSE IF v = panel.form.shown[k] THEN FlushPending(p) ELSE FlushPending(q)
  BY DEF EndTyping
<1>2. /\ p \in PanelType /\ p.bound = panel.bound /\ p.form = panel.form
      /\ p.pending = panel.pending /\ p.typing = NoSource
      /\ p.debounce = panel.debounce /\ p.drag = panel.drag
      /\ p.posted = panel.posted /\ p.queued = panel.queued
      /\ p.suppress = panel.suppress /\ p.deferred = panel.deferred
      /\ p.parted = panel.parted /\ p.dropped = panel.dropped
      /\ p.lastProperties = panel.lastProperties /\ p.lastSettings = panel.lastSettings
  BY InvFacts DEF PanelType
<1>3. k \in DOMAIN p.form.shown /\ k \in Keys /\ k \in Sliders \cup TextKeys
  <2>1. k \in DOMAIN panel.form.shown \cap (Sliders \cup TextKeys)
    BY <1>1, InvFacts DEF BatchInv
  <2> QED
    BY <1>2, <2>1, MapFacts DEF PanelType
<1>4. k \notin DOMAIN Parent
  BY <1>3, KeysAssumption
<1> HIDE DEF p, k
<1>5. /\ QueueInv(p) /\ BindingInv(p, life[p.bound]) /\ Matches(p)
      /\ FormInv(p, life[p.bound], stored[p.bound])
  BY <1>2, InvFacts, BatchMatches, LetGo
<1>6. CASE k \in TextKeys
  <2>1. /\ batch \in Maps /\ DOMAIN batch = {k} /\ batch[k] = v /\ batch # Nothing
    BY <1>3, OneEditFacts
  <2>2. /\ r \in PanelType /\ r.bound = p.bound /\ r.posted = p.posted
        /\ r.form.of = p.form.of /\ DOMAIN r.form.shown = DOMAIN p.form.shown
        /\ r.form.shown[k] = v
        /\ \A x \in DOMAIN p.form.shown \ {k} : r.form.shown[x] = p.form.shown[x]
        /\ r.pending = p.pending /\ r.typing = p.typing
        /\ r.debounce = p.debounce /\ r.drag = p.drag
        /\ r.queued = p.queued /\ r.deferred = p.deferred
        /\ r.parted = p.parted /\ r.dropped = p.dropped
        /\ r.lastProperties = p.lastProperties /\ r.lastSettings = p.lastSettings
    BY <1>2, <1>3, ShowFacts
  <2> HIDE DEF r, batch
  <2>3. p.form.of # NoSource /\ p.bound # NoSource /\ DOMAIN p.form.shown = KeysOf[p.form.of]
    BY <1>3, <1>5, FormHasSource
  <2>4. r.bound \in Targets
    BY <1>2, <2>2, <2>3 DEF PanelType
  <2>5. QueueInv(r) /\ BindingInv(r, life[r.bound])
    BY <1>5, <2>2, <2>3 DEF QueueInv, BindingInv, In
  <2>6. BatchInv(r)
    <3>1. k \notin DOMAIN p.pending
      BY <1>5, <1>6 DEF Matches
    <3>2. Matches(r)
      BY <1>5, <2>2, <3>1 DEF Matches
    <3>3. p.pending # Nothing => p.debounce \/ p.drag
      BY <1>2, InvFacts, BatchMatches
    <3> QED
      BY <2>2, <3>2, <3>3, BatchMatches
  <2>7. r.parted => r.queued \/ r.deferred \/ r.dropped
    BY <1>5, <2>2, <2>3 DEF FormInv
  <2>8. ASSUME life[r.bound] = "live", ~r.parted PROVE Takes(r, batch)
    <3>1. FollowsLast(p)
      BY <1>5, <2>2, <2>3, <2>8 DEF FormInv
    <3>2. k \in KeysOf[p.bound]
      BY <1>3, <2>3, <3>1 DEF FollowsLast
    <3>3. /\ \A x \in DOMAIN batch \cap DOMAIN Parent : batch[x] = r.lastProperties[x]
          /\ \A x \in DOMAIN batch \ DOMAIN r.pending : r.form.shown[x] = batch[x]
      BY <1>4, <2>1, <2>2
    <3>4. \A x \in KeysOf[r.bound] \ (DOMAIN batch \cup DOMAIN r.pending) :
            r.form.shown[x] = Display(r.lastSettings)[x]
      BY <2>1, <2>2, <2>3, <3>1 DEF FollowsLast
    <3>5. \A e : In(e, r) <=> In(e, p)
      BY <2>2 DEF In
    <3> QED
      BY <2>1, <2>2, <3>1, <3>2, <3>3, <3>4, <3>5 DEF Takes, FollowsLast
  <2>9. ApplyNow(r, batch, FALSE)
    BY <1>1, <1>6
  <2> QED
    BY <1>1, <1>2, <2>1, <2>2, <2>4, <2>5, <2>6, <2>7, <2>8, <2>9, InvFacts, ApplyNowOK
<1>7. CASE k \notin TextKeys
  <2> DEFINE d == TRUE
  <2>1. q = Edited(p, k, v, d)
    BY DEF QueueChange, Edited
  <2>2. d \in BOOLEAN /\ k \in DOMAIN p.form.shown \ (DOMAIN Parent \cup TextKeys)
    BY <1>3, <1>4, <1>7
  <2> HIDE DEF d, q
  <2>3. /\ q \in PanelType /\ QueueInv(q) /\ BindingInv(q, life[p.bound])
        /\ Matches(q) /\ FormInv(q, life[p.bound], stored[p.bound]) /\ q.bound = p.bound
    BY <1>2, <1>5, <2>1, <2>2, EditOK
  <2>4. FlushPending(p) \/ FlushPending(q)
    BY <1>1, <1>7
  <2> QED
    BY <1>1, <1>2, <1>5, <2>3, <2>4, InvFacts, FlushPendingOK
<1> QED
  BY <1>6, <1>7

LEMMA InvokeButtonStep ==
  ASSUME PanelInv, NEW k \in Keys, NEW v \in Vals, InvokeButton(k, v)
  PROVE  PanelInv' /\ panel'.bound = panel.bound
<1> DEFINE t == panel.bound
<1>1. /\ panel' = ScheduleReload(panel) /\ UNCHANGED <<life, cache>>
      /\ stored' = [stored EXCEPT ![t][k] = v] /\ k \in TextKeys
      /\ t # NoSource /\ k \in KeysOf[t]
  <2>1. DOMAIN OneEdit(k, v) = {k}
    BY OneEditFacts
  <2> QED
    BY <2>1 DEF InvokeButton, Accepts
<1>2. t \in Targets /\ EngineOK
  BY <1>1, InvFacts
<1> DEFINE st == stored[t]
           new == [st EXCEPT ![k] = v]
<1>3. st \in [KeysOf[t] -> Vals] /\ new \in [KeysOf[t] -> Vals]
  BY <1>2 DEF EngineOK
<1>4. Props(new) = Props(st)
  <2>1. \A x \in KeysOf[t] \cap DOMAIN Parent : Parent[x] \in KeysOf[t] \ {k}
    BY <1>1, <1>2, KeysAssumption
  <2>2. \A x \in KeysOf[t] \ {k} : new[x] = st[x]
    BY <1>3
  <2>3. DOMAIN new = KeysOf[t] /\ DOMAIN st = KeysOf[t]
    BY <1>3
  <2> HIDE DEF new, st
  <2> QED
    BY <2>1, <2>2, <2>3 DEF Props
<1>5. stored' = [stored EXCEPT ![t] = new]
  BY <1>1
<1> HIDE DEF new
<1>6. EngineOK'
  BY <1>1, <1>2, <1>3, <1>4, <1>5 DEF EngineOK
<1>7. PanelOK(panel', life[t], stored'[t])
  BY <1>1, InvFacts, ScheduleOK
<1>8. panel' \in PanelType /\ panel'.bound = t
  BY <1>1, InvFacts, ScheduleFacts DEF Kept
<1> QED
  BY <1>1, <1>6, <1>7, <1>8, InvFacts, InvIntro

\* Bound elsewhere, whatever was queued, held or typed is the old target's.
LEMMA ReboundFacts ==
  ASSUME NEW p \in PanelType, QueueInv(p), NEW t \in Targets
  PROVE  LET q == Rebound(p, t)
         IN /\ q \in PanelType /\ QueueInv(q) /\ Joined(q, p) /\ q.bound = t
            /\ q.form = p.form /\ q.typing = p.typing /\ q.pending = Nothing
            /\ q.deferred = FALSE /\ q.queued /\ q.parted
<1> DEFINE u == [Unbound(p) EXCEPT !.bound = t]
           q == [ScheduleReload(u) EXCEPT !.parted = TRUE]
<1>1. Rebound(p, t) = q
  BY KeysAssumption DEF Rebound
<1>2. /\ u \in PanelType /\ u.bound = t /\ u.form = p.form /\ u.typing = p.typing
      /\ u.pending = Nothing /\ u.deferred = FALSE
      /\ u.posted = p.posted /\ u.queued = p.queued
  BY NothingFacts DEF Unbound, PanelType
<1> HIDE DEF u
<1>3. QueueInv(u) /\ Joined(u, p)
  BY <1>2 DEF QueueInv, In, Joined
<1>4. /\ q \in PanelType /\ QueueInv(q) /\ Kept(q, u) /\ Joined(q, u)
      /\ q.deferred = u.deferred /\ q.queued /\ q.parted
  BY <1>2, <1>3, PartedFacts
<1> HIDE DEF q
<1>5. Joined(q, p)
  BY <1>3, <1>4 DEF Joined
<1> QED
  BY <1>1, <1>2, <1>4, <1>5 DEF Kept

LEMMA ClearedOK ==
  ASSUME NEW p \in PanelType, QueueInv(p), NEW there, NEW st
  PROVE  LET q == Rebound(p, NoSource)
         IN q \in PanelType /\ PanelOK(q, there, st)
<1> DEFINE q == [Unbound(p) EXCEPT !.bound = NoSource, !.form = Blank, !.typing = NoSource]
<1>1. Rebound(p, NoSource) = q
  BY DEF Rebound
<1>2. Blank \in [of : Targets \cup {NoSource}, shown : Maps]
  BY NothingFacts DEF Blank
<1>3. /\ q \in PanelType /\ q.bound = NoSource /\ q.form = Blank /\ q.typing = NoSource
      /\ q.pending = Nothing /\ q.deferred = FALSE
      /\ q.posted = p.posted /\ q.queued = p.queued
  BY <1>2, NothingFacts DEF Unbound, PanelType
<1> HIDE DEF q
<1>4. QueueInv(q)
  BY <1>3 DEF QueueInv, In
<1>5. BindingInv(q, there)
  BY <1>3 DEF BindingInv, Blank
<1>6. BatchInv(q) /\ ParkedInv(q) /\ FormInv(q, there, st)
  BY <1>3, NothingFacts DEF BatchInv, ParkedInv, FormInv
<1> QED
  BY <1>1, <1>3, <1>4, <1>5, <1>6 DEF PanelOK

LEMMA SetTargetOK ==
  ASSUME PanelInv, AtRest, NEW t \in Targets, SetTarget(t),
         life' \in [Targets -> {"new", "live", "gone"}],
         life'[t] = "live" \/ (life'[t] = "gone" /\ In(Refresh, panel))
  PROVE  PanelInv'
<1> DEFINE q == AfterApply(panel, panel.pending, FALSE)
           r == Rebound(q, t)
<1>1. panel.pending \in Maps /\ panel \in PanelType
  BY InvFacts DEF PanelType
<1>2. q \in PanelType /\ QueueInv(q) /\ Kept(q, panel) /\ Joined(q, panel)
  BY <1>1, InvFacts, AppliedFacts
<1>3. panel' = r
  BY DEF SetTarget
<1> HIDE DEF q
<1>4. /\ r \in PanelType /\ QueueInv(r) /\ Joined(r, q) /\ r.bound = t
      /\ r.form = q.form /\ r.typing = q.typing /\ r.pending = Nothing
      /\ r.deferred = FALSE /\ r.queued /\ r.parted
  BY <1>2, ReboundFacts
<1> HIDE DEF r
<1>5. r.form = panel.form /\ r.typing = NoSource
  BY <1>2, <1>4 DEF Kept, AtRest
<1>6. BindingInv(r, life'[t])
  <2>1. In(Refresh, panel) => In(Refresh, r)
    BY <1>2, <1>4 DEF Joined
  <2>2. BindingInv(panel, life[panel.bound])
    BY InvFacts
  <2>3. t # NoSource
    BY KeysAssumption
  <2> QED
    BY <1>4, <1>5, <2>1, <2>2, <2>3 DEF BindingInv
<1>7. BatchInv(r) /\ ParkedInv(r)
  BY <1>4, <1>5, NothingFacts DEF BatchInv, ParkedInv
<1>8. PanelOK(r, life'[t], stored'[t])
  BY <1>4, <1>6, <1>7, PartedOK
<1>9. EngineOK'
  <2>1. CASE panel.bound = NoSource \/ panel.pending = Nothing
    BY <2>1, InvFacts, EngineSame DEF SetTarget
  <2>2. CASE ~(panel.bound = NoSource \/ panel.pending = Nothing)
    BY <1>1, <2>2, InvFacts, WrittenFacts DEF SetTarget
  <2> QED
    BY <2>1, <2>2
<1> QED
  BY <1>3, <1>4, <1>8, <1>9, InvIntro

LEMMA SelectStep ==
  ASSUME PanelInv, NEW t \in Targets, Select(t)
  PROVE  PanelInv'
  BY InvFacts, SetTargetOK DEF Select

LEMMA AddSourceStep ==
  ASSUME PanelInv, NEW t \in Targets, AddSourceDialog(t)
  PROVE  PanelInv'
<1>1. AtRest /\ life' = [life EXCEPT ![t] = "live"] /\ SetTarget(t)
  BY DEF AddSourceDialog
<1>2. life' \in [Targets -> {"new", "live", "gone"}] /\ life'[t] = "live"
  BY <1>1, InvFacts
<1> QED
  BY <1>1, <1>2, SetTargetOK

LEMMA RemoveSelectedStep ==
  ASSUME PanelInv, RemoveSelectedSource
  PROVE  PanelInv'
<1>1. /\ life' = [life EXCEPT ![panel.bound] = "gone"]
      /\ panel' = Rebound(panel, NoSource) /\ UNCHANGED <<stored, cache>>
  BY DEF RemoveSelectedSource
<1>2. life' \in [Targets -> {"new", "live", "gone"}]
  BY <1>1, InvFacts
<1>3. panel' \in PanelType /\ PanelOK(panel', life'[panel'.bound], stored'[panel'.bound])
  BY <1>1, InvFacts, ClearedOK
<1> QED
  BY <1>1, <1>2, <1>3, InvFacts, EngineSame, InvIntro
-----------------------------------------------------------------------------
(* Clients, timers and the posted events.                                  *)

LEMMA ClientSetsStep ==
  ASSUME PanelInv, NEW t \in Targets, NEW k \in Keys, NEW v \in Vals, ClientSets(t, k, v)
  PROVE  PanelInv' /\ panel'.bound = panel.bound
<1> DEFINE e == OneEdit(k, v)
           b == panel.bound
<1>1. /\ Written(t, e) /\ UNCHANGED life
      /\ panel' = IF t = b THEN ScheduleReload(panel) ELSE panel
  BY DEF ClientSets
<1>2. e \in Maps
  BY OneEditFacts
<1> HIDE DEF e
<1>3. EngineOK' /\ \A u \in Targets \ {t} : stored'[u] = stored[u]
  BY <1>1, <1>2, InvFacts, WrittenFacts
<1>4. CASE t = b
  <2>1. panel' = ScheduleReload(panel)
    BY <1>1, <1>4
  <2>2. PanelOK(panel', life[b], stored'[b])
    BY <2>1, InvFacts, ScheduleOK
  <2>3. panel' \in PanelType /\ panel'.bound = b
    BY <2>1, InvFacts, ScheduleFacts DEF Kept
  <2> QED
    BY <1>1, <1>3, <2>2, <2>3, InvFacts, InvIntro
<1>5. CASE t # b
  <2>1. panel' = panel
    BY <1>1, <1>5
  <2>2. b \in Targets => stored'[b] = stored[b]
    BY <1>3, <1>5
  <2>3. FormInv(panel, life[b], stored'[b])
    BY <2>2, InvFacts DEF FormInv
  <2>4. PanelOK(panel, life[b], stored'[b])
    BY <2>3, InvFacts DEF PanelOK
  <2> QED
    BY <1>1, <1>3, <2>1, <2>4, InvFacts, InvIntro
<1> QED
  BY <1>4, <1>5

LEMMA ClientRemovesStep ==
  ASSUME PanelInv, NEW t \in Targets, ClientRemoves(t)
  PROVE  PanelInv' /\ panel'.bound = panel.bound
<1> DEFINE b == panel.bound
           q == [panel EXCEPT !.posted = Append(@, Refresh)]
<1>1. /\ life[t] = "live" /\ life' = [life EXCEPT ![t] = "gone"] /\ UNCHANGED <<stored, cache>>
      /\ panel' = IF In(Refresh, panel) THEN panel ELSE q
  BY DEF ClientRemoves
<1>2. life' \in [Targets -> {"new", "live", "gone"}]
  BY <1>1, InvFacts
<1>3. /\ panel.posted \in Seq(Events) /\ Refresh \in Events /\ Reload # Refresh
      /\ Refresh \notin Commits
  BY InvFacts, EventFacts DEF PanelType
<1>4. /\ Append(panel.posted, Refresh) \in Seq(Events)
      /\ Range(Append(panel.posted, Refresh)) = Range(panel.posted) \cup {Refresh}
  BY <1>3, AppendProperties, AppendRange
<1>5. (panel.queued <=> In(Reload, panel)) /\ Ordered(panel.posted)
  BY InvFacts, QueueIsOrdered
<1>6. /\ q \in PanelType /\ Kept(q, panel) /\ q.posted = Append(panel.posted, Refresh)
      /\ q.queued = panel.queued /\ q.suppress = panel.suppress /\ q.deferred = panel.deferred
      /\ q.parted = panel.parted /\ q.dropped = panel.dropped
      /\ q.lastProperties = panel.lastProperties /\ q.lastSettings = panel.lastSettings
  BY <1>4, InvFacts DEF PanelType, Kept
<1> HIDE DEF q
<1>7. QueueInv(q)
  <2>1. Ordered(q.posted)
    BY <1>3, <1>5, <1>6, OrderedAppend
  <2>2. q.queued <=> In(Reload, q)
    BY <1>3, <1>4, <1>5, <1>6 DEF In
  <2> QED
    BY <1>6, <2>1, <2>2, QueueIsOrdered
<1>8. \A e : In(e, q) <=> e = Refresh \/ In(e, panel)
  BY <1>4, <1>6 DEF In
<1>9. b # NoSource => life'[b] = life[b] \/ (life'[b] = "gone" /\ life[b] = "live")
  BY <1>1, InvFacts
<1>10. /\ panel' \in PanelType /\ Kept(panel', panel) /\ QueueInv(panel')
       /\ In(Refresh, panel') /\ \A e : In(e, panel') <=> e = Refresh \/ In(e, panel)
       /\ panel'.queued = panel.queued /\ panel'.suppress = panel.suppress
       /\ panel'.deferred = panel.deferred /\ panel'.parted = panel.parted
       /\ panel'.dropped = panel.dropped
       /\ panel'.lastProperties = panel.lastProperties
       /\ panel'.lastSettings = panel.lastSettings
  <2>1. CASE In(Refresh, panel)
    BY <1>1, <2>1, InvFacts DEF Kept
  <2>2. CASE ~In(Refresh, panel)
    BY <1>1, <1>6, <1>7, <1>8, <2>2
  <2> QED
    BY <2>1, <2>2
<1>11. panel'.bound = b
  BY <1>10 DEF Kept
<1>12. BatchInv(panel') /\ ParkedInv(panel')
  BY <1>10, InvFacts, KeptBatch DEF ParkedInv, Kept
<1>13. BindingInv(panel', life'[b])
  BY <1>9, <1>10, InvFacts DEF BindingInv, Kept
<1>14. FormInv(panel', life'[b], stored'[b])
  <2>1. ASSUME FollowsLast(panel) PROVE FollowsLast(panel')
    <3>1. \A e \in Commits : In(e, panel') <=> In(e, panel)
      BY <1>3, <1>10
    <3>2. \A k : In(Event("commit", k, panel'.lastProperties[k]), panel)
                   => In(Event("commit", k, panel'.lastProperties[k]), panel')
      BY <1>10
    <3> QED
      BY <1>10, <2>1, <3>1, <3>2 DEF FollowsLast, Kept
  <2>2. Due(panel') <=> Due(panel)
    BY <1>10 DEF Due
  <2> QED
    BY <1>1, <1>9, <1>10, <2>1, <2>2, InvFacts DEF FormInv, Kept
<1> QED
  BY <1>1, <1>2, <1>10, <1>11, <1>12, <1>13, <1>14, InvFacts, EngineSame, InvIntro DEF PanelOK

LEMMA DebounceStep ==
  ASSUME PanelInv, DebounceTimeout
  PROVE  PanelInv' /\ panel'.bound = panel.bound
<1> DEFINE p == [panel EXCEPT !.debounce = FALSE]
<1>1. FlushPending(p) /\ UNCHANGED life
  BY DEF DebounceTimeout
<1>2. /\ p \in PanelType /\ p.bound = panel.bound /\ p.form = panel.form
      /\ p.pending = panel.pending /\ p.typing = panel.typing
      /\ p.posted = panel.posted /\ p.queued = panel.queued
      /\ p.suppress = panel.suppress /\ p.deferred = panel.deferred
      /\ p.parted = panel.parted /\ p.dropped = panel.dropped
      /\ p.lastProperties = panel.lastProperties /\ p.lastSettings = panel.lastSettings
  BY InvFacts DEF PanelType
<1> HIDE DEF p
<1>3. /\ QueueInv(p) /\ BindingInv(p, life[p.bound]) /\ Matches(p)
      /\ FormInv(p, life[p.bound], stored[p.bound])
  BY <1>2, InvFacts, BatchMatches, LetGo
<1> QED
  BY <1>1, <1>2, <1>3, InvFacts, FlushPendingOK

LEMMA LiveTrailingStep ==
  ASSUME PanelInv, LiveTrailingTimeout
  PROVE  PanelInv' /\ panel'.bound = panel.bound
  BY InvFacts, FlushLiveOK DEF LiveTrailingTimeout, PanelOK

\* The first event leaves the queue.
LEMMA TakenFacts ==
  ASSUME NEW p \in PanelType, QueueInv(p), p.posted # << >>
  PROVE  LET q == Taken(p)
         IN /\ q \in PanelType /\ Kept(q, p) /\ Ordered(q.posted)
            /\ Head(p.posted) \in Events
            /\ \A e : In(e, p) <=> e = Head(p.posted) \/ In(e, q)
            /\ Head(p.posted) = Reload => \A e : In(e, q) => e = Refresh
            /\ q.queued = p.queued /\ q.suppress = p.suppress /\ q.deferred = p.deferred
            /\ q.parted = p.parted /\ q.dropped = p.dropped
            /\ q.lastProperties = p.lastProperties /\ q.lastSettings = p.lastSettings
<1> DEFINE s == Tail(p.posted)
           q == Taken(p)
<1>1. p.posted \in Seq(Events) /\ Ordered(p.posted)
  BY QueueIsOrdered DEF PanelType
<1>2. /\ s \in Seq(Events) /\ Head(p.posted) \in Events
      /\ Range(p.posted) = {Head(p.posted)} \cup Range(s)
  BY <1>1, TailRange
<1>3. /\ Ordered(s)
      /\ Head(p.posted) = Reload => Range(s) \subseteq {Refresh}
  BY <1>1, OrderedTail
<1>4. q = [p EXCEPT !.posted = s]
  BY DEF Taken
<1> HIDE DEF s, q
<1>5. /\ q \in PanelType /\ Kept(q, p) /\ q.posted = s
      /\ q.queued = p.queued /\ q.suppress = p.suppress /\ q.deferred = p.deferred
      /\ q.parted = p.parted /\ q.dropped = p.dropped
      /\ q.lastProperties = p.lastProperties /\ q.lastSettings = p.lastSettings
  BY <1>2, <1>4 DEF PanelType, Kept
<1> QED
  BY <1>2, <1>3, <1>5 DEF In, q

\* The form is built again, and posts the defaults its lists call for.
LEMMA RebuiltOK ==
  ASSUME NEW t \in Targets, NEW st \in [KeysOf[t] -> Vals],
         NEW p \in PanelType, p.bound = t, ~p.queued, p.pending = Nothing,
         p.typing = NoSource, p.deferred = FALSE,
         \A e : In(e, p) => e = Refresh
  PROVE  LET q == [p EXCEPT !.parted = FALSE, !.dropped = FALSE,
                            !.form = [of |-> t, shown |-> Display(st)],
                            !.lastProperties = Props(st), !.lastSettings = st,
                            !.posted = @ \o Defaults(st)]
         IN q \in PanelType /\ PanelOK(q, "live", st)
<1> DEFINE f == [of |-> t, shown |-> Display(st)]
           ps == Props(st)
           s == p.posted \o Defaults(st)
           q == [p EXCEPT !.parted = FALSE, !.dropped = FALSE, !.form = f,
                          !.lastProperties = ps, !.lastSettings = st, !.posted = s]
<1>1. /\ st \in Maps /\ ps \in Maps /\ DOMAIN ps = KeysOf[t] \cap DOMAIN Parent
      /\ Display(st) \in Maps /\ DOMAIN Display(st) = KeysOf[t]
  BY PropsFacts, DisplayFacts
<1>2. t # NoSource /\ IsFiniteSet(KeysOf[t]) /\ KeysOf[t] \subseteq Keys
  BY KeysAssumption
<1>3. /\ Defaults(st) \in Seq(Commits)
      /\ \A e \in Range(Defaults(st)) : e.key \in DOMAIN ps /\ e.val = ps[e.key]
      /\ \A k \in Unmatched(st) : Event("commit", k, ps[k]) \in Range(Defaults(st))
  <2> DEFINE us == Unmatched(st)
             ks == SetToSeq(us)
             d == Defaults(st)
  <2>1. us \subseteq KeysOf[t] /\ us \subseteq DOMAIN ps
    BY <1>1 DEF Unmatched
  <2>2. IsFiniteSet(us)
    BY <1>2, <2>1, FS_Subset
  <2>3. ks \in Seq(us) /\ Range(ks) = us
    BY <2>2, SetToSeqFacts
  <2>4. d = [i \in DOMAIN ks |-> Event("commit", ks[i], ps[ks[i]])]
    BY DEF Defaults
  <2> HIDE DEF us, ks, d, ps
  <2>5. DOMAIN ks = 1..Len(ks) /\ Len(ks) \in Nat /\ \A i \in DOMAIN ks : ks[i] \in us
    BY <2>3, LenProperties, ElementOfSeq
  <2>6. \A k \in us : Event("commit", k, ps[k]) \in Commits
    BY <1>1, <1>2, <2>1, EventFacts, MapFacts
  <2>7. d \in [1..Len(ks) -> Commits]
    BY <2>4, <2>5, <2>6
  <2>8. d \in Seq(Commits)
    BY <2>5, <2>7, IsASeq
  <2>9. ASSUME NEW e \in Range(d) PROVE e.key \in DOMAIN ps /\ e.val = ps[e.key]
    <3>1. PICK i \in DOMAIN ks : e = Event("commit", ks[i], ps[ks[i]])
      BY <2>4, <2>9 DEF Range
    <3>2. e.key = ks[i] /\ e.val = ps[ks[i]]
      BY <3>1 DEF Event
    <3> QED
      BY <2>1, <2>5, <3>1, <3>2
  <2>10. ASSUME NEW k \in us PROVE Event("commit", k, ps[k]) \in Range(d)
    <3>1. PICK i \in DOMAIN ks : ks[i] = k
      BY <2>3, <2>10 DEF Range
    <3> QED
      BY <2>4, <3>1 DEF Range
  <2> QED
    BY <2>8, <2>9, <2>10 DEF us, d, ps
<1>4. Defaults(st) \in Seq(Events) /\ p.posted \in Seq(Events) /\ Range(Defaults(st)) \subseteq Commits
  <2>1. Commits \subseteq Events
    BY DEF Events
  <2>2. Range(Defaults(st)) \subseteq Commits
    BY <1>3, RangeOfSeq
  <2> QED
    BY <1>3, <2>1, <2>2, SeqMonotonic DEF PanelType
<1>5. s \in Seq(Events) /\ Range(s) = Range(p.posted) \cup Range(Defaults(st))
  BY <1>4, ConcatProperties, RangeConcatenation
<1>6. f \in [of : Targets \cup {NoSource}, shown : Maps] /\ f.of = t /\ f.shown = Display(st)
  BY <1>1
<1> HIDE DEF f, ps, s
<1>7. /\ q \in PanelType /\ q.form = f /\ q.lastProperties = ps /\ q.lastSettings = st
      /\ q.posted = s /\ q.bound = p.bound /\ q.pending = p.pending /\ q.typing = p.typing
      /\ q.queued = p.queued /\ q.deferred = p.deferred /\ q.parted = FALSE
  BY <1>1, <1>5, <1>6 DEF PanelType
<1>8. [p EXCEPT !.parted = FALSE, !.dropped = FALSE,
                !.form = [of |-> t, shown |-> Display(st)],
                !.lastProperties = Props(st), !.lastSettings = st,
                !.posted = @ \o Defaults(st)] = q
  BY DEF f, ps, s
<1> HIDE DEF q
<1>9. \A e : In(e, q) <=> In(e, p) \/ e \in Range(Defaults(st))
  BY <1>5, <1>7 DEF In
<1>10. ~In(Reload, q)
  BY <1>4, <1>9, EventFacts
<1>11. QueueInv(q)
  BY <1>5, <1>7, <1>10, OrderedFree, QueueIsOrdered DEF In
<1>12. BindingInv(q, "live")
  BY <1>1, <1>2, <1>6, <1>7 DEF BindingInv
<1>13. BatchInv(q) /\ ParkedInv(q)
  BY <1>7, NothingFacts DEF BatchInv, ParkedInv
<1>14. FollowsLast(q)
  <2>1. \A e \in Commits : In(e, q) => e.key \in DOMAIN ps /\ e.val = ps[e.key]
    BY <1>3, <1>9, EventFacts DEF ps
  <2>2. \A k \in Unmatched(st) : In(Event("commit", k, ps[k]), q)
    BY <1>3, <1>9 DEF ps
  <2> QED
    BY <1>6, <1>7, <2>1, <2>2 DEF FollowsLast, ps
<1>15. FormInv(q, "live", st)
  BY <1>7, <1>14 DEF FormInv
<1> QED
  BY <1>7, <1>8, <1>11, <1>12, <1>13, <1>15 DEF PanelOK

LEMMA PostedReloadStep ==
  ASSUME PanelInv, PostedReload
  PROVE  PanelInv' /\ panel'.bound = panel.bound
<1> DEFINE c == Taken(panel)
           p == [c EXCEPT !.queued = FALSE]
           b == panel.bound
           busy == p.debounce \/ p.drag \/ p.typing # NoSource
<1>1. /\ panel.posted # << >> /\ Head(panel.posted) = Reload /\ UNCHANGED <<life, stored>>
      /\ IF p.suppress
         THEN /\ panel' = [p EXCEPT !.suppress = FALSE, !.dropped = @ \/ p.parted]
              /\ UNCHANGED cache
         ELSE IF busy
         THEN panel' = [p EXCEPT !.deferred = TRUE] /\ UNCHANGED cache
         ELSE ReloadNow(p)
  BY DEF PostedReload
<1>2. /\ c \in PanelType /\ Kept(c, panel) /\ Ordered(c.posted)
      /\ \A e : In(e, panel) <=> e = Reload \/ In(e, c)
      /\ \A e : In(e, c) => e = Refresh
      /\ c.suppress = panel.suppress /\ c.deferred = panel.deferred
      /\ c.parted = panel.parted /\ c.dropped = panel.dropped
      /\ c.lastProperties = panel.lastProperties /\ c.lastSettings = panel.lastSettings
  BY <1>1, InvFacts, TakenFacts
<1> HIDE DEF c
<1>3. /\ p \in PanelType /\ Kept(p, c) /\ p.posted = c.posted /\ p.queued = FALSE
      /\ p.suppress = c.suppress /\ p.deferred = c.deferred
      /\ p.parted = c.parted /\ p.dropped = c.dropped
      /\ p.lastProperties = c.lastProperties /\ p.lastSettings = c.lastSettings
  BY <1>2 DEF PanelType, Kept
<1> HIDE DEF p
<1>4. Kept(p, panel) /\ \A e : In(e, p) <=> In(e, c)
  BY <1>2, <1>3 DEF Kept, In
<1>5. \A e : In(e, p) => e = Refresh
  BY <1>2, <1>4
<1>6. QueueInv(p)
  BY <1>2, <1>3, <1>5, EventFacts, QueueIsOrdered
<1>7. In(Refresh, panel) => In(Refresh, p)
  BY <1>2, <1>4, EventFacts
<1>8. BindingInv(p, life[b]) /\ BatchInv(p) /\ ParkedInv(p)
  BY <1>2, <1>3, <1>4, <1>7, InvFacts, KeptBinding, KeptBatch DEF ParkedInv, Kept
<1>9. FollowsLast(panel) => FollowsLast(p)
  <2>1. \A e \in Commits : In(e, p) <=> In(e, panel)
    BY <1>2, <1>4, EventFacts
  <2> SUFFICES ASSUME FollowsLast(panel) PROVE FollowsLast(p)
    OBVIOUS
  <2>2. \A k \in Unmatched(p.lastSettings) : In(Event("commit", k, p.lastProperties[k]), p)
    <3>1. SUFFICES ASSUME NEW k \in Unmatched(p.lastSettings)
                   PROVE  In(Event("commit", k, p.lastProperties[k]), p)
      OBVIOUS
    <3>2. In(Event("commit", k, p.lastProperties[k]), panel)
      BY <1>2, <1>3, <3>1 DEF FollowsLast
    <3>3. Event("commit", k, p.lastProperties[k]) # Reload
      BY DEF Event, Reload
    <3> QED
      BY <1>2, <1>4, <3>2, <3>3
  <2> QED
    BY <1>2, <1>3, <1>4, <2>1, <2>2 DEF FollowsLast, Kept
<1>10. p.bound = b
  BY <1>4 DEF Kept
<1>11. CASE p.suppress
  <2> DEFINE d == p.dropped \/ p.parted
  <2>1. panel' = [p EXCEPT !.suppress = FALSE, !.dropped = d] /\ UNCHANGED cache
    BY <1>1, <1>11
  <2>2. d \in BOOLEAN
    BY <1>3 DEF PanelType
  <2> HIDE DEF d
  <2>3. /\ panel' \in PanelType /\ Kept(panel', p) /\ panel'.posted = p.posted
        /\ panel'.queued = p.queued /\ panel'.deferred = p.deferred
        /\ panel'.parted = p.parted /\ panel'.dropped = d
        /\ panel'.lastProperties = p.lastProperties /\ panel'.lastSettings = p.lastSettings
    BY <1>3, <2>1, <2>2 DEF PanelType, Kept
  <2>4. QueueInv(panel') /\ Joined(panel', p)
    BY <1>6, <2>3 DEF QueueInv, In, Joined
  <2>5. BindingInv(panel', life[b]) /\ BatchInv(panel') /\ ParkedInv(panel')
    BY <1>8, <2>3, <2>4, KeptBinding, KeptBatch DEF ParkedInv, Kept, Joined
  <2>6. FollowsLast(p) => FollowsLast(panel')
    BY <2>3, <2>4, KeptFollows
  <2>7. panel'.bound = b
    BY <1>10, <2>3 DEF Kept
  <2>8. ~Due(panel') => ~Due(panel)
    BY <1>2, <1>3, <1>11, <2>3 DEF Due
  <2>9. FormInv(panel, life[b], stored[b])
    BY InvFacts
  <2>10. FormInv(panel', life[b], stored[b])
    <3>1. panel'.parted => panel'.dropped
      BY <2>3 DEF d
    <3>2. panel'.parted = panel.parted /\ panel'.lastSettings = panel.lastSettings
      BY <1>2, <1>3, <2>3
    <3> QED
      BY <1>9, <2>6, <2>7, <2>8, <2>9, <3>1, <3>2 DEF FormInv
  <2> QED
    BY <1>1, <2>1, <2>3, <2>4, <2>5, <2>7, <2>10, InvFacts, EngineSame, InvIntro DEF PanelOK
<1>12. CASE ~p.suppress /\ busy
  <2>1. panel' = [p EXCEPT !.deferred = TRUE] /\ UNCHANGED cache
    BY <1>1, <1>12
  <2>2. /\ panel' \in PanelType /\ Kept(panel', p) /\ panel'.posted = p.posted
        /\ panel'.queued = p.queued /\ panel'.deferred = TRUE /\ panel'.parted = p.parted
        /\ panel'.lastProperties = p.lastProperties /\ panel'.lastSettings = p.lastSettings
    BY <1>3, <2>1 DEF PanelType, Kept
  <2>3. QueueInv(panel') /\ Joined(panel', p)
    BY <1>6, <2>2 DEF QueueInv, In, Joined
  <2>4. BindingInv(panel', life[b]) /\ BatchInv(panel') /\ ParkedInv(panel')
    BY <1>8, <1>12, <2>2, <2>3, KeptBinding, KeptBatch DEF ParkedInv, Kept, Joined
  <2>5. FollowsLast(panel) => FollowsLast(panel')
    BY <1>9, <2>2, <2>3, KeptFollows
  <2>6. panel'.bound = b
    BY <1>10, <2>2 DEF Kept
  <2>7. FormInv(panel', life[b], stored[b])
    <3>1. Due(panel') /\ panel'.parted = panel.parted
      BY <1>2, <1>3, <2>2 DEF Due
    <3> QED
      BY <2>2, <2>5, <2>6, <3>1, InvFacts DEF FormInv
  <2> QED
    BY <1>1, <2>1, <2>2, <2>3, <2>4, <2>6, <2>7, InvFacts, EngineSame, InvIntro DEF PanelOK
<1>13. CASE ~p.suppress /\ ~busy
  <2>1. ReloadNow(p)
    BY <1>1, <1>13
  <2>2. p.pending = Nothing /\ p.typing = NoSource /\ p.deferred = FALSE
    BY <1>3, <1>8, <1>13 DEF BatchInv, ParkedInv, PanelType
  <2>3. CASE b = NoSource \/ life[b] # "live"
    <3> DEFINE q == [p EXCEPT !.parted = FALSE, !.dropped = FALSE, !.form = Blank]
    <3>1. panel' = q /\ UNCHANGED cache
      BY <1>10, <2>1, <2>3 DEF ReloadNow
    <3>2. Blank \in [of : Targets \cup {NoSource}, shown : Maps]
      BY NothingFacts DEF Blank
    <3>3. /\ q \in PanelType /\ q.bound = b /\ q.form = Blank /\ q.pending = Nothing
          /\ q.typing = NoSource /\ q.deferred = FALSE /\ q.parted = FALSE
          /\ q.posted = p.posted /\ q.queued = p.queued
      BY <1>3, <1>10, <2>2, <3>2 DEF PanelType
    <3> HIDE DEF q
    <3>4. QueueInv(q)
      BY <1>6, <3>3 DEF QueueInv, In
    <3>5. BindingInv(q, life[b])
      BY <1>8, <1>10, <3>3 DEF BindingInv, Blank, In
    <3>6. BatchInv(q) /\ ParkedInv(q) /\ FormInv(q, life[b], stored[b])
      BY <2>3, <3>3, NothingFacts DEF BatchInv, ParkedInv, FormInv
    <3> QED
      BY <1>1, <3>1, <3>3, <3>4, <3>5, <3>6, InvFacts, EngineSame, InvIntro DEF PanelOK
  <2>4. CASE b # NoSource /\ life[b] = "live"
    <3> DEFINE st == stored[b]
               q == [p EXCEPT !.parted = FALSE, !.dropped = FALSE,
                              !.form = [of |-> b, shown |-> Display(st)],
                              !.lastProperties = Props(st), !.lastSettings = st,
                              !.posted = @ \o Defaults(st)]
    <3>1. b \in Targets /\ EngineOK
      BY <2>4, InvFacts
    <3>2. st \in [KeysOf[b] -> Vals]
      BY <3>1 DEF EngineOK
    <3>3. panel' = q /\ cache' = [cache EXCEPT ![b] = Props(st)]
      BY <1>10, <2>1, <2>4 DEF ReloadNow
    <3>4. q \in PanelType /\ PanelOK(q, "live", st)
      BY <1>3, <1>5, <1>10, <2>2, <3>1, <3>2, RebuiltOK
    <3>5. q.bound = b
      BY <1>3, <1>10 DEF PanelType
    <3> HIDE DEF q, st
    <3>6. EngineOK'
      BY <1>1, <3>1, <3>3 DEF EngineOK, st
    <3>7. PanelOK(panel', life'[b], stored'[b])
      BY <1>1, <2>4, <3>3, <3>4 DEF st
    <3> QED
      BY <1>1, <3>3, <3>4, <3>5, <3>6, <3>7, InvFacts, InvIntro
  <2> QED
    BY <2>3, <2>4
<1> QED
  BY <1>11, <1>12, <1>13

LEMMA PostedCommitStep ==
  ASSUME PanelInv, PostedCommit
  PROVE  PanelInv' /\ panel'.bound = panel.bound
<1> DEFINE e == Head(panel.posted)
           p == Taken(panel)
           b == panel.bound
           batch == OneEdit(e.key, e.val)
<1>1. panel.posted # << >> /\ e.do = "commit" /\ ApplyNow(p, batch, FALSE) /\ UNCHANGED life
  BY DEF PostedCommit
<1>2. /\ p \in PanelType /\ Kept(p, panel) /\ Ordered(p.posted) /\ e \in Events
      /\ \A x : In(x, panel) <=> x = e \/ In(x, p)
      /\ p.queued = panel.queued /\ p.suppress = panel.suppress /\ p.deferred = panel.deferred
      /\ p.parted = panel.parted /\ p.dropped = panel.dropped
      /\ p.lastProperties = panel.lastProperties /\ p.lastSettings = panel.lastSettings
  BY <1>1, InvFacts, TakenFacts
<1> HIDE DEF p, e
<1>3. e \in Commits /\ e.key \in Keys /\ e.val \in Vals /\ e # Reload /\ e # Refresh
  BY <1>1, <1>2, EventFacts
<1>4. /\ batch \in Maps /\ DOMAIN batch = {e.key} /\ batch[e.key] = e.val /\ batch # Nothing
  BY <1>3, OneEditFacts
<1> HIDE DEF batch
<1>5. QueueInv(p)
  <2>1. p.queued <=> In(Reload, p)
    BY <1>2, <1>3, InvFacts, QueueIsOrdered
  <2> QED
    BY <1>2, <2>1, QueueIsOrdered
<1>6. In(Refresh, panel) => In(Refresh, p)
  BY <1>2, <1>3
<1>7. BindingInv(p, life[b]) /\ BatchInv(p) /\ ParkedInv(p) /\ p.bound = b
  BY <1>2, <1>6, InvFacts, KeptBinding, KeptBatch DEF ParkedInv, Kept
<1>8. ASSUME FollowsLast(panel), b \in Targets PROVE Takes(p, batch)
  <2>1. e.key \in DOMAIN panel.lastProperties /\ e.val = panel.lastProperties[e.key]
    BY <1>2, <1>3, <1>8 DEF FollowsLast
  <2>2. DOMAIN panel.lastProperties = KeysOf[b] \cap DOMAIN Parent
    <3> DEFINE old == panel.lastSettings
    <3>1. old \in [KeysOf[b] -> Vals] /\ panel.lastProperties = Props(old)
      BY <1>8 DEF FollowsLast
    <3> HIDE DEF old, b
    <3>2. DOMAIN Props(old) = KeysOf[b] \cap DOMAIN Parent
      BY <1>8, <3>1, PropsFacts
    <3> QED
      BY <3>1, <3>2
  <2>3. /\ DOMAIN batch \subseteq KeysOf[b]
        /\ \A k \in DOMAIN batch \cap DOMAIN Parent : batch[k] = p.lastProperties[k]
    BY <1>2, <1>4, <2>1, <2>2
  <2>4. \A k \in DOMAIN batch \ DOMAIN p.pending : p.form.shown[k] = batch[k]
    <3>1. e.key \notin DOMAIN panel.pending
      BY <2>1, <2>2, InvFacts DEF BatchInv
    <3>2. panel.form.shown[e.key] = Display(panel.lastSettings)[e.key]
      BY <1>8, <2>1, <2>2, <3>1 DEF FollowsLast
    <3>3. Display(panel.lastSettings)[e.key] = panel.lastProperties[e.key]
      BY <1>8, <2>1, <2>2, DisplayFacts DEF FollowsLast
    <3> QED
      BY <1>2, <1>4, <2>1, <3>2, <3>3 DEF Kept
  <2>5. \A x \in Commits : In(x, p) =>
          x.key \in DOMAIN p.lastProperties /\ x.val = p.lastProperties[x.key]
    BY <1>2, <1>8 DEF FollowsLast
  <2>6. ASSUME NEW k \in Unmatched(p.lastSettings) \ DOMAIN batch
        PROVE  In(Event("commit", k, p.lastProperties[k]), p)
    <3>1. In(Event("commit", k, p.lastProperties[k]), panel)
      BY <1>2, <1>8, <2>6 DEF FollowsLast
    <3>2. Event("commit", k, p.lastProperties[k]).key = k
      BY DEF Event
    <3>3. Event("commit", k, p.lastProperties[k]) # e
      BY <1>4, <2>6, <3>2
    <3> QED
      BY <1>2, <3>1, <3>3
  <2> QED
    BY <1>2, <1>7, <1>8, <2>3, <2>4, <2>5, <2>6 DEF Takes, FollowsLast, Kept
<1>9. CASE b = NoSource
  <2>1. panel' = p /\ UNCHANGED <<stored, cache>>
    BY <1>1, <1>7, <1>9 DEF ApplyNow, AfterApply
  <2>2. FormInv(p, life[b], stored[b])
    BY <1>7, <1>9 DEF FormInv
  <2> QED
    BY <1>1, <1>2, <1>5, <1>7, <2>1, <2>2, InvFacts, EngineSame, InvIntro DEF PanelOK
<1>10. CASE b # NoSource
  <2>1. b \in Targets
    BY <1>10, InvFacts
  <2>2. FormInv(panel, life[b], stored[b])
    BY InvFacts
  <2>3. p.parted => p.queued \/ p.deferred \/ p.dropped
    BY <1>2, <1>10, <2>2 DEF FormInv
  <2>4. life[b] = "live" /\ ~p.parted => Takes(p, batch)
    BY <1>2, <1>8, <1>10, <2>1, <2>2 DEF FormInv
  <2> QED
    BY <1>1, <1>2, <1>4, <1>5, <1>7, <2>1, <2>3, <2>4, InvFacts, ApplyNowOK
<1> QED
  BY <1>9, <1>10

LEMMA PostedRefreshStep ==
  ASSUME PanelInv, PostedRefresh
  PROVE  PanelInv'
<1> DEFINE p == Taken(panel)
           b == panel.bound
           a == AfterApply(p, panel.pending, FALSE)
<1>1. /\ panel.posted # << >> /\ Head(panel.posted) = Refresh
      /\ UNCHANGED <<life, stored, cache>>
      /\ panel' = IF b # NoSource /\ life[b] = "gone" THEN Rebound(a, NoSource) ELSE p
  BY DEF PostedRefresh
<1>2. /\ p \in PanelType /\ Kept(p, panel) /\ Ordered(p.posted)
      /\ \A x : In(x, panel) <=> x = Refresh \/ In(x, p)
      /\ p.queued = panel.queued /\ p.suppress = panel.suppress /\ p.deferred = panel.deferred
      /\ p.parted = panel.parted /\ p.dropped = panel.dropped
      /\ p.lastProperties = panel.lastProperties /\ p.lastSettings = panel.lastSettings
  BY <1>1, InvFacts, TakenFacts
<1> HIDE DEF p
<1>3. QueueInv(p)
  <2>1. p.queued <=> In(Reload, p)
    BY <1>2, InvFacts, EventFacts, QueueIsOrdered
  <2> QED
    BY <1>2, <2>1, QueueIsOrdered
<1>4. p.bound = b
  BY <1>2 DEF Kept
<1>5. CASE b # NoSource /\ life[b] = "gone"
  <2>1. panel.pending \in Maps
    BY InvFacts DEF PanelType
  <2>2. a \in PanelType /\ QueueInv(a)
    BY <1>2, <1>3, <1>4, <2>1, InvFacts, AppliedFacts
  <2> HIDE DEF a
  <2>3. panel' \in PanelType /\ PanelOK(panel', life'[panel'.bound], stored'[panel'.bound])
    BY <1>1, <1>5, <2>2, ClearedOK
  <2> QED
    BY <1>1, <2>3, InvFacts, EngineSame, InvIntro
<1>6. CASE ~(b # NoSource /\ life[b] = "gone")
  <2>1. panel' = p
    BY <1>1, <1>6
  <2>2. BatchInv(p) /\ ParkedInv(p)
    BY <1>2, InvFacts, KeptBatch DEF ParkedInv, Kept
  <2>3. BindingInv(p, life[b])
    BY <1>2, <1>6, InvFacts DEF BindingInv, Kept
  <2>4. ASSUME FollowsLast(panel) PROVE FollowsLast(p)
    <3>1. \A e \in Commits : In(e, p) <=> In(e, panel)
      BY <1>2, EventFacts
    <3>2. \A k : Event("commit", k, p.lastProperties[k]) # Refresh
      BY DEF Event, Refresh
    <3>3. \A k : In(Event("commit", k, p.lastProperties[k]), panel)
                   => In(Event("commit", k, p.lastProperties[k]), p)
      BY <1>2, <3>2
    <3> QED
      BY <1>2, <1>4, <2>4, <3>1, <3>3 DEF FollowsLast, Kept
  <2>5. FormInv(p, life[b], stored[b])
    BY <1>2, <1>4, <2>4, InvFacts DEF FormInv, Due
  <2> QED
    BY <1>1, <1>2, <1>3, <1>4, <2>1, <2>2, <2>3, <2>5, InvFacts, EngineSame, InvIntro DEF PanelOK
<1> QED
  BY <1>5, <1>6

LEMMA PanelStep == PanelInv /\ [PanelNext]_panelVars => PanelInv'
<1> SUFFICES ASSUME PanelInv, [PanelNext]_panelVars PROVE PanelInv'
  OBVIOUS
<1>1. CASE UNCHANGED panelVars
  <2>1. UNCHANGED <<life, stored, cache, panel>>
    BY <1>1 DEF panelVars
  <2>2. PanelOK(panel', life'[panel'.bound], stored'[panel'.bound])
    BY <2>1 DEF PanelInv
  <2> QED
    BY <2>1, <2>2, InvFacts, EngineSame, InvIntro
<1>2. CASE PanelNext
  BY <1>2, PressStep, StartTypingStep, PickStep, DragStep, InvokeButtonStep, ClientSetsStep,
     EndTypingStep, SelectStep, AddSourceStep, ClientRemovesStep, ReleaseStep,
     RemoveSelectedStep, DebounceStep, LiveTrailingStep, PostedReloadStep,
     PostedCommitStep, PostedRefreshStep
     DEF PanelNext
<1> QED
  BY <1>1, <1>2

\* The panel's record, its queue, its batch and what it keeps of the last reply
\* stay in order (the fields of PropertyPanel, cachedDescriptors).
THEOREM PanelInvariant == PanelSpec => []PanelInv
  BY PanelInitHolds, PanelStep, PTL DEF PanelSpec

\* For any sources, keys and cascade table: once nothing is queued, pending or
\* held the form shows what the engine has, unless a rebuild was taken for the
\* echo of the panel's own edit (PropertyPanel::scheduleReload, applyNow).
THEOREM FormIsStaleOnlyIfDropped == PanelSpec => []StaleOnlyIfDropped
<1>1. PanelInv => StaleOnlyIfDropped
  <2> SUFFICES ASSUME PanelInv, Quiet, ~panel.dropped PROVE InStep
    BY DEF StaleOnlyIfDropped
  <2> DEFINE b == panel.bound
             st == stored[b]
  <2>1. \A e : ~In(e, panel)
    BY DEF Quiet, In, Range
  <2>2. ~panel.queued /\ ~panel.deferred
    BY <2>1, InvFacts DEF Quiet, QueueInv, ParkedInv
  <2>3. CASE b = NoSource
    BY <2>3, InvFacts DEF InStep, BindingInv
  <2>4. CASE b # NoSource
    <3>1. b \in Targets /\ life[b] = "live"
      BY <2>1, <2>4, InvFacts DEF BindingInv
    <3>2. FollowsLast(panel) /\ st = panel.lastSettings
      BY <2>2, <2>4, <3>1, InvFacts DEF FormInv, Due
    <3>3. Unmatched(st) = {}
      BY <2>1, <3>2 DEF FollowsLast
    <3>4. st \in [KeysOf[b] -> Vals] /\ panel.form.of = b
      BY <3>2 DEF FollowsLast
    <3> DEFINE m == panel.form.shown
    <3>5. m \in Maps /\ DOMAIN m = KeysOf[b] /\ panel.form = [of |-> b, shown |-> m]
      BY <2>4, <3>4, InvFacts DEF BindingInv, PanelType
    <3>6. \A k \in KeysOf[b] : m[k] = st[k]
      BY <3>1, <3>2, <3>3, <3>4, MatchedDisplay, NothingFacts DEF FollowsLast, Quiet
    <3>7. m \in [KeysOf[b] -> Vals]
      BY <3>5, MapFacts
    <3> HIDE DEF m
    <3>8. m = st
      BY <3>4, <3>6, <3>7
    <3> QED
      BY <2>4, <3>3, <3>5, <3>8 DEF InStep
  <2> QED
    BY <2>3, <2>4
<1> QED
  BY <1>1, PanelInvariant, PTL

\* An edit in the batch window when the panel is bound elsewhere reaches its
\* source, if that is still there (PropertyPanel::setTarget: "dropping it would
\* silently lose the user's change").
THEOREM EditsReachTheirSource == PanelSpec => NoEditLost
<1>1. ASSUME PanelInv, [PanelNext]_panelVars, NEW t \in Targets,
             panel.bound = t, panel'.bound # t, panel.form.of = t, life'[t] = "live"
      PROVE  \A k \in DOMAIN panel.pending : stored'[t][k] = panel.pending[k]
  <2>1. DOMAIN panel.pending \subseteq KeysOf[t]
    BY <1>1, InvFacts DEF BindingInv, BatchInv
  <2>2. ASSUME NEW u \in Targets, SetTarget(u), life[t] = "live"
        PROVE  \A k \in DOMAIN panel.pending : stored'[t][k] = panel.pending[k]
    <3>1. CASE panel.pending = Nothing
      BY <3>1, NothingFacts
    <3>2. CASE panel.pending # Nothing
      <4>1. panel.pending \in Maps /\ stored[t] \in [KeysOf[t] -> Vals]
        BY <1>1, InvFacts DEF PanelType, EngineOK
      <4>2. Accepts(t, panel.pending)
        BY <2>1, <2>2 DEF Accepts
      <4>3. Written(t, panel.pending)
        BY <1>1, <2>2, <3>2, KeysAssumption DEF SetTarget
      <4>4. stored'[t] = Over(panel.pending, stored[t])
        BY <1>1, <4>1, <4>2, <4>3, InvFacts, WrittenFacts
      <4> QED
        BY <2>1, <4>1, <4>4, OverSettings
    <3> QED
      BY <3>1, <3>2
  <2>3. life[t] = "live" \/ life[t] = "gone"
    BY <1>1, InvFacts DEF BindingInv
  <2>4. ASSUME NEW u \in Targets, Select(u)
        PROVE  \A k \in DOMAIN panel.pending : stored'[t][k] = panel.pending[k]
    BY <1>1, <2>2, <2>4 DEF Select
  <2>5. ASSUME NEW u \in Targets, AddSourceDialog(u)
        PROVE  \A k \in DOMAIN panel.pending : stored'[t][k] = panel.pending[k]
    <3>1. life[u] = "new" /\ life' = [life EXCEPT ![u] = "live"] /\ SetTarget(u)
      BY <2>5 DEF AddSourceDialog
    <3>2. life[t] = "live"
      BY <1>1, <2>3, <3>1, InvFacts
    <3> QED
      BY <2>2, <3>1, <3>2
  <2>6. ~RemoveSelectedSource
    BY <1>1, InvFacts DEF RemoveSelectedSource
  <2>7. ~PostedRefresh
    <3> SUFFICES ASSUME PostedRefresh PROVE FALSE
      OBVIOUS
    <3>1. /\ panel.posted # << >> /\ UNCHANGED life
          /\ (panel.bound # NoSource /\ life[panel.bound] = "gone") \/ panel' = Taken(panel)
      BY DEF PostedRefresh
    <3>2. panel' = Taken(panel)
      BY <1>1, <3>1
    <3>3. panel'.bound = panel.bound
      BY <1>1, <3>1, <3>2, InvFacts, TakenFacts DEF Kept
    <3> QED
      BY <1>1, <3>3
  <2>8. ~UNCHANGED panelVars
    BY <1>1 DEF panelVars
  <2> QED
    BY <1>1, <2>4, <2>5, <2>6, <2>7, <2>8, PressStep, StartTypingStep, PickStep, DragStep,
       InvokeButtonStep, ClientSetsStep, EndTypingStep, ClientRemovesStep, ReleaseStep,
       DebounceStep, LiveTrailingStep, PostedReloadStep, PostedCommitStep
       DEF PanelNext
<1>2. PanelInv /\ [PanelNext]_panelVars =>
        \A t \in Targets :
          /\ panel.bound = t /\ panel'.bound # t
          /\ panel.form.of = t /\ life'[t] = "live"
          => \A k \in DOMAIN panel.pending : stored'[t][k] = panel.pending[k]
  BY <1>1
<1> QED
  BY <1>2, PanelInvariant, PTL DEF PanelSpec, NoEditLost
=============================================================================
