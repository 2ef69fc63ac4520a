---------------------- MODULE InstanceDiscoveryProofs -----------------------
(***************************************************************************)
(* For any number of instances, ports, launches and changes: the types,    *)
(* what the discovery file may say, what a handed-off port means and when  *)
(* two instances can share a port.                                         *)
(***************************************************************************)
EXTENDS InstanceDiscovery, TLAPS

\* The next-state relation of one instance, and the process variables' frame.
Steps(i) ==
  \/ Resolve(i) \/ FirstPublish(i) \/ StartServer(i) \/ HandOff(i) \/ EnterLoop(i)
  \/ Change(i) \/ PublishTick(i) \/ OwnerDies(i) \/ WatchFires(i) \/ LeaveLoop(i)
  \/ StopServer(i) \/ Exit(i) \/ Crash(i)

\* Every process that runs has drawn its number, and the file holds no later one.
Numbered ==
  /\ \A i \in Instances : phase[i] # "off" => launch[i] \in 1..launches
  /\ file.launch \in 0..launches

\* No two processes that run have drawn the same number.
Distinct ==
  \A i, j \in Instances :
    i # j /\ phase[i] # "off" /\ phase[j] # "off" => launch[i] # launch[j]

\* A process handed off over its pipe never gets into the file.
PipedIsUnfiled ==
  \A i \in Instances : phase[i] # "off" /\ piped[i] => file.launch # launch[i]

\* An endpoint is up between its start and its stop only, and never without a port.
UpIsBound ==
  \A i \in Instances :
    up[i] => phase[i] \in {"started", "handed", "running", "quitting"} /\ port[i] # 0

\* What was handed off is the port that is up, from the handoff to the event loop.
HandedIsUp ==
  \A i \in Instances :
    handed[i] # 0 =>
      /\ phase[i] \in {"handed", "running", "quitting", "closed"}
      /\ phase[i] \in {"handed", "running"} => up[i] /\ handed[i] = port[i]

\* Bound, or about to bind.
Contends(i) == up[i] \/ phase[i] \in {"resolved", "published"}

\* Of two that hold one port one saw the other before it was bound.
ContendersMet ==
  \A i, j \in Instances :
    i # j /\ Contends(i) /\ Contends(j) /\ port[i] = port[j] /\ port[i] # 0 =>
      i \in rivals[j] \/ j \in rivals[i]

IInv ==
  /\ TypeOK /\ Numbered /\ Distinct /\ PipedIsUnfiled /\ UpIsBound
  /\ HandedIsUp /\ ContendersMet

LEMMA NextIsSteps ==
  ASSUME Next
  PROVE  \E i \in Instances : Steps(i)
BY DEF Next, Steps
-----------------------------------------------------------------------------
(* Types.                                                                  *)

LEMMA DescriptionIsDoc ==
  ASSUME TypeOK, NEW i \in Instances
  PROVE  Description(i) \in Docs
<1>1. /\ launch[i] \in 0..MaxLaunches
      /\ port[i] \in Ports \cup {0}
      /\ lit[i] \in BOOLEAN
  BY DEF TypeOK
<1>2. QED
  BY <1>1, PortsAssumption DEF Description, Advertised, Docs

LEMMA NothingIsDoc == Nothing \in Docs
BY MaxLaunchesAssumption DEF Nothing, Docs

LEMMA InitTypes ==
  ASSUME Init
  PROVE  TypeOK
BY NothingIsDoc, MaxLaunchesAssumption DEF Init, TypeOK, Phases

LEMMA PublishTypes ==
  ASSUME TypeOK, NEW i \in Instances, Publish(i)
  PROVE  /\ file' \in Docs
         /\ touched' \in [Instances -> BOOLEAN]
         /\ last' \in [Instances -> Docs]
<1>1. Description(i) \in Docs
  BY DescriptionIsDoc
<1>2. CASE WriteFile(i, Description(i)) /\ last' = [last EXCEPT ![i] = Description(i)]
  BY <1>1, <1>2 DEF TypeOK, WriteFile
<1>3. CASE UNCHANGED <<file, touched, last>>
  BY <1>3 DEF TypeOK
<1>4. QED
  BY <1>2, <1>3 DEF Publish

LEMMA ResetTypes ==
  ASSUME TypeOK, NEW i \in Instances, Reset(i)
  PROVE  /\ phase' \in [Instances -> Phases]
         /\ launch' \in [Instances -> 0..MaxLaunches]
         /\ piped' \in [Instances -> BOOLEAN]
         /\ port' \in [Instances -> Ports \cup {0}]
         /\ rivals' \in [Instances -> SUBSET Instances]
         /\ up' \in [Instances -> BOOLEAN]
         /\ lit' \in [Instances -> BOOLEAN]
         /\ last' \in [Instances -> Docs]
         /\ watch' \in [Instances -> {"off", "watching", "fired"}]
         /\ owner' \in [Instances -> BOOLEAN]
         /\ handed' \in [Instances -> Ports \cup {0}]
         /\ launches' \in 0..MaxLaunches /\ changes' \in Nat
<1>1. rivals' \in [Instances -> SUBSET Instances]
  BY DEF TypeOK, Reset
<1>2. QED
  BY <1>1, NothingIsDoc DEF TypeOK, Reset, Phases

LEMMA StepTypes ==
  ASSUME TypeOK, Numbered, NEW i \in Instances, Steps(i)
  PROVE  TypeOK'
<1>1. CASE Resolve(i)
  <2>1. launches + 1 \in 0..MaxLaunches
    BY <1>1, MaxLaunchesAssumption DEF Resolve, TypeOK
  <2>2. port' \in [Instances -> Ports \cup {0}] /\ rivals' \in [Instances -> SUBSET Instances]
    BY <1>1 DEF Resolve, TypeOK, FreePorts
  <2>3. PICK pipeMode \in BOOLEAN : piped' = [piped EXCEPT ![i] = pipeMode]
    BY <1>1 DEF Resolve
  <2>4. (i \in Owned) \in BOOLEAN
    OBVIOUS
  <2>5. owner' = [owner EXCEPT ![i] = i \in Owned]
    BY <1>1 DEF Resolve
  <2>6. piped' \in [Instances -> BOOLEAN] /\ owner' \in [Instances -> BOOLEAN]
    BY <2>3, <2>4, <2>5, Zenon DEF TypeOK
  <2>7. phase' \in [Instances -> Phases]
    BY <1>1 DEF Resolve, TypeOK, Phases
  <2>8. launch' \in [Instances -> 0..MaxLaunches] /\ launches' \in 0..MaxLaunches
    BY <1>1, <2>1 DEF Resolve, TypeOK
  <2>9. QED
    BY <1>1, <2>2, <2>6, <2>7, <2>8 DEF Resolve, TypeOK
<1>2. CASE FirstPublish(i)
  BY <1>2, PublishTypes DEF FirstPublish, TypeOK, Phases
<1>3. CASE StartServer(i)
  BY <1>3 DEF StartServer, TypeOK, Phases
<1>4. CASE HandOff(i)
  <2>1. HandedPort(i) \in Ports \cup {0}
    BY DEF HandedPort, TypeOK
  <2>2. handed' \in [Instances -> Ports \cup {0}]
    BY <1>4, <2>1 DEF HandOff, TypeOK
  <2>3. QED
    BY <1>4, <2>2 DEF HandOff, TypeOK, Phases
<1>5. CASE EnterLoop(i)
  BY <1>5 DEF EnterLoop, TypeOK, Phases
<1>6. CASE Change(i)
  BY <1>6 DEF Change, TypeOK
<1>7. CASE PublishTick(i)
  BY <1>7, PublishTypes DEF PublishTick, TypeOK
<1>8. CASE OwnerDies(i)
  BY <1>8 DEF OwnerDies, TypeOK, process
<1>9. CASE WatchFires(i)
  BY <1>9 DEF WatchFires, TypeOK
<1>10. CASE LeaveLoop(i)
  BY <1>10 DEF LeaveLoop, TypeOK, Phases
<1>11. CASE StopServer(i)
  BY <1>11 DEF StopServer, TypeOK, Phases
<1>12. CASE Exit(i) \/ Crash(i)
  <2>1. Reset(i) /\ launch[i] \in 1..MaxLaunches
    <3>1. phase[i] # "off"
      BY <1>12 DEF Exit, Crash
    <3>2. QED
      BY <1>12, <3>1 DEF Exit, Crash, Numbered, TypeOK
  <2>2. left' \in SUBSET (1..MaxLaunches)
    BY <1>12, <2>1 DEF Exit, Crash, TypeOK
  <2>3. file' \in Docs /\ touched' \in [Instances -> BOOLEAN]
    BY <1>12, NothingIsDoc DEF Exit, Crash, WriteFile, TypeOK
  <2>4. QED
    BY <2>1, <2>2, <2>3, ResetTypes DEF TypeOK
<1>13. QED
  BY <1>1, <1>2, <1>3, <1>4, <1>5, <1>6, <1>7, <1>8, <1>9, <1>10, <1>11, <1>12 DEF Steps
-----------------------------------------------------------------------------
(* What one instance's step leaves of the others, and of itself.           *)

LEMMA OthersUntouched ==
  ASSUME TypeOK, NEW i \in Instances, Steps(i), NEW j \in Instances, j # i
  PROVE  /\ phase'[j] = phase[j] /\ launch'[j] = launch[j] /\ piped'[j] = piped[j]
         /\ port'[j] = port[j] /\ up'[j] = up[j] /\ last'[j] = last[j]
         /\ handed'[j] = handed[j]
         /\ rivals'[j] = rivals[j] \/ (phase'[i] = "off" /\ rivals'[j] = rivals[j] \ {i})
<1>1. CASE Resolve(i)
  BY <1>1 DEF Resolve, TypeOK
<1>2. CASE FirstPublish(i)
  BY <1>2 DEF FirstPublish, Publish, TypeOK
<1>3. CASE StartServer(i)
  BY <1>3 DEF StartServer, TypeOK
<1>4. CASE HandOff(i)
  BY <1>4 DEF HandOff, TypeOK
<1>5. CASE EnterLoop(i) \/ Change(i) \/ OwnerDies(i) \/ WatchFires(i) \/ LeaveLoop(i)
  BY <1>5 DEF EnterLoop, Change, OwnerDies, WatchFires, LeaveLoop, TypeOK, process
<1>6. CASE PublishTick(i)
  BY <1>6 DEF PublishTick, Publish, TypeOK
<1>7. CASE StopServer(i)
  BY <1>7 DEF StopServer, TypeOK
<1>8. CASE Exit(i) \/ Crash(i)
  <2>1. Reset(i)
    BY <1>8 DEF Exit, Crash
  <2>2. QED
    BY <2>1 DEF Reset, TypeOK
<1>9. QED
  BY <1>1, <1>2, <1>3, <1>4, <1>5, <1>6, <1>7, <1>8 DEF Steps

\* A process keeps its number from its probe to its end; the file gets the number
\* of the writer, which is not piped, or is cleared.
LEMMA OwnStep ==
  ASSUME TypeOK, Numbered, NEW i \in Instances, Steps(i)
  PROVE  \/ Resolve(i)
         \/ /\ phase[i] # "off" /\ phase'[i] # "off"
            /\ launch'[i] = launch[i] /\ piped'[i] = piped[i] /\ port'[i] = port[i]
            /\ rivals' = rivals /\ launches' = launches /\ left' = left
            /\ file' = file \/ (file' = Description(i) /\ ~piped[i])
         \/ /\ phase[i] # "off" /\ phase'[i] = "off" /\ launches' = launches
            /\ \/ file' = file /\ left' = left \cup {launch[i]}
               \/ file' = Nothing /\ left' = left
               \/ piped[i] /\ file' = file /\ left' = left
         \/ UNCHANGED <<phase, launch, piped, port, rivals, up, last, file, touched,
                        handed, left, launches>>
<1>1. CASE FirstPublish(i)
  BY <1>1 DEF FirstPublish, Publish, WriteFile, TypeOK
<1>2. CASE StartServer(i)
  BY <1>2 DEF StartServer, TypeOK
<1>3. CASE HandOff(i)
  BY <1>3 DEF HandOff, TypeOK
<1>4. CASE EnterLoop(i) \/ Change(i) \/ LeaveLoop(i)
  BY <1>4 DEF EnterLoop, Change, LeaveLoop, Running, TypeOK
<1>5. CASE PublishTick(i)
  BY <1>5 DEF PublishTick, Publish, WriteFile, Running, TypeOK
<1>6. CASE StopServer(i)
  BY <1>6 DEF StopServer, TypeOK
<1>7. CASE Exit(i)
  BY <1>7 DEF Exit, Reset, WriteFile, TypeOK
<1>8. CASE Crash(i)
  BY <1>8 DEF Crash, Reset, TypeOK
<1>9. CASE OwnerDies(i) \/ WatchFires(i)
  BY <1>9 DEF OwnerDies, WatchFires, process
<1>10. QED
  BY <1>1, <1>2, <1>3, <1>4, <1>5, <1>6, <1>7, <1>8, <1>9 DEF Steps
-----------------------------------------------------------------------------
(* The inductive invariant.                                                *)

LEMMA InitInv ==
  ASSUME Init
  PROVE  IInv
<1>1. TypeOK
  BY InitTypes
<1>2. QED
  BY <1>1, PortsAssumption DEF Init, IInv, Numbered, Distinct, PipedIsUnfiled, UpIsBound,
     HandedIsUp, ContendersMet, Contends, Nothing

LEMMA StepNumbered ==
  ASSUME TypeOK, Numbered, NEW i \in Instances, Steps(i)
  PROVE  Numbered'
<1>1. launches \in Nat /\ launches' \in {launches, launches + 1}
  BY OwnStep DEF Resolve, TypeOK
<1>2. ASSUME NEW j \in Instances, phase'[j] # "off"
      PROVE  launch'[j] \in 1..launches'
  <2>1. CASE j # i
    BY <1>1, <1>2, <2>1, OthersUntouched DEF Numbered
  <2>2. CASE j = i /\ Resolve(i)
    BY <1>1, <2>2 DEF Resolve, TypeOK
  <2>3. CASE j = i /\ ~Resolve(i)
    BY <1>1, <1>2, <2>3, OwnStep DEF Numbered
  <2>4. QED
    BY <2>1, <2>2, <2>3
<1>3. file'.launch \in 0..launches'
  <2>1. CASE file' = file
    BY <1>1, <2>1 DEF Numbered
  <2>2. CASE file' = Nothing
    BY <1>1, <2>2 DEF Nothing
  <2>3. CASE file' = Description(i) /\ phase[i] # "off"
    BY <1>1, <2>3 DEF Numbered, Description
  <2>4. QED
    BY <2>1, <2>2, <2>3, OwnStep DEF Resolve
<1>4. QED
  BY <1>2, <1>3 DEF Numbered

LEMMA StepDistinct ==
  ASSUME TypeOK, Numbered, Distinct, NEW i \in Instances, Steps(i)
  PROVE  Distinct'
<1>1. ASSUME NEW j \in Instances, j # i, phase'[i] # "off", phase'[j] # "off"
      PROVE  launch'[i] # launch'[j]
  <2>1. launch'[j] = launch[j] /\ phase[j] # "off"
    BY <1>1, OthersUntouched
  <2>2. CASE Resolve(i)
    <3>1. launch'[i] = launches + 1
      BY <2>2 DEF Resolve, TypeOK
    <3>2. launch[j] \in 1..launches /\ launches \in Nat
      BY <2>1 DEF Numbered, TypeOK
    <3>3. QED
      BY <2>1, <3>1, <3>2
  <2>3. CASE ~Resolve(i)
    <3>1. launch'[i] = launch[i] /\ phase[i] # "off"
      BY <1>1, <2>3, OwnStep
    <3>2. QED
      BY <1>1, <2>1, <3>1 DEF Distinct
  <2>4. QED
    BY <2>2, <2>3
<1>2. ASSUME NEW j \in Instances, NEW k \in Instances, j # k, j # i, k # i,
             phase'[j] # "off", phase'[k] # "off"
      PROVE  launch'[j] # launch'[k]
  BY <1>2, OthersUntouched DEF Distinct
<1>3. QED
  BY <1>1, <1>2 DEF Distinct

LEMMA StepPipedIsUnfiled ==
  ASSUME TypeOK, Numbered, Distinct, PipedIsUnfiled, NEW i \in Instances, Steps(i)
  PROVE  PipedIsUnfiled'
<1> SUFFICES ASSUME NEW j \in Instances, phase'[j] # "off", piped'[j]
             PROVE  file'.launch # launch'[j]
  BY DEF PipedIsUnfiled
<1>1. CASE j = i /\ Resolve(i)
  <2>1. launch'[j] = launches + 1 /\ file' = file /\ launches \in Nat
    BY <1>1 DEF Resolve, TypeOK
  <2>2. file.launch \in 0..launches
    BY DEF Numbered
  <2>3. QED
    BY <2>1, <2>2
<1>2. CASE j # i \/ ~Resolve(i)
  <2>1. phase[j] # "off" /\ piped[j] /\ launch'[j] = launch[j]
    BY <1>2, OwnStep, OthersUntouched
  <2>2. CASE file' = file
    BY <2>1, <2>2 DEF PipedIsUnfiled
  <2>3. CASE file' = Nothing
    <3>1. launch[j] \in 1..launches /\ launches \in Nat
      BY <2>1 DEF Numbered, TypeOK
    <3>2. QED
      BY <2>1, <2>3, <3>1 DEF Nothing
  <2>4. CASE file' = Description(i) /\ ~piped[i] /\ phase[i] # "off"
    BY <2>1, <2>4 DEF Distinct, Description
  <2>5. QED
    BY <2>2, <2>3, <2>4, OwnStep DEF Resolve
<1>3. QED
  BY <1>1, <1>2

\* What a step makes of its own endpoint: bound once, with a port, and down again.
LEMMA OwnEndpoint ==
  ASSUME TypeOK, UpIsBound, NEW i \in Instances, Steps(i), up'[i]
  PROVE  \/ phase[i] \in {"resolved", "published"} /\ phase'[i] = "started" /\ port[i] # 0
         \/ up[i] /\ phase'[i] \in {"started", "handed", "running", "quitting"}
<1>1. CASE Resolve(i)
  BY <1>1 DEF Resolve, UpIsBound
<1>2. CASE FirstPublish(i)
  BY <1>2 DEF FirstPublish, UpIsBound
<1>3. CASE StartServer(i)
  BY <1>3 DEF StartServer, TypeOK
<1>4. CASE HandOff(i) \/ EnterLoop(i) \/ LeaveLoop(i)
  BY <1>4 DEF HandOff, EnterLoop, LeaveLoop, TypeOK
<1>5. CASE Change(i) \/ PublishTick(i)
  BY <1>5 DEF Change, PublishTick, Running
<1>6. CASE OwnerDies(i) \/ WatchFires(i)
  BY <1>6 DEF OwnerDies, WatchFires, process, UpIsBound
<1>7. CASE StopServer(i) \/ Exit(i) \/ Crash(i)
  BY <1>7 DEF StopServer, Exit, Crash, Reset, TypeOK
<1>8. QED
  BY <1>1, <1>2, <1>3, <1>4, <1>5, <1>6, <1>7 DEF Steps

LEMMA StepUpIsBound ==
  ASSUME TypeOK, Numbered, UpIsBound, NEW i \in Instances, Steps(i)
  PROVE  UpIsBound'
<1> SUFFICES ASSUME NEW j \in Instances, up'[j]
             PROVE  /\ phase'[j] \in {"started", "handed", "running", "quitting"}
                    /\ port'[j] # 0
  BY DEF UpIsBound
<1>1. CASE j # i
  BY <1>1, OthersUntouched DEF UpIsBound
<1>2. CASE j = i
  <2>1. phase[i] # "off" /\ phase'[i] \in {"started", "handed", "running", "quitting"} /\ port[i] # 0
    BY <1>2, OwnEndpoint DEF UpIsBound
  <2>2. ~Resolve(i)
    BY <2>1 DEF Resolve
  <2>3. QED
    BY <1>2, <2>1, <2>2, OwnStep
<1>3. QED
  BY <1>1, <1>2

LEMMA StepHandedIsUp ==
  ASSUME TypeOK, HandedIsUp, NEW i \in Instances, Steps(i)
  PROVE  HandedIsUp'
<1> SUFFICES ASSUME NEW j \in Instances, handed'[j] # 0
             PROVE  /\ phase'[j] \in {"handed", "running", "quitting", "closed"}
                    /\ phase'[j] \in {"handed", "running"} => up'[j] /\ handed'[j] = port'[j]
  BY DEF HandedIsUp
<1>1. CASE j # i
  BY <1>1, OthersUntouched DEF HandedIsUp
<1>2. CASE j = i /\ (Resolve(i) \/ FirstPublish(i) \/ StartServer(i))
  BY <1>2 DEF Resolve, FirstPublish, StartServer, HandedIsUp, TypeOK
<1>3. CASE j = i /\ HandOff(i)
  <2>1. handed'[i] = HandedPort(i)
    BY <1>3 DEF HandOff, HandedIsUp, TypeOK
  <2>2. up[i] /\ handed'[i] = port[i]
    BY <1>3, <2>1 DEF HandedPort
  <2>3. QED
    BY <1>3, <2>2 DEF HandOff, TypeOK
<1>4. CASE j = i /\ (EnterLoop(i) \/ Change(i) \/ LeaveLoop(i) \/ StopServer(i))
  BY <1>4 DEF EnterLoop, Change, LeaveLoop, StopServer, Running, HandedIsUp, TypeOK
<1>5. CASE j = i /\ (PublishTick(i) \/ OwnerDies(i) \/ WatchFires(i))
  BY <1>5 DEF PublishTick, OwnerDies, WatchFires, process, HandedIsUp
<1>6. CASE j = i /\ (Exit(i) \/ Crash(i))
  BY <1>6 DEF Exit, Crash, Reset, TypeOK
<1>7. QED
  BY <1>1, <1>2, <1>3, <1>4, <1>5, <1>6 DEF Steps

LEMMA StepContendersMet ==
  ASSUME TypeOK, Numbered, UpIsBound, ContendersMet, NEW i \in Instances, Steps(i)
  PROVE  ContendersMet'
<1>1. ASSUME NEW j \in Instances, NEW k \in Instances, j # k, j # i, k # i,
             Contends(j)', Contends(k)', port'[j] = port'[k], port'[j] # 0
      PROVE  j \in rivals'[k] \/ k \in rivals'[j]
  <2>1. Contends(j) /\ Contends(k) /\ port[j] = port[k] /\ port[j] # 0
    BY <1>1, OthersUntouched DEF Contends
  <2>2. j \in rivals[k] \/ k \in rivals[j]
    BY <1>1, <2>1 DEF ContendersMet
  <2>3. QED
    BY <1>1, <2>2, OthersUntouched
<1>2. ASSUME NEW j \in Instances, j # i, Contends(i)', Contends(j)', port'[i] = port'[j],
             port'[i] # 0
      PROVE  i \in rivals'[j] \/ j \in rivals'[i]
  <2>1. Contends(j) /\ port'[j] = port[j]
    BY <1>2, OthersUntouched DEF Contends
  <2>2. CASE Resolve(i)
    <3>1. port'[i] \in FreePorts
      BY <1>2, <2>2 DEF Resolve, TypeOK
    <3>2. ~up[j]
      BY <1>2, <2>1, <3>1 DEF FreePorts, Listening
    <3>3. phase[j] \in {"resolved", "published"}
      BY <2>1, <3>2 DEF Contends
    <3>4. j \in rivals'[i]
      BY <1>2, <2>1, <2>2, <3>3 DEF Resolve, TypeOK
    <3>5. QED
      BY <3>4
  <2>3. CASE ~Resolve(i)
    <3>1. phase'[i] # "off"
      BY <1>2, StepUpIsBound DEF Contends, UpIsBound
    <3>2. Contends(i)
      <4>1. CASE up'[i]
        BY <4>1, OwnEndpoint DEF Contends
      <4>2. CASE phase'[i] \in {"resolved", "published"}
        BY <2>3, <4>2 DEF Contends, Steps, FirstPublish, StartServer, HandOff, EnterLoop,
           Change, PublishTick, OwnerDies, WatchFires, LeaveLoop, StopServer, Exit, Crash,
           Reset, Running, process, TypeOK
      <4>3. QED
        BY <1>2, <4>1, <4>2 DEF Contends
    <3>3. port'[i] = port[i] /\ rivals' = rivals
      BY <2>3, <3>1, OwnStep
    <3>4. QED
      BY <1>2, <2>1, <3>2, <3>3 DEF ContendersMet
  <2>4. QED
    BY <2>2, <2>3
<1>3. QED
  BY <1>1, <1>2 DEF ContendersMet

LEMMA StepInv ==
  ASSUME IInv, Next
  PROVE  IInv'
<1>1. PICK i \in Instances : Steps(i)
  BY NextIsSteps
<1>2. TypeOK' /\ Numbered' /\ Distinct' /\ PipedIsUnfiled'
  BY <1>1, StepTypes, StepNumbered, StepDistinct, StepPipedIsUnfiled DEF IInv
<1>3. UpIsBound' /\ HandedIsUp' /\ ContendersMet'
  BY <1>1, StepUpIsBound, StepHandedIsUp, StepContendersMet DEF IInv
<1>4. QED
  BY <1>2, <1>3 DEF IInv

LEMMA StutterInv ==
  ASSUME IInv, UNCHANGED vars
  PROVE  IInv'
BY DEF IInv, vars, process, TypeOK, Numbered, Distinct, PipedIsUnfiled, UpIsBound,
   HandedIsUp, ContendersMet, Contends

\* What every run of any number of instances keeps to: types, numbers, endpoints and
\* the order of probes and binds (run_gui's start-up and teardown).
THEOREM Disciplined == Spec => []IInv
<1>1. Init => IInv
  BY InitInv
<1>2. IInv /\ [Next]_vars => IInv'
  BY StepInv, StutterInv
<1>3. QED
  BY <1>1, <1>2, PTL DEF Spec

\* Every variable keeps its type.
THEOREM TypeCorrect == Spec => []TypeOK
<1>1. IInv => TypeOK
  BY DEF IInv
<1>2. QED
  BY <1>1, Disciplined, PTL

\* Two instances share a port only if one probed it before the other had bound it
\* (probeLoopbackPortFree, ControlServer::start).
THEOREM SharedPortWasContended == Spec => []SharedOnlyInWindow
<1>1. IInv => SharedOnlyInWindow
  BY DEF IInv, UpIsBound, ContendersMet, Contends, SharedOnlyInWindow
<1>2. QED
  BY <1>1, Disciplined, PTL

\* A port handed to the launcher is the one its instance has bound (run_gui's
\* pipe-mode handoff).
THEOREM LauncherFindsItsHelper == Spec => []HandedPortAnswers
<1>1. IInv => HandedPortAnswers
  BY DEF IInv, HandedIsUp, HandedPortAnswers, Running
<1>2. QED
  BY <1>1, Disciplined, PTL
-----------------------------------------------------------------------------
(* What the file says.                                                     *)

LEMMA StepStale ==
  ASSUME IInv, StaleOnlyAfterCrash, NEW i \in Instances, Steps(i)
  PROVE  StaleOnlyAfterCrash'
<1> SUFFICES ASSUME file'.launch # 0
             PROVE  \/ \E j \in Instances : phase'[j] # "off" /\ launch'[j] = file'.launch
                    \/ file'.launch \in left'
  BY DEF StaleOnlyAfterCrash, Alive
<1>1. ASSUME file' = file, left \subseteq left',
             \A j \in Instances :
               phase[j] # "off" /\ launch[j] = file.launch =>
                 (phase'[j] # "off" /\ launch'[j] = launch[j]) \/ launch[j] \in left'
      PROVE  \/ \E j \in Instances : phase'[j] # "off" /\ launch'[j] = file'.launch
             \/ file'.launch \in left'
  BY <1>1 DEF StaleOnlyAfterCrash, Alive
<1>2. CASE Resolve(i)
  <2>1. file' = file /\ left' = left /\ phase[i] = "off"
    BY <1>2 DEF Resolve
  <2>2. QED
    BY <1>1, <2>1, OthersUntouched DEF IInv
<1>3. CASE phase[i] # "off" /\ phase'[i] # "off" /\ launch'[i] = launch[i] /\ left' = left
  <2>1. CASE file' = file
    BY <1>1, <1>3, <2>1, OthersUntouched DEF IInv
  <2>2. CASE file' = Description(i)
    BY <1>3, <2>2 DEF Description
  <2>3. QED
    BY <1>3, <2>1, <2>2, OwnStep DEF IInv, Resolve
<1>4. CASE phase[i] # "off" /\ phase'[i] = "off"
  <2>1. CASE file' = file /\ left' = left \cup {launch[i]}
    BY <1>1, <2>1, OthersUntouched DEF IInv
  <2>2. CASE file' = Nothing
    BY <2>2 DEF Nothing
  <2>3. CASE piped[i] /\ file' = file /\ left' = left
    <3>1. file.launch # launch[i]
      BY <1>4, <2>3 DEF IInv, PipedIsUnfiled
    <3>2. QED
      BY <1>1, <2>3, <3>1, OthersUntouched DEF IInv
  <2>4. QED
    BY <1>4, <2>1, <2>2, <2>3, OwnStep DEF IInv, Resolve
<1>5. CASE UNCHANGED <<phase, launch, file, left>>
  BY <1>1, <1>5
<1>6. QED
  BY <1>2, <1>3, <1>4, <1>5, OwnStep DEF IInv

\* The file names a process that is gone only if it crashed or could not clear the
\* file, whatever the other instances did (run_gui's teardown).
THEOREM FileIsCleared == Spec => []StaleOnlyAfterCrash
<1>1. Init => StaleOnlyAfterCrash
  BY DEF Init, StaleOnlyAfterCrash, Nothing
<1>2. StaleOnlyAfterCrash /\ IInv /\ [Next]_vars => StaleOnlyAfterCrash'
  <2>1. ASSUME StaleOnlyAfterCrash, IInv, Next
        PROVE  StaleOnlyAfterCrash'
    <3>1. PICK i \in Instances : Steps(i)
      BY <2>1, NextIsSteps
    <3>2. QED
      BY <2>1, <3>1, StepStale
  <2>2. ASSUME StaleOnlyAfterCrash, UNCHANGED vars
        PROVE  StaleOnlyAfterCrash'
    BY <2>2 DEF vars, process, StaleOnlyAfterCrash, Alive
  <2>3. QED
    BY <2>1, <2>2
<1>3. QED
  BY <1>1, <1>2, Disciplined, PTL DEF Spec

LEMMA StepPublished ==
  ASSUME IInv, PublishedIsOnFile, NEW i \in Instances, Steps(i)
  PROVE  PublishedIsOnFile'
<1> SUFFICES ASSUME NEW j \in Instances, last'[j] # Nothing, ~touched'[j]
             PROVE  file' = last'[j]
  BY DEF PublishedIsOnFile
<1>1. TypeOK
  BY DEF IInv
<1>2. ASSUME last'[j] = last[j], UNCHANGED <<file, touched>>
      PROVE  file' = last'[j]
  BY <1>2 DEF PublishedIsOnFile
<1>3. ASSUME NEW doc, WriteFile(i, doc), j # i
      PROVE  FALSE
  BY <1>3 DEF WriteFile
<1>4. ASSUME Publish(i)
      PROVE  file' = last'[j]
  <2>1. CASE j = i /\ WriteFile(i, Description(i)) /\ last' = [last EXCEPT ![i] = Description(i)]
    BY <1>1, <2>1 DEF WriteFile, TypeOK
  <2>2. CASE UNCHANGED <<file, touched, last>>
    BY <1>2, <2>2
  <2>3. QED
    BY <1>3, <1>4, <2>1, <2>2 DEF Publish
<1>5. CASE FirstPublish(i) \/ PublishTick(i)
  BY <1>4, <1>5 DEF FirstPublish, PublishTick
<1>6. CASE Exit(i)
  <2>1. j # i
    BY <1>1, <1>6 DEF Exit, Reset, TypeOK
  <2>2. UNCHANGED <<file, touched>>
    BY <1>3, <1>6, <2>1 DEF Exit
  <2>3. QED
    BY <1>1, <1>2, <2>1, <2>2, OthersUntouched
<1>7. CASE Crash(i)
  <2>1. j # i
    BY <1>1, <1>7 DEF Crash, Reset, TypeOK
  <2>2. QED
    BY <1>1, <1>2, <1>7, <2>1, OthersUntouched DEF Crash
<1>8. CASE ~(FirstPublish(i) \/ PublishTick(i) \/ Exit(i) \/ Crash(i))
  <2>1. UNCHANGED <<file, touched, last>>
    BY <1>8 DEF Steps, Resolve, StartServer, HandOff, EnterLoop, Change, OwnerDies,
       WatchFires, LeaveLoop, StopServer, process
  <2>2. QED
    BY <1>2, <2>1
<1>9. QED
  BY <1>5, <1>6, <1>7, <1>8

\* What an instance takes for published is what the file says unless another process
\* has written to it, so the dedupe never hides a failed write (publishDiscovery).
THEOREM DedupeIsSound == Spec => []PublishedIsOnFile
<1>1. Init => PublishedIsOnFile
  BY DEF Init, PublishedIsOnFile
<1>2. PublishedIsOnFile /\ IInv /\ [Next]_vars => PublishedIsOnFile'
  <2>1. ASSUME PublishedIsOnFile, IInv, Next
        PROVE  PublishedIsOnFile'
    <3>1. PICK i \in Instances : Steps(i)
      BY <2>1, NextIsSteps
    <3>2. QED
      BY <2>1, <3>1, StepPublished
  <2>2. ASSUME PublishedIsOnFile, UNCHANGED vars
        PROVE  PublishedIsOnFile'
    BY <2>2 DEF vars, process, PublishedIsOnFile
  <2>3. QED
    BY <2>1, <2>2
<1>3. QED
  BY <1>1, <1>2, Disciplined, PTL DEF Spec
=============================================================================
