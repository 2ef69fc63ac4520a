-------------------------- MODULE InstanceDiscovery --------------------------
(***************************************************************************)
(* How clients find a running helper: the control port is probed before it *)
(* is bound, the instance is described in one discovery file or handed to  *)
(* its launcher over a pipe, and the file is cleared on the way out.       *)
(* Any number of processes run this, each may crash between any two steps, *)
(* and an owned one follows its owner.                                     *)
(*                                                                         *)
(* A launch number stands for the random token and a flag for the rest of  *)
(* the description that changes while running (lit senders, frame rate).   *)
(* Other programs hold ports and fail writes as they like.  That the       *)
(* window may swallow a quit is ControlDispatch's subject.                 *)
(***************************************************************************)
EXTENDS Naturals, FiniteSets

CONSTANTS Instances,
          Owned,        \* launched with --owner-pid, by whoever may want the pipe
          Ports,
          Requested,    \* the port all of them ask for
          MaxLaunches,  \* launches in all
          MaxChanges    \* changes of a description in all

ASSUME OwnedAssumption == Owned \subseteq Instances
ASSUME PortsAssumption == 0 \notin Ports /\ Requested \in Ports
ASSUME MaxLaunchesAssumption == MaxLaunches \in Nat

VARIABLES
  phase,     \* how far run_gui has come
  launch,    \* the control token of the process
  piped,     \* handed off over a pipe instead of the file
  port,      \* boundPort, 0 if none was free
  rivals,    \* observer: who had probed the port and not bound it yet
  up,        \* controlUp: the endpoint accepts
  lit,       \* the changing part of the description
  last,      \* lastPublishedJson
  watch,     \* the ParentWatch thread: off, watching, fired (its quit is queued)
  owner,     \* the owner lives
  file,      \* helper-config.json
  touched,   \* observer: another process wrote the file since this one did
  handed,    \* the port the launcher read from the pipe, 0 for none
  left,      \* observer: launches that ended without clearing the file
  launches, changes

process == <<phase, launch, piped, port, rivals, up, lit, last, watch>>
vars == <<process, owner, file, touched, handed, left, launches, changes>>

Nothing == [launch |-> 0, port |-> 0, lit |-> FALSE]

\* An instance that found no port describes the one it asked for.
Advertised(i) == IF port[i] = 0 THEN Requested ELSE port[i]
Description(i) == [launch |-> launch[i], port |-> Advertised(i), lit |-> lit[i]]
Docs == [launch : 0..MaxLaunches, port : Ports \cup {0}, lit : BOOLEAN]

Phases == {"off", "resolved", "published", "started", "handed", "running", "quitting", "closed"}
Running(i) == phase[i] = "running"
Alive(n) == \E i \in Instances : phase[i] # "off" /\ launch[i] = n

Init ==
  /\ phase = [i \in Instances |-> "off"]
  /\ launch = [i \in Instances |-> 0]
  /\ piped = [i \in Instances |-> FALSE]
  /\ port = [i \in Instances |-> 0]
  /\ rivals = [i \in Instances |-> {}]
  /\ up = [i \in Instances |-> FALSE]
  /\ lit = [i \in Instances |-> FALSE]
  /\ last = [i \in Instances |-> Nothing]
  /\ watch = [i \in Instances |-> "off"]
  /\ owner = [i \in Instances |-> FALSE]
  /\ file = Nothing
  /\ touched = [i \in Instances |-> FALSE]
  /\ handed = [i \in Instances |-> 0]
  /\ left = {}
  /\ launches = 0 /\ changes = 0
-----------------------------------------------------------------------------
(* Start-up, in run_gui's order.                                           *)

Listening == {port[i] : i \in {j \in Instances : up[j]}}

\* Mutant: the probe binds as the server does, sharing the port.
FreePortsShared == Ports

\* The exclusive probe fails on a port another instance listens on.
FreePorts == Ports \ Listening

\* resolveControlPort takes the lowest port that other programs leave; none may be.
Resolve(i) ==
  /\ phase[i] = "off" /\ launches < MaxLaunches
  /\ launches' = launches + 1
  /\ phase' = [phase EXCEPT ![i] = "resolved"]
  /\ launch' = [launch EXCEPT ![i] = launches + 1]
  /\ \E p \in FreePorts \cup {0} :
       /\ port' = [port EXCEPT ![i] = p]
       /\ rivals' = [rivals EXCEPT ![i] =
            {j \in Instances : port[j] = p /\ phase[j] \in {"resolved", "published"}}]
  /\ \E pipeMode \in BOOLEAN :
       (pipeMode => i \in Owned) /\ piped' = [piped EXCEPT ![i] = pipeMode]
  /\ owner' = [owner EXCEPT ![i] = i \in Owned]
  /\ UNCHANGED <<up, lit, last, watch, file, touched, handed, left, changes>>

\* writeJsonTo replaces the whole file or fails.
WriteFile(i, doc) ==
  /\ file' = doc
  /\ touched' = [j \in Instances |-> j # i]

\* Mutant: the document counts as published although the write failed.
PublishForgets(i) ==
  /\ last[i] # Description(i)
  /\ last' = [last EXCEPT ![i] = Description(i)]
  /\ \/ WriteFile(i, Description(i))
     \/ UNCHANGED <<file, touched>>

\* publishDiscovery: only a change is written; a failed write is tried again.
Publish(i) ==
  /\ last[i] # Description(i)
  /\ \/ WriteFile(i, Description(i)) /\ last' = [last EXCEPT ![i] = Description(i)]
     \/ UNCHANGED <<file, touched, last>>

FirstPublish(i) ==
  /\ phase[i] = "resolved" /\ ~piped[i]
  /\ phase' = [phase EXCEPT ![i] = "published"]
  /\ Publish(i)
  /\ UNCHANGED <<launch, piped, port, rivals, up, lit, watch, owner, handed, left, launches, changes>>

\* ControlServer::start binds the port it is given, shared or not.
StartServer(i) ==
  /\ phase[i] = IF piped[i] THEN "resolved" ELSE "published"
  /\ phase' = [phase EXCEPT ![i] = "started"]
  /\ \E bound \in {FALSE, port[i] # 0} : up' = [up EXCEPT ![i] = bound]
  /\ UNCHANGED <<launch, piped, port, rivals, lit, last, watch, owner, file, touched,
                 handed, left, launches, changes>>

HandedPort(i) == IF up[i] THEN port[i] ELSE 0

\* The handoff may fail; then ParentWatch::start, which can only watch a process
\* that is still there.
HandOff(i) ==
  /\ phase[i] = "started"
  /\ phase' = [phase EXCEPT ![i] = "handed"]
  /\ \/ piped[i] /\ handed' = [handed EXCEPT ![i] = HandedPort(i)]
     \/ UNCHANGED handed
  /\ watch' = [watch EXCEPT ![i] = IF owner[i] THEN "watching" ELSE "off"]
  /\ UNCHANGED <<launch, piped, port, rivals, up, lit, last, owner, file, touched, left,
                 launches, changes>>

\* The window is built and a profile loaded before the event loop runs.
EnterLoop(i) ==
  /\ phase[i] = "handed"
  /\ phase' = [phase EXCEPT ![i] = "running"]
  /\ UNCHANGED <<launch, piped, port, rivals, up, lit, last, watch, owner, file, touched,
                 handed, left, launches, changes>>
-----------------------------------------------------------------------------
(* Running.                                                                *)

Change(i) ==
  /\ Running(i) /\ changes < MaxChanges
  /\ changes' = changes + 1
  /\ lit' = [lit EXCEPT ![i] = ~@]
  /\ UNCHANGED <<phase, launch, piped, port, rivals, up, last, watch, owner, file,
                 touched, handed, left, launches>>

PublishTick(i) ==
  /\ Running(i) /\ ~piped[i]
  /\ Publish(i)
  /\ UNCHANGED <<phase, launch, piped, port, rivals, up, lit, watch, owner, handed, left,
                 launches, changes>>

OwnerDies(i) ==
  /\ owner[i]
  /\ owner' = [owner EXCEPT ![i] = FALSE]
  /\ UNCHANGED <<process, file, touched, handed, left, launches, changes>>

\* Mutant: the watcher quits directly, which an event loop not yet entered misses.
WatchFiresDirectly(i) ==
  /\ watch[i] = "watching" /\ ~owner[i]
  /\ watch' = [watch EXCEPT ![i] = IF Running(i) THEN "fired" ELSE "off"]
  /\ UNCHANGED <<phase, launch, piped, port, rivals, up, lit, last, owner, file, touched,
                 handed, left, launches, changes>>

\* The watcher thread wakes once and queues a quit.
WatchFires(i) ==
  /\ watch[i] = "watching" /\ ~owner[i]
  /\ watch' = [watch EXCEPT ![i] = "fired"]
  /\ UNCHANGED <<phase, launch, piped, port, rivals, up, lit, last, owner, file, touched, handed,
                 left, launches, changes>>

\* The queued quit, or the user's or a client's.
LeaveLoop(i) ==
  /\ Running(i)
  /\ phase' = [phase EXCEPT ![i] = "quitting"]
  /\ UNCHANGED <<launch, piped, port, rivals, up, lit, last, watch, owner, file, touched, handed,
                 left, launches, changes>>

StopServer(i) ==
  /\ phase[i] = "quitting"
  /\ phase' = [phase EXCEPT ![i] = "closed"]
  /\ up' = [up EXCEPT ![i] = FALSE]
  /\ UNCHANGED <<launch, piped, port, rivals, lit, last, watch, owner, file, touched,
                 handed, left, launches, changes>>

Reset(i) ==
  /\ phase' = [phase EXCEPT ![i] = "off"]
  /\ port' = [port EXCEPT ![i] = 0]
  /\ rivals' = [j \in Instances |-> IF j = i THEN {} ELSE rivals[j] \ {i}]
  /\ up' = [up EXCEPT ![i] = FALSE]
  /\ lit' = [lit EXCEPT ![i] = FALSE]
  /\ last' = [last EXCEPT ![i] = Nothing]
  /\ watch' = [watch EXCEPT ![i] = "off"]
  /\ owner' = [owner EXCEPT ![i] = FALSE]
  /\ handed' = [handed EXCEPT ![i] = 0]
  /\ UNCHANGED <<launch, piped, launches, changes>>

\* Mutant: only an instance with an endpoint clears the file.
ExitUnserved(i) ==
  /\ phase[i] = "closed"
  /\ Reset(i)
  /\ \/ ~piped[i] /\ port[i] # 0 /\ WriteFile(i, Nothing) /\ UNCHANGED left
     \/ ~piped[i] /\ port[i] # 0 /\ left' = left \cup {launch[i]} /\ UNCHANGED <<file, touched>>
     \/ (piped[i] \/ port[i] = 0) /\ UNCHANGED <<file, touched, left>>

\* The rest of the teardown: in file mode the file is cleared, or that fails.
Exit(i) ==
  /\ phase[i] = "closed"
  /\ Reset(i)
  /\ \/ ~piped[i] /\ WriteFile(i, Nothing) /\ UNCHANGED left
     \/ ~piped[i] /\ left' = left \cup {launch[i]} /\ UNCHANGED <<file, touched>>
     \/ piped[i] /\ UNCHANGED <<file, touched, left>>

Crash(i) ==
  /\ phase[i] # "off"
  /\ Reset(i)
  /\ left' = left \cup {launch[i]}
  /\ UNCHANGED <<file, touched>>
Next ==
  \E i \in Instances :
    \/ Resolve(i) \/ FirstPublish(i) \/ StartServer(i) \/ HandOff(i) \/ EnterLoop(i)
    \/ Change(i) \/ PublishTick(i) \/ OwnerDies(i) \/ WatchFires(i) \/ LeaveLoop(i)
    \/ StopServer(i) \/ Exit(i) \/ Crash(i)

\* The process's own code goes on, a queued quit is taken (the window does not turn
\* it into hiding to the tray), and writes do not fail for ever.
Fairness ==
  \A i \in Instances :
    /\ WF_vars(FirstPublish(i) \/ StartServer(i) \/ HandOff(i) \/ EnterLoop(i))
    /\ WF_vars(watch[i] = "fired" /\ LeaveLoop(i))
    /\ WF_vars(WatchFires(i)) /\ WF_vars(StopServer(i)) /\ WF_vars(Exit(i))
    /\ SF_vars(PublishTick(i) /\ last'[i] = Description(i))

Spec == Init /\ [][Next]_vars /\ Fairness
-----------------------------------------------------------------------------
TypeOK ==
  /\ phase \in [Instances -> Phases]
  /\ launch \in [Instances -> 0..MaxLaunches]
  /\ piped \in [Instances -> BOOLEAN]
  /\ port \in [Instances -> Ports \cup {0}]
  /\ rivals \in [Instances -> SUBSET Instances]
  /\ up \in [Instances -> BOOLEAN]
  /\ lit \in [Instances -> BOOLEAN]
  /\ last \in [Instances -> Docs]
  /\ watch \in [Instances -> {"off", "watching", "fired"}]
  /\ owner \in [Instances -> BOOLEAN]
  /\ file \in Docs
  /\ touched \in [Instances -> BOOLEAN]
  /\ handed \in [Instances -> Ports \cup {0}]
  /\ left \in SUBSET (1..MaxLaunches)
  /\ launches \in 0..MaxLaunches /\ changes \in Nat

\* The file names a process that is gone only if that process crashed or could not
\* clear it, whatever other instances wrote and cleared (run_gui's teardown).
StaleOnlyAfterCrash ==
  file.launch # 0 => Alive(file.launch) \/ file.launch \in left

\* Two instances listen on one port only if one probed it while the other had
\* probed and not yet bound it: the window the exclusive probe leaves
\* (probeLoopbackPortFree, ControlServer::start).
SharedOnlyInWindow ==
  \A i, j \in Instances :
    i # j /\ up[i] /\ up[j] /\ port[i] = port[j] => i \in rivals[j] \/ j \in rivals[i]

\* A port handed to the launcher is bound by the instance it launched, until that
\* instance leaves (run_gui's pipe-mode handoff).
HandedPortAnswers ==
  \A i \in Instances : Running(i) /\ handed[i] # 0 => up[i] /\ handed[i] = port[i]

\* What an instance takes for published is what the file says, unless another
\* process has written to it (publishDiscovery's lastPublishedJson).
PublishedIsOnFile ==
  \A i \in Instances : last[i] # Nothing /\ ~touched[i] => file = last[i]

\* A running instance's description gets to the file, through failing writes and
\* further changes, unless another process has written to it.
ChangesArePublished ==
  \A i \in Instances :
    Running(i) /\ ~piped[i] ~> (file = Description(i) \/ touched[i] \/ ~Running(i))

\* An instance that watches its owner ends when the owner is gone, even if that
\* happens before its event loop runs (ParentWatch).
WatchedOwnerEnds ==
  \A i \in Instances : watch[i] = "watching" /\ ~owner[i] ~> phase[i] = "off"
=============================================================================
