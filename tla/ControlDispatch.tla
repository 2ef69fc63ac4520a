--------------------------- MODULE ControlDispatch ---------------------------
(***************************************************************************)
(* The control endpoint of one instance, from the listen() of its server   *)
(* to the join of its last connection thread (ControlServer, the Shutdown  *)
(* verb of ControlVerbs, the teardown of run_gui).                         *)
(*                                                                         *)
(* One thread per connection reads requests, answers Subscribe and         *)
(* Unsubscribe itself and marshals every other verb to the Qt main thread  *)
(* as a queued call; it waits for the outcome at most kDispatchDeadline.   *)
(* The main thread executes queued calls until the event loop ends and     *)
(* then says goodbye, closes every socket and joins every thread.          *)
(*                                                                         *)
(* Connections do not reconnect: a client that does is another client.     *)
(* Time is not modelled; a deadline may pass whenever its wait lasts.      *)
(***************************************************************************)
EXTENDS Naturals, Sequences, SequencesExt

CONSTANTS
  Clients,      \* the connections ever made
  MaxRequests,  \* the bound on the verbs all clients send together
  None,         \* no outcome
  TrayChoices,  \* the values the close-to-tray setting may have
  StartHidden   \* the window starts in the tray

Methods == {"Verb", "ShutdownDrain", "ShutdownNow"}
DrainOf(m) == IF m = "ShutdownDrain" THEN "drain" ELSE "now"
Acks == {"drain", "now"}
Outcomes == {"result"} \cup Acks

ASSUME NoneAssumption == None \notin Clients \cup Outcomes
ASSUME RequestsAssumption == MaxRequests \in Nat \ {0}
ASSUME ChoicesAssumption == TrayChoices \subseteq BOOLEAN /\ StartHidden \in BOOLEAN

VARIABLES
  \* ---- connection threads
  socket,     \* socket[c]: the state of the web socket
  asked,      \* asked[c]: the verbs client c has sent
  waiting,    \* the clients whose thread waits for the main thread
  promise,    \* promise[c]: the outcome of the call c's thread waits for
  out,        \* out[c]: what client c is sent, in order
  left,       \* the clients that closed their connection themselves
  \* ---- main thread
  main,       \* how far the process is
  queue,      \* the posted calls
  accepting,  \* accepting_
  stopping,   \* the drain flag the first Shutdown committed, or None
  exiting,    \* the event loop was told to end
  visible,    \* the main window is on screen
  toTray      \* the close-to-tray setting

threadVars == <<socket, asked, waiting, promise, out, left>>
guiVars == <<visible, toTray>>
loopVars == <<main, queue, accepting, stopping, exiting, guiVars>>
vars == <<threadVars, loopVars>>

Quit == [client |-> None, nr |-> 0]
Call(c) == [client |-> c, nr |-> Len(asked[c])]

\* WebSocket::send: a no-op unless the socket is open.
Send(c, what) ==
  out' = [out EXCEPT ![c] =
            IF socket[c] = "open" THEN Append(@, [nr |-> Len(asked[c]), what |-> what]) ELSE @]

Init ==
  /\ socket = [c \in Clients |-> "none"]
  /\ asked = [c \in Clients |-> <<>>]
  /\ waiting = {}
  /\ promise = [c \in Clients |-> None]
  /\ out = [c \in Clients |-> <<>>]
  /\ left = {}
  /\ main = "starting"
  /\ queue = <<>>
  /\ accepting = FALSE
  /\ stopping = None
  /\ exiting = FALSE
  /\ visible = ~StartHidden
  /\ toTray \in TrayChoices

----------------------------------------------------------------------------
(***************************************************************************)
(* Connections.                                                            *)
(***************************************************************************)

\* The server accepts from listen() on, until its accept thread is stopped.
Accept(c) ==
  /\ socket[c] = "none"
  /\ main \in {"starting", "loop", "goodbye", "stop", "close"}
  /\ socket' = [socket EXCEPT ![c] = "upgrading"]
  /\ UNCHANGED <<asked, waiting, promise, out, left, loopVars>>

\* The handshake ends, and onOpen registers the connection.  It sets the
\* socket open whatever close() did to it in the meantime.
UpgradeDone(c) ==
  /\ socket[c] = "upgrading"
  /\ socket' = [socket EXCEPT ![c] = "open"]
  /\ UNCHANGED <<asked, waiting, promise, out, left, loopVars>>

\* It fails or times out, or a gate of onOpen refuses the connection.
UpgradeFails(c) ==
  /\ socket[c] = "upgrading"
  /\ socket' = [socket EXCEPT ![c] = "closed"]
  /\ UNCHANGED <<asked, waiting, promise, out, left, loopVars>>

ClientLeaves(c) ==
  /\ socket[c] = "open"
  /\ socket' = [socket EXCEPT ![c] = "closing"]
  /\ left' = left \cup {c}
  /\ UNCHANGED <<asked, waiting, promise, out, loopVars>>

\* The thread reads the close, runs onClose and ends.
ThreadEnds(c) ==
  /\ socket[c] = "closing"
  /\ c \notin waiting
  /\ socket' = [socket EXCEPT ![c] = "closed"]
  /\ UNCHANGED <<asked, waiting, promise, out, left, loopVars>>

Reading(c) == socket[c] = "open" /\ c \notin waiting

Requests == MapThenSumSet(LAMBDA c : Len(asked[c]), Clients)

\* onMessageText: every verb but Shutdown is refused while the server does
\* not accept; otherwise it is posted to the main thread.
Request(c, m) ==
  /\ Reading(c)
  /\ Requests < MaxRequests
  /\ asked' = [asked EXCEPT ![c] = Append(@, m)]
  /\ IF accepting \/ m # "Verb"
     THEN /\ waiting' = waiting \cup {c}
          /\ promise' = [promise EXCEPT ![c] = None]
          /\ queue' = Append(queue, [client |-> c, nr |-> Len(asked[c]) + 1])
          /\ UNCHANGED out
     ELSE /\ out' = [out EXCEPT ![c] = Append(@, [nr |-> Len(asked[c]) + 1, what |-> "1009"])]
          /\ UNCHANGED <<waiting, promise, queue>>
  /\ UNCHANGED <<socket, left, main, accepting, stopping, exiting, guiVars>>

Answer(c, what) ==
  /\ c \in waiting
  /\ waiting' = waiting \ {c}
  /\ Send(c, what)
  /\ UNCHANGED <<socket, asked, promise, left, loopVars>>

\* The wait is over because the main thread kept the promise ...
Reply(c) == promise[c] # None /\ Answer(c, promise[c])

\* Mutant: a thread that trusts the event loop to answer.
DeadlineWhileServing(c) == main = "loop" /\ promise[c] = None /\ Answer(c, "1009")

\* ... or because the deadline passed first; the posted call remains.
Deadline(c) == promise[c] = None /\ Answer(c, "1009")

----------------------------------------------------------------------------
(***************************************************************************)
(* The main thread while it serves.                                        *)
(***************************************************************************)

\* start() returns: the event names are known and requests are accepted.
Serve ==
  /\ main = "starting"
  /\ main' = "loop"
  /\ accepting' = TRUE
  /\ UNCHANGED <<threadVars, queue, stopping, exiting, guiVars>>

\* Mutant: one promise per connection instead of one per request.
KeepAny(call, what) ==
  promise' = [promise EXCEPT ![call.client] = IF call.client \in waiting THEN what ELSE @]

\* A promise belongs to one request: after its deadline nobody reads it.
Keep(call, what) ==
  promise' = [promise EXCEPT ![call.client] =
                IF call.client \in waiting /\ call = Call(call.client) THEN what ELSE @]

\* Mutants: a repeated Shutdown that echoes its own drain flag, and an end of
\* the event loop that only a drain asks for.
ShutdownOwnDrain(call, own) ==
  /\ stopping' = own
  /\ queue' = IF stopping = None THEN Append(Tail(queue), Quit) ELSE Tail(queue)
  /\ Keep(call, own)
ShutdownQuitsOnDrain(call, own) ==
  /\ stopping' = IF stopping = None THEN own ELSE stopping
  /\ queue' = IF stopping = None /\ own = "drain" THEN Append(Tail(queue), Quit) ELSE Tail(queue)
  /\ Keep(call, stopping')

\* handleShutdown: the first one commits its drain flag and posts the end of
\* the event loop; a repeated one is acknowledged with the committed flag.
HandleShutdown(call, own) ==
  /\ stopping' = IF stopping = None THEN own ELSE stopping
  /\ queue' = IF stopping = None THEN Append(Tail(queue), Quit) ELSE Tail(queue)
  /\ Keep(call, stopping')

\* The event loop takes the next posted call and runs it to its end.  What
\* is still posted when the loop was told to end may run or not.
Execute ==
  /\ main = "loop"
  /\ queue # <<>> /\ Head(queue) # Quit
  /\ LET call == Head(queue)
         method == asked[call.client][call.nr]
     IN IF method = "Verb"
        THEN /\ Keep(call, "result")
             /\ queue' = Tail(queue)
             /\ UNCHANGED stopping
        ELSE HandleShutdown(call, DrainOf(method))
  /\ UNCHANGED <<socket, asked, waiting, out, left, main, accepting, exiting, guiVars>>

\* QCoreApplication::quit() of Qt 6 first closes the windows on screen; a
\* window that ignores the close, as close-to-tray makes it, cancels it.
QuitRequest ==
  IF visible /\ toTray
  THEN visible' = FALSE /\ UNCHANGED exiting
  ELSE visible' = FALSE /\ exiting' = TRUE

ExecuteQuit ==
  /\ main = "loop"
  /\ queue # <<>> /\ Head(queue) = Quit
  /\ queue' = Tail(queue)
  /\ QuitRequest
  /\ UNCHANGED <<threadVars, main, accepting, stopping, toTray>>

\* File > Quit, the tray's Quit, the end of the parent process, and the X of
\* the window, which also goes through closeEvent.
UserQuit ==
  /\ main = "loop" /\ ~exiting
  /\ QuitRequest
  /\ UNCHANGED <<threadVars, main, queue, accepting, stopping, toTray>>

\* The tray's Show.
ShowWindow ==
  /\ main = "loop" /\ ~exiting /\ ~visible
  /\ visible' = TRUE
  /\ UNCHANGED <<threadVars, main, queue, accepting, stopping, exiting, toTray>>

----------------------------------------------------------------------------
(***************************************************************************)
(* The main thread after the event loop: the teardown of run_gui.          *)
(***************************************************************************)

Step(from, to) == main = from /\ main' = to

LoopExit ==
  /\ Step("loop", "goodbye")
  /\ exiting
  /\ UNCHANGED <<threadVars, queue, accepting, stopping, exiting, guiVars>>

Farewell == [nr |-> 0, what |-> "goodbye"]

\* Mutant: the goodbye of a server that was stopped first, which is none.
GoodbyeWhenStopped ==
  /\ Step("goodbye", "stop")
  /\ UNCHANGED out
  /\ UNCHANGED <<socket, asked, waiting, promise, left, queue, accepting,
                 stopping, exiting, guiVars>>

\* publishInstanceShuttingDown: to every registered connection.
Goodbye ==
  /\ Step("goodbye", "stop")
  /\ out' = [c \in Clients |-> IF socket[c] = "open"
                               THEN Append(out[c], Farewell) ELSE out[c]]
  /\ UNCHANGED <<socket, asked, waiting, promise, left, queue, accepting,
                 stopping, exiting, guiVars>>

\* ControlServer::stop: no request is accepted and no timer ticks any more.
StopAccepting ==
  /\ Step("stop", "close")
  /\ accepting' = FALSE
  /\ UNCHANGED <<threadVars, queue, stopping, exiting, guiVars>>

\* WebSocketServer::stop closes every socket; a handshake under way does not
\* notice.  The accept thread is joined.
CloseAll ==
  /\ Step("close", "join")
  /\ socket' = [c \in Clients |-> IF socket[c] = "open" THEN "closing" ELSE socket[c]]
  /\ UNCHANGED <<asked, waiting, promise, out, left, queue, accepting,
                 stopping, exiting, guiVars>>

\* stop() returns when every connection thread has ended.
Join ==
  /\ Step("join", "done")
  /\ \A c \in Clients : socket[c] \in {"none", "closed"}
  /\ UNCHANGED <<threadVars, queue, accepting, stopping, exiting, guiVars>>

----------------------------------------------------------------------------

ThreadStep(c) ==
  \/ UpgradeDone(c) \/ UpgradeFails(c) \/ ThreadEnds(c) \/ Reply(c) \/ Deadline(c)

ClientStep(c) ==
  \/ Accept(c) \/ ClientLeaves(c)
  \/ \E m \in Methods : Request(c, m)

LoopStep == Execute \/ ExecuteQuit \/ LoopExit

Teardown == Goodbye \/ StopAccepting \/ CloseAll \/ Join

Next ==
  \/ \E c \in Clients : ClientStep(c) \/ ThreadStep(c)
  \/ Serve \/ LoopStep \/ Teardown
  \/ UserQuit \/ ShowWindow

\* Threads that can run do: the handshake has a time limit and the wait for
\* an outcome its deadline, the event loop takes what is posted to it and
\* ends when told to.  Nothing is assumed of clients and of the user.
Fairness ==
  /\ \A c \in Clients : WF_vars(ThreadStep(c))
  /\ WF_vars(Serve) /\ WF_vars(Teardown)
  /\ WF_vars(Execute \/ ExecuteQuit) /\ WF_vars(LoopExit)

Spec == Init /\ [][Next]_vars
FairSpec == Spec /\ Fairness

----------------------------------------------------------------------------
(***************************************************************************)
(* Properties.                                                             *)
(***************************************************************************)

Phases == {"starting", "loop", "goodbye", "stop", "close", "join", "done"}

\* Every variable keeps its type; in particular the main thread never
\* promises 1009, which is the connection threads' to say.
TypeOK ==
  /\ socket \in [Clients -> {"none", "upgrading", "open", "closing", "closed"}]
  /\ asked \in [Clients -> Seq(Methods)]
  /\ out \in [Clients -> Seq([nr : Nat, what : Outcomes \cup {"1009", "goodbye"}])]
  /\ waiting \subseteq Clients /\ left \subseteq Clients
  /\ promise \in [Clients -> Outcomes \cup {None}]
  /\ main \in Phases
  /\ queue \in Seq([client : Clients \cup {None}, nr : Nat])
  /\ accepting \in BOOLEAN /\ exiting \in BOOLEAN
  /\ visible \in BOOLEAN /\ toTray \in BOOLEAN
  /\ stopping \in Acks \cup {None}

\* Where the replies are in what client c got.
Replies(c) == {i \in DOMAIN out[c] : out[c][i] # Farewell}

\* However late the main thread runs a call, its outcome never answers
\* another request: every reply is the first to its request, in order, and
\* of the kind that request asked for.
ResultIsOwn ==
  \A c \in Clients :
    /\ \A i, j \in Replies(c) : i < j => out[c][i].nr < out[c][j].nr
    /\ \A i \in Replies(c) :
         /\ out[c][i].what = "result" => asked[c][out[c][i].nr] = "Verb"
         /\ out[c][i].what \in Acks => asked[c][out[c][i].nr] # "Verb"

\* "A later drain:false cannot un-drain an in-progress drain": all clients
\* are told the same drain flag, that of the first Shutdown.
DrainCommitted ==
  \A c, d \in Clients :
    \A i \in DOMAIN out[c], j \in DOMAIN out[d] :
      out[c][i].what \in Acks /\ out[d][j].what \in Acks
        => out[c][i].what = out[d][j].what

\* "Sent to all connected clients regardless of subscription, before the
\* socket server stops": the server closes no client it has served before
\* that client was sent the goodbye.
Served(c) == \E i \in DOMAIN out[c] : out[c][i].what \in Outcomes
ServedGetGoodbye ==
  \A c \in Clients :
    socket[c] = "closing" /\ c \notin left /\ Served(c) => Contains(out[c], Farewell)

\* A connection that was upgraded when the server had closed all others.
Stray == main = "join" /\ \E c \in Clients : socket[c] = "open"

\* Teardown ends: stop() joins every thread, also those that wait for an
\* event loop that is gone, unless a connection slipped past the close.
StopDrains == main = "goodbye" ~> main = "done" \/ Stray

\* An acknowledged Shutdown ends the event loop.
ShutdownHonoured == stopping # None /\ ~toTray ~> main \notin {"starting", "loop"}

\* "This branch can never swallow the managed stop path regardless of the
\* toggle" (closeEvent).  It does when the window is on screen.
ShutdownNotSwallowed == stopping # None ~> main \notin {"starting", "loop"}

\* "Which keeps every connection thread joinable, so stop() can always
\* complete."  It cannot while a handshake that was not closed stays open.
StopCompletes == main = "goodbye" ~> main = "done"

\* "The reply is sent before the process exits; the instanceShuttingDown
\* event then follows on the wire."  Nothing orders the two threads.
ReplyPrecedesGoodbye ==
  \A c \in Clients :
    \A i, j \in DOMAIN out[c] :
      out[c][i] = Farewell /\ out[c][j].what \in Acks => j < i

----------------------------------------------------------------------------
(***************************************************************************)
(* The inductive invariant of the safety properties.                       *)
(***************************************************************************)

\* A promise can only be heard by the thread that waits for it, and answers
\* that thread's last request.
Heard(c) == c \in waiting /\ promise[c] # None

\* An outcome of the right kind for request nr of client c.
Fits(c, nr, what) ==
  /\ what = "result" => asked[c][nr] = "Verb"
  /\ what \in Acks => asked[c][nr] # "Verb" /\ what = stopping

\* Replies and promises belong to requests that were made.
ReplyInv ==
  \A c \in Clients :
    /\ c \in waiting => Len(asked[c]) > 0
    /\ Heard(c) => Fits(c, Len(asked[c]), promise[c])
    /\ \A i \in Replies(c) :
         /\ out[c][i].nr \in 1..Len(asked[c])
         /\ c \in waiting => out[c][i].nr # Len(asked[c])
         /\ Fits(c, out[c][i].nr, out[c][i].what)

\* Only a client that left is closing before the server closes all, a thread
\* waits only while its socket lives, and nothing is sent before it opens.
ClosingInv ==
  \A c \in Clients :
    /\ socket[c] = "closing" => c \in left \/ main \in {"join", "done"}
    /\ socket[c] \in {"none", "upgrading"} => out[c] = <<>>
    /\ socket[c] \in {"none", "upgrading", "closed"} => c \notin waiting

\* After the goodbye, whoever was or may still be served has been told.
Past == {"stop", "close", "join", "done"}
Gone(c) == c \in left \/ main \in {"join", "done"}
GoodbyeInv ==
  \A c \in Clients :
    Heard(c) \/ Served(c) =>
      /\ socket[c] = "closed" => Gone(c)
      /\ main \in Past => c \in left \/ Contains(out[c], Farewell)

DispatchInv ==
  /\ TypeOK
  /\ ResultIsOwn
  /\ ReplyInv
  /\ ClosingInv
  /\ GoodbyeInv
=============================================================================
