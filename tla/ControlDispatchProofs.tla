------------------------ MODULE ControlDispatchProofs ------------------------
(***************************************************************************)
(* Theorems about ControlDispatch, for any number of connections and       *)
(* requests and any settings of the window.                                *)
(***************************************************************************)
EXTENDS ControlDispatch, TLAPS

Entry == [nr : Nat, what : Outcomes \cup {"1009", "goodbye"}]

-----------------------------------------------------------------------------
(***************************************************************************)
(* What a message more does to what a client was sent.                     *)
(***************************************************************************)

LEMMA OneEntryMore ==
  ASSUME NEW S, NEW s \in Seq(S), NEW e \in S
  PROVE  /\ Append(s, e) \in Seq(S)
         /\ Len(s) \in Nat /\ DOMAIN s = 1..Len(s)
         /\ Len(Append(s, e)) = Len(s) + 1
         /\ DOMAIN Append(s, e) = 1..Len(s) + 1
         /\ \A i \in 1..Len(s) : Append(s, e)[i] = s[i]
         /\ Append(s, e)[Len(s) + 1] = e
         /\ Contains(Append(s, e), e)
         /\ \A x : Contains(s, x) => Contains(Append(s, e), x)
<1>1. /\ Append(s, e) \in Seq(S)
      /\ Len(s) \in Nat /\ DOMAIN s = 1..Len(s)
      /\ Len(Append(s, e)) = Len(s) + 1
      /\ DOMAIN Append(s, e) = 1..Len(s) + 1
      /\ \A i \in 1..Len(s) : Append(s, e)[i] = s[i]
      /\ Append(s, e)[Len(s) + 1] = e
  OBVIOUS
<1> DEFINE t == Append(s, e)
<1>2. Len(s) + 1 \in 1..Len(t)
  BY <1>1
<1>3. Contains(t, e)
  BY <1>1, <1>2 DEF Contains
<1>4. ASSUME NEW x, Contains(s, x) PROVE Contains(t, x)
  <2>1. PICK i \in 1..Len(s) : s[i] = x
    BY <1>4 DEF Contains
  <2>2. i \in 1..Len(t) /\ t[i] = x
    BY <1>1, <2>1
  <2> QED
    BY <2>2 DEF Contains
<1> QED
  BY <1>1, <1>3, <1>4

\* The goodbye is no reply, and a reply is no goodbye.
LEMMA FarewellIsNoReply ==
  /\ Farewell \in Entry /\ Farewell.what \notin Outcomes
  /\ \A nr \in Nat \ {0} : \A what : [nr |-> nr, what |-> what] # Farewell
<1>1. Farewell \in Entry /\ Farewell.what \notin Outcomes
  BY DEF Farewell, Entry, Outcomes, Acks
<1>2. ASSUME NEW nr \in Nat \ {0}, NEW what
      PROVE  [nr |-> nr, what |-> what] # Farewell
  <2>1. [nr |-> nr, what |-> what].nr # Farewell.nr
    BY DEF Farewell
  <2> QED
    BY <2>1
<1> QED
  BY <1>1, <1>2

\* Outcomes are no refusals, and the absence of an outcome is none.
LEMMA OutcomeKinds ==
  /\ "1009" \notin Outcomes /\ None \notin Outcomes
  /\ Acks \subseteq Outcomes /\ "result" \notin Acks
  /\ \A m : DrainOf(m) \in Acks
  BY NoneAssumption DEF Outcomes, Acks, DrainOf

-----------------------------------------------------------------------------
(***************************************************************************)
(* Type correctness.                                                       *)
(***************************************************************************)

LEMMA InitType == Init => TypeOK
<1> SUFFICES ASSUME Init PROVE TypeOK
  OBVIOUS
<1> USE DEF Init
<1>1. /\ socket \in [Clients -> {"none", "upgrading", "open", "closing", "closed"}]
      /\ asked \in [Clients -> Seq(Methods)]
      /\ out \in [Clients -> Seq([nr : Nat, what : Outcomes \cup {"1009", "goodbye"}])]
      /\ waiting \subseteq Clients /\ left \subseteq Clients
      /\ promise \in [Clients -> Outcomes \cup {None}]
  OBVIOUS
<1>2. /\ main \in Phases
      /\ accepting \in BOOLEAN /\ exiting \in BOOLEAN
      /\ stopping \in Acks \cup {None}
  BY DEF Phases
<1>3. queue \in Seq([client : Clients \cup {None}, nr : Nat])
  <2> DEFINE CallType == [client : Clients \cup {None}, nr : Nat]
  <2> HIDE DEF CallType
  <2>1. queue \in Seq(CallType)
    OBVIOUS
  <2> QED
    BY <2>1 DEF CallType
<1>4. visible \in BOOLEAN /\ toTray \in BOOLEAN
  BY ChoicesAssumption
<1> QED
  BY <1>1, <1>2, <1>3, <1>4 DEF TypeOK

\* A message more keeps the type of what the clients were sent.
LEMMA SendType ==
  ASSUME TypeOK, NEW c \in Clients, NEW what \in Outcomes \cup {"1009"}, Send(c, what)
  PROVE  out' \in [Clients -> Seq(Entry)]
<1>1. Len(asked[c]) \in Nat
  BY DEF TypeOK
<1>2. [nr |-> Len(asked[c]), what |-> what] \in Entry
  BY <1>1 DEF Entry
<1>3. out \in [Clients -> Seq(Entry)]
  BY DEF TypeOK, Entry
<1>4. out[c] \in Seq(Entry)
  BY <1>3
<1>5. Append(out[c], [nr |-> Len(asked[c]), what |-> what]) \in Seq(Entry)
  BY <1>2, <1>4, OneEntryMore
<1> QED
  BY <1>3, <1>4, <1>5 DEF Send

LEMMA RequestType ==
  ASSUME TypeOK, NEW c \in Clients, NEW m \in Methods, Request(c, m)
  PROVE  TypeOK'
<1> DEFINE call == [client |-> c, nr |-> Len(asked[c]) + 1]
           refusal == [nr |-> Len(asked[c]) + 1, what |-> "1009"]
<1>1. /\ asked[c] \in Seq(Methods) /\ out[c] \in Seq(Entry)
      /\ out \in [Clients -> Seq(Entry)]
      /\ queue \in Seq([client : Clients \cup {None}, nr : Nat])
      /\ call \in [client : Clients \cup {None}, nr : Nat]
      /\ refusal \in Entry
  <2>1. asked[c] \in Seq(Methods) /\ Len(asked[c]) + 1 \in Nat
    BY DEF TypeOK
  <2>2. out \in [Clients -> Seq(Entry)]
    BY DEF TypeOK, Entry
  <2>3. queue \in Seq([client : Clients \cup {None}, nr : Nat])
    BY DEF TypeOK
  <2>4. call \in [client : Clients \cup {None}, nr : Nat]
    BY <2>1
  <2>5. refusal \in Entry
    BY <2>1 DEF Entry
  <2> QED
    BY <2>1, <2>2, <2>3, <2>4, <2>5
<1>2. asked' \in [Clients -> Seq(Methods)]
  BY <1>1, OneEntryMore DEF Request, TypeOK
<1>3. waiting' \subseteq Clients /\ promise' \in [Clients -> Outcomes \cup {None}]
  BY DEF Request, TypeOK
<1>4. queue' \in Seq([client : Clients \cup {None}, nr : Nat])
  <2>1. Append(queue, call) \in Seq([client : Clients \cup {None}, nr : Nat])
    BY <1>1, OneEntryMore
  <2> QED
    BY <1>1, <2>1 DEF Request
<1>5. out' \in [Clients -> Seq(Entry)]
  <2>1. Append(out[c], refusal) \in Seq(Entry)
    BY <1>1, OneEntryMore
  <2> QED
    BY <1>1, <2>1 DEF Request
<1>6. UNCHANGED <<socket, left, main, accepting, stopping, exiting, visible, toTray>>
  BY DEF Request, guiVars
<1> QED
  BY <1>2, <1>3, <1>4, <1>5, <1>6 DEF TypeOK, Entry

LEMMA ExecuteType ==
  ASSUME TypeOK, Execute
  PROVE  TypeOK'
<1> DEFINE QueueType == Seq([client : Clients \cup {None}, nr : Nat])
           call == Head(queue)
           method == asked[call.client][call.nr]
<1>1. Tail(queue) \in QueueType
  BY DEF TypeOK, Execute
<1>2. Append(Tail(queue), Quit) \in QueueType
  <2>1. Quit \in [client : Clients \cup {None}, nr : Nat]
    BY DEF Quit
  <2> QED
    BY <1>1, <2>1, OneEntryMore
<1>3. UNCHANGED <<socket, asked, waiting, out, left, main, accepting, exiting, visible, toTray>>
  BY DEF Execute, guiVars
<1>4. ASSUME NEW what \in Outcomes, Keep(call, what)
      PROVE  promise' \in [Clients -> Outcomes \cup {None}]
  BY <1>4 DEF Keep, TypeOK
<1>5. CASE method = "Verb"
  <2>1. Keep(call, "result") /\ queue' = Tail(queue) /\ UNCHANGED stopping
    BY <1>5 DEF Execute
  <2>2. promise' \in [Clients -> Outcomes \cup {None}]
    BY <1>4, <2>1 DEF Outcomes
  <2> QED
    BY <1>1, <1>3, <2>1, <2>2 DEF TypeOK
<1>6. CASE method # "Verb"
  <2>1. HandleShutdown(call, DrainOf(method))
    BY <1>6 DEF Execute
  <2>2. stopping' \in Acks
    BY <2>1, OutcomeKinds DEF HandleShutdown, TypeOK
  <2>3. promise' \in [Clients -> Outcomes \cup {None}]
    BY <1>4, <2>1, <2>2, OutcomeKinds DEF HandleShutdown
  <2>4. queue' \in QueueType
    BY <1>1, <1>2, <2>1 DEF HandleShutdown
  <2> QED
    BY <1>3, <2>2, <2>3, <2>4 DEF TypeOK
<1> QED
  BY <1>5, <1>6

LEMMA AnswerType ==
  ASSUME TypeOK, NEW c \in Clients, NEW what \in Outcomes \cup {"1009"}, Answer(c, what)
  PROVE  TypeOK'
<1>1. out' \in [Clients -> Seq(Entry)]
  BY SendType DEF Answer
<1>2. waiting' \subseteq Clients
  BY DEF Answer, TypeOK
<1>3. UNCHANGED <<socket, asked, promise, left, main, queue, accepting, stopping,
                  exiting, visible, toTray>>
  BY DEF Answer, loopVars, guiVars
<1> QED
  BY <1>1, <1>2, <1>3 DEF TypeOK, Entry

\* The reply of a thread is the outcome it was promised.
LEMMA ThreadAnswers ==
  ASSUME TypeOK, NEW c \in Clients, Reply(c) \/ Deadline(c)
  PROVE  \E what \in Outcomes \cup {"1009"} :
           Answer(c, what) /\ (what # "1009" => Heard(c) /\ what = promise[c])
<1>1. CASE Reply(c)
  <2>1. promise[c] \in Outcomes /\ promise[c] # None /\ c \in waiting
    BY <1>1 DEF Reply, Answer, TypeOK
  <2> QED
    BY <1>1, <2>1 DEF Reply, Heard
<1>2. CASE Deadline(c)
  BY <1>2 DEF Deadline
<1> QED
  BY <1>1, <1>2

LEMMA GoodbyeType ==
  ASSUME TypeOK, Goodbye
  PROVE  TypeOK'
<1>1. out \in [Clients -> Seq(Entry)]
  BY DEF TypeOK, Entry
<1>2. \A c \in Clients : Append(out[c], Farewell) \in Seq(Entry)
  BY <1>1, FarewellIsNoReply, OneEntryMore
<1>3. out' \in [Clients -> Seq(Entry)]
  BY <1>1, <1>2 DEF Goodbye
<1>4. UNCHANGED <<socket, asked, waiting, promise, left, queue, accepting,
                  stopping, exiting, visible, toTray>> /\ main' = "stop"
  BY DEF Goodbye, Step, guiVars
<1> QED
  BY <1>3, <1>4 DEF TypeOK, Entry, Phases

\* The steps that move a socket and nothing else but the list of clients
\* that left.
SocketStep(c) ==
  Accept(c) \/ UpgradeDone(c) \/ UpgradeFails(c) \/ ClientLeaves(c) \/ ThreadEnds(c)

\* The steps of the main thread alone.
QuietStep ==
  \/ Serve \/ ExecuteQuit \/ LoopExit \/ UserQuit \/ ShowWindow
  \/ StopAccepting \/ CloseAll \/ Join

LEMMA SocketStepType ==
  ASSUME TypeOK, NEW c \in Clients, SocketStep(c)
  PROVE  TypeOK'
<1>1. /\ socket' \in [Clients -> {"none", "upgrading", "open", "closing", "closed"}]
      /\ left' \subseteq Clients
  BY DEF TypeOK, SocketStep, Accept, UpgradeDone, UpgradeFails, ClientLeaves, ThreadEnds
<1>2. UNCHANGED <<asked, waiting, promise, out, main, queue, accepting, stopping,
                  exiting, visible, toTray>>
  BY DEF SocketStep, Accept, UpgradeDone, UpgradeFails, ClientLeaves, ThreadEnds,
         loopVars, guiVars
<1> QED
  BY <1>1, <1>2 DEF TypeOK

LEMMA QuietStepType ==
  ASSUME TypeOK, QuietStep
  PROVE  TypeOK'
<1>1. UNCHANGED <<asked, waiting, promise, out, left, stopping, toTray>>
  BY DEF QuietStep, Serve, ExecuteQuit, LoopExit, UserQuit, ShowWindow,
         StopAccepting, CloseAll, Join, threadVars, guiVars
<1>2. socket' \in [Clients -> {"none", "upgrading", "open", "closing", "closed"}]
  BY DEF TypeOK, QuietStep, Serve, ExecuteQuit, LoopExit, UserQuit, ShowWindow,
         StopAccepting, CloseAll, Join, threadVars
<1>3. main' \in Phases
  <2>1. main' = main \/ main' \in {"loop", "goodbye", "close", "join", "done"}
    BY DEF QuietStep, Serve, ExecuteQuit, LoopExit, UserQuit,
           ShowWindow, StopAccepting, CloseAll, Join, Step
  <2> QED
    BY <2>1 DEF TypeOK, Phases
<1>4. queue' \in Seq([client : Clients \cup {None}, nr : Nat])
  <2>1. queue' = queue \/ (queue # <<>> /\ queue' = Tail(queue))
    BY DEF QuietStep, Serve, ExecuteQuit, LoopExit, UserQuit, ShowWindow,
           StopAccepting, CloseAll, Join
  <2>2. queue \in Seq([client : Clients \cup {None}, nr : Nat])
    BY DEF TypeOK
  <2>3. queue # <<>> => Tail(queue) \in Seq([client : Clients \cup {None}, nr : Nat])
    <3> DEFINE CallType == [client : Clients \cup {None}, nr : Nat]
    <3> HIDE DEF CallType
    <3>1. queue \in Seq(CallType) => (queue # <<>> => Tail(queue) \in Seq(CallType))
      OBVIOUS
    <3> QED
      BY <2>2, <3>1 DEF CallType
  <2> QED
    BY <2>1, <2>2, <2>3
<1>5. accepting' \in BOOLEAN /\ exiting' \in BOOLEAN /\ visible' \in BOOLEAN
  BY DEF TypeOK, QuietStep, Serve, ExecuteQuit, LoopExit, UserQuit, ShowWindow,
         StopAccepting, CloseAll, Join, QuitRequest, guiVars
<1> QED
  BY <1>1, <1>2, <1>3, <1>4, <1>5 DEF TypeOK

-----------------------------------------------------------------------------
(***************************************************************************)
(* The inductive invariant.                                                *)
(***************************************************************************)

LEMMA InitDispatch == Init => DispatchInv
<1> SUFFICES ASSUME Init PROVE DispatchInv
  OBVIOUS
<1>1. TypeOK
  BY InitType
<1>2. \A c \in Clients : out[c] = <<>> /\ Replies(c) = {} /\ ~Served(c) /\ ~Heard(c)
  BY DEF Init, Replies, Served, Heard
<1>3. ResultIsOwn /\ ReplyInv /\ GoodbyeInv
  BY <1>2 DEF Init, ResultIsOwn, ReplyInv, GoodbyeInv
<1>4. ClosingInv
  BY DEF Init, ClosingInv
<1> QED
  BY <1>1, <1>3, <1>4 DEF DispatchInv

\* A step that changes neither requests nor replies nor promises.
LEMMA RepliesUntouched ==
  ASSUME DispatchInv, UNCHANGED <<asked, out, waiting, promise, stopping>>
  PROVE  ResultIsOwn' /\ ReplyInv'
  BY DEF DispatchInv, ResultIsOwn, ReplyInv, Replies, Heard, Fits

LEMMA SocketStepKeeps ==
  ASSUME DispatchInv, NEW c \in Clients, SocketStep(c)
  PROVE  DispatchInv'
<1>1. UNCHANGED <<asked, waiting, promise, out, main, stopping>> /\ left \subseteq left'
  BY DEF SocketStep, Accept, UpgradeDone, UpgradeFails, ClientLeaves, ThreadEnds, loopVars
<1>2. /\ TypeOK'
      /\ ResultIsOwn' /\ ReplyInv'
  BY <1>1, RepliesUntouched, SocketStepType DEF DispatchInv
<1>3. \A d \in Clients : d # c => socket'[d] = socket[d]
  BY DEF SocketStep, Accept, UpgradeDone, UpgradeFails, ClientLeaves, ThreadEnds,
         DispatchInv, TypeOK
<1>4. /\ socket'[c] = "closing" => c \in left'
      /\ socket'[c] \in {"none", "upgrading"} => socket[c] \in {"none", "upgrading"}
      /\ socket'[c] \in {"none", "upgrading", "closed"} => c \notin waiting
      /\ socket'[c] = "closed" => socket[c] \in {"upgrading", "closing"}
  BY DEF SocketStep, Accept, UpgradeDone, UpgradeFails, ClientLeaves, ThreadEnds,
         DispatchInv, TypeOK, ClosingInv
<1>5. ClosingInv'
  BY <1>1, <1>3, <1>4 DEF DispatchInv, ClosingInv
<1>6. \A d \in Clients : (Heard(d)' <=> Heard(d)) /\ (Served(d)' <=> Served(d))
  BY <1>1 DEF Heard, Served
<1>7. \A d \in Clients : Gone(d) => Gone(d)'
  BY <1>1 DEF Gone
<1>8. socket'[c] = "closed" /\ (Heard(c) \/ Served(c)) => Gone(c)'
  <2> SUFFICES ASSUME socket'[c] = "closed", Heard(c) \/ Served(c) PROVE Gone(c)'
    OBVIOUS
  <2>1. out[c] # <<>>
    BY <1>4 DEF Heard, Served, DispatchInv, ClosingInv
  <2>2. socket[c] = "closing"
    BY <1>4, <2>1 DEF DispatchInv, ClosingInv
  <2> QED
    BY <1>1, <2>2 DEF DispatchInv, ClosingInv, Gone
<1>9. GoodbyeInv'
  <2> SUFFICES ASSUME NEW d \in Clients, Heard(d) \/ Served(d)
               PROVE  /\ socket'[d] = "closed" => Gone(d)'
                      /\ main \in Past => d \in left' \/ Contains(out[d], Farewell)
    BY <1>1, <1>6 DEF GoodbyeInv
  <2>1. main \in Past => d \in left' \/ Contains(out[d], Farewell)
    BY <1>1 DEF DispatchInv, GoodbyeInv
  <2>2. CASE d = c
    BY <1>8, <2>1, <2>2
  <2>3. CASE d # c
    BY <1>3, <1>7, <2>1, <2>3 DEF DispatchInv, GoodbyeInv
  <2> QED
    BY <2>2, <2>3
<1> QED
  BY <1>2, <1>5, <1>9 DEF DispatchInv

LEMMA QuietStepKeeps ==
  ASSUME DispatchInv, QuietStep
  PROVE  DispatchInv'
<1>1. UNCHANGED <<asked, waiting, promise, out, left, stopping>>
  BY DEF QuietStep, Serve, ExecuteQuit, LoopExit, UserQuit, ShowWindow,
         StopAccepting, CloseAll, Join, threadVars
<1>2. TypeOK' /\ ResultIsOwn' /\ ReplyInv'
  BY <1>1, RepliesUntouched, QuietStepType DEF DispatchInv
<1>3. \A c \in Clients :
        socket'[c] = socket[c] \/ (socket[c] = "open" /\ socket'[c] = "closing" /\ main' = "join")
  BY DEF QuietStep, Serve, ExecuteQuit, LoopExit, UserQuit, ShowWindow,
         StopAccepting, CloseAll, Join, threadVars, Step
<1>4. /\ main \in {"join", "done"} => main' \in {"join", "done"}
      /\ main' \in Past => main \in Past
  BY DEF QuietStep, Serve, ExecuteQuit, LoopExit, UserQuit, ShowWindow,
         StopAccepting, CloseAll, Join, Step, Past
<1>5. ClosingInv'
  BY <1>1, <1>3, <1>4 DEF DispatchInv, ClosingInv
<1>6. \A c \in Clients : (Heard(c)' <=> Heard(c)) /\ (Served(c)' <=> Served(c))
  BY <1>1 DEF Heard, Served
<1>7. \A c \in Clients : Gone(c) => Gone(c)'
  BY <1>1, <1>4 DEF Gone
<1>8. GoodbyeInv'
  <2> SUFFICES ASSUME NEW c \in Clients, Heard(c) \/ Served(c)
               PROVE  /\ socket'[c] = "closed" => Gone(c)'
                      /\ main' \in Past => c \in left \/ Contains(out[c], Farewell)
    BY <1>1, <1>6 DEF GoodbyeInv
  <2> QED
    BY <1>3, <1>4, <1>7 DEF DispatchInv, GoodbyeInv
<1> QED
  BY <1>2, <1>5, <1>8 DEF DispatchInv

\* A client is sent one more reply, to a request later than all it had an
\* answer to: replies keep their order.
LEMMA ReplyAppended ==
  ASSUME NEW s \in Seq(Entry), NEW nr \in Nat \ {0}, NEW what \in Outcomes \cup {"1009"},
         \A i \in DOMAIN s : s[i] # Farewell => s[i].nr \in 1..nr - 1,
         \A i, j \in DOMAIN s :
           s[i] # Farewell /\ s[j] # Farewell /\ i < j => s[i].nr < s[j].nr,
         NEW t, t = Append(s, [nr |-> nr, what |-> what])
  PROVE  /\ \A i \in DOMAIN t :
              (i \in DOMAIN s /\ t[i] = s[i]) \/ (t[i].nr = nr /\ t[i].what = what)
         /\ \A i, j \in DOMAIN t :
              t[i] # Farewell /\ t[j] # Farewell /\ i < j => t[i].nr < t[j].nr
<1> DEFINE e == [nr |-> nr, what |-> what]
<1>1. e \in Entry
  BY DEF Entry
<1>2. /\ Len(s) \in Nat /\ DOMAIN s = 1..Len(s) /\ DOMAIN t = 1..Len(s) + 1
      /\ \A i \in 1..Len(s) : t[i] = s[i]
      /\ t[Len(s) + 1] = e
  BY <1>1, OneEntryMore
<1>3. \A i \in DOMAIN t : (i \in DOMAIN s /\ t[i] = s[i]) \/ (i = Len(s) + 1 /\ t[i] = e)
  BY <1>2
<1>4. e.nr = nr /\ e.what = what
  OBVIOUS
<1> HIDE DEF e
<1>5. ASSUME NEW i \in DOMAIN t, NEW j \in DOMAIN t,
             t[i] # Farewell, t[j] # Farewell, i < j
      PROVE  t[i].nr < t[j].nr
  <2>1. i \in DOMAIN s /\ t[i] = s[i]
    BY <1>2, <1>3, <1>5
  <2>2. CASE j \in DOMAIN s /\ t[j] = s[j]
    BY <1>5, <2>1, <2>2
  <2>3. CASE j = Len(s) + 1 /\ t[j] = e
    BY <1>4, <1>5, <2>1, <2>3
  <2> QED
    BY <1>3, <2>2, <2>3
<1> QED
  BY <1>3, <1>4, <1>5

\* What ReplyInv and ResultIsOwn say of one client.
ClientInv(c) ==
  /\ c \in waiting => Len(asked[c]) > 0
  /\ Heard(c) => Fits(c, Len(asked[c]), promise[c])
  /\ \A i \in Replies(c) :
       /\ out[c][i].nr \in 1..Len(asked[c])
       /\ c \in waiting => out[c][i].nr # Len(asked[c])
       /\ Fits(c, out[c][i].nr, out[c][i].what)
  /\ \A i, j \in Replies(c) : i < j => out[c][i].nr < out[c][j].nr

LEMMA ClientByClient ==
  /\ ReplyInv /\ ResultIsOwn => \A c \in Clients : ClientInv(c)
  /\ (\A c \in Clients : ClientInv(c)) => ReplyInv /\ ResultIsOwn
<1>1. ReplyInv /\ ResultIsOwn => \A c \in Clients : ClientInv(c)
  BY DEF ReplyInv, ResultIsOwn, ClientInv
<1>2. ASSUME \A c \in Clients : ClientInv(c) PROVE ReplyInv /\ ResultIsOwn
  <2>1. ReplyInv
    BY <1>2 DEF ReplyInv, ClientInv
  <2>2. ResultIsOwn
    BY <1>2 DEF ResultIsOwn, ClientInv, Fits
  <2> QED
    BY <2>1, <2>2
<1> QED
  BY <1>1, <1>2

LEMMA ClientByClientNext ==
  ASSUME \A c \in Clients : ClientInv(c)'
  PROVE  ReplyInv' /\ ResultIsOwn'
<1>1. ReplyInv'
  BY DEF ReplyInv, ClientInv
<1>2. ResultIsOwn'
  BY DEF ResultIsOwn, ClientInv, Fits
<1> QED
  BY <1>1, <1>2

\* A client that a step does not concern.
LEMMA Bystander ==
  ASSUME NEW c \in Clients, ClientInv(c),
         asked'[c] = asked[c], out'[c] = out[c], promise'[c] = promise[c],
         c \in waiting' <=> c \in waiting, stopping' = stopping
  PROVE  ClientInv(c)'
  BY DEF ClientInv, Replies, Heard, Fits

\* A thread sends its reply, in time or at the deadline.
LEMMA AnswerKeeps ==
  ASSUME DispatchInv, NEW c \in Clients, NEW what \in Outcomes \cup {"1009"},
         Answer(c, what), what # "1009" => Heard(c) /\ what = promise[c]
  PROVE  DispatchInv'
<1> DEFINE n == Len(asked[c])
           e == [nr |-> n, what |-> what]
<1>1. TypeOK'
  BY AnswerType DEF DispatchInv
<1>2. /\ c \in waiting /\ waiting' = waiting \ {c}
      /\ UNCHANGED <<socket, asked, promise, left, main, stopping>>
  BY DEF Answer, loopVars
<1>3. ClientInv(c) /\ n \in Nat \ {0} /\ out[c] \in Seq(Entry)
  <2>1. ClientInv(c)
    BY ClientByClient DEF DispatchInv
  <2>2. n \in Nat
    BY DEF DispatchInv, TypeOK
  <2>3. out[c] \in Seq(Entry)
    BY DEF DispatchInv, TypeOK, Entry
  <2> QED
    BY <1>2, <2>1, <2>2, <2>3 DEF ClientInv
<1>4. /\ \A d \in Clients : d # c => out'[d] = out[d]
      /\ out'[c] = out[c] \/ out'[c] = Append(out[c], e)
  BY DEF Answer, Send, DispatchInv, TypeOK
<1>5. ASSUME NEW d \in Clients, d # c PROVE ClientInv(d)'
  BY <1>2, <1>4, <1>5, Bystander, ClientByClient DEF DispatchInv
<1>6. what \in Outcomes => Heard(c) /\ what = promise[c]
  BY OutcomeKinds
<1>7. Fits(c, n, what)
  BY <1>3, <1>6, OutcomeKinds DEF ClientInv, Fits, Outcomes
<1>8. /\ \A i \in DOMAIN out[c] : out[c][i] # Farewell => out[c][i].nr \in 1..n - 1
      /\ \A i, j \in DOMAIN out[c] :
           out[c][i] # Farewell /\ out[c][j] # Farewell /\ i < j => out[c][i].nr < out[c][j].nr
  BY <1>2, <1>3 DEF ClientInv, Replies
<1>9. ClientInv(c)'
  <2>1. CASE out'[c] = out[c]
    BY <1>2, <1>3, <2>1 DEF ClientInv, Replies, Heard, Fits
  <2>2. CASE out'[c] = Append(out[c], e)
    <3>1. /\ \A i \in DOMAIN out'[c] :
               (i \in DOMAIN out[c] /\ out'[c][i] = out[c][i])
                 \/ (out'[c][i].nr = n /\ out'[c][i].what = what)
          /\ \A i, j \in DOMAIN out'[c] :
               out'[c][i] # Farewell /\ out'[c][j] # Farewell /\ i < j
                 => out'[c][i].nr < out'[c][j].nr
      BY <1>3, <1>8, <2>2, ReplyAppended, SMTT(40)
    <3>2. ~Heard(c)' /\ c \notin waiting'
      BY <1>2 DEF Heard
    <3>3. ASSUME NEW i \in Replies(c)'
          PROVE  out'[c][i].nr \in 1..n /\ Fits(c, out'[c][i].nr, out'[c][i].what)
      <4>1. i \in DOMAIN out'[c] /\ out'[c][i] # Farewell
        BY DEF Replies
      <4>2. CASE i \in DOMAIN out[c] /\ out'[c][i] = out[c][i]
        <5>1. i \in Replies(c)
          BY <4>1, <4>2 DEF Replies
        <5> QED
          BY <1>3, <4>2, <5>1 DEF ClientInv
      <4>3. CASE out'[c][i].nr = n /\ out'[c][i].what = what
        BY <1>3, <1>7, <4>3
      <4> QED
        BY <3>1, <4>1, <4>2, <4>3
    <3>4. \A i, j \in Replies(c)' : i < j => out'[c][i].nr < out'[c][j].nr
      BY <3>1 DEF Replies
    <3> QED
      BY <1>2, <3>2, <3>3, <3>4 DEF ClientInv, Fits
  <2> QED
    BY <1>4, <2>1, <2>2
<1>10. ReplyInv' /\ ResultIsOwn'
  BY <1>5, <1>9, ClientByClientNext
<1>11. ClosingInv'
  <2>1. c \in waiting => socket[c] \notin {"none", "upgrading", "closed"}
    BY DEF DispatchInv, ClosingInv
  <2> QED
    BY <1>2, <1>4, <2>1 DEF DispatchInv, ClosingInv
<1>12. GoodbyeInv'
  <2>1. ASSUME NEW d \in Clients, Contains(out[d], Farewell)
        PROVE  Contains(out'[d], Farewell)
    <3>1. out'[d] = out[d] \/ (d = c /\ out'[d] = Append(out[c], e))
      BY <1>4
    <3>2. e \in Entry
      BY <1>3 DEF Entry
    <3> HIDE DEF e
    <3>3. Contains(out[c], Farewell) => Contains(Append(out[c], e), Farewell)
      BY <1>3, <3>2, OneEntryMore
    <3> QED
      BY <2>1, <3>1, <3>3
  <2>2. ASSUME NEW d \in Clients, Heard(d)' \/ Served(d)'
        PROVE  Heard(d) \/ Served(d)
    <3>1. Heard(d)' => Heard(d)
      BY <1>2 DEF Heard
    <3>2. ASSUME Served(d)' PROVE Heard(d) \/ Served(d)
      <4>1. CASE out'[d] = out[d]
        BY <3>2, <4>1 DEF Served
      <4>2. CASE d = c /\ out'[c] = Append(out[c], e)
        <5>1. PICK i \in DOMAIN out'[c] : out'[c][i].what \in Outcomes
          BY <3>2, <4>2 DEF Served
        <5>2. (i \in DOMAIN out[c] /\ out'[c][i] = out[c][i]) \/ out'[c][i].what = what
          BY <1>3, <1>8, <4>2, ReplyAppended
        <5> QED
          BY <1>6, <4>2, <5>1, <5>2 DEF Served
      <4> QED
        BY <1>4, <4>1, <4>2
    <3> QED
      BY <2>2, <3>1, <3>2
  <2> SUFFICES ASSUME NEW d \in Clients, Heard(d)' \/ Served(d)'
               PROVE  /\ socket[d] = "closed" => Gone(d)'
                      /\ main \in Past => d \in left \/ Contains(out'[d], Farewell)
    BY <1>2 DEF GoodbyeInv
  <2>3. Heard(d) \/ Served(d)
    BY <2>2
  <2>4. Gone(d) => Gone(d)'
    BY <1>2 DEF Gone
  <2> QED
    BY <2>1, <2>3, <2>4 DEF DispatchInv, GoodbyeInv
<1> QED
  BY <1>1, <1>10, <1>11, <1>12 DEF DispatchInv

\* A client asks: a thread more waits for a promise not yet kept, or the
\* request is refused.
LEMMA RequestKeeps ==
  ASSUME DispatchInv, NEW c \in Clients, NEW m \in Methods, Request(c, m)
  PROVE  DispatchInv'
<1> DEFINE n == Len(asked[c])
           e == [nr |-> n + 1, what |-> "1009"]
<1>1. TypeOK'
  BY RequestType DEF DispatchInv
<1>2. /\ socket[c] = "open" /\ c \notin waiting
      /\ UNCHANGED <<socket, left, main, stopping>>
  BY DEF Request, Reading
<1>3. n \in Nat /\ out[c] \in Seq(Entry) /\ asked[c] \in Seq(Methods) /\ ClientInv(c)
  <2>1. n \in Nat /\ asked[c] \in Seq(Methods)
    BY DEF DispatchInv, TypeOK
  <2>2. out[c] \in Seq(Entry)
    BY DEF DispatchInv, TypeOK, Entry
  <2>3. ClientInv(c)
    BY ClientByClient DEF DispatchInv
  <2> QED
    BY <2>1, <2>2, <2>3
<1>4. /\ asked'[c] = Append(asked[c], m)
      /\ \/ c \in waiting' /\ promise'[c] = None /\ out' = out
         \/ waiting' = waiting /\ promise' = promise /\ out'[c] = Append(out[c], e)
      /\ \A d \in Clients : d # c =>
           /\ asked'[d] = asked[d] /\ out'[d] = out[d] /\ promise'[d] = promise[d]
           /\ d \in waiting' <=> d \in waiting
  BY DEF Request, DispatchInv, TypeOK
<1>5. Len(asked'[c]) = n + 1 /\ \A nr \in 1..n : asked'[c][nr] = asked[c][nr]
  BY <1>3, <1>4, OneEntryMore
<1>6. ASSUME NEW d \in Clients, d # c PROVE ClientInv(d)'
  <2>1. ClientInv(d)
    BY ClientByClient DEF DispatchInv
  <2> QED
    BY <1>2, <1>4, <1>6, <2>1, Bystander
<1>7. /\ \A i \in DOMAIN out[c] : out[c][i] # Farewell =>
           out[c][i].nr \in 1..n /\ Fits(c, out[c][i].nr, out[c][i].what)
      /\ \A i, j \in DOMAIN out[c] :
           out[c][i] # Farewell /\ out[c][j] # Farewell /\ i < j => out[c][i].nr < out[c][j].nr
  BY <1>3 DEF ClientInv, Replies
<1>8. ~Heard(c)'
  BY <1>2, <1>4 DEF Heard
<1>9. ClientInv(c)'
  <2>1. CASE c \in waiting' /\ promise'[c] = None /\ out' = out
    <3>1. ASSUME NEW i \in DOMAIN out[c], out[c][i] # Farewell
          PROVE  /\ out[c][i].nr \in 1..n + 1 /\ out[c][i].nr # n + 1
                 /\ Fits(c, out[c][i].nr, out[c][i].what)'
      BY <1>2, <1>3, <1>5, <1>7, <2>1, <3>1, SMTT(40) DEF Fits
    <3> QED
      BY <1>3, <1>5, <1>7, <1>8, <2>1, <3>1 DEF ClientInv, Replies, Fits
  <2>2. CASE waiting' = waiting /\ promise' = promise /\ out'[c] = Append(out[c], e)
    <3>1. /\ \A i \in DOMAIN out'[c] :
               (i \in DOMAIN out[c] /\ out'[c][i] = out[c][i])
                 \/ (out'[c][i].nr = n + 1 /\ out'[c][i].what = "1009")
          /\ \A i, j \in DOMAIN out'[c] :
               out'[c][i] # Farewell /\ out'[c][j] # Farewell /\ i < j
                 => out'[c][i].nr < out'[c][j].nr
      BY <1>3, <1>7, <2>2, ReplyAppended, SMTT(40)
    <3>2. ASSUME NEW i \in DOMAIN out'[c], out'[c][i] # Farewell
          PROVE  /\ out'[c][i].nr \in 1..n + 1
                 /\ out'[c][i].what = "result" => asked'[c][out'[c][i].nr] = "Verb"
                 /\ out'[c][i].what \in Acks =>
                      asked'[c][out'[c][i].nr] # "Verb" /\ out'[c][i].what = stopping'
      <4>1. CASE i \in DOMAIN out[c] /\ out'[c][i] = out[c][i]
        BY <1>2, <1>3, <1>5, <1>7, <3>2, <4>1 DEF Fits
      <4>2. CASE out'[c][i].nr = n + 1 /\ out'[c][i].what = "1009"
        BY <1>3, <4>2 DEF Acks
      <4> QED
        BY <3>1, <4>1, <4>2
    <3> QED
      BY <1>2, <1>5, <1>8, <2>2, <3>1, <3>2 DEF ClientInv, Replies, Fits
  <2> QED
    BY <1>4, <2>1, <2>2
<1>10. ReplyInv' /\ ResultIsOwn'
  BY <1>6, <1>9, ClientByClientNext
<1>11. ClosingInv'
  BY <1>2, <1>4 DEF DispatchInv, ClosingInv
<1>12. GoodbyeInv'
  <2>1. e \in Entry /\ e.what \notin Outcomes
    BY <1>3, OutcomeKinds DEF Entry
  <2>2. out'[c] = out[c] \/ out'[c] = Append(out[c], e)
    BY <1>4
  <2> HIDE DEF e
  <2>3. Contains(out[c], Farewell) => Contains(out'[c], Farewell)
    <3>1. Contains(out[c], Farewell) => Contains(Append(out[c], e), Farewell)
      BY <1>3, <2>1, OneEntryMore
    <3> QED
      BY <2>2, <3>1
  <2>4. Served(c)' => Served(c)
    <3>1. CASE out'[c] = out[c]
      BY <3>1 DEF Served
    <3>2. CASE out'[c] = Append(out[c], e)
      <4>1. \A i \in DOMAIN out'[c] :
              (i \in DOMAIN out[c] /\ out'[c][i] = out[c][i]) \/ out'[c][i] = e
        BY <1>3, <2>1, <3>2, OneEntryMore
      <4> QED
        BY <2>1, <4>1 DEF Served
    <3> QED
      BY <2>2, <3>1, <3>2
  <2> SUFFICES ASSUME NEW d \in Clients, Heard(d)' \/ Served(d)'
               PROVE  /\ socket[d] = "closed" => Gone(d)'
                      /\ main \in Past => d \in left \/ Contains(out'[d], Farewell)
    BY <1>2 DEF GoodbyeInv
  <2>5. Gone(d) => Gone(d)'
    BY <1>2 DEF Gone
  <2>6. CASE d = c
    BY <1>2, <1>8, <2>3, <2>4, <2>6 DEF DispatchInv, GoodbyeInv
  <2>7. CASE d # c
    <3>1. Heard(d) \/ Served(d)
      BY <1>4, <2>7 DEF Heard, Served
    <3> QED
      BY <1>4, <2>5, <2>7, <3>1 DEF DispatchInv, GoodbyeInv
  <2> QED
    BY <2>6, <2>7
<1> QED
  BY <1>1, <1>10, <1>11, <1>12 DEF DispatchInv

\* The main thread runs a call: it keeps at most the promise of the last
\* request of the thread that waits for this very call.
LEMMA ExecuteKeeps ==
  ASSUME DispatchInv, Execute
  PROVE  DispatchInv'
<1> DEFINE call == Head(queue)
           method == asked[call.client][call.nr]
<1>1. TypeOK'
  BY ExecuteType DEF DispatchInv
<1>2. /\ main = "loop"
      /\ UNCHANGED <<socket, asked, waiting, out, left, main>>
  BY DEF Execute
<1>3. PICK what : /\ Keep(call, what)
                  /\ what = "result" => method = "Verb"
                  /\ what \in Acks => method # "Verb" /\ what = stopping'
  <2>1. CASE method = "Verb"
    BY <2>1, OutcomeKinds DEF Execute
  <2>2. CASE method # "Verb"
    <3>1. HandleShutdown(call, DrainOf(method))
      BY <2>2 DEF Execute
    <3>2. stopping' \in Acks
      BY <3>1, OutcomeKinds DEF HandleShutdown, DispatchInv, TypeOK
    <3> QED
      BY <2>2, <3>1, <3>2, OutcomeKinds DEF HandleShutdown
  <2> QED
    BY <2>1, <2>2
<1>4. stopping' = stopping \/ stopping = None
  BY DEF Execute, HandleShutdown
<1>5. ASSUME NEW c \in Clients, NEW nr, NEW w, Fits(c, nr, w)
      PROVE  /\ w = "result" => asked[c][nr] = "Verb"
             /\ w \in Acks => asked[c][nr] # "Verb" /\ w = stopping'
  BY <1>4, <1>5, OutcomeKinds DEF Fits
<1>6. \A c \in Clients :
        promise'[c] = promise[c] \/ (c \in waiting /\ call = Call(c) /\ promise'[c] = what)
  BY <1>3 DEF Keep, DispatchInv, TypeOK
<1>7. ASSUME NEW c \in Clients PROVE ClientInv(c)'
  <2>1. ClientInv(c)
    BY ClientByClient DEF DispatchInv
  <2> DEFINE n == Len(asked[c])
  <2>2. ASSUME c \in waiting, promise'[c] # None
        PROVE  /\ promise'[c] = "result" => asked[c][n] = "Verb"
               /\ promise'[c] \in Acks => asked[c][n] # "Verb" /\ promise'[c] = stopping'
    <3>1. CASE promise'[c] = promise[c]
      <4>1. Fits(c, n, promise[c])
        BY <2>1, <2>2, <3>1 DEF Heard, ClientInv
      <4> QED
        BY <1>5, <3>1, <4>1
    <3>2. CASE call = Call(c) /\ promise'[c] = what
      <4>1. call.client = c /\ call.nr = n
        BY <3>2 DEF Call
      <4>2. method = asked[c][n]
        BY <4>1
      <4> HIDE DEF method
      <4> QED
        BY <1>3, <3>2, <4>2
    <3> QED
      BY <1>6, <3>1, <3>2
  <2>3. ASSUME NEW i \in Replies(c)
        PROVE  /\ out[c][i].what = "result" => asked[c][out[c][i].nr] = "Verb"
               /\ out[c][i].what \in Acks =>
                    asked[c][out[c][i].nr] # "Verb" /\ out[c][i].what = stopping'
    <3>1. Fits(c, out[c][i].nr, out[c][i].what)
      BY <2>1 DEF ClientInv
    <3> QED
      BY <1>5, <3>1
  <2>4. Replies(c)' = Replies(c)
    BY <1>2 DEF Replies
  <2> QED
    BY <1>2, <2>1, <2>2, <2>3, <2>4 DEF ClientInv, Heard, Fits
<1>8. ReplyInv' /\ ResultIsOwn'
  BY <1>7, ClientByClientNext
<1>9. ClosingInv'
  BY <1>2 DEF DispatchInv, ClosingInv
<1>10. GoodbyeInv'
  <2>1. \A c \in Clients : Heard(c)' => socket[c] # "closed"
    BY <1>2 DEF Heard, DispatchInv, ClosingInv
  <2>2. main' \notin Past
    BY <1>2 DEF Past
  <2> QED
    BY <1>2, <2>1, <2>2 DEF DispatchInv, GoodbyeInv, Served, Gone
<1> QED
  BY <1>1, <1>8, <1>9, <1>10 DEF DispatchInv

\* The goodbye reaches everyone whose socket is open; the others left.
LEMMA GoodbyeKeeps ==
  ASSUME DispatchInv, Goodbye
  PROVE  DispatchInv'
<1>1. TypeOK'
  BY GoodbyeType DEF DispatchInv
<1>2. /\ main = "goodbye" /\ main' = "stop"
      /\ UNCHANGED <<socket, asked, waiting, promise, left, stopping>>
  BY DEF Goodbye, Step
<1>3. \A c \in Clients :
        out'[c] = IF socket[c] = "open" THEN Append(out[c], Farewell) ELSE out[c]
  BY DEF Goodbye
<1>4. ASSUME NEW c \in Clients
      PROVE  /\ Len(out[c]) \in Nat /\ DOMAIN out[c] = 1..Len(out[c])
             /\ \A i \in DOMAIN out'[c] :
                  (i \in DOMAIN out[c] /\ out'[c][i] = out[c][i]) \/ out'[c][i] = Farewell
             /\ socket[c] = "open" => Contains(out'[c], Farewell)
  <2>1. out[c] \in Seq(Entry)
    BY DEF DispatchInv, TypeOK, Entry
  <2>2. /\ Len(out[c]) \in Nat /\ DOMAIN out[c] = 1..Len(out[c])
        /\ DOMAIN Append(out[c], Farewell) = 1..Len(out[c]) + 1
        /\ \A i \in 1..Len(out[c]) : Append(out[c], Farewell)[i] = out[c][i]
        /\ Append(out[c], Farewell)[Len(out[c]) + 1] = Farewell
        /\ Contains(Append(out[c], Farewell), Farewell)
    BY <2>1, FarewellIsNoReply, OneEntryMore
  <2>3. CASE socket[c] = "open"
    <3>1. out'[c] = Append(out[c], Farewell)
      BY <1>3, <2>3
    <3> QED
      BY <2>2, <3>1
  <2>4. CASE socket[c] # "open"
    BY <1>3, <2>2, <2>4
  <2> QED
    BY <2>3, <2>4
<1>5. ASSUME NEW c \in Clients PROVE ClientInv(c)'
  <2>1. ClientInv(c)
    BY ClientByClient DEF DispatchInv
  <2>2. \A i \in Replies(c)' : i \in Replies(c) /\ out'[c][i] = out[c][i]
    BY <1>4 DEF Replies
  <2> QED
    BY <1>2, <2>1, <2>2 DEF ClientInv, Heard, Fits
<1>6. ReplyInv' /\ ResultIsOwn'
  BY <1>5, ClientByClientNext
<1>7. ClosingInv'
  BY <1>2, <1>3 DEF DispatchInv, ClosingInv
<1>8. GoodbyeInv'
  <2> SUFFICES ASSUME NEW c \in Clients, Heard(c)' \/ Served(c)'
               PROVE  /\ socket[c] = "closed" => Gone(c)'
                      /\ c \in left \/ Contains(out'[c], Farewell)
    BY <1>2 DEF GoodbyeInv
  <2>1. Heard(c) \/ Served(c)
    <3>1. Heard(c)' => Heard(c)
      BY <1>2 DEF Heard
    <3>2. Served(c)' => Served(c)
      BY <1>4, FarewellIsNoReply DEF Served
    <3> QED
      BY <3>1, <3>2
  <2>2. out[c] # <<>> \/ c \in waiting
    BY <2>1, <1>4 DEF Heard, Served
  <2>3. socket[c] \in {"open", "closing", "closed"}
    BY <2>2 DEF DispatchInv, TypeOK, ClosingInv
  <2>4. socket[c] \in {"closing", "closed"} => c \in left
    BY <1>2, <2>1 DEF DispatchInv, ClosingInv, GoodbyeInv, Gone
  <2> QED
    BY <1>2, <1>4, <2>3, <2>4 DEF Gone
<1> QED
  BY <1>1, <1>6, <1>7, <1>8 DEF DispatchInv

LEMMA NextDispatch == DispatchInv /\ [Next]_vars => DispatchInv'
<1> SUFFICES ASSUME DispatchInv, [Next]_vars PROVE DispatchInv'
  OBVIOUS
<1>1. ASSUME NEW c \in Clients, NEW m \in Methods, Request(c, m) PROVE DispatchInv'
  BY <1>1, RequestKeeps
<1>2. ASSUME NEW c \in Clients, Reply(c) \/ Deadline(c) PROVE DispatchInv'
  <2>1. PICK what \in Outcomes \cup {"1009"} :
          Answer(c, what) /\ (what # "1009" => Heard(c) /\ what = promise[c])
    BY <1>2, ThreadAnswers DEF DispatchInv
  <2> QED
    BY <2>1, AnswerKeeps
<1>3. ASSUME NEW c \in Clients, SocketStep(c) PROVE DispatchInv'
  BY <1>3, SocketStepKeeps
<1>4. CASE Execute
  BY <1>4, ExecuteKeeps
<1>5. CASE Goodbye
  BY <1>5, GoodbyeKeeps
<1>6. CASE QuietStep
  BY <1>6, QuietStepKeeps
<1>7. CASE UNCHANGED vars
  <2>1. UNCHANGED <<socket, asked, waiting, promise, out, left, main, queue, accepting,
                    stopping, exiting, visible, toTray>>
    BY <1>7 DEF vars, threadVars, loopVars, guiVars
  <2> QED
    BY <2>1, ZenonT(60) DEF DispatchInv, TypeOK, ResultIsOwn, ReplyInv, ClosingInv, GoodbyeInv,
                Replies, Heard, Served, Fits, Gone
<1> QED
  BY <1>1, <1>2, <1>3, <1>4, <1>5, <1>6, <1>7
     DEF Next, ClientStep, ThreadStep, LoopStep, Teardown, SocketStep, QuietStep

LEMMA DispatchInvariant == Spec => []DispatchInv
  BY InitDispatch, NextDispatch, PTL DEF Spec

-----------------------------------------------------------------------------
(***************************************************************************)
(* Theorems.                                                               *)
(***************************************************************************)

\* The types of all variables; the main thread never promises a refusal.
THEOREM DispatchTypeCorrect == Spec => []TypeOK
  BY DispatchInvariant, PTL DEF DispatchInv

\* A call that outlives its deadline answers no other request: the replies
\* of a connection are in the order of its requests and of their kinds.
THEOREM RepliesAreOwn == Spec => []ResultIsOwn
  BY DispatchInvariant, PTL DEF DispatchInv

\* Whoever asks for a Shutdown, and however often, is told the drain flag
\* of the first.
THEOREM OneDrainFlag == Spec => []DrainCommitted
<1>1. DispatchInv => DrainCommitted
  <2> SUFFICES ASSUME DispatchInv, NEW c \in Clients, NEW i \in DOMAIN out[c],
                      out[c][i].what \in Acks
               PROVE  out[c][i].what = stopping
    BY DEF DrainCommitted
  <2>1. i \in Replies(c)
    BY FarewellIsNoReply, OutcomeKinds DEF Replies
  <2> QED
    BY <2>1 DEF DispatchInv, ReplyInv, Fits
<1> QED
  BY <1>1, DispatchInvariant, PTL

\* The server closes no client it has served without a goodbye.
THEOREM GoodbyeBeforeClose == Spec => []ServedGetGoodbye
<1>1. DispatchInv => ServedGetGoodbye
  BY DEF DispatchInv, ClosingInv, GoodbyeInv, ServedGetGoodbye, Past
<1> QED
  BY <1>1, DispatchInvariant, PTL
=============================================================================
