# MoxRelay in TLA+

MoxRelay turns capture devices, media files and other OBS sources into Spout
senders, mixes their audio into one output device, and is driven over a
WebSocket and by its own window. This directory holds TLA+ models of the parts of it
that are hard to test, the TLC runs that check them, and TLAPS proofs. Paths
below are relative to the repository; program sources are under `src/` there
(`spout/`, `control/`, `audio/`, `ui/`, `app/`, ...).

## Inventory

| Component | State | Operations | Talks to |
|---|---|---|---|
| Sender engine (`spout/SpoutSenderEngine`) | slots under `mutex_`, render callback | attach, detach, start, stop; per frame: snapshot, init, render, send, read-back | records call it; the graphics thread runs it; Spout registry |
| Name allocator (`spout/SenderNameAllocator`) | set of reserved names | resolve, rebind, release | engine; session-wide registry |
| Source records and verbs (`control/ControlVerbs`) | one record per source, the latch `stopping_` | ~40 verbs, a poll tick | engine, audio, libobs, event sink |
| Control server (`control/ControlServer`) | connections and subscriptions under `connMutex_`, `accepting_` | open, message, close; publish; start, stop | one thread per connection; posts verbs to the Qt main thread |
| Life of the process (`main.cpp`, `ui/MainWindow`, `ui/TrayController`) | event loop, window | quit requests, teardown | server, engines, libobs |
| Audio ring (`audio/AudioRing.hpp`) | buffer, two atomic cursors | write, read, discard, fill | one push thread, the render thread, and `stats()` |
| Audio mix engine (`audio/AudioMixEngine`) | taps, device, holdbacks | attach, detach, capture callback, mix, stop, reopen | push threads, render thread, main thread |
| Servo trim (`audio/ServoTrimLogic.hpp`) | envelopes, armed shed orders | window tick, execution | render thread |
| Device showing and heal (`ControlVerbs`, `app/DeviceArrivalWatch`) | showing ref, idle mode, device snapshot, heal fields | idle mode, disable, arrival, heal pass | main thread, libobs, capture devices |
| Filters, properties, media (`ControlVerbs`, `obs/SourceFactory`) | filter vectors, cached descriptors, media state | edits, queued media signals | libobs, the window |
| Profiles, settings (`app/ProfileStore`, `app/AppSettings`) | JSON files | save, load (swaps all sources), rename, delete, re-tier | verbs, window |
| Discovery (`app/HelperConfig`, `app/RendezvousPipe`, `app/ParentWatch`) | one file, one pipe message, a watcher thread | probe, publish tick, handoff, clear | other processes |
| User interface (`ui/`) | selection, property form, filter inspector, mixer strip, transport, preview, profile menu | edits, posted refreshes, timers | the same verbs as the wire |
| Bootstrap, vocabulary, logging, harnesses | - | - | - |

What is hard: four kinds of threads (Qt main, graphics, connection and
audio) meet without a common lock; names are decided by three parties (allocator,
Spout, other processes) and mirrored by polling; a deadline answers for a call
that still runs later; teardown joins threads that may wait for the thread that
tears down; on the main thread itself, posted refreshes, throttles and timers
run in an order nobody chose, between edits of the user and of clients; files
outlive the process that wrote them. `PROJECT.json` lists each hazard at its
line with the properties that cover it, or why none does.

What makes each part correct:

- Broadcast: a source publishes under one name for life, nobody else in the
  process has it, what is announced is what is registered, no frame
  touches a freed slot, blocking verbs end.
- Control: every reply answers its own request, one drain flag, a goodbye
  before the close, teardown ends, an acknowledged Shutdown ends the process.
- Audio: nothing overwritten, first in first out; every splice faded; no order without
  an expiry; a steady producer's ring never runs dry by what the servo does.
- Devices: references balanced and gone when they should be; restarts bounded;
  a camera that can be healed is.
- Profiles: no verb waits for a graphics thread a video reset has taken away, a Save saves
  its own scene, a restart finds its profile.
- Discovery: the file describes a live instance, ports are not shared, changes
  get published, an owned helper follows its owner.
- Window: what is shown ends up as what is, and what is written is what the user
  set, on the source he set it on.

## Modules

| Module | Content |
|---|---|
| `NameLease` | abstract: a source leases one name until it is gone and is on the air under that name only |
| `SenderBroadcast`, `MCSenderBroadcast`, `SenderBroadcastProofs` | records, slots, allocator, graphics thread, Spout registry, other processes |
| `ControlDispatch`, `MCControlDispatch`, `ControlDispatchProofs` | connection threads, main thread, Shutdown, quit, teardown |
| `FrameFifo` | abstract: a bounded queue of frames |
| `AudioRing`, `MCAudioRing`, `AudioProofs` | the ring, one step per frame copied |
| `ServoTrimLogic` | the servo's decisions, as operators without state |
| `ServoTrim`, `MCServoTrim`, `ServoTrimProofs` | the fill of each ring, pushes, mixes, windows, orders, delays, the device |
| `TapSplice`, `MCTapSplice` | one source's audio through marks, holdback, fades, drain and stop; its theorems are in `AudioProofs` |
| `DeviceShowing`, `DeviceProofs` | the showing reference through every verb that moves it |
| `PreviewFeed`, `MCPreviewFeed` | composes: the preview, the graphics thread's references and the teardown over `DeviceShowing`; its theorems are in `DeviceProofs` |
| `DeviceHeal`, `MCDeviceHeal` | notification, debounce, snapshot, heal pass; its theorems are in `DeviceProofs` |
| `ProfileDesk`, `MCProfileDesk`, `WindowProofs` | profiles on disk, live scene, window, video engine, crashes |
| `InstanceDiscovery`, `MCInstanceDiscovery`, `InstanceDiscoveryProofs` | several processes, ports, the file, the pipe, owners |
| `PropertyPanel`, `MCPropertyPanel` | the property form against the engine; its theorems are in `WindowProofs` |
| `FilterChain` | filters kept three times, the inspector |
| `AudioStrip`, `MediaTransport` | the mixer strip and the transport strip, each over `FilterChain`'s selection |
| `SourceDesk`, `MCSourceDesk`, `SourceDeskProofs` | composes the three strips under one selection; the theorems about all four modules |

Operators named after what a bug would do to their neighbour (`...Early`,
`...Leaks`, `...OwnDrain`; each marked *Mutant*) are no part of the
specifications. Each stands for a plausible mistake; put in the place of the definition it varies, it
violates the property it is listed with in `PROJECT.json`, so that no property
is one the code could not break.

Where a module observes something the code does not keep (`excused`, `gap`, `run`,
`torn`, `recast`, `dropped`, `rivals`, `left`, `late`, `spent`, ...), its header says so; nothing but a property reads it.

### SenderBroadcast and the code

Variables: `rec` is `SourceRec` (in the list, live slot, `allocatedSenderName`,
announced name), `main` the verb the main thread is in, `slot` the engine's
`Slot` (`claimed` = moved out of `slots_`, waiting for its teardown task),
`reserved` the allocator's set, `frame` and `sent` the graphics thread inside
`renderAllImpl`, `registry` Spout's shared map, `foreign` what other processes
wrote there, `published` remembers the name read back last.

A verb is one action unless the graphics thread can run in the middle of it:
attaching verbs are split before they read the slot's name back
(`CaptureName`), detaching verbs at the blocking graphics task (`StopBroadcast`
... `FinishStop`), the profile load at the wait for the frame in flight.
`renderSlot` is split at the send and at the locked bookkeeping.

Abstractions. A slot is identified by its source, since slot ids are never
reused and a record has one slot at most. Verbs with several targets are taken one target at a
time. The order of slots inside a frame is left open. Slots without video, which
never reach Spout, are left out. `guiSetFpsTier` is a stop of all slots followed by starts.
A source reference is assumed obtainable. Create-with-broadcast that finds no name leaves a
dark record, which `CreateSource` covers. The per-slot teardown inside `stop()` is one step,
as no frame can run then. A profile load and the final release are one pair of
actions with any set of new sources, the empty one at exit. Names are finitely
many, so an attach without a free candidate is refused, as the code does after
its suffix budget. A full registry publishes unregistered, as Spout does.

### ControlDispatch and the code

`socket` is the state of the WebSocket (`open` and `closing` are the ones in
`conns_`), `waiting` the connection threads in `wait_for`, `promise` what the main
thread has kept for the request now waited for, `queue` the calls posted with
`Qt::QueuedConnection`, `main` how far `run_gui` is. `Request` is
`onMessageText`; gate check and posting are one step because the main thread
changes `accepting_` only after the event loop. A call runs in one step
(`Execute`). `Deadline` may happen whenever a thread waits: time is not modelled,
the deadline is only known to pass. Calls posted behind the quit may or may not be run.
The accept thread lives until the sockets are closed. Malformed requests, refused before
anything changes, and subscriptions are left out. Clients do not reconnect.

`QCoreApplication::quit`, `WebSocketServer::stop`, `WebSocket::send` and the
accept loop are libraries; they are modelled as the vendored IXWebSocket and Qt 6
behave: Qt 6 closes the visible windows first and stays when one refuses; `send`
drops what it gets when the socket is not open; `stop` closes the clients it
lists, then joins all threads.

### AudioRing and the code

A frame is its stream position; a frame copy (two floats) is one step. The acquire
and release operations on the two cursors make the plain copies visible in
order, so the interleaving is taken to be sequentially consistent. A chunk
that does not fit changes nothing and is no step. `Width` stands for 2^64 in
the one subtraction that can wrap, the fill computed by the main thread.

### ServoTrimLogic, ServoTrim and the code

The unit of fill is 240 frames (5 ms); every constant of `ServoTrimLogic.hpp` is a
whole number of units but for the 19 ms of one threshold. `ServoTrimLogic`
translates the header operator by operator. `ServoTrim`'s `tap[t]` is a `Tap` (fill of its
ring, primed, delay, envelope, window minimum with its "none yet" below zero,
pending order and flag), `servo` the regulation state (`high`, `armed`, `executed`) and its
clock, `device` whether samples are drained. `Push` is the capture callback, `MixChunk` one render
chunk with everything it does to every tap (prime, read, execution of an order),
the window tick is `servoWindowTick`. A window is counted in mixes (250 ms), the
warm-up in windows.

Abstractions: the EMA and the saturation time behind the resync are floating
point, so a resync may come in any window that commands the servo; the last
window's trough, which a reader may see stale, is any of its possible values;
the resampler's ratio is left out, since it only decides when fill drifts, and
`Push` and `MixChunk` drift freely. Three fields of a tap observe: `due`, the fill that may still be
read before the next push is late; `late`, that one was; `spent`, that an offset was
shortened of whose reserve a shed had taken a part. `HighLimit` bounds the count of high windows.

### TapSplice and the code

The unit of audio is one fade (`kFadeFrames`, 5 ms). A unit carries its two edges
("zero": silent or the end of a fade; "on"), whether it is cut from the
one before it, and whether the mark of its seam was lost. The push thread marks jumps and
drops with the one-slot joint position that a second mark replaces; the mix goes
through a holdback of one fade; a detached tap drains its reserve on the
`draining` list while a re-attach starts another one; `stop()` tapers what is
left. `clicks` collects why a mix had a step in it. That `stop()`'s 150 ms run out is
taken to imply that the device's queue has run out too.

Left out: fades shorter than a unit, what is left over of a dry read, counters, volume ramps.
`MaxDraining` bounds the detached taps that wait for a mix.

### DeviceShowing, PreviewFeed and the code

`rec` is the part of `SourceRec` that decides on the device, `showRefs` libobs's
count of showing references (the helper's, raised and dropped by
`applyDeviceShowing`, and the slot's). Each verb is one whole handler,
with the failures of an attach between the two counts and the early return of
`SetSourceIdleMode` after it has stored `releaseWhenIdle`. `KindOf` gives each source
one of the code's type classes (gated, exclusive, released when idle).

`PreviewFeed` extends it: the selection (`bound`), the posted refresh of the
source list, the two weak references (`MoxDisplayWidget`, `PreviewConsumeEngine`),
the strong reference the graphics thread takes from each in turn inside a frame, libobs's strong
reference count, the display and its surface, and `run_gui`'s teardown step by step. What
is drawn is left out, as is the slot's own strong reference, which goes with the
detach inside a verb, and a client's `LoadProfile`, which posts no refresh (see the observations). A model name is used again only when nothing refers to it any
more (`src_N` ids never come back in the code).

### DeviceHeal and the code

`poked` and `timers` are `DeviceArrivalWatch`'s notification and debounce;
`pass` is `refreshDeviceSnapshotAndHeal` cut between cameras, so that devices
and frames move while it runs; `snapshot` is committed before the pass, as in
the code; `heal` is a record's heal fields (attempts, cooldown, productive owner). A
cooldown elapses when it likes. Restarting and opening a capture, and the bus,
are external: the header states what is assumed of them.

### ProfileDesk and the code

`store` maps a file to a document, `last` is `state.json`; `FileOf` maps names to files, so
that a file system that folds case can be stated. A handler is cut (`stage`, `job`) wherever the
disk or the engine is between two of its effects, and a crash may fall in each
cut. `armed`, `casting` and `gpu` are the sender engine's callback, attached slots and their GPU
objects, `texture` the texrender of the preview's `PreviewConsumeEngine`, whose callback is installed for as
long as the process runs. `gfx` says whether libobs's graphics thread runs: `obs_reset_video`
joins it and starts another, and when the reset fails there may be none. Whatever posts a task to
it and waits (`Posts`: detaching or draining a slot, and at the exit the texrender) then waits for ever,
which is the stage `waiting`, left by a crash only. A scene is empty or full, with its rate: what matters is that an empty one saves
but does not load; its sources are on the air together. `Import` stores any text a user may pick, well formed or not.
Filters, audio, the preview's display, window placement and the asterisk are left out.

### InstanceDiscovery and the code

`phase` is how far `run_gui` is in one of several processes; `port`, `up`, `last`
are `boundPort`, `controlUp` and `lastPublishedJson`; `Requested` is the port every instance
asks for first, and the one an instance without a port describes itself with (`Advertised`); a launch number stands for
the random token, a flag for the rest of the description. Every write may fail,
every process may crash in every phase, other programs take ports as they like.
The probe is exclusive and the bind is not (`SO_REUSEADDR` in
`IXSocketServer.cpp:91`), which is why `rivals` observes who was in the window
between the two. What the token gates is not modelled.

### PropertyPanel and the code

`stored` is the engine's settings, `cache` the helper's descriptors,
`panel` the form: what it is built of, the batch of pending edits, the debounce, a
live drag, a typed field, and the posted events, first in first out; the user's
input or a timer may come before any of them. A dependent list holds one
item, decided by the key it depends on. The engine stores what it is
given. `MaxOps` bounds the acts of the user and of clients. `KeysAssumption` says that a key has
one editor and that the audited cascade table (`ControlVerbs.cpp:1043`) has every key that decides a list's
items, none of them a typed text; it is what lets a plain edit be answered from the cache.

### FilterChain, AudioStrip, MediaTransport, SourceDesk and the code

`chain` is `rec.filters`, `engine` libobs's array, `insp` the `FilterInspector`, `listed` the rows of
the source list: until the posted refresh the row of a source a client removed can still be selected, and shows the
inspector an error.
libobs's add at the front, its index as removal and insertion, and its removal by
pointer are external. `level` is the audio settings of each source, `strip` the
`AudioMixerStrip` with what is held, typed or settling, `copies` the posted copies of
`audioChanged`; one control with a drag and one with a settle time stand for the four. `media` is each
file's playback with its queued actions and signals, `transport` the strip. The video
thread carries out one queued action at a time (`VideoTick`), so that a signal can be
between two of them; `waiting` says who is in `ControlMedia`'s bounded wait for the state
to settle, which holds the main thread until `WaitEnds`.
`SourceDesk` puts the three on the one selection of `MainWindow::onSelectionChanged`
and gives the user one pair of hands.

Abstractions: filter settings (the configure pane is a `PropertyPanel`), the revert of a blank
name, throttle clocks (a move applies at once or after the trailing timer), buffering, errors
and looping; a file has a duration unless it is opening; a change of playback and its signal are one
step; a hidden strip lets go of slider and focus. `MaxFilters` and
`MaxOps` bound filter numbers and acts.

## Runs

| Run | Question | Bounds |
|---|---|---|
| `broadcast_solo` | names exclusive, sticky; no freed slot used; implements `NameLease`; verbs end; names announced | 2 sources with one base name, a registry of one sender, no foreign process |
| `broadcast_contended` | announced = registered, registry = slots | a foreign process that takes and returns the base name |
| `dispatch` | own replies, one drain flag, goodbye, teardown ends, Shutdown honoured | 2 connections, 2 verbs in all, close-to-tray either way |
| `ring` | nothing overwritten, a FIFO | 4 slots, chunks up to 3, 9 positions |
| `servo` | orders under their latch, full rings prime, a punctual producer's ring never dries, but for a reserve shed before its offset was shortened | 1 source, pushes of 2 or 4 units, offsets 0 or 3, a ring of 9, windows of 2 mixes |
| `splice` | which splices are heard as a step | chunks of 2 in a ring of 4, one detached tap besides the attached one |
| `preview` | idle devices released, preview follows, removed sources gone after the frame, nothing left | 2 cameras, interchangeable |
| `heal` | restarts bounded, nobody left frozen | 2 cameras saved on one of 2 devices, another program; `MaxFruitless` is 2 for the code's 3 |
| `profiles` | no slot left for a wait without a graphics thread, Save saves its own, restart finds its profile | 2 names, 2 rates, any number of crashes |
| `panel` | form in step with the engine, no edit lost | a camera with a dependent list and a slider, a text source; 7 acts |
| `desk` | chain mirrors engine, the strips converge and write only what was set | 2 files, 3 filter numbers each, 5 acts |
| `discovery` | stale file only after a crash, ports shared only in the window, changes published, owned helpers end | 2 processes, 2 launches, 2 ports, 1 change |

All twelve hold. Why the bounds are enough:

- Broadcast: exclusiveness, adoption and release are between two
  sources and one rival; the candidates include a name of each suffix scheme
  (`cam_2` of the allocator, `cam_1` of Spout) and the one both can reach. A
  registry of one sender is at its limit with two sources.
- Dispatch: two connections are needed for two drain flags, and two verbs for a late outcome to meet a second
  request.
- Ring: every slot is used at least twice, and a chunk can be
  neither aligned with the ring nor as long as it.
- Servo: the taps meet only in the shared latch and in the choice of whom to shed, which
  the theorems cover for any number of taps; with one tap a ring of nine units reaches every
  branch of a window (high, armed, shed now, expired) and both ends of the ring. An offset of three
  is the smallest with which a shed takes a part of the reserve.
- Splice: two units per chunk give a splice inside and at the end of a mix; one
  draining tap next to an attached one is the re-attach.
- Preview: the graphics thread holds one source while the user turns to another.
- Heal: two cameras on one device compete for it, and the second device decides whether an enumeration
  is empty, which the code treats on its own.
- Profiles: one name to keep and one to lose, and a rate to change to; stages are per handler.
- Panel, desk: an act is an input of the user or a client; posted events, timers and playback do not count. Every
  listed mistake shows within the bound, and the properties speak of what is left when an edit, a
  change from the other side and a change of selection have met, which takes three.
- Discovery: what goes wrong is between two processes. A relaunch of one next to the
  other is reached because an instance that ended may be the one launched again. More are left to the theorems.

`CHECK_DEADLOCK FALSE` is set where the system may really stop: the process
ends (`dispatch`, `discovery`, `preview`), or the acts are used up and nothing is
queued any more (`panel`, `desk`).

## Fairness

- Broadcast: the main thread finishes the verb it is in and the graphics thread
  the frame it has begun (weak). A queued graphics task runs although frames keep
  disabling it, since libobs drains its tasks between frames, and the poll timer is
  served between verbs (strong). Nobody is assumed to send verbs or frames, and
  other processes are free.
- Dispatch: a connection thread that can run does; handshakes have a time
  limit, waits a deadline; the event loop takes posted calls and ends when told
  to (weak). Clients and users are never assumed to do anything, in particular
  not to close.
- Discovery: a process goes on with its start-up and its teardown and its watcher thread wakes
  (weak); a queued quit is taken, which leaves out a window that turns it into hiding to the
  tray (that is `dispatch`'s subject); a write that is tried again and again succeeds once (strong).
  Nobody is assumed to launch, change or crash anything.
- The other modules state no fairness and no liveness: what they say about
  convergence is said of the states in which nothing is queued, held or pending,
  which no scheduling assumption is needed for.

## Proofs

`SenderBroadcastProofs`, for any sets of sources and names, any candidate
sequences, and any registry capacity:

- `LifeInv` is inductive whatever other processes do. It adds to the types
  where the main thread is (`MainInv`: a claimed slot belongs to the verb that
  waits for it, a live record without slot to a verb that has not finished),
  that a slot has its names in the order it gets them (`SlotInv`) and that the frame's slots exist
  (`FrameInv`). It gives `TypeCorrect` and `NoDanglingSlotCorrect`. The
  latter is not inductive alone: that a claimed slot stays until the frame is over
  needs the main thread to be blocked.
- `AnnounceInv` is inductive whatever other processes do. It adds to `LifeInv` and the two
  properties that a name is read back only from a sender that is up and stays its name
  (`ReadBack`): a Spout name is given with the first send, and a slot is torn down
  only while nobody reads it. It gives `AnnouncementsAreTrue` and `NothingStaysRegistered`.
- `RoomInv` adds that a sender that is up owns its entry of the registry alone. It is inductive
  as long as the registry never fills up (`[]RegistryHasRoom`, a hypothesis of
  `RegistryMirrorsSlots`): into a full registry Spout writes nothing, and a name it does not hold is free for the next
  sender of this process. With no foreign process the
  hypothesis is not needed (`SoloRegistryMirrorsSlots`, from `SoloInv`).
- `SoloInv` is inductive when no other process uses names of the prefix
  (`ForeignNames = {}`, an assumption of those theorems). It adds that Spout
  publishes under the requested name, which needs the registry to hold nothing but
  the process's own senders (`RegistryInv`), and that record and slot of a source
  agree (`OneName`). It gives `NamesExclusive`, `NoReservationLeak`,
  `ReattachIsSticky` and `BroadcastImplementsLease`. The first of the claims below shows
  that the assumption is needed.

`ControlDispatchProofs`, for any number of connections and requests and any
window settings:

- `DispatchInv` adds to `TypeOK` and `ResultIsOwn` that a promise that can be
  heard answers the last request of the waiting thread, and that every reply
  belongs to a request and repeats the committed drain flag (`ReplyInv`); that
  sockets close for a known reason and threads wait on live ones only
  (`ClosingInv`); and that after the goodbye every client served, or about to
  be by a promise already kept, was told or has left (`GoodbyeInv`). Without
  the last clause a reply sent after the goodbye would break the induction. It gives
  `DispatchTypeCorrect`, `RepliesAreOwn`, `OneDrainFlag`, `GoodbyeBeforeClose`.
  The bound on requests is a guard only; the proof does not use it.

`AudioProofs` has two parts. `AudioRing`, for every capacity, chunk size and bound on positions:

- `RingInv` adds to the properties that a chunk under way fits and its copied
  frames are in place (`PushInv`), and that a read under way stays within what is
  published (`PullInv`). The arithmetic core is `SlotsDistinct`: positions less
  than a capacity apart have different slots. It gives `RingTypeCorrect`, `NoTornRead`,
  `NothingOverwritten` and `RingImplementsFifo`. The code rounds the capacity up
  to a power of two for its mask; the proof does not need that.

`TapSplice`, there too, for any length of a mix, ring, cushion, pushes and offsets.
`OnlyLostSeamsStep` speaks of the mix just heard; that the next one will be as smooth rests on
everything between the push thread and the device, which `SpliceInv` follows unit by unit:

- `SeamInv`: each unit of a ring fits to the one before it (lemma by lemma: after a push, a drop, a discard from the
  front), where the unit at the mark counts as faded out already, or the mark of the seam was lost.
- `MarkInv`: a mark lies inside the ring; one at the tail waits for the unit still to be pushed, which will be
  risen; `late` is only set while the ring is empty.
- `HoldInv`: a contributing tap holds back exactly one unit, and the first unit of its ring, *or the one that
  will be pushed next*, fits to it, unless a fade-in is pending and the unit is already tapered.
- `EdgeInv`: what was heard last fits to the unit held back, of the attached tap and of each one that drains;
  before a ramped resume, on a lost device, or with nothing held, silence was heard last.

The lemmas on a mix (`PulledFacts`, `UnemittedFacts`, `EmittedFacts`, `HeardFacts`) say that what a tap puts into
a chunk is a chain of fitting units, also where a refill and a prime share one chunk. They give `SpliceInvariant`
and `SplicesAreHeardFaded`. Nothing relates the cushion to the length of a mix: a tap that primes with less than
a mix is dry at once, and that is faded too.

`ServoTrimProofs`, for any sources, capacity, block sizes, offsets and servo
constants: the types (no ring is filled beyond its capacity, no fill falls below zero:
`TypeCorrect`), the latch over the orders (`OrdersStayLatched`: a window that arms one tap may
shed another at once, a landing order may leave a sibling's behind, a reopen keeps
orders) and `FullRingsPrime`, under the assumption that every offset leaves more than
a chunk of the ring, which `kSyncOffsetMaxMs`, the clamp of offsets, provides.

`SteadyRingsNeverDry` adds `SupplyInv`: what is owed until the next push is late has been seen as a
burst, and in the current window unless there was time for all of it before the window began
(`OwedIsSeen`), and a ring whose producer was on time holds it (`HoldsWhatIsOwed`). The property alone is not
inductive: a window moves its burst into an envelope that decays by a quarter, and both shed floors
are measured against that envelope. The hypothesis `ShortPushes` is what the argument needs of a
source: no push is longer than a servo window (250 ms), nor within a mix chunk
(10 ms) of the ring. libobs delivers some 20 to 40 ms at once, and the ring holds
more than a second. In
the model as it was first written the property did not hold for every offset: see `ReserveKept` below.

`DeviceProofs`, for any number of sources of any type: the references are
balanced (`ReferencesBalance`), which is also what makes the types inductive, since a lowered
count must stay a natural number (`TypeCorrect`); a disabled camera or audio input keeps none of the
helper's (`DisabledStaysReleased`); an idle one only after a request that
failed half way (`IdleStaysReleased`).

In the same module `PreviewFeed`, with any number of sources, under the same preview and teardown:
`FeedInv` says that libobs's strong count is what the record and the frame
hold (`Counted`), that widget and engine follow the selection unless a refresh or
a hook is owed (`Following`), and what each phase of `run_gui`'s teardown has left behind
(`TakenDown`); the invariant of `DeviceShowing` is carried along. It gives
`PreviewFollowsSelection`, `RemovedSourceGoesWithFrame`, `NothingOutlivesTeardown`
and `IdleStaysReleasedBesidePreview`.

There too `DeviceHeal`, for any cameras in any order, any devices and any fruitless cap, when no
camera is called like the two owners that are none (`OwnerAssumption`). `HealInv` adds
to the types that a pass works on the enumeration it has committed (`PassSees`), that only a wanted
camera holds a device or a frame size (`OnlyWanted`), and:

- `StreakCovers`: the code's own count of fruitless attempts is never below the
  restarts nothing new justified. What resets the count is a frame or an arrival, and
  each of them was a real change when it happened, which the pass only sees later; so the
  invariant has a clause for a frame not yet noted, a device not yet enumerated and an arrival whose turn
  in the pass is to come. It gives `RestartsAreBounded`.
- `StaleIsKnown`: a camera with the frame size of a lost device has that device missing from the
  snapshot, or its turn in the pass is to come, unless no kept enumeration fell
  into the absence; `ArrivalOwed`: a device that is there and not in the snapshot has a notification or
  the debounce timer to come, unless the last enumeration was empty. They give `NobodyStaysFrozen`.

`WindowProofs` has two parts. `ProfileDesk`, for any names, rates and contents: `DeskInv` adds to the types what a stage
was asked to do (`StageInv`), that no slot is left when the graphics thread ends and that a change of rate
puts one back only after it runs again (`SlotsInv`), whose scene is live while a handler is at work
(`OwnInv`: between a load's build and its note the live scene is the new profile's while
`activeProfile_` is still the old one), and that the file a load reads or a save wrote is there
until it is noted (`NotedInv`). It gives `LoadsLeaveNoWait` and `WindowSavesItsOwn`, both for
any `FileOf`. `LastProfileIsThere` (`LastInv`) needs that no two names share a file
(`NamesApart`): with two spellings of one, deleting the file under one leaves a note of the other.

`PropertyPanel`, there too, for any sources, any keys under `KeysAssumption` and any number of acts. Neither
property is inductive: whether a stale form is repaired depends on what is posted, and in which order. `PanelInv` is:

- `PanelTypeOK`, with the cache: the descriptors kept are always what the engine would enumerate
  now, which is what the audit of the cascade table gives (lemmas `AppliedOK`, `OwnEcho`).
- `QueueInv`: `queued` says whether a rebuild is posted, and the commits of lists' defaults go
  before it, so that none is carried out on a form built later.
- `BindingInv`: the bound source is there, or has a refresh of the list posted.
- `BatchInv`, `ParkedInv`: the batch holds what the editors show and no list that depends on another; it and a
  rebuild put off wait for a gesture or a timer that is still to end.
- `FormInv`: while `lastProperties_` and `lastSettings_` have not parted from the form, the form shows them but
  for the batch, every list that shows something else has its commit posted (`FollowsLast`), and
  they are the engine's unless a rebuild is to come; once parted, a rebuild is posted or parked or one was thrown away.

It gives `FormIsStaleOnlyIfDropped` and `EditsReachTheirSource`.

`SourceDeskProofs`, for any sources, names, chains of any length and any number of acts; each
result holds in the composition, where the three strips share one selection:

- `IInv`: the three copies of a chain. The reverse of the array is not inductive alone: a move
  takes a filter out by identity and puts it back by index, which is one place only because
  numbers are handed out in order and never twice; the lemmas say what the sequence operators
  do place by place. It gives `MirrorHolds` and, lifted, `DeskMirrorHolds`.
- `InspectorInv`: the pane follows the current row, also while the rows are behind the chain
  (`PaneFollows`); what is selected has a row in the source list, and so
  has every source that exists (`SelectionListed`); rows
  no refresh is posted for are the chain (`RowsFollow`). It gives `InspectorShowsTheChain`.
- `MediaInv`: a change of playback not yet announced is owed by a queued signal, and a seek to come goes
  where the hand was unless the strip was filled meanwhile (`Leads`). It gives
  `ClientsAreToldOrOwed` and `SeeksGoWhereTheHandWent`.
- `StripInv`, control by control (`InStep`): of the posted copies only the last one the strip
  will believe matters, and it carries libobs's value; what is shown is libobs's value or
  the hand's, unless a change is on its way, was missed or an old copy came in; and it is
  libobs's value when nobody works the control. Without the middle clause a release of the
  slider would break the induction. It gives `StripShowsTheLevel` and `StripWritesWhatWasSet`.

`InstanceDiscoveryProofs`, for any number of instances, ports and launches, under
the assumptions that 0 is no port, that the requested one is and that an owned instance is an instance: `IInv` adds to the types that numbers
are drawn in order and never by two that run (`Numbered`, `Distinct`), that a piped process
is never in the file (`PipedIsUnfiled`), that an endpoint is up between start and stop only
(`UpIsBound`), what a handed-off port says (`HandedIsUp`), and that of two that hold one port or are about to bind
it one saw the other (`ContendersMet`; the stated property speaks of bound ones only
and is not inductive). It gives `TypeCorrect`, `SharedPortWasContended`,
`LauncherFindsItsHelper`, `FileIsCleared` and `DedupeIsSound`.

Only model-checked:

- liveness (`VerbsComplete`, `NamesAnnounced`, `StopDrains`, `ShutdownHonoured`, `ChangesArePublished`,
  `WatchedOwnerEnds`): fairness is out of the prover's reach, as is `ENABLED`.

## Claims that do not hold

Each is said by a comment of the repository and stated in the module next to the
properties that do hold; no run checks it. The last column gives the constants with which TLC
finds it violated; unless it says otherwise they are those of the run named.

| Definition | Said at | What the code does | Shown by |
|---|---|---|---|
| `StickyReattach` | `ControlVerbs.cpp:2306` | a detach before the next poll tick loses the adopted name; the next attach takes the name that lost the race, and the adopted one stays reserved | `broadcast_contended` |
| `AdoptedNameIsFree` | `SenderNameAllocator.hpp:14` | the two suffix schemes do collide: Spout's may be a sibling's reserved name | the same, `ForeignNames <- TwoRivals` |
| `StopCompletes` | `ControlServer.cpp:253` | `stop()` can wait for a client that was still in its handshake | `dispatch`, one client, `NoTray` |
| `ReplyPrecedesGoodbye` | `ControlVerbs.cpp:2639` | the goodbye can overtake the reply of Shutdown, and the close can drop it | `dispatch`, one client |
| `ShutdownNotSwallowed` | `ControlVerbs.cpp:2640` | close-to-tray cancels the quit of Shutdown | `dispatch`, one client |
| `ProbeInRange` | `AudioMixEngine.cpp:567` | the fill in the statistics can wrap around | `ring`, 2 slots, chunks up to 2 |
| `OrdersExpire` | `AudioMixEngine.cpp:1303` | an order armed before the device was lost is executed after it came back | `servo` |
| `ReserveKept` | `AudioMixEngine.cpp:907` | a shed can take a part of the sync reserve of a punctual source: the trough it goes by may be of an earlier window, or sampled in less than a push period, just after a prime | `servo` |
| `SplicesAreFaded` | `AudioMixEngine.cpp:933` | a mark that is replaced, or that comes too late, leaves a step | `splice` |
| `ReplugHeals` | `ControlVerbs.cpp:1290` | a lone camera's absence is an empty enumeration, which is thrown away: its replug is never seen | `heal`, `Order <- OneCamera` |
| `RenameKeepsScene` | `MainWindow.cpp:663` | a rename that changes only the case deletes the file it has just written | `profiles`, `FileOf <- SameFile` |
| `NothingLeftAtReset` | `ControlVerbs.cpp:2778` | `obs_reset_video` finds the preview's render callback and its texrender | `profiles` |
| `QuietGuiEnds` | `ControlVerbs.cpp:2795` | after a failed reset without a graphics thread a GUI that broadcasts nothing cannot exit: the teardown waits for the preview's texrender | `profiles` |
| `DisabledIsDark` | `ControlVerbs.cpp:2384` | a source disabled while it broadcasts keeps its device open through the slot | `preview` |

## Observations

Met while modelling; each is in the models as it is in the code.

- Showing: `SetSourceIdleMode` stores `releaseWhenIdle` before it refuses `disabled`; it and `StartBroadcast`
  raise the reference of a source that was never configured.
- Preview: a slot whose render-thread init failed stays active and is never rendered, so
  the consume engine skips it although its comment says it is kept fresh; `destroying_` is never reset, so a
  display lost with its surface does not come back; the preview's callback, texture and display are there at
  `obs_reset_video` (see `NothingLeftAtReset`).
- Heal: a stale frame size makes each flap of a device count as one that produced frames; a transient empty list at the last pass is
  final; a capture opened between arrival and pass is restarted.
- Profiles: an empty scene saves, but its load fails after it has destroyed the live
  one; a load that failed leaves `activeProfile_`, so that Save overwrites the old profile; a client's `LoadProfile` emits no
  event, so the window's rows and name stay behind; `guiSetFpsTier` puts all sources back on the air where some were,
  and none when the reset fails; a broadcast started after a failed reset that left no graphics thread is never
  drawn, and stopping it waits for ever.
- Servo: when an offset is shortened by more than a shed had left of its reserve, the ring runs dry although its
  producer is on time.
- Panel: two self-committing lists in one rebuild can suppress the rebuild that is owed; a posted commit made on
  a form not yet rebuilt goes to the newly bound source; editable combos of a non-text key never commit a
  typed value.
- Strip: focusing the sync box and leaving it writes its old value over a client's newer one; a queued copy of
  `audioChanged` applied after a rebind shows another source's value.
- Transport: a throttled seek is not stopped by a change of selection, and a refresh inside the throttle window
  overwrites the slider value it will send.
- Discovery: a second instance's exit clears the file of the first, and the dedupe keeps the first from
  writing it again; the file is published before the server listens; an owner that is gone before
  `ParentWatch::start` is never noticed.

## Not modelled

Rendering, pixel formats, mixing arithmetic, the servo's resampler ratio and EMA
(floating point); libobs itself; JSON, file formats and option parsing; query verbs and vocabulary;
device lists beyond the heal snapshot; layout, dialogs, settings and status bar of the window; logging; the
performance and simulation harnesses; the self-test modes of `main.cpp`,
which run the same classes under a script. Bootstrap of libobs is a fixed
sequence of library calls; only its live re-tier appears, as a step of `ProfileDesk`.

## Plan

1. `EventFanout`: subscriptions, publication outside the lock, the level meters'
   window, the status timer, start-up before `accepting_` (three hazards without a property).
