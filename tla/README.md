# Verification of the Traintastic server

Traintastic is a client/server program that controls a model railway; this repository is a fork of it that adds
the Märklin 6050/6051 and 6023 interfaces. This directory holds TLA+ models of the parts of
`server/src` that keep trains apart and that talk to those interfaces, the TLC configurations that check them,
and theorems about them that TLAPS checks. `PROJECT.json` lists components, runs, hazards, findings and
theorems, and maps every definition to the lines of code that it stands for.

- [Inventory](#inventory): the parts of the server and what makes each correct
- [Modules](#modules): what is modelled and how it corresponds to the code
- [Runs](#runs): what each check asks, its bounds, and what it shows
- [Proofs](#proofs): what holds for every value of the constants, and along which argument
- [Findings](#findings): where the code does not do what it says
- [Plan](#plan): what is not modelled yet, or will not be, and why

Run a check with `tlc -config Junction.cfg MCJunction.tla`, a proof with `tlapm InterlockingProofs.tla`.
Paths below are relative to `src/server/src` of the repository unless they start with another directory.

## Inventory

The server is one process. World, layout, trains and clients live on one thread, the **event loop**
(`core/eventloop.hpp`): handlers run to completion in the order in which they were queued, so that what can
interleave are whole handlers. Every hardware interface adds a **kernel** (`hardware/protocol/*/kernel.cpp`)
with an `io_context` on a thread of its own, whose handlers are serialised by a strand. The two sides have no
variable in common: the event loop posts commands to the strand, the kernel queues results with `EventLoop::call`.

| Component | State | Operations | What must hold, and what makes it hard |
|---|---|---|---|
| Block tile (`board/tile/rail/blockrailtile`) | `state`, `trains`, sensor values, the path reserved at each side | assign, remove and flip a train, set free, reserve, release, sensor and identification events | the state always fits sensors and train list, though some handlers compute it, some leave it to others, some skip it; one train per block |
| Block path (`board/map/blockpath`) | `m_isReserved`, `m_delayReleaseTimer`, `m_delayedReleaseScheduled` | `reserve` (dry run, then real), `release`, `delayedRelease`, `isReady` | all or nothing over many tiles; nothing leaks, nothing is freed for another path; a timer races the user |
| Train tracking (`train/traintracking`) | none of its own; `Train::blocks` and the blocks' `trains` | `assigned`, `reserve`, two `enter`s, `left`, `removed`, `flipped` | an occupied block is not given up, a train is not lost, whatever order the detectors report in |
| Route elements (`board/tile/rail/turnout`, crossings, bridges, direction controls) | position or state, what it is reserved for | `reserve`, `release`, `setPosition`, `setState` | no two routes that meet are reserved together; a reserved turnout stays put |
| Route selection (`board/nx`, `board/pathfinder`) | selected buttons | reserve a path, take one back | exercises reserve and release in any order |
| Train (`train/train`, `train/trainvehiclelist`) | `direction`, `blocks`, `isStopped`, speeds, speed timer, `active`, `vehicles` | direction, speed, stop, emergency stop, activation, composition | four pieces of code decide when a train counts as stopped, and others rely on it; a vehicle follows one train |
| Throttles (`throttle/*`) | the train each has | acquire, steal, release, speed, direction | a train and its one throttle agree, also when a steal fails half-way |
| Zones (`zone/*`, `train/trainzonestatus`) | lists of blocks, zones and trains, mute, speed limit | entering, entered, leaving, left | the four events of a zone pair up and come in order |
| Signals (`board/tile/rail/signal`, `board/map/abstractsignalpath`) | aspects | evaluation over paths ahead | never a proceed aspect into a path that is not reserved |
| World (`world/world`) | flags of `WorldState` | the power and run buttons, `event` | power and run for an interface that couples them |
| Märklin 6050 interface (`hardware/interface/marklin6050interface`, `hardware/protocol/marklin6050interface`) | command queue, redundancy timers, overflow flag, crash monitor; poll state and answer buffer | go, stop, speed, direction, functions, accessory, S88 and extension polls | immediate and queued commands, and their repetitions, overtake each other; the queue fills; the station stops being ready; answers come late |
| Märklin 6023 interface (`hardware/protocol/marklin6023interface`) | contact cycle, response timer, command queue | poll a contact, accessory, go, stop | an answer after its timeout is taken for the next contact's |
| Decoders, outputs, boosters (`hardware/*`, `vehicle/*`) | values and owners | set emergency stop, direction, throttle, function, output | a decoder runs with its train, or not at all |
| LocoNet (`hardware/protocol/loconet`) | send queues by priority, slots | send, echo, response timeout, retry | an answer is matched with its request |
| Other protocols (XpressNET, Märklin CAN, Z21, CBUS, DCC-EX, ECoS, WiThrottle, Traintastic DIY ...) | mostly caches of what was sent | encode, decode | mostly encodings |
| Object model and event loop (`core/*`) | properties, methods, events, queue of calls | set, call, queue | the order of handlers, on which the models rest |
| Network sessions (`network/*`) | handles, subscriptions | requests of the clients | bookkeeping of objects; decides nothing on the railway |
| Board editing (`board/board`, links and nodes) | the layout | add, delete and move tiles, `updatePaths` | only while the world is stopped and in edit mode |
| Clock, Lua, saving and loading, log, packet capture, platform | | | scripts call what users call; the rest is input and output |

The **client** (`client/`, Qt), the manual, the packaging and the utilities hold no logic of the railway.
`shared/` has the enumerations that the modules take their values from.

Interactions that matter below:

- A detector's event reaches the block through its input map; the block decides which train it announces and
  calls train tracking, which calls back into blocks and paths (`left` schedules a delayed release of a path).
- NX buttons and the path finder call `BlockPath::reserve`, which calls both blocks and every tile between them.
- A world button changes `WorldState` and sends an event to every interface. The 6050 interface sends go or
  stop and, since its station cannot tell power from run, queues a call for the button that keeps them together.
  The kernel's overflow and crash reports queue a call that powers the world off.
- Decoders and outputs call the interface, which posts to the kernel; the kernel writes frames at once or puts
  them in a queue that a timer empties, and repeats them from timers 50 ms apart.

`PROJECT.json` lists, under `hazards`, 40 places where this is hard to test, each with the properties that
guard it or the reason why none does yet.

## Modules

| Module | Models | Built on |
|---|---|---|
| `Interlocking` | blocks, paths, route elements and train tracking together | |
| `Reservations` | what reserved paths may rely on, with a history variable for those that a late release has robbed | `Interlocking` |
| `MCJunction`, `MCStation` | two layouts for TLC, one of them with zones | `Reservations`, `Zones` |
| `SequenceLemmas` | facts about `Min`, `RemoveAt`, `RemoveFirst`, `Reverse` and about counting | |
| `InterlockingProofs` | theorems for every layout: tracking and reservations | `Reservations`, `SequenceLemmas` |
| `Zones` | the zones that blocks belong to, and the mute that follows from them | `Interlocking` |
| `ZoneProofs` | theorems for every layout with any zones | `Zones`, `InterlockingProofs` |
| `Marklin6050` | the transmitting half of the 6050 interface with world, decoders and outputs | |
| `MCMarklin6050` | one loco, one accessory and the settings of a session for TLC | `Marklin6050` |
| `Marklin6050Proofs` | theorems for every set of devices and settings: the queue, the monitor, power and run | `Marklin6050` |
| `Marklin6050SyncProofs` | that the layout ends up as asked for, for every set of devices and settings | `Marklin6050Proofs`, `SequenceLemmas` |
| `FeedbackReports` | abstract: what a receiver of polled feedback promises | |
| `Marklin6050Feedback` | the receiving half of the 6050 interface, which implements `FeedbackReports` | instance of `FeedbackReports` |
| `MCMarklin6050Feedback` | two S88 modules and two kinds of events for TLC | `Marklin6050Feedback` |
| `Marklin6050FeedbackProofs` | theorems for every number of modules and events | `Marklin6050Feedback` |
| `Marklin6023` | the contact cycle of the 6023 interface with its watchdog and queue, which implements `FeedbackReports` | instance of `FeedbackReports` |
| `MCMarklin6023` | the settings of two sessions for TLC | `Marklin6023` |
| `Marklin6023Proofs` | theorems for every number of contacts and settings | `Marklin6023`, `SequenceLemmas` |
| `TrainControl` | speed, activation and vehicles of trains, their throttles and decoders | |
| `MCTrainControl` | two trains, two throttles and a locomotive for TLC | `TrainControl` |
| `TrainControlProofs` | theorems for every set of trains, vehicles and throttles | `TrainControl` |

Definitions whose comment starts with "Fault:" are not part of the models. Each is what a plausible mistake
would make of the definition after it, and shows that a property notices.

### Interlocking

Block, path and tracking call each other within one handler and share their state, so they are one module. A
handler is one action (`SensorOccupied` is `inputItemValueChanged` for a sensor that becomes occupied, with
all that `enter`, `left`, `delayedRelease` and `updateState` do in it). The calls of a handler are composed as
operators from one `Tracking` record (block states, train lists, block lists, timers) to the next; the action
then assigns the result.

| Code | Model |
|---|---|
| `BlockRailTile::state`, `trains`, `m_reservedPaths` | `state`, `trains` (sequences of `Status`), `reservedPaths` |
| values of the block's input map | `sensor` |
| `Train::blocks` | `blocks` (head first) |
| `BlockPath::m_isReserved`, `m_delayReleaseTimer` | `isReserved`, `timer` (idle, armed, expired, cancelled) |
| what a turnout, crossing, bridge or direction control is reserved for, its position | `lock`, `position` |
| a dereference of a missing train or a freed status | `crashed` |

A *path* is what `BlockPath::find` builds: two block sides, and the elements between with the value each is
needed in (`Route`). A delayed release is two steps: the timer expires, later its handler runs, and any other
handler may run in between, since asio cannot take back a wait that has expired (`cancel` then does nothing).

Speed control is an input. Whether a train stands or moves is left open: it may be removed or turned at any time,
and which of the trains run by hand with speed when a sensor reports (`moving`) is any set of them. So is the direction
in which a train is assigned, which the user chooses while the train is in no block. The model thus has every order
of sensor reports that any driving can cause, and more. `TrainControl` has the speed timer.

Left out: signals, NX buttons and passive tiles of a path (they follow it and refuse nothing), the
events for scripts, outputs of track drivers, changes of the layout. A turnout takes the position at once; its
feedback and the correction of one that is moved by hand are left out.

Bounds, all constants named in the module:

- `MaxTrainBlocks`: a train enters no further block once it spans so many. 3 lets it leave one and two blocks
  in a single `enter`, whose loop is unrolled accordingly (`Enter`, for up to 4).
- `MaxScheduled`: delayed releases under way at the same time. With 1, TLC has a late handler compete with users and
  other paths, but not two of them with each other; the theorems are for every number.
- `Halted`: a behaviour ends when the process has crashed, or when a train lists a status that no block has
  (`Orphaned`, which only the first finding leads to).

### Reservations

`BlockPath::release` asks neither whether its path is reserved nor who holds what it frees. The user takes a path
back whose release timer has expired, another path over the same elements is reserved, the late handler runs, and
the other path has lost its block side, turnout or crossing (the second [finding](#findings)). A slip loses its lock
without any late handler, when one of the two paths over it is released. So it is not true that every reserved path has
what it took, and the properties say which do. `robbed` is a history variable beside those of `Interlocking`: the reserved
paths from which a release of another path took something. It is not computed from locks: `Victims` names them in
advance, from the layout and from who is reserved. A release of a path that is reserved and has not been robbed may rob
only those over the same slip (`ShareTurnout`); any other release may rob what its path meets (`Meet`). If a release
freed anything else, or anything of another path, the properties below would not hold. A path is *intact* when it is
reserved and not robbed, and is so again as soon as it is reserved anew.

### Zones

Train tracking calls a zone check wherever it changes a train's blocks. `Zones` adds these to the handlers of
`Interlocking`: each action that calls tracking is conjoined with what its checks do, in the code's order, from one
`Zones` record (statuses, mute, fault) to the next; `enter`'s loop is followed turn by turn, because a check asks the
block list as it is between two blocks that are left. All other actions leave zones alone. A status that does not
exist is `"none"`; taking one away that does not exist is a null dereference in the code and sets `zoneFault`, which
ends the behaviour. Smoke and speed limit are evaluated where mute is, so mute stands for the three. The settings and
blocks of a zone are constants, and the world's own mute is off.

### Marklin6050

`sendRaw`, `sendWithRedundancy`, `enqueueTx` and the rest are operators from one `Kernel` record (queue, timer,
overflow flag, pending repetitions, calls for the event loop, station, dropped frames) to the next, named as in
the code; handlers compose them.

| Code | Model |
|---|---|
| `WorldState::PowerOn`, `Run` | `power`, `run` |
| what `EventLoop::call` has queued | `loop` (`powerOff`, `run`, `stopWorld`) |
| `Decoder` throttle, direction, emergency stop; output values | `decoder`, `output` |
| `m_txQueue`, `m_txTimerArmed`, `m_txOverflowFired` | `txQueue`, `txTimerArmed`, `txOverflowFired` |
| `m_redundancyTimers` that are pending | `redundancyTimers`, with the slots of 50 ms that remain of each command |
| `m_ctsLowSince`, `m_crashFired`, the line itself | `ctsLow` (seconds, -1 when not set), `crashFired`, `cts` |
| station, locos and accessories (external) | `station`; a frame acts on it when it is written |

Choices worth knowing:

- **Posting is part of the event loop's step.** A handler that posts a command shares no variable with the
  strand, and posts are executed in order, so moving the posted handler to where it was posted changes no order
  of frames, calls and reports that these properties can see.
- **Repetitions take turns.** Timers of a command are 50 ms apart. That they expire on time is assumed: jitter, or a
  strand that lags by a slot, is not modelled. All commands that still repeat have exactly
  one timer due within the next 50 ms, and these expire in the order of their start: the list is worked through
  round and round. An accessory's pulse is a whole number (`PulseSlots`) of such slots
  with nothing sent; the settings allow steps of 25 ms, of which only the multiples of 50 ms are modelled.
- A full queue (`QueueLimit`) stands for the backlog that amounts to `kTxOverflowMs`.
- S88 and extension polls and the functions F1 to F4 are frames without effect (`Other`) that take their place in the queue.
- **One session.** A run starts when the kernel is online, with locos and accessories as the decoders and outputs
  have them and the layout's power unknown, and ends when it goes offline (`GoOffline`).
- External behaviour: the station carries out frames in the order it receives them, a direction toggle also
  stops the loco, and CTS changes at any time.

Bounds: `QueueLimit`, `PulseSlots` and `CrashSeconds` stand for the code's 10 s of backlog, its pulse time and
its 10 s; `MaxRepeating` and `MaxCalls` stop users, polls and reports while that many commands still repeat or
calls are queued. What these cause goes on without bound.

### FeedbackReports

The abstract specification of both receivers. `due` is what the station has been asked for and has not been
reported, `reported` the last report, `sound` whether the line is sound. While it is, reports come in the order
of what is due, once, and as what they are; a disturbance ends the promise, and it may be made again. What is
left open is what the two differ in: whether the station may leave a question unanswered (`Lossy`), which items
nobody listens to (`Silent`), and when a line is sound again.

### Marklin6050Feedback

The station's answers have neither address nor length. A poll sets a state machine that counts the bytes of its
answer; an S88 answer that is awaited takes every byte, whoever sent it.

| Code | Model |
|---|---|
| `m_s88State`, `m_s88Expect`, `m_s88Module`, `m_s88High` | `s88State`, `s88Expect`, `s88Module`, `s88High` |
| `m_extState`, `m_extEventsLeft`, `m_extTmpAddr` | `extState` with `extKind` (the code has a state for each kind), `extEventsLeft`, `extTmpAddr` |
| what the callbacks were told last | `reported` (`Garbled` when its bytes do not belong together) |
| the serial line and the extension module (external) | `wire`, `received`; `changes` |

A byte is known by the packet it is part of. A byte that is taken for something else can have any value
(`CountsOf`, `KindsOf`). Bytes are lost at any time, and polls are sent at any time, before the last answer is
complete too: their timers and the queue, which are those of `Marklin6050`, can do no more than that. `sound` is
a history variable: it is set by a poll that is sent on a quiet line, and cleared by one that is not and by a loss.
It shows that the receiver finds back into step with the next such poll, whatever state the loss has left it in.

Bounds: `MaxPackets` on the wire when a poll may be sent, `MaxCount` changes remembered, which also stands for
the largest count that a misread byte can be.

### Marklin6023

| Code | Model |
|---|---|
| `m_txQueue`, `m_txTimerArmed`, `m_txOverflowFired` | `txQueue` (contacts and `Command`), `txTimerArmed`, `txOverflowFired` |
| `m_redundancyTimers` that are pending | `redundancyTimers`, a number |
| `m_s88Timer` | `s88Timer` (armed or not) |
| `m_s88NextContact`, `m_s88LastQueried`, `m_s88WaitingReply` | `s88NextContact`, `s88LastQueried`, `s88WaitingReply` |
| `m_s88ResponseTimer` | `s88ResponseTimer` (armed or not) and `timeouts`, its handlers that have expired and not yet run |
| answers on their way (external) | `answers`, by the contact they are about |

An asio timer that has expired can no longer be cancelled, so its expiry and its handler are two steps.
`late`, `stale` and `queryLost` are history variables. They name the three things that the code cannot tell: that an
answer on its way belongs to a query that was given up, that a watchdog's handler ran although its query had
been answered, and that the full queue has dropped a query. Properties say what holds until then, and, for
`late`, that it ends with the next query that finds the line empty.

Commands have no effect on the cycle but the place they take in the queue. The crash monitor, the coupling of
power and run and stop's way around the queue are the same code as in the 6050 interface and modelled there.

Bounds: `MaxAnswers`, `MaxTimeouts`, `MaxRepeating` (when a further command may be given), `QueueLimit` for 10 s of backlog.

### TrainControl

Throttle, train, vehicle list and decoder call each other within one handler, so they are one module, written like
`Interlocking`: operators from one `Control` record to the next, composed by one action per handler.

| Code | Model |
|---|---|
| `Train::vehicles`, `m_poweredVehicles`; `RailVehicle::activeTrain` | `vehicles`, `Motors`; `activeTrain` |
| `Train::active`, `m_throttle`; `Throttle::train` | `active`, `driver`; `acquired` |
| `Train::direction`, `emergencyStop`, `throttleSpeed`, `speed`, `isStopped`, `m_speedState` | the same names |
| `m_speedTimer` | `armed`, and `due`: its waits that have expired and whose handler has not yet run |
| `Train::blocks` | `inBlock`, whether there are any; which ones is `Interlocking`'s matter |
| `Decoder` emergency stop, direction, throttle | `decoder` |

Choices worth knowing:

- **A timer that has expired cannot be cancelled.** A throttle, a stop or an emergency stop cancels the timer, sets
  the speed state and perhaps starts the timer again while an old handler is still due. That handler then takes a
  step of its own, and starts the timer again.
- **Speeds are numbers.** A turn of the timer adds `AccelerationStep` or takes `BrakingStep` away, `Notch` says
  what throttle a decoder gets at a speed. Several speeds may have the same notch, as with a decoder of few
  steps: a slow train then has a decoder whose throttle is zero.
- **Vehicles are shared.** The manual has locomotives that are listed by several trains
  (`manual/docs/en/quickstart/trains.md:9`), so all trains may list all vehicles.
- **Restart** is the end of the server and the load of the world it saved: what has `StoreState` comes back, speeds,
  timers, throttles and decoders begin anew.
- Every throttle is one that may call everything; the web throttle's stop, which leaves emergency stop alone, is the
  second disjunct of `SetTargetSpeed` and `SetSpeedAtOnce`. Which values `slower` and `faster` compute is left open.

Left out as inputs: writing `throttle_speed` of a train past its throttle, writing its `direction` property
(`train/train.cpp:77-93`), which is accepted of a train that is not active and would turn the decoder of a locomotive that another
train runs, so that `RunningNotReversed` is about throttles, which are what the client turns trains with; decoders written by
hand or by a command station's report, deletion of trains and vehicles, a vehicle whose maximum speed changes while
its train runs, and a vehicle that is removed from the list of a train that moves (the client disables it).

Bounds: `MaxDue` expired waits of one train's timer whose handler has not run. `MaxSpeed` is `speed_max`.

## Runs

All numbers are for two workers; every passing run is exhaustive for its constants.

| Run | Layout or settings | States | Shows |
|---|---|---|---|
| `junction` | 3 blocks (one without sensor), a turnout, a level crossing, a bridge with a path on either level, 3 paths, 2 trains | 551,444 | `TypeOK`, `BlockStateCurrent`, `OneTrainPerBlock`, `ReservationHeld`, `NoLeakedReservation`, `ReservedPathsCompatible`, `OccupiedNotGivenUp` |
| `station` | a vertical block with three sensors behind a direction control, readers; three zones, two of them muting | 121,902 | `BlockStateCurrent`, `OneTrainPerBlock`, `ZoneKnown`, `MuteCurrent`, `DelayedReleaseEnds` |
| `marklin_power` | buttons and polls; direct, queued, CTS watched and warnings ignored | 39,327 | `TypeOK`, `QueueServed`, `OverflowTold`, `CrashTold`, `PowerRunCoupled`, `TrackInSync`, `GoDelivered` |
| `marklin_devices` | one loco, one accessory; direct and queued, repeated once | 2,621,328 | `LocoInSync`, `AccessoryInSync` |
| `marklin6023` | two contacts; written at once and repeated, or queued with a station that may not be ready | 33,451 | `TypeOK`, `OneCarrier`, `WaitingIsWatched`, `QueueServed`, `ContactsReported`, `ContactsPolled` |
| `feedback` | two S88 modules, a turnout's event and a global one; loss and overlapping polls | 7,826,903 | `TypeOK`, `InStep`, `FeedbackReported` |
| `train_control` | two trains, two throttles, one locomotive that both list; speeds 0 to 3, up by 2 and down by 1, half as many notches | 208,656 | `TypeOK`, `OneActiveTrain`, `OneThrottle`, `StoppedIsTold`, `EmergencyStopHeld`, `RunsWithTrain`, `SpeedPursued`, `RunningNotReversed` |
| `train_lost`, `turnout_thrown`, `stop_overtakes_go`, `emergency_stop_undone`, `contact_cycle_hangs` | as above | | the [findings](#findings): each property is violated |

What the properties say is in the comments before them. The ones a test would hardly reach:

- `ReservationHeld`, `NoLeakedReservation`, `ReservedPathsCompatible`: reserve is a dry run and then the calls,
  release frees whoever holds an element. Between them users throw turnouts, trains are removed, and delayed
  releases come late. A path that has not been robbed nevertheless has all it took, a path that is not reserved has
  nothing, and no two paths that have not been robbed meet, also after others have been.
- `OccupiedNotGivenUp`: while a sensor holds a block occupied no handler takes its train away; the exceptions
  are the user's and the reader's. The first finding is a flicker that frees the block for an instant.
- `DelayedReleaseEnds`: a release that was scheduled is carried out or refused for the
  reason the code names (it is not tried again then), also when the user took the path back, reserved it again and the old handler is late.
- `ZoneKnown`, `MuteCurrent`: zone statuses are kept apart from the block lists they are derived from. A train that
  spans two zones, gives up its tail, is removed from one of its blocks or has a path taken back must leave exactly
  the zones that it is in no more, and mute, which is evaluated at some of these steps only, must follow.
- `PowerRunCoupled`, `TrackInSync`, `GoDelivered`: whatever buttons are pressed while coupled calls, crash and
  overflow reports are queued, power and run come to agree, and the layout follows. Without the command queue
  in both directions; with it only for power on, which is the third finding.
- `LocoInSync`: direction is sent as a toggle, so every command must be sent exactly once, and the speed last
  repeated must be the last one set. `AccessoryInSync`: the coil is off and the last position wins even when an
  accessory is switched again during its pulse.

- `OneCarrier`: the next query of the 6023's cycle is started by an answer, a watchdog, the queue's timer or the
  cycle's timer. Exactly one of them is responsible at any time, or two contacts are asked on a line whose answers do
  not say which they are of. `WaitingIsWatched`: nothing that comes late or twice leaves a query without watchdog.
- `ContactsReported` and `FeedbackReported` are refinements: `Marklin6023` and `Marklin6050Feedback` implement
  `FeedbackReports`. `InStep` says why: what a state machine counts down is what is on the wire.
- `ContactsPolled`: every contact is asked again and again by a station that never answers, or answers late.
- `StoppedIsTold`, `EmergencyStopHeld`, `SpeedPursued`: the speed timer, its late handlers, throttles, stop, emergency
  stop and deactivation each set some of speed, speed state and timer. A train counts as stopped exactly when its
  speed is zero, one that is stopped in an emergency is not moved by what is still due, and one on its
  way to another speed is not left there with no timer.
- `OneThrottle`: a steal stops a train, takes it from its driver, which may deactivate it, activates it again, which
  may be refused, and lets go of the thief's other train. Throttle and train agree afterwards, and who drives has an
  active train, which `setSpeed` and `setTargetSpeed` assert.
- `OneActiveTrain`, `RunsWithTrain`, `RunningNotReversed`: two trains list one locomotive, are composed while one of
  them is active and change which is. Its decoder follows the active one, stands when there is none, and is never
  reversed while it runs, although direction asks the train only.

**Bounds.** A hazard of the interlocking involves one path and its two blocks, a second path that meets it, and
a second train; the layouts have every kind of element, blocks with 0, 1 and 3 sensors and both drawing
directions, and two ways around. On the junction two paths start with the same turnout, the third crosses one of them at a
level and the other on the bridge, so that any two compete or pass; only two late handlers at once, slips and hidden
crossovers are left to the proofs. Two alternating timers and two queued calls give
every overtaking of two commands by a third; `QueueLimit` 2 and 3 cover full, half and less than half. Two contacts
and two modules tell the first, the last and the next one apart; an answer may be late by a whole round. Two trains,
two throttles and one locomotive are what a steal and a shared locomotive take, and a train that has lost its locomotive stands for one of wagons; speeds 0 to 3 with unequal steps have
targets that are reached, passed over and changed on the way, and one late handler competes with a timer that was started anew. Trains
are interchangeable, and throttles are, so `junction` and `train_control`, which check no liveness, use symmetry.

**Deadlock** is not checked where a behaviour stops after a crash or when the session has ended; `feedback` and `train_control` never stop, and check it.

**Fairness.** `Zones!ZFairSpec`: timers that nobody cancels expire and their handlers run (weak fairness
of `ZTimerExpires` and `ZTimerHandler`), which the io_context guarantees. `Marklin6050!FairSpec`: repetitions
expire and queued calls run (weak fairness, same reason); the queue's timer is started again for as long as
frames wait, and looks at CTS when it expires, so strong fairness of `DrainTx` and weak fairness of CTS rising
say that the station becomes ready again, and at moments at which the timer looks. That is an assumption
about the station, and a user or a train is never assumed to do anything. `Marklin6023!FairSpec` is the same for its
timers, their handlers and the queue; no answer is ever assumed to come.

## Proofs

For **every layout**, number of trains, sensors and late handlers (`InterlockingProofs`, from `TopologyAssumption` alone,
which only says that constants have their types, that a path does not end at the side it starts from nor pass a
turnout or crossing twice, that the null values are none of the others, and that `MaxTrainBlocks` is at most 4):

- `TypeCorrect`: `Spec => []TypeOK`
- `StateCurrent`: `Spec => []BlockStateCurrent`
- `OneTrain`: `Spec => []OneTrainPerBlock`
- `OccupiedKept`: `Spec => OccupiedNotGivenUp`

The inductive invariant is `IInv == TypeOK /\ BlockInv`, with `BlockInv` the conjunction of the two invariants after it. That a
block has one train rests on its state being current: `reserve` appends a status to a block that is *free*, and
`enter` to one that is *free* or *unknown*, which must mean that its list is empty. That the state is current rests
on who skips the update: `removeTrainInternal` updates only a state that is *reserved*, which is right because a
block with a train whose state is current is *reserved* or *occupied*, and *occupied* does not depend on the train.
Handlers are sequences of operators on a `Tracking` record, so every operator has a lemma
(`...Type`: the record keeps its type; `...Good`: every block of it is current and has at most one train, but
for the block whose sensor has just changed and whose update is still due). Each action's lemma cites those of
the operators that it calls, and `StepInv` has one step per action.

`OccupiedKept` is an action property and needs no more than `IInv` (that a reserved block has a train). Three
kinds of handler take a status away on their own: `enter`'s loop, a release, and a sensor that clears. Each
asks for a *reserved* state of the very block it gives up, and none of them has changed that state since the
property looked at it, but for the sensor's own block, which is no longer occupied then (`...Holds` lemmas, one
per operator and action). The handlers that are left, `removeTrain` and the departing identification, are the
two exceptions the property names.

Also for **every layout**, slips, crossovers and any number of late handlers included (the last part of
`InterlockingProofs`, from the same assumption):

- `ReservedPathKept`: `RSpec => []ReservationHeld`
- `NothingLeaks`: `RSpec => []NoLeakedReservation`
- `PathsCompatible`: `RSpec => []ReservedPathsCompatible`

`RobbedOnlyWatches` says that the history variable changes nothing: `[RNext]_reservationVars => [Next]_vars`, so that
the theorems above hold for `RSpec` too. The inductive invariant is `RouteInv`. Of block sides it says that each belongs to
a reserved path that ends there (`SidesOwned`), and of locked elements that a reserved path needs them (`LocksOwned`, but for
hidden crossovers). Of intact paths it says that they have both sides (`EndsHeld`), the lock of every element
(`LocksHeld`) and turnouts and direction controls where they were locked (`PositionsKept`), and that no two of
them need an element in ways that exclude each other (`RoutesApart`). The argument has two halves. *Reserving*: what
`reserve` is granted is held by no intact path, since `EndsHeld` and `LocksHeld` would have it refused (`GrantedApart`,
`GrantedRouteApart`, `TakesTurnout`); it may well be part of a robbed one. *Releasing*: release frees what its path ends
at and needs, so a path that has lost something meets it (`FreedRoute`, `SurvivorApart`). If the released path is intact
itself, `RoutesApart` leaves only the shared turnout for the two to meet at. If it is not, everything that meets it
is counted as robbed, and what a path that is reserved still needs is not leaked for the same reason: what
is locked after the release was locked before it, for a path that is not the released one.

For **every layout with any zones**, late handlers included (`ZoneProofs`, from the assumptions on types alone):

- `ZonesKnow`: `ZSpec => []ZoneKnown`
- `MuteFollows`: `ZSpec => []MuteCurrent`
- `ZoneTypeCorrect`: `ZSpec => []ZTypeOK`
- `ZonesOnlyWatch`: `ZSpec => Spec`, so the theorems above hold with zones too

`ZoneProofs` extends `InterlockingProofs` for its lemmas about handlers; the variable `robbed` that comes with it is left
open by `ZSpec` and by what is proved of it. The invariant is that of `InterlockingProofs` with `ZoneInv`: statuses and mute fit (`Sane`), and every zone of a
block in a train's list has a status (`Known`). Each check has a lemma (`...Keeps`: whose statuses stay), and `left`
and `enter` are followed with `Known` stated of the block list of every intermediate `Tracking` record.

For **every set of locos and accessories, settings, queue limit and crash time** (`Marklin6050Proofs`,
from `ConfigAssumption`):

- `TypeCorrect`: `Spec => []TypeOK`, with the bound of the queue
- `QueueAlwaysServed`: `Spec => []QueueServed`
- `OverflowAlwaysTold`: `Spec => []OverflowTold`
- `CrashAlwaysTold`: `Spec => []CrashTold`
- `PowerRunAgree`: `Spec => []PowerRunCoupled`

The inductive invariant `SessionInv` is the conjunction of the first four. A full queue must have been reported before `enqueueTx`
may drop a frame without any change to timer and flag, and a send within a handler must find the kernel as the
send before it left it. So `Good` says of a `Kernel` record what holds between handlers, `Fits`
what holds within one, and the lemmas say that sends take `Good` to `Good`, and that `checkTxOverflow` and
`armTxTimer` make it of `Fits` after `drainTx` has taken a frame out.

`PowerRunCoupled` is not inductive: it says nothing while calls are queued, and it depends on frames that are
still queued or repeated, since the layout may learn of a go long after it was given. `CoupledInv` adds that the
world is never running without power, and that unless no go and no stop was ever given (`Untold`: neither the
queue nor a timer holds one) power and run agree or a call is queued. `Keeps` says what every send leaves so, and
`EventCoupled` that a world event that makes power and run differ queues the call that ends it.

Also for **every set of locos and accessories, settings, queue limit and redundancy** (`Marklin6050SyncProofs`,
from `ConfigAssumption`):

- `TrackAlwaysInSync`: `Spec => []TrackInSync`
- `LocoAlwaysInSync`: `Spec => []LocoInSync`
- `AccessoryAlwaysInSync`: `Spec => []AccessoryInSync`

These speak of the moment when nothing is left to send and nothing was lost, so that their invariant has to follow every frame on its
way. It is `SyncInv`, beside `SessionInv` and `CoupledInv`. A command is a frame that is sent when it is given and
slots that are sent later, one per turn, by a timer of its own; commands that are being repeated take turns
(`Turned`), and while an old one still has slots, a newer one about the same thing may have been sent in full. What
saves the layout is that the newest of them is also the last to end (`Latest`): a new command starts at the end of
the turns with as many slots as any command about the same thing starts with, and turns keep who ends before whom.

A *subject* is what frames are about: the track's power, a loco's speed, an accessory's position, its coil. It is a
record of the frames about it, those that commands about it end with, the frame that is wanted, the states of the
station in which it is `met`, and the commands that send that frame. `Settled` says that the last frame queued
about it is the wanted one, or that none is queued and the station is as wanted. `Follows` says that no command about the
subject is being repeated and it is settled, or that the one that ends last sends the wanted frame.
Three things a step can do are followed for any subject: a
command is given (`CommandOwn` about the subject, `CommandOther` not about it), the next command takes its turn
(`TurnFollows`), and the queue's timer sends a frame (`DrainTracks`). `Proper` is what they ask of a subject, and
`PowerProper`, `SpeedProper`, `PositionProper` and `CoilProper` give it for the four.
A pulse needs `rest`: its last slots turn the coil off, and say nothing of the position.

An immediate frame overtakes the queue. So with a command queue a stop may be undone by a go that still waits, and
`TrackInSync` asks for a layout that is off only without one; emergency stops are toggles, about which no other frame says
anything. A loco's direction is no subject: toggles do not overwrite each other, they count. `Turns` says that
the station has the direction asked for just when an even number of toggles is queued or still to be repeated.


For **every number of contacts, settings and limits** (`Marklin6023Proofs`, from `SettingsAssumption`):

- `TypeCorrect`: `Spec => []TypeOK`
- `QueueAlwaysServed`: `Spec => []QueueServed`
- `WaitingAlwaysWatched`: `Spec => []WaitingIsWatched`
- `OneCarrierAlways`: `Spec => []OneCarrier`
- `ReportsContacts`: `Spec => ContactsReported`, the refinement

The inductive invariant is `IInv == TypeOK /\ (online => Good(Kernel))`. `Good` has the queue served and waiting
watched, and, before any stale watchdog, who carries the cycle (`Carried`) and that every answer that is neither
late nor lost is of the contact that is waited for (`Answerable`). `Ready` is what holds within a handler before
`queryNextContact`; the lemmas take `Ready` to `Good` through every way a query can go. A step either reports
the head of `answers`, loses one, asks, or disturbs the line, which are the four steps of the abstract specification.

For **every number of modules and events** (`Marklin6050FeedbackProofs`, from `FeedbackAssumption`):

- `TypeCorrect`: `Spec => []TypeOK`
- `AnswersInStep`: `Spec => []InStep`
- `ReportsFeedback`: `Spec => FeedbackReported`, the refinement

`InStep` speaks of the first packet on the wire only. `Shape` adds what comes after it: on a sound line the wire holds
the rest of one S88 answer (`ModuleAnswer`, modules in order up to the last), a count with as many events behind it
(`CountAnswer`), or events (`EventAnswer`), and high byte and address are those of the packet being received.

For **every set of trains, vehicles and throttles, any speeds, steps and notches** (`TrainControlProofs`, from
`ControlAssumption`, which gives constants their types and says that steps are not 0 and speed 0 has notch 0):

- `ControlTypeCorrect`: `Spec => []TypeOK`
- `OneActiveTrainAlways`: `Spec => []OneActiveTrain`
- `OneThrottleAlways`: `Spec => []OneThrottle`
- `StoppedAlwaysTold`: `Spec => []StoppedIsTold`
- `EmergencyStopAlwaysHeld`: `Spec => []EmergencyStopHeld`
- `AlwaysRunsWithTrain`: `Spec => []RunsWithTrain`
- `SpeedAlwaysPursued`: `Spec => []SpeedPursued`
- `RunningNeverReversed`: `Spec => RunningNotReversed`

The invariant is `Inv == Good(Control)`, in three parts, because handlers are sequences of calls between which
not all of it holds. `Core` (types, who has which vehicle active, what decoders do, and of each train what stopped,
emergency stop and a speed on its way mean) is kept by every operator. `Agree` (train and throttle point at each other)
is broken within `Acquire` and `Release` only. `Driven` (a driven train is active) does not hold while a train is
deactivated whose driver is still there, which is why `ReleaseGood` asks it of the other trains only. Within a handler a
train may be on its way with no timer, until `updateSpeed` runs: `UpdateSpeedCore` asks `Shape` of the record, which is
`Core` without `Pursued`, and `Pursued` of the other trains, and gives `Core` back. That a speed stays within its bounds
rests on `updateSpeed` comparing the step with the target before it takes it, that `StoppedIsTold` holds between two
steps on `Pursued`'s second half: a train on its way has a speed other than 0. `RunningNotReversed` is an action property, proved with the
invariant in `StepInv`: a train that may turn stands, so the decoders that are turned with it have throttle 0, are
in emergency stop, or run for another train, and the last is excluded because a driven train is active and has all of its
vehicles.

Every safety property that a passing run checks is proved, and so are both refinements. Liveness (`DelayedReleaseEnds`, `GoDelivered`,
`ContactsPolled`) is only model-checked: the prover has no rules for fairness.

## Findings

Each is a run that TLC ends with a counterexample.

1. `train_lost` (`train/traintracking.cpp:153`). A sensor flickers while the path into its block is still
   reserved. `enter` runs again for a status that the train already has, inserts it a second time and gives up
   the tail, which is the same block. `left` and `TrainBlockStatus::destroying` take one entry each, and the
   train is nowhere any more.
2. `turnout_thrown` (`board/map/blockpath.cpp:731`). A train leaves a block, which schedules the release of its
   path; the timer expires, and before its handler runs the user takes the path back and reserves another one for the next
   train, over the same turnout in the other position. The handler asks nobody whether its path is still reserved and
   frees the turnout, and `set_position` moves it under the reserved path, which the manual says it refuses
   (`manual/luadoc/terms/en-us.json:2364`). `ReservationHeld` and its two companions say how far the damage goes.
3. `stop_overtakes_go` (`hardware/protocol/marklin6050interface/kernel.cpp:202`). With the command queue, stop
   bypasses it and go does not: a go still queued is sent after the stop, and the layout is on while the world
   is off.
4. `emergency_stop_undone` (same file, line 242). The double toggle of an emergency stop is sent at once. A
   speed frame of the same loco that is queued, or is still to be repeated, comes after it, and the loco runs.
5. `contact_cycle_hangs` (`hardware/protocol/marklin6023interface/kernel.cpp:393`). A query that finds the queue
   full is dropped, and the watchdog that would have skipped its contact, which is started when the query is
   sent, with it. Nothing queries a contact any more until the interface goes offline.

Seen while modelling, each confirmed with TLC but without a run of its own:

- A block that stays reserved without any path (`board/map/blockpath.cpp:618`). A path is released whose train was
  removed from its block, or has a single block. The status in the block ahead is kept ("else we lose the train"), though
  a block that is only reserved is not in the train's list.
- A delayed release that is refused because the train stands at both ends (`board/map/blockpath.cpp:598`) is not
  tried again: the path stays reserved until something else releases it.
- Releasing a path dereferences the train of the status ahead (`board/map/blockpath.cpp:620`), which is missing when
  only a reader knows of it.
- `flip_train` (`board/tile/rail/blockrailtile.cpp:155`) is enabled for a block whose only status came from an
  identification and has no train, which it asserts and dereferences.
- A missing zone status is dereferenced (`train/traintracking.cpp:371`). A train in a block of a zone reserves a path
  to another block of the zone; the user removes it from its own block, which takes the status, since a reservation
  does not count; then removes it from the reserved block too. `zoneFault` is set in the sixth state.
- A train in a muting zone that is not muted (`train/traintracking.cpp:231`). It reserves a path into the zone
  and has the status *entering*, is removed from its block, and is assigned to another block of the zone:
  `checkZoneAssigned` skips a train that has a status, so it stays *entering*, which nothing mutes.
- *Entered* means that a train "does not occupy any block outside the zone" (`manual/luadoc/terms/en-us.json:2616`).
  `checkZoneEntered` looks at no other block: a train has entered with its head, and again when its tail leaves.
- A slip with a single motor is reserved as *crossed* for the path straight over it from either side, and as *diverged*
  for both curves (`board/tile/rail/turnout/turnoutrailtile.cpp:107`), and a turnout reserved for a position is granted
  again for the same one: two trains are sent through the slip, and when one path is released the turnout is no longer
  locked for the other ("TODO: what if 2 path reserve same turnout for same position?", line 109).
- A locomotive that is added to an active train, or removed from one and added again, keeps its decoder's emergency
  stop while the train runs: `train/trainvehiclelist.cpp:49` sets its active train and nothing else, whereas
  activation syncs emergency stop (`train/train.cpp:608`). Neither tells the decoder the train's direction, so two
  trains that share a locomotive can disagree with it about where forward is.
- When such a train is stopped in an emergency, the decoder is already in emergency stop and does not reset its throttle.
  Without its train it keeps a throttle other than zero, and activation refuses it for good ("Already running",
  `train/train.cpp:597`): a steal of the train can then fail after its driver has lost it.
- After a restart `throttle_speed` comes back and `speed` is 0 (`train/train.hpp:102`): asking for the same speed
  again changes no property and does nothing.
- The manual wants a powered vehicle in an active train (`manual/docs/en/wip/trains.md:26`); activation only asks
  that there is a vehicle, and the last one can be removed from an active train.
- `RailVehicle::updateMute` asks the world for *NoSmoke* instead of *Mute* (`vehicle/rail/railvehicle.cpp:127`).

## Plan

Order of importance, with what is there: trains apart (`Interlocking`, `Zones`), this fork's interfaces (`Marklin6050`,
`Marklin6050Feedback`, `Marklin6023`), who drives a train (`TrainControl`). Next would be:

1. Turnout feedback, correction of a locked turnout and the emergency stop of its train, over an output
   (`turnoutrailtile.cpp:240`, `world.cpp:178`): it joins `Interlocking` with `TrainControl`.
2. `TrainControl` with the block list of `Interlocking`, of which it has only whether it is empty, so that trains of
   `Interlocking` stand and move as the speed timer has it.
3. Liveness of the speed timer: every target is reached if nobody asks for another one. `SpeedPursued` is its safety half.

**Not modelled**, and why: signals (their aspects are evaluated from reserved paths and decide nothing about
trains); LocoNet's queues and slots, and the other protocols (XpressNET, Märklin CAN, Z21, CBUS, DCC-EX, ECoS), which are upstream's
and mostly encodings; outputs and boosters, whose values the interface modules take as given; functions of decoders; network sessions,
board editing, Lua, saving, logging and the client, which call what is modelled as inputs and decide nothing about
trains. They are listed in `PROJECT.json` with the reason.
