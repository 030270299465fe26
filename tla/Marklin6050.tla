---------------------------- MODULE Marklin6050 ----------------------------
(***************************************************************************)
(* The transmitting half of the Marklin 6050/6051 interface, from the      *)
(* world's power buttons and the decoders down to what the command station *)
(* has been told: server/src/hardware/interface/marklin6050interface.cpp   *)
(* and hardware/protocol/marklin6050interface/kernel.cpp, one session of   *)
(* the kernel from going online to going offline.                          *)
(*                                                                         *)
(* Handlers of the event loop (world, decoders, outputs) and of the        *)
(* kernel's strand (timers) are one action each. A command is posted from  *)
(* the first to the second; the post is done within the event loop's step, *)
(* since a posted handler and whatever the event loop does before it runs  *)
(* have no variable in common.                                             *)
(***************************************************************************)
EXTENDS Integers, Sequences, FiniteSets, SequencesExt

CONSTANTS
  Loco, Accessory,
  Speed,           \* speed steps, 0 = stop
  Config,          \* settings a session may have been started with
  QueueLimit,      \* frames in the queue that amount to kTxOverflowMs
  PulseSlots,      \* turnout time in units of the 50 ms between repetitions
  CrashSeconds,    \* seconds of low CTS that mean a crash (10 in the code)
  Button,          \* the buttons of the world that are used
  MaxRepeating,    \* bound: commands being repeated when a further one is given
  MaxCalls         \* bound: calls queued for the event loop when more may be added

ASSUME ConfigAssumption ==
  /\ 0 \in Speed /\ Speed \subseteq 0..14
  /\ Config \subseteq [commandQueue: BOOLEAN, redundancy: 0..3, ignoreWarnings: BOOLEAN,
                       crashDetection: BOOLEAN, waitForCts: BOOLEAN]
  /\ QueueLimit \in Nat \ {0} /\ PulseSlots \in Nat \ {0} /\ CrashSeconds \in Nat \ {0}
  /\ Button \subseteq {"PowerOn", "PowerOff", "Run", "Stop"}
  /\ MaxRepeating \in Nat /\ MaxCalls \in Nat

Position == {"red", "green"}
Decoder == [throttle: Speed, forward: BOOLEAN, emergencyStop: BOOLEAN]
Call == {"powerOff", "run", "stopWorld"}

\* Frames; Pause is a slot of a repeating command in which nothing is sent.
Go == <<"go">>
Stop == <<"stop">>
Other == <<"other">>     \* S88 and extension polls, functions F1-F4: no effect modelled here
Pause == <<"pause">>
SpeedFrame(l, s) == <<"speed", l, s>>
Toggle(l) == <<"toggle", l>>
Switch(a, p) == <<"on", a, p>>
Off(a) == <<"off", a>>
Frame ==
  {Go, Stop, Other} \cup {SpeedFrame(l, s) : l \in Loco, s \in Speed} \cup {Toggle(l) : l \in Loco}
    \cup {Switch(a, p) : a \in Accessory, p \in Position} \cup {Off(a) : a \in Accessory}

\* A command that is still repeated: sent at once or queued, one slot per 50 ms.
Repeating == [now: BOOLEAN, slots: Seq(Frame \cup {Pause}) \ {<<>>}]

\* What the frames sent have made of the layout.
Station == [track: {"unknown", "on", "off"}, speed: [Loco -> Speed], forward: [Loco -> BOOLEAN],
            coil: [Accessory -> BOOLEAN], position: [Accessory -> Position]]

VARIABLES
  power, run,          \* WorldState::PowerOn, WorldState::Run
  loop,                \* what EventLoop::call has queued
  decoder,             \* [Loco -> Decoder]
  output,              \* the output values set by the user
  online,              \* is there a kernel?
  config,              \* Kernel::m_config
  txQueue,             \* Kernel::m_txQueue
  txTimerArmed,        \* Kernel::m_txTimerArmed
  txOverflowFired,     \* Kernel::m_txOverflowFired
  redundancyTimers,    \* Kernel::m_redundancyTimers, the next to expire first
  cts,                 \* the station's CTS line
  ctsLow,              \* seconds since m_ctsLowSince, -1 when it is not set
  crashFired,          \* Kernel::m_crashFired
  station,             \* the command station and the layout (external)
  lost                 \* history: a frame has been dropped

world == <<power, run>>
monitor == <<cts, ctsLow, crashFired>>
vars == <<power, run, loop, decoder, output, online, config, txQueue, txTimerArmed,
          txOverflowFired, redundancyTimers, cts, ctsLow, crashFired, station, lost>>

-----------------------------------------------------------------------------
(* The command station (external). A direction toggle also stops the loco. *)

Receive(s, f) ==
  CASE f = Go -> [s EXCEPT !.track = "on"]
    [] f = Stop -> [s EXCEPT !.track = "off"]
    [] f[1] = "speed" -> [s EXCEPT !.speed[f[2]] = f[3]]
    [] f[1] = "toggle" -> [s EXCEPT !.speed[f[2]] = 0, !.forward[f[2]] = ~@]
    [] f[1] = "on" -> [s EXCEPT !.coil[f[2]] = TRUE, !.position[f[2]] = f[3]]
    [] f[1] = "off" -> [s EXCEPT !.coil[f[2]] = FALSE]
    [] OTHER -> s

-----------------------------------------------------------------------------
(* Sending. The operators map one state of the kernel to the next, so that *)
(* the sends of one handler can be composed.                               *)

Kernel == [queue |-> txQueue, armed |-> txTimerArmed, overflow |-> txOverflowFired,
           repeating |-> redundancyTimers, calls |-> loop, station |-> station, lost |-> lost]

Becomes(k) ==
  /\ txQueue' = k.queue
  /\ txTimerArmed' = k.armed
  /\ txOverflowFired' = k.overflow
  /\ redundancyTimers' = k.repeating
  /\ loop' = k.calls
  /\ station' = k.station
  /\ lost' = k.lost

WriteFrameNow(k, f) == [k EXCEPT !.station = Receive(@, f)]

\* Fault: the hysteresis never ends.
CheckTxOverflowOnce(k) ==
  IF Len(k.queue) >= QueueLimit /\ ~k.overflow
  THEN [k EXCEPT !.overflow = TRUE,
                 !.calls = IF config.ignoreWarnings THEN @ ELSE Append(@, "stopWorld")]
  ELSE k

CheckTxOverflow(k) ==
  IF Len(k.queue) >= QueueLimit
  THEN IF k.overflow THEN k
       ELSE [k EXCEPT !.overflow = TRUE,
                      !.calls = IF config.ignoreWarnings THEN @ ELSE Append(@, "stopWorld")]
  ELSE IF 2 * Len(k.queue) < QueueLimit THEN [k EXCEPT !.overflow = FALSE]
  ELSE k

ArmTxTimer(k) == [k EXCEPT !.armed = @ \/ k.queue # <<>>]

\* Fault: the queue is not bounded.
EnqueueTxAnyway(k, f) == ArmTxTimer(CheckTxOverflow([k EXCEPT !.queue = Append(@, f)]))

EnqueueTx(k, f) ==
  IF Len(k.queue) >= QueueLimit
  THEN [CheckTxOverflow(k) EXCEPT !.lost = TRUE]
  ELSE ArmTxTimer(CheckTxOverflow([k EXCEPT !.queue = Append(@, f)]))

SendRaw(k, f) == IF config.commandQueue THEN EnqueueTx(k, f) ELSE WriteFrameNow(k, f)

\* The timers of a command, one per slot of 50 ms. All commands that still repeat have
\* one timer due within the next slot, so they take turns in the order they started.
Repeat(k, now, slots) ==
  IF slots = <<>> THEN k
  ELSE [k EXCEPT !.repeating = Append(@, [now |-> now, slots |-> slots])]

Times(n, f) == [i \in 1..n |-> f]

SendWithRedundancy(k, f) == Repeat(SendRaw(k, f), FALSE, Times(config.redundancy, f))

\* Fault: a stop is not repeated, although the go before it is.
SendImmediateOnce(k, f) == WriteFrameNow(k, f)

SendImmediateWithRedundancy(k, f) ==
  Repeat(WriteFrameNow(k, f), TRUE, Times(config.redundancy, f))

\* Bounds: users, polls and the monitor act while there is room for what they cause.
Room == Len(redundancyTimers) < MaxRepeating /\ Len(loop) < MaxCalls

\* Fault: the timer is not started again for the next frame.
DrainTxOnce ==
  /\ txTimerArmed
  /\ config.waitForCts => cts
  /\ Becomes(CheckTxOverflow(WriteFrameNow([Kernel EXCEPT !.armed = FALSE, !.queue = Tail(@)],
                                           Head(txQueue))))
  /\ UNCHANGED <<world, decoder, output, online, config, monitor>>

\* Fault: a station that is not ready is not asked again.
DrainTxGivesUp ==
  /\ txTimerArmed
  /\ LET k == [Kernel EXCEPT !.armed = FALSE]
     IN  Becomes(IF txQueue = <<>> \/ (config.waitForCts /\ ~cts) THEN k
                 ELSE ArmTxTimer(CheckTxOverflow(
                        WriteFrameNow([k EXCEPT !.queue = Tail(@)], Head(txQueue)))))
  /\ UNCHANGED <<world, decoder, output, online, config, monitor>>

\* The queue's timer. While the station is not ready nothing is sent and the timer
\* is started again, which is a step that changes nothing.
DrainTx ==
  /\ txTimerArmed
  /\ config.waitForCts => cts
  /\ LET k == [Kernel EXCEPT !.armed = FALSE]
     IN  Becomes(IF txQueue = <<>> THEN k
                 ELSE ArmTxTimer(CheckTxOverflow(
                        WriteFrameNow([k EXCEPT !.queue = Tail(@)], Head(txQueue)))))
  /\ UNCHANGED <<world, decoder, output, online, config, monitor>>

\* The next of the redundancy timers expires.
RedundancyTimer ==
  /\ redundancyTimers # <<>>
  /\ LET t == Head(redundancyTimers)
         f == Head(t.slots)
         k == Repeat([Kernel EXCEPT !.repeating = Tail(@)], t.now, Tail(t.slots))
     IN  Becomes(IF f = Pause THEN k ELSE IF t.now THEN WriteFrameNow(k, f) ELSE SendRaw(k, f))
  /\ UNCHANGED <<world, decoder, output, online, config, monitor>>

\* doS88Poll, doExtensionPoll: the poll takes its place among the commands.
Poll ==
  /\ Len(loop) < MaxCalls
  /\ Becomes(SendRaw(Kernel, Other))
  /\ UNCHANGED <<world, decoder, output, online, config, monitor>>

-----------------------------------------------------------------------------
(* The world and the interface's handling of its events.                   *)

PowerAfter(event) == IF event = "Stop" THEN power ELSE event # "PowerOff"
RunAfter(event) == event = "Run" \/ (event = "PowerOn" /\ run)

\* Fault: stopping the trains does not power the layout off.
CoupledCallsOnlyRun(event) ==
  IF event = "PowerOn" /\ ~run THEN <<"run">> ELSE <<>>

\* What worldEvent defers, so that power and run go on and off together.
CoupledCalls(event) ==
  CASE event \in {"PowerOff", "Stop"} /\ (PowerAfter(event) \/ RunAfter(event)) -> <<"powerOff">>
    [] event \in {"PowerOn", "Run"} /\ ~(PowerAfter(event) /\ RunAfter(event)) -> <<"run">>
    [] OTHER -> <<>>

\* World::event followed by Marklin6050Interface::worldEvent.
WorldEvent(k, event) ==
  /\ power' = PowerAfter(event)
  /\ run' = RunAfter(event)
  /\ Becomes(LET told == IF event \in {"PowerOff", "Stop"} THEN SendImmediateWithRedundancy(k, Stop)
                         ELSE SendWithRedundancy(k, Go)
             IN  [told EXCEPT !.calls = @ \o CoupledCalls(event)])

\* A user or a script presses one of the world's buttons.
WorldButton(event) ==
  /\ Room
  /\ WorldEvent(Kernel, event)
  /\ UNCHANGED <<decoder, output, online, config, monitor>>

\* The event loop runs the call that was queued first; stopWorldCallback asks once
\* more whether the world is powered on.
RunCall ==
  /\ loop # <<>>
  /\ LET k == [Kernel EXCEPT !.calls = Tail(@)] IN
     IF Head(loop) = "run" THEN WorldEvent(k, "Run")
     ELSE IF Head(loop) = "powerOff" \/ power THEN WorldEvent(k, "PowerOff")
     ELSE Becomes(k) /\ UNCHANGED world
  /\ UNCHANGED <<decoder, output, online, config, monitor>>

-----------------------------------------------------------------------------
(* Decoders and outputs: decoderChanged and setOutputValue.                *)

CommandedSpeed(d) == IF d.emergencyStop THEN 0 ELSE d.throttle

\* Fault: the direction is repeated like every other command.
SendDirectionRepeated(l) == SendWithRedundancy(Kernel, Toggle(l))

SendDirection(l) == SendRaw(Kernel, Toggle(l))

commanded == <<world, output, online, config, monitor>>

SetThrottle(l, s) ==
  /\ Room
  /\ s # decoder[l].throttle
  /\ decoder' = [decoder EXCEPT ![l].throttle = s]
  /\ Becomes(SendWithRedundancy(Kernel, SpeedFrame(l, CommandedSpeed(decoder'[l]))))
  /\ UNCHANGED commanded

SetDirection(l) ==
  /\ Len(loop) < MaxCalls
  /\ decoder' = [decoder EXCEPT ![l].forward = ~@]
  /\ Becomes(SendDirection(l))
  /\ UNCHANGED commanded

\* Function F0 is sent with the speed.
SetFunction(l) ==
  /\ Room
  /\ Becomes(SendWithRedundancy(Kernel, SpeedFrame(l, CommandedSpeed(decoder[l]))))
  /\ UNCHANGED <<decoder, commanded>>

SetFunctions1to4 ==
  /\ Room
  /\ Becomes(SendWithRedundancy(Kernel, Other))
  /\ UNCHANGED <<decoder, commanded>>

EmergencyStop(l) == Repeat(WriteFrameNow(Kernel, Toggle(l)), TRUE, <<Toggle(l)>>)

\* Decoder::emergencyStop, set or cleared: either also takes the throttle to zero.
SetEmergencyStop(l) ==
  /\ Room
  /\ decoder' = [decoder EXCEPT ![l].throttle = 0, ![l].emergencyStop = ~@]
  /\ Becomes(IF decoder'[l].emergencyStop THEN EmergencyStop(l)
             ELSE SendWithRedundancy(Kernel, SpeedFrame(l, 0)))
  /\ UNCHANGED commanded

\* Fault: the coil is switched off before the last repetition of its activation.
AccessorySlotsEarlyOff(a, p) ==
  <<Off(a)>> \o Times(config.redundancy, Switch(a, p))

\* The activation's repetitions, the pulse, and the deactivation with its own.
AccessorySlots(a, p) ==
  Times(config.redundancy, Switch(a, p)) \o Times(PulseSlots - 1, Pause) \o
    <<Off(a)>> \o Times(config.redundancy, Off(a))

SetOutput(a, p) ==
  /\ Room
  /\ output' = [output EXCEPT ![a] = p]
  /\ Becomes(Repeat(SendRaw(Kernel, Switch(a, p)), FALSE, AccessorySlots(a, p)))
  /\ UNCHANGED <<world, decoder, online, config, monitor>>

-----------------------------------------------------------------------------
(* The CTS line and the crash monitor.                                     *)

\* The line matters to the monitor and to a queue that waits for it.
CtsChanges ==
  /\ config.crashDetection \/ config.waitForCts
  /\ cts' = ~cts
  /\ UNCHANGED <<world, loop, decoder, output, online, config, txQueue, txTimerArmed,
                 txOverflowFired, redundancyTimers, ctsLow, crashFired, station, lost>>

\* Fault: a crash once reported is never forgotten.
CtsMonitorOnce ==
  /\ config.crashDetection /\ Len(loop) < MaxCalls
  /\ IF cts
     THEN ctsLow' = -1 /\ UNCHANGED <<crashFired, loop>>
     ELSE /\ ctsLow' = IF ctsLow < CrashSeconds THEN ctsLow + 1 ELSE ctsLow
          /\ crashFired' = (crashFired \/ ctsLow' = CrashSeconds)
          /\ loop' = IF crashFired' /\ ~crashFired /\ ~config.ignoreWarnings
                     THEN Append(loop, "stopWorld") ELSE loop
  /\ UNCHANGED <<world, decoder, output, online, config, txQueue, txTimerArmed,
                 txOverflowFired, redundancyTimers, cts, station, lost>>

\* One sample of the line a second: the first low one starts the clock.
CtsMonitor ==
  /\ config.crashDetection /\ Len(loop) < MaxCalls
  /\ IF cts
     THEN /\ ctsLow' = -1 /\ crashFired' = FALSE
          /\ UNCHANGED loop
     ELSE /\ ctsLow' = IF ctsLow < CrashSeconds THEN ctsLow + 1 ELSE ctsLow
          /\ crashFired' = (crashFired \/ ctsLow' = CrashSeconds)
          /\ loop' = IF crashFired' /\ ~crashFired /\ ~config.ignoreWarnings
                     THEN Append(loop, "stopWorld") ELSE loop
  /\ UNCHANGED <<world, decoder, output, online, config, txQueue, txTimerArmed,
                 txOverflowFired, redundancyTimers, cts, station, lost>>

-----------------------------------------------------------------------------
\* Kernel::stop: the queue and the timers are cleared. The session, and the module, end.
GoOffline ==
  /\ online' = FALSE
  /\ txQueue' = <<>> /\ txTimerArmed' = FALSE /\ redundancyTimers' = <<>>
  /\ UNCHANGED <<world, loop, decoder, output, config, txOverflowFired, monitor, station, lost>>

Init ==
  /\ power \in BOOLEAN /\ run \in BOOLEAN /\ (run => power)
  /\ loop = <<>>
  /\ decoder = [l \in Loco |-> [throttle |-> 0, forward |-> TRUE, emergencyStop |-> FALSE]]
  /\ output = [a \in Accessory |-> "red"]
  /\ online = TRUE
  /\ config \in Config
  /\ txQueue = <<>> /\ txTimerArmed = FALSE /\ txOverflowFired = FALSE
  /\ redundancyTimers = <<>>
  /\ cts = TRUE /\ ctsLow = -1 /\ crashFired = FALSE
  /\ station = [track |-> "unknown",
                speed |-> [l \in Loco |-> 0], forward |-> [l \in Loco |-> TRUE],
                coil |-> [a \in Accessory |-> FALSE], position |-> [a \in Accessory |-> "red"]]
  /\ lost = FALSE

UserStep ==
  \/ \E event \in Button : WorldButton(event)
  \/ \E l \in Loco : \/ \E s \in Speed : SetThrottle(l, s)
                     \/ SetDirection(l) \/ SetFunction(l) \/ SetEmergencyStop(l)
  \/ SetFunctions1to4
  \/ \E a \in Accessory, p \in Position : SetOutput(a, p)
  \/ GoOffline

KernelStep == DrainTx \/ RedundancyTimer \/ Poll \/ CtsMonitor

Next == online /\ (UserStep \/ KernelStep \/ RunCall \/ CtsChanges)

Spec == Init /\ [][Next]_vars

\* Timers that are not cancelled expire, queued calls are run, and the station becomes
\* ready again and again, also when the queue's timer looks (external).
FairSpec ==
  /\ Spec
  /\ WF_vars(online /\ RedundancyTimer)
  /\ WF_vars(online /\ RunCall)
  /\ SF_vars(online /\ DrainTx)
  /\ WF_vars(online /\ CtsChanges /\ ~cts)

-----------------------------------------------------------------------------
(* Properties.                                                             *)

\* Shapes of the variables, and the bound that enqueueTx puts on the queue.
TypeOK ==
  /\ power \in BOOLEAN /\ run \in BOOLEAN /\ online \in BOOLEAN /\ lost \in BOOLEAN
  /\ loop \in Seq(Call)
  /\ decoder \in [Loco -> Decoder]
  /\ output \in [Accessory -> Position]
  /\ config \in Config
  /\ txQueue \in Seq(Frame) /\ Len(txQueue) <= QueueLimit
  /\ txTimerArmed \in BOOLEAN /\ txOverflowFired \in BOOLEAN
  /\ redundancyTimers \in Seq(Repeating)
  /\ cts \in BOOLEAN /\ ctsLow \in -1..CrashSeconds /\ crashFired \in BOOLEAN
  /\ station \in Station

\* Nothing is left to send.
Quiet == online /\ txQueue = <<>> /\ redundancyTimers = <<>>

\* The queue is never left without its timer: enqueueTx starts it and drainTx keeps
\* it going, or frames would wait for ever.
QueueServed == txQueue # <<>> => txTimerArmed

\* The overflow is reported once per time that the queue fills: it has been when the
\* queue is full, and may be again once half of it is empty.
OverflowTold ==
  online => /\ Len(txQueue) >= QueueLimit => txOverflowFired
            /\ 2 * Len(txQueue) < QueueLimit => ~txOverflowFired

\* A crash is reported once for each time that the line is low for long enough.
CrashTold == crashFired <=> ctsLow = CrashSeconds

\* Power and run, which this station does not have apart, end together whatever
\* buttons are pressed, reports come and calls are still queued.
PowerRunCoupled == loop = <<>> /\ station.track # "unknown" => power = run

\* Whatever commands were repeated and overtook each other, the layout is powered
\* when the world is; and, as long as no queue holds back what a stop overtakes,
\* only then.
TrackInSync ==
  Quiet /\ loop = <<>> /\ ~lost /\ station.track # "unknown" =>
    /\ power => station.track = "on"
    /\ ~config.commandQueue /\ ~power => station.track = "off"

\* A loco that has been sent everything runs in its decoder's direction, however many
\* toggles that took, and at no other speed than its decoder's.
LocoInSync ==
  Quiet /\ ~lost =>
    \A l \in Loco :
      /\ station.forward[l] = decoder[l].forward
      /\ ~decoder[l].emergencyStop => station.speed[l] \in {0, decoder[l].throttle}

\* An accessory that has been sent everything is in the position asked for last, with
\* its coil off, also when it was switched again during the pulse or the repetitions.
AccessoryInSync ==
  Quiet /\ ~lost =>
    \A a \in Accessory : ~station.coil[a] /\ station.position[a] = output[a]

\* A world that is powered on, and stays so, powers the layout on, although the go
\* waits behind polls and commands, for CTS and for the world's own coupling.
GoDelivered ==
  power /\ station.track = "off" ~> station.track = "on" \/ ~power \/ lost \/ ~online

\* kernel.cpp:209: "Stop bypasses the command queue so it is never delayed by backlog."
\* With the world powered off and nothing left to send, the layout is powered off.
StopHolds == Quiet /\ loop = <<>> /\ ~power /\ station.track # "unknown" => station.track = "off"

\* kernel.cpp:244: "first stops, second restores direction." A loco in emergency stop
\* stands still once nothing is left to send.
EmergencyStopHolds ==
  Quiet => \A l \in Loco : decoder[l].emergencyStop => station.speed[l] = 0
=============================================================================
