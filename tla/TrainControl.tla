---------------------------- MODULE TrainControl ----------------------------
(***************************************************************************)
(* Who drives a train and how fast it runs: server/src/train/train.cpp,    *)
(* train/trainvehiclelist.cpp, throttle/throttle.cpp and the decoders they *)
(* command. A vehicle may be listed by several trains; a train is driven   *)
(* by at most one throttle; its speed follows the throttle's in steps of a *)
(* 100 ms timer.                                                           *)
(*                                                                         *)
(* Every handler runs to completion on the event loop thread and is one    *)
(* action. The timer expires in one step and its handler runs in a later   *)
(* one, when a user may already have cancelled it, started it again or     *)
(* asked for something else.                                               *)
(***************************************************************************)
EXTENDS Integers, FiniteSets

CONSTANTS
  Train, Vehicle, Throttle,
  Powered,              \* powered vehicles, each with a decoder
  MaxSpeed,             \* Train::speedMax of a powered train, in units of speed
  AccelerationStep,     \* what a turn of the timer adds
  BrakingStep,          \* and takes away
  Notch,                \* Notch[s]: the decoder's throttle at speed s
  MaxDue,               \* bound: expired timers whose handler has not run
  NoTrain, NoThrottle

Speed == 0..MaxSpeed
Direction == {"forward", "reverse"}
SpeedState == {"idle", "accelerate", "braking"}
Decoder == [emergencyStop : BOOLEAN, direction : Direction, throttle : Nat]

ASSUME ControlAssumption ==
  /\ Powered \subseteq Vehicle
  /\ MaxSpeed \in Nat
  /\ AccelerationStep \in Nat \ {0} /\ BrakingStep \in Nat \ {0}
  /\ Notch \in [Speed -> Nat] /\ Notch[0] = 0
  /\ MaxDue \in Nat
  /\ NoTrain \notin Train /\ NoThrottle \notin Throttle

VARIABLES
  vehicles,       \* Train::vehicles
  activeTrain,    \* RailVehicle::activeTrain
  active,         \* Train::active
  driver,         \* Train::m_throttle
  acquired,       \* Throttle::train
  inBlock,        \* Train::blocks is not empty
  direction,      \* Train::direction
  emergencyStop,  \* Train::emergencyStop
  throttleSpeed,  \* Train::throttleSpeed, the speed asked for
  speed,          \* Train::speed
  isStopped,      \* Train::isStopped
  speedState,     \* Train::m_speedState
  armed,          \* Train::m_speedTimer is waiting
  due,            \* expired waits of it whose handler is still queued
  decoder         \* emergencyStop, direction and throttle of each decoder

vars == <<vehicles, activeTrain, active, driver, acquired, inBlock, direction, emergencyStop,
          throttleSpeed, speed, isStopped, speedState, armed, due, decoder>>

\* What the calls of one handler hand on to each other.
Control ==
  [vehicles |-> vehicles, activeTrain |-> activeTrain, active |-> active, driver |-> driver,
   acquired |-> acquired, inBlock |-> inBlock, direction |-> direction,
   emergencyStop |-> emergencyStop, throttleSpeed |-> throttleSpeed, speed |-> speed,
   isStopped |-> isStopped, speedState |-> speedState, armed |-> armed, due |-> due,
   decoder |-> decoder]

Becomes(k) ==
  /\ vehicles' = k.vehicles /\ activeTrain' = k.activeTrain /\ active' = k.active
  /\ driver' = k.driver /\ acquired' = k.acquired /\ inBlock' = k.inBlock
  /\ direction' = k.direction /\ emergencyStop' = k.emergencyStop
  /\ throttleSpeed' = k.throttleSpeed /\ speed' = k.speed /\ isStopped' = k.isStopped
  /\ speedState' = k.speedState /\ armed' = k.armed /\ due' = k.due /\ decoder' = k.decoder

-----------------------------------------------------------------------------
(* Commands to the decoders of a train.                                    *)

\* Train::m_poweredVehicles: also of a train that is not active.
Motors(k, t) == k.vehicles[t] \cap Powered

\* Fault: the throttle is kept.
DecoderStopKeeps(d, value) == [d EXCEPT !.emergencyStop = value]

\* Decoder::emergencyStop: a change of it, either way, sets the throttle to zero.
DecoderStop(d, value) ==
  IF d.emergencyStop = value THEN d ELSE [d EXCEPT !.emergencyStop = value, !.throttle = 0]

StopMotors(k, t, value) ==
  [k EXCEPT !.decoder = [v \in Vehicle |->
     IF v \in Motors(k, t) THEN DecoderStop(k.decoder[v], value) ELSE k.decoder[v]]]

TurnMotors(k, t, dir) ==
  [k EXCEPT !.decoder = [v \in Vehicle |->
     IF v \in Motors(k, t) THEN [k.decoder[v] EXCEPT !.direction = dir] ELSE k.decoder[v]]]

\* Train::setSpeed(kmph).
SetSpeed(k, t, s) ==
  [k EXCEPT !.speed[t] = s,
            !.decoder = [v \in Vehicle |->
     IF v \in Motors(k, t) THEN [k.decoder[v] EXCEPT !.throttle = Notch[s]] ELSE k.decoder[v]]]

-----------------------------------------------------------------------------
(* The speed of a train.                                                   *)

NextSpeed(k, t) ==
  IF k.speedState[t] = "accelerate" THEN k.speed[t] + AccelerationStep
  ELSE k.speed[t] - BrakingStep

TargetReached(k, t) ==
  IF k.speedState[t] = "accelerate" THEN NextSpeed(k, t) >= k.throttleSpeed[t]
  ELSE NextSpeed(k, t) <= k.throttleSpeed[t]

\* Fault: the train takes itself to be faster than it was asked to be.
UpdateSpeedOvershoots(k, t) ==
  IF k.speedState[t] = "idle" \/ (k.speedState[t] = "accelerate" /\ ~k.active[t])
  THEN k
  ELSE IF TargetReached(k, t)
  THEN [SetSpeed(k, t, k.throttleSpeed[t]) EXCEPT !.speed[t] = NextSpeed(k, t),
          !.speedState[t] = "idle", !.isStopped[t] = (k.throttleSpeed[t] = 0)]
  ELSE [SetSpeed(k, t, NextSpeed(k, t)) EXCEPT !.armed[t] = TRUE, !.isStopped[t] = FALSE]

\* updateSpeed: one step towards the target; unless that reaches it the timer is
\* started again, whichever wait is cancelled by that.
UpdateSpeed(k, t) ==
  IF k.speedState[t] = "idle" \/ (k.speedState[t] = "accelerate" /\ ~k.active[t])
  THEN k
  ELSE IF TargetReached(k, t)
  THEN [SetSpeed(k, t, k.throttleSpeed[t]) EXCEPT
          !.speedState[t] = "idle", !.isStopped[t] = (k.throttleSpeed[t] = 0)]
  ELSE [SetSpeed(k, t, NextSpeed(k, t)) EXCEPT !.armed[t] = TRUE, !.isStopped[t] = FALSE]

\* Fault: the timer that updateSpeed has started is cancelled.
SetThrottleSpeedCancelled(k, t, s) ==
  LET wanted == IF s > k.speed[t] THEN "accelerate" ELSE "braking"
      asked == [k EXCEPT !.throttleSpeed[t] = s, !.emergencyStop[t] = FALSE]
  IN  IF s = k.throttleSpeed[t] THEN k
      ELSE IF s = k.speed[t] \/ k.speedState[t] = wanted THEN asked
      ELSE [UpdateSpeed([asked EXCEPT !.speedState[t] = wanted], t) EXCEPT !.armed[t] = FALSE]

\* Train::throttleSpeed: emergency stop is reset without a word to the decoders.
SetThrottleSpeed(k, t, s) ==
  LET wanted == IF s > k.speed[t] THEN "accelerate" ELSE "braking"
      asked == [k EXCEPT !.throttleSpeed[t] = s, !.emergencyStop[t] = FALSE]
  IN  IF s = k.throttleSpeed[t] THEN k
      ELSE IF s = k.speed[t] \/ k.speedState[t] = wanted THEN asked
      ELSE UpdateSpeed([asked EXCEPT !.speedState[t] = wanted, !.armed[t] = FALSE], t)

\* Fault: the speed state survives, so that a handler which is due goes on.
SetEmergencyStopGoesOn(k, t, value) ==
  LET told == [k EXCEPT !.emergencyStop[t] = value]
      stopped == IF value
                 THEN [told EXCEPT !.armed[t] = FALSE,
                                   !.throttleSpeed[t] = 0, !.speed[t] = 0, !.isStopped[t] = TRUE]
                 ELSE told
  IN  IF k.emergencyStop[t] = value THEN k
      ELSE IF k.active[t] THEN StopMotors(stopped, t, value) ELSE stopped

\* Train::emergencyStop.
SetEmergencyStop(k, t, value) ==
  LET told == [k EXCEPT !.emergencyStop[t] = value]
      stopped == IF value
                 THEN [told EXCEPT !.speedState[t] = "idle", !.armed[t] = FALSE,
                                   !.throttleSpeed[t] = 0, !.speed[t] = 0, !.isStopped[t] = TRUE]
                 ELSE told
  IN  IF k.emergencyStop[t] = value THEN k
      ELSE IF k.active[t] THEN StopMotors(stopped, t, value) ELSE stopped

\* Fault: only updateSpeed tells whether the train is stopped.
SetSpeedNowUntold(k, t, s) ==
  [SetThrottleSpeed(SetSpeed(k, t, s), t, s) EXCEPT !.armed[t] = FALSE, !.speedState[t] = "idle"]

\* Train::setSpeed(throttle, value): at once, whatever the timer was doing.
SetSpeedNow(k, t, s) ==
  [SetThrottleSpeed(SetSpeed(k, t, s), t, s) EXCEPT
     !.armed[t] = FALSE, !.speedState[t] = "idle", !.isStopped[t] = (s = 0)]

-----------------------------------------------------------------------------
(* Activation, and taking and leaving a train.                             *)

\* setTrainActive(true): every vehicle is free and no decoder runs.
Activatable(k, t) ==
  /\ k.vehicles[t] # {}
  /\ \A v \in k.vehicles[t] : k.activeTrain[v] = NoTrain
  /\ \A v \in Motors(k, t) : k.decoder[v].throttle = 0

\* Train::active = true.
Activate(k, t) ==
  IF k.active[t] \/ ~Activatable(k, t) THEN k
  ELSE LET taken == [k EXCEPT !.active[t] = TRUE,
                              !.activeTrain = [v \in Vehicle |->
                                 IF v \in k.vehicles[t] THEN t ELSE k.activeTrain[v]]]
       IN  UpdateSpeed(StopMotors(taken, t, k.emergencyStop[t]), t)

\* Train::active = false of a stopped train, without its throttle.
Deactivated(k, t) ==
  UpdateSpeed([k EXCEPT !.active[t] = FALSE,
                        !.activeTrain = [v \in Vehicle |->
                           IF v \in k.vehicles[t] THEN NoTrain ELSE k.activeTrain[v]]], t)

\* Throttle::release and Train::release; a stopped train in no block is deactivated.
Release(k, th, stopIt) ==
  LET t == k.acquired[th]
      stopped == IF stopIt THEN SetEmergencyStop(k, t, TRUE) ELSE k
      free == [stopped EXCEPT !.driver[t] = NoThrottle, !.acquired[th] = NoTrain]
  IN  IF free.active[t] /\ free.isStopped[t] /\ ~free.inBlock[t] THEN Deactivated(free, t) ELSE free

\* Fault: the throttle is left with a train that is not active.
DeactivateOnly(k, t) ==
  IF ~k.active[t] \/ ~k.isStopped[t] THEN k ELSE Deactivated(k, t)

\* Train::active = false: refused while the train moves; its throttle has to let go.
Deactivate(k, t) ==
  IF ~k.active[t] \/ ~k.isStopped[t] THEN k
  ELSE IF k.driver[t] = NoThrottle THEN Deactivated(k, t)
  ELSE Release(Deactivated(k, t), k.driver[t], TRUE)

-----------------------------------------------------------------------------
(* What the throttles do.                                                  *)

\* Throttle::acquire with Train::acquire. A steal stops the train first, and costs
\* its driver the train also when the train can then not be activated again. The
\* throttle's own train is released last.
Acquire(th, t, steal) ==
  /\ driver[t] = NoThrottle \/ steal
  /\ LET left == IF driver[t] = NoThrottle THEN Control ELSE Release(Control, driver[t], TRUE)
         ready == Activate(left, t)
         taken == [ready EXCEPT !.driver[t] = th]
         alone == IF taken.acquired[th] = NoTrain THEN taken ELSE Release(taken, th, TRUE)
     IN  Becomes(IF ready.active[t] THEN [alone EXCEPT !.acquired[th] = t] ELSE ready)

\* release, or the end of the throttle's connection.
ReleaseThrottle(th, stopIt) ==
  /\ acquired[th] # NoTrain
  /\ Becomes(Release(Control, th, stopIt))

\* std::clamp to the maximum of the property, which is 0 for a train without motor.
Allowed(t) == IF Motors(Control, t) = {} THEN {0} ELSE Speed

\* setTargetSpeed, slower and faster; the web throttle's stop leaves emergency stop alone.
SetTargetSpeed(th, s) ==
  LET t == acquired[th] IN
  /\ t # NoTrain
  /\ s \in Allowed(t)
  /\ \/ Becomes(SetThrottleSpeed(SetEmergencyStop(Control, t, FALSE), t, s))
     \/ s = 0 /\ Becomes(SetThrottleSpeed(Control, t, 0))

\* The same with "immediate".
SetSpeedAtOnce(th, s) ==
  LET t == acquired[th] IN
  /\ t # NoTrain
  /\ s \in Allowed(t)
  /\ \/ Becomes(SetSpeedNow(SetEmergencyStop(Control, t, FALSE), t, s))
     \/ s = 0 /\ Becomes(SetSpeedNow(Control, t, 0))

\* Fault: a moving train turns.
SetDirectionAnyway(th, dir) ==
  LET t == acquired[th] IN
  /\ t # NoTrain
  /\ direction[t] # dir
  /\ Becomes([TurnMotors(Control, t, dir) EXCEPT !.direction[t] = dir])

\* Throttle::setDirection with Train::setDirection (the train's blocks turn in
\* Interlocking!SetDirection).
SetDirection(th, dir) ==
  LET t == acquired[th] IN
  /\ t # NoTrain
  /\ direction[t] # dir
  /\ isStopped[t]
  /\ Becomes([TurnMotors(Control, t, dir) EXCEPT !.direction[t] = dir])

-----------------------------------------------------------------------------
(* What else happens to a train.                                           *)

\* The user's active switch, and what a hardware throttle does before it acquires.
SetActive(t, value) ==
  /\ active[t] # value
  /\ Becomes(IF value THEN Activate(Control, t) ELSE Deactivate(Control, t))

\* Anyone may press emergency stop or reset it, a script also of an inactive train.
EmergencyStop(t, value) ==
  /\ emergencyStop[t] # value
  /\ Becomes(SetEmergencyStop(Control, t, value))

\* Train::stop.
Stop(t) ==
  /\ throttleSpeed[t] # 0
  /\ Becomes(SetThrottleSpeed(Control, t, 0))

\* Fault: the vehicle is not asked whether it is in another active train.
AddVehicleAnyway(t, v) ==
  /\ isStopped[t]
  /\ v \notin vehicles[t]
  /\ Becomes([Control EXCEPT !.vehicles[t] = @ \cup {v},
                             !.activeTrain[v] = IF active[t] THEN t ELSE @])

\* TrainVehicleList::add, enabled for a stopped train. Neither emergency stop nor
\* direction is told to a decoder that joins an active train.
AddVehicle(t, v) ==
  /\ isStopped[t]
  /\ ~(active[t] /\ activeTrain[v] # NoTrain)
  /\ v \notin vehicles[t]
  /\ Becomes([Control EXCEPT !.vehicles[t] = @ \cup {v},
                             !.activeTrain[v] = IF active[t] THEN t ELSE @])

\* TrainVehicleList::remove, enabled for a stopped train.
RemoveVehicle(t, v) ==
  /\ isStopped[t]
  /\ v \in vehicles[t]
  /\ Becomes([Control EXCEPT !.vehicles[t] = @ \ {v},
                             !.activeTrain[v] = IF @ = t THEN NoTrain ELSE @])

\* BlockRailTile::assignTrain activates the train or gives up.
AssignTrain(t) ==
  /\ ~inBlock[t]
  /\ LET k == Activate(Control, t)
     IN  Becomes(IF k.active[t] THEN [k EXCEPT !.inBlock[t] = TRUE] ELSE k)

\* removeTrain from the only block of a stopped train deactivates it.
RemoveTrain(t) ==
  /\ inBlock[t] /\ isStopped[t]
  /\ Becomes(Deactivate([Control EXCEPT !.inBlock[t] = FALSE], t))

TimerExpires(t) ==
  /\ armed[t] /\ due[t] < MaxDue
  /\ Becomes([Control EXCEPT !.armed[t] = FALSE, !.due[t] = @ + 1])

TimerHandler(t) ==
  /\ due[t] > 0
  /\ Becomes(UpdateSpeed([Control EXCEPT !.due[t] = @ - 1], t))

NewDecoder == [emergencyStop |-> FALSE, direction |-> "forward", throttle |-> 0]

\* The server ends and loads the world it saved. The properties with StoreState are
\* restored as they were; loaded() tells the decoders of an active train its
\* direction, and nothing else.
Restart ==
  LET k == [Control EXCEPT
              !.driver = [t \in Train |-> NoThrottle],
              !.acquired = [th \in Throttle |-> NoTrain],
              !.speed = [t \in Train |-> 0],
              !.isStopped = [t \in Train |-> TRUE],
              !.speedState = [t \in Train |-> "idle"],
              !.armed = [t \in Train |-> FALSE],
              !.due = [t \in Train |-> 0]]
  IN  Becomes([k EXCEPT !.decoder = [v \in Vehicle |->
        IF v \in Powered /\ activeTrain[v] # NoTrain
        THEN [NewDecoder EXCEPT !.direction = direction[activeTrain[v]]]
        ELSE NewDecoder]])

-----------------------------------------------------------------------------
Init ==
  /\ vehicles = [t \in Train |-> {}]
  /\ activeTrain = [v \in Vehicle |-> NoTrain]
  /\ active = [t \in Train |-> FALSE]
  /\ driver = [t \in Train |-> NoThrottle]
  /\ acquired = [th \in Throttle |-> NoTrain]
  /\ inBlock = [t \in Train |-> FALSE]
  /\ direction = [t \in Train |-> "forward"]
  /\ emergencyStop = [t \in Train |-> TRUE]
  /\ throttleSpeed = [t \in Train |-> 0]
  /\ speed = [t \in Train |-> 0]
  /\ isStopped = [t \in Train |-> TRUE]
  /\ speedState = [t \in Train |-> "idle"]
  /\ armed = [t \in Train |-> FALSE]
  /\ due = [t \in Train |-> 0]
  /\ decoder = [v \in Vehicle |-> NewDecoder]

ThrottleStep ==
  \E th \in Throttle :
    \/ \E t \in Train, steal \in BOOLEAN : Acquire(th, t, steal)
    \/ \E stopIt \in BOOLEAN : ReleaseThrottle(th, stopIt)
    \/ \E s \in Speed : SetTargetSpeed(th, s) \/ SetSpeedAtOnce(th, s)
    \/ \E dir \in Direction : SetDirection(th, dir)

TrainStep ==
  \E t \in Train :
    \/ \E value \in BOOLEAN : SetActive(t, value) \/ EmergencyStop(t, value)
    \/ Stop(t) \/ AssignTrain(t) \/ RemoveTrain(t)
    \/ \E v \in Vehicle : AddVehicle(t, v) \/ RemoveVehicle(t, v)

TimerStep == \E t \in Train : TimerExpires(t) \/ TimerHandler(t)

Next == ThrottleStep \/ TrainStep \/ TimerStep \/ Restart

Spec == Init /\ [][Next]_vars

-----------------------------------------------------------------------------
(* Properties.                                                             *)

\* Every variable keeps the shape the class members it stands for have.
TypeOK ==
  /\ vehicles \in [Train -> SUBSET Vehicle]
  /\ activeTrain \in [Vehicle -> Train \cup {NoTrain}]
  /\ active \in [Train -> BOOLEAN]
  /\ driver \in [Train -> Throttle \cup {NoThrottle}]
  /\ acquired \in [Throttle -> Train \cup {NoTrain}]
  /\ inBlock \in [Train -> BOOLEAN]
  /\ direction \in [Train -> Direction]
  /\ emergencyStop \in [Train -> BOOLEAN]
  /\ throttleSpeed \in [Train -> Speed]
  /\ speed \in [Train -> Speed]
  /\ isStopped \in [Train -> BOOLEAN]
  /\ speedState \in [Train -> SpeedState]
  /\ armed \in [Train -> BOOLEAN]
  /\ due \in [Train -> 0..MaxDue]
  /\ decoder \in [Vehicle -> Decoder]

\* A vehicle is in the train that it says is active, and in no other active one,
\* although trains share vehicles and are composed, activated, stolen, removed from
\* their block and restarted in any order.
OneActiveTrain ==
  \A t \in Train, v \in Vehicle : activeTrain[v] = t <=> active[t] /\ v \in vehicles[t]

\* A train and its throttle agree on each other, and a train that is driven is
\* active, which Train::setSpeed and setTargetSpeed assert: through steals that fail
\* half-way, throttles that change trains, and deactivation by the other side.
OneThrottle ==
  /\ \A t \in Train, th \in Throttle : driver[t] = th <=> acquired[th] = t
  /\ \A t \in Train : driver[t] # NoThrottle => active[t]

\* The manual on is_stopped: "`true` if the train's velocity is zero, `false` if the
\* train's velocity is greater than zero." Four pieces of code set it, and direction,
\* deactivation and the vehicle list rely on it.
StoppedIsTold == \A t \in Train : isStopped[t] <=> speed[t] = 0

\* A train in emergency stop stands and stays there: nothing that was asked for or is
\* still due makes it move before a throttle asks again.
EmergencyStopHeld ==
  \A t \in Train : emergencyStop[t] =>
    speed[t] = 0 /\ throttleSpeed[t] = 0 /\ speedState[t] = "idle"

\* A decoder that is not in emergency stop runs at the speed of the train that has
\* its vehicle active, and not at all when there is none.
RunsWithTrain ==
  \A v \in Powered : ~decoder[v].emergencyStop =>
    decoder[v].throttle = IF activeTrain[v] = NoTrain THEN 0 ELSE Notch[speed[activeTrain[v]]]

\* A train that is on its way to another speed has a timer or a handler that goes on
\* with it, whoever cancelled which timer.
SpeedPursued ==
  \A t \in Train : speedState[t] # "idle" => active[t] /\ (armed[t] \/ due[t] > 0)

\* No decoder that runs is turned round.
RunningNotReversed ==
  [][\A v \in Powered :
       decoder[v].throttle # 0 /\ ~decoder[v].emergencyStop
         => decoder'[v].direction = decoder[v].direction \/ decoder'[v].throttle = 0]_vars
=============================================================================
