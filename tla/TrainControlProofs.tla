------------------------ MODULE TrainControlProofs ------------------------
(***************************************************************************)
(* Who drives a train and how fast it runs, for every number of trains,    *)
(* vehicles and throttles, every speed curve and every number of handlers  *)
(* that are due.                                                           *)
(*                                                                         *)
(* A handler is a composition of operators on Control. Core says what they *)
(* all preserve, Frame what most of them leave alone; each operator has a  *)
(* lemma, and the lemma of a handler cites those of the operators that it  *)
(* calls.                                                                  *)
(***************************************************************************)
EXTENDS TrainControl, TLAPS

ControlState ==
  [vehicles : [Train -> SUBSET Vehicle], activeTrain : [Vehicle -> Train \cup {NoTrain}],
   active : [Train -> BOOLEAN], driver : [Train -> Throttle \cup {NoThrottle}],
   acquired : [Throttle -> Train \cup {NoTrain}], inBlock : [Train -> BOOLEAN],
   direction : [Train -> Direction], emergencyStop : [Train -> BOOLEAN],
   throttleSpeed : [Train -> Speed], speed : [Train -> Speed],
   isStopped : [Train -> BOOLEAN], speedState : [Train -> SpeedState],
   armed : [Train -> BOOLEAN], due : [Train -> 0..MaxDue], decoder : [Vehicle -> Decoder]]

\* Vehicles and trains agree on which train is active.
Listed(k) ==
  \A t \in Train, v \in Vehicle : k.activeTrain[v] = t <=> k.active[t] /\ v \in k.vehicles[t]

\* A decoder runs with its active train.
Runs(k) ==
  \A v \in Powered : ~k.decoder[v].emergencyStop =>
    k.decoder[v].throttle =
      IF k.activeTrain[v] = NoTrain THEN 0 ELSE Notch[k.speed[k.activeTrain[v]]]

\* So do the decoders outside train t.
RunsElsewhere(k, t) ==
  \A v \in Powered : ~k.decoder[v].emergencyStop /\ k.activeTrain[v] # t =>
    k.decoder[v].throttle =
      IF k.activeTrain[v] = NoTrain THEN 0 ELSE Notch[k.speed[k.activeTrain[v]]]

\* What holds of a train within updateSpeed too.
Standing(k, t) ==
  /\ k.isStopped[t] <=> k.speed[t] = 0
  /\ k.emergencyStop[t] =>
       k.speed[t] = 0 /\ k.throttleSpeed[t] = 0 /\ k.speedState[t] = "idle"
  /\ ~k.active[t] => k.speed[t] = 0
  /\ k.speedState[t] # "idle" => k.active[t]

\* A train on its way to another speed has someone who goes on with it.
Pursued(k, t) ==
  k.speedState[t] # "idle" => k.speed[t] # 0 /\ (k.armed[t] \/ k.due[t] > 0)

Shape(k) == k \in ControlState /\ Listed(k) /\ Runs(k) /\ \A t \in Train : Standing(k, t)

Core(k) == Shape(k) /\ \A t \in Train : Pursued(k, t)

\* Everything but speed and decoders.
SameTrains(k, r) ==
  /\ r.vehicles = k.vehicles /\ r.activeTrain = k.activeTrain /\ r.active = k.active
  /\ r.driver = k.driver /\ r.acquired = k.acquired
  /\ r.inBlock = k.inBlock /\ r.direction = k.direction

SameOrders(k, r) ==
  /\ r.emergencyStop = k.emergencyStop /\ r.throttleSpeed = k.throttleSpeed
  /\ r.isStopped = k.isStopped /\ r.speedState = k.speedState
  /\ r.armed = k.armed /\ r.due = k.due

\* The driver's side, and the directions of the decoders.
Frame(k, r) ==
  /\ r.driver = k.driver /\ r.acquired = k.acquired
  /\ \A v \in Vehicle : r.decoder[v].direction = k.decoder[v].direction

-----------------------------------------------------------------------------
(* Decoders.                                                               *)

LEMMA DecoderStopType ==
  ASSUME NEW d \in Decoder, NEW value \in BOOLEAN
  PROVE  /\ DecoderStop(d, value) \in Decoder
         /\ DecoderStop(d, value).emergencyStop = value
         /\ DecoderStop(d, value).direction = d.direction
         /\ DecoderStop(d, value).throttle = IF d.emergencyStop = value THEN d.throttle ELSE 0
BY DEF DecoderStop, Decoder

\* StopMotors changes nothing but decoders of the train.
LEMMA StopMotorsIs ==
  ASSUME NEW k \in ControlState, NEW t \in Train, NEW value \in BOOLEAN,
         NEW r, r = StopMotors(k, t, value)
  PROVE  /\ r \in ControlState
         /\ SameTrains(k, r) /\ SameOrders(k, r) /\ r.speed = k.speed
         /\ \A v \in Vehicle : r.decoder[v] = IF v \in k.vehicles[t] \cap Powered
                                              THEN DecoderStop(k.decoder[v], value)
                                              ELSE k.decoder[v]
         /\ Frame(k, r)
<1>1. r.decoder = [v \in Vehicle |-> IF v \in k.vehicles[t] \cap Powered
                                     THEN DecoderStop(k.decoder[v], value)
                                     ELSE k.decoder[v]]
  BY DEF StopMotors, Motors, ControlState
<1>2. r = [k EXCEPT !.decoder = r.decoder]
  BY <1>1 DEF StopMotors, Motors
<1>3. k.decoder \in [Vehicle -> Decoder]
  BY DEF ControlState
<1>4. r.decoder \in [Vehicle -> Decoder]
  BY <1>1, <1>3, DecoderStopType
<1>5. r \in ControlState
  BY <1>2, <1>4 DEF ControlState
<1>6. Frame(k, r)
  <2>1. r.driver = k.driver /\ r.acquired = k.acquired
    BY <1>2 DEF ControlState
  <2>2. \A v \in Vehicle : r.decoder[v].direction = k.decoder[v].direction
    BY <1>1, <1>3, DecoderStopType
  <2>3. QED
    BY <2>1, <2>2 DEF Frame
<1>7. SameTrains(k, r) /\ SameOrders(k, r) /\ r.speed = k.speed
  BY <1>2 DEF SameTrains, SameOrders, ControlState
<1>8. QED
  BY <1>1, <1>5, <1>6, <1>7

\* So does setSpeed, but for the speed.
LEMMA SetSpeedIs ==
  ASSUME NEW k \in ControlState, NEW t \in Train, NEW s \in Speed,
         NEW r, r = SetSpeed(k, t, s)
  PROVE  /\ r \in ControlState
         /\ SameTrains(k, r) /\ SameOrders(k, r)
         /\ r.speed = [k.speed EXCEPT ![t] = s]
         /\ \A v \in Vehicle : r.decoder[v] = IF v \in k.vehicles[t] \cap Powered
                                              THEN [k.decoder[v] EXCEPT !.throttle = Notch[s]]
                                              ELSE k.decoder[v]
         /\ Frame(k, r)
<1>1. r.decoder = [v \in Vehicle |-> IF v \in k.vehicles[t] \cap Powered
                                     THEN [k.decoder[v] EXCEPT !.throttle = Notch[s]]
                                     ELSE k.decoder[v]]
  BY DEF SetSpeed, Motors, ControlState
<1>2. r.speed = [k.speed EXCEPT ![t] = s]
  BY DEF SetSpeed, ControlState
<1>3. r = [k EXCEPT !.speed = r.speed, !.decoder = r.decoder]
  BY <1>1, <1>2 DEF SetSpeed, Motors
<1>4. k.decoder \in [Vehicle -> Decoder] /\ Notch[s] \in Nat
  BY ControlAssumption DEF ControlState
<1>5. \A d \in Decoder : /\ [d EXCEPT !.throttle = Notch[s]] \in Decoder
                         /\ [d EXCEPT !.throttle = Notch[s]].direction = d.direction
  BY <1>4 DEF Decoder
<1>6. r.decoder \in [Vehicle -> Decoder]
  BY <1>1, <1>4, <1>5
<1>7. r \in ControlState
  <2>1. r.speed \in [Train -> Speed]
    BY <1>2 DEF ControlState
  <2>2. QED
    BY <1>3, <1>6, <2>1 DEF ControlState
<1>8. Frame(k, r)
  <2>1. r.driver = k.driver /\ r.acquired = k.acquired
    BY <1>3 DEF ControlState
  <2>2. \A v \in Vehicle : r.decoder[v].direction = k.decoder[v].direction
    BY <1>1, <1>4, <1>5
  <2>3. QED
    BY <2>1, <2>2 DEF Frame
<1>9. SameTrains(k, r) /\ SameOrders(k, r)
  BY <1>3 DEF SameTrains, SameOrders, ControlState
<1>10. QED
  BY <1>1, <1>2, <1>7, <1>8, <1>9

LEMMA SetSpeedRuns ==
  ASSUME NEW k \in ControlState, Listed(k), Runs(k), NEW t \in Train, k.active[t],
         NEW s \in Speed, NEW r, r = SetSpeed(k, t, s)
  PROVE  Listed(r) /\ Runs(r)
<1>1. /\ SameTrains(k, r)
      /\ r.speed = [k.speed EXCEPT ![t] = s]
      /\ \A v \in Vehicle : r.decoder[v] = IF v \in k.vehicles[t] \cap Powered
                                           THEN [k.decoder[v] EXCEPT !.throttle = Notch[s]]
                                           ELSE k.decoder[v]
  BY SetSpeedIs
<1>2. r.vehicles = k.vehicles /\ r.activeTrain = k.activeTrain /\ r.active = k.active
  BY <1>1 DEF SameTrains
<1>3. Listed(r)
  BY <1>2 DEF Listed
<1>4. ASSUME NEW v \in Powered, ~r.decoder[v].emergencyStop
      PROVE  r.decoder[v].throttle =
               IF r.activeTrain[v] = NoTrain THEN 0 ELSE Notch[r.speed[r.activeTrain[v]]]
  <2>1. v \in Vehicle /\ k.decoder[v] \in Decoder /\ t # NoTrain
    BY ControlAssumption DEF ControlState
  <2>2. k.speed \in [Train -> Speed] /\ k.activeTrain[v] \in Train \cup {NoTrain}
    BY <2>1 DEF ControlState
  <2>3. CASE v \in k.vehicles[t]
    <3>1. r.decoder[v].throttle = Notch[s]
      <4>1. r.decoder[v] = [k.decoder[v] EXCEPT !.throttle = Notch[s]]
        BY <1>1, <2>1, <2>3
      <4>2. QED
        BY <2>1, <4>1 DEF Decoder
    <3>2. k.activeTrain[v] = t
      BY <2>1, <2>3 DEF Listed
    <3>3. QED
      BY <1>1, <1>2, <2>1, <2>2, <3>1, <3>2
  <2>4. CASE v \notin k.vehicles[t]
    <3>1. r.decoder[v] = k.decoder[v] /\ k.activeTrain[v] # t
      BY <1>1, <2>1, <2>4 DEF Listed
    <3>2. k.activeTrain[v] \in Train => r.speed[k.activeTrain[v]] = k.speed[k.activeTrain[v]]
      BY <1>1, <2>2, <3>1
    <3>3. QED
      BY <1>2, <1>4, <2>2, <3>1, <3>2 DEF Runs
  <2>5. QED
    BY <2>3, <2>4
<1>5. QED
  BY <1>3, <1>4 DEF Runs

\* To stop the motors of a train that stands, or has just been stopped.
LEMMA StopMotorsRuns ==
  ASSUME NEW k \in ControlState, Listed(k), NEW t \in Train, k.active[t],
         k.speed[t] = 0, NEW value \in BOOLEAN, RunsElsewhere(k, t), ~value => Runs(k),
         NEW r, r = StopMotors(k, t, value)
  PROVE  Listed(r) /\ Runs(r)
<1>1. /\ SameTrains(k, r) /\ r.speed = k.speed
      /\ \A v \in Vehicle : r.decoder[v] = IF v \in k.vehicles[t] \cap Powered
                                           THEN DecoderStop(k.decoder[v], value)
                                           ELSE k.decoder[v]
  BY StopMotorsIs
<1>2. /\ r.vehicles = k.vehicles /\ r.activeTrain = k.activeTrain /\ r.active = k.active
      /\ r.speed = k.speed
  BY <1>1 DEF SameTrains
<1>3. Listed(r)
  BY <1>2 DEF Listed
<1>4. ASSUME NEW v \in Powered, ~r.decoder[v].emergencyStop
      PROVE  r.decoder[v].throttle =
               IF r.activeTrain[v] = NoTrain THEN 0 ELSE Notch[r.speed[r.activeTrain[v]]]
  <2>1. v \in Vehicle /\ k.decoder[v] \in Decoder /\ t # NoTrain
    BY ControlAssumption DEF ControlState
  <2>2. CASE v \notin k.vehicles[t]
    <3>1. r.decoder[v] = k.decoder[v] /\ k.activeTrain[v] # t
      BY <1>1, <2>1, <2>2 DEF Listed
    <3>2. QED
      BY <1>2, <1>4, <3>1 DEF RunsElsewhere
  <2>3. CASE v \in k.vehicles[t]
    <3>1. r.decoder[v] = DecoderStop(k.decoder[v], value) /\ k.activeTrain[v] = t
      BY <1>1, <2>1, <2>3 DEF Listed
    <3>2. ~value
      BY <1>4, <2>1, <3>1, DecoderStopType
    <3>3. CASE k.decoder[v].emergencyStop
      <4>1. r.decoder[v].throttle = 0
        BY <2>1, <3>1, <3>2, <3>3, DecoderStopType
      <4>2. QED
        BY <1>2, <2>1, <3>1, <4>1, ControlAssumption
    <3>4. CASE ~k.decoder[v].emergencyStop
      <4>1. r.decoder[v].throttle = k.decoder[v].throttle
        BY <2>1, <3>1, <3>2, <3>4, DecoderStopType DEF Decoder
      <4>2. QED
        BY <1>2, <3>2, <3>4, <4>1 DEF Runs
    <3>5. QED
      BY <3>3, <3>4
  <2>4. QED
    BY <2>2, <2>3
<1>5. QED
  BY <1>3, <1>4 DEF Runs

-----------------------------------------------------------------------------
(* Speed.                                                                  *)

\* A turn of updateSpeed, wherever the timer was.
LEMMA UpdateSpeedCore ==
  ASSUME NEW k, Shape(k), NEW t \in Train, \A u \in Train \ {t} : Pursued(k, u),
         NEW r, r = UpdateSpeed(k, t)
  PROVE  Core(r) /\ Frame(k, r) /\ SameTrains(k, r)
<1>1. /\ k \in ControlState /\ Listed(k) /\ Runs(k)
      /\ k.speed[t] \in Speed /\ k.throttleSpeed[t] \in Speed
      /\ k.speedState[t] \in SpeedState
  BY DEF Shape, ControlState
<1>2. CASE k.speedState[t] = "idle"
  BY <1>1, <1>2 DEF UpdateSpeed, Core, Pursued, Frame, SameTrains
<1>3. CASE k.speedState[t] # "idle" /\ TargetReached(k, t)
  <2>. DEFINE m == SetSpeed(k, t, k.throttleSpeed[t])
  <2>1. k.active[t]
    BY <1>3 DEF Shape, Standing
  <2>2. /\ m \in ControlState /\ SameTrains(k, m) /\ SameOrders(k, m) /\ Frame(k, m)
        /\ m.speed = [k.speed EXCEPT ![t] = k.throttleSpeed[t]]
    BY <1>1, SetSpeedIs
  <2>3. Listed(m) /\ Runs(m)
    BY <1>1, <2>1, SetSpeedRuns
  <2>4. r = [m EXCEPT !.speedState[t] = "idle", !.isStopped[t] = (k.throttleSpeed[t] = 0)]
    BY <1>3, <2>1 DEF UpdateSpeed
  <2>. HIDE DEF m
  <2>5. /\ SameTrains(m, r) /\ r.decoder = m.decoder /\ r.speed = m.speed
        /\ r.emergencyStop = m.emergencyStop /\ r.throttleSpeed = m.throttleSpeed
        /\ r.armed = m.armed /\ r.due = m.due
        /\ r.speedState = [m.speedState EXCEPT ![t] = "idle"]
        /\ r.isStopped = [m.isStopped EXCEPT ![t] = (k.throttleSpeed[t] = 0)]
    BY <2>2, <2>4 DEF ControlState, SameTrains
  <2>6. r \in ControlState
    <3>1. [m.speedState EXCEPT ![t] = "idle"] \in [Train -> SpeedState]
      BY <2>2 DEF ControlState, SpeedState
    <3>2. [m.isStopped EXCEPT ![t] = (k.throttleSpeed[t] = 0)] \in [Train -> BOOLEAN]
      BY <2>2 DEF ControlState
    <3>3. QED
      BY <2>2, <2>4, <3>1, <3>2 DEF ControlState
  <2>7. Listed(r) /\ Runs(r) /\ Frame(k, r) /\ SameTrains(k, r)
    BY <2>2, <2>3, <2>5 DEF Listed, Runs, Frame, SameTrains
  <2>8. ASSUME NEW u \in Train
        PROVE  Standing(r, u) /\ Pursued(r, u)
    BY <1>1, <2>1, <2>2, <2>5 DEF Standing, Pursued, SameTrains, SameOrders, Shape, ControlState
  <2>9. QED
    BY <2>6, <2>7, <2>8 DEF Core, Shape
<1>4. CASE k.speedState[t] # "idle" /\ ~TargetReached(k, t)
  <2>. DEFINE m == SetSpeed(k, t, NextSpeed(k, t))
  <2>1. k.active[t] /\ ~k.emergencyStop[t]
    BY <1>4 DEF Shape, Standing
  <2>2. NextSpeed(k, t) \in Speed /\ NextSpeed(k, t) > 0
    <3>1. /\ MaxSpeed \in Nat /\ AccelerationStep \in Nat \ {0} /\ BrakingStep \in Nat \ {0}
          /\ k.speed[t] \in 0..MaxSpeed /\ k.throttleSpeed[t] \in 0..MaxSpeed
      BY <1>1, ControlAssumption DEF Speed
    <3>2. CASE k.speedState[t] = "accelerate"
      <4>1. NextSpeed(k, t) = k.speed[t] + AccelerationStep /\ ~(NextSpeed(k, t) >= k.throttleSpeed[t])
        BY <1>4, <3>2 DEF NextSpeed, TargetReached
      <4>2. QED
        BY <3>1, <4>1 DEF Speed
    <3>3. CASE k.speedState[t] # "accelerate"
      <4>1. NextSpeed(k, t) = k.speed[t] - BrakingStep /\ ~(NextSpeed(k, t) <= k.throttleSpeed[t])
        BY <1>4, <3>3 DEF NextSpeed, TargetReached
      <4>2. QED
        BY <3>1, <4>1 DEF Speed
    <3>4. QED
      BY <3>2, <3>3
  <2>3. /\ m \in ControlState /\ SameTrains(k, m) /\ SameOrders(k, m) /\ Frame(k, m)
        /\ m.speed = [k.speed EXCEPT ![t] = NextSpeed(k, t)]
    BY <1>1, <2>2, SetSpeedIs
  <2>4. Listed(m) /\ Runs(m)
    BY <1>1, <2>1, <2>2, SetSpeedRuns
  <2>5. r = [m EXCEPT !.armed[t] = TRUE, !.isStopped[t] = FALSE]
    BY <1>4, <2>1 DEF UpdateSpeed
  <2>. HIDE DEF m
  <2>6. /\ SameTrains(m, r) /\ r.decoder = m.decoder /\ r.speed = m.speed
        /\ r.emergencyStop = m.emergencyStop /\ r.throttleSpeed = m.throttleSpeed
        /\ r.speedState = m.speedState /\ r.due = m.due
        /\ r.armed = [m.armed EXCEPT ![t] = TRUE]
        /\ r.isStopped = [m.isStopped EXCEPT ![t] = FALSE]
    BY <2>3, <2>5 DEF ControlState, SameTrains
  <2>7. r \in ControlState
    <3>1. [m.armed EXCEPT ![t] = TRUE] \in [Train -> BOOLEAN]
      BY <2>3 DEF ControlState
    <3>2. [m.isStopped EXCEPT ![t] = FALSE] \in [Train -> BOOLEAN]
      BY <2>3 DEF ControlState
    <3>3. QED
      BY <2>3, <2>5, <3>1, <3>2 DEF ControlState
  <2>8. Listed(r) /\ Runs(r) /\ Frame(k, r) /\ SameTrains(k, r)
    BY <2>3, <2>4, <2>6 DEF Listed, Runs, Frame, SameTrains
  <2>9. ASSUME NEW u \in Train
        PROVE  Standing(r, u) /\ Pursued(r, u)
    BY <1>1, <2>1, <2>2, <2>3, <2>6
       DEF Standing, Pursued, SameTrains, SameOrders, Shape, ControlState
  <2>10. QED
    BY <2>7, <2>8, <2>9 DEF Core, Shape
<1>5. QED
  BY <1>2, <1>3, <1>4

\* Idle trains are left alone.
LEMMA UpdateSpeedIdle ==
  ASSUME NEW k, NEW t \in Train, k.speedState[t] = "idle"
  PROVE  UpdateSpeed(k, t) = k
BY DEF UpdateSpeed

\* Asking an inactive train for any speed but zero is not one of the operations.
LEMMA SetThrottleSpeedCore ==
  ASSUME NEW k, Core(k), NEW t \in Train, NEW s \in Speed, k.active[t] \/ s = 0,
         NEW r, r = SetThrottleSpeed(k, t, s)
  PROVE  Core(r) /\ Frame(k, r) /\ SameTrains(k, r)
<1>. DEFINE wanted == IF s > k.speed[t] THEN "accelerate" ELSE "braking"
            asked == [k EXCEPT !.throttleSpeed[t] = s, !.emergencyStop[t] = FALSE]
            turned == [asked EXCEPT !.speedState[t] = wanted, !.armed[t] = FALSE]
<1>1. k \in ControlState /\ Shape(k)
  BY DEF Core, Shape
<1>2. /\ SameTrains(k, asked) /\ asked.decoder = k.decoder /\ asked.speed = k.speed
      /\ asked.speedState = k.speedState /\ asked.isStopped = k.isStopped
      /\ asked.armed = k.armed /\ asked.due = k.due
      /\ asked.throttleSpeed = [k.throttleSpeed EXCEPT ![t] = s]
      /\ asked.emergencyStop = [k.emergencyStop EXCEPT ![t] = FALSE]
  BY <1>1 DEF SameTrains, ControlState
<1>3. asked \in ControlState
  <2>1. [k.throttleSpeed EXCEPT ![t] = s] \in [Train -> Speed]
    BY <1>1 DEF ControlState
  <2>2. [k.emergencyStop EXCEPT ![t] = FALSE] \in [Train -> BOOLEAN]
    BY <1>1 DEF ControlState
  <2>3. QED
    BY <1>1, <2>1, <2>2 DEF ControlState
<1>4. Listed(asked) /\ Runs(asked) /\ Frame(k, asked)
  BY <1>1, <1>2 DEF Shape, Listed, Runs, Frame, SameTrains
<1>5. Core(asked)
  BY <1>1, <1>2, <1>3, <1>4 DEF Core, Shape, Standing, Pursued, SameTrains, ControlState
<1>6. CASE s = k.throttleSpeed[t]
  BY <1>6 DEF SetThrottleSpeed, Frame, SameTrains
<1>7. CASE s # k.throttleSpeed[t] /\ (s = k.speed[t] \/ k.speedState[t] = wanted)
  <2>1. r = asked
    BY <1>7 DEF SetThrottleSpeed
  <2>2. QED
    BY <1>2, <1>4, <1>5, <2>1
<1>8. CASE s # k.throttleSpeed[t] /\ s # k.speed[t] /\ k.speedState[t] # wanted
  <2>1. r = UpdateSpeed(turned, t)
    BY <1>8 DEF SetThrottleSpeed
  <2>2. k.active[t]
    BY <1>1, <1>8 DEF Shape, Standing
  <2>. HIDE DEF asked
  <2>3. /\ SameTrains(asked, turned) /\ turned.decoder = asked.decoder
        /\ turned.speed = asked.speed /\ turned.throttleSpeed = asked.throttleSpeed
        /\ turned.emergencyStop = asked.emergencyStop
        /\ turned.isStopped = asked.isStopped /\ turned.due = asked.due
        /\ turned.speedState = [asked.speedState EXCEPT ![t] = wanted]
        /\ turned.armed = [asked.armed EXCEPT ![t] = FALSE]
    BY <1>3 DEF SameTrains, ControlState
  <2>4. turned \in ControlState
    <3>1. [asked.speedState EXCEPT ![t] = wanted] \in [Train -> SpeedState]
      BY <1>3 DEF ControlState, SpeedState
    <3>2. [asked.armed EXCEPT ![t] = FALSE] \in [Train -> BOOLEAN]
      BY <1>3 DEF ControlState
    <3>3. QED
      BY <1>3, <3>1, <3>2 DEF ControlState
  <2>. HIDE DEF turned
  <2>5. Listed(turned) /\ Runs(turned) /\ Frame(asked, turned)
    BY <1>5, <2>3 DEF Core, Shape, Listed, Runs, Frame, SameTrains
  <2>6. asked.active[t] /\ ~asked.emergencyStop[t]
    BY <1>1, <1>2, <2>2 DEF SameTrains, ControlState
  <2>7. \A u \in Train : Standing(turned, u)
    BY <1>3, <1>5, <2>3, <2>6 DEF Core, Shape, Standing, SameTrains, ControlState
  <2>8. \A u \in Train \ {t} : Pursued(turned, u)
    BY <1>3, <1>5, <2>3 DEF Core, Pursued, ControlState
  <2>9. Core(r) /\ Frame(turned, r) /\ SameTrains(turned, r)
    BY <2>1, <2>4, <2>5, <2>7, <2>8, UpdateSpeedCore DEF Shape
  <2>10. QED
    BY <1>2, <1>4, <2>3, <2>5, <2>9 DEF Frame, SameTrains
<1>9. QED
  BY <1>6, <1>7, <1>8

LEMMA SetEmergencyStopCore ==
  ASSUME NEW k, Core(k), NEW t \in Train, NEW value \in BOOLEAN,
         NEW r, r = SetEmergencyStop(k, t, value)
  PROVE  Core(r) /\ Frame(k, r) /\ SameTrains(k, r)
<1>. DEFINE told == [k EXCEPT !.emergencyStop[t] = value]
            halted == [told EXCEPT !.speedState[t] = "idle", !.armed[t] = FALSE,
                                   !.throttleSpeed[t] = 0, !.speed[t] = 0, !.isStopped[t] = TRUE]
            stopped == IF value THEN halted ELSE told
<1>1. k \in ControlState /\ Shape(k)
  BY DEF Core, Shape
<1>2. CASE k.emergencyStop[t] = value
  BY <1>2 DEF SetEmergencyStop, Frame, SameTrains
<1>3. CASE k.emergencyStop[t] # value
  <2>1. /\ SameTrains(k, told) /\ told.decoder = k.decoder /\ told.speed = k.speed
        /\ told.throttleSpeed = k.throttleSpeed /\ told.isStopped = k.isStopped
        /\ told.speedState = k.speedState /\ told.armed = k.armed /\ told.due = k.due
        /\ told.emergencyStop = [k.emergencyStop EXCEPT ![t] = value]
    BY <1>1 DEF SameTrains, ControlState
  <2>2. told \in ControlState
    <3>1. [k.emergencyStop EXCEPT ![t] = value] \in [Train -> BOOLEAN]
      BY <1>1 DEF ControlState
    <3>2. QED
      BY <1>1, <3>1 DEF ControlState
  <2>3. /\ stopped \in ControlState /\ SameTrains(k, stopped) /\ stopped.decoder = k.decoder
        /\ stopped.due = k.due
        /\ \A u \in Train \ {t} :
             /\ stopped.speed[u] = k.speed[u]
             /\ stopped.throttleSpeed[u] = k.throttleSpeed[u]
             /\ stopped.isStopped[u] = k.isStopped[u]
             /\ stopped.speedState[u] = k.speedState[u] /\ stopped.armed[u] = k.armed[u]
             /\ stopped.emergencyStop[u] = k.emergencyStop[u]
        /\ stopped.emergencyStop[t] = value /\ stopped.speed[t] = 0
        /\ Standing(stopped, t) /\ Pursued(stopped, t)
    <3>1. CASE ~value
      <4>1. stopped = told /\ k.emergencyStop[t]
        BY <1>1, <1>3, <3>1 DEF ControlState
      <4>. HIDE DEF told, stopped
      <4>2. k.speed[t] = 0 /\ k.speedState[t] = "idle" /\ (k.isStopped[t] <=> k.speed[t] = 0)
        BY <1>1, <4>1 DEF Shape, Standing
      <4>3. Standing(stopped, t) /\ Pursued(stopped, t)
        BY <1>1, <2>1, <3>1, <4>1, <4>2 DEF Standing, Pursued, ControlState
      <4>4. QED
        BY <1>1, <2>1, <2>2, <4>1, <4>2, <4>3 DEF ControlState
    <3>2. CASE value
      <4>. HIDE DEF told
      <4>1. stopped = halted
        BY <3>2
      <4>2. /\ SameTrains(told, halted) /\ halted.decoder = told.decoder
            /\ halted.due = told.due /\ halted.emergencyStop = told.emergencyStop
            /\ halted.speedState = [told.speedState EXCEPT ![t] = "idle"]
            /\ halted.armed = [told.armed EXCEPT ![t] = FALSE]
            /\ halted.throttleSpeed = [told.throttleSpeed EXCEPT ![t] = 0]
            /\ halted.speed = [told.speed EXCEPT ![t] = 0]
            /\ halted.isStopped = [told.isStopped EXCEPT ![t] = TRUE]
        BY <2>2 DEF SameTrains, ControlState
      <4>3. halted \in ControlState
        <5>1. /\ [told.speedState EXCEPT ![t] = "idle"] \in [Train -> SpeedState]
              /\ [told.armed EXCEPT ![t] = FALSE] \in [Train -> BOOLEAN]
              /\ [told.isStopped EXCEPT ![t] = TRUE] \in [Train -> BOOLEAN]
          BY <2>2 DEF ControlState, SpeedState
        <5>2. /\ [told.throttleSpeed EXCEPT ![t] = 0] \in [Train -> Speed]
              /\ [told.speed EXCEPT ![t] = 0] \in [Train -> Speed]
          BY <2>2, ControlAssumption DEF ControlState, Speed
        <5>3. QED
          BY <2>2, <5>1, <5>2 DEF ControlState
      <4>. HIDE DEF halted, stopped
      <4>4. Standing(halted, t) /\ Pursued(halted, t)
        BY <2>2, <4>2 DEF Standing, Pursued, ControlState
      <4>5. SameTrains(k, halted) /\ halted.decoder = k.decoder /\ halted.due = k.due
        BY <2>1, <4>2 DEF SameTrains
      <4>6. \A u \in Train \ {t} :
             /\ halted.speed[u] = k.speed[u]
             /\ halted.throttleSpeed[u] = k.throttleSpeed[u]
             /\ halted.isStopped[u] = k.isStopped[u]
             /\ halted.speedState[u] = k.speedState[u] /\ halted.armed[u] = k.armed[u]
             /\ halted.emergencyStop[u] = k.emergencyStop[u]
        BY <1>1, <2>1, <2>2, <4>2 DEF ControlState
      <4>7. halted.emergencyStop[t] = value /\ halted.speed[t] = 0
        BY <1>1, <2>1, <2>2, <4>2 DEF ControlState
      <4>8. QED
        BY <4>1, <4>3, <4>4, <4>5, <4>6, <4>7
    <3>3. QED
      BY <3>1, <3>2
  <2>. HIDE DEF told, stopped
  <2>4. \A u \in Train : Standing(stopped, u) /\ Pursued(stopped, u)
    BY <1>1, <2>3 DEF Core, Shape, Standing, Pursued, SameTrains
  <2>5. Listed(stopped)
    BY <1>1, <2>3 DEF Shape, Listed, SameTrains
  <2>6. RunsElsewhere(stopped, t)
    <3>1. \A v \in Powered : k.activeTrain[v] \in Train \cup {NoTrain}
      BY <1>1, ControlAssumption DEF ControlState
    <3>2. /\ Runs(k) /\ stopped.decoder = k.decoder /\ stopped.activeTrain = k.activeTrain
          /\ \A u \in Train \ {t} : stopped.speed[u] = k.speed[u]
      BY <1>1, <2>3 DEF Shape, SameTrains
    <3>3. QED
      BY <3>1, <3>2 DEF Runs, RunsElsewhere
  <2>7. ~value \/ ~k.active[t] => Runs(stopped)
    <3>1. ~value \/ ~k.active[t] => k.speed[t] = 0
      BY <1>1, <1>3 DEF Shape, Standing, ControlState
    <3>2. ~value \/ ~k.active[t] => \A u \in Train : stopped.speed[u] = k.speed[u]
      BY <2>3, <3>1
    <3>3. \A v \in Powered : k.activeTrain[v] \in Train \cup {NoTrain}
      BY <1>1, ControlAssumption DEF ControlState
    <3>4. Runs(k) /\ stopped.decoder = k.decoder /\ stopped.activeTrain = k.activeTrain
      BY <1>1, <2>3 DEF Shape, SameTrains
    <3>5. QED
      BY <3>2, <3>3, <3>4 DEF Runs
  <2>8. CASE ~k.active[t]
    <3>1. r = stopped
      BY <1>3, <2>8 DEF SetEmergencyStop, stopped, halted, told
    <3>2. QED
      BY <2>3, <2>4, <2>5, <2>7, <2>8, <3>1 DEF Core, Shape, Frame, SameTrains
  <2>9. CASE k.active[t]
    <3>1. r = StopMotors(stopped, t, value)
      BY <1>3, <2>9 DEF SetEmergencyStop, stopped, halted, told
    <3>2. /\ r \in ControlState /\ SameTrains(stopped, r) /\ SameOrders(stopped, r)
          /\ r.speed = stopped.speed /\ Frame(stopped, r)
      BY <2>3, <3>1, StopMotorsIs
    <3>3. stopped.active[t]
      BY <2>3, <2>9 DEF SameTrains
    <3>4. Listed(r) /\ Runs(r)
      BY <2>3, <2>5, <2>6, <2>7, <3>1, <3>3, StopMotorsRuns
    <3>5. \A u \in Train : Standing(r, u) /\ Pursued(r, u)
      BY <2>4, <3>2 DEF Standing, Pursued, SameTrains, SameOrders
    <3>6. QED
      BY <2>3, <3>2, <3>4, <3>5 DEF Core, Shape, Frame, SameTrains
  <2>10. QED
    BY <2>8, <2>9
<1>4. QED
  BY <1>2, <1>3

LEMMA SetSpeedNowCore ==
  ASSUME NEW k, Core(k), NEW t \in Train, k.active[t], NEW s \in Speed,
         NEW r, r = SetSpeedNow(k, t, s)
  PROVE  Core(r) /\ Frame(k, r) /\ SameTrains(k, r)
<1>. DEFINE m == SetSpeed(k, t, s)
            a == SetThrottleSpeed(m, t, s)
<1>1. k \in ControlState /\ Shape(k) /\ Listed(k) /\ Runs(k)
  BY DEF Core, Shape
<1>2. /\ m \in ControlState /\ SameTrains(k, m) /\ SameOrders(k, m) /\ Frame(k, m)
      /\ m.speed = [k.speed EXCEPT ![t] = s]
  BY <1>1, SetSpeedIs
<1>3. Listed(m) /\ Runs(m)
  BY <1>1, SetSpeedRuns
<1>4. m.speed[t] = s
  BY <1>1, <1>2 DEF ControlState
<1>5. a = IF s = m.throttleSpeed[t] THEN m
          ELSE [m EXCEPT !.throttleSpeed[t] = s, !.emergencyStop[t] = FALSE]
  BY <1>4 DEF SetThrottleSpeed
<1>6. r = [a EXCEPT !.armed[t] = FALSE, !.speedState[t] = "idle", !.isStopped[t] = (s = 0)]
  BY DEF SetSpeedNow
<1>. HIDE DEF m, a
<1>7. /\ a \in ControlState /\ SameTrains(m, a) /\ a.decoder = m.decoder /\ a.speed = m.speed
      /\ a.speedState = m.speedState /\ a.isStopped = m.isStopped
      /\ a.armed = m.armed /\ a.due = m.due
      /\ a.throttleSpeed = [m.throttleSpeed EXCEPT ![t] = s]
      /\ \A u \in Train \ {t} : a.emergencyStop[u] = m.emergencyStop[u]
      /\ a.emergencyStop[t] => s = m.throttleSpeed[t] /\ m.emergencyStop[t]
  <2>1. CASE s = m.throttleSpeed[t]
    BY <1>2, <1>5, <2>1 DEF SameTrains, ControlState
  <2>2. CASE s # m.throttleSpeed[t]
    <3>1. /\ [m.throttleSpeed EXCEPT ![t] = s] \in [Train -> Speed]
          /\ [m.emergencyStop EXCEPT ![t] = FALSE] \in [Train -> BOOLEAN]
      BY <1>2 DEF ControlState
    <3>2. a = [m EXCEPT !.throttleSpeed[t] = s, !.emergencyStop[t] = FALSE]
      BY <1>5, <2>2
    <3>3. a \in ControlState
      BY <1>2, <3>1, <3>2 DEF ControlState
    <3>4. /\ SameTrains(m, a) /\ a.decoder = m.decoder /\ a.speed = m.speed
          /\ a.speedState = m.speedState /\ a.isStopped = m.isStopped
          /\ a.armed = m.armed /\ a.due = m.due
          /\ a.throttleSpeed = [m.throttleSpeed EXCEPT ![t] = s]
          /\ a.emergencyStop = [m.emergencyStop EXCEPT ![t] = FALSE]
      BY <1>2, <3>2 DEF SameTrains, ControlState
    <3>5. QED
      BY <1>2, <3>3, <3>4 DEF ControlState
  <2>3. QED
    BY <2>1, <2>2
<1>8. /\ SameTrains(a, r) /\ r.decoder = a.decoder /\ r.speed = a.speed /\ r.due = a.due
      /\ r.throttleSpeed = a.throttleSpeed /\ r.emergencyStop = a.emergencyStop
      /\ r.armed = [a.armed EXCEPT ![t] = FALSE]
      /\ r.speedState = [a.speedState EXCEPT ![t] = "idle"]
      /\ r.isStopped = [a.isStopped EXCEPT ![t] = (s = 0)]
  BY <1>6, <1>7 DEF SameTrains, ControlState
<1>9. r \in ControlState
  <2>. DEFINE x == [a.armed EXCEPT ![t] = FALSE]
              y == [a.speedState EXCEPT ![t] = "idle"]
              z == [a.isStopped EXCEPT ![t] = (s = 0)]
  <2>1. x \in [Train -> BOOLEAN] /\ y \in [Train -> SpeedState] /\ z \in [Train -> BOOLEAN]
    BY <1>7 DEF ControlState, SpeedState
  <2>2. r = [a EXCEPT !.armed = x, !.speedState = y, !.isStopped = z]
    BY <1>6
  <2>. HIDE DEF x, y, z
  <2>3. a \in ControlState
    BY <1>7
  <2>4. [a EXCEPT !.armed = x, !.speedState = y, !.isStopped = z] \in ControlState
    BY <2>1, <2>3 DEF ControlState
  <2>5. QED
    BY <2>2, <2>4
<1>10. Listed(r) /\ Runs(r) /\ Frame(k, r) /\ SameTrains(k, r)
  BY <1>2, <1>3, <1>7, <1>8 DEF Listed, Runs, Frame, SameTrains
<1>11. Standing(r, t) /\ Pursued(r, t)
  <2>1. r.active[t] /\ r.speed[t] = s
    BY <1>2, <1>4, <1>7, <1>8 DEF SameTrains
  <2>2. r.speedState[t] = "idle" /\ r.throttleSpeed[t] = s
    BY <1>2, <1>7, <1>8 DEF ControlState
  <2>3. r.isStopped[t] <=> s = 0
    <3>1. a.isStopped \in [Train -> BOOLEAN]
      BY <1>7 DEF ControlState
    <3>2. QED
      BY <1>8, <3>1
  <2>4. r.emergencyStop[t] => s = 0
    <3>1. r.emergencyStop[t] => s = k.throttleSpeed[t] /\ k.emergencyStop[t]
      BY <1>2, <1>7, <1>8 DEF SameOrders
    <3>2. QED
      BY <1>1, <3>1 DEF Shape, Standing
  <2>5. QED
    BY <2>1, <2>2, <2>3, <2>4 DEF Standing, Pursued
<1>12. ASSUME NEW u \in Train \ {t}
       PROVE  Standing(r, u) /\ Pursued(r, u)
  <2>1. /\ r.speed[u] = k.speed[u] /\ r.throttleSpeed[u] = k.throttleSpeed[u]
        /\ r.isStopped[u] = k.isStopped[u] /\ r.speedState[u] = k.speedState[u]
        /\ r.armed[u] = k.armed[u] /\ r.due[u] = k.due[u]
        /\ r.emergencyStop[u] = k.emergencyStop[u] /\ r.active[u] = k.active[u]
    BY <1>1, <1>2, <1>7, <1>8 DEF SameTrains, SameOrders, ControlState
  <2>2. QED
    BY <2>1 DEF Core, Shape, Standing, Pursued
<1>13. QED
  BY <1>9, <1>10, <1>11, <1>12 DEF Core, Shape

-----------------------------------------------------------------------------
(* Activation, and taking and leaving a train.                             *)

LEMMA ActivateCore ==
  ASSUME NEW k, Core(k), NEW t \in Train, NEW r, r = Activate(k, t)
  PROVE  /\ Core(r) /\ Frame(k, r)
         /\ \A u \in Train : k.active[u] => r.active[u]
<1>. DEFINE taken == [k EXCEPT !.active[t] = TRUE,
                               !.activeTrain = [v \in Vehicle |->
                                  IF v \in k.vehicles[t] THEN t ELSE k.activeTrain[v]]]
            told == StopMotors(taken, t, k.emergencyStop[t])
<1>1. /\ k \in ControlState /\ Shape(k) /\ Listed(k) /\ Runs(k) /\ t # NoTrain
      /\ k.emergencyStop[t] \in BOOLEAN
  BY ControlAssumption DEF Core, Shape, ControlState
<1>2. CASE k.active[t] \/ ~Activatable(k, t)
  BY <1>2 DEF Activate, Frame
<1>3. CASE ~k.active[t] /\ Activatable(k, t)
  <2>1. r = UpdateSpeed(told, t)
    BY <1>3 DEF Activate
  <2>2. /\ taken.vehicles = k.vehicles /\ taken.driver = k.driver
        /\ taken.acquired = k.acquired /\ taken.decoder = k.decoder
        /\ SameOrders(k, taken) /\ taken.speed = k.speed
        /\ taken.active = [k.active EXCEPT ![t] = TRUE]
        /\ taken.activeTrain = [v \in Vehicle |->
                                  IF v \in k.vehicles[t] THEN t ELSE k.activeTrain[v]]
    BY <1>1 DEF SameOrders, ControlState
  <2>3. taken \in ControlState
    <3>1. [k.active EXCEPT ![t] = TRUE] \in [Train -> BOOLEAN]
      BY <1>1 DEF ControlState
    <3>2. [v \in Vehicle |-> IF v \in k.vehicles[t] THEN t ELSE k.activeTrain[v]]
            \in [Vehicle -> Train \cup {NoTrain}]
      BY <1>1 DEF ControlState
    <3>3. QED
      BY <1>1, <3>1, <3>2 DEF ControlState
  <2>. HIDE DEF taken
  <2>4. k.speed[t] = 0 /\ k.speedState[t] = "idle"
    BY <1>1, <1>3 DEF Shape, Standing
  <2>5. Listed(taken)
    <3>1. \A v \in Vehicle : v \in k.vehicles[t] => k.activeTrain[v] = NoTrain
      BY <1>1, <1>3 DEF Activatable, ControlState
    <3>2. QED
      BY <1>1, <1>3, <2>2, <3>1, ControlAssumption DEF Listed, ControlState
  <2>6. Runs(taken)
    <3>1. SUFFICES ASSUME NEW v \in Powered, ~taken.decoder[v].emergencyStop
                   PROVE  taken.decoder[v].throttle =
                            IF taken.activeTrain[v] = NoTrain THEN 0
                            ELSE Notch[taken.speed[taken.activeTrain[v]]]
      BY DEF Runs
    <3>2. v \in Vehicle
      BY ControlAssumption
    <3>3. CASE v \in k.vehicles[t]
      <4>1. k.decoder[v].throttle = 0
        BY <1>3, <3>3 DEF Activatable, Motors
      <4>2. QED
        BY <1>1, <2>2, <2>4, <3>2, <3>3, <4>1, ControlAssumption
    <3>4. CASE v \notin k.vehicles[t]
      BY <1>1, <2>2, <3>1, <3>2, <3>4 DEF Runs
    <3>5. QED
      BY <3>3, <3>4
  <2>7. RunsElsewhere(taken, t)
    BY <2>6 DEF Runs, RunsElsewhere
  <2>8. /\ told \in ControlState /\ SameTrains(taken, told) /\ SameOrders(taken, told)
        /\ told.speed = taken.speed /\ Frame(taken, told)
    BY <1>1, <2>3, StopMotorsIs
  <2>9. taken.active[t] /\ taken.speed[t] = 0
    BY <1>1, <2>2, <2>4 DEF ControlState
  <2>10. Listed(told) /\ Runs(told)
    BY <1>1, <2>3, <2>5, <2>6, <2>7, <2>9, StopMotorsRuns
  <2>. HIDE DEF told
  <2>11. told.speedState[t] = "idle"
    BY <2>2, <2>4, <2>8 DEF SameOrders
  <2>12. r = told
    BY <2>1, <2>11, UpdateSpeedIdle
  <2>13. \A u \in Train : Standing(told, u) /\ Pursued(told, u)
    BY <1>1, <2>2, <2>4, <2>8
       DEF Core, Shape, Standing, Pursued, SameTrains, SameOrders, ControlState
  <2>14. \A u \in Train : k.active[u] => told.active[u]
    BY <1>1, <2>2, <2>8 DEF SameTrains, ControlState
  <2>15. Frame(k, told)
    BY <2>2, <2>8 DEF Frame
  <2>16. QED
    BY <2>8, <2>10, <2>12, <2>13, <2>14, <2>15 DEF Core, Shape
<1>4. QED
  BY <1>2, <1>3

LEMMA DeactivatedCore ==
  ASSUME NEW k, Core(k), NEW t \in Train, k.active[t], k.isStopped[t],
         NEW r, r = Deactivated(k, t)
  PROVE  /\ Core(r) /\ Frame(k, r)
         /\ ~r.active[t] /\ \A u \in Train \ {t} : r.active[u] = k.active[u]
<1>. DEFINE left == [k EXCEPT !.active[t] = FALSE,
                              !.activeTrain = [v \in Vehicle |->
                                 IF v \in k.vehicles[t] THEN NoTrain ELSE k.activeTrain[v]]]
<1>1. k \in ControlState /\ Shape(k) /\ Listed(k) /\ Runs(k) /\ t # NoTrain
  BY ControlAssumption DEF Core, Shape
<1>2. k.speed[t] = 0 /\ k.speedState[t] = "idle"
  BY <1>1 DEF Core, Shape, Standing, Pursued
<1>3. /\ left.vehicles = k.vehicles /\ left.driver = k.driver
      /\ left.acquired = k.acquired /\ left.decoder = k.decoder
      /\ SameOrders(k, left) /\ left.speed = k.speed
      /\ left.active = [k.active EXCEPT ![t] = FALSE]
      /\ left.activeTrain = [v \in Vehicle |->
                               IF v \in k.vehicles[t] THEN NoTrain ELSE k.activeTrain[v]]
  BY <1>1 DEF SameOrders, ControlState
<1>4. left \in ControlState
  <2>1. [k.active EXCEPT ![t] = FALSE] \in [Train -> BOOLEAN]
    BY <1>1 DEF ControlState
  <2>2. [v \in Vehicle |-> IF v \in k.vehicles[t] THEN NoTrain ELSE k.activeTrain[v]]
          \in [Vehicle -> Train \cup {NoTrain}]
    BY <1>1 DEF ControlState
  <2>3. QED
    BY <1>1, <2>1, <2>2 DEF ControlState
<1>. HIDE DEF left
<1>5. r = left
  <2>1. r = UpdateSpeed(left, t)
    BY DEF Deactivated, left
  <2>2. QED
    BY <1>2, <1>3, <2>1, UpdateSpeedIdle DEF SameOrders
<1>6. \A v \in Vehicle : v \in k.vehicles[t] => k.activeTrain[v] = t
  BY <1>1 DEF Listed
<1>7. Listed(left)
  BY <1>1, <1>3, <1>6, ControlAssumption DEF Listed, ControlState
<1>8. Runs(left)
  <2>1. SUFFICES ASSUME NEW v \in Powered, ~left.decoder[v].emergencyStop
                 PROVE  left.decoder[v].throttle =
                          IF left.activeTrain[v] = NoTrain THEN 0
                          ELSE Notch[left.speed[left.activeTrain[v]]]
    BY DEF Runs
  <2>2. v \in Vehicle
    BY ControlAssumption
  <2>3. CASE v \in k.vehicles[t]
    <3>1. k.decoder[v].throttle = 0
      BY <1>1, <1>2, <1>3, <1>6, <2>1, <2>2, <2>3, ControlAssumption DEF Runs
    <3>2. QED
      BY <1>3, <2>2, <2>3, <3>1
  <2>4. CASE v \notin k.vehicles[t]
    BY <1>1, <1>3, <2>1, <2>2, <2>4 DEF Runs
  <2>5. QED
    BY <2>3, <2>4
<1>9. \A u \in Train : Standing(left, u) /\ Pursued(left, u)
  BY <1>1, <1>2, <1>3 DEF Core, Shape, Standing, Pursued, SameOrders, ControlState
<1>10. ~left.active[t] /\ \A u \in Train \ {t} : left.active[u] = k.active[u]
  BY <1>1, <1>3 DEF ControlState
<1>11. QED
  BY <1>3, <1>4, <1>5, <1>7, <1>8, <1>9, <1>10 DEF Core, Shape, Frame

\* Who drives has no part in Core.
LEMMA DriversCore ==
  ASSUME NEW k, Core(k), NEW r \in ControlState,
         r.vehicles = k.vehicles, r.activeTrain = k.activeTrain, r.active = k.active,
         r.decoder = k.decoder, r.speed = k.speed, SameOrders(k, r)
  PROVE  Core(r)
BY DEF Core, Shape, Listed, Runs, Standing, Pursued, SameOrders

\* Release takes the throttle off the train and changes no other train's drivers.
LEMMA ReleaseCore ==
  ASSUME NEW k, Core(k), NEW th \in Throttle, NEW t \in Train, t = k.acquired[th],
         NEW stopIt \in BOOLEAN, NEW r, r = Release(k, th, stopIt)
  PROVE  /\ Core(r)
         /\ r.driver[t] = NoThrottle /\ \A u \in Train \ {t} : r.driver[u] = k.driver[u]
         /\ r.acquired[th] = NoTrain
         /\ \A o \in Throttle \ {th} : r.acquired[o] = k.acquired[o]
         /\ \A v \in Vehicle : r.decoder[v].direction = k.decoder[v].direction
         /\ \A u \in Train \ {t} : r.active[u] = k.active[u]
<1>. DEFINE stopped == IF stopIt THEN SetEmergencyStop(k, t, TRUE) ELSE k
            free == [stopped EXCEPT !.driver[t] = NoThrottle, !.acquired[th] = NoTrain]
            d == [stopped.driver EXCEPT ![t] = NoThrottle]
            a == [stopped.acquired EXCEPT ![th] = NoTrain]
<1>1. Core(stopped) /\ Frame(k, stopped) /\ stopped.active = k.active
  <2>1. CASE stopIt
    <3>1. stopped = SetEmergencyStop(k, t, TRUE)
      BY <2>1
    <3>. HIDE DEF stopped
    <3>2. Core(stopped) /\ Frame(k, stopped) /\ SameTrains(k, stopped)
      BY <3>1, SetEmergencyStopCore
    <3>3. QED
      BY <3>2 DEF SameTrains
  <2>2. CASE ~stopIt
    BY <2>2 DEF Frame
  <2>3. QED
    BY <2>1, <2>2
<1>2. r = IF free.active[t] /\ free.isStopped[t] /\ ~free.inBlock[t]
          THEN Deactivated(free, t) ELSE free
  BY DEF Release
<1>. HIDE DEF stopped
<1>3. stopped \in ControlState
  BY <1>1 DEF Core, Shape
<1>4. d \in [Train -> Throttle \cup {NoThrottle}] /\ a \in [Throttle -> Train \cup {NoTrain}]
  BY <1>3 DEF ControlState
<1>5. /\ free.vehicles = stopped.vehicles /\ free.activeTrain = stopped.activeTrain
      /\ free.active = stopped.active /\ free.decoder = stopped.decoder
      /\ free.speed = stopped.speed /\ SameOrders(stopped, free)
      /\ free.driver = d /\ free.acquired = a /\ free \in ControlState
  <2>1. /\ free.vehicles = stopped.vehicles /\ free.activeTrain = stopped.activeTrain
        /\ free.active = stopped.active /\ free.decoder = stopped.decoder
        /\ free.speed = stopped.speed /\ SameOrders(stopped, free)
        /\ free.driver = d /\ free.acquired = a
    BY <1>3 DEF SameOrders, ControlState
  <2>. HIDE DEF d, a
  <2>2. free = [stopped EXCEPT !.driver = d, !.acquired = a]
    BY <1>3 DEF ControlState, d, a
  <2>3. free \in ControlState
    BY <1>3, <1>4, <2>2 DEF ControlState
  <2>4. QED
    BY <2>1, <2>3
<1>6. /\ d[t] = NoThrottle /\ \A u \in Train \ {t} : d[u] = k.driver[u]
      /\ a[th] = NoTrain /\ \A o \in Throttle \ {th} : a[o] = k.acquired[o]
  BY <1>1, <1>3 DEF Frame, ControlState
<1>. HIDE DEF free, d, a
<1>7. /\ Core(free) /\ free.driver = d /\ free.acquired = a
      /\ free.active = stopped.active /\ free.decoder = stopped.decoder
  BY <1>1, <1>5, DriversCore
<1>8. \A v \in Vehicle : free.decoder[v].direction = k.decoder[v].direction
  BY <1>1, <1>7 DEF Frame
<1>9. CASE free.active[t] /\ free.isStopped[t] /\ ~free.inBlock[t]
  <2>1. r = Deactivated(free, t)
    BY <1>2, <1>9
  <2>2. /\ Core(r) /\ Frame(free, r)
        /\ ~r.active[t] /\ \A u \in Train \ {t} : r.active[u] = free.active[u]
    BY <1>7, <1>9, <2>1, DeactivatedCore
  <2>3. QED
    BY <1>1, <1>6, <1>7, <1>8, <2>2 DEF Frame
<1>10. CASE ~(free.active[t] /\ free.isStopped[t] /\ ~free.inBlock[t])
  BY <1>1, <1>2, <1>6, <1>7, <1>8, <1>10
<1>11. QED
  BY <1>9, <1>10

\* A train and its throttle agree, and a train that is driven is active.
Agree(k) == \A t \in Train, th \in Throttle : k.driver[t] = th <=> k.acquired[th] = t

Driven(k) == \A t \in Train : k.driver[t] # NoThrottle => k.active[t]

Good(k) == Core(k) /\ Agree(k) /\ Driven(k)

\* What a handler that turns no decoder does.
Step(k, r) ==
  Good(r) /\ \A v \in Vehicle : r.decoder[v].direction = k.decoder[v].direction

\* Driven need not hold while a train is being deactivated.
LEMMA ReleaseGood ==
  ASSUME NEW k, Core(k), Agree(k), NEW th \in Throttle, NEW t \in Train, t = k.acquired[th],
         \A u \in Train \ {t} : k.driver[u] # NoThrottle => k.active[u],
         NEW stopIt \in BOOLEAN, NEW r, r = Release(k, th, stopIt)
  PROVE  Step(k, r)
<1>1. /\ Core(r)
      /\ r.driver[t] = NoThrottle /\ \A u \in Train \ {t} : r.driver[u] = k.driver[u]
      /\ r.acquired[th] = NoTrain
      /\ \A o \in Throttle \ {th} : r.acquired[o] = k.acquired[o]
      /\ \A v \in Vehicle : r.decoder[v].direction = k.decoder[v].direction
      /\ \A u \in Train \ {t} : r.active[u] = k.active[u]
  BY ReleaseCore
<1>2. /\ k.driver \in [Train -> Throttle \cup {NoThrottle}]
      /\ k.acquired \in [Throttle -> Train \cup {NoTrain}]
  BY DEF Core, Shape, ControlState
<1>3. Agree(r)
  BY <1>1, <1>2, ControlAssumption DEF Agree
<1>4. Driven(r)
  BY <1>1, <1>2 DEF Driven
<1>5. QED
  BY <1>1, <1>3, <1>4 DEF Step, Good

LEMMA DeactivateGood ==
  ASSUME NEW k, Good(k), NEW t \in Train, NEW r, r = Deactivate(k, t)
  PROVE  Step(k, r)
<1>. DEFINE off == Deactivated(k, t)
<1>1. CASE ~k.active[t] \/ ~k.isStopped[t]
  BY <1>1 DEF Deactivate, Step
<1>2. CASE k.active[t] /\ k.isStopped[t]
  <2>1. /\ Core(off) /\ Frame(k, off)
        /\ ~off.active[t] /\ \A u \in Train \ {t} : off.active[u] = k.active[u]
    BY <1>2, DeactivatedCore DEF Good
  <2>2. r = IF k.driver[t] = NoThrottle THEN off ELSE Release(off, k.driver[t], TRUE)
    BY <1>2 DEF Deactivate
  <2>. HIDE DEF off
  <2>3. k.active \in [Train -> BOOLEAN] /\ k.driver[t] \in Throttle \cup {NoThrottle}
    BY DEF Good, Core, Shape, ControlState
  <2>4. Agree(off) /\ \A u \in Train \ {t} : off.driver[u] # NoThrottle => off.active[u]
    BY <2>1, <2>3 DEF Good, Agree, Driven, Frame
  <2>5. CASE k.driver[t] = NoThrottle
    BY <2>1, <2>2, <2>4, <2>5 DEF Step, Good, Driven, Frame
  <2>6. CASE k.driver[t] # NoThrottle
    <3>1. k.driver[t] \in Throttle /\ t = off.acquired[k.driver[t]]
      BY <2>1, <2>3, <2>6 DEF Good, Agree, Frame
    <3>2. Step(off, r)
      BY <2>1, <2>2, <2>4, <2>6, <3>1, ReleaseGood
    <3>3. QED
      BY <2>1, <3>2 DEF Step, Frame
  <2>7. QED
    BY <2>5, <2>6
<1>3. QED
  BY <1>1, <1>2

LEMMA ActivateGood ==
  ASSUME NEW k, Good(k), NEW t \in Train, NEW r, r = Activate(k, t)
  PROVE  Step(k, r)
BY ActivateCore DEF Step, Good, Agree, Driven, Frame

LEMMA ThrottleSpeedGood ==
  ASSUME NEW k, Good(k), NEW t \in Train, NEW s \in Speed, k.active[t] \/ s = 0,
         NEW r, r = SetThrottleSpeed(k, t, s)
  PROVE  Step(k, r)
BY SetThrottleSpeedCore DEF Step, Good, Agree, Driven, Frame, SameTrains

LEMMA EmergencyStopGood ==
  ASSUME NEW k, Good(k), NEW t \in Train, NEW value \in BOOLEAN,
         NEW r, r = SetEmergencyStop(k, t, value)
  PROVE  Step(k, r) /\ r.active = k.active
BY SetEmergencyStopCore DEF Step, Good, Agree, Driven, Frame, SameTrains

LEMMA SpeedNowGood ==
  ASSUME NEW k, Good(k), NEW t \in Train, k.active[t], NEW s \in Speed,
         NEW r, r = SetSpeedNow(k, t, s)
  PROVE  Step(k, r)
BY SetSpeedNowCore DEF Step, Good, Agree, Driven, Frame, SameTrains

\* Blocks have no part in Good.
LEMMA InBlockGood ==
  ASSUME NEW k, Good(k), NEW t \in Train, NEW value \in BOOLEAN,
         NEW r, r = [k EXCEPT !.inBlock[t] = value]
  PROVE  Step(k, r)
<1>1. k \in ControlState /\ Core(k)
  BY DEF Good, Core, Shape
<1>2. [k.inBlock EXCEPT ![t] = value] \in [Train -> BOOLEAN]
  BY <1>1 DEF ControlState
<1>3. r \in ControlState
  BY <1>1, <1>2 DEF ControlState
<1>4. /\ r.vehicles = k.vehicles /\ r.activeTrain = k.activeTrain /\ r.active = k.active
      /\ r.decoder = k.decoder /\ r.speed = k.speed /\ SameOrders(k, r)
      /\ r.driver = k.driver /\ r.acquired = k.acquired
  BY <1>1 DEF SameOrders, ControlState
<1>5. Core(r)
  BY <1>1, <1>3, <1>4, DriversCore
<1>6. QED
  BY <1>4, <1>5 DEF Step, Good, Agree, Driven

LEMMA StepTrans ==
  ASSUME NEW k, NEW m, NEW r, Step(k, m), Step(m, r)
  PROVE  Step(k, r)
BY DEF Step

-----------------------------------------------------------------------------
(* Handlers.                                                               *)

Inv == Good(Control)

\* No decoder is turned.
NoneTurned == \A v \in Vehicle : decoder'[v].direction = decoder[v].direction

LEMMA InvType == ASSUME Inv PROVE TypeOK /\ Control \in ControlState
BY DEF Inv, Good, Core, Shape, Control, ControlState, TypeOK

LEMMA BecomesStep ==
  ASSUME NEW k, Becomes(k), Step(Control, k)
  PROVE  Inv' /\ NoneTurned
<1>1. k \in ControlState
  BY DEF Step, Good, Core, Shape
<1>2. Control' = k
  BY <1>1 DEF Becomes, Control, ControlState
<1>3. QED
  BY <1>2 DEF Step, Inv, NoneTurned, Control, Becomes

LEMMA ReleaseThrottleInv ==
  ASSUME Inv, NEW th \in Throttle, NEW stopIt \in BOOLEAN, ReleaseThrottle(th, stopIt)
  PROVE  Inv' /\ NoneTurned
<1>. DEFINE r == Release(Control, th, stopIt)
<1>1. acquired[th] \in Train /\ acquired[th] = Control.acquired[th] /\ Becomes(r)
  BY InvType DEF ReleaseThrottle, TypeOK, Control
<1>2. Core(Control) /\ Agree(Control)
      /\ \A u \in Train : Control.driver[u] # NoThrottle => Control.active[u]
  BY DEF Inv, Good, Driven
<1>. HIDE DEF r
<1>3. r = Release(Control, th, stopIt)
  BY DEF r
<1>4. Step(Control, r)
  BY <1>1, <1>2, <1>3, ReleaseGood
<1>5. QED
  BY <1>1, <1>4, BecomesStep

\* The throttle at its new train, and its own train released.
Alone(k, th, t) ==
  LET taken == [k EXCEPT !.driver[t] = th]
  IN  IF taken.acquired[th] = NoTrain THEN taken ELSE Release(taken, th, TRUE)

LEMMA AloneCore ==
  ASSUME NEW k, Good(k), NEW th \in Throttle, NEW t \in Train, k.active[t],
         k.driver[t] = NoThrottle, NEW r, r = Alone(k, th, t)
  PROVE  /\ Core(r) /\ r.driver[t] = th /\ r.active[t]
         /\ r.acquired[th] = NoTrain
         /\ \A o \in Throttle \ {th} : r.acquired[o] = k.acquired[o]
         /\ \A u \in Train \ {t} :
              /\ r.driver[u] = IF k.driver[u] = th THEN NoThrottle ELSE k.driver[u]
              /\ r.driver[u] # NoThrottle => r.active[u]
         /\ \A v \in Vehicle : r.decoder[v].direction = k.decoder[v].direction
<1>. DEFINE taken == [k EXCEPT !.driver[t] = th]
            old == k.acquired[th]
<1>1. k \in ControlState /\ Core(k) /\ Agree(k) /\ Driven(k)
  BY DEF Good, Core, Shape
<1>2. /\ taken.vehicles = k.vehicles /\ taken.activeTrain = k.activeTrain
      /\ taken.active = k.active /\ taken.decoder = k.decoder /\ taken.speed = k.speed
      /\ SameOrders(k, taken) /\ taken.acquired = k.acquired
      /\ taken.driver = [k.driver EXCEPT ![t] = th]
  BY <1>1 DEF SameOrders, ControlState
<1>3. taken \in ControlState
  <2>1. [k.driver EXCEPT ![t] = th] \in [Train -> Throttle \cup {NoThrottle}]
    BY <1>1 DEF ControlState
  <2>2. QED
    BY <1>1, <2>1 DEF ControlState
<1>4. r = IF taken.acquired[th] = NoTrain THEN taken ELSE Release(taken, th, TRUE)
  BY DEF Alone
<1>. HIDE DEF taken
<1>5. Core(taken)
  BY <1>1, <1>2, <1>3, DriversCore
<1>6. /\ k.driver \in [Train -> Throttle \cup {NoThrottle}]
      /\ old \in Train \cup {NoTrain}
  BY <1>1 DEF ControlState
<1>7. taken.driver[t] = th /\ \A u \in Train \ {t} : taken.driver[u] = k.driver[u]
  BY <1>2, <1>6
<1>8. CASE old = NoTrain
  <2>1. \A u \in Train : k.driver[u] # th
    BY <1>1, <1>8, ControlAssumption DEF Agree
  <2>2. r = taken
    BY <1>2, <1>4, <1>8
  <2>3. \A u \in Train : k.driver[u] # NoThrottle => k.active[u]
    BY <1>1 DEF Driven
  <2>4. /\ r.driver = taken.driver /\ r.acquired = k.acquired /\ r.active = k.active
        /\ r.decoder = k.decoder
    BY <1>2, <2>2
  <2>5. ASSUME NEW u \in Train \ {t}
        PROVE  /\ r.driver[u] = IF k.driver[u] = th THEN NoThrottle ELSE k.driver[u]
               /\ r.driver[u] # NoThrottle => r.active[u]
    BY <1>7, <2>1, <2>3, <2>4
  <2>6. QED
    BY <1>5, <1>7, <1>8, <2>2, <2>4, <2>5
<1>9. CASE old # NoTrain
  <2>1. old \in Train /\ old = taken.acquired[th]
    BY <1>2, <1>6, <1>9
  <2>2. r = Release(taken, th, TRUE)
    BY <1>2, <1>4, <1>9
  <2>3. \A u \in Train : k.driver[u] = th <=> u = old
    BY <1>1 DEF Agree
  <2>. HIDE DEF old
  <2>4. old # t
    BY <2>1, <2>3, ControlAssumption
  <2>5. /\ Core(r)
        /\ r.driver[old] = NoThrottle
        /\ \A u \in Train \ {old} : r.driver[u] = taken.driver[u]
        /\ r.acquired[th] = NoTrain
        /\ \A o \in Throttle \ {th} : r.acquired[o] = taken.acquired[o]
        /\ \A v \in Vehicle : r.decoder[v].direction = taken.decoder[v].direction
        /\ \A u \in Train \ {old} : r.active[u] = taken.active[u]
    <3>1. PICK stopIt \in BOOLEAN : r = Release(taken, th, stopIt)
      BY <2>2, Zenon
    <3>2. QED
      BY <1>5, <2>1, <3>1, ReleaseCore
  <2>6. r.driver[t] = th /\ r.active[t]
    BY <1>2, <1>7, <2>4, <2>5
  <2>7. ASSUME NEW u \in Train \ {t}
        PROVE  /\ r.driver[u] = IF k.driver[u] = th THEN NoThrottle ELSE k.driver[u]
               /\ r.driver[u] # NoThrottle => r.active[u]
    <3>1. CASE u = old
      BY <2>3, <2>5, <3>1
    <3>2. CASE u # old
      BY <1>1, <1>2, <1>7, <2>3, <2>5, <3>2 DEF Driven
    <3>3. QED
      BY <3>1, <3>2
  <2>8. QED
    BY <1>2, <2>5, <2>6, <2>7
<1>10. QED
  BY <1>8, <1>9

\* Becoming the driver of an active train that has none.
LEMMA TakeGood ==
  ASSUME NEW k, Good(k), NEW th \in Throttle, NEW t \in Train, k.active[t],
         k.driver[t] = NoThrottle,
         NEW r, r = [Alone(k, th, t) EXCEPT !.acquired[th] = t]
  PROVE  Step(k, r)
<1>. DEFINE alone == Alone(k, th, t)
<1>. HIDE DEF alone
<1>1. /\ Core(alone) /\ alone.driver[t] = th /\ alone.active[t]
      /\ alone.acquired[th] = NoTrain
      /\ \A o \in Throttle \ {th} : alone.acquired[o] = k.acquired[o]
      /\ \A u \in Train \ {t} :
           /\ alone.driver[u] = IF k.driver[u] = th THEN NoThrottle ELSE k.driver[u]
           /\ alone.driver[u] # NoThrottle => alone.active[u]
      /\ \A v \in Vehicle : alone.decoder[v].direction = k.decoder[v].direction
  BY AloneCore DEF alone
<1>2. alone \in ControlState
  BY <1>1 DEF Core, Shape
<1>3. r = [alone EXCEPT !.acquired[th] = t]
  BY DEF alone
<1>4. /\ r.vehicles = alone.vehicles /\ r.activeTrain = alone.activeTrain
      /\ r.active = alone.active /\ r.decoder = alone.decoder /\ r.speed = alone.speed
      /\ SameOrders(alone, r) /\ r.driver = alone.driver
      /\ r.acquired = [alone.acquired EXCEPT ![th] = t]
  BY <1>2, <1>3 DEF SameOrders, ControlState
<1>5. /\ alone.acquired \in [Throttle -> Train \cup {NoTrain}]
      /\ [alone.acquired EXCEPT ![th] = t] \in [Throttle -> Train \cup {NoTrain}]
  BY <1>2 DEF ControlState
<1>6. r \in ControlState
  BY <1>2, <1>3, <1>5 DEF ControlState
<1>7. Core(r)
  BY <1>1, <1>4, <1>6, DriversCore
<1>8. Agree(r)
  <2>1. r.acquired[th] = t /\ \A o \in Throttle \ {th} : r.acquired[o] = k.acquired[o]
    BY <1>1, <1>4, <1>5
  <2>2. /\ r.driver[t] = th
        /\ \A u \in Train \ {t} :
             r.driver[u] = IF k.driver[u] = th THEN NoThrottle ELSE k.driver[u]
    BY <1>1, <1>4
  <2>3. \A u \in Train, o \in Throttle : k.driver[u] = o <=> k.acquired[o] = u
    BY DEF Good, Agree
  <2>4. QED
    BY <2>1, <2>2, <2>3, ControlAssumption DEF Agree
<1>9. Driven(r)
  BY <1>1, <1>4 DEF Driven
<1>10. QED
  BY <1>1, <1>4, <1>7, <1>8, <1>9 DEF Step, Good

LEMMA AcquireInv ==
  ASSUME Inv, NEW th \in Throttle, NEW t \in Train, NEW steal \in BOOLEAN,
         Acquire(th, t, steal)
  PROVE  Inv' /\ NoneTurned
<1>. DEFINE left == IF driver[t] = NoThrottle THEN Control ELSE Release(Control, driver[t], TRUE)
            ready == Activate(left, t)
            taken == [Alone(ready, th, t) EXCEPT !.acquired[th] = t]
            r == IF ready.active[t] THEN taken ELSE ready
<1>1. /\ Good(Control) /\ Core(Control) /\ Agree(Control)
      /\ \A u \in Train : Control.driver[u] # NoThrottle => Control.active[u]
      /\ driver[t] = Control.driver[t] /\ driver[t] \in Throttle \cup {NoThrottle}
  BY InvType DEF Inv, Good, Driven, Control, TypeOK
<1>2. Becomes(r)
  BY Zenon DEF Acquire, Alone
<1>3. Step(Control, left) /\ left.driver[t] = NoThrottle
  <2>1. CASE driver[t] = NoThrottle
    BY <1>1, <2>1 DEF Step
  <2>2. CASE driver[t] # NoThrottle
    <3>1. driver[t] \in Throttle /\ t = Control.acquired[driver[t]]
      BY <1>1, <2>2 DEF Agree
    <3>2. PICK stopIt \in BOOLEAN : left = Release(Control, driver[t], stopIt)
      BY <2>2, Zenon
    <3>. HIDE DEF left
    <3>3. Step(Control, left)
      BY <1>1, <3>1, <3>2, ReleaseGood
    <3>4. left.driver[t] = NoThrottle
      BY <1>1, <3>1, <3>2, ReleaseCore
    <3>5. QED
      BY <3>3, <3>4
  <2>3. QED
    BY <2>1, <2>2
<1>. HIDE DEF left
<1>4. Good(left) /\ Core(left)
  BY <1>3 DEF Step, Good
<1>5. Step(left, ready) /\ ready.driver = left.driver
  BY <1>4, ActivateGood, ActivateCore DEF Frame
<1>. HIDE DEF ready
<1>6. Step(Control, ready) /\ Good(ready) /\ ready.driver[t] = NoThrottle
  BY <1>3, <1>5, StepTrans DEF Step
<1>7. CASE ~ready.active[t]
  BY <1>2, <1>6, <1>7, BecomesStep
<1>8. CASE ready.active[t]
  <2>1. Step(ready, taken)
    BY <1>6, <1>8, TakeGood
  <2>2. Becomes(taken)
    BY <1>2, <1>8
  <2>. HIDE DEF taken
  <2>3. QED
    BY <1>6, <2>1, <2>2, StepTrans, BecomesStep
<1>9. QED
  BY <1>7, <1>8

LEMMA DrivenTrain ==
  ASSUME Inv, NEW th \in Throttle, acquired[th] # NoTrain
  PROVE  acquired[th] \in Train /\ active[acquired[th]]
<1>1. acquired[th] \in Train
  BY InvType DEF TypeOK
<1>2. Control.driver[acquired[th]] = th
  BY <1>1 DEF Inv, Good, Agree, Control
<1>3. Control.active[acquired[th]]
  BY <1>1, <1>2, ControlAssumption DEF Inv, Good, Driven
<1>4. QED
  BY <1>1, <1>3 DEF Control

LEMMA SetTargetSpeedInv ==
  ASSUME Inv, NEW th \in Throttle, NEW s \in Speed, SetTargetSpeed(th, s)
  PROVE  Inv' /\ NoneTurned
<1>. DEFINE t == acquired[th]
            freed == SetEmergencyStop(Control, t, FALSE)
            r == SetThrottleSpeed(freed, t, s)
            q == SetThrottleSpeed(Control, t, 0)
<1>1. t \in Train /\ Good(Control) /\ Control.active[t]
  BY DrivenTrain DEF SetTargetSpeed, Inv, Control
<1>2. Becomes(r) \/ Becomes(q)
  BY DEF SetTargetSpeed
<1>3. 0 \in Speed
  BY ControlAssumption DEF Speed
<1>. HIDE DEF t
<1>4. Step(Control, freed) /\ freed.active = Control.active
  <2>1. PICK value \in BOOLEAN : freed = SetEmergencyStop(Control, t, value)
    BY Zenon
  <2>. HIDE DEF freed
  <2>2. QED
    BY <1>1, <2>1, EmergencyStopGood
<1>. HIDE DEF freed
<1>5. Step(freed, r)
  BY <1>1, <1>4, ThrottleSpeedGood DEF Step
<1>6. Step(Control, q)
  BY <1>1, <1>3, ThrottleSpeedGood
<1>. HIDE DEF r, q
<1>7. QED
  BY <1>2, <1>4, <1>5, <1>6, StepTrans, BecomesStep

LEMMA SetSpeedAtOnceInv ==
  ASSUME Inv, NEW th \in Throttle, NEW s \in Speed, SetSpeedAtOnce(th, s)
  PROVE  Inv' /\ NoneTurned
<1>. DEFINE t == acquired[th]
            freed == SetEmergencyStop(Control, t, FALSE)
            r == SetSpeedNow(freed, t, s)
            q == SetSpeedNow(Control, t, 0)
<1>1. t \in Train /\ Good(Control) /\ Control.active[t]
  BY DrivenTrain DEF SetSpeedAtOnce, Inv, Control
<1>2. Becomes(r) \/ Becomes(q)
  BY DEF SetSpeedAtOnce
<1>3. 0 \in Speed
  BY ControlAssumption DEF Speed
<1>. HIDE DEF t
<1>4. Step(Control, freed) /\ freed.active = Control.active
  <2>1. PICK value \in BOOLEAN : freed = SetEmergencyStop(Control, t, value)
    BY Zenon
  <2>. HIDE DEF freed
  <2>2. QED
    BY <1>1, <2>1, EmergencyStopGood
<1>. HIDE DEF freed
<1>5. Step(freed, r)
  BY <1>1, <1>4, SpeedNowGood DEF Step
<1>6. Step(Control, q)
  BY <1>1, <1>3, SpeedNowGood
<1>. HIDE DEF r, q
<1>7. QED
  BY <1>2, <1>4, <1>5, <1>6, StepTrans, BecomesStep

LEMMA SetActiveInv ==
  ASSUME Inv, NEW t \in Train, NEW value \in BOOLEAN, SetActive(t, value)
  PROVE  Inv' /\ NoneTurned
<1>. DEFINE on == Activate(Control, t)
            off == Deactivate(Control, t)
<1>1. Becomes(on) \/ Becomes(off)
  BY DEF SetActive
<1>2. Step(Control, on) /\ Step(Control, off)
  BY ActivateGood, DeactivateGood DEF Inv
<1>. HIDE DEF on, off
<1>3. QED
  BY <1>1, <1>2, BecomesStep

LEMMA EmergencyStopInv ==
  ASSUME Inv, NEW t \in Train, NEW value \in BOOLEAN, EmergencyStop(t, value)
  PROVE  Inv' /\ NoneTurned
<1>. DEFINE r == SetEmergencyStop(Control, t, value)
<1>1. Becomes(r) /\ Step(Control, r)
  BY EmergencyStopGood DEF EmergencyStop, Inv
<1>. HIDE DEF r
<1>2. QED
  BY <1>1, BecomesStep

LEMMA StopInv ==
  ASSUME Inv, NEW t \in Train, Stop(t)
  PROVE  Inv' /\ NoneTurned
<1>. DEFINE r == SetThrottleSpeed(Control, t, 0)
<1>1. 0 \in Speed
  BY ControlAssumption DEF Speed
<1>2. Becomes(r) /\ Step(Control, r)
  BY <1>1, ThrottleSpeedGood DEF Stop, Inv
<1>. HIDE DEF r
<1>3. QED
  BY <1>2, BecomesStep

LEMMA AssignTrainInv ==
  ASSUME Inv, NEW t \in Train, AssignTrain(t)
  PROVE  Inv' /\ NoneTurned
<1>. DEFINE k == Activate(Control, t)
            r == [k EXCEPT !.inBlock[t] = TRUE]
<1>1. Becomes(r) \/ Becomes(k)
  BY DEF AssignTrain
<1>2. Step(Control, k)
  BY ActivateGood DEF Inv
<1>. HIDE DEF k
<1>3. Step(k, r)
  <2>1. Good(k)
    BY <1>2 DEF Step
  <2>2. PICK value \in BOOLEAN : r = [k EXCEPT !.inBlock[t] = value]
    BY Zenon
  <2>. HIDE DEF r
  <2>3. QED
    BY <2>1, <2>2, InBlockGood
<1>. HIDE DEF r
<1>4. QED
  BY <1>1, <1>2, <1>3, StepTrans, BecomesStep

LEMMA RemoveTrainInv ==
  ASSUME Inv, NEW t \in Train, RemoveTrain(t)
  PROVE  Inv' /\ NoneTurned
<1>. DEFINE k == [Control EXCEPT !.inBlock[t] = FALSE]
            r == Deactivate(k, t)
<1>1. Becomes(r)
  BY DEF RemoveTrain
<1>2. Step(Control, k)
  BY InBlockGood DEF Inv
<1>. HIDE DEF k
<1>3. Step(k, r)
  BY <1>2, DeactivateGood DEF Step
<1>. HIDE DEF r
<1>4. QED
  BY <1>1, <1>2, <1>3, StepTrans, BecomesStep

\* The decoders of a train that stands do not run.
LEMMA StandingMotors ==
  ASSUME Inv, NEW t \in Train, isStopped[t], active[t]
  PROVE  /\ speed[t] = 0
         /\ \A v \in Powered : v \in vehicles[t] =>
              decoder[v].emergencyStop \/ decoder[v].throttle = 0
<1>1. speed[t] = 0
  BY DEF Inv, Good, Core, Shape, Standing, Control
<1>2. ASSUME NEW v \in Powered, v \in vehicles[t], ~decoder[v].emergencyStop
      PROVE  decoder[v].throttle = 0
  <2>1. activeTrain[v] = t
    BY <1>2, ControlAssumption DEF Inv, Good, Core, Shape, Listed, Control
  <2>2. decoder[v].throttle = IF activeTrain[v] = NoTrain THEN 0 ELSE Notch[speed[activeTrain[v]]]
    BY <1>2 DEF Inv, Good, Core, Shape, Runs, Control
  <2>3. QED
    BY <1>1, <2>1, <2>2, ControlAssumption
<1>3. QED
  BY <1>1, <1>2

\* What a train is composed of has no part in how it stands.
LEMMA VehiclesCore ==
  ASSUME NEW k, Core(k), NEW r \in ControlState, Listed(r), Runs(r),
         r.active = k.active, r.speed = k.speed, SameOrders(k, r)
  PROVE  Core(r)
BY DEF Core, Shape, Standing, Pursued, SameOrders

LEMMA SetDirectionInv ==
  ASSUME Inv, NEW th \in Throttle, NEW dir \in Direction, SetDirection(th, dir)
  PROVE  /\ Inv'
         /\ \A v \in Powered : decoder[v].throttle # 0 /\ ~decoder[v].emergencyStop
              => decoder'[v].direction = decoder[v].direction
<1>. DEFINE t == acquired[th]
            turned == TurnMotors(Control, t, dir)
            r == [turned EXCEPT !.direction[t] = dir]
<1>1. t \in Train /\ active[t] /\ isStopped[t] /\ Becomes(r)
  BY DrivenTrain DEF SetDirection
<1>. HIDE DEF t
<1>2. Control \in ControlState /\ decoder \in [Vehicle -> Decoder]
  BY InvType DEF TypeOK
<1>3. turned = [Control EXCEPT !.decoder = [v \in Vehicle |->
                  IF v \in vehicles[t] \cap Powered THEN [decoder[v] EXCEPT !.direction = dir]
                  ELSE decoder[v]]]
  BY DEF TurnMotors, Motors, Control
<1>4. [v \in Vehicle |-> IF v \in vehicles[t] \cap Powered
                         THEN [decoder[v] EXCEPT !.direction = dir]
                         ELSE decoder[v]] \in [Vehicle -> Decoder]
  BY <1>2 DEF Decoder
<1>5. turned \in ControlState
  BY <1>2, <1>3, <1>4 DEF ControlState
<1>6. SameTrains(Control, turned) /\ SameOrders(Control, turned) /\ turned.speed = speed
      /\ turned.decoder = [v \in Vehicle |->
           IF v \in vehicles[t] \cap Powered THEN [decoder[v] EXCEPT !.direction = dir]
           ELSE decoder[v]]
  BY <1>3 DEF SameTrains, SameOrders, Control
<1>. HIDE DEF turned
<1>7. [turned.direction EXCEPT ![t] = dir] \in [Train -> Direction]
  BY <1>5 DEF ControlState
<1>8. r \in ControlState
  BY <1>5, <1>7 DEF ControlState
<1>9. /\ r.vehicles = vehicles /\ r.activeTrain = activeTrain /\ r.active = active
      /\ r.driver = driver /\ r.acquired = acquired /\ r.speed = speed
      /\ SameOrders(Control, r) /\ r.decoder = turned.decoder
  BY <1>5, <1>6 DEF SameTrains, SameOrders, ControlState, Control
<1>. HIDE DEF r
<1>10. \A v \in Vehicle : /\ r.decoder[v].throttle = decoder[v].throttle
                          /\ r.decoder[v].emergencyStop = decoder[v].emergencyStop
  BY <1>2, <1>6, <1>9 DEF Decoder
<1>11. Listed(r) /\ Runs(r)
  <2>1. Listed(Control) /\ Runs(Control)
    BY DEF Inv, Good, Core, Shape
  <2>2. QED
    BY <1>9, <1>10, <2>1, ControlAssumption DEF Listed, Runs, Control
<1>12. Core(r)
  <2>1. r.active = Control.active /\ r.speed = Control.speed
    BY <1>9 DEF Control
  <2>2. Core(Control)
    BY DEF Inv, Good
  <2>3. QED
    BY <1>8, <1>9, <1>11, <2>1, <2>2, VehiclesCore
<1>13. Good(r)
  BY <1>9, <1>12 DEF Inv, Good, Agree, Driven, Control
<1>14. Control' = r /\ decoder' = r.decoder
  BY <1>1, <1>8 DEF Becomes, Control, ControlState
<1>15. Inv'
  BY <1>13, <1>14 DEF Inv
<1>16. ASSUME NEW v \in Powered, decoder[v].throttle # 0, ~decoder[v].emergencyStop
       PROVE  decoder'[v].direction = decoder[v].direction
  <2>1. v \notin vehicles[t]
    BY <1>1, <1>16, StandingMotors
  <2>2. QED
    BY <1>6, <1>9, <1>14, <2>1, ControlAssumption
<1>17. QED
  BY <1>15, <1>16

LEMMA AddVehicleInv ==
  ASSUME Inv, NEW t \in Train, NEW v \in Vehicle, AddVehicle(t, v)
  PROVE  Inv' /\ NoneTurned
<1>. DEFINE r == [Control EXCEPT !.vehicles[t] = @ \cup {v},
                                 !.activeTrain[v] = IF active[t] THEN t ELSE @]
<1>1. /\ isStopped[t] /\ ~(active[t] /\ activeTrain[v] # NoTrain) /\ v \notin vehicles[t]
      /\ Becomes(r)
  BY DEF AddVehicle
<1>2. Control \in ControlState /\ TypeOK
  BY InvType
<1>3. /\ r.vehicles = [vehicles EXCEPT ![t] = vehicles[t] \cup {v}]
      /\ r.activeTrain = [activeTrain EXCEPT ![v] = IF active[t] THEN t ELSE activeTrain[v]]
      /\ r.active = active /\ r.driver = driver /\ r.acquired = acquired
      /\ r.speed = speed /\ r.decoder = decoder /\ SameOrders(Control, r)
  BY DEF SameOrders, Control
<1>4. r \in ControlState
  <2>1. [vehicles EXCEPT ![t] = vehicles[t] \cup {v}] \in [Train -> SUBSET Vehicle]
    BY <1>2 DEF TypeOK
  <2>2. [activeTrain EXCEPT ![v] = IF active[t] THEN t ELSE activeTrain[v]]
          \in [Vehicle -> Train \cup {NoTrain}]
    BY <1>2 DEF TypeOK
  <2>3. r = [Control EXCEPT
               !.vehicles = [vehicles EXCEPT ![t] = vehicles[t] \cup {v}],
               !.activeTrain = [activeTrain EXCEPT ![v] = IF active[t] THEN t ELSE activeTrain[v]]]
    BY DEF Control
  <2>4. QED
    BY <1>2, <2>1, <2>2, <2>3 DEF ControlState
<1>. HIDE DEF r
<1>5. /\ \A u \in Train, w \in Vehicle : activeTrain[w] = u <=> active[u] /\ w \in vehicles[u]
      /\ \A w \in Powered : ~decoder[w].emergencyStop =>
           decoder[w].throttle =
             IF activeTrain[w] = NoTrain THEN 0 ELSE Notch[speed[activeTrain[w]]]
  BY DEF Inv, Good, Core, Shape, Listed, Runs, Control
<1>6. Listed(r)
  BY <1>1, <1>2, <1>3, <1>5, ControlAssumption DEF Listed, TypeOK
<1>7. Runs(r)
  <2>1. SUFFICES ASSUME NEW w \in Powered, ~decoder[w].emergencyStop
                 PROVE  decoder[w].throttle =
                          IF r.activeTrain[w] = NoTrain THEN 0 ELSE Notch[speed[r.activeTrain[w]]]
    BY <1>3 DEF Runs
  <2>2. w \in Vehicle
    BY ControlAssumption
  <2>3. CASE w = v /\ active[t]
    <3>1. speed[t] = 0
      BY <1>1, <2>3, StandingMotors
    <3>2. decoder[w].throttle = 0 /\ r.activeTrain[w] = t
      BY <1>1, <1>2, <1>3, <1>5, <2>1, <2>3 DEF TypeOK
    <3>3. QED
      BY <3>1, <3>2, ControlAssumption
  <2>4. CASE ~(w = v /\ active[t])
    <3>1. r.activeTrain[w] = activeTrain[w]
      BY <1>2, <1>3, <2>2, <2>4 DEF TypeOK
    <3>2. QED
      BY <1>5, <2>1, <3>1
  <2>5. QED
    BY <2>3, <2>4
<1>8. Core(r)
  <2>1. r.active = Control.active /\ r.speed = Control.speed
    BY <1>3 DEF Control
  <2>2. Core(Control)
    BY DEF Inv, Good
  <2>3. QED
    BY <1>3, <1>4, <1>6, <1>7, <2>1, <2>2, VehiclesCore
<1>9. Step(Control, r)
  BY <1>3, <1>8 DEF Inv, Step, Good, Agree, Driven, Control
<1>10. QED
  BY <1>1, <1>9, BecomesStep

LEMMA RemoveVehicleInv ==
  ASSUME Inv, NEW t \in Train, NEW v \in Vehicle, RemoveVehicle(t, v)
  PROVE  Inv' /\ NoneTurned
<1>. DEFINE r == [Control EXCEPT !.vehicles[t] = @ \ {v},
                                 !.activeTrain[v] = IF @ = t THEN NoTrain ELSE @]
<1>1. isStopped[t] /\ v \in vehicles[t] /\ Becomes(r)
  BY DEF RemoveVehicle
<1>2. Control \in ControlState /\ TypeOK
  BY InvType
<1>3. /\ r.vehicles = [vehicles EXCEPT ![t] = vehicles[t] \ {v}]
      /\ r.activeTrain = [activeTrain EXCEPT ![v] =
                            IF activeTrain[v] = t THEN NoTrain ELSE activeTrain[v]]
      /\ r.active = active /\ r.driver = driver /\ r.acquired = acquired
      /\ r.speed = speed /\ r.decoder = decoder /\ SameOrders(Control, r)
  BY DEF SameOrders, Control
<1>4. r \in ControlState
  <2>1. [vehicles EXCEPT ![t] = vehicles[t] \ {v}] \in [Train -> SUBSET Vehicle]
    BY <1>2 DEF TypeOK
  <2>2. [activeTrain EXCEPT ![v] = IF activeTrain[v] = t THEN NoTrain ELSE activeTrain[v]]
          \in [Vehicle -> Train \cup {NoTrain}]
    BY <1>2 DEF TypeOK
  <2>3. r = [Control EXCEPT
               !.vehicles = [vehicles EXCEPT ![t] = vehicles[t] \ {v}],
               !.activeTrain = [activeTrain EXCEPT ![v] =
                                  IF activeTrain[v] = t THEN NoTrain ELSE activeTrain[v]]]
    BY DEF Control
  <2>4. QED
    BY <1>2, <2>1, <2>2, <2>3 DEF ControlState
<1>. HIDE DEF r
<1>5. /\ \A u \in Train, w \in Vehicle : activeTrain[w] = u <=> active[u] /\ w \in vehicles[u]
      /\ \A w \in Powered : ~decoder[w].emergencyStop =>
           decoder[w].throttle =
             IF activeTrain[w] = NoTrain THEN 0 ELSE Notch[speed[activeTrain[w]]]
  BY DEF Inv, Good, Core, Shape, Listed, Runs, Control
<1>6. Listed(r)
  BY <1>1, <1>2, <1>3, <1>5, ControlAssumption DEF Listed, TypeOK
<1>7. Runs(r)
  <2>1. SUFFICES ASSUME NEW w \in Powered, ~decoder[w].emergencyStop
                 PROVE  decoder[w].throttle =
                          IF r.activeTrain[w] = NoTrain THEN 0 ELSE Notch[speed[r.activeTrain[w]]]
    BY <1>3 DEF Runs
  <2>2. w \in Vehicle
    BY ControlAssumption
  <2>3. CASE w = v /\ activeTrain[v] = t
    <3>1. active[t]
      BY <1>5, <2>3
    <3>2. decoder[w].throttle = 0
      BY <1>1, <2>1, <2>3, <3>1, StandingMotors
    <3>3. r.activeTrain[w] = NoTrain
      BY <1>2, <1>3, <2>3 DEF TypeOK
    <3>4. QED
      BY <3>2, <3>3
  <2>4. CASE ~(w = v /\ activeTrain[v] = t)
    <3>1. r.activeTrain[w] = activeTrain[w]
      BY <1>2, <1>3, <2>2, <2>4 DEF TypeOK
    <3>2. QED
      BY <1>5, <2>1, <3>1
  <2>5. QED
    BY <2>3, <2>4
<1>8. Core(r)
  <2>1. r.active = Control.active /\ r.speed = Control.speed
    BY <1>3 DEF Control
  <2>2. Core(Control)
    BY DEF Inv, Good
  <2>3. QED
    BY <1>3, <1>4, <1>6, <1>7, <2>1, <2>2, VehiclesCore
<1>9. Step(Control, r)
  BY <1>3, <1>8 DEF Inv, Step, Good, Agree, Driven, Control
<1>10. QED
  BY <1>1, <1>9, BecomesStep

LEMMA TimerExpiresInv ==
  ASSUME Inv, NEW t \in Train, TimerExpires(t)
  PROVE  Inv' /\ NoneTurned
<1>. DEFINE r == [Control EXCEPT !.armed[t] = FALSE, !.due[t] = @ + 1]
<1>1. armed[t] /\ due[t] < MaxDue /\ Becomes(r)
  BY DEF TimerExpires
<1>2. Control \in ControlState /\ TypeOK /\ Core(Control)
  BY InvType DEF Inv, Good
<1>3. /\ r.vehicles = vehicles /\ r.activeTrain = activeTrain /\ r.active = active
      /\ r.driver = driver /\ r.acquired = acquired /\ r.speed = speed /\ r.decoder = decoder
      /\ r.emergencyStop = emergencyStop /\ r.throttleSpeed = throttleSpeed
      /\ r.isStopped = isStopped /\ r.speedState = speedState
      /\ r.armed = [armed EXCEPT ![t] = FALSE] /\ r.due = [due EXCEPT ![t] = due[t] + 1]
  BY DEF Control
<1>4. r \in ControlState
  <2>1. [armed EXCEPT ![t] = FALSE] \in [Train -> BOOLEAN]
    BY <1>2 DEF TypeOK
  <2>2. [due EXCEPT ![t] = due[t] + 1] \in [Train -> 0..MaxDue]
    BY <1>1, <1>2, ControlAssumption DEF TypeOK
  <2>3. r = [Control EXCEPT !.armed = [armed EXCEPT ![t] = FALSE],
                            !.due = [due EXCEPT ![t] = due[t] + 1]]
    BY DEF Control
  <2>4. QED
    BY <1>2, <2>1, <2>2, <2>3 DEF ControlState
<1>. HIDE DEF r
<1>5. Listed(r) /\ Runs(r) /\ \A u \in Train : Standing(r, u)
  BY <1>2, <1>3 DEF Core, Shape, Listed, Runs, Standing, Control
<1>6. ASSUME NEW u \in Train
      PROVE  Pursued(r, u)
  <2>1. speedState[u] # "idle" => speed[u] # 0 /\ (armed[u] \/ due[u] > 0)
    BY <1>2 DEF Core, Pursued, Control
  <2>2. due \in [Train -> 0..MaxDue] /\ MaxDue \in Nat
    BY <1>2, ControlAssumption DEF TypeOK
  <2>3. CASE u = t
    <3>1. r.due[u] > 0
      BY <1>3, <2>2, <2>3
    <3>2. QED
      BY <1>3, <2>1, <3>1 DEF Pursued
  <2>4. CASE u # t
    <3>1. r.due[u] = due[u] /\ r.armed[u] = armed[u]
      BY <1>2, <1>3, <2>4 DEF TypeOK
    <3>2. QED
      BY <1>3, <2>1, <3>1 DEF Pursued
  <2>5. QED
    BY <2>3, <2>4
<1>7. Core(r)
  BY <1>4, <1>5, <1>6 DEF Core, Shape
<1>8. Step(Control, r)
  <2>1. /\ r.driver = Control.driver /\ r.acquired = Control.acquired
        /\ r.active = Control.active /\ r.decoder = Control.decoder
    BY <1>3 DEF Control
  <2>2. Agree(Control) /\ Driven(Control)
    BY DEF Inv, Good
  <2>3. QED
    BY <1>7, <2>1, <2>2 DEF Step, Good, Agree, Driven
<1>9. QED
  BY <1>1, <1>8, BecomesStep

LEMMA TimerHandlerInv ==
  ASSUME Inv, NEW t \in Train, TimerHandler(t)
  PROVE  Inv' /\ NoneTurned
<1>. DEFINE k == [Control EXCEPT !.due[t] = @ - 1]
            r == UpdateSpeed(k, t)
<1>1. due[t] > 0 /\ Becomes(r)
  BY DEF TimerHandler
<1>2. Control \in ControlState /\ TypeOK /\ Core(Control)
  BY InvType DEF Inv, Good
<1>3. /\ k.vehicles = vehicles /\ k.activeTrain = activeTrain /\ k.active = active
      /\ k.driver = driver /\ k.acquired = acquired /\ k.speed = speed /\ k.decoder = decoder
      /\ k.emergencyStop = emergencyStop /\ k.throttleSpeed = throttleSpeed
      /\ k.isStopped = isStopped /\ k.speedState = speedState /\ k.armed = armed
      /\ k.due = [due EXCEPT ![t] = due[t] - 1]
  BY DEF Control
<1>4. k \in ControlState
  <2>1. [due EXCEPT ![t] = due[t] - 1] \in [Train -> 0..MaxDue]
    BY <1>1, <1>2, ControlAssumption DEF TypeOK
  <2>2. k = [Control EXCEPT !.due = [due EXCEPT ![t] = due[t] - 1]]
    BY DEF Control
  <2>3. QED
    BY <1>2, <2>1, <2>2 DEF ControlState
<1>. HIDE DEF k
<1>5. Shape(k)
  <2>1. /\ k.vehicles = Control.vehicles /\ k.activeTrain = Control.activeTrain
        /\ k.active = Control.active /\ k.speed = Control.speed
        /\ k.decoder = Control.decoder /\ k.emergencyStop = Control.emergencyStop
        /\ k.throttleSpeed = Control.throttleSpeed /\ k.isStopped = Control.isStopped
        /\ k.speedState = Control.speedState
    BY <1>3 DEF Control
  <2>2. Shape(Control)
    BY <1>2 DEF Core
  <2>3. QED
    BY <1>4, <2>1, <2>2 DEF Shape, Listed, Runs, Standing
<1>6. ASSUME NEW u \in Train \ {t}
      PROVE  Pursued(k, u)
  <2>1. k.due[u] = due[u]
    BY <1>2, <1>3 DEF TypeOK
  <2>2. QED
    BY <1>2, <1>3, <2>1 DEF Core, Pursued, Control
<1>7. Core(r) /\ Frame(k, r) /\ SameTrains(k, r)
  BY <1>5, <1>6, UpdateSpeedCore
<1>. HIDE DEF r
<1>8. Step(Control, r)
  BY <1>3, <1>7 DEF Inv, Step, Good, Agree, Driven, Frame, SameTrains, Control
<1>9. QED
  BY <1>1, <1>8, BecomesStep

LEMMA RestartInv ==
  ASSUME Inv, Restart
  PROVE  Inv' /\ \A v \in Vehicle : decoder'[v].throttle = 0
<1>1. /\ vehicles' = vehicles /\ activeTrain' = activeTrain /\ active' = active
      /\ driver' = [t \in Train |-> NoThrottle] /\ acquired' = [th \in Throttle |-> NoTrain]
      /\ inBlock' = inBlock /\ direction' = direction /\ emergencyStop' = emergencyStop
      /\ throttleSpeed' = throttleSpeed /\ speed' = [t \in Train |-> 0]
      /\ isStopped' = [t \in Train |-> TRUE] /\ speedState' = [t \in Train |-> "idle"]
      /\ armed' = [t \in Train |-> FALSE] /\ due' = [t \in Train |-> 0]
      /\ decoder' = [v \in Vehicle |->
           IF v \in Powered /\ activeTrain[v] # NoTrain
           THEN [NewDecoder EXCEPT !.direction = direction[activeTrain[v]]]
           ELSE NewDecoder]
  BY DEF Restart, Becomes, Control
<1>2. TypeOK /\ Core(Control)
  BY InvType DEF Inv, Good
<1>3. ASSUME NEW v \in Vehicle
      PROVE  decoder'[v] \in Decoder /\ decoder'[v].throttle = 0
  BY <1>1, <1>2 DEF TypeOK, NewDecoder, Decoder, Direction
<1>4. Control' \in ControlState
  <2>1. /\ vehicles' \in [Train -> SUBSET Vehicle]
        /\ activeTrain' \in [Vehicle -> Train \cup {NoTrain}]
        /\ active' \in [Train -> BOOLEAN] /\ inBlock' \in [Train -> BOOLEAN]
        /\ direction' \in [Train -> Direction] /\ emergencyStop' \in [Train -> BOOLEAN]
        /\ throttleSpeed' \in [Train -> Speed]
    BY <1>1, <1>2 DEF TypeOK
  <2>2. /\ driver' \in [Train -> Throttle \cup {NoThrottle}]
        /\ acquired' \in [Throttle -> Train \cup {NoTrain}]
        /\ speedState' \in [Train -> SpeedState]
        /\ isStopped' \in [Train -> BOOLEAN] /\ armed' \in [Train -> BOOLEAN]
    BY <1>1 DEF SpeedState
  <2>3. speed' \in [Train -> Speed] /\ due' \in [Train -> 0..MaxDue]
    BY <1>1, ControlAssumption DEF Speed
  <2>4. decoder' \in [Vehicle -> Decoder]
    BY <1>1, <1>3
  <2>5. QED
    BY <2>1, <2>2, <2>3, <2>4 DEF Control, ControlState
<1>5. Listed(Control')
  BY <1>1, <1>2 DEF Core, Shape, Listed, Control
<1>6. Runs(Control')
  <2>1. \A v \in Powered : activeTrain[v] \in Train \cup {NoTrain}
    BY <1>2, ControlAssumption DEF TypeOK
  <2>2. QED
    BY <1>1, <1>3, <2>1, ControlAssumption DEF Runs, Control
<1>7. ASSUME NEW t \in Train
      PROVE  Standing(Control', t) /\ Pursued(Control', t)
  <2>1. emergencyStop[t] => throttleSpeed[t] = 0
    BY <1>2 DEF Core, Shape, Standing, Control
  <2>2. QED
    BY <1>1, <2>1 DEF Standing, Pursued, Control
<1>8. Agree(Control') /\ Driven(Control')
  BY <1>1, ControlAssumption DEF Agree, Driven, Control
<1>9. QED
  BY <1>3, <1>4, <1>5, <1>6, <1>7, <1>8 DEF Inv, Good, Core, Shape

-----------------------------------------------------------------------------
LEMMA InitInv == Init => Inv
<1>. SUFFICES ASSUME Init PROVE Inv
  OBVIOUS
<1>1. NewDecoder \in Decoder
  BY DEF NewDecoder, Decoder, Direction
<1>2. Control \in ControlState
  <2>1. 0 \in Speed /\ 0 \in 0..MaxDue
    BY ControlAssumption DEF Speed
  <2>2. QED
    BY <1>1, <2>1 DEF Init, Control, ControlState, Direction, SpeedState
<1>3. Listed(Control) /\ Runs(Control)
  BY ControlAssumption DEF Init, Control, Listed, Runs, NewDecoder
<1>4. \A t \in Train : Standing(Control, t) /\ Pursued(Control, t)
  BY DEF Init, Control, Standing, Pursued
<1>5. Agree(Control) /\ Driven(Control)
  BY ControlAssumption DEF Init, Control, Agree, Driven
<1>6. QED
  BY <1>2, <1>3, <1>4, <1>5 DEF Inv, Good, Core, Shape

\* What a step leaves of the decoders that run.
KeepsRunning ==
  \A v \in Powered : decoder[v].throttle # 0 /\ ~decoder[v].emergencyStop
    => decoder'[v].direction = decoder[v].direction \/ decoder'[v].throttle = 0

LEMMA StepInv == Inv /\ [Next]_vars => Inv' /\ KeepsRunning
<1>. SUFFICES ASSUME Inv, [Next]_vars PROVE Inv' /\ KeepsRunning
  OBVIOUS
<1>1. NoneTurned => KeepsRunning
  BY ControlAssumption DEF NoneTurned, KeepsRunning
<1>2. CASE UNCHANGED vars
  <2>1. Control' = Control /\ decoder' = decoder
    BY <1>2 DEF vars, Control
  <2>2. QED
    BY <2>1 DEF Inv, KeepsRunning
<1>3. CASE ThrottleStep
  <2>1. PICK th \in Throttle :
          \/ \E t \in Train, steal \in BOOLEAN : Acquire(th, t, steal)
          \/ \E stopIt \in BOOLEAN : ReleaseThrottle(th, stopIt)
          \/ \E s \in Speed : SetTargetSpeed(th, s) \/ SetSpeedAtOnce(th, s)
          \/ \E dir \in Direction : SetDirection(th, dir)
    BY <1>3 DEF ThrottleStep
  <2>2. CASE \E t \in Train, steal \in BOOLEAN : Acquire(th, t, steal)
    BY <1>1, <2>2, AcquireInv
  <2>3. CASE \E stopIt \in BOOLEAN : ReleaseThrottle(th, stopIt)
    BY <1>1, <2>3, ReleaseThrottleInv
  <2>4. CASE \E s \in Speed : SetTargetSpeed(th, s) \/ SetSpeedAtOnce(th, s)
    BY <1>1, <2>4, SetTargetSpeedInv, SetSpeedAtOnceInv
  <2>5. CASE \E dir \in Direction : SetDirection(th, dir)
    BY <2>5, SetDirectionInv DEF KeepsRunning
  <2>6. QED
    BY <2>1, <2>2, <2>3, <2>4, <2>5
<1>4. CASE TrainStep
  <2>1. PICK t \in Train :
          \/ \E value \in BOOLEAN : SetActive(t, value) \/ EmergencyStop(t, value)
          \/ Stop(t) \/ AssignTrain(t) \/ RemoveTrain(t)
          \/ \E v \in Vehicle : AddVehicle(t, v) \/ RemoveVehicle(t, v)
    BY <1>4 DEF TrainStep
  <2>2. CASE \E value \in BOOLEAN : SetActive(t, value) \/ EmergencyStop(t, value)
    BY <1>1, <2>2, SetActiveInv, EmergencyStopInv
  <2>3. CASE Stop(t) \/ AssignTrain(t) \/ RemoveTrain(t)
    BY <1>1, <2>3, StopInv, AssignTrainInv, RemoveTrainInv
  <2>4. CASE \E v \in Vehicle : AddVehicle(t, v) \/ RemoveVehicle(t, v)
    BY <1>1, <2>4, AddVehicleInv, RemoveVehicleInv
  <2>5. QED
    BY <2>1, <2>2, <2>3, <2>4
<1>5. CASE TimerStep
  BY <1>1, <1>5, TimerExpiresInv, TimerHandlerInv DEF TimerStep
<1>6. CASE Restart
  BY <1>6, RestartInv, ControlAssumption DEF KeepsRunning
<1>7. QED
  BY <1>2, <1>3, <1>4, <1>5, <1>6 DEF Next

LEMMA InvAlways == Spec => []Inv
<1>1. Inv /\ [Next]_vars => Inv'
  BY StepInv
<1>2. QED
  BY <1>1, InitInv, PTL DEF Spec

\* Trains, vehicles, throttles and decoders keep their types.
THEOREM ControlTypeCorrect == Spec => []TypeOK
<1>1. Inv => TypeOK
  BY InvType
<1>2. QED
  BY <1>1, InvAlways, PTL

\* A vehicle is in its active train and in no other active one, however trains share
\* vehicles, are composed, activated, stolen and restarted.
THEOREM OneActiveTrainAlways == Spec => []OneActiveTrain
<1>1. Inv => OneActiveTrain
  BY DEF Inv, Good, Core, Shape, Listed, OneActiveTrain, Control
<1>2. QED
  BY <1>1, InvAlways, PTL

\* Train and throttle agree and a driven train is active, for every number of both,
\* through every steal, failed activation and deactivation.
THEOREM OneThrottleAlways == Spec => []OneThrottle
<1>1. Inv => OneThrottle
  BY DEF Inv, Good, Agree, Driven, OneThrottle, Control
<1>2. QED
  BY <1>1, InvAlways, PTL

\* A train says that it is stopped if and only if its speed is zero, on every curve.
THEOREM StoppedAlwaysTold == Spec => []StoppedIsTold
<1>1. Inv => StoppedIsTold
  BY DEF Inv, Good, Core, Shape, Standing, StoppedIsTold, Control
<1>2. QED
  BY <1>1, InvAlways, PTL

\* A train in emergency stop stands and is not about to move.
THEOREM EmergencyStopAlwaysHeld == Spec => []EmergencyStopHeld
<1>1. Inv => EmergencyStopHeld
  BY DEF Inv, Good, Core, Shape, Standing, EmergencyStopHeld, Control
<1>2. QED
  BY <1>1, InvAlways, PTL

\* A decoder that is not in emergency stop runs at its active train's speed.
THEOREM AlwaysRunsWithTrain == Spec => []RunsWithTrain
<1>1. Inv => RunsWithTrain
  BY DEF Inv, Good, Core, Shape, Runs, RunsWithTrain, Control
<1>2. QED
  BY <1>1, InvAlways, PTL

\* A train on its way to another speed is active and has someone who goes on with it.
THEOREM SpeedAlwaysPursued == Spec => []SpeedPursued
<1>1. Inv => SpeedPursued
  BY DEF Inv, Good, Core, Shape, Standing, Pursued, SpeedPursued, Control
<1>2. QED
  BY <1>1, InvAlways, PTL

\* No step of anybody turns a decoder that goes on running.
THEOREM RunningNeverReversed == Spec => RunningNotReversed
<1>1. Inv /\ [Next]_vars => [KeepsRunning]_vars
  BY StepInv
<1>2. Spec => [][KeepsRunning]_vars
  BY <1>1, InvAlways, PTL DEF Spec
<1>3. QED
  BY <1>2 DEF RunningNotReversed, KeepsRunning
===========================================================================
