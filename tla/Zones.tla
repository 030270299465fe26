------------------------------- MODULE Zones -------------------------------
(***************************************************************************)
(* The zones that blocks belong to: what train/traintracking.cpp derives   *)
(* from the block list of a train each time a train is assigned, reserves, *)
(* enters, leaves or is removed, and the muting of trains that follows     *)
(* from it. Every action is one of Interlocking with what its handler does *)
(* to the statuses of zones. Smoke and speed limits are updated beside     *)
(* mute, at the same places; the world's own mute is off.                  *)
(***************************************************************************)
EXTENDS Interlocking

CONSTANTS
  Zone,
  ZonesOf,    \* BlockRailTile::zones, [Block -> SUBSET Zone]
  Muting      \* zones with Zone::mute

ASSUME ZoneAssumption == ZonesOf \in [Block -> SUBSET Zone] /\ Muting \subseteq Zone

VARIABLES
  zoneState,  \* TrainZoneStatus::state of a train in a zone, "none" without status
  mute,       \* Train::mute
  zoneFault   \* a zone status that does not exist has been dereferenced

zoneVars == <<zoneState, mute, zoneFault>>
allVars == <<vars, zoneVars>>

ZoneTrainState == {"none", "entering", "entered", "leaving"}

Zones == [state |-> zoneState, mute |-> mute, fault |-> zoneFault]

BecomesZones(z) ==
  /\ zoneState' = z.state
  /\ mute' = z.mute
  /\ zoneFault' = z.fault

-----------------------------------------------------------------------------
(* The checks of TrainTracking, for train t and block b.                   *)

\* Fault: only the zones that have changed are asked.
UpdateMuteFromChanged(z, t, ys) ==
  IF ys \cap Muting = {} THEN z
  ELSE [z EXCEPT !.mute[t] = \E y \in Muting \cap ys : z.state[t][y] # "none"]

\* trainEnteredOrLeftZone for the zones ys: updateMute asks for any status at all.
UpdateMute(z, t, ys) ==
  IF ys \cap Muting = {} THEN z
  ELSE [z EXCEPT !.mute[t] = \E y \in Muting : z.state[t][y] # "none"]

SetZones(z, t, ys, s) ==
  [z EXCEPT !.state[t] = [y \in Zone |-> IF y \in ys THEN s ELSE z.state[t][y]]]

CheckZoneAssigned(z, t, b) ==
  LET ys == {y \in ZonesOf[b] : z.state[t][y] = "none"}
  IN  UpdateMute(SetZones(z, t, ys, "entered"), t, ys)

CheckZoneEntering(z, t, b) ==
  SetZones(z, t, {y \in ZonesOf[b] : z.state[t][y] \in {"none", "leaving"}}, "entering")

CheckZoneEntered(z, t, b) ==
  LET ys == {y \in ZonesOf[b] : z.state[t][y] # "entered"}
  IN  UpdateMute(SetZones(z, t, ys, "entered"), t, ys)

CheckZoneLeaving(z, t, b) ==
  SetZones(z, t, {y \in Zone \ ZonesOf[b] : z.state[t][y] # "none"}, "leaving")

InZone(bs, y) == \E i \in DOMAIN bs : y \in ZonesOf[bs[i]]

\* Fault: the train's other blocks are not looked at.
CheckZoneLeftAnyway(z, t, b, bs) ==
  UpdateMute(SetZones(z, t, ZonesOf[b], "none"), t, ZonesOf[b])

\* checkZoneLeft and checkZoneRemoved: removeTrainIfNotInZone with bs the blocks that
\* the train is still in. A train that is in no block of the zone must have a status.
CheckZoneLeft(z, t, b, bs) ==
  LET ys == {y \in ZonesOf[b] : ~InZone(bs, y)}
      faulty == \E y \in ys : z.state[t][y] = "none"
  IN  UpdateMute([SetZones(z, t, ys, "none") EXCEPT !.fault = @ \/ faulty], t, ys)

\* left, with bs the blocks the train had: one entry of b is gone, and the block that
\* is left counts as entered first.
LeftZones(z, t, b, bs) ==
  CheckZoneLeft(CheckZoneEntered(z, t, b), t, b, RemoveFirst(bs, b))

\* One turn of enter's loop, on the tracking and the zones.
ReleaseTailZones(s, t, values) ==
  LET k == ReleaseTail(s.tracking, t, values)
      bs == s.tracking.blocks[t]
  IN  [tracking |-> k,
       zones |-> IF k.blocks[t] = bs THEN s.zones ELSE LeftZones(s.zones, t, Last(bs), bs)]

EnterZones(z, k, t, b, values) ==
  LET s == [tracking |-> [k EXCEPT !.blocks[t] = <<b>> \o @],
            zones |-> CheckZoneEntered(CheckZoneEntering(z, t, b), t, b)]
      tail(r) == ReleaseTailZones(r, t, values)
  IN  tail(tail(tail(s))).zones

-----------------------------------------------------------------------------
(* The handlers.                                                           *)

\* TrainTracking::reserve is called for a block that was free.
ReserveZones(z, t, b) ==
  IF state[b] = "free" THEN CheckZoneEntering(CheckZoneLeaving(z, t, b), t, b) ELSE z

ZReserve(p) ==
  /\ Reserve(p)
  /\ LET t == StatusAt(trains[From[p]], FromSide[p]).train
     IN  BecomesZones(ReserveZones(ReserveZones(Zones, t, From[p]), t, To[p]))

\* A release that takes the status from the block ahead calls removed for its train.
ReleaseZones(p) ==
  LET b == To[p]
      t == trains[b][1].train
  IN  BecomesZones(IF trains'[b] = trains[b] THEN Zones
                   ELSE CheckZoneLeft(Zones, t, b, RemoveFirst(blocks[t], b)))

ZUserRelease(p) == UserRelease(p) /\ ReleaseZones(p)
ZTimerHandler(p) == TimerHandler(p) /\ ReleaseZones(p)
ZTimerExpires(p) == TimerExpires(p) /\ UNCHANGED zoneVars

ZAssignTrain(b, t, dir) == AssignTrain(b, t, dir) /\ BecomesZones(CheckZoneAssigned(Zones, t, b))

ZRemoveTrain(b, t) ==
  /\ RemoveTrain(b, t)
  /\ BecomesZones(CheckZoneLeft(Zones, t, b, RemoveFirst(blocks[t], b)))

\* A surprise announces that the train leaves the zones it is in, then it enters.
SensorOccupiedZones(b, i, moving) ==
  LET values == [sensor EXCEPT ![b][i] = "occupied"]
      t == SurprisingTrain(b, i, moving)
      side == ToSide[SurprisePath(b, i, moving)]
  IN  IF Surprise(b, i, moving)
      THEN EnterZones(CheckZoneLeaving(Zones, t, b),
                      AddStatus(Tracking, b, t, AwayFrom(side)), t, b, values)
      ELSE IF Announced(b, i) /\ AnnouncedTrain(b, i) # NoTrain
      THEN EnterZones(Zones, Tracking, AnnouncedTrain(b, i), b, values)
      ELSE Zones

ZSensorOccupied(b, i, moving) ==
  SensorOccupied(b, i, moving) /\ BecomesZones(SensorOccupiedZones(b, i, moving))

ZSensorFree(b, i) ==
  /\ SensorFree(b, i)
  /\ LET t == trains[b][1].train
     IN  BecomesZones(IF trains'[b] = trains[b] THEN Zones
                      ELSE LeftZones(Zones, t, b, blocks[t]))

ZInit ==
  /\ Init
  /\ zoneState = [t \in Train |-> [y \in Zone |-> "none"]]
  /\ mute = [t \in Train |-> FALSE]
  /\ zoneFault = FALSE

ZPathStep == \E p \in Path : ZReserve(p) \/ ZUserRelease(p) \/ ZTimerHandler(p)

ZUserStep ==
  \/ \E b \in Block, t \in Train :
       ZRemoveTrain(b, t) \/ \E dir \in TrainDirection : ZAssignTrain(b, t, dir)
  \/ /\ \/ \E b \in Block : FlipTrain(b) \/ SetStateFree(b)
        \/ \E t \in Train : SetDirection(t)
        \/ \E e \in Element : \E v \in Values[e] : SetPosition(e, v)
     /\ UNCHANGED zoneVars

ZDetectorStep ==
  \/ \E b \in Block : \E i \in 1..Inputs[b] :
       ZSensorFree(b, i) \/ \E moving \in SUBSET ManualUnprotected : ZSensorOccupied(b, i, moving)
  \/ /\ \/ \E b \in Block : IdentificationAbsent(b)
        \/ \E b \in Block, dir \in TrainDirection : IdentificationPresent(b, dir)
     /\ UNCHANGED zoneVars

Stopped == Halted \/ zoneFault

ZNext ==
  /\ ~Stopped
  /\ ZPathStep \/ ZUserStep \/ ZDetectorStep \/ \E p \in Path : ZTimerExpires(p)
  /\ Cardinality(Scheduled') <= MaxScheduled

ZSpec == ZInit /\ [][ZNext]_allVars

\* The io_context fires every timer that nobody cancels and runs every due handler.
ZFairSpec ==
  /\ ZSpec
  /\ \A p \in Path : WF_allVars(~Stopped /\ ZTimerHandler(p))
  /\ \A p \in Path : WF_allVars(~Stopped /\ ZTimerExpires(p))

-----------------------------------------------------------------------------
(* Properties.                                                             *)

\* Every variable of the zones keeps the shape of the class members it stands for.
ZTypeOK ==
  /\ zoneState \in [Train -> [Zone -> ZoneTrainState]]
  /\ mute \in [Train -> BOOLEAN]
  /\ zoneFault \in BOOLEAN

\* A zone knows every train that is in one of its blocks, however many blocks of how
\* many zones the train spans, and whichever of them it gives up, is removed from, or
\* has reserved and released in between.
ZoneKnown ==
  \A t \in Train, y \in Zone : InZone(blocks[t], y) => zoneState[t][y] # "none"

\* Mute is never stale: a train that has entered a zone that mutes is muted, and
\* one that is muted has to do with such a zone. It is evaluated when a train has
\* entered or left, not when a status comes, turns or goes.
MuteCurrent ==
  \A t \in Train :
    /\ (\E y \in Muting : zoneState[t][y] = "entered") => mute[t]
    /\ mute[t] => \E y \in Muting : zoneState[t][y] # "none"

\* A scheduled release is carried out, unless the train turns out to stand at both
\* ends of the path, when release refuses it.
DelayedReleaseEnds ==
  \A p \in Path : timer[p] = "armed" ~>
    \/ timer[p] # "armed" /\ ~isReserved[p]
    \/ Unsure(From[p]) /\ Unsure(To[p])
    \/ Stopped
=============================================================================
