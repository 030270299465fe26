----------------------------- MODULE ZoneProofs -----------------------------
(***************************************************************************)
(* What holds of zones on every layout, with any zones: whatever order     *)
(* trains reserve, enter, leave and are removed in, a zone knows the       *)
(* trains that are in its blocks, and mute follows the statuses.           *)
(***************************************************************************)
EXTENDS Zones, InterlockingProofs

ZoneRecord ==
  [state : [Train -> [Zone -> ZoneTrainState]], mute : [Train -> BOOLEAN], fault : BOOLEAN]

MuteOf(z, t) ==
  /\ (\E y \in Muting : z.state[t][y] = "entered") => z.mute[t]
  /\ z.mute[t] => \E y \in Muting : z.state[t][y] # "none"

\* What every check of TrainTracking keeps.
Sane(z) == z \in ZoneRecord /\ \A t \in Train : MuteOf(z, t)

\* The statuses of other trains are as before, and train t has those of the zones Y still.
KeepsZones(z, r, t, Y) ==
  /\ Sane(r)
  /\ \A u \in Train \ {t} : r.state[u] = z.state[u]
  /\ \A y \in Y : z.state[t][y] # "none" => r.state[t][y] # "none"

Known(z, bl) ==
  \A t \in Train, y \in Zone : InZone(bl[t], y) => z.state[t][y] # "none"

-----------------------------------------------------------------------------
(* The checks.                                                             *)

LEMMA SetZonesEffect ==
  ASSUME NEW z \in ZoneRecord, NEW t \in Train, NEW ys, NEW s \in ZoneTrainState
  PROVE  /\ SetZones(z, t, ys, s) \in ZoneRecord
         /\ \A u \in Train \ {t} : SetZones(z, t, ys, s).state[u] = z.state[u]
         /\ \A y \in Zone : SetZones(z, t, ys, s).state[t][y] =
                              IF y \in ys THEN s ELSE z.state[t][y]
         /\ SetZones(z, t, ys, s).mute = z.mute
<1> DEFINE new == [y \in Zone |-> IF y \in ys THEN s ELSE z.state[t][y]]
<1>1. new \in [Zone -> ZoneTrainState]
  BY DEF ZoneRecord
<1>2. \A y \in Zone : new[y] = IF y \in ys THEN s ELSE z.state[t][y]
  OBVIOUS
<1>3. SetZones(z, t, ys, s) = [z EXCEPT !.state[t] = new]
  BY DEF SetZones
<1> DEFINE states == [z.state EXCEPT ![t] = new]
           after == [z EXCEPT !.state = states]
<1> HIDE DEF new
<1>4. SetZones(z, t, ys, s) = after
  BY <1>3 DEF ZoneRecord
<1>5. /\ states \in [Train -> [Zone -> ZoneTrainState]]
      /\ states[t] = new /\ \A u \in Train \ {t} : states[u] = z.state[u]
  BY <1>1 DEF ZoneRecord
<1> HIDE DEF states
<1>6. after \in ZoneRecord /\ after.state = states /\ after.mute = z.mute
  BY <1>5 DEF ZoneRecord
<1> QED
  BY <1>2, <1>4, <1>5, <1>6

LEMMA UpdateMuteEffect ==
  ASSUME NEW z \in ZoneRecord, NEW t \in Train, NEW ys
  PROVE  /\ UpdateMute(z, t, ys) \in ZoneRecord
         /\ UpdateMute(z, t, ys).state = z.state
         /\ \A u \in Train \ {t} : UpdateMute(z, t, ys).mute[u] = z.mute[u]
         /\ IF ys \cap Muting = {} THEN UpdateMute(z, t, ys).mute[t] = z.mute[t]
            ELSE UpdateMute(z, t, ys).mute[t] <=> \E y \in Muting : z.state[t][y] # "none"
<1> DEFINE m == \E y \in Muting : z.state[t][y] # "none"
<1>1. m \in BOOLEAN
  OBVIOUS
<1>2. UpdateMute(z, t, ys) = IF ys \cap Muting = {} THEN z ELSE [z EXCEPT !.mute[t] = m]
  BY DEF UpdateMute
<1> HIDE DEF m
<1>3. CASE ys \cap Muting = {}
  BY <1>2, <1>3
<1>4. CASE ys \cap Muting # {}
  <2>1. UpdateMute(z, t, ys) = [z EXCEPT !.mute[t] = m]
    BY <1>2, <1>4
  <2>2. [z EXCEPT !.mute[t] = m] \in ZoneRecord
    BY <1>1 DEF ZoneRecord
  <2>3. /\ [z EXCEPT !.mute[t] = m].state = z.state
        /\ \A u \in Train \ {t} : [z EXCEPT !.mute[t] = m].mute[u] = z.mute[u]
        /\ [z EXCEPT !.mute[t] = m].mute[t] = m
    BY DEF ZoneRecord
  <2> QED
    BY <1>4, <2>1, <2>2, <2>3 DEF m
<1> QED
  BY <1>3, <1>4

\* A check that gives the zones ys a status and then evaluates their limitations.
LEMMA SetAndMute ==
  ASSUME NEW z, Sane(z), NEW t \in Train, NEW ys, NEW s \in ZoneTrainState, NEW r,
         r = UpdateMute(SetZones(z, t, ys, s), t, ys)
  PROVE  /\ Sane(r)
         /\ \A u \in Train \ {t} : r.state[u] = z.state[u]
         /\ \A y \in Zone : r.state[t][y] = IF y \in ys THEN s ELSE z.state[t][y]
<1> DEFINE n == SetZones(z, t, ys, s)
<1>1. z \in ZoneRecord /\ \A u \in Train : MuteOf(z, u)
  BY DEF Sane
<1>2. /\ n \in ZoneRecord
      /\ \A u \in Train \ {t} : n.state[u] = z.state[u]
      /\ \A y \in Zone : n.state[t][y] = IF y \in ys THEN s ELSE z.state[t][y]
      /\ n.mute = z.mute
  BY <1>1, SetZonesEffect
<1>3. r = UpdateMute(n, t, ys)
  OBVIOUS
<1> HIDE DEF n
<1>4. /\ r \in ZoneRecord
      /\ r.state = n.state
      /\ \A u \in Train \ {t} : r.mute[u] = n.mute[u]
      /\ IF ys \cap Muting = {} THEN r.mute[t] = n.mute[t]
         ELSE r.mute[t] <=> \E y \in Muting : n.state[t][y] # "none"
  BY <1>2, <1>3, UpdateMuteEffect
<1>5. \A u \in Train \ {t} : MuteOf(r, u)
  BY <1>1, <1>2, <1>4 DEF MuteOf
<1>6. CASE ys \cap Muting = {}
  <2>1. \A y \in Muting : n.state[t][y] = z.state[t][y]
    BY <1>2, <1>6, ZoneAssumption
  <2> QED
    BY <1>1, <1>2, <1>4, <1>5, <1>6, <2>1 DEF MuteOf, Sane
<1>7. CASE ys \cap Muting # {}
  <2>1. (\E y \in Muting : n.state[t][y] = "entered") => \E y \in Muting : n.state[t][y] # "none"
    OBVIOUS
  <2>2. MuteOf(r, t)
    BY <1>4, <1>7, <2>1 DEF MuteOf
  <2> QED
    BY <1>2, <1>4, <1>5, <2>2 DEF Sane
<1> QED
  BY <1>6, <1>7

\* A check that turns or adds statuses, none of them to entered or from it to none.
LEMMA SetOnly ==
  ASSUME NEW z, Sane(z), NEW t \in Train, NEW ys, NEW s \in {"entering", "leaving"}
  PROVE  KeepsZones(z, SetZones(z, t, ys, s), t, Zone)
<1> DEFINE r == SetZones(z, t, ys, s)
<1>1. z \in ZoneRecord /\ \A u \in Train : MuteOf(z, u)
  BY DEF Sane
<1>2. s \in ZoneTrainState /\ s # "none" /\ s # "entered"
  BY DEF ZoneTrainState
<1>3. /\ r \in ZoneRecord
      /\ \A u \in Train \ {t} : r.state[u] = z.state[u]
      /\ \A y \in Zone : r.state[t][y] = IF y \in ys THEN s ELSE z.state[t][y]
      /\ r.mute = z.mute
  BY <1>1, <1>2, SetZonesEffect
<1> HIDE DEF r
<1>4. \A u \in Train \ {t} : MuteOf(r, u)
  BY <1>1, <1>3 DEF MuteOf
<1>5. \A y \in Muting : /\ r.state[t][y] = "entered" => z.state[t][y] = "entered"
                        /\ z.state[t][y] # "none" => r.state[t][y] # "none"
  BY <1>2, <1>3, ZoneAssumption
<1>6. MuteOf(r, t)
  BY <1>1, <1>3, <1>5 DEF MuteOf
<1> QED
  BY <1>2, <1>3, <1>4, <1>6 DEF KeepsZones, Sane, r

LEMMA EnteringKeeps ==
  ASSUME NEW z, Sane(z), NEW t \in Train, NEW b
  PROVE  KeepsZones(z, CheckZoneEntering(z, t, b), t, Zone)
BY SetOnly DEF CheckZoneEntering

LEMMA LeavingKeeps ==
  ASSUME NEW z, Sane(z), NEW t \in Train, NEW b
  PROVE  KeepsZones(z, CheckZoneLeaving(z, t, b), t, Zone)
BY SetOnly DEF CheckZoneLeaving

LEMMA EnteredKeeps ==
  ASSUME NEW z, Sane(z), NEW t \in Train, NEW b \in Block
  PROVE  /\ KeepsZones(z, CheckZoneEntered(z, t, b), t, Zone)
         /\ \A y \in ZonesOf[b] : CheckZoneEntered(z, t, b).state[t][y] # "none"
<1> DEFINE ys == {y \in ZonesOf[b] : z.state[t][y] # "entered"}
           r == CheckZoneEntered(z, t, b)
<1>1. r = UpdateMute(SetZones(z, t, ys, "entered"), t, ys)
  BY DEF CheckZoneEntered
<1>2. \A y \in ZonesOf[b] : y \in Zone /\ (y \notin ys => z.state[t][y] = "entered")
  BY ZoneAssumption
<1> HIDE DEF ys, r
<1>3. "entered" \in ZoneTrainState
  BY DEF ZoneTrainState
<1>4. /\ Sane(r)
      /\ \A u \in Train \ {t} : r.state[u] = z.state[u]
      /\ \A y \in Zone : r.state[t][y] = IF y \in ys THEN "entered" ELSE z.state[t][y]
  BY <1>1, <1>3, SetAndMute
<1> QED
  BY <1>2, <1>4 DEF KeepsZones, r

LEMMA AssignedKeeps ==
  ASSUME NEW z, Sane(z), NEW t \in Train, NEW b \in Block
  PROVE  /\ KeepsZones(z, CheckZoneAssigned(z, t, b), t, Zone)
         /\ \A y \in ZonesOf[b] : CheckZoneAssigned(z, t, b).state[t][y] # "none"
<1> DEFINE ys == {y \in ZonesOf[b] : z.state[t][y] = "none"}
           r == CheckZoneAssigned(z, t, b)
<1>1. r = UpdateMute(SetZones(z, t, ys, "entered"), t, ys)
  BY DEF CheckZoneAssigned
<1>2. \A y \in ZonesOf[b] : y \in Zone /\ (y \notin ys => z.state[t][y] # "none")
  BY ZoneAssumption
<1> HIDE DEF ys, r
<1>3. "entered" \in ZoneTrainState
  BY DEF ZoneTrainState
<1>4. /\ Sane(r)
      /\ \A u \in Train \ {t} : r.state[u] = z.state[u]
      /\ \A y \in Zone : r.state[t][y] = IF y \in ys THEN "entered" ELSE z.state[t][y]
  BY <1>1, <1>3, SetAndMute
<1> QED
  BY <1>2, <1>4 DEF KeepsZones, r

\* Only zones that the train has no block in lose their status.
LEMMA LeftKeeps ==
  ASSUME NEW z, Sane(z), NEW t \in Train, NEW b \in Block, NEW bs
  PROVE  KeepsZones(z, CheckZoneLeft(z, t, b, bs), t, {y \in Zone : InZone(bs, y)})
<1> DEFINE ys == {y \in ZonesOf[b] : ~InZone(bs, y)}
           n == SetZones(z, t, ys, "none")
           f == n.fault \/ \E y \in ys : z.state[t][y] = "none"
           r == CheckZoneLeft(z, t, b, bs)
           q == UpdateMute(n, t, ys)
<1>1. r = UpdateMute([n EXCEPT !.fault = f], t, ys)
  BY DEF CheckZoneLeft
<1>2. n \in ZoneRecord
  BY SetZonesEffect DEF Sane, ZoneTrainState
<1>3. f \in BOOLEAN
  OBVIOUS
<1>4. "none" \in ZoneTrainState
  BY DEF ZoneTrainState
<1>5. /\ Sane(q)
      /\ \A u \in Train \ {t} : q.state[u] = z.state[u]
      /\ \A y \in Zone : q.state[t][y] = IF y \in ys THEN "none" ELSE z.state[t][y]
  BY <1>4, SetAndMute
<1>6. r = [q EXCEPT !.fault = f]
  <2> HIDE DEF n, f, ys
  <2> QED
    BY <1>1, <1>2 DEF UpdateMute, ZoneRecord
<1>7. \A y \in ys : ~InZone(bs, y)
  OBVIOUS
<1> HIDE DEF n, f, ys, q, r
<1>8. r \in ZoneRecord /\ r.state = q.state /\ r.mute = q.mute
  BY <1>3, <1>5, <1>6 DEF Sane, ZoneRecord
<1>9. Sane(r)
  BY <1>5, <1>8 DEF Sane, MuteOf
<1> QED
  BY <1>5, <1>7, <1>8, <1>9 DEF KeepsZones, r

-----------------------------------------------------------------------------
(* Blocks come and go.                                                     *)

LEMMA InZoneRemoveFirst ==
  ASSUME NEW bs \in Seq(Block), NEW b, NEW y, InZone(RemoveFirst(bs, b), y)
  PROVE  InZone(bs, y)
<1> DEFINE S == {bs[i] : i \in DOMAIN bs}
           r == RemoveFirst(bs, b)
<1>1. bs \in Seq(S)
  OBVIOUS
<1>2. r \in Seq(S)
  BY <1>1, RemoveFirstType
<1>3. PICK i \in DOMAIN r : y \in ZonesOf[r[i]]
  BY DEF InZone
<1> HIDE DEF r
<1>4. r[i] \in S
  BY <1>2, <1>3
<1> QED
  BY <1>3, <1>4 DEF InZone

LEMMA InZoneReverse ==
  ASSUME NEW bs \in Seq(Block), NEW y, InZone(Reverse(bs), y)
  PROVE  InZone(bs, y)
<1> DEFINE S == {bs[i] : i \in DOMAIN bs}
           r == Reverse(bs)
<1>1. bs \in Seq(S)
  OBVIOUS
<1>2. r \in Seq(S)
  BY <1>1, ReverseType
<1>3. PICK i \in DOMAIN r : y \in ZonesOf[r[i]]
  BY DEF InZone
<1> HIDE DEF r
<1>4. r[i] \in S
  BY <1>2, <1>3
<1> QED
  BY <1>3, <1>4 DEF InZone

LEMMA InZoneHead ==
  ASSUME NEW bs \in Seq(Block), NEW b \in Block, NEW y, InZone(<<b>> \o bs, y)
  PROVE  y \in ZonesOf[b] \/ InZone(bs, y)
<1>1. PICK i \in DOMAIN (<<b>> \o bs) : y \in ZonesOf[(<<b>> \o bs)[i]]
  BY DEF InZone
<1>2. CASE i = 1
  BY <1>1, <1>2
<1>3. CASE i # 1
  <2>1. i - 1 \in DOMAIN bs /\ (<<b>> \o bs)[i] = bs[i - 1]
    BY <1>1, <1>3
  <2> QED
    BY <1>1, <2>1 DEF InZone
<1> QED
  BY <1>2, <1>3

\* What becomes of the statuses when the list of one train changes.
LEMMA KnownAfter ==
  ASSUME NEW z, NEW r, NEW t \in Train, NEW Y, NEW bl, NEW bl2,
         Known(z, bl), KeepsZones(z, r, t, Y),
         \A u \in Train \ {t} : bl2[u] = bl[u],
         \A y \in Zone : InZone(bl2[t], y) => r.state[t][y] # "none" \/ (y \in Y /\ InZone(bl[t], y))
  PROVE  Known(r, bl2)
BY DEF Known, KeepsZones

\* left: the status of a zone goes only with the train's last block there.
LEMMA LeftZonesGood ==
  ASSUME NEW z, Sane(z), NEW k \in TrackingType, Known(z, k.blocks),
         NEW t \in Train, NEW b \in Block, NEW values
  PROVE  /\ Sane(LeftZones(z, t, b, k.blocks[t]))
         /\ Known(LeftZones(z, t, b, k.blocks[t]), Left(k, t, b, values).blocks)
<1> DEFINE bs == k.blocks[t]
           one == RemoveFirst(bs, b)
           two == RemoveFirst(one, b)
           m == CheckZoneEntered(z, t, b)
           r == CheckZoneLeft(m, t, b, one)
           after == Left(k, t, b, values).blocks
<1>1. bs \in Seq(Block)
  BY DEF TrackingType
<1>2. one \in Seq(Block)
  BY <1>1, RemoveFirstType
<1>3. KeepsZones(z, m, t, Zone)
  BY EnteredKeeps
<1>4. Sane(m)
  BY <1>3 DEF KeepsZones
<1> HIDE DEF m
<1>5. KeepsZones(m, r, t, {y \in Zone : InZone(one, y)})
  BY <1>4, LeftKeeps
<1>6. after = [k.blocks EXCEPT ![t] = two]
  BY DEF Left, UpdateState, TrackingType
<1>7. \A y \in Zone : InZone(two, y) => InZone(one, y)
  BY <1>2, InZoneRemoveFirst
<1>8. \A y \in Zone : InZone(one, y) => InZone(bs, y)
  BY <1>1, InZoneRemoveFirst
<1>9. k.blocks \in [Train -> Seq(Block)]
  BY DEF TrackingType
<1> HIDE DEF bs, one, two, r, after
<1>10. after[t] = two /\ \A u \in Train \ {t} : after[u] = k.blocks[u]
  BY <1>6, <1>9
<1>11. Known(m, k.blocks)
  BY <1>3, KnownAfter
<1>12. Known(r, after)
  BY <1>5, <1>7, <1>8, <1>10, <1>11, KnownAfter DEF bs
<1> QED
  BY <1>5, <1>12 DEF KeepsZones, r, m, bs, one, after, LeftZones

\* One turn of the loop.
LEMMA TailGood ==
  ASSUME NEW s, s.tracking \in TrackingType, Sane(s.zones), Known(s.zones, s.tracking.blocks),
         NEW t \in Train, NEW values
  PROVE  LET r == ReleaseTailZones(s, t, values)
         IN  /\ r.tracking = ReleaseTail(s.tracking, t, values)
             /\ r.tracking \in TrackingType
             /\ Sane(r.zones)
             /\ Known(r.zones, r.tracking.blocks)
<1> DEFINE j == s.tracking
           k == ReleaseTail(j, t, values)
           bs == j.blocks[t]
           r == ReleaseTailZones(s, t, values)
<1>1. r = [tracking |-> k,
           zones |-> IF k.blocks[t] = bs THEN s.zones ELSE LeftZones(s.zones, t, Last(bs), bs)]
  BY DEF ReleaseTailZones
<1>2. k \in TrackingType
  BY ReleaseTailType
<1>3. bs \in Seq(Block)
  BY DEF TrackingType
<1>4. CASE Len(bs) > 1 /\ j.state[Last(bs)] = "reserved"
  <2>1. k = Left(j, t, Last(bs), values[Last(bs)])
    BY <1>4 DEF ReleaseTail
  <2>2. Last(bs) \in Block
    BY <1>3, <1>4, ElementOfSeq DEF Last
  <2>3. CASE k.blocks[t] = bs
    <3>1. \A u \in Train \ {t} : k.blocks[u] = j.blocks[u]
      BY <2>1 DEF Left, UpdateState, TrackingType
    <3>2. \A u \in Train : k.blocks[u] = j.blocks[u]
      BY <2>3, <3>1
    <3>3. r.zones = s.zones /\ r.tracking = k
      BY <1>1, <2>3
    <3> HIDE DEF k, r
    <3>4. Known(s.zones, k.blocks)
      BY <3>2 DEF Known
    <3> QED
      BY <1>2, <3>3, <3>4 DEF k, r
  <2>4. CASE k.blocks[t] # bs
    <3>1. r.zones = LeftZones(s.zones, t, Last(bs), bs) /\ r.tracking = k
      BY <1>1, <2>4
    <3> QED
      BY <1>2, <2>1, <2>2, <3>1, LeftZonesGood
  <2> QED
    BY <2>3, <2>4
<1>5. CASE ~(Len(bs) > 1 /\ j.state[Last(bs)] = "reserved")
  <2>1. k = j
    BY <1>5 DEF ReleaseTail
  <2> QED
    BY <1>1, <1>2, <2>1
<1> QED
  BY <1>4, <1>5

\* enter: the new head's zones know the train before the tail is released.
LEMMA EnterZonesGood ==
  ASSUME NEW z, Sane(z), NEW k \in TrackingType, Known(z, k.blocks),
         NEW t \in Train, NEW b \in Block, NEW values
  PROVE  /\ Sane(EnterZones(z, k, t, b, values))
         /\ Known(EnterZones(z, k, t, b, values), Enter(k, t, b, values).blocks)
<1> DEFINE k1 == [k EXCEPT !.blocks[t] = <<b>> \o @]
           m == CheckZoneEntering(z, t, b)
           n == CheckZoneEntered(m, t, b)
           s0 == [tracking |-> k1, zones |-> n]
           s1 == ReleaseTailZones(s0, t, values)
           s2 == ReleaseTailZones(s1, t, values)
           s3 == ReleaseTailZones(s2, t, values)
<1>1. k.blocks[t] \in Seq(Block)
  BY DEF TrackingType
<1>2. <<b>> \o k.blocks[t] \in Seq(Block)
  BY <1>1
<1>3. k1 \in TrackingType
  BY <1>2 DEF TrackingType
<1>4. k1.blocks[t] = <<b>> \o k.blocks[t] /\ \A u \in Train \ {t} : k1.blocks[u] = k.blocks[u]
  BY DEF TrackingType
<1>5. KeepsZones(z, m, t, Zone)
  BY EnteringKeeps
<1>6. Sane(m) /\ Known(m, k.blocks)
  BY <1>5 DEF KeepsZones, Known
<1> HIDE DEF m
<1>7. KeepsZones(m, n, t, Zone) /\ \A y \in ZonesOf[b] : n.state[t][y] # "none"
  BY <1>6, EnteredKeeps
<1> HIDE DEF n, k1
<1>8. \A y \in Zone : InZone(k1.blocks[t], y) => y \in ZonesOf[b] \/ InZone(k.blocks[t], y)
  BY <1>1, <1>4, InZoneHead
<1>9. Known(n, k1.blocks)
  BY <1>4, <1>6, <1>7, <1>8 DEF KeepsZones, Known
<1>10. Sane(n)
  BY <1>7 DEF KeepsZones
<1>11. /\ s1.tracking = ReleaseTail(k1, t, values)
       /\ s1.tracking \in TrackingType /\ Sane(s1.zones) /\ Known(s1.zones, s1.tracking.blocks)
  BY <1>3, <1>9, <1>10, TailGood
<1> HIDE DEF s1
<1>12. /\ s2.tracking = ReleaseTail(s1.tracking, t, values)
       /\ s2.tracking \in TrackingType /\ Sane(s2.zones) /\ Known(s2.zones, s2.tracking.blocks)
  BY <1>11, TailGood
<1> HIDE DEF s2
<1>13. /\ s3.tracking = ReleaseTail(s2.tracking, t, values)
       /\ Sane(s3.zones) /\ Known(s3.zones, s3.tracking.blocks)
  BY <1>12, TailGood
<1>14. Enter(k, t, b, values) = s3.tracking
  BY <1>11, <1>12, <1>13 DEF Enter, k1
<1>15. EnterZones(z, k, t, b, values) = s3.zones
  BY DEF EnterZones, s1, s2, n, m, k1
<1> QED
  BY <1>13, <1>14, <1>15

-----------------------------------------------------------------------------
(* The handlers.                                                           *)

ZoneInv == Sane(Zones) /\ Known(Zones, blocks)

LEMMA BecomesKnown ==
  ASSUME NEW z, Sane(z), BecomesZones(z), Known(z, blocks')
  PROVE  ZoneInv'
<1>1. z = [state |-> z.state, mute |-> z.mute, fault |-> z.fault]
  BY DEF Sane, ZoneRecord
<1>2. Zones' = z
  BY <1>1 DEF BecomesZones, Zones
<1>3. Sane(Zones') /\ Known(Zones', blocks')
  BY <1>2
<1> QED
  BY <1>3 DEF ZoneInv, Sane, Known, MuteOf, InZone

LEMMA ZonesKept ==
  ASSUME ZoneInv, UNCHANGED zoneVars, \A t \in Train, y \in Zone : InZone(blocks'[t], y) => InZone(blocks[t], y)
  PROVE  ZoneInv'
<1>1. Zones' = Zones
  BY DEF Zones, zoneVars
<1>2. Sane(Zones') /\ Known(Zones', blocks')
  BY <1>1 DEF ZoneInv, Known
<1> QED
  BY <1>2 DEF ZoneInv, Sane, Known, MuteOf, InZone

LEMMA ReserveKnown ==
  ASSUME TypeOK, ZoneInv, NEW p \in Path, ZReserve(p)
  PROVE  ZoneInv'
<1> DEFINE t == StatusAt(trains[From[p]], FromSide[p]).train
           z1 == ReserveZones(Zones, t, From[p])
           z2 == ReserveZones(z1, t, To[p])
           k1 == ReserveBlock(Tracking, From[p], FromSide[p], t)
           k2 == ReserveBlock(k1, To[p], ToSide[p], t)
<1>1. Reserve(p) /\ BecomesZones(z2)
  BY DEF ZReserve
<1>2. From[p] \in Block /\ To[p] \in Block
  BY TopologyAssumption
<1>3. trains[From[p]] \in Seq(Status) /\ trains[From[p]] # <<>> /\ t # NoTrain
  BY <1>1, <1>2 DEF Reserve, TypeOK
<1>4. t \in Train
  BY <1>3, StatusAtType
<1>5. Becomes(k2)
  BY <1>1, Zenon DEF Reserve
<1> HIDE DEF t
<1>6. blocks' = blocks
  BY <1>5 DEF Becomes, ReserveBlock, AddStatus, UpdateState, Tracking
<1>7. ASSUME NEW z, Sane(z), Known(z, blocks), NEW b
      PROVE  Sane(ReserveZones(z, t, b)) /\ Known(ReserveZones(z, t, b), blocks)
  <2> DEFINE m == CheckZoneLeaving(z, t, b)
  <2>1. KeepsZones(z, m, t, Zone)
    BY <1>4, <1>7, LeavingKeeps
  <2>2. Sane(m)
    BY <2>1 DEF KeepsZones
  <2> HIDE DEF m
  <2>3. KeepsZones(m, CheckZoneEntering(m, t, b), t, Zone)
    BY <1>4, <2>2, EnteringKeeps
  <2> QED
    BY <1>7, <2>1, <2>3 DEF KeepsZones, Known, ReserveZones, m
<1>8. Sane(z1) /\ Known(z1, blocks)
  BY <1>7 DEF ZoneInv
<1> HIDE DEF z1
<1>9. Sane(z2) /\ Known(z2, blocks)
  BY <1>7, <1>8
<1> HIDE DEF z2
<1> QED
  BY <1>1, <1>6, <1>9, BecomesKnown

\* removed: train t is taken from block b.
LEMMA RemovedKnown ==
  ASSUME TypeOK, ZoneInv, NEW t \in Train, NEW b \in Block,
         blocks' = [blocks EXCEPT ![t] = RemoveFirst(@, b)],
         BecomesZones(CheckZoneLeft(Zones, t, b, RemoveFirst(blocks[t], b)))
  PROVE  ZoneInv'
<1> DEFINE one == RemoveFirst(blocks[t], b)
           r == CheckZoneLeft(Zones, t, b, one)
<1>1. blocks[t] \in Seq(Block)
  BY DEF TypeOK
<1>2. KeepsZones(Zones, r, t, {y \in Zone : InZone(one, y)})
  BY LeftKeeps DEF ZoneInv
<1>3. \A y \in Zone : InZone(one, y) => InZone(blocks[t], y)
  BY <1>1, InZoneRemoveFirst
<1>4. blocks'[t] = one /\ \A u \in Train \ {t} : blocks'[u] = blocks[u]
  BY DEF TypeOK
<1>5. BecomesZones(r)
  OBVIOUS
<1> HIDE DEF one, r
<1>6. Sane(r) /\ Known(r, blocks')
  BY <1>2, <1>3, <1>4 DEF KeepsZones, Known, ZoneInv
<1> QED
  BY <1>5, <1>6, BecomesKnown

LEMMA ReleaseKnown ==
  ASSUME TypeOK, ZoneInv, NEW p \in Path, NEW timers, Release(p, timers), ReleaseZones(p)
  PROVE  ZoneInv'
<1> DEFINE b == To[p]
           t == trains[b][1].train
           k == [Tracking EXCEPT !.timer = timers]
<1>1. b \in Block
  BY TopologyAssumption
<1>2. ASSUME UNCHANGED <<trains, blocks>>
      PROVE  ZoneInv'
  <2>1. BecomesZones(Zones)
    BY <1>2 DEF ReleaseZones
  <2> QED
    BY <1>2, <2>1, BecomesKnown DEF ZoneInv
<1>3. ASSUME OnlyReserved(b), t # NoTrain, Becomes(RemoveStatus(k, b, t))
      PROVE  ZoneInv'
  <2>1. trains[b] \in Seq(Status) /\ Len(trains[b]) = 1
    BY <1>1, <1>3 DEF OnlyReserved, TypeOK
  <2>2. trains[b][1] \in Status
    BY <2>1, ElementOfSeq
  <2>3. t \in Train
    BY <1>3, <2>2 DEF Status
  <2>4. blocks' = [blocks EXCEPT ![t] = RemoveFirst(@, b)]
    BY <1>3 DEF Becomes, RemoveStatus, UpdateState, Tracking
  <2>5. CASE trains'[b] = trains[b]
    <3>1. BecomesZones(Zones)
      BY <2>5 DEF ReleaseZones
    <3>2. UNCHANGED zoneVars
      BY <3>1 DEF BecomesZones, Zones, zoneVars
    <3>3. \A u \in Train, y \in Zone : InZone(blocks'[u], y) => InZone(blocks[u], y)
      <4>1. /\ blocks'[t] = RemoveFirst(blocks[t], b)
            /\ \A u \in Train \ {t} : blocks'[u] = blocks[u]
        BY <2>3, <2>4 DEF TypeOK
      <4>2. blocks[t] \in Seq(Block)
        BY <2>3 DEF TypeOK
      <4> HIDE DEF t
      <4> QED
        BY <4>1, <4>2, InZoneRemoveFirst
    <3> QED
      BY <3>2, <3>3, ZonesKept
  <2>6. CASE trains'[b] # trains[b]
    <3>1. BecomesZones(CheckZoneLeft(Zones, t, b, RemoveFirst(blocks[t], b)))
      BY <2>6 DEF ReleaseZones
    <3> HIDE DEF t, b
    <3> QED
      BY <1>1, <2>3, <2>4, <3>1, RemovedKnown
  <2> QED
    BY <2>5, <2>6
<1>4. ASSUME Becomes(k)
      PROVE  UNCHANGED <<trains, blocks>>
  BY <1>4 DEF Becomes, Tracking
<1> QED
  BY <1>2, <1>3, <1>4 DEF Release

LEMMA AssignKnown ==
  ASSUME TypeOK, ZoneInv, NEW b \in Block, NEW t \in Train, NEW dir,
         ZAssignTrain(b, t, dir)
  PROVE  ZoneInv'
<1> DEFINE r == CheckZoneAssigned(Zones, t, b)
<1>1. BecomesZones(r) /\ AssignTrain(b, t, dir)
  BY DEF ZAssignTrain
<1>2. blocks' = [blocks EXCEPT ![t] = <<b>>]
  BY <1>1 DEF AssignTrain, Becomes, AddStatus, UpdateState, Tracking
<1>3. blocks'[t] = <<b>> /\ \A u \in Train \ {t} : blocks'[u] = blocks[u]
  BY <1>2 DEF TypeOK
<1>4. \A y : InZone(blocks'[t], y) => y \in ZonesOf[b]
  BY <1>3 DEF InZone
<1>5. KeepsZones(Zones, r, t, Zone) /\ \A y \in ZonesOf[b] : r.state[t][y] # "none"
  BY AssignedKeeps DEF ZoneInv
<1> HIDE DEF r
<1>6. Sane(r) /\ Known(r, blocks')
  BY <1>3, <1>4, <1>5 DEF KeepsZones, Known, ZoneInv
<1> QED
  BY <1>1, <1>6, BecomesKnown

LEMMA RemoveKnown ==
  ASSUME TypeOK, ZoneInv, NEW b \in Block, NEW t \in Train, ZRemoveTrain(b, t)
  PROVE  ZoneInv'
<1>1. blocks' = [blocks EXCEPT ![t] = RemoveFirst(@, b)]
  BY DEF ZRemoveTrain, RemoveTrain, Becomes, RemoveStatus, UpdateState, Tracking
<1> QED
  BY <1>1, RemovedKnown DEF ZRemoveTrain

LEMMA OccupiedKnown ==
  ASSUME TypeOK, ReservedHasTrain, ZoneInv, NEW b \in Block, NEW i \in 1..Inputs[b],
         NEW moving \in SUBSET ManualUnprotected, ZSensorOccupied(b, i, moving)
  PROVE  ZoneInv'
<1> DEFINE values == [sensor EXCEPT ![b][i] = "occupied"]
           t == SurprisingTrain(b, i, moving)
           u == AnnouncedTrain(b, i)
           p == SurprisePath(b, i, moving)
           z == CheckZoneLeaving(Zones, t, b)
           k == AddStatus(Tracking, b, t, AwayFrom(ToSide[p]))
           e == Entered(Tracking, b, i, moving, values)
<1>1. SensorOccupied(b, i, moving) /\ BecomesZones(SensorOccupiedZones(b, i, moving))
  BY DEF ZSensorOccupied
<1>2. Tracking \in TrackingType /\ Tracking.blocks = blocks /\ Sane(Zones) /\ Known(Zones, blocks)
  BY TrackingTypeOK DEF Tracking, ZoneInv
<1>3. IF EntersNoTrain(b, i) THEN blocks' = blocks ELSE blocks' = e.blocks
  <2>1. CASE EntersNoTrain(b, i)
    BY <1>1, <2>1 DEF SensorOccupied
  <2>2. CASE ~EntersNoTrain(b, i)
    <3>1. e \in TrackingType
      BY <2>2, EnteredType DEF ReservedHasTrain
    <3>2. Becomes(UpdateState(e, b, values[b]))
      BY <1>1, <2>2 DEF SensorOccupied
    <3> HIDE DEF e
    <3> QED
      BY <2>2, <3>1, <3>2 DEF Becomes, UpdateState, TrackingType
  <2> QED
    BY <2>1, <2>2
<1>4. CASE Surprise(b, i, moving)
  <2>1. state[b] # "reserved" /\ Cardinality(Approaches(b, i, moving)) = 1
    BY <1>4 DEF Surprise
  <2>2. Approaches(b, i, moving) # {}
    <3>1. Cardinality({}) = 0
      BY FS_EmptySet
    <3>2. 0 # 1
      OBVIOUS
    <3> QED
      BY <2>1, <3>1, <3>2, Zenon
  <2>3. p \in Approaches(b, i, moving)
    BY <2>2 DEF SurprisePath
  <2>4. p \in Path /\ t \in Train
    BY <2>3, TopologyAssumption DEF Approaches, SurprisingTrain
  <2>5. AwayFrom(ToSide[p]) \in TrainDirection
    BY DEF AwayFrom, TrainDirection
  <2>6. ~EntersNoTrain(b, i)
    BY <2>1 DEF EntersNoTrain, Announced
  <2>7. e = Enter(k, t, b, values)
    BY <1>4 DEF Entered
  <2>8. SensorOccupiedZones(b, i, moving) = EnterZones(z, k, t, b, values)
    BY <1>4 DEF SensorOccupiedZones
  <2> HIDE DEF t, p, values, e
  <2>9. k \in TrackingType /\ k.blocks = blocks
    <3>1. k \in TrackingType
      BY <1>2, <2>4, <2>5, AddStatusType
    <3> QED
      BY <1>2, <3>1 DEF AddStatus, TrackingType
  <2>10. KeepsZones(Zones, z, t, Zone)
    BY <1>2, <2>4, LeavingKeeps
  <2> HIDE DEF k, z
  <2>11. Sane(z) /\ Known(z, k.blocks)
    BY <1>2, <2>9, <2>10 DEF KeepsZones, Known
  <2>12. /\ Sane(EnterZones(z, k, t, b, values))
         /\ Known(EnterZones(z, k, t, b, values), Enter(k, t, b, values).blocks)
    BY <2>4, <2>9, <2>11, EnterZonesGood
  <2> QED
    BY <1>1, <1>3, <2>6, <2>7, <2>8, <2>12, BecomesKnown
<1>5. CASE ~Surprise(b, i, moving) /\ Announced(b, i) /\ u # NoTrain
  <2>1. state[b] = "reserved" /\ trains[b] \in Seq(Status) /\ trains[b] # <<>>
    BY <1>5 DEF Announced, ReservedHasTrain, TypeOK
  <2>2. u \in Train
    BY <1>5, <2>1, StatusAtType DEF AnnouncedTrain
  <2>3. e = Enter(Tracking, u, b, values) /\ ~EntersNoTrain(b, i)
    BY <1>5 DEF Entered, EntersNoTrain
  <2>4. SensorOccupiedZones(b, i, moving) = EnterZones(Zones, Tracking, u, b, values)
    BY <1>5 DEF SensorOccupiedZones
  <2> HIDE DEF u, values, e
  <2>5. /\ Sane(EnterZones(Zones, Tracking, u, b, values))
        /\ Known(EnterZones(Zones, Tracking, u, b, values), Enter(Tracking, u, b, values).blocks)
    BY <1>2, <2>2, EnterZonesGood
  <2> QED
    BY <1>1, <1>3, <2>3, <2>4, <2>5, BecomesKnown
<1>6. CASE ~Surprise(b, i, moving) /\ ~(Announced(b, i) /\ u # NoTrain)
  <2>1. SensorOccupiedZones(b, i, moving) = Zones
    BY <1>6 DEF SensorOccupiedZones
  <2>2. ~EntersNoTrain(b, i) => e = Tracking
    BY <1>6 DEF Entered, EntersNoTrain
  <2>3. blocks' = blocks
    BY <1>2, <1>3, <2>2
  <2> QED
    BY <1>1, <1>2, <2>1, <2>3, BecomesKnown
<1> QED
  BY <1>4, <1>5, <1>6

LEMMA FreeKnown ==
  ASSUME TypeOK, ZoneInv, NEW b \in Block, NEW i, ZSensorFree(b, i)
  PROVE  ZoneInv'
<1> DEFINE k == UpdateState(Tracking, b, sensor'[b])
           t == trains[b][1].train
           due == /\ k.state[b] = "reserved"
                  /\ Len(trains[b]) = 1
                  /\ t # NoTrain
                  /\ Len(blocks[t]) > 1
                  /\ Last(blocks[t]) = b
           left == Left(k, t, b, sensor'[b])
<1>1. Becomes(IF due THEN left ELSE k)
  BY DEF ZSensorFree, SensorFree
<1>2. BecomesZones(IF trains'[b] = trains[b] THEN Zones ELSE LeftZones(Zones, t, b, blocks[t]))
  BY DEF ZSensorFree
<1>3. k \in TrackingType /\ k.blocks = blocks /\ k.trains = trains
  BY TrackingTypeOK, UpdateStateType DEF UpdateState, Tracking
<1> HIDE DEF k
<1>4. CASE due
  <2>1. trains[b] \in Seq(Status) /\ Len(trains[b]) = 1
    BY <1>4 DEF TypeOK
  <2>2. trains[b][1] \in Status
    BY <2>1, ElementOfSeq
  <2>3. t \in Train
    BY <1>4, <2>2 DEF Status
  <2>4. blocks' = left.blocks
    BY <1>1, <1>4 DEF Becomes
  <2> HIDE DEF t
  <2>5. CASE trains'[b] = trains[b]
    <3> DEFINE one == RemoveFirst(blocks[t], b)
               two == RemoveFirst(one, b)
    <3>1. left.blocks = [blocks EXCEPT ![t] = two]
      BY <1>3 DEF Left, UpdateState, TrackingType
    <3>2. blocks[t] \in Seq(Block)
      BY <2>3 DEF TypeOK
    <3>3. one \in Seq(Block)
      BY <3>2, RemoveFirstType
    <3>4. \A y \in Zone : InZone(two, y) => InZone(blocks[t], y)
      BY <3>2, <3>3, InZoneRemoveFirst
    <3> HIDE DEF two, left
    <3>5. blocks'[t] = two /\ \A u \in Train \ {t} : blocks'[u] = blocks[u]
      BY <2>3, <2>4, <3>1 DEF TypeOK
    <3>6. UNCHANGED zoneVars
      BY <1>2, <2>5 DEF BecomesZones, Zones, zoneVars
    <3> QED
      BY <3>4, <3>5, <3>6, ZonesKept
  <2>6. CASE trains'[b] # trains[b]
    <3>1. BecomesZones(LeftZones(Zones, t, b, blocks[t]))
      BY <1>2, <2>6
    <3>2. /\ Sane(LeftZones(Zones, t, b, blocks[t]))
          /\ Known(LeftZones(Zones, t, b, blocks[t]), left.blocks)
      BY <1>3, <2>3, LeftZonesGood DEF ZoneInv
    <3> HIDE DEF left
    <3> QED
      BY <2>4, <3>1, <3>2, BecomesKnown
  <2> QED
    BY <2>5, <2>6
<1>5. CASE ~due
  <2>1. Becomes(k)
    BY <1>1, <1>5
  <2>2. blocks' = blocks /\ trains' = trains
    BY <1>3, <2>1 DEF Becomes
  <2>3. BecomesZones(Zones)
    BY <1>2, <2>2
  <2> QED
    BY <2>2, <2>3, BecomesKnown DEF ZoneInv
<1> QED
  BY <1>4, <1>5

-----------------------------------------------------------------------------
ZIInv == IInv /\ ZoneInv

\* A step of the zones is a step of Interlocking.
LEMMA ZoneStep == ZNext => Next
BY DEF ZNext, Next, Stopped, ZPathStep, ZUserStep, ZDetectorStep, PathStep, UserStep,
       DetectorStep, OtherStep, ZReserve, ZUserRelease, ZTimerHandler, ZTimerExpires, ZAssignTrain, ZRemoveTrain,
       ZSensorOccupied, ZSensorFree

LEMMA ZoneInit == ZInit => ZoneInv
<1> SUFFICES ASSUME ZInit PROVE ZoneInv
  OBVIOUS
<1>1. Zones \in ZoneRecord
  BY DEF ZInit, Zones, ZoneRecord, ZoneTrainState
<1>2. \A t \in Train : ~Zones.mute[t] /\ \A y \in Zone : Zones.state[t][y] = "none"
  BY DEF ZInit, Zones
<1>3. \A t \in Train : MuteOf(Zones, t)
  BY <1>2, ZoneAssumption DEF MuteOf
<1>4. \A t \in Train, y \in Zone : ~InZone(blocks[t], y)
  BY DEF ZInit, Init, InZone
<1> QED
  BY <1>1, <1>3, <1>4 DEF ZoneInv, Sane, Known

\* Every handler keeps it.
LEMMA ZoneStepInv == ZIInv /\ [ZNext]_allVars => ZIInv'
<1> SUFFICES ASSUME IInv, ZoneInv, [ZNext]_allVars PROVE IInv' /\ ZoneInv'
  BY DEF ZIInv
<1>1. TypeOK /\ BlockInv /\ ReservedHasTrain
  BY BlockInvReserved DEF IInv
<1>2. IInv'
  <2>1. [Next]_vars
    BY ZoneStep DEF allVars
  <2> QED
    BY <2>1, StepInv
<1>3. ASSUME blocks' = blocks, UNCHANGED zoneVars PROVE ZoneInv'
  <2>1. \A t \in Train, y \in Zone : InZone(blocks'[t], y) => InZone(blocks[t], y)
    BY <1>3
  <2> QED
    BY <1>3, <2>1, ZonesKept
<1>4. CASE UNCHANGED allVars
  BY <1>2, <1>3, <1>4 DEF allVars, vars
<1>5. ASSUME NEW p \in Path, ZReserve(p) PROVE ZoneInv'
  BY <1>1, <1>5, ReserveKnown
<1>6. ASSUME NEW p \in Path, ZUserRelease(p) PROVE ZoneInv'
  <2>1. PICK timers : Release(p, timers)
    BY <1>6 DEF ZUserRelease, UserRelease
  <2> QED
    BY <1>1, <1>6, <2>1, ReleaseKnown DEF ZUserRelease
<1>7. ASSUME NEW p \in Path, ZTimerHandler(p) PROVE ZoneInv'
  <2>1. CASE Release(p, [timer EXCEPT ![p] = "idle"])
    BY <1>1, <1>7, <2>1, ReleaseKnown DEF ZTimerHandler
  <2>2. CASE UNCHANGED <<state, trains, blocks, reservedPaths, isReserved, lock, crashed>>
    <3>1. BecomesZones(Zones)
      BY <1>7, <2>2 DEF ZTimerHandler, ReleaseZones
    <3>2. UNCHANGED zoneVars
      BY <3>1 DEF BecomesZones, Zones, zoneVars
    <3> QED
      BY <1>3, <2>2, <3>2
  <2> QED
    BY <1>7, <2>1, <2>2 DEF ZTimerHandler, TimerHandler
<1>8. ASSUME NEW p \in Path, ZTimerExpires(p) PROVE ZoneInv'
  BY <1>3, <1>8 DEF ZTimerExpires, TimerExpires
<1>9. ASSUME NEW b \in Block, NEW t \in Train, NEW dir \in TrainDirection,
             ZAssignTrain(b, t, dir)
      PROVE  ZoneInv'
  BY <1>1, <1>9, AssignKnown
<1>10. ASSUME NEW b \in Block, NEW t \in Train, ZRemoveTrain(b, t) PROVE ZoneInv'
  BY <1>1, <1>10, RemoveKnown
<1>11. ASSUME NEW b \in Block, FlipTrain(b) \/ SetStateFree(b), UNCHANGED zoneVars
       PROVE  ZoneInv'
  BY <1>3, <1>11 DEF FlipTrain, SetStateFree
<1>12. ASSUME NEW t \in Train, SetDirection(t), UNCHANGED zoneVars
       PROVE  ZoneInv'
  <2>1. blocks' = [blocks EXCEPT ![t] = Reverse(@)]
    BY <1>12 DEF SetDirection
  <2>2. blocks'[t] = Reverse(blocks[t]) /\ \A u \in Train \ {t} : blocks'[u] = blocks[u]
    BY <1>1, <2>1 DEF TypeOK
  <2>3. blocks[t] \in Seq(Block)
    BY <1>1 DEF TypeOK
  <2>4. \A y \in Zone : InZone(Reverse(blocks[t]), y) => InZone(blocks[t], y)
    BY <2>3, InZoneReverse
  <2>5. \A u \in Train, y \in Zone : InZone(blocks'[u], y) => InZone(blocks[u], y)
    BY <2>2, <2>4
  <2> QED
    BY <1>12, <2>5, ZonesKept
<1>13. ASSUME NEW e \in Element, NEW v \in Values[e], SetPosition(e, v), UNCHANGED zoneVars
       PROVE  ZoneInv'
  BY <1>3, <1>13 DEF SetPosition
<1>14. ASSUME NEW b \in Block, NEW i \in 1..Inputs[b], ZSensorFree(b, i) PROVE ZoneInv'
  BY <1>1, <1>14, FreeKnown
<1>15. ASSUME NEW b \in Block, NEW i \in 1..Inputs[b], NEW moving \in SUBSET ManualUnprotected,
              ZSensorOccupied(b, i, moving)
       PROVE  ZoneInv'
  BY <1>1, <1>15, OccupiedKnown
<1>16. ASSUME NEW b \in Block, IdentificationAbsent(b), UNCHANGED zoneVars PROVE ZoneInv'
  BY <1>3, <1>16 DEF IdentificationAbsent, Becomes, UpdateState, Tracking
<1>17. ASSUME NEW b \in Block, NEW dir \in TrainDirection, IdentificationPresent(b, dir),
              UNCHANGED zoneVars
       PROVE  ZoneInv'
  BY <1>3, <1>17 DEF IdentificationPresent, Becomes, AddStatus, UpdateState, Tracking
<1>18. ZPathStep => ZoneInv'
  BY <1>5, <1>6, <1>7 DEF ZPathStep
<1>19. ZUserStep => ZoneInv'
  BY <1>9, <1>10, <1>11, <1>12, <1>13 DEF ZUserStep
<1>20. ZDetectorStep => ZoneInv'
  BY <1>14, <1>15, <1>16, <1>17 DEF ZDetectorStep
<1> QED
  BY <1>2, <1>4, <1>8, <1>18, <1>19, <1>20 DEF ZNext

LEMMA ZoneInvariance == ZSpec => []ZIInv
<1>1. ZInit => ZIInv
  BY InitType, InitGood, ZoneInit DEF ZInit, ZIInv, IInv
<1> QED
  BY <1>1, ZoneStepInv, PTL DEF ZSpec

\* On any layout with any zones every train in a block of a zone has a status there:
\* removeTrainIfNotInZone takes it only with the train's last block in the zone.
THEOREM ZonesKnow == ZSpec => []ZoneKnown
<1>1. ZIInv => ZoneKnown
  BY DEF ZIInv, ZoneInv, Known, ZoneKnown, Zones
<1> QED
  BY <1>1, ZoneInvariance, PTL

\* On any layout with any zones a train that has entered a muting zone is muted, and
\* a muted one has a status in such a zone, though most checks do not evaluate it.
THEOREM MuteFollows == ZSpec => []MuteCurrent
<1>1. ZIInv => MuteCurrent
  BY DEF ZIInv, ZoneInv, Sane, MuteOf, MuteCurrent, Zones
<1> QED
  BY <1>1, ZoneInvariance, PTL

\* The variables of zones keep their type.
THEOREM ZoneTypeCorrect == ZSpec => []ZTypeOK
<1>1. ZIInv => ZTypeOK
  BY DEF ZIInv, ZoneInv, Sane, ZoneRecord, ZTypeOK, Zones
<1> QED
  BY <1>1, ZoneInvariance, PTL

\* Zones only watch: with them the interlocking does what it does without them, so
\* that every theorem about it holds here too.
THEOREM ZonesOnlyWatch == ZSpec => Spec
<1>1. ZInit => Init
  BY DEF ZInit
<1>2. [ZNext]_allVars => [Next]_vars
  BY ZoneStep DEF allVars
<1> QED
  BY <1>1, <1>2, PTL DEF ZSpec, Spec
=============================================================================
