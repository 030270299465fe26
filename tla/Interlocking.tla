--------------------------- MODULE Interlocking ---------------------------
(***************************************************************************)
(* Blocks, the paths between them and the trains tracked in them: what     *)
(* server/src/board/map/blockpath.cpp, board/tile/rail/blockrailtile.cpp   *)
(* and train/traintracking.cpp do together on the event loop thread.       *)
(*                                                                         *)
(* Every handler runs to completion on that thread, so each is one action. *)
(* The only asynchrony is the delayed release of a path: its timer expires *)
(* in one step and its handler runs in a later one.                        *)
(***************************************************************************)
EXTENDS Integers, Sequences, FiniteSets, SequencesExt

CONSTANTS
  Block, Train, Path, Element,
  From, To,             \* [Path -> Block]
  FromSide, ToSide,     \* [Path -> Side]
  Route,                \* Route[p]: the <<element, value>> pairs path p needs
  Kind,                 \* [Element -> Kinds]
  Values,               \* Values[e]: the values set_position / set_state accept
  Inputs,               \* Inputs[b]: number of sensors in block b's input map
  Vertical,             \* blocks drawn with rotate = Deg0
  ManualUnprotected,    \* powered trains in TrainMode::ManualUnprotected
  MaxTrainBlocks,       \* bound: blocks one train may span
  MaxScheduled,         \* bound: delayed releases under way at the same time
  Identifying,          \* do identification detectors report in blocks?
  NoTrain, NoPath

Side == {"A", "B"}
TrainDirection == {"towardsA", "towardsB", "unknown"}
SensorState == {"unknown", "free", "occupied"}
BlockState == {"unknown", "free", "reserved", "occupied"}
TimerState == {"idle", "armed", "expired", "cancelled"}
Kinds == {"turnout", "cross", "crossOver", "bridge", "direction"}
Value == UNION {Values[e] : e \in Element} \cup {r[2] : r \in UNION {Route[p] : p \in Path}}

\* TrainBlockStatus; the train is NoTrain when only an identification is known.
Status == [train : Train \cup {NoTrain}, direction : TrainDirection]

ASSUME TopologyAssumption ==
  /\ From \in [Path -> Block] /\ To \in [Path -> Block]
  /\ FromSide \in [Path -> Side] /\ ToSide \in [Path -> Side]
  /\ Kind \in [Element -> Kinds]
  /\ DOMAIN Route = Path
  /\ \A p \in Path : Route[p] \subseteq Element \X Value
  /\ Inputs \in [Block -> Nat]
  /\ \A p \in Path : From[p] = To[p] => FromSide[p] # ToSide[p]
  /\ ManualUnprotected \subseteq Train
  /\ NoTrain \notin Train /\ NoPath \notin Path
  /\ MaxTrainBlocks \in 1..4 /\ MaxScheduled \in Nat
  /\ Identifying \in BOOLEAN
  \* BlockPath::find drops paths that pass a turnout, crossing or crossover twice.
  /\ \A p \in Path : \A r, s \in Route[p] :
       r[1] = s[1] /\ Kind[r[1]] \in {"turnout", "cross", "crossOver"} => r = s

VARIABLES
  state,          \* BlockRailTile::state
  sensor,         \* value() of the block's input map items
  trains,         \* BlockRailTile::trains
  blocks,         \* Train::blocks, head first
  reservedPaths,  \* BlockRailTile::m_reservedPaths with the mask bit of each side
  isReserved,     \* BlockPath::m_isReserved
  timer,          \* BlockPath::m_delayReleaseTimer with m_delayedReleaseScheduled
  lock,           \* values an element is reserved for ({} = not reserved)
  position,       \* turnout position, direction control state
  crashed         \* a missing train or a freed status has been dereferenced

vars == <<state, sensor, trains, blocks, reservedPaths, isReserved, timer,
          lock, position, crashed>>

-----------------------------------------------------------------------------
(* Blocks.                                                                 *)

Towards(side) == IF side = "A" THEN "towardsA" ELSE "towardsB"
\* Fault: the side is stored where its direction belongs (both are small enums).
AwayFromUnconverted(side) == side
AwayFrom(side) == IF side = "A" THEN "towardsB" ELSE "towardsA"

\* The status at a side of the block: trains.front() at A, trains.back() at B.
StatusAt(ts, side) == IF side = "A" THEN Head(ts) ELSE Last(ts)

\* updateState: the first sensor that is not free decides.
StateOf(values, hasTrain) ==
  LET notFree == {i \in DOMAIN values : values[i] # "free"}
  IN  IF notFree # {} /\ values[Min(notFree)] = "occupied" THEN "occupied"
      ELSE IF hasTrain THEN "reserved"
      ELSE IF notFree = {} /\ values # <<>> THEN "free"
      ELSE "unknown"

StatusIndex(ts, t) == {i \in DOMAIN ts : ts[i].train = t}
HasStatus(b, t) == StatusIndex(trains[b], t) # {}

\* trains.removeInternal(status of t), nothing when t has none.
WithoutTrain(ts, t) ==
  IF StatusIndex(ts, t) = {} THEN ts ELSE RemoveAt(ts, Min(StatusIndex(ts, t)))

\* The part of the state that tracking changes, so that the calls of one
\* handler can be composed: every operator below maps one to the next.
Tracking == [state |-> state, trains |-> trains, blocks |-> blocks, timer |-> timer]

Becomes(k) ==
  /\ state' = k.state
  /\ trains' = k.trains
  /\ blocks' = k.blocks
  /\ timer' = k.timer

UpdateState(k, b, values) ==
  [k EXCEPT !.state[b] = StateOf(values, k.trains[b] # <<>>)]

\* BlockPath::delayedRelease: refused while an earlier one is still scheduled.
DelayedRelease(timers, ps) ==
  [p \in Path |-> IF p \in ps /\ timers[p] = "idle" THEN "armed" ELSE timers[p]]

\* The path reserved at the side the train heads for, if it starts in b.
ExitPaths(b, dir) ==
  {p \in Path : \E s \in Side : /\ dir = Towards(s)
                                /\ reservedPaths[b][s] = p
                                /\ From[p] = b}

-----------------------------------------------------------------------------
(* TrainTracking.                                                          *)

\* left: the status goes from the block and, once by left and once more by
\* destroying, from the train's list; the exit path is released later.
Left(k, t, b, values) ==
  LET ts == StatusIndex(k.trains[b], t)
      exit == IF ts = {} THEN {} ELSE ExitPaths(b, k.trains[b][Min(ts)].direction)
      gone == [k EXCEPT !.trains[b] = WithoutTrain(@, t),
                        !.blocks[t] = RemoveFirst(RemoveFirst(@, b), b)]
  IN  [UpdateState(gone, b, values) EXCEPT !.timer = DelayedRelease(@, exit)]

\* Fault: the tail is given up without looking at its block.
ReleaseAnyTail(k, t, values) ==
  IF Len(k.blocks[t]) > 1
  THEN Left(k, t, Last(k.blocks[t]), values[Last(k.blocks[t])])
  ELSE k

\* One turn of enter's loop: the tail block is left when it is only reserved.
ReleaseTail(k, t, values) ==
  IF Len(k.blocks[t]) > 1 /\ k.state[Last(k.blocks[t])] = "reserved"
  THEN Left(k, t, Last(k.blocks[t]), values[Last(k.blocks[t])])
  ELSE k

\* enter (reserved): new head, then the loop, which turns less than MaxTrainBlocks times.
Enter(k, t, b, values) ==
  LET k1 == [k EXCEPT !.blocks[t] = <<b>> \o @]
  IN  ReleaseTail(ReleaseTail(ReleaseTail(k1, t, values), t, values), t, values)

\* TrainTracking::reserve and the surprise enter: a status appended to the block only.
AddStatus(k, b, t, dir) ==
  [k EXCEPT !.trains[b] = Append(@, [train |-> t, direction |-> dir])]

-----------------------------------------------------------------------------
(* Turnouts, crossings, bridges and direction controls of a path.          *)

\* The position a turnout is reserved in: single motor slips have fewer positions.
LockValue(e, v) ==
  IF Kind[e] # "turnout" \/ v \in Values[e] THEN {v}
  ELSE IF v \in {"left", "right"} THEN {"diverged"} \cap Values[e]
  ELSE IF v \in {"straightA", "straightB"} THEN {"crossed"} \cap Values[e]
  ELSE {}

\* Fault: a crossing is granted whoever holds it.
ElementGrantsCrossAgain(e, v) ==
  CASE Kind[e] = "turnout" -> LockValue(e, v) # {} /\ lock[e] \subseteq LockValue(e, v)
    [] Kind[e] = "bridge" -> v \notin lock[e]
    [] Kind[e] = "direction" -> lock[e] = {} /\ position[e] \in {v, "both"}
    [] OTHER -> TRUE

ElementGrants(e, v) ==
  CASE Kind[e] = "turnout" -> LockValue(e, v) # {} /\ lock[e] \subseteq LockValue(e, v)
    [] Kind[e] = "bridge" -> v \notin lock[e]
    [] Kind[e] = "direction" -> lock[e] = {} /\ position[e] \in {v, "both"}
    [] OTHER -> lock[e] = {}

Needs(p, e) == {r[2] : r \in {x \in Route[p] : x[1] = e}}

LockRoute(p) ==
  /\ lock' = [e \in Element |-> lock[e] \cup UNION {LockValue(e, v) : v \in Needs(p, e)}]
  /\ position' = [e \in Element |->
       IF Kind[e] = "turnout" /\ Needs(p, e) # {}
       THEN CHOOSE v \in UNION {LockValue(e, w) : w \in Needs(p, e)} : TRUE
       ELSE position[e]]

\* Faults: turnouts are forgotten; crossings are; a bridge is freed on both levels.
FreeRouteButTurnouts(p) ==
  lock' = [e \in Element |->
    IF Needs(p, e) = {} \/ Kind[e] \in {"crossOver", "turnout"} THEN lock[e]
    ELSE IF Kind[e] = "bridge" THEN lock[e] \ Needs(p, e)
    ELSE {}]
FreeRouteButCrosses(p) ==
  lock' = [e \in Element |->
    IF Needs(p, e) = {} \/ Kind[e] \in {"crossOver", "cross"} THEN lock[e]
    ELSE IF Kind[e] = "bridge" THEN lock[e] \ Needs(p, e)
    ELSE {}]
FreeRouteAllLevels(p) ==
  lock' = [e \in Element |->
    IF Needs(p, e) = {} \/ Kind[e] = "crossOver" THEN lock[e] ELSE {}]

\* A turnout, crossing or direction control is freed whoever holds it, a bridge
\* only on the path's own level; m_crossOvers is not visited.
FreeRoute(p) ==
  lock' = [e \in Element |->
    IF Needs(p, e) = {} \/ Kind[e] = "crossOver" THEN lock[e]
    ELSE IF Kind[e] = "bridge" THEN lock[e] \ Needs(p, e)
    ELSE {}]

\* isReady: a turnout must be in the path's own position, not in the locked one.
Ready(p) ==
  \A r \in Route[p] :
    CASE Kind[r[1]] = "turnout" -> position[r[1]] = r[2]
      [] Kind[r[1]] = "direction" -> position[r[1]] \in {r[2], "both"}
      [] OTHER -> TRUE

-----------------------------------------------------------------------------
(* Reserving and releasing paths.                                          *)

\* BlockRailTile::reserve with dryRun.
BlockGrants(b, side, t) ==
  /\ state[b] # "unknown"
  /\ reservedPaths[b][side] = NoPath
  /\ \/ state[b] = "free"
     \/ /\ trains[b] # <<>>
        /\ StatusAt(trains[b], side).train = t
        /\ StatusAt(trains[b], side).direction = Towards(side)

\* Fault: the status is appended whatever the state of the block.
ReserveBlockAlwaysAdds(k, b, side, t) ==
  UpdateState(AddStatus(k, b, t, AwayFrom(side)), b, sensor[b])

\* BlockRailTile::reserve without dryRun.
ReserveBlock(k, b, side, t) ==
  UpdateState(IF k.state[b] = "free" THEN AddStatus(k, b, t, AwayFrom(side)) ELSE k,
              b, sensor[b])

\* BlockPath::reserve for the train at the path's start, asked by NXManager or by
\* TrainPathFinder::reserve: the dry run of every part, then every part.
Reserve(p) ==
  /\ trains[From[p]] # <<>>
  /\ LET t == StatusAt(trains[From[p]], FromSide[p]).train IN
     /\ t # NoTrain
     /\ BlockGrants(From[p], FromSide[p], t)
     /\ BlockGrants(To[p], ToSide[p], t)
     /\ \A r \in Route[p] : ElementGrants(r[1], r[2])
     /\ Becomes(ReserveBlock(ReserveBlock(Tracking, From[p], FromSide[p], t), To[p], ToSide[p], t))
  /\ reservedPaths' = [reservedPaths EXCEPT ![From[p]][FromSide[p]] = p, ![To[p]][ToSide[p]] = p]
  /\ isReserved' = [isReserved EXCEPT ![p] = TRUE]
  /\ LockRoute(p)
  /\ UNCHANGED <<sensor, crashed>>

Unsure(b) == state[b] \in {"occupied", "unknown"} /\ trains[b] # <<>>

\* Fault: any train at both ends refuses the release.
ReleaseRefusedByAnyTrain(p) == trains[From[p]] # <<>> /\ trains[To[p]] # <<>>

\* The dry run of BlockPath::release: the same train is at both ends of the path.
ReleaseRefused(p) ==
  /\ Unsure(From[p]) /\ Unsure(To[p])
  /\ StatusAt(trains[From[p]], FromSide[p]).train = StatusAt(trains[To[p]], ToSide[p]).train

\* Fault: the state is not updated after the removal.
RemoveStatusOnly(k, b, t) ==
  [k EXCEPT !.trains[b] = WithoutTrain(@, t), !.blocks[t] = RemoveFirst(@, b)]

\* BlockRailTile::removeTrainInternal.
RemoveStatus(k, b, t) ==
  LET gone == [k EXCEPT !.trains[b] = WithoutTrain(@, t), !.blocks[t] = RemoveFirst(@, b)]
  IN  IF k.state[b] = "reserved" THEN UpdateState(gone, b, sensor[b]) ELSE gone

OnlyReserved(b) == state[b] = "reserved" /\ Len(trains[b]) = 1

\* BlockPath::release. Nothing asks whether the path is (still) reserved.
Release(p, timers) ==
  LET b == To[p]
      t == trains[b][1].train
      k == [Tracking EXCEPT !.timer = timers]
  IN  IF ReleaseRefused(p)
      THEN /\ timer' = timers
           /\ UNCHANGED <<state, trains, blocks, reservedPaths, isReserved, lock, crashed>>
      ELSE IF OnlyReserved(b) /\ t = NoTrain
      THEN /\ crashed' = TRUE
           /\ timer' = timers
           /\ UNCHANGED <<state, trains, blocks, reservedPaths, isReserved, lock>>
      ELSE /\ Becomes(IF OnlyReserved(b) /\ Len(blocks[t]) > 1 THEN RemoveStatus(k, b, t) ELSE k)
           /\ reservedPaths' = [reservedPaths EXCEPT ![b][ToSide[p]] = NoPath,
                                                    ![From[p]][FromSide[p]] = NoPath]
           /\ isReserved' = [isReserved EXCEPT ![p] = FALSE]
           /\ FreeRoute(p)
           /\ UNCHANGED crashed

\* NXManager::selectPath on a reserved path: the user takes it back. Cancelling an
\* armed timer queues its handler with an error, an expired one is not affected; a
\* refused release returns before it cancels.
UserRelease(p) ==
  /\ isReserved[p]
  /\ Release(p, IF ReleaseRefused(p) \/ timer[p] # "armed" THEN timer
                ELSE [timer EXCEPT ![p] = "cancelled"])
  /\ UNCHANGED <<sensor, position>>

TimerExpires(p) ==
  /\ timer[p] = "armed"
  /\ timer' = [timer EXCEPT ![p] = "expired"]
  /\ UNCHANGED <<state, sensor, trains, blocks, reservedPaths,
                 isReserved, lock, position, crashed>>

\* The handler of delayedRelease. Any other handler may run between the expiry of the
\* timer and this one: it then releases whatever its path is by now.
TimerHandler(p) ==
  /\ \/ timer[p] = "expired"
        /\ Release(p, [timer EXCEPT ![p] = "idle"])
     \/ /\ timer[p] = "cancelled"
        /\ timer' = [timer EXCEPT ![p] = "idle"]
        /\ UNCHANGED <<state, trains, blocks, reservedPaths, isReserved, lock, crashed>>
  /\ UNCHANGED <<sensor, position>>

-----------------------------------------------------------------------------
(* What the user does with a block.                                        *)

untouched == <<sensor, reservedPaths, isReserved, lock, position, crashed>>

\* assign_train; the activation of the train is left to its vehicles. The direction is
\* the one the train is set to, which the user turns at will while it is in no block.
AssignTrain(b, t, dir) ==
  /\ trains[b] = <<>>
  /\ blocks[t] = <<>>
  /\ dir # "unknown"
  /\ LET k == [AddStatus(Tracking, b, t, dir) EXCEPT !.blocks[t] = <<b>>]
     IN  Becomes(IF state[b] \in {"free", "unknown"} THEN UpdateState(k, b, sensor[b]) ELSE k)
  /\ UNCHANGED untouched

\* remove_train: of a stopped train, from its head or tail block. Whether a train is
\* stopped is up to its speed control, and here an input: it may be whenever it is asked.
RemoveTrain(b, t) ==
  /\ HasStatus(b, t)
  /\ blocks[t] # <<>> => b \in {Head(blocks[t]), Last(blocks[t])}
  /\ Becomes(RemoveStatus(Tracking, b, t))
  /\ UNCHANGED untouched

Opposite(dir) ==
  CASE dir = "towardsA" -> "towardsB" [] dir = "towardsB" -> "towardsA" [] OTHER -> dir

\* flip_train, enabled for one status; it dereferences the status's train.
FlipTrain(b) ==
  /\ Len(trains[b]) = 1
  /\ LET t == trains[b][1].train IN
     \/ /\ t = NoTrain
        /\ crashed' = TRUE
        /\ UNCHANGED trains
     \/ /\ t # NoTrain
        /\ blocks[t] = <<b>>
        /\ trains' = [trains EXCEPT ![b][1].direction = Opposite(@)]
        /\ UNCHANGED crashed
  /\ UNCHANGED <<state, sensor, blocks, reservedPaths, isReserved,
                 timer, lock, position>>

\* Fault: the sensors are not asked.
SetStateFreeAnyway(b) ==
  /\ trains[b] = <<>>
  /\ state' = [state EXCEPT ![b] = "free"]
  /\ UNCHANGED <<sensor, trains, blocks, reservedPaths, isReserved,
                 timer, lock, position, crashed>>

\* set_state_free: no train and no sensor that has ever reported.
SetStateFree(b) ==
  /\ trains[b] = <<>>
  /\ \A i \in DOMAIN sensor[b] : sensor[b][i] = "unknown"
  /\ state' = [state EXCEPT ![b] = "free"]
  /\ UNCHANGED <<sensor, trains, blocks, reservedPaths, isReserved,
                 timer, lock, position, crashed>>

\* Train::direction of a stopped train: every entry of its block list turns its
\* status, and the list is reversed.
SetDirection(t) ==
  /\ blocks[t] # <<>>
  /\ trains' = [b \in Block |->
       IF Cardinality({i \in DOMAIN blocks[t] : blocks[t][i] = b}) % 2 = 0 THEN trains[b]
       ELSE [i \in DOMAIN trains[b] |->
              IF trains[b][i].train = t
              THEN [trains[b][i] EXCEPT !.direction = Opposite(@)] ELSE trains[b][i]]]
  /\ blocks' = [blocks EXCEPT ![t] = Reverse(@)]
  /\ UNCHANGED <<state, timer, untouched>>

\* Fault: the lock is not respected.
SetPositionAnyway(e, v) ==
  /\ v \in Values[e] \ {position[e]}
  /\ Kind[e] \in {"turnout", "direction"}
  /\ position' = [position EXCEPT ![e] = v]
  /\ UNCHANGED <<state, sensor, trains, blocks, reservedPaths,
                 isReserved, timer, lock, crashed>>

\* set_position of a turnout and set_state of a direction control.
SetPosition(e, v) ==
  /\ v \in Values[e] \ {position[e]}
  /\ \/ Kind[e] = "turnout" /\ lock[e] \subseteq {v}
     \/ Kind[e] = "direction" /\ (lock[e] \subseteq {v} \/ (v = "both" /\ "none" \notin lock[e]))
  /\ position' = [position EXCEPT ![e] = v]
  /\ UNCHANGED <<state, sensor, trains, blocks, reservedPaths,
                 isReserved, timer, lock, crashed>>

-----------------------------------------------------------------------------
(* What the block's detectors report: inputItemValueChanged and            *)
(* identificationEvent.                                                    *)

IsFront(b, i) == i = 1
IsBack(b, i) == i = Inputs[b]
EnterSide(b, i) == IF IsFront(b, i) = (b \notin Vertical) THEN "A" ELSE "B"

\* The paths along which one of the moving trains may have come unannounced.
Approaches(b, i, moving) ==
  {p \in Path :
     /\ To[p] = b
     /\ Inputs[b] = 1 \/ ToSide[p] = EnterSide(b, i)
     /\ trains[From[p]] # <<>>
     /\ Ready(p)
     /\ LET status == StatusAt(trains[From[p]], FromSide[p]) IN
        /\ status.direction = Towards(FromSide[p])
        /\ status.train \in moving}

Reservable(b, i, side) ==
  /\ IF side = "A" THEN IsFront(b, i) ELSE IsBack(b, i)
  /\ \E p \in Path : reservedPaths[b][side] = p /\ To[p] = b

\* A sensor at an edge of a block that nobody announced, and one path a train can have
\* come along.
Surprise(b, i, moving) ==
  /\ state[b] \in {"free", "unknown"}
  /\ Inputs[b] > 2 => IsFront(b, i) \/ IsBack(b, i)
  /\ Cardinality(Approaches(b, i, moving)) = 1

\* A path into the block is reserved at one side only.
Announced(b, i) ==
  /\ state[b] = "reserved"
  /\ Reservable(b, i, "A") # Reservable(b, i, "B")

SurprisePath(b, i, moving) == CHOOSE p \in Approaches(b, i, moving) : TRUE

\* The train that a sensor which becomes occupied is taken to tell of, when it is.
AnnouncedTrain(b, i) == StatusAt(trains[b], IF Reservable(b, i, "A") THEN "A" ELSE "B").train
SurprisingTrain(b, i, moving) ==
  LET p == SurprisePath(b, i, moving) IN StatusAt(trains[From[p]], FromSide[p]).train

Entered(k, b, i, moving, values) ==
  LET t == SurprisingTrain(b, i, moving)
  IN  IF Surprise(b, i, moving)
      THEN Enter(AddStatus(k, b, t, AwayFrom(ToSide[SurprisePath(b, i, moving)])), t, b, values)
      ELSE IF Announced(b, i) THEN Enter(k, AnnouncedTrain(b, i), b, values)
      ELSE k

\* An announced train whose status has no train is dereferenced.
EntersNoTrain(b, i) == Announced(b, i) /\ AnnouncedTrain(b, i) = NoTrain

\* moving: the trains that run by hand, with speed, when the sensor reports; none, or
\* some of whom it surprises, since to others it makes no difference.
\* When enter's loop frees the very status it was called with, the loop goes on
\* reading it: the process survives that or it does not.
SensorOccupied(b, i, moving) ==
  /\ i \in DOMAIN sensor[b] /\ sensor[b][i] # "occupied"
  /\ moving = {} \/ Surprise(b, i, moving)
  /\ \A t \in Train : Len(blocks[t]) < MaxTrainBlocks
  /\ IF EntersNoTrain(b, i)
     THEN crashed' = TRUE /\ UNCHANGED <<sensor, state, trains, blocks, timer>>
     ELSE LET values == [sensor EXCEPT ![b][i] = "occupied"]
              k == Entered(Tracking, b, i, moving, values)
          IN
          /\ sensor' = values
          /\ Becomes(UpdateState(k, b, values[b]))
          /\ crashed' \in (IF trains[b] # <<>> /\ k.trains[b] = <<>> THEN BOOLEAN ELSE {FALSE})
  /\ UNCHANGED <<reservedPaths, isReserved, lock, position>>

\* The block the train's last wagon has cleared is given up, but never its only block.
SensorFree(b, i) ==
  /\ i \in DOMAIN sensor[b] /\ sensor[b][i] # "free"
  /\ sensor' = [sensor EXCEPT ![b][i] = "free"]
  /\ LET k == UpdateState(Tracking, b, sensor'[b])
         t == trains[b][1].train
     IN  Becomes(IF /\ k.state[b] = "reserved"
                    /\ Len(trains[b]) = 1
                    /\ t # NoTrain
                    /\ Len(blocks[t]) > 1
                    /\ Last(blocks[t]) = b
                 THEN Left(k, t, b, sensor'[b])
                 ELSE k)
  /\ UNCHANGED <<reservedPaths, isReserved, lock, position, crashed>>

\* Fault: the status is appended beside the one of a train.
IdentificationPresentAnyway(b, dir) ==
  /\ Identifying
  /\ ~HasStatus(b, NoTrain)
  /\ LET k == AddStatus(Tracking, b, NoTrain, dir)
     IN  Becomes(IF state[b] \in {"free", "unknown"} THEN UpdateState(k, b, sensor[b]) ELSE k)
  /\ UNCHANGED untouched

IdentificationPresent(b, dir) ==
  /\ Identifying
  /\ trains[b] = <<>>
  /\ LET k == AddStatus(Tracking, b, NoTrain, dir)
     IN  Becomes(IF state[b] \in {"free", "unknown"} THEN UpdateState(k, b, sensor[b]) ELSE k)
  /\ UNCHANGED untouched

IdentificationAbsent(b) ==
  /\ Identifying
  /\ HasStatus(b, NoTrain)
  /\ Becomes(UpdateState([Tracking EXCEPT !.trains[b] = WithoutTrain(@, NoTrain)], b, sensor[b]))
  /\ UNCHANGED untouched

-----------------------------------------------------------------------------
Init ==
  /\ state = [b \in Block |-> "unknown"]
  /\ sensor = [b \in Block |-> [i \in 1..Inputs[b] |-> "unknown"]]
  /\ trains = [b \in Block |-> <<>>]
  /\ blocks = [t \in Train |-> <<>>]
  /\ reservedPaths = [b \in Block |-> [s \in Side |-> NoPath]]
  /\ isReserved = [p \in Path |-> FALSE]
  /\ timer = [p \in Path |-> "idle"]
  /\ lock = [e \in Element |-> {}]
  /\ position \in [Element -> {"unknown", "both"}]
  /\ \A e \in Element : position[e] = "both" <=> Kind[e] = "direction"
  /\ crashed = FALSE

\* A train that entered a block twice can keep an entry whose status is gone.
Orphaned == \E t \in Train : \E i \in DOMAIN blocks[t] : ~HasStatus(blocks[t][i], t)

\* Where a behaviour of the model ends: the process has crashed, or (bound) a train
\* lists a status that no block has, which this module does not follow further.
Halted == crashed \/ Orphaned

\* What goes through BlockPath::reserve and BlockPath::release.
PathStep == \E p \in Path : Reserve(p) \/ UserRelease(p) \/ TimerHandler(p)

UserStep ==
  \/ \E b \in Block, t \in Train :
       RemoveTrain(b, t) \/ \E dir \in TrainDirection : AssignTrain(b, t, dir)
  \/ \E b \in Block : FlipTrain(b) \/ SetStateFree(b)
  \/ \E t \in Train : SetDirection(t)
  \/ \E e \in Element : \E v \in Values[e] : SetPosition(e, v)

DetectorStep ==
  \/ \E b \in Block : \E i \in 1..Inputs[b] :
       SensorFree(b, i) \/ \E moving \in SUBSET ManualUnprotected : SensorOccupied(b, i, moving)
  \/ \E b \in Block : IdentificationAbsent(b)
  \/ \E b \in Block, dir \in TrainDirection : IdentificationPresent(b, dir)

OtherStep == UserStep \/ DetectorStep \/ \E p \in Path : TimerExpires(p)

\* A release is under way from its scheduling until its handler has run.
Scheduled == {p \in Path : timer[p] # "idle"}

Next ==
  /\ ~Halted
  /\ PathStep \/ OtherStep
  /\ Cardinality(Scheduled') <= MaxScheduled

Spec == Init /\ [][Next]_vars

-----------------------------------------------------------------------------
(* Properties.                                                             *)

\* Every variable keeps the shape the class members it stands for have.
TypeOK ==
  /\ state \in [Block -> BlockState]
  /\ sensor \in [Block -> Seq(SensorState)]
  /\ \A b \in Block : DOMAIN sensor[b] = 1..Inputs[b]
  /\ trains \in [Block -> Seq(Status)]
  /\ blocks \in [Train -> Seq(Block)]
  /\ reservedPaths \in [Block -> [Side -> Path \cup {NoPath}]]
  /\ isReserved \in [Path -> BOOLEAN]
  /\ timer \in [Path -> TimerState]
  /\ lock \in [Element -> SUBSET Value]
  /\ position \in [Element -> Value \cup {"unknown", "both"}]
  /\ crashed \in BOOLEAN

NeverReported(b) == \A i \in DOMAIN sensor[b] : sensor[b][i] = "unknown"

\* The state of a block is never stale: after every handler it is what the block's
\* sensors and train list say (updateState is called by some handlers, left to
\* others, and skipped under conditions by three), except that a user may have
\* declared free a block without trains whose sensors have never reported.
BlockStateCurrent ==
  \A b \in Block :
    \/ state[b] = StateOf(sensor[b], trains[b] # <<>>)
    \/ state[b] = "free" /\ trains[b] = <<>> /\ NeverReported(b)

\* A block never holds the status of two trains, although assign_train, a path's
\* reservation, an unannounced train and an identification each append one.
OneTrainPerBlock == \A b \in Block : Len(trains[b]) <= 1

\* Tracking never gives up a block that a train is standing in: while a block is
\* occupied only the user's remove_train takes its train away, or the reader that
\* reported an unassigned one.
OccupiedNotGivenUp ==
  [][\A b \in Block :
       state[b] = "occupied" /\ state'[b] = "occupied" /\ trains[b] # <<>> /\ trains'[b] = <<>>
         => IdentificationAbsent(b) \/ \E t \in Train : RemoveTrain(b, t)]_vars

\* blockrailtile.cpp:352: "Train must be in at least two blocks, else we loose it."
\* A train that is tracked somewhere stays tracked until a user removes it.
TrainNotLost ==
  [][\A t \in Train : blocks[t] # <<>> /\ blocks'[t] = <<>> =>
        \E b \in Block : RemoveTrain(b, t)]_vars
=============================================================================
