------------------------ MODULE InterlockingProofs ------------------------
(***************************************************************************)
(* Proofs about Interlocking, for every layout, every set of trains and    *)
(* every interleaving of users, detectors and timers.                      *)
(***************************************************************************)
EXTENDS Reservations, SequenceLemmas, FiniteSetTheorems

-----------------------------------------------------------------------------
(* The record that composes tracking steps keeps its type.                 *)

TrackingType ==
  [state : [Block -> BlockState], trains : [Block -> Seq(Status)],
   blocks : [Train -> Seq(Block)], timer : [Path -> TimerState]]

LEMMA StateOfType == ASSUME NEW values, NEW hasTrain PROVE StateOf(values, hasTrain) \in BlockState
BY DEF StateOf, BlockState

LEMMA WithoutTrainType ==
  ASSUME NEW ts \in Seq(Status), NEW t
  PROVE  /\ WithoutTrain(ts, t) \in Seq(Status)
         /\ Len(WithoutTrain(ts, t)) <= Len(ts)
<1>1. CASE StatusIndex(ts, t) = {}
  BY <1>1 DEF WithoutTrain
<1>2. CASE StatusIndex(ts, t) # {}
  <2>1. StatusIndex(ts, t) \subseteq 1..Len(ts)
    BY DEF StatusIndex
  <2>2. Min(StatusIndex(ts, t)) \in 1..Len(ts)
    BY <1>2, <2>1, MinIsLeast
  <2> QED
    BY <1>2, <2>2, RemoveAtType DEF WithoutTrain
<1> QED
  BY <1>1, <1>2

LEMMA UpdateStateType ==
  ASSUME NEW k \in TrackingType, NEW b \in Block, NEW values
  PROVE  UpdateState(k, b, values) \in TrackingType
BY StateOfType DEF UpdateState, TrackingType

LEMMA DelayedReleaseType ==
  ASSUME NEW timers \in [Path -> TimerState], NEW ps
  PROVE  DelayedRelease(timers, ps) \in [Path -> TimerState]
BY DEF DelayedRelease, TimerState

LEMMA AddStatusType ==
  ASSUME NEW k \in TrackingType, NEW b \in Block, NEW t \in Train \cup {NoTrain},
         NEW dir \in TrainDirection
  PROVE  AddStatus(k, b, t, dir) \in TrackingType
<1> DEFINE new == [train |-> t, direction |-> dir]
<1>1. new \in Status
  BY DEF Status
<1>2. k.trains[b] \in Seq(Status)
  BY DEF TrackingType
<1> HIDE DEF new
<1>3. Append(k.trains[b], new) \in Seq(Status)
  BY <1>1, <1>2
<1> USE DEF new
<1> QED
  BY <1>3 DEF AddStatus, TrackingType

LEMMA LeftType ==
  ASSUME NEW k \in TrackingType, NEW t \in Train, NEW b \in Block, NEW values
  PROVE  Left(k, t, b, values) \in TrackingType
<1> DEFINE gone == [k EXCEPT !.trains[b] = WithoutTrain(@, t),
                             !.blocks[t] = RemoveFirst(RemoveFirst(@, b), b)]
<1>1. WithoutTrain(k.trains[b], t) \in Seq(Status)
  BY WithoutTrainType DEF TrackingType
<1>2. RemoveFirst(RemoveFirst(k.blocks[t], b), b) \in Seq(Block)
  BY RemoveFirstType DEF TrackingType
<1>3. gone \in TrackingType
  BY <1>1, <1>2 DEF TrackingType
<1>4. UpdateState(gone, b, values) \in TrackingType
  BY <1>3, UpdateStateType
<1>5. \A ps : [UpdateState(gone, b, values) EXCEPT !.timer = DelayedRelease(@, ps)] \in TrackingType
  BY <1>4, DelayedReleaseType DEF TrackingType
<1> QED
  BY <1>5 DEF Left

LEMMA ReleaseTailType ==
  ASSUME NEW k \in TrackingType, NEW t \in Train, NEW values
  PROVE  ReleaseTail(k, t, values) \in TrackingType
<1>1. CASE Len(k.blocks[t]) > 1
  <2>1. k.blocks[t] \in Seq(Block)
    BY DEF TrackingType
  <2>2. Last(k.blocks[t]) \in Block
    BY <1>1, <2>1, ElementOfSeq DEF Last
  <2> QED
    BY <2>2, LeftType DEF ReleaseTail
<1>2. CASE ~(Len(k.blocks[t]) > 1)
  BY <1>2 DEF ReleaseTail
<1> QED
  BY <1>1, <1>2

LEMMA EnterType ==
  ASSUME NEW k \in TrackingType, NEW t \in Train, NEW b \in Block, NEW values
  PROVE  Enter(k, t, b, values) \in TrackingType
<1>1. k.blocks[t] \in Seq(Block) /\ <<b>> \in Seq(Block)
  BY DEF TrackingType
<1>2. <<b>> \o k.blocks[t] \in Seq(Block)
  BY <1>1, ConcatProperties
<1>3. [k EXCEPT !.blocks[t] = <<b>> \o @] \in TrackingType
  BY <1>2 DEF TrackingType
<1> QED
  BY <1>3, ReleaseTailType DEF Enter

LEMMA RemoveStatusType ==
  ASSUME NEW k \in TrackingType, NEW t \in Train, NEW b \in Block
  PROVE  RemoveStatus(k, b, t) \in TrackingType
<1> DEFINE gone == [k EXCEPT !.trains[b] = WithoutTrain(@, t), !.blocks[t] = RemoveFirst(@, b)]
<1>1. WithoutTrain(k.trains[b], t) \in Seq(Status)
  BY WithoutTrainType DEF TrackingType
<1>2. RemoveFirst(k.blocks[t], b) \in Seq(Block)
  BY RemoveFirstType DEF TrackingType
<1>3. gone \in TrackingType
  BY <1>1, <1>2 DEF TrackingType
<1> QED
  BY <1>3, UpdateStateType DEF RemoveStatus

LEMMA StatusAtType ==
  ASSUME NEW ts \in Seq(Status), ts # <<>>, NEW side
  PROVE  /\ StatusAt(ts, side) \in Status
         /\ StatusAt(ts, side).train \in Train \cup {NoTrain}
<1>1. Len(ts) \in Nat \ {0}
  BY EmptySeq
<1>2. ts[1] \in Status /\ ts[Len(ts)] \in Status
  BY <1>1, ElementOfSeq
<1>3. StatusAt(ts, side) \in Status
  BY <1>1, <1>2 DEF StatusAt, Last
<1> QED
  BY <1>3 DEF Status

-----------------------------------------------------------------------------
(* Type correctness, action by action.                                     *)

LEMMA TrackingTypeOK == TypeOK => Tracking \in TrackingType
BY DEF TypeOK, Tracking, TrackingType

LEMMA BecomesType ==
  ASSUME NEW k \in TrackingType, Becomes(k)
  PROVE  /\ state' \in [Block -> BlockState]
         /\ trains' \in [Block -> Seq(Status)]
         /\ blocks' \in [Train -> Seq(Block)]
         /\ timer' \in [Path -> TimerState]
BY DEF Becomes, TrackingType

LEMMA InitType == Init => TypeOK
<1> SUFFICES ASSUME Init PROVE TypeOK
  OBVIOUS
<1> USE TopologyAssumption DEF Init
<1>1. /\ state \in [Block -> BlockState]
      /\ timer \in [Path -> TimerState]
  BY DEF BlockState, TimerState
<1>2. sensor \in [Block -> Seq(SensorState)] /\ \A b \in Block : DOMAIN sensor[b] = 1..Inputs[b]
  <2>1. \A b \in Block : Inputs[b] \in Nat
    OBVIOUS
  <2>2. \A b \in Block : [i \in 1..Inputs[b] |-> "unknown"] \in Seq(SensorState)
    BY <2>1 DEF SensorState
  <2> QED
    BY <2>2
<1>3. trains \in [Block -> Seq(Status)] /\ blocks \in [Train -> Seq(Block)]
  BY EmptySeq
<1>4. /\ reservedPaths \in [Block -> [Side -> Path \cup {NoPath}]]
      /\ isReserved \in [Path -> BOOLEAN]
      /\ lock \in [Element -> SUBSET Value]
      /\ position \in [Element -> Value \cup {"unknown", "both"}]
      /\ crashed \in BOOLEAN
  OBVIOUS
<1> QED
  BY <1>1, <1>2, <1>3, <1>4 DEF TypeOK

LEMMA LockValueType ==
  ASSUME NEW p \in Path, NEW e \in Element, NEW v \in Needs(p, e)
  PROVE  v \in Value /\ LockValue(e, v) \subseteq Value
<1>1. v \in Value
  BY TopologyAssumption DEF Needs
<1>2. Values[e] \subseteq Value
  BY DEF Value
<1> QED
  BY <1>1, <1>2 DEF LockValue

LEMMA ReserveType ==
  ASSUME TypeOK, NEW p \in Path, Reserve(p)
  PROVE  TypeOK'
<1> DEFINE t == StatusAt(trains[From[p]], FromSide[p]).train
           k1 == ReserveBlock(Tracking, From[p], FromSide[p], t)
           k2 == ReserveBlock(k1, To[p], ToSide[p], t)
<1>1. /\ From[p] \in Block /\ To[p] \in Block
      /\ FromSide[p] \in Side /\ ToSide[p] \in Side
  BY TopologyAssumption
<1>2. trains[From[p]] \in Seq(Status) /\ trains[From[p]] # <<>> /\ t # NoTrain
  BY <1>1 DEF Reserve, TypeOK
<1>3. t \in Train
  BY <1>2, StatusAtType
<1> HIDE DEF t
<1>4. \A k \in TrackingType, b \in Block, side \in Side : ReserveBlock(k, b, side, t) \in TrackingType
  BY <1>3, AddStatusType, UpdateStateType DEF ReserveBlock, AwayFrom, TrainDirection
<1>5. k2 \in TrackingType
  BY <1>1, <1>4, TrackingTypeOK
<1>6. Becomes(k2)
  BY DEF Reserve, t
<1> HIDE DEF k1, k2
<1>7. lock' \in [Element -> SUBSET Value]
  BY LockValueType DEF Reserve, LockRoute, TypeOK
<1>8. position' \in [Element -> Value \cup {"unknown", "both"}]
  <2>1. ASSUME NEW e \in Element, Kind[e] = "turnout", Needs(p, e) # {}
        PROVE  (CHOOSE v \in UNION {LockValue(e, w) : w \in Needs(p, e)} : TRUE) \in Value
    <3>1. PICK w \in Needs(p, e) : TRUE
      BY <2>1
    <3>2. <<e, w>> \in Route[p]
      BY <3>1, TopologyAssumption DEF Needs
    <3>3. ElementGrants(e, w)
      BY <3>2 DEF Reserve
    <3>4. LockValue(e, w) # {}
      BY <2>1, <3>3 DEF ElementGrants
    <3>5. UNION {LockValue(e, x) : x \in Needs(p, e)} # {}
      BY <3>1, <3>4
    <3>6. UNION {LockValue(e, x) : x \in Needs(p, e)} \subseteq Value
      BY <2>1, LockValueType
    <3> QED
      BY <3>5, <3>6
  <2> QED
    BY <2>1 DEF Reserve, LockRoute, TypeOK
<1>9. /\ reservedPaths' \in [Block -> [Side -> Path \cup {NoPath}]]
      /\ isReserved' \in [Path -> BOOLEAN]
  BY <1>1 DEF Reserve, TypeOK
<1> QED
  BY <1>5, <1>6, <1>7, <1>8, <1>9, BecomesType DEF Reserve, TypeOK

LEMMA ReleaseType ==
  ASSUME TypeOK, NEW p \in Path, NEW timers \in [Path -> TimerState], Release(p, timers)
  PROVE  /\ state' \in [Block -> BlockState]
         /\ trains' \in [Block -> Seq(Status)]
         /\ blocks' \in [Train -> Seq(Block)]
         /\ timer' \in [Path -> TimerState]
         /\ reservedPaths' \in [Block -> [Side -> Path \cup {NoPath}]]
         /\ isReserved' \in [Path -> BOOLEAN]
         /\ lock' \in [Element -> SUBSET Value]
         /\ crashed' \in BOOLEAN
<1> DEFINE b == To[p]
           t == trains[b][1].train
           k == [Tracking EXCEPT !.timer = timers]
<1>0. b \in Block /\ From[p] \in Block /\ FromSide[p] \in Side /\ ToSide[p] \in Side
  BY TopologyAssumption
<1>1. CASE ReleaseRefused(p)
  BY <1>1 DEF Release, TypeOK
<1>2. CASE ~ReleaseRefused(p) /\ OnlyReserved(b) /\ t = NoTrain
  BY <1>2 DEF Release, TypeOK
<1>3. CASE ~ReleaseRefused(p) /\ ~(OnlyReserved(b) /\ t = NoTrain)
  <2> DEFINE k2 == IF OnlyReserved(b) /\ Len(blocks[t]) > 1 THEN RemoveStatus(k, b, t) ELSE k
  <2>1. k \in TrackingType
    BY TrackingTypeOK DEF TrackingType
  <2>2. k2 \in TrackingType
    <3>1. CASE OnlyReserved(b)
      <4>1. Len(trains[b]) = 1 /\ trains[b] \in Seq(Status)
        BY <1>0, <3>1 DEF OnlyReserved, TypeOK
      <4>2. trains[b][1] \in Status
        BY <4>1, ElementOfSeq
      <4>3. t \in Train
        BY <1>3, <3>1, <4>2 DEF Status
      <4> HIDE DEF t
      <4> QED
        BY <1>0, <2>1, <4>3, RemoveStatusType
    <3>2. CASE ~OnlyReserved(b)
      BY <2>1, <3>2
    <3> QED
      BY <3>1, <3>2
  <2>3. /\ Becomes(k2)
        /\ reservedPaths' = [reservedPaths EXCEPT ![b][ToSide[p]] = NoPath,
                                                 ![From[p]][FromSide[p]] = NoPath]
        /\ isReserved' = [isReserved EXCEPT ![p] = FALSE]
        /\ FreeRoute(p)
        /\ UNCHANGED crashed
    BY <1>3 DEF Release
  <2> HIDE DEF k2, b
  <2>4. lock' \in [Element -> SUBSET Value]
    BY <2>3 DEF FreeRoute, TypeOK
  <2>5. reservedPaths' \in [Block -> [Side -> Path \cup {NoPath}]]
    BY <1>0, <2>3 DEF TypeOK
  <2>6. isReserved' \in [Path -> BOOLEAN] /\ crashed' \in BOOLEAN
    BY <2>3 DEF TypeOK
  <2> QED
    BY <2>2, <2>3, <2>4, <2>5, <2>6, BecomesType
<1> QED
  BY <1>1, <1>2, <1>3

LEMMA UserReleaseType ==
  ASSUME TypeOK, NEW p \in Path, UserRelease(p)
  PROVE  TypeOK'
<1> DEFINE timers == IF ReleaseRefused(p) \/ timer[p] # "armed" THEN timer
                     ELSE [timer EXCEPT ![p] = "cancelled"]
<1>1. timers \in [Path -> TimerState]
  BY DEF TypeOK, TimerState
<1>2. Release(p, timers)
  BY DEF UserRelease
<1> HIDE DEF timers
<1> QED
  BY <1>1, <1>2, ReleaseType DEF UserRelease, TypeOK

LEMMA TimerExpiresType ==
  ASSUME TypeOK, NEW p \in Path, TimerExpires(p)
  PROVE  TypeOK'
BY DEF TimerExpires, TypeOK, TimerState

LEMMA TimerHandlerType ==
  ASSUME TypeOK, NEW p \in Path, TimerHandler(p)
  PROVE  TypeOK'
<1> DEFINE timers == [timer EXCEPT ![p] = "idle"]
<1>1. timers \in [Path -> TimerState]
  BY DEF TypeOK, TimerState
<1>2. CASE Release(p, timers)
  BY <1>1, <1>2, ReleaseType DEF TimerHandler, TypeOK
<1>3. CASE timer[p] = "cancelled" /\ timer' = timers /\
           UNCHANGED <<state, trains, blocks, reservedPaths, isReserved, lock, crashed>>
  BY <1>1, <1>3 DEF TimerHandler, TypeOK
<1> QED
  BY <1>2, <1>3 DEF TimerHandler

LEMMA AssignTrainType ==
  ASSUME TypeOK, NEW b \in Block, NEW t \in Train, NEW dir \in TrainDirection,
         AssignTrain(b, t, dir)
  PROVE  TypeOK'
<1> DEFINE k == [AddStatus(Tracking, b, t, dir) EXCEPT !.blocks[t] = <<b>>]
           k2 == IF state[b] \in {"free", "unknown"} THEN UpdateState(k, b, sensor[b]) ELSE k
<1>2. Becomes(k2)
  BY DEF AssignTrain
<1>3. k \in TrackingType
  <2>1. AddStatus(Tracking, b, t, dir) \in TrackingType
    BY TrackingTypeOK, AddStatusType
  <2>2. <<b>> \in Seq(Block)
    OBVIOUS
  <2> QED
    BY <2>1, <2>2 DEF TrackingType
<1> HIDE DEF k
<1>4. k2 \in TrackingType
  BY <1>3, UpdateStateType
<1> HIDE DEF k2
<1> QED
  BY <1>2, <1>4, BecomesType DEF AssignTrain, untouched, TypeOK

LEMMA RemoveTrainType ==
  ASSUME TypeOK, NEW b \in Block, NEW t \in Train, RemoveTrain(b, t)
  PROVE  TypeOK'
<1>1. RemoveStatus(Tracking, b, t) \in TrackingType
  BY TrackingTypeOK, RemoveStatusType
<1> QED
  BY <1>1, BecomesType DEF RemoveTrain, untouched, TypeOK

LEMMA OppositeType == ASSUME NEW dir \in TrainDirection PROVE Opposite(dir) \in TrainDirection
BY DEF Opposite, TrainDirection

LEMMA FlipTrainType ==
  ASSUME TypeOK, NEW b \in Block, FlipTrain(b)
  PROVE  TypeOK'
<1>1. trains[b] \in Seq(Status) /\ Len(trains[b]) = 1
  BY DEF FlipTrain, TypeOK
<1>2. trains[b][1] \in Status
  BY <1>1, ElementOfSeq
<1> DEFINE new == [trains[b][1] EXCEPT !.direction = Opposite(@)]
<1>3. new \in Status
  BY <1>2, OppositeType DEF Status
<1>4. [trains[b] EXCEPT ![1] = new] \in Seq(Status)
  <2> HIDE DEF new
  <2>1. 1 \in 1..Len(trains[b])
    BY <1>1
  <2> QED
    BY <1>1, <1>3, <2>1, ExceptSeq
<1>5. trains' \in [Block -> Seq(Status)]
  <2>1. CASE UNCHANGED trains
    BY <2>1 DEF TypeOK
  <2>2. CASE trains' = [trains EXCEPT ![b][1].direction = Opposite(@)]
    <3>1. trains' = [trains EXCEPT ![b] = [trains[b] EXCEPT ![1] = new]]
      BY <2>2 DEF TypeOK
    <3> HIDE DEF new
    <3> QED
      BY <1>4, <3>1 DEF TypeOK
  <2> QED
    BY <2>1, <2>2 DEF FlipTrain
<1>6. crashed' \in BOOLEAN
  BY DEF FlipTrain, TypeOK
<1> QED
  BY <1>5, <1>6 DEF FlipTrain, TypeOK

LEMMA SetStateFreeType ==
  ASSUME TypeOK, NEW b \in Block, SetStateFree(b)
  PROVE  TypeOK'
BY DEF SetStateFree, TypeOK, BlockState

LEMMA SetDirectionType ==
  ASSUME TypeOK, NEW t \in Train, SetDirection(t)
  PROVE  TypeOK'
<1> DEFINE turned(b) == [i \in DOMAIN trains[b] |->
                           IF trains[b][i].train = t
                           THEN [trains[b][i] EXCEPT !.direction = Opposite(@)] ELSE trains[b][i]]
<1>1. ASSUME NEW b \in Block
      PROVE  turned(b) \in Seq(Status)
  <2>1. trains[b] \in Seq(Status) /\ DOMAIN trains[b] = 1..Len(trains[b]) /\ Len(trains[b]) \in Nat
    BY DEF TypeOK
  <2>2. \A i \in DOMAIN trains[b] : trains[b][i] \in Status
    BY <2>1, ElementOfSeq
  <2>3. \A i \in DOMAIN trains[b] : turned(b)[i] \in Status
    BY <2>2, OppositeType DEF Status
  <2>4. turned(b) \in [1..Len(trains[b]) -> Status]
    BY <2>1, <2>3
  <2> QED
    BY <2>1, <2>4, SeqDef
<1>2. trains' \in [Block -> Seq(Status)]
  BY <1>1 DEF SetDirection, TypeOK
<1>3. blocks' \in [Train -> Seq(Block)]
  BY ReverseType DEF SetDirection, TypeOK
<1> QED
  BY <1>2, <1>3 DEF SetDirection, untouched, TypeOK

LEMMA SetPositionType ==
  ASSUME TypeOK, NEW e \in Element, NEW v \in Values[e], SetPosition(e, v)
  PROVE  TypeOK'
<1>1. v \in Value
  BY DEF Value
<1> QED
  BY <1>1 DEF SetPosition, TypeOK

\* What tracking makes of a sensor that becomes occupied keeps its type.
LEMMA EnteredType ==
  ASSUME TypeOK, NEW b \in Block, NEW i, NEW values,
         NEW moving \in SUBSET ManualUnprotected, ~EntersNoTrain(b, i),
         state[b] = "reserved" => trains[b] # <<>>
  PROVE  Entered(Tracking, b, i, moving, values) \in TrackingType
<1> DEFINE p == CHOOSE q \in Approaches(b, i, moving) : TRUE
           t == StatusAt(trains[From[p]], FromSide[p]).train
           side == IF Reservable(b, i, "A") THEN "A" ELSE "B"
           u == StatusAt(trains[b], side).train
           surprise == Enter(AddStatus(Tracking, b, t, AwayFrom(ToSide[p])), t, b, values)
<1>1. Tracking \in TrackingType
  BY TrackingTypeOK
<1>2. ASSUME state[b] \in {"free", "unknown"}, Approaches(b, i, moving) # {}
      PROVE  surprise \in TrackingType
  <2>1. p \in Approaches(b, i, moving)
    BY <1>2, Zenon
  <2>2. p \in Path /\ trains[From[p]] # <<>> /\ t \in moving
    BY <2>1 DEF Approaches
  <2>3. ToSide[p] \in Side /\ From[p] \in Block
    BY <2>2, TopologyAssumption
  <2>4. t \in Train \cup {NoTrain}
    BY <2>2, <2>3, StatusAtType DEF TypeOK
  <2>5. t \in Train
    BY <2>2, <2>4, TopologyAssumption
  <2>6. AwayFrom(ToSide[p]) \in TrainDirection
    BY DEF AwayFrom, TrainDirection
  <2> HIDE DEF t
  <2> QED
    BY <1>1, <2>5, <2>6, AddStatusType, EnterType
<1>3. ASSUME state[b] = "reserved", Reservable(b, i, "A") # Reservable(b, i, "B")
      PROVE  Enter(Tracking, u, b, values) \in TrackingType
  <2>1. u \in Train \cup {NoTrain}
    BY <1>3, StatusAtType DEF TypeOK
  <2>2. u # NoTrain
    BY <1>3 DEF EntersNoTrain, Announced, AnnouncedTrain, u, side
  <2> QED
    BY <1>1, <2>1, <2>2, EnterType
<1>4. Cardinality(Approaches(b, i, moving)) = 1 => Approaches(b, i, moving) # {}
  <2>1. Cardinality({}) = 0
    BY FS_EmptySet
  <2>2. Approaches(b, i, moving) = {} => Cardinality(Approaches(b, i, moving)) = 0
    BY <2>1, Zenon
  <2>3. 0 # 1
    OBVIOUS
  <2> QED
    BY <2>2, <2>3, Zenon
<1> HIDE DEF p, t, u, side, surprise
<1> QED
  BY <1>1, <1>2, <1>3, <1>4 DEF Entered, Surprise, Announced, AnnouncedTrain, SurprisingTrain,
     SurprisePath, p, t, u, side, surprise

\* A block in state reserved has a train: part of the state invariant below.
ReservedHasTrain == \A b \in Block : state[b] = "reserved" => trains[b] # <<>>

LEMMA SensorSeqType ==
  ASSUME TypeOK, NEW b \in Block, NEW i \in 1..Inputs[b], NEW v \in SensorState
  PROVE  /\ [sensor EXCEPT ![b][i] = v] \in [Block -> Seq(SensorState)]
         /\ \A c \in Block : DOMAIN [sensor EXCEPT ![b][i] = v][c] = 1..Inputs[c]
<1>1. sensor[b] \in Seq(SensorState) /\ i \in 1..Len(sensor[b]) /\ DOMAIN sensor[b] = 1..Inputs[b]
  <2>1. sensor[b] \in Seq(SensorState) /\ DOMAIN sensor[b] = 1..Inputs[b]
    BY DEF TypeOK
  <2>2. DOMAIN sensor[b] = 1..Len(sensor[b])
    BY <2>1, LenProperties
  <2> QED
    BY <2>1, <2>2
<1>2. [sensor[b] EXCEPT ![i] = v] \in Seq(SensorState)
  BY <1>1, ExceptSeq
<1> QED
  BY <1>1, <1>2 DEF TypeOK

LEMMA SensorOccupiedType ==
  ASSUME TypeOK, ReservedHasTrain, NEW b \in Block, NEW i \in 1..Inputs[b],
         NEW moving \in SUBSET ManualUnprotected, SensorOccupied(b, i, moving)
  PROVE  TypeOK'
<1> DEFINE values == [sensor EXCEPT ![b][i] = "occupied"]
           k == Entered(Tracking, b, i, moving, values)
<1>1. CASE EntersNoTrain(b, i)
  BY <1>1 DEF SensorOccupied, TypeOK
<1>2. CASE ~EntersNoTrain(b, i)
  <2>1. /\ sensor' = values
        /\ Becomes(UpdateState(k, b, values[b]))
        /\ crashed' \in BOOLEAN
    BY <1>2 DEF SensorOccupied
  <2>2. sensor' \in [Block -> Seq(SensorState)] /\ \A c \in Block : DOMAIN sensor'[c] = 1..Inputs[c]
    BY <2>1, SensorSeqType DEF SensorState
  <2>3. k \in TrackingType
    BY <1>2, EnteredType DEF ReservedHasTrain
  <2> HIDE DEF k, values
  <2>4. UpdateState(k, b, values[b]) \in TrackingType
    BY <2>3, UpdateStateType
  <2> QED
    BY <2>1, <2>2, <2>4, BecomesType DEF SensorOccupied, TypeOK
<1> QED
  BY <1>1, <1>2

LEMMA SensorFreeType ==
  ASSUME TypeOK, NEW b \in Block, NEW i \in 1..Inputs[b], SensorFree(b, i)
  PROVE  TypeOK'
<1> DEFINE k == UpdateState(Tracking, b, sensor'[b])
           t == trains[b][1].train
           given == /\ k.state[b] = "reserved"
                    /\ Len(trains[b]) = 1
                    /\ t # NoTrain
                    /\ Len(blocks[t]) > 1
                    /\ Last(blocks[t]) = b
           k2 == IF given THEN Left(k, t, b, sensor'[b]) ELSE k
<1>1. sensor' \in [Block -> Seq(SensorState)] /\ \A c \in Block : DOMAIN sensor'[c] = 1..Inputs[c]
  BY SensorSeqType DEF SensorFree, SensorState
<1>2. Becomes(k2)
  BY DEF SensorFree
<1>3. k \in TrackingType
  BY TrackingTypeOK, UpdateStateType
<1>4. ASSUME given PROVE t \in Train
  <2>1. trains[b] \in Seq(Status) /\ 1 \in 1..Len(trains[b])
    BY <1>4 DEF TypeOK
  <2>2. trains[b][1] \in Status
    BY <2>1, ElementOfSeq
  <2> QED
    BY <1>4, <2>2 DEF Status
<1> HIDE DEF k, t, given
<1>5. k2 \in TrackingType
  BY <1>3, <1>4, LeftType
<1> HIDE DEF k2
<1> QED
  BY <1>1, <1>2, <1>5, BecomesType DEF SensorFree, TypeOK

LEMMA IdentificationPresentType ==
  ASSUME TypeOK, NEW b \in Block, NEW dir \in TrainDirection, IdentificationPresent(b, dir)
  PROVE  TypeOK'
<1> DEFINE k == AddStatus(Tracking, b, NoTrain, dir)
           k2 == IF state[b] \in {"free", "unknown"} THEN UpdateState(k, b, sensor[b]) ELSE k
<1>1. k \in TrackingType
  BY TrackingTypeOK, AddStatusType
<1>2. Becomes(k2)
  BY DEF IdentificationPresent
<1> HIDE DEF k
<1>3. k2 \in TrackingType
  BY <1>1, UpdateStateType
<1> HIDE DEF k2
<1> QED
  BY <1>2, <1>3, BecomesType DEF IdentificationPresent, untouched, TypeOK

LEMMA IdentificationAbsentType ==
  ASSUME TypeOK, NEW b \in Block, IdentificationAbsent(b)
  PROVE  TypeOK'
<1> DEFINE k == [Tracking EXCEPT !.trains[b] = WithoutTrain(@, NoTrain)]
<1>1. Tracking.trains[b] \in Seq(Status)
  BY TrackingTypeOK DEF TrackingType
<1>2. k \in TrackingType
  BY <1>1, TrackingTypeOK, WithoutTrainType DEF TrackingType
<1>3. Becomes(UpdateState(k, b, sensor[b]))
  BY DEF IdentificationAbsent
<1> HIDE DEF k
<1> QED
  BY <1>2, <1>3, UpdateStateType, BecomesType DEF IdentificationAbsent, untouched, TypeOK

-----------------------------------------------------------------------------
(* A block's state is current, and it has at most one train.               *)
(*                                                                         *)
(* Between the steps of one handler the state of the block it works on is  *)
(* stale, so the invariant is stated of the record that the steps compose, *)
(* with the set of blocks whose state may be stale.                        *)

StateGood(st, ts, values) ==
  \/ st = StateOf(values, ts # <<>>)
  \/ st = "free" /\ ts = <<>> /\ \A i \in DOMAIN values : values[i] = "unknown"

TrackingGood(k, values, stale) ==
  /\ k \in TrackingType
  /\ \A c \in Block : Len(k.trains[c]) <= 1
  /\ \A c \in Block \ stale : StateGood(k.state[c], k.trains[c], values[c])

BlockInv == BlockStateCurrent /\ OneTrainPerBlock

LEMMA StateOfCases ==
  ASSUME NEW values
  PROVE  /\ StateOf(values, FALSE) \in {"free", "unknown", "occupied"}
         /\ StateOf(values, TRUE) \in {"reserved", "occupied"}
         /\ StateOf(values, TRUE) = "occupied" <=> StateOf(values, FALSE) = "occupied"
BY DEF StateOf

LEMMA StateGoodCases ==
  ASSUME NEW st, NEW ts, NEW values, StateGood(st, ts, values)
  PROVE  /\ st \in {"free", "unknown"} => ts = <<>>
         /\ st = "reserved" => ts # <<>>
         /\ st = "occupied" => \A us : StateGood(st, us, values)
<1>1. CASE ts = <<>>
  BY <1>1, StateOfCases DEF StateGood
<1>2. CASE ts # <<>>
  BY <1>2, StateOfCases DEF StateGood
<1> QED
  BY <1>1, <1>2

LEMMA BlockInvTracking ==
  ASSUME TypeOK
  PROVE  BlockInv <=> TrackingGood(Tracking, sensor, {})
BY TrackingTypeOK DEF BlockInv, BlockStateCurrent, OneTrainPerBlock, NeverReported,
   TrackingGood, StateGood, Tracking

LEMMA BecomesGood ==
  ASSUME NEW k, Becomes(k), TrackingGood(k, sensor', {})
  PROVE  BlockInv'
BY DEF Becomes, BlockInv, BlockStateCurrent, OneTrainPerBlock, NeverReported, TrackingGood, StateGood

LEMMA UpdateStateGood ==
  ASSUME NEW k, NEW values, NEW stale, NEW b \in Block, TrackingGood(k, values, stale)
  PROVE  TrackingGood(UpdateState(k, b, values[b]), values, stale \ {b})
<1> DEFINE k2 == UpdateState(k, b, values[b])
<1>1. k2 \in TrackingType
  BY UpdateStateType DEF TrackingGood
<1>2. k2.trains = k.trains
  BY DEF UpdateState, TrackingGood, TrackingType
<1>3. \A c \in Block : k2.state[c] = IF c = b THEN StateOf(values[b], k.trains[b] # <<>>) ELSE k.state[c]
  BY DEF UpdateState, TrackingGood, TrackingType
<1> HIDE DEF k2
<1>4. \A c \in Block : Len(k2.trains[c]) <= 1
  BY <1>2 DEF TrackingGood
<1>5. ASSUME NEW c \in Block \ (stale \ {b})
      PROVE  StateGood(k2.state[c], k2.trains[c], values[c])
  <2>1. CASE c = b
    BY <1>2, <1>3, <2>1 DEF StateGood
  <2>2. CASE c # b
    BY <1>2, <1>3, <2>2 DEF TrackingGood
  <2> QED
    BY <2>1, <2>2
<1> QED
  BY <1>1, <1>4, <1>5 DEF TrackingGood, k2

LEMMA WithoutTrainLength ==
  ASSUME NEW ts \in Seq(Status), NEW t, Len(ts) <= 1
  PROVE  Len(WithoutTrain(ts, t)) <= 1
<1>1. Len(WithoutTrain(ts, t)) \in Nat /\ Len(ts) \in Nat /\ Len(WithoutTrain(ts, t)) <= Len(ts)
  BY WithoutTrainType, LenProperties
<1> QED
  BY <1>1

LEMMA LeftGood ==
  ASSUME NEW k, NEW values, NEW stale, NEW b \in Block, NEW t \in Train,
         TrackingGood(k, values, stale)
  PROVE  TrackingGood(Left(k, t, b, values[b]), values, stale)
<1> DEFINE gone == [k EXCEPT !.trains[b] = WithoutTrain(@, t),
                             !.blocks[t] = RemoveFirst(RemoveFirst(@, b), b)]
           k2 == UpdateState(gone, b, values[b])
<1>0. k \in TrackingType
  BY DEF TrackingGood
<1>1. gone \in TrackingType
  <2>1. WithoutTrain(k.trains[b], t) \in Seq(Status)
    BY <1>0, WithoutTrainType DEF TrackingType
  <2>2. RemoveFirst(RemoveFirst(k.blocks[t], b), b) \in Seq(Block)
    BY <1>0, RemoveFirstType DEF TrackingType
  <2> QED
    BY <1>0, <2>1, <2>2 DEF TrackingType
<1>2. gone.state = k.state /\ \A c \in Block : gone.trains[c] = IF c = b THEN WithoutTrain(k.trains[b], t) ELSE k.trains[c]
  BY <1>0 DEF TrackingType
<1>3. \A c \in Block : Len(gone.trains[c]) <= 1
  BY <1>0, <1>2, WithoutTrainLength DEF TrackingGood, TrackingType
<1> HIDE DEF gone
<1>4. TrackingGood(gone, values, stale \cup {b})
  BY <1>1, <1>2, <1>3 DEF TrackingGood
<1>5. TrackingGood(k2, values, stale)
  <2>1. TrackingGood(k2, values, (stale \cup {b}) \ {b})
    BY <1>4, UpdateStateGood
  <2> QED
    BY <2>1 DEF TrackingGood
<1> HIDE DEF k2
<1>6. ASSUME NEW timers \in [Path -> TimerState]
      PROVE  TrackingGood([k2 EXCEPT !.timer = timers], values, stale)
  BY <1>5 DEF TrackingGood, TrackingType
<1>7. \A ps : DelayedRelease(k2.timer, ps) \in [Path -> TimerState]
  BY <1>5, DelayedReleaseType DEF TrackingGood, TrackingType
<1>8. PICK ps : Left(k, t, b, values[b]) = [k2 EXCEPT !.timer = DelayedRelease(@, ps)]
  BY DEF Left, k2, gone
<1> QED
  BY <1>6, <1>7, <1>8

LEMMA ReleaseTailGood ==
  ASSUME NEW k, NEW values, NEW stale, NEW t \in Train, TrackingGood(k, values, stale)
  PROVE  TrackingGood(ReleaseTail(k, t, values), values, stale)
<1>1. CASE Len(k.blocks[t]) > 1
  <2>1. k.blocks[t] \in Seq(Block)
    BY DEF TrackingGood, TrackingType
  <2>2. Last(k.blocks[t]) \in Block
    BY <1>1, <2>1, ElementOfSeq DEF Last
  <2> QED
    BY <2>2, LeftGood DEF ReleaseTail
<1>2. CASE ~(Len(k.blocks[t]) > 1)
  BY <1>2 DEF ReleaseTail
<1> QED
  BY <1>1, <1>2

LEMMA EnterGood ==
  ASSUME NEW k, NEW values, NEW stale, NEW t \in Train, NEW b \in Block,
         TrackingGood(k, values, stale)
  PROVE  TrackingGood(Enter(k, t, b, values), values, stale)
<1> DEFINE k1 == [k EXCEPT !.blocks[t] = <<b>> \o @]
<1>1. k.blocks[t] \in Seq(Block) /\ <<b>> \in Seq(Block)
  BY DEF TrackingGood, TrackingType
<1>2. <<b>> \o k.blocks[t] \in Seq(Block)
  BY <1>1, ConcatProperties
<1>3. TrackingGood(k1, values, stale)
  BY <1>2 DEF TrackingGood, TrackingType
<1> HIDE DEF k1
<1> QED
  BY <1>3, ReleaseTailGood DEF Enter, k1

LEMMA AddStatusGood ==
  ASSUME NEW k, NEW values, NEW stale, NEW b \in Block, NEW t \in Train \cup {NoTrain},
         NEW dir \in TrainDirection, TrackingGood(k, values, stale), k.trains[b] = <<>>
  PROVE  TrackingGood(AddStatus(k, b, t, dir), values, stale \cup {b})
<1> DEFINE k2 == AddStatus(k, b, t, dir)
<1>1. k2 \in TrackingType
  BY AddStatusType DEF TrackingGood
<1>2. k2.state = k.state /\ \A c \in Block \ {b} : k2.trains[c] = k.trains[c]
  BY DEF AddStatus, TrackingGood, TrackingType
<1>3. k2.trains[b] = Append(<<>>, [train |-> t, direction |-> dir])
  BY DEF AddStatus, TrackingGood, TrackingType
<1>4. Len(k2.trains[b]) <= 1
  BY <1>3
<1> HIDE DEF k2
<1>5. ASSUME NEW c \in Block
      PROVE  Len(k2.trains[c]) <= 1
  <2>1. CASE c = b
    BY <1>4, <2>1
  <2>2. CASE c # b
    BY <1>2, <2>2 DEF TrackingGood
  <2> QED
    BY <2>1, <2>2
<1>6. \A c \in Block \ (stale \cup {b}) : StateGood(k2.state[c], k2.trains[c], values[c])
  BY <1>2 DEF TrackingGood
<1> QED
  BY <1>1, <1>5, <1>6 DEF TrackingGood, k2

LEMMA RemoveStatusGood ==
  ASSUME NEW k, NEW b \in Block, NEW t \in Train, TrackingGood(k, sensor, {})
  PROVE  TrackingGood(RemoveStatus(k, b, t), sensor, {})
<1> DEFINE gone == [k EXCEPT !.trains[b] = WithoutTrain(@, t), !.blocks[t] = RemoveFirst(@, b)]
<1>0. k \in TrackingType
  BY DEF TrackingGood
<1>1. gone \in TrackingType
  <2>1. WithoutTrain(k.trains[b], t) \in Seq(Status)
    BY <1>0, WithoutTrainType DEF TrackingType
  <2>2. RemoveFirst(k.blocks[t], b) \in Seq(Block)
    BY <1>0, RemoveFirstType DEF TrackingType
  <2> QED
    BY <1>0, <2>1, <2>2 DEF TrackingType
<1>2. gone.state = k.state /\ \A c \in Block : gone.trains[c] = IF c = b THEN WithoutTrain(k.trains[b], t) ELSE k.trains[c]
  BY <1>0 DEF TrackingType
<1>3. \A c \in Block : Len(gone.trains[c]) <= 1
  BY <1>0, <1>2, WithoutTrainLength DEF TrackingGood, TrackingType
<1>4. RemoveStatus(k, b, t) = IF k.state[b] = "reserved" THEN UpdateState(gone, b, sensor[b]) ELSE gone
  BY DEF RemoveStatus
<1> HIDE DEF gone
<1>5. TrackingGood(gone, sensor, {b})
  BY <1>1, <1>2, <1>3 DEF TrackingGood
<1>6. CASE k.state[b] = "reserved"
  <2>1. TrackingGood(UpdateState(gone, b, sensor[b]), sensor, {b} \ {b})
    BY <1>5, UpdateStateGood
  <2> QED
    BY <1>4, <1>6, <2>1 DEF TrackingGood
<1>7. CASE k.state[b] # "reserved"
  <2>1. StateGood(k.state[b], k.trains[b], sensor[b])
    BY DEF TrackingGood
  <2>2. k.state[b] \in {"free", "unknown", "occupied"}
    BY <1>0, <1>7 DEF TrackingType, BlockState
  <2>3. StateGood(k.state[b], WithoutTrain(k.trains[b], t), sensor[b])
    <3>1. CASE k.state[b] = "occupied"
      BY <2>1, <3>1, StateGoodCases
    <3>2. CASE k.state[b] # "occupied"
      <4>1. k.trains[b] = <<>>
        BY <2>1, <2>2, <3>2, StateGoodCases
      <4>2. WithoutTrain(k.trains[b], t) = <<>>
        BY <4>1 DEF WithoutTrain, StatusIndex
      <4> QED
        BY <2>1, <4>1, <4>2
    <3> QED
      BY <3>1, <3>2
  <2>4. TrackingGood(gone, sensor, {})
    BY <1>2, <1>5, <2>3 DEF TrackingGood
  <2> QED
    BY <1>4, <1>7, <2>4
<1> QED
  BY <1>6, <1>7

-----------------------------------------------------------------------------
(* The state invariant, action by action.                                  *)

LEMMA ReserveGood ==
  ASSUME TypeOK, BlockInv, NEW p \in Path, Reserve(p)
  PROVE  BlockInv'
<1> DEFINE t == StatusAt(trains[From[p]], FromSide[p]).train
           k1 == ReserveBlock(Tracking, From[p], FromSide[p], t)
           k2 == ReserveBlock(k1, To[p], ToSide[p], t)
<1>1. /\ From[p] \in Block /\ To[p] \in Block
      /\ FromSide[p] \in Side /\ ToSide[p] \in Side
  BY TopologyAssumption
<1>2. trains[From[p]] \in Seq(Status) /\ trains[From[p]] # <<>> /\ t # NoTrain
  BY <1>1 DEF Reserve, TypeOK
<1>3. t \in Train
  BY <1>2, StatusAtType
<1> HIDE DEF t
<1>4. ASSUME NEW k, NEW b \in Block, NEW side \in Side, TrackingGood(k, sensor, {})
      PROVE  TrackingGood(ReserveBlock(k, b, side, t), sensor, {})
  <2>1. CASE k.state[b] = "free"
    <3>1. k.trains[b] = <<>>
      BY <1>4, <2>1, StateGoodCases DEF TrackingGood
    <3>2. AwayFrom(side) \in TrainDirection
      BY DEF AwayFrom, TrainDirection
    <3>3. TrackingGood(AddStatus(k, b, t, AwayFrom(side)), sensor, {} \cup {b})
      BY <1>3, <1>4, <3>1, <3>2, AddStatusGood
    <3>4. TrackingGood(UpdateState(AddStatus(k, b, t, AwayFrom(side)), b, sensor[b]), sensor, ({} \cup {b}) \ {b})
      BY <3>3, UpdateStateGood
    <3> QED
      BY <2>1, <3>4 DEF ReserveBlock, TrackingGood
  <2>2. CASE k.state[b] # "free"
    <3>1. TrackingGood(UpdateState(k, b, sensor[b]), sensor, {} \ {b})
      BY <1>4, UpdateStateGood
    <3> QED
      BY <2>2, <3>1 DEF ReserveBlock, TrackingGood
  <2> QED
    BY <2>1, <2>2
<1>5. TrackingGood(Tracking, sensor, {})
  BY BlockInvTracking
<1>6. TrackingGood(k1, sensor, {})
  BY <1>1, <1>4, <1>5
<1> HIDE DEF k1
<1>7. TrackingGood(k2, sensor, {})
  BY <1>1, <1>4, <1>6
<1>8. Becomes(k2) /\ sensor' = sensor
  BY DEF Reserve, t, k1
<1> HIDE DEF k2
<1> QED
  BY <1>7, <1>8, BecomesGood

LEMMA UnchangedGood ==
  ASSUME BlockInv, UNCHANGED <<state, sensor, trains>>
  PROVE  BlockInv'
BY DEF BlockInv, BlockStateCurrent, OneTrainPerBlock, NeverReported

LEMMA ReleaseGood ==
  ASSUME TypeOK, BlockInv, NEW p \in Path, NEW timers \in [Path -> TimerState],
         Release(p, timers), UNCHANGED sensor
  PROVE  BlockInv'
<1> DEFINE b == To[p]
           t == trains[b][1].train
           k == [Tracking EXCEPT !.timer = timers]
           k2 == IF OnlyReserved(b) /\ Len(blocks[t]) > 1 THEN RemoveStatus(k, b, t) ELSE k
<1>0. b \in Block
  BY TopologyAssumption
<1>1. CASE ReleaseRefused(p) \/ (OnlyReserved(b) /\ t = NoTrain)
  BY <1>1, UnchangedGood DEF Release
<1>2. CASE ~ReleaseRefused(p) /\ ~(OnlyReserved(b) /\ t = NoTrain)
  <2>1. Becomes(k2)
    BY <1>2 DEF Release
  <2>2. TrackingGood(Tracking, sensor, {})
    BY BlockInvTracking
  <2>3. TrackingGood(k, sensor, {})
    BY <2>2 DEF TrackingGood, TrackingType
  <2>4. TrackingGood(k2, sensor, {})
    <3>1. CASE OnlyReserved(b)
      <4>1. Len(trains[b]) = 1 /\ trains[b] \in Seq(Status)
        BY <1>0, <3>1 DEF OnlyReserved, TypeOK
      <4>2. trains[b][1] \in Status
        BY <4>1, ElementOfSeq
      <4>3. t \in Train
        BY <1>2, <3>1, <4>2 DEF Status
      <4> HIDE DEF t, k
      <4> QED
        BY <1>0, <2>3, <4>3, RemoveStatusGood
    <3>2. CASE ~OnlyReserved(b)
      BY <2>3, <3>2
    <3> QED
      BY <3>1, <3>2
  <2> HIDE DEF k2
  <2> QED
    BY <2>1, <2>4, BecomesGood
<1> QED
  BY <1>1, <1>2

LEMMA UserReleaseGood ==
  ASSUME TypeOK, BlockInv, NEW p \in Path, UserRelease(p)
  PROVE  BlockInv'
<1> DEFINE timers == IF ReleaseRefused(p) \/ timer[p] # "armed" THEN timer
                     ELSE [timer EXCEPT ![p] = "cancelled"]
<1>1. timers \in [Path -> TimerState]
  BY DEF TypeOK, TimerState
<1>2. Release(p, timers) /\ UNCHANGED sensor
  BY DEF UserRelease
<1> HIDE DEF timers
<1> QED
  BY <1>1, <1>2, ReleaseGood

LEMMA TimerHandlerGood ==
  ASSUME TypeOK, BlockInv, NEW p \in Path, TimerHandler(p)
  PROVE  BlockInv'
<1> DEFINE timers == [timer EXCEPT ![p] = "idle"]
<1>1. timers \in [Path -> TimerState] /\ UNCHANGED sensor
  BY DEF TimerHandler, TypeOK, TimerState
<1> HIDE DEF timers
<1>2. CASE Release(p, timers)
  BY <1>1, <1>2, ReleaseGood
<1>3. CASE UNCHANGED <<state, trains, blocks, reservedPaths, isReserved, lock, crashed>>
  BY <1>1, <1>3, UnchangedGood
<1> QED
  BY <1>2, <1>3 DEF TimerHandler, timers

\* assign_train and an identification add a status to a block without one.
LEMMA FirstStatusGood ==
  ASSUME TypeOK, BlockInv, NEW k, NEW b \in Block, trains[b] = <<>>,
         TrackingGood(k, sensor, {b}), k.state = state,
         Becomes(IF state[b] \in {"free", "unknown"} THEN UpdateState(k, b, sensor[b]) ELSE k),
         UNCHANGED sensor
  PROVE  BlockInv'
<1>1. StateGood(state[b], trains[b], sensor[b])
  BY BlockInvTracking DEF TrackingGood, Tracking
<1>2. CASE state[b] \in {"free", "unknown"}
  <2>1. TrackingGood(UpdateState(k, b, sensor[b]), sensor, {b} \ {b})
    BY UpdateStateGood
  <2>2. TrackingGood(UpdateState(k, b, sensor[b]), sensor', {})
    BY <2>1 DEF TrackingGood
  <2> QED
    BY <1>2, <2>2, BecomesGood
<1>3. CASE state[b] \notin {"free", "unknown"}
  <2>1. state[b] = "occupied"
    BY <1>1, <1>3, StateGoodCases DEF TypeOK, BlockState
  <2>2. StateGood(k.state[b], k.trains[b], sensor[b])
    BY <1>1, <2>1, StateGoodCases
  <2>3. TrackingGood(k, sensor', {})
    BY <2>2 DEF TrackingGood
  <2> QED
    BY <1>3, <2>3, BecomesGood
<1> QED
  BY <1>2, <1>3

LEMMA AssignTrainGood ==
  ASSUME TypeOK, BlockInv, NEW b \in Block, NEW t \in Train, NEW dir \in TrainDirection,
         AssignTrain(b, t, dir)
  PROVE  BlockInv'
<1> DEFINE k1 == AddStatus(Tracking, b, t, dir)
           k == [k1 EXCEPT !.blocks[t] = <<b>>]
<1>1. trains[b] = <<>> /\ UNCHANGED sensor
  BY DEF AssignTrain, untouched
<1>2. Becomes(IF state[b] \in {"free", "unknown"} THEN UpdateState(k, b, sensor[b]) ELSE k)
  BY DEF AssignTrain
<1>3. TrackingGood(Tracking, sensor, {}) /\ Tracking.trains[b] = <<>>
  BY <1>1, BlockInvTracking DEF Tracking
<1>4. k1.state = state
  BY DEF AddStatus, Tracking
<1>5. TrackingGood(k1, sensor, {} \cup {b})
  BY <1>3, AddStatusGood
<1> HIDE DEF k1
<1>6. TrackingGood(k, sensor, {b}) /\ k.state = state
  <2>1. <<b>> \in Seq(Block)
    OBVIOUS
  <2> QED
    BY <1>4, <1>5, <2>1 DEF TrackingGood, TrackingType
<1> HIDE DEF k
<1> QED
  BY <1>1, <1>2, <1>6, FirstStatusGood

LEMMA RemoveTrainGood ==
  ASSUME TypeOK, BlockInv, NEW b \in Block, NEW t \in Train, RemoveTrain(b, t)
  PROVE  BlockInv'
<1>1. TrackingGood(RemoveStatus(Tracking, b, t), sensor, {})
  BY BlockInvTracking, RemoveStatusGood
<1>2. Becomes(RemoveStatus(Tracking, b, t)) /\ sensor' = sensor
  BY DEF RemoveTrain, untouched
<1> QED
  BY <1>1, <1>2, BecomesGood

\* Turning statuses changes neither how many a block has nor its state.
LEMMA SameLengthGood ==
  ASSUME TypeOK, BlockInv, UNCHANGED <<state, sensor>>,
         \A b \in Block : /\ Len(trains'[b]) = Len(trains[b])
                          /\ trains'[b] = <<>> <=> trains[b] = <<>>
  PROVE  BlockInv'
BY DEF BlockInv, BlockStateCurrent, OneTrainPerBlock, NeverReported

LEMMA FlipTrainGood ==
  ASSUME TypeOK, BlockInv, NEW b \in Block, FlipTrain(b)
  PROVE  BlockInv'
<1>1. UNCHANGED <<state, sensor>>
  BY DEF FlipTrain
<1>2. CASE UNCHANGED trains
  BY <1>1, <1>2, UnchangedGood
<1>3. CASE trains' = [trains EXCEPT ![b][1].direction = Opposite(@)]
  <2>1. trains[b] \in Seq(Status) /\ Len(trains[b]) = 1
    BY DEF FlipTrain, TypeOK
  <2>2. \A c \in Block : c # b => trains'[c] = trains[c]
    BY <1>3 DEF TypeOK
  <2>3. trains'[b] = [trains[b] EXCEPT ![1] = [trains[b][1] EXCEPT !.direction = Opposite(@)]]
    BY <1>3 DEF TypeOK
  <2>4. trains'[b] \in Seq(Status) /\ Len(trains'[b]) = 1
    <3>1. trains'[b] \in Seq(Status)
      BY FlipTrainType DEF TypeOK
    <3>2. DOMAIN trains'[b] = DOMAIN trains[b]
      BY <2>3
    <3> QED
      BY <2>1, <3>1, <3>2, LenProperties
  <2>5. trains[b] # <<>> /\ trains'[b] # <<>>
    BY <2>1, <2>4
  <2> QED
    BY <1>1, <2>1, <2>2, <2>4, <2>5, SameLengthGood
<1> QED
  BY <1>2, <1>3 DEF FlipTrain

LEMMA SetDirectionGood ==
  ASSUME TypeOK, BlockInv, NEW t \in Train, SetDirection(t)
  PROVE  BlockInv'
<1>1. UNCHANGED <<state, sensor>>
  BY DEF SetDirection, untouched
<1>2. ASSUME NEW b \in Block
      PROVE  Len(trains'[b]) = Len(trains[b]) /\ (trains'[b] = <<>> <=> trains[b] = <<>>)
  <2>1. trains[b] \in Seq(Status) /\ trains'[b] \in Seq(Status)
    BY SetDirectionType DEF TypeOK
  <2>2. DOMAIN trains'[b] = DOMAIN trains[b]
    BY DEF SetDirection
  <2>3. Len(trains'[b]) = Len(trains[b])
    BY <2>1, <2>2, LenProperties
  <2> QED
    BY <2>1, <2>3, EmptySeq
<1> QED
  BY <1>1, <1>2, SameLengthGood

LEMMA SetStateFreeGood ==
  ASSUME TypeOK, BlockInv, NEW b \in Block, SetStateFree(b)
  PROVE  BlockInv'
<1>1. /\ UNCHANGED <<sensor, trains>>
      /\ \A c \in Block : state'[c] = IF c = b THEN "free" ELSE state[c]
      /\ trains[b] = <<>> /\ NeverReported(b)
  BY DEF SetStateFree, TypeOK, NeverReported
<1> QED
  BY <1>1 DEF BlockInv, BlockStateCurrent, OneTrainPerBlock, NeverReported

\* A sensor that changes makes only its own block stale.
LEMMA SensorStale ==
  ASSUME TypeOK, BlockInv, NEW b \in Block, NEW i, NEW v
  PROVE  TrackingGood(Tracking, [sensor EXCEPT ![b][i] = v], {b})
<1>1. TrackingGood(Tracking, sensor, {})
  BY BlockInvTracking
<1>2. \A c \in Block \ {b} : [sensor EXCEPT ![b][i] = v][c] = sensor[c]
  BY DEF TypeOK
<1> QED
  BY <1>1, <1>2 DEF TrackingGood

LEMMA EnteredGood ==
  ASSUME TypeOK, BlockInv, NEW b \in Block, NEW i, NEW values,
         NEW moving \in SUBSET ManualUnprotected, ~EntersNoTrain(b, i),
         TrackingGood(Tracking, values, {b})
  PROVE  TrackingGood(Entered(Tracking, b, i, moving, values), values, {b})
<1> DEFINE p == CHOOSE q \in Approaches(b, i, moving) : TRUE
           t == StatusAt(trains[From[p]], FromSide[p]).train
           side == IF Reservable(b, i, "A") THEN "A" ELSE "B"
           u == StatusAt(trains[b], side).train
           surprise == Enter(AddStatus(Tracking, b, t, AwayFrom(ToSide[p])), t, b, values)
<1>0. StateGood(state[b], trains[b], sensor[b])
  BY BlockInvTracking DEF TrackingGood, Tracking
<1>1. ASSUME state[b] \in {"free", "unknown"}, Approaches(b, i, moving) # {}
      PROVE  TrackingGood(surprise, values, {b})
  <2>1. p \in Approaches(b, i, moving)
    BY <1>1, Zenon
  <2>2. p \in Path /\ trains[From[p]] # <<>> /\ t \in moving
    BY <2>1 DEF Approaches
  <2>3. t \in Train
    BY <2>2, TopologyAssumption
  <2>4. AwayFrom(ToSide[p]) \in TrainDirection
    BY DEF AwayFrom, TrainDirection
  <2>5. Tracking.trains[b] = <<>>
    BY <1>0, <1>1, StateGoodCases DEF Tracking
  <2> HIDE DEF t, p
  <2>6. TrackingGood(AddStatus(Tracking, b, t, AwayFrom(ToSide[p])), values, {b} \cup {b})
    BY <2>3, <2>4, <2>5, AddStatusGood
  <2>7. TrackingGood(AddStatus(Tracking, b, t, AwayFrom(ToSide[p])), values, {b})
    BY <2>6 DEF TrackingGood
  <2> QED
    BY <2>3, <2>7, EnterGood
<1>2. ASSUME state[b] = "reserved", Reservable(b, i, "A") # Reservable(b, i, "B")
      PROVE  TrackingGood(Enter(Tracking, u, b, values), values, {b})
  <2>1. trains[b] # <<>>
    BY <1>0, <1>2, StateGoodCases
  <2>2. u \in Train \cup {NoTrain}
    BY <2>1, StatusAtType DEF TypeOK
  <2>3. u # NoTrain
    BY <1>2 DEF EntersNoTrain, Announced, AnnouncedTrain, u, side
  <2> QED
    BY <2>2, <2>3, EnterGood
<1>3. Cardinality(Approaches(b, i, moving)) = 1 => Approaches(b, i, moving) # {}
  <2>1. Cardinality({}) = 0
    BY FS_EmptySet
  <2>2. Approaches(b, i, moving) = {} => Cardinality(Approaches(b, i, moving)) = 0
    BY <2>1, Zenon
  <2>3. 0 # 1
    OBVIOUS
  <2> QED
    BY <2>2, <2>3, Zenon
<1> HIDE DEF p, t, u, side, surprise
<1> QED
  BY <1>1, <1>2, <1>3 DEF Entered, Surprise, Announced, AnnouncedTrain, SurprisingTrain,
     SurprisePath, p, t, u, side, surprise

LEMMA SensorOccupiedGood ==
  ASSUME TypeOK, BlockInv, NEW b \in Block, NEW i \in 1..Inputs[b],
         NEW moving \in SUBSET ManualUnprotected, SensorOccupied(b, i, moving)
  PROVE  BlockInv'
<1> DEFINE values == [sensor EXCEPT ![b][i] = "occupied"]
           k == Entered(Tracking, b, i, moving, values)
<1>1. CASE EntersNoTrain(b, i)
  BY <1>1, UnchangedGood DEF SensorOccupied
<1>2. CASE ~EntersNoTrain(b, i)
  <2>1. sensor' = values /\ Becomes(UpdateState(k, b, values[b]))
    BY <1>2 DEF SensorOccupied
  <2>2. TrackingGood(Tracking, values, {b})
    BY SensorStale
  <2> HIDE DEF values
  <2>3. TrackingGood(k, values, {b})
    BY <1>2, <2>2, EnteredGood
  <2> HIDE DEF k
  <2>4. TrackingGood(UpdateState(k, b, values[b]), values, {b} \ {b})
    BY <2>3, UpdateStateGood
  <2>5. TrackingGood(UpdateState(k, b, values[b]), sensor', {})
    BY <2>1, <2>4 DEF TrackingGood
  <2> QED
    BY <2>1, <2>5, BecomesGood
<1> QED
  BY <1>1, <1>2

LEMMA SensorFreeGood ==
  ASSUME TypeOK, BlockInv, NEW b \in Block, NEW i \in 1..Inputs[b], SensorFree(b, i)
  PROVE  BlockInv'
<1> DEFINE k == UpdateState(Tracking, b, sensor'[b])
           t == trains[b][1].train
           given == /\ k.state[b] = "reserved"
                    /\ Len(trains[b]) = 1
                    /\ t # NoTrain
                    /\ Len(blocks[t]) > 1
                    /\ Last(blocks[t]) = b
           k2 == IF given THEN Left(k, t, b, sensor'[b]) ELSE k
<1>1. TrackingGood(Tracking, sensor', {b})
  BY SensorStale DEF SensorFree
<1>2. Becomes(k2)
  BY DEF SensorFree
<1>3. TrackingGood(k, sensor', {})
  <2>1. TrackingGood(k, sensor', {b} \ {b})
    BY <1>1, UpdateStateGood
  <2> QED
    BY <2>1 DEF TrackingGood
<1>4. ASSUME given PROVE t \in Train
  <2>1. trains[b] \in Seq(Status) /\ 1 \in 1..Len(trains[b])
    BY <1>4 DEF TypeOK
  <2>2. trains[b][1] \in Status
    BY <2>1, ElementOfSeq
  <2> QED
    BY <1>4, <2>2 DEF Status
<1> HIDE DEF k, t, given
<1>5. TrackingGood(k2, sensor', {})
  BY <1>3, <1>4, LeftGood
<1> HIDE DEF k2
<1> QED
  BY <1>2, <1>5, BecomesGood

LEMMA IdentificationPresentGood ==
  ASSUME TypeOK, BlockInv, NEW b \in Block, NEW dir \in TrainDirection,
         IdentificationPresent(b, dir)
  PROVE  BlockInv'
<1> DEFINE k == AddStatus(Tracking, b, NoTrain, dir)
<1>1. trains[b] = <<>> /\ UNCHANGED sensor
  BY DEF IdentificationPresent, untouched
<1>2. Becomes(IF state[b] \in {"free", "unknown"} THEN UpdateState(k, b, sensor[b]) ELSE k)
  BY DEF IdentificationPresent
<1>3. TrackingGood(Tracking, sensor, {}) /\ Tracking.trains[b] = <<>>
  BY <1>1, BlockInvTracking DEF Tracking
<1>4. TrackingGood(k, sensor, {} \cup {b})
  BY <1>3, AddStatusGood
<1>5. TrackingGood(k, sensor, {b}) /\ k.state = state
  BY <1>4 DEF TrackingGood, AddStatus, Tracking
<1> HIDE DEF k
<1> QED
  BY <1>1, <1>2, <1>5, FirstStatusGood

LEMMA IdentificationAbsentGood ==
  ASSUME TypeOK, BlockInv, NEW b \in Block, IdentificationAbsent(b)
  PROVE  BlockInv'
<1> DEFINE k == [Tracking EXCEPT !.trains[b] = WithoutTrain(@, NoTrain)]
<1>1. TrackingGood(Tracking, sensor, {}) /\ sensor' = sensor
  BY BlockInvTracking DEF IdentificationAbsent, untouched
<1>2. Becomes(UpdateState(k, b, sensor[b]))
  BY DEF IdentificationAbsent
<1>3. TrackingGood(k, sensor, {b})
  <2>1. Tracking.trains[b] \in Seq(Status) /\ Len(Tracking.trains[b]) <= 1
    BY <1>1 DEF TrackingGood, TrackingType
  <2>2. WithoutTrain(Tracking.trains[b], NoTrain) \in Seq(Status)
        /\ Len(WithoutTrain(Tracking.trains[b], NoTrain)) <= 1
    BY <2>1, WithoutTrainType, WithoutTrainLength
  <2> QED
    BY <1>1, <2>2 DEF TrackingGood, TrackingType
<1> HIDE DEF k
<1>4. TrackingGood(UpdateState(k, b, sensor[b]), sensor, {b} \ {b})
  BY <1>3, UpdateStateGood
<1>5. TrackingGood(UpdateState(k, b, sensor[b]), sensor', {})
  BY <1>1, <1>4 DEF TrackingGood
<1> QED
  BY <1>2, <1>5, BecomesGood

-----------------------------------------------------------------------------
(* The inductive invariant and the theorems.                               *)

IInv == TypeOK /\ BlockInv

LEMMA InitGood == Init => BlockInv
<1> SUFFICES ASSUME Init, NEW b \in Block
             PROVE  /\ StateGood(state[b], trains[b], sensor[b])
                    /\ Len(trains[b]) <= 1
  BY DEF BlockInv, BlockStateCurrent, OneTrainPerBlock, NeverReported, StateGood
<1>1. state[b] = "unknown" /\ trains[b] = <<>> /\ sensor[b] = [i \in 1..Inputs[b] |-> "unknown"]
  BY DEF Init
<1>2. Inputs[b] \in Nat
  BY TopologyAssumption
<1>3. StateOf(sensor[b], FALSE) = "unknown"
  <2> DEFINE notFree == {i \in DOMAIN sensor[b] : sensor[b][i] # "free"}
  <2>1. notFree = 1..Inputs[b]
    BY <1>1
  <2>2. CASE Inputs[b] = 0
    <3>1. notFree = {} /\ sensor[b] = <<>>
      BY <1>1, <2>1, <2>2
    <3> QED
      BY <3>1 DEF StateOf
  <2>3. CASE Inputs[b] # 0
    <3>1. notFree # {} /\ notFree \in SUBSET Nat
      BY <1>2, <2>1, <2>3
    <3>2. Min(notFree) \in 1..Inputs[b]
      BY <2>1, <3>1, MinIsLeast
    <3>3. sensor[b][Min(notFree)] = "unknown"
      BY <1>1, <3>2
    <3> HIDE DEF notFree
    <3> QED
      BY <3>1, <3>3 DEF StateOf, notFree
  <2> QED
    BY <2>2, <2>3
<1>4. (trains[b] # <<>>) = FALSE
  BY <1>1
<1>5. state[b] = StateOf(sensor[b], trains[b] # <<>>)
  BY <1>1, <1>3, <1>4
<1>6. Len(trains[b]) <= 1
  BY <1>1
<1> QED
  BY <1>5, <1>6 DEF StateGood

LEMMA BlockInvReserved == ASSUME TypeOK, BlockInv PROVE ReservedHasTrain
<1>1. \A b \in Block : StateGood(state[b], trains[b], sensor[b])
  BY BlockInvTracking DEF TrackingGood, Tracking
<1> QED
  BY <1>1, StateGoodCases DEF ReservedHasTrain

\* Every handler keeps the invariant.
LEMMA StepInv == IInv /\ [Next]_vars => IInv'
<1> SUFFICES ASSUME TypeOK, BlockInv, [Next]_vars PROVE TypeOK' /\ BlockInv'
  BY DEF IInv
<1>1. CASE UNCHANGED vars
  BY <1>1 DEF vars, TypeOK, BlockInv, BlockStateCurrent, OneTrainPerBlock, NeverReported
<1>2. ASSUME NEW p \in Path, Reserve(p) PROVE TypeOK' /\ BlockInv'
  BY <1>2, ReserveType, ReserveGood
<1>3. ASSUME NEW p \in Path, UserRelease(p) PROVE TypeOK' /\ BlockInv'
  BY <1>3, UserReleaseType, UserReleaseGood
<1>4. ASSUME NEW b \in Block, NEW t \in Train, NEW dir \in TrainDirection, AssignTrain(b, t, dir)
      PROVE  TypeOK' /\ BlockInv'
  BY <1>4, AssignTrainType, AssignTrainGood
<1>5. ASSUME NEW b \in Block, NEW t \in Train, RemoveTrain(b, t) PROVE TypeOK' /\ BlockInv'
  BY <1>5, RemoveTrainType, RemoveTrainGood
<1>6. ASSUME NEW b \in Block, FlipTrain(b) PROVE TypeOK' /\ BlockInv'
  BY <1>6, FlipTrainType, FlipTrainGood
<1>7. ASSUME NEW b \in Block, SetStateFree(b) PROVE TypeOK' /\ BlockInv'
  BY <1>7, SetStateFreeType, SetStateFreeGood
<1>8. ASSUME NEW t \in Train, SetDirection(t) PROVE TypeOK' /\ BlockInv'
  BY <1>8, SetDirectionType, SetDirectionGood
<1>9. ASSUME NEW e \in Element, NEW v \in Values[e], SetPosition(e, v) PROVE TypeOK' /\ BlockInv'
  BY <1>9, SetPositionType, UnchangedGood DEF SetPosition
<1>10. ASSUME NEW b \in Block, NEW i \in 1..Inputs[b],
         NEW moving \in SUBSET ManualUnprotected, SensorOccupied(b, i, moving)
       PROVE  TypeOK' /\ BlockInv'
  BY <1>10, BlockInvReserved, SensorOccupiedType, SensorOccupiedGood
<1>11. ASSUME NEW b \in Block, NEW i \in 1..Inputs[b], SensorFree(b, i) PROVE TypeOK' /\ BlockInv'
  BY <1>11, SensorFreeType, SensorFreeGood
<1>12. ASSUME NEW b \in Block, IdentificationAbsent(b) PROVE TypeOK' /\ BlockInv'
  BY <1>12, IdentificationAbsentType, IdentificationAbsentGood
<1>13. ASSUME NEW b \in Block, NEW dir \in TrainDirection, IdentificationPresent(b, dir)
       PROVE  TypeOK' /\ BlockInv'
  BY <1>13, IdentificationPresentType, IdentificationPresentGood
<1>14. ASSUME NEW p \in Path, TimerExpires(p) PROVE TypeOK' /\ BlockInv'
  BY <1>14, TimerExpiresType, UnchangedGood DEF TimerExpires
<1>15. ASSUME NEW p \in Path, TimerHandler(p) PROVE TypeOK' /\ BlockInv'
  BY <1>15, TimerHandlerType, TimerHandlerGood
<1>16. PathStep => TypeOK' /\ BlockInv'
  BY <1>2, <1>3, <1>15 DEF PathStep
<1>17. UserStep => TypeOK' /\ BlockInv'
  BY <1>4, <1>5, <1>6, <1>7, <1>8, <1>9 DEF UserStep
<1>18. DetectorStep => TypeOK' /\ BlockInv'
  BY <1>10, <1>11, <1>12, <1>13 DEF DetectorStep
<1> QED
  BY <1>1, <1>14, <1>16, <1>17, <1>18 DEF Next, OtherStep

LEMMA Invariance == Spec => []IInv
<1>1. Init => IInv
  BY InitType, InitGood DEF IInv
<1> QED
  BY <1>1, StepInv, PTL DEF Spec

\* Every variable keeps its type, on any layout: no handler of blockpath.cpp,
\* blockrailtile.cpp or traintracking.cpp stores a status, path, block or position
\* that the layout does not have.
THEOREM TypeCorrect == Spec => []TypeOK
<1>1. IInv => TypeOK
  BY DEF IInv
<1> QED
  BY <1>1, Invariance, PTL

\* On any layout a block's state is what its sensors and its train list say after
\* every handler, although only some of them call updateState.
THEOREM StateCurrent == Spec => []BlockStateCurrent
<1>1. IInv => BlockStateCurrent
  BY DEF IInv, BlockInv
<1> QED
  BY <1>1, Invariance, PTL

\* On any layout no block ever has the status of two trains: each handler that
\* appends one does so for a block whose state, being current, says it has none.
THEOREM OneTrain == Spec => []OneTrainPerBlock
<1>1. IInv => OneTrainPerBlock
  BY DEF IInv, BlockInv
<1> QED
  BY <1>1, Invariance, PTL
-----------------------------------------------------------------------------
(* A block that a train stands in is not given up.                         *)

\* In the tracking record k block c is occupied and has a train.
Holds(k, c) == k.state[c] = "occupied" /\ k.trains[c] # <<>>

GivenUp(c) ==
  state[c] = "occupied" /\ state'[c] = "occupied" /\ trains[c] # <<>> /\ trains'[c] = <<>>

Exempt(c) == IdentificationAbsent(c) \/ \E t \in Train : RemoveTrain(c, t)

LEMMA LeftHolds ==
  ASSUME NEW k \in TrackingType, NEW t \in Train, NEW b \in Block, NEW values, NEW c \in Block,
         Holds(k, c), k.state[b] # "occupied"
  PROVE  Holds(Left(k, t, b, values), c)
BY DEF Left, UpdateState, Holds, TrackingType

LEMMA ReleaseTailHolds ==
  ASSUME NEW k \in TrackingType, NEW t \in Train, NEW values, NEW c \in Block, Holds(k, c)
  PROVE  Holds(ReleaseTail(k, t, values), c)
<1>1. CASE Len(k.blocks[t]) > 1 /\ k.state[Last(k.blocks[t])] = "reserved"
  <2>1. k.blocks[t] \in Seq(Block)
    BY DEF TrackingType
  <2>2. Last(k.blocks[t]) \in Block
    BY <1>1, <2>1, ElementOfSeq DEF Last
  <2> QED
    BY <1>1, <2>2, LeftHolds DEF ReleaseTail
<1> QED
  BY <1>1 DEF ReleaseTail

LEMMA EnterHolds ==
  ASSUME NEW k \in TrackingType, NEW t \in Train, NEW b \in Block, NEW values, NEW c \in Block,
         Holds(k, c)
  PROVE  Holds(Enter(k, t, b, values), c)
<1> DEFINE k1 == [k EXCEPT !.blocks[t] = <<b>> \o @]
<1>1. <<b>> \o k.blocks[t] \in Seq(Block)
  BY ConcatProperties DEF TrackingType
<1>2. k1 \in TrackingType /\ Holds(k1, c)
  BY <1>1 DEF TrackingType, Holds
<1> HIDE DEF k1
<1>3. /\ ReleaseTail(k1, t, values) \in TrackingType
      /\ Holds(ReleaseTail(k1, t, values), c)
  BY <1>2, ReleaseTailType, ReleaseTailHolds
<1>4. /\ ReleaseTail(ReleaseTail(k1, t, values), t, values) \in TrackingType
      /\ Holds(ReleaseTail(ReleaseTail(k1, t, values), t, values), c)
  BY <1>3, ReleaseTailType, ReleaseTailHolds
<1> QED
  BY <1>4, ReleaseTailHolds DEF Enter, k1

LEMMA EnteredHolds ==
  ASSUME TypeOK, ReservedHasTrain, NEW b \in Block, NEW i, NEW values,
         NEW moving \in SUBSET ManualUnprotected, ~EntersNoTrain(b, i),
         NEW c \in Block, Holds(Tracking, c)
  PROVE  Holds(Entered(Tracking, b, i, moving, values), c)
<1> DEFINE p == SurprisePath(b, i, moving)
           t == SurprisingTrain(b, i, moving)
           u == AnnouncedTrain(b, i)
           k == AddStatus(Tracking, b, t, AwayFrom(ToSide[p]))
<1>1. Tracking \in TrackingType
  BY TrackingTypeOK
<1>2. CASE Surprise(b, i, moving)
  <2>1. Cardinality({}) = 0
    BY FS_EmptySet
  <2>2. Approaches(b, i, moving) # {}
    <3>1. Approaches(b, i, moving) = {} => Cardinality(Approaches(b, i, moving)) = 0
      BY <2>1, Zenon
    <3> QED
      BY <1>2, <3>1 DEF Surprise
  <2>3. p \in Path /\ trains[From[p]] # <<>>
        /\ StatusAt(trains[From[p]], FromSide[p]).train \in moving
    <3>1. SurprisePath(b, i, moving) \in Approaches(b, i, moving)
      BY <2>2, Zenon DEF SurprisePath
    <3> HIDE DEF p
    <3>2. p \in Approaches(b, i, moving)
      BY <3>1 DEF p
    <3> QED
      BY <3>2 DEF Approaches
  <2>5. t \in Train
    BY <2>3, TopologyAssumption DEF SurprisingTrain
  <2>6. AwayFrom(ToSide[p]) \in TrainDirection
    BY DEF AwayFrom, TrainDirection
  <2> HIDE DEF t, p
  <2>7. k \in TrackingType
    BY <1>1, <2>5, <2>6, AddStatusType
  <2>8. Holds(k, c)
    <3>1. Tracking.trains[c] \in Seq(Status) /\ [train |-> t, direction |-> AwayFrom(ToSide[p])] \in Status
      BY <1>1, <2>5, <2>6 DEF TrackingType, Status
    <3>2. Append(Tracking.trains[c], [train |-> t, direction |-> AwayFrom(ToSide[p])]) # <<>>
      BY <3>1
    <3> QED
      BY <1>1, <3>2 DEF AddStatus, Holds, TrackingType
  <2>9. Entered(Tracking, b, i, moving, values) = Enter(k, t, b, values)
    BY <1>2 DEF Entered, k, t, p
  <2> HIDE DEF k
  <2> QED
    BY <2>5, <2>7, <2>8, <2>9, EnterHolds
<1>3. CASE ~Surprise(b, i, moving) /\ Announced(b, i)
  <2>1. state[b] = "reserved" /\ trains[b] # <<>> /\ trains[b] \in Seq(Status)
    BY <1>3 DEF Announced, ReservedHasTrain, TypeOK
  <2>2. u \in Train \cup {NoTrain}
    BY <2>1, StatusAtType DEF AnnouncedTrain
  <2>3. u \in Train
    BY <1>3, <2>2 DEF EntersNoTrain
  <2>4. Entered(Tracking, b, i, moving, values) = Enter(Tracking, u, b, values)
    BY <1>3 DEF Entered
  <2> HIDE DEF u
  <2> QED
    BY <1>1, <2>3, <2>4, EnterHolds
<1>4. CASE ~Surprise(b, i, moving) /\ ~Announced(b, i)
  BY <1>4 DEF Entered
<1> QED
  BY <1>2, <1>3, <1>4

LEMMA SensorOccupiedHolds ==
  ASSUME TypeOK, ReservedHasTrain, NEW b \in Block, NEW i \in 1..Inputs[b],
         NEW moving \in SUBSET ManualUnprotected, SensorOccupied(b, i, moving),
         NEW c \in Block, GivenUp(c)
  PROVE  FALSE
<1> DEFINE values == [sensor EXCEPT ![b][i] = "occupied"]
           k == Entered(Tracking, b, i, moving, values)
<1>1. CASE EntersNoTrain(b, i)
  BY <1>1 DEF SensorOccupied, GivenUp
<1>2. CASE ~EntersNoTrain(b, i)
  <2>1. Becomes(UpdateState(k, b, values[b]))
    BY <1>2 DEF SensorOccupied
  <2>2. Holds(k, c)
    BY <1>2, EnteredHolds DEF GivenUp, Holds, Tracking
  <2> HIDE DEF k, values
  <2> QED
    BY <2>1, <2>2 DEF Becomes, UpdateState, Holds, GivenUp
<1> QED
  BY <1>1, <1>2

LEMMA SensorFreeHolds ==
  ASSUME TypeOK, NEW b \in Block, NEW i \in 1..Inputs[b], SensorFree(b, i),
         NEW c \in Block, GivenUp(c)
  PROVE  FALSE
<1> DEFINE k == UpdateState(Tracking, b, sensor'[b])
           t == trains[b][1].train
           given == /\ k.state[b] = "reserved"
                    /\ Len(trains[b]) = 1
                    /\ t # NoTrain
                    /\ Len(blocks[t]) > 1
                    /\ Last(blocks[t]) = b
<1>1. Becomes(IF given THEN Left(k, t, b, sensor'[b]) ELSE k)
  BY DEF SensorFree
<1>2. k \in TrackingType /\ k.trains = trains
  BY TrackingTypeOK, UpdateStateType DEF UpdateState, Tracking
<1>3. given
  BY <1>1, <1>2 DEF GivenUp, Becomes
<1>4. t \in Train
  <2>1. trains[b] \in Seq(Status) /\ 1 \in 1..Len(trains[b])
    BY <1>3 DEF TypeOK
  <2>2. trains[b][1] \in Status
    BY <2>1, ElementOfSeq
  <2> QED
    BY <1>3, <2>2 DEF Status
<1>5. CASE c = b
  <2>1. \E hasTrain \in BOOLEAN : k.state[b] = StateOf(sensor'[b], hasTrain)
    BY <1>2 DEF UpdateState, Tracking, TypeOK
  <2>2. \A hasTrain \in BOOLEAN : StateOf(sensor'[b], hasTrain) # "occupied"
    BY <1>3, <2>1, StateOfCases
  <2>3. \E hasTrain \in BOOLEAN : Left(k, t, b, sensor'[b]).state[b] = StateOf(sensor'[b], hasTrain)
    BY <1>2 DEF Left, UpdateState, TrackingType
  <2> HIDE DEF k, t
  <2> QED
    BY <1>1, <1>3, <1>5, <2>2, <2>3 DEF Becomes, GivenUp
<1>6. CASE c # b
  <2>1. k.state[c] = state[c]
    BY <1>6 DEF UpdateState, Tracking
  <2>2. Holds(k, c)
    BY <1>2, <2>1 DEF Holds, GivenUp
  <2> HIDE DEF k, t
  <2>3. Holds(Left(k, t, b, sensor'[b]), c)
    BY <1>2, <1>3, <1>4, <2>2, LeftHolds
  <2> QED
    BY <1>1, <1>3, <2>3 DEF Becomes, GivenUp, Holds
<1> QED
  BY <1>5, <1>6

LEMMA ReleaseHolds ==
  ASSUME TypeOK, NEW p \in Path, NEW timers, Release(p, timers), NEW c \in Block, GivenUp(c)
  PROVE  FALSE
<1> DEFINE b == To[p]
           t == trains[b][1].train
           k == [Tracking EXCEPT !.timer = timers]
           k2 == IF OnlyReserved(b) /\ Len(blocks[t]) > 1 THEN RemoveStatus(k, b, t) ELSE k
<1>1. Becomes(k2)
  BY DEF Release, GivenUp
<1>2. k.trains = trains /\ k.state = state /\ state[c] = "occupied" /\ trains[c] # <<>>
  BY DEF Tracking, GivenUp
<1>3. OnlyReserved(b) => b # c
  BY DEF OnlyReserved, GivenUp
<1>4. RemoveStatus(k, b, t).trains = [k.trains EXCEPT ![b] = WithoutTrain(@, t)]
  BY DEF RemoveStatus, UpdateState, Tracking
<1> HIDE DEF k, b, t
<1> QED
  BY <1>1, <1>2, <1>3, <1>4 DEF Becomes, GivenUp, TypeOK

LEMMA RemoveTrainHolds ==
  ASSUME TypeOK, NEW b \in Block, NEW t \in Train, RemoveTrain(b, t), NEW c \in Block, GivenUp(c)
  PROVE  c = b
<1>1. RemoveStatus(Tracking, b, t).trains = [trains EXCEPT ![b] = WithoutTrain(@, t)]
  BY DEF RemoveStatus, UpdateState, Tracking
<1> QED
  BY <1>1 DEF RemoveTrain, Becomes, GivenUp, TypeOK

LEMMA AppendHolds ==
  ASSUME NEW k \in TrackingType, NEW b \in Block, NEW t \in Train \cup {NoTrain},
         NEW dir \in TrainDirection, NEW c \in Block, k.trains[c] # <<>>
  PROVE  AddStatus(k, b, t, dir).trains[c] # <<>>
<1>1. k.trains[c] \in Seq(Status) /\ [train |-> t, direction |-> dir] \in Status
  BY DEF TrackingType, Status
<1>2. Append(k.trains[c], [train |-> t, direction |-> dir]) # <<>>
  BY <1>1
<1> QED
  BY <1>2 DEF AddStatus, TrackingType

LEMMA ReserveHolds ==
  ASSUME TypeOK, NEW p \in Path, Reserve(p), NEW c \in Block, GivenUp(c)
  PROVE  FALSE
<1> DEFINE t == StatusAt(trains[From[p]], FromSide[p]).train
           k1 == ReserveBlock(Tracking, From[p], FromSide[p], t)
           k2 == ReserveBlock(k1, To[p], ToSide[p], t)
<1>1. /\ From[p] \in Block /\ To[p] \in Block
      /\ FromSide[p] \in Side /\ ToSide[p] \in Side
  BY TopologyAssumption
<1>2. t \in Train \cup {NoTrain}
  BY <1>1, StatusAtType DEF Reserve, TypeOK
<1>3. Becomes(k2)
  BY DEF Reserve
<1> HIDE DEF t
<1>4. ASSUME NEW k \in TrackingType, NEW b \in Block, NEW side \in Side, k.trains[c] # <<>>
      PROVE  /\ ReserveBlock(k, b, side, t) \in TrackingType
             /\ ReserveBlock(k, b, side, t).trains[c] # <<>>
  <2>1. AwayFrom(side) \in TrainDirection
    BY DEF AwayFrom, TrainDirection
  <2>2. /\ AddStatus(k, b, t, AwayFrom(side)) \in TrackingType
        /\ AddStatus(k, b, t, AwayFrom(side)).trains[c] # <<>>
    BY <1>2, <1>4, <2>1, AddStatusType, AppendHolds
  <2>3. \A r : UpdateState(r, b, sensor[b]).trains = r.trains
    BY DEF UpdateState
  <2> QED
    BY <1>4, <2>2, <2>3, UpdateStateType DEF ReserveBlock
<1>5. Tracking \in TrackingType /\ Tracking.trains[c] # <<>>
  BY TrackingTypeOK DEF Tracking, GivenUp
<1>6. k2.trains[c] # <<>>
  BY <1>1, <1>4, <1>5
<1> HIDE DEF k2
<1> QED
  BY <1>3, <1>6 DEF Becomes, GivenUp

\* Every status of the block stays, only its direction may turn.
LEMMA SameLengthHolds ==
  ASSUME TypeOK, NEW c \in Block, GivenUp(c), \A b \in Block : DOMAIN trains'[b] = DOMAIN trains[b]
  PROVE  FALSE
<1>1. trains[c] \in Seq(Status) /\ trains[c] # <<>> /\ trains'[c] = <<>>
  BY DEF TypeOK, GivenUp
<1>2. 1 \in DOMAIN trains[c]
  BY <1>1
<1> QED
  BY <1>1, <1>2

LEMMA FlipTrainHolds ==
  ASSUME TypeOK, NEW b \in Block, FlipTrain(b), NEW c \in Block, GivenUp(c)
  PROVE  FALSE
<1>1. \A a \in Block : DOMAIN trains'[a] = DOMAIN trains[a]
  <2>1. CASE trains' = trains
    BY <2>1
  <2>2. CASE trains' = [trains EXCEPT ![b][1].direction = Opposite(@)]
    BY <2>2 DEF TypeOK
  <2> QED
    BY <2>1, <2>2 DEF FlipTrain
<1> QED
  BY <1>1, SameLengthHolds

LEMMA SetDirectionHolds ==
  ASSUME TypeOK, NEW t \in Train, SetDirection(t), NEW c \in Block, GivenUp(c)
  PROVE  FALSE
<1>1. \A a \in Block : DOMAIN trains'[a] = DOMAIN trains[a]
  BY DEF SetDirection, TypeOK
<1> QED
  BY <1>1, SameLengthHolds

LEMMA IdentificationAbsentHolds ==
  ASSUME TypeOK, NEW b \in Block, IdentificationAbsent(b), NEW c \in Block, GivenUp(c)
  PROVE  c = b
BY DEF IdentificationAbsent, Becomes, UpdateState, Tracking, TypeOK, GivenUp

LEMMA AssignTrainHolds ==
  ASSUME TypeOK, NEW b \in Block, NEW t \in Train, NEW dir \in TrainDirection,
         AssignTrain(b, t, dir), NEW c \in Block, GivenUp(c)
  PROVE  FALSE
<1>1. c # b
  BY DEF AssignTrain, GivenUp
<1> QED
  BY <1>1 DEF AssignTrain, Becomes, AddStatus, UpdateState, Tracking, TypeOK, GivenUp

LEMMA IdentificationPresentHolds ==
  ASSUME TypeOK, NEW b \in Block, NEW dir \in TrainDirection, IdentificationPresent(b, dir),
         NEW c \in Block, GivenUp(c)
  PROVE  FALSE
<1>1. c # b
  BY DEF IdentificationPresent, GivenUp
<1> QED
  BY <1>1 DEF IdentificationPresent, Becomes, AddStatus, UpdateState, Tracking, TypeOK, GivenUp

LEMMA UserReleaseHolds ==
  ASSUME TypeOK, NEW p \in Path, UserRelease(p), NEW c \in Block, GivenUp(c)
  PROVE  FALSE
BY ReleaseHolds DEF UserRelease

LEMMA TimerHandlerHolds ==
  ASSUME TypeOK, NEW p \in Path, TimerHandler(p), NEW c \in Block, GivenUp(c)
  PROVE  FALSE
<1>1. CASE UNCHANGED trains
  BY <1>1 DEF GivenUp
<1>2. CASE Release(p, [timer EXCEPT ![p] = "idle"])
  BY <1>2, ReleaseHolds
<1> QED
  BY <1>1, <1>2 DEF TimerHandler

OnlyExempt == \A b \in Block : GivenUp(b) => Exempt(b)

\* One handler, one case: three take a status away, and two of those by name.
LEMMA StepHolds == IInv /\ [Next]_vars => [OnlyExempt]_vars
<1> SUFFICES ASSUME TypeOK, BlockInv, Next, NEW c \in Block, GivenUp(c)
             PROVE  Exempt(c)
  BY DEF IInv, OnlyExempt
<1>1. ASSUME NEW p \in Path, Reserve(p) PROVE FALSE
  BY <1>1, ReserveHolds
<1>2. ASSUME NEW p \in Path, UserRelease(p) PROVE FALSE
  BY <1>2, UserReleaseHolds
<1>3. ASSUME NEW b \in Block, NEW t \in Train, NEW dir \in TrainDirection, AssignTrain(b, t, dir)
      PROVE  FALSE
  BY <1>3, AssignTrainHolds
<1>4. ASSUME NEW b \in Block, NEW t \in Train, RemoveTrain(b, t) PROVE Exempt(c)
  <2>1. c = b
    BY <1>4, RemoveTrainHolds
  <2> QED
    BY <1>4, <2>1 DEF Exempt
<1>5. ASSUME NEW b \in Block, FlipTrain(b) PROVE FALSE
  BY <1>5, FlipTrainHolds
<1>6. ASSUME NEW b \in Block, SetStateFree(b) PROVE FALSE
  BY <1>6 DEF SetStateFree, GivenUp
<1>7. ASSUME NEW t \in Train, SetDirection(t) PROVE FALSE
  BY <1>7, SetDirectionHolds
<1>8. ASSUME NEW e \in Element, NEW v \in Values[e], SetPosition(e, v) PROVE FALSE
  BY <1>8 DEF SetPosition, GivenUp
<1>9. ASSUME NEW b \in Block, NEW i \in 1..Inputs[b],
         NEW moving \in SUBSET ManualUnprotected, SensorOccupied(b, i, moving)
       PROVE  FALSE
  BY <1>9, BlockInvReserved, SensorOccupiedHolds
<1>10. ASSUME NEW b \in Block, NEW i \in 1..Inputs[b], SensorFree(b, i) PROVE FALSE
  BY <1>10, SensorFreeHolds
<1>11. ASSUME NEW b \in Block, IdentificationAbsent(b) PROVE Exempt(c)
  <2>1. c = b
    BY <1>11, IdentificationAbsentHolds
  <2> QED
    BY <1>11, <2>1 DEF Exempt
<1>12. ASSUME NEW b \in Block, NEW dir \in TrainDirection, IdentificationPresent(b, dir) PROVE FALSE
  BY <1>12, IdentificationPresentHolds
<1>13. ASSUME NEW p \in Path, TimerExpires(p) PROVE FALSE
  BY <1>13 DEF TimerExpires, GivenUp
<1>14. ASSUME NEW p \in Path, TimerHandler(p) PROVE FALSE
  BY <1>14, TimerHandlerHolds
<1>15. PathStep => Exempt(c)
  BY <1>1, <1>2, <1>14 DEF PathStep
<1>16. UserStep => Exempt(c)
  BY <1>3, <1>4, <1>5, <1>6, <1>7, <1>8 DEF UserStep
<1>17. DetectorStep => Exempt(c)
  BY <1>9, <1>10, <1>11, <1>12 DEF DetectorStep
<1> QED
  BY <1>13, <1>15, <1>16, <1>17 DEF Next, OtherStep

\* On any layout, whatever enter's loop, a release, a late timer or a sensor that
\* clears gives up, it is never an occupied block: what each of them looks at before
\* it takes a status away is the state of that very block.
THEOREM OccupiedKept == Spec => OccupiedNotGivenUp
<1>1. IInv /\ [Next]_vars => [OnlyExempt]_vars
  BY StepHolds
<1>2. Spec => [][OnlyExempt]_vars
  BY <1>1, Invariance, PTL DEF Spec
<1> QED
  BY <1>2 DEF OccupiedNotGivenUp, OnlyExempt, GivenUp, Exempt

-----------------------------------------------------------------------------
(* Routes: reserved paths that have not been robbed keep what they took,   *)
(* on every layout, with slips, crossovers and late handlers, and release  *)
(* gives everything back but crossovers.                                   *)

\* A side that is taken is an end of the reserved path that has taken it.
SidesOwned ==
  \A b \in Block, s \in Side, p \in Path :
    reservedPaths[b][s] = p => isReserved[p] /\ <<b, s>> \in PathEnds(p)

Takes(p, e) == UNION {LockValue(e, v) : v \in Needs(p, e)}

\* What an element is locked for is what some reserved path needs it in.
LocksOwned ==
  \A e \in Element, x \in Value :
    Kind[e] # "crossOver" /\ x \in lock[e] => \E p \in Path : isReserved[p] /\ x \in Takes(p, e)

\* An intact path has both its sides, its locks and its positions.
EndsHeld ==
  \A p \in Path : Intact(p) =>
    /\ reservedPaths[From[p]][FromSide[p]] = p
    /\ reservedPaths[To[p]][ToSide[p]] = p
LocksHeld == \A p \in Path, e \in Element : Intact(p) => Takes(p, e) \subseteq lock[e]
InPosition(e, v, at) ==
  /\ Kind[e] = "turnout" => at \in LockValue(e, v)
  /\ Kind[e] = "direction" => at \in {v, "both"}
PositionsKept ==
  \A p \in Path, e \in Element : Intact(p) =>
    \A v \in Needs(p, e) : InPosition(e, v, position[e])

\* Two needs of one element that do not exclude each other.
Apart(e, v, u) ==
  \/ Kind[e] = "bridge" /\ v # u
  \/ Kind[e] = "turnout" /\ LockValue(e, v) = LockValue(e, u)
RoutesApart ==
  \A p, q \in Path, e \in Element : p # q /\ Intact(p) /\ Intact(q) =>
    \A v \in Needs(p, e), u \in Needs(q, e) : Apart(e, v, u)

RouteInv ==
  /\ SidesOwned
  /\ LocksOwned
  /\ EndsHeld
  /\ LocksHeld
  /\ PositionsKept
  /\ RoutesApart

-----------------------------------------------------------------------------
(* What is locked for a route.                                             *)

LEMMA NeedsRoute ==
  ASSUME NEW p \in Path, NEW e \in Element, NEW v \in Needs(p, e)
  PROVE  <<e, v>> \in Route[p] /\ v \in Value
<1>1. PICK r \in Route[p] : r[1] = e /\ r[2] = v
  BY DEF Needs
<1>2. r \in Element \X Value
  BY TopologyAssumption
<1> QED
  BY <1>1, <1>2

LEMMA LockValueSingle ==
  ASSUME NEW e \in Element, NEW v, NEW u \in LockValue(e, v)
  PROVE  LockValue(e, v) = {u}
BY DEF LockValue

\* A path passes a turnout once, so it takes it in one position.
LEMMA TakesTurnout ==
  ASSUME NEW p \in Path, NEW e \in Element, Kind[e] = "turnout", NEW v \in Needs(p, e)
  PROVE  Takes(p, e) = LockValue(e, v)
<1>1. ASSUME NEW u \in Needs(p, e)
      PROVE  u = v
  <2>1. <<e, v>> \in Route[p] /\ <<e, u>> \in Route[p]
    BY NeedsRoute
  <2>2. \A r, s \in Route[p] :
          r[1] = s[1] /\ Kind[r[1]] \in {"turnout", "cross", "crossOver"} => r = s
    BY TopologyAssumption
  <2>3. <<e, v>>[1] = e /\ <<e, u>>[1] = e
    OBVIOUS
  <2>4. <<e, v>> = <<e, u>>
    BY <2>1, <2>2, <2>3
  <2> QED
    BY <2>4
<1>2. Needs(p, e) = {v}
  BY <1>1
<1> QED
  BY <1>2 DEF Takes

\* An intact path takes something of every element that it needs.
LEMMA TakesSomething ==
  ASSUME RouteInv, NEW p \in Path, NEW e \in Element, NEW v \in Needs(p, e), Intact(p)
  PROVE  LockValue(e, v) # {} /\ LockValue(e, v) \subseteq lock[e]
<1>1. LockValue(e, v) \subseteq lock[e]
  BY DEF RouteInv, LocksHeld, Takes
<1>2. CASE Kind[e] = "turnout"
  BY <1>1, <1>2 DEF RouteInv, PositionsKept, InPosition
<1>3. CASE Kind[e] # "turnout"
  BY <1>1, <1>3 DEF LockValue
<1> QED
  BY <1>2, <1>3

-----------------------------------------------------------------------------
(* Reserving a path.                                                       *)

\* The path that reserve is granted has no side in common with an intact one.
LEMMA GrantedApart ==
  ASSUME RouteInv, NEW p \in Path, Reserve(p)
  PROVE  /\ ~Intact(p)
         /\ \A q \in Path : Intact(q) => PathEnds(p) \cap PathEnds(q) = {}
<1>1. /\ reservedPaths[From[p]][FromSide[p]] = NoPath
      /\ reservedPaths[To[p]][ToSide[p]] = NoPath
  BY DEF Reserve, BlockGrants
<1>2. NoPath \notin Path
  BY TopologyAssumption
<1> QED
  BY <1>1, <1>2 DEF RouteInv, EndsHeld, PathEnds

\* Nor an element, but for the levels of a bridge and a turnout in the same position.
LEMMA GrantedRouteApart ==
  ASSUME RouteInv, NEW p \in Path, Reserve(p), NEW q \in Path, Intact(q), NEW e \in Element,
         NEW v \in Needs(p, e), NEW u \in Needs(q, e)
  PROVE  Apart(e, v, u)
<1>1. ElementGrants(e, v)
  BY NeedsRoute DEF Reserve
<1>2. LockValue(e, u) # {} /\ LockValue(e, u) \subseteq lock[e]
  BY TakesSomething
<1>3. CASE Kind[e] = "turnout"
  <2>1. lock[e] \subseteq LockValue(e, v)
    BY <1>1, <1>3 DEF ElementGrants
  <2>2. PICK x \in LockValue(e, u) : x \in LockValue(e, v)
    BY <1>2, <2>1
  <2>3. LockValue(e, u) = {x} /\ LockValue(e, v) = {x}
    BY <2>2, LockValueSingle
  <2> QED
    BY <1>3, <2>3 DEF Apart
<1>4. CASE Kind[e] = "bridge"
  BY <1>1, <1>2, <1>4 DEF ElementGrants, LockValue, Apart
<1>5. CASE Kind[e] \notin {"turnout", "bridge"}
  BY <1>1, <1>2, <1>5 DEF ElementGrants
<1> QED
  BY <1>3, <1>4, <1>5

\* Where the turnouts and direction controls of a granted path are after reserve.
LEMMA GrantedPositions ==
  ASSUME NEW p \in Path, Reserve(p), NEW e \in Element
  PROVE  /\ \A v \in Needs(p, e) : InPosition(e, v, position'[e])
         /\ Kind[e] # "turnout" \/ Needs(p, e) = {} => position'[e] = position[e]
<1>1. position'[e] = IF Kind[e] = "turnout" /\ Needs(p, e) # {}
                     THEN CHOOSE x \in Takes(p, e) : TRUE ELSE position[e]
  BY DEF Reserve, LockRoute, Takes
<1>2. ASSUME NEW v \in Needs(p, e), Kind[e] = "turnout"
      PROVE  position'[e] \in LockValue(e, v)
  <2>1. Takes(p, e) = LockValue(e, v)
    BY <1>2, TakesTurnout
  <2>2. LockValue(e, v) # {}
    BY <1>2, NeedsRoute DEF Reserve, ElementGrants
  <2> QED
    BY <1>1, <1>2, <2>1, <2>2
<1>3. ASSUME NEW v \in Needs(p, e), Kind[e] = "direction"
      PROVE  position'[e] \in {v, "both"}
  BY <1>1, <1>3, NeedsRoute DEF Reserve, ElementGrants
<1> QED
  BY <1>1, <1>2, <1>3 DEF InPosition

LEMMA ReserveRoute ==
  ASSUME TypeOK, RouteInv, NEW p \in Path, RReserve(p)
  PROVE  RouteInv'
<1>0. Reserve(p)
  BY DEF RReserve
<1>1. /\ From[p] \in Block /\ To[p] \in Block
      /\ FromSide[p] \in Side /\ ToSide[p] \in Side
      /\ From[p] = To[p] => FromSide[p] # ToSide[p]
  BY TopologyAssumption
<1>2. ~Intact(p) /\ \A q \in Path : Intact(q) => PathEnds(p) \cap PathEnds(q) = {}
  BY <1>0, GrantedApart
<1>3. /\ reservedPaths' = [reservedPaths EXCEPT ![From[p]][FromSide[p]] = p, ![To[p]][ToSide[p]] = p]
      /\ isReserved' = [isReserved EXCEPT ![p] = TRUE]
      /\ robbed' = robbed \ {p}
  BY DEF Reserve, RReserve
<1>4. \A q \in Path : (isReserved'[q] <=> isReserved[q] \/ q = p) /\ (Intact(q)' <=> Intact(q) \/ q = p)
  BY <1>3 DEF TypeOK, Intact
<1>5. \A e \in Element : lock'[e] = lock[e] \cup Takes(p, e)
  BY <1>0 DEF Reserve, LockRoute, Takes
<1>6. \A b \in Block, s \in Side :
        reservedPaths'[b][s] = IF <<b, s>> \in PathEnds(p) THEN p ELSE reservedPaths[b][s]
  BY <1>1, <1>3 DEF TypeOK, PathEnds
<1>7. SidesOwned'
  BY <1>4, <1>6 DEF RouteInv, SidesOwned, PathEnds
<1>8. EndsHeld'
  <2> SUFFICES ASSUME NEW q \in Path, Intact(q)'
               PROVE  /\ reservedPaths'[From[q]][FromSide[q]] = q
                      /\ reservedPaths'[To[q]][ToSide[q]] = q
    BY DEF EndsHeld
  <2>1. /\ From[q] \in Block /\ To[q] \in Block
        /\ FromSide[q] \in Side /\ ToSide[q] \in Side
    BY TopologyAssumption
  <2>2. CASE q = p
    BY <1>6, <2>1, <2>2 DEF PathEnds
  <2>3. CASE q # p
    <3>1. Intact(q)
      BY <1>4, <2>3
    <3>2. <<From[q], FromSide[q]>> \notin PathEnds(p) /\ <<To[q], ToSide[q]>> \notin PathEnds(p)
      BY <1>2, <3>1 DEF PathEnds
    <3> QED
      BY <1>6, <2>1, <3>1, <3>2 DEF RouteInv, EndsHeld
  <2> QED
    BY <2>2, <2>3
<1>9. LocksHeld'
  BY <1>4, <1>5 DEF RouteInv, LocksHeld
<1>10. LocksOwned'
  BY <1>4, <1>5 DEF RouteInv, LocksOwned
<1>11. RoutesApart'
  <2> SUFFICES ASSUME NEW q \in Path, NEW r \in Path, NEW e \in Element, q # r,
                      Intact(q)', Intact(r)', NEW v \in Needs(q, e), NEW u \in Needs(r, e)
               PROVE  Apart(e, v, u)
    BY DEF RoutesApart
  <2>1. CASE q = p
    BY <1>0, <1>4, <2>1, GrantedRouteApart
  <2>2. CASE r = p
    <3>1. Apart(e, u, v)
      BY <1>0, <1>4, <2>2, GrantedRouteApart
    <3> QED
      BY <3>1 DEF Apart
  <2>3. CASE q # p /\ r # p
    BY <1>4, <2>3 DEF RouteInv, RoutesApart
  <2> QED
    BY <2>1, <2>2, <2>3
<1>12. PositionsKept'
  <2> SUFFICES ASSUME NEW q \in Path, NEW e \in Element, Intact(q)', NEW v \in Needs(q, e)
               PROVE  InPosition(e, v, position'[e])
    BY DEF PositionsKept
  <2>1. CASE q = p
    BY <1>0, <2>1, GrantedPositions
  <2>2. CASE q # p /\ (Kind[e] # "turnout" \/ Needs(p, e) = {})
    <3>1. position'[e] = position[e]
      BY <1>0, <2>2, GrantedPositions
    <3> QED
      BY <1>4, <2>2, <3>1 DEF RouteInv, PositionsKept
  <2>3. CASE q # p /\ Kind[e] = "turnout" /\ Needs(p, e) # {}
    <3>1. PICK w \in Needs(p, e) : TRUE
      BY <2>3
    <3>2. Apart(e, w, v)
      BY <1>0, <1>4, <2>3, GrantedRouteApart
    <3>3. position'[e] \in LockValue(e, w)
      BY <1>0, <2>3, GrantedPositions DEF InPosition
    <3> QED
      BY <2>3, <3>2, <3>3 DEF Apart, InPosition
  <2> QED
    BY <2>1, <2>2, <2>3
<1> QED
  BY <1>7, <1>8, <1>9, <1>10, <1>11, <1>12 DEF RouteInv

-----------------------------------------------------------------------------
(* Releasing a path.                                                       *)

\* Who stays intact when q is released has nothing of what is freed.
LEMMA SurvivorApart ==
  ASSUME RouteInv, NEW q \in Path, NEW p \in Path \ {q}, Intact(p), p \notin Victims(q)
  PROVE  /\ PathEnds(p) \cap PathEnds(q) = {}
         /\ \A e \in Element : ~FreedTogether(p, q, e)
<1>1. CASE ~Intact(q)
  BY <1>1 DEF Intact, Victims, Meet
<1>2. CASE Intact(q)
  <2>1. ~ShareTurnout(p, q)
    BY <1>2 DEF Intact, Victims
  <2>2. PathEnds(p) \cap PathEnds(q) = {}
    <3>1. \A end \in PathEnds(p) : reservedPaths[end[1]][end[2]] = p
      BY DEF RouteInv, EndsHeld, PathEnds
    <3>2. \A end \in PathEnds(q) : reservedPaths[end[1]][end[2]] = q
      BY <1>2 DEF RouteInv, EndsHeld, PathEnds
    <3> QED
      BY <3>1, <3>2
  <2>3. ASSUME NEW e \in Element, FreedTogether(p, q, e)
        PROVE  FALSE
    <3>1. \A v \in Needs(p, e), u \in Needs(q, e) : Apart(e, v, u)
      BY <1>2 DEF RouteInv, RoutesApart
    <3>2. Kind[e] # "turnout"
      BY <2>1, <2>3 DEF ShareTurnout
    <3>3. CASE Kind[e] = "bridge"
      BY <2>3, <3>1, <3>3 DEF FreedTogether, Apart
    <3>4. CASE Kind[e] # "bridge"
      <4>1. PICK v \in Needs(p, e), u \in Needs(q, e) : TRUE
        BY <2>3, <3>4 DEF FreedTogether
      <4> QED
        BY <3>1, <3>2, <3>4, <4>1 DEF Apart
    <3> QED
      BY <3>3, <3>4
  <2> QED
    BY <2>2, <2>3
<1> QED
  BY <1>1, <1>2

\* A path that is freed takes from the paths that stay intact nothing.
LEMMA FreedRoute ==
  ASSUME TypeOK, RouteInv, NEW p \in Path,
         reservedPaths' = [reservedPaths EXCEPT ![To[p]][ToSide[p]] = NoPath,
                                               ![From[p]][FromSide[p]] = NoPath],
         isReserved' = [isReserved EXCEPT ![p] = FALSE],
         FreeRoute(p), position' = position, robbed' = (robbed \cup Victims(p)) \ {p}
  PROVE  RouteInv'
<1>1. /\ From[p] \in Block /\ To[p] \in Block
      /\ FromSide[p] \in Side /\ ToSide[p] \in Side
  BY TopologyAssumption
<1>2. NoPath \notin Path
  BY TopologyAssumption
<1>3. \A q \in Path : isReserved'[q] <=> isReserved[q] /\ q # p
  BY DEF TypeOK
<1>4. \A b \in Block, s \in Side :
        reservedPaths'[b][s] = IF <<b, s>> \in PathEnds(p) THEN NoPath ELSE reservedPaths[b][s]
  BY <1>1 DEF TypeOK, PathEnds
<1>5. ASSUME NEW q \in Path, Intact(q)'
      PROVE  /\ Intact(q) /\ q # p
             /\ PathEnds(q) \cap PathEnds(p) = {}
             /\ \A e \in Element : ~FreedTogether(q, p, e)
  <2>1. isReserved[q] /\ q # p
    BY <1>3, <1>5 DEF Intact
  <2>2. q \notin robbed /\ q \notin Victims(p)
    BY <1>5, <2>1 DEF Intact
  <2>3. Intact(q)
    BY <2>1, <2>2 DEF Intact
  <2> QED
    BY <2>1, <2>2, <2>3, SurvivorApart
<1>6. SidesOwned'
  BY <1>2, <1>3, <1>4 DEF RouteInv, SidesOwned, PathEnds
<1>7. EndsHeld'
  <2> SUFFICES ASSUME NEW q \in Path, Intact(q)'
               PROVE  /\ reservedPaths'[From[q]][FromSide[q]] = q
                      /\ reservedPaths'[To[q]][ToSide[q]] = q
    BY DEF EndsHeld
  <2>1. /\ From[q] \in Block /\ To[q] \in Block
        /\ FromSide[q] \in Side /\ ToSide[q] \in Side
    BY TopologyAssumption
  <2>2. <<From[q], FromSide[q]>> \notin PathEnds(p) /\ <<To[q], ToSide[q]>> \notin PathEnds(p)
    BY <1>5 DEF PathEnds
  <2>3. Intact(q)
    BY <1>5
  <2>4. /\ reservedPaths[From[q]][FromSide[q]] = q
        /\ reservedPaths[To[q]][ToSide[q]] = q
    BY <2>3 DEF RouteInv, EndsHeld
  <2> QED
    BY <1>4, <2>1, <2>2, <2>4
<1>8. LocksHeld'
  <2> SUFFICES ASSUME NEW q \in Path, NEW e \in Element, Intact(q)', NEW x \in Takes(q, e)
               PROVE  x \in lock'[e]
    BY DEF LocksHeld
  <2>1. x \in lock[e] /\ Needs(q, e) # {}
    BY <1>5 DEF RouteInv, LocksHeld, Takes
  <2>2. ~FreedTogether(q, p, e)
    BY <1>5
  <2>3. CASE Needs(p, e) = {} \/ Kind[e] = "crossOver"
    BY <2>1, <2>3 DEF FreeRoute
  <2>4. CASE Needs(p, e) # {} /\ Kind[e] = "bridge"
    <3>1. x \in Needs(q, e)
      BY <2>4 DEF Takes, LockValue
    <3>2. x \notin Needs(p, e)
      BY <2>2, <2>4, <3>1 DEF FreedTogether
    <3> QED
      BY <2>1, <2>4, <3>2 DEF FreeRoute
  <2>5. CASE Needs(p, e) # {} /\ Kind[e] \notin {"bridge", "crossOver"}
    BY <2>1, <2>2, <2>5 DEF FreedTogether
  <2> QED
    BY <2>3, <2>4, <2>5
<1>9. LocksOwned'
  <2> SUFFICES ASSUME NEW e \in Element, NEW x \in Value, Kind[e] # "crossOver", x \in lock'[e]
               PROVE  \E q \in Path : isReserved'[q] /\ x \in Takes(q, e)
    BY DEF LocksOwned
  <2>1. x \in lock[e]
    BY DEF FreeRoute
  <2>2. PICK q \in Path : isReserved[q] /\ x \in Takes(q, e)
    BY <2>1 DEF RouteInv, LocksOwned
  <2>3. Needs(p, e) = {} \/ (Kind[e] = "bridge" /\ x \notin Needs(p, e))
    BY DEF FreeRoute
  <2>4. x \notin Takes(p, e)
    BY <2>3 DEF Takes, LockValue
  <2> QED
    BY <1>3, <2>2, <2>4
<1>10. PositionsKept'
  BY <1>5 DEF RouteInv, PositionsKept
<1>11. RoutesApart'
  BY <1>5 DEF RouteInv, RoutesApart
<1> QED
  BY <1>6, <1>7, <1>8, <1>9, <1>10, <1>11 DEF RouteInv

\* A step that changes no side, no path, no lock and no position, and robs nobody.
LEMMA OtherRoute ==
  ASSUME RouteInv, UNCHANGED <<reservedPaths, isReserved, lock, position, robbed>>
  PROVE  RouteInv'
BY DEF RouteInv, SidesOwned, LocksOwned, EndsHeld, LocksHeld, PositionsKept, RoutesApart, Intact

LEMMA ReleaseRoute ==
  ASSUME TypeOK, RouteInv, ~crashed, NEW p \in Path, NEW timers, Release(p, timers),
         Robs(p), position' = position
  PROVE  RouteInv'
<1> DEFINE b == To[p]
           t == trains[b][1].train
<1>1. CASE ReleaseRefused(p) \/ (OnlyReserved(b) /\ t = NoTrain)
  <2>1. UNCHANGED <<reservedPaths, isReserved, lock, position>>
    BY <1>1 DEF Release
  <2>2. ReleaseRefused(p) \/ crashed' = TRUE
    BY <1>1 DEF Release
  <2>3. robbed' = robbed
    BY <2>2 DEF Robs
  <2> QED
    BY <2>1, <2>3, OtherRoute
<1>2. CASE ~ReleaseRefused(p) /\ ~(OnlyReserved(b) /\ t = NoTrain)
  <2>1. /\ reservedPaths' = [reservedPaths EXCEPT ![b][ToSide[p]] = NoPath,
                                                 ![From[p]][FromSide[p]] = NoPath]
        /\ isReserved' = [isReserved EXCEPT ![p] = FALSE]
        /\ FreeRoute(p)
        /\ crashed' = crashed
    BY <1>2 DEF Release
  <2>2. robbed' = (robbed \cup Victims(p)) \ {p}
    BY <1>2, <2>1 DEF Robs
  <2> QED
    BY <2>1, <2>2, FreedRoute
<1> QED
  BY <1>1, <1>2

LEMMA UserReleaseRoute ==
  ASSUME TypeOK, RouteInv, ~crashed, NEW p \in Path, RUserRelease(p)
  PROVE  RouteInv'
BY ReleaseRoute DEF RUserRelease, UserRelease

LEMMA TimerHandlerRoute ==
  ASSUME TypeOK, RouteInv, ~crashed, NEW p \in Path, RTimerHandler(p)
  PROVE  RouteInv'
<1>1. CASE timer[p] = "expired"
  <2>1. Release(p, [timer EXCEPT ![p] = "idle"]) /\ position' = position /\ Robs(p)
    BY <1>1 DEF RTimerHandler, TimerHandler
  <2> QED
    BY <2>1, ReleaseRoute
<1>2. CASE timer[p] # "expired"
  <2>1. UNCHANGED <<reservedPaths, isReserved, lock, position, robbed>>
    BY <1>2 DEF RTimerHandler, TimerHandler
  <2> QED
    BY <2>1, OtherRoute
<1> QED
  BY <1>1, <1>2

-----------------------------------------------------------------------------
(* What users and detectors do.                                            *)

LEMMA SetPositionRoute ==
  ASSUME TypeOK, RouteInv, NEW e \in Element, NEW v \in Values[e], SetPosition(e, v),
         robbed' = robbed
  PROVE  RouteInv'
<1>1. UNCHANGED <<reservedPaths, isReserved, lock, robbed>>
  BY DEF SetPosition
<1>2. PositionsKept'
  <2> SUFFICES ASSUME NEW p \in Path, NEW f \in Element, Intact(p), NEW u \in Needs(p, f)
               PROVE  InPosition(f, u, position'[f])
    BY <1>1 DEF PositionsKept, Intact
  <2>1. InPosition(f, u, position[f])
    BY DEF RouteInv, PositionsKept
  <2>2. LockValue(f, u) # {} /\ LockValue(f, u) \subseteq lock[f]
    BY TakesSomething
  <2>3. position' = [position EXCEPT ![e] = v]
    BY DEF SetPosition
  <2>4. CASE f # e
    BY <2>1, <2>3, <2>4 DEF TypeOK
  <2>5. CASE f = e /\ Kind[e] = "turnout"
    <3>1. lock[e] \subseteq {v}
      BY <2>5 DEF SetPosition
    <3>2. v \in LockValue(f, u)
      BY <2>2, <2>5, <3>1
    <3> QED
      BY <2>3, <2>5, <3>2 DEF TypeOK, InPosition
  <2>6. CASE f = e /\ Kind[e] = "direction"
    <3>1. lock[e] \subseteq {v} \/ v = "both"
      BY <2>6 DEF SetPosition
    <3>2. u \in lock[e]
      BY <2>2, <2>6 DEF LockValue
    <3> QED
      BY <2>3, <2>6, <3>1, <3>2 DEF TypeOK, InPosition
  <2>7. CASE Kind[f] \notin {"turnout", "direction"}
    BY <2>7 DEF InPosition
  <2> QED
    BY <2>4, <2>5, <2>6, <2>7
<1> QED
  BY <1>1, <1>2 DEF RouteInv, SidesOwned, LocksOwned, EndsHeld, LocksHeld, RoutesApart, Intact

-----------------------------------------------------------------------------
(* The inductive invariant and the theorems.                               *)

LEMMA InitRoute == RInit => RouteInv
<1> SUFFICES ASSUME RInit PROVE RouteInv
  OBVIOUS
<1>1. NoPath \notin Path
  BY TopologyAssumption
<1> QED
  BY <1>1 DEF RInit, Init, RouteInv, SidesOwned, LocksOwned, EndsHeld, LocksHeld, PositionsKept,
              RoutesApart, Intact

\* The history variable restricts nothing.
LEMMA RobbedOnlyWatches == [RNext]_reservationVars => [Next]_vars
<1>1. RNext => Next
  BY DEF RNext, Next, PathStep, RReserve, RUserRelease, RTimerHandler
<1> QED
  BY <1>1 DEF reservationVars

LEMMA StepRoute ==
  ASSUME IInv, RouteInv, [RNext]_reservationVars
  PROVE  RouteInv'
<1>0. TypeOK
  BY DEF IInv
<1>1. CASE UNCHANGED reservationVars
  BY <1>1, OtherRoute DEF reservationVars, vars
<1> SUFFICES ASSUME RNext PROVE RouteInv'
  BY <1>1
<1>2. ~crashed
  BY DEF RNext, Halted
<1>3. ASSUME NEW p \in Path, RReserve(p) \/ RUserRelease(p) \/ RTimerHandler(p) PROVE RouteInv'
  BY <1>0, <1>2, <1>3, ReserveRoute, UserReleaseRoute, TimerHandlerRoute
<1>4. ASSUME UserStep, UNCHANGED robbed PROVE RouteInv'
  <2>1. ASSUME NEW e \in Element, NEW v \in Values[e], SetPosition(e, v) PROVE RouteInv'
    BY <1>0, <1>4, <2>1, SetPositionRoute
  <2>2. ASSUME NEW b \in Block, NEW t \in Train, NEW dir \in TrainDirection, AssignTrain(b, t, dir)
        PROVE  RouteInv'
    BY <1>4, <2>2, OtherRoute DEF AssignTrain, untouched
  <2>3. ASSUME NEW b \in Block, FlipTrain(b) \/ SetStateFree(b) PROVE RouteInv'
    BY <1>4, <2>3, OtherRoute DEF FlipTrain, SetStateFree
  <2>4. ASSUME NEW b \in Block, NEW t \in Train, RemoveTrain(b, t) PROVE RouteInv'
    BY <1>4, <2>4, OtherRoute DEF RemoveTrain, untouched
  <2>5. ASSUME NEW t \in Train, SetDirection(t) PROVE RouteInv'
    BY <1>4, <2>5, OtherRoute DEF SetDirection, untouched
  <2> QED
    BY <1>4, <2>1, <2>2, <2>3, <2>4, <2>5 DEF UserStep
<1>5. ASSUME DetectorStep, UNCHANGED robbed PROVE RouteInv'
  <2>1. UNCHANGED <<reservedPaths, isReserved, lock, position>>
    BY <1>5 DEF DetectorStep, SensorFree, SensorOccupied, IdentificationAbsent,
                IdentificationPresent, untouched
  <2> QED
    BY <1>5, <2>1, OtherRoute
<1>6. ASSUME NEW p \in Path, TimerExpires(p), UNCHANGED robbed PROVE RouteInv'
  BY <1>6, OtherRoute DEF TimerExpires
<1> QED
  BY <1>3, <1>4, <1>5, <1>6 DEF RNext, OtherStep

LEMMA RouteInvariance == RSpec => [](IInv /\ RouteInv)
<1>1. RInit => IInv /\ RouteInv
  BY InitType, InitGood, InitRoute DEF RInit, IInv
<1>2. IInv /\ RouteInv /\ [RNext]_reservationVars => IInv' /\ RouteInv'
  BY StepRoute, StepInv, RobbedOnlyWatches
<1> QED
  BY <1>1, <1>2, PTL DEF RSpec

\* On any layout, with handlers as late as they may come, a reserved path that no
\* release has robbed has both its sides and the lock of every element, its turnouts
\* where reserve set them and its direction controls open.
THEOREM ReservedPathKept == RSpec => []ReservationHeld
<1>1. IInv /\ RouteInv => ReservationHeld
  <2> SUFFICES ASSUME RouteInv, NEW p \in Path, Intact(p)
               PROVE  /\ \A end \in PathEnds(p) : reservedPaths[end[1]][end[2]] = p
                      /\ \A r \in Route[p] :
                           /\ LockValue(r[1], r[2]) \subseteq lock[r[1]]
                           /\ Kind[r[1]] = "turnout" => position[r[1]] \in LockValue(r[1], r[2])
                           /\ Kind[r[1]] = "direction" => position[r[1]] \in {r[2], "both"}
    BY DEF ReservationHeld
  <2>1. \A end \in PathEnds(p) : reservedPaths[end[1]][end[2]] = p
    BY DEF RouteInv, EndsHeld, PathEnds
  <2>2. \A r \in Route[p] : r[1] \in Element /\ r[2] \in Needs(p, r[1])
    BY TopologyAssumption DEF Needs
  <2> QED
    BY <2>1, <2>2, TakesSomething DEF RouteInv, PositionsKept, InPosition
<1> QED
  BY <1>1, RouteInvariance, PTL

\* On any layout, in every state, whatever releases came late, twice or for a path
\* that was reserved anew: no side, and no element but a crossover, is left taken
\* without a reserved path that needs it.
THEOREM NothingLeaks == RSpec => []NoLeakedReservation
<1>1. IInv /\ RouteInv => NoLeakedReservation
  <2> SUFFICES ASSUME TypeOK, RouteInv PROVE NoLeakedReservation
    BY DEF IInv
  <2>1. \A e \in Element : lock[e] \subseteq Value
    BY DEF TypeOK
  <2>2. \A e \in Element :
          lock[e] # {} /\ Kind[e] # "crossOver" => \E p \in Path : isReserved[p] /\ Needs(p, e) # {}
    BY <2>1 DEF RouteInv, LocksOwned, Takes
  <2> QED
    BY <2>2 DEF RouteInv, SidesOwned, NoLeakedReservation
<1> QED
  BY <1>1, RouteInvariance, PTL

\* On any layout two reserved paths that have not been robbed never share a block
\* side, nor an element but the levels of a bridge and a turnout in one position.
THEOREM PathsCompatible == RSpec => []ReservedPathsCompatible
<1>1. IInv /\ RouteInv => ReservedPathsCompatible
  <2> SUFFICES ASSUME RouteInv, NEW p \in Path, NEW q \in Path, p # q, Intact(p), Intact(q)
               PROVE  /\ PathEnds(p) \cap PathEnds(q) = {}
                      /\ \A e \in Element : \A v \in Needs(p, e), u \in Needs(q, e) :
                           \/ Kind[e] = "bridge" /\ v # u
                           \/ Kind[e] = "turnout" /\ LockValue(e, v) = LockValue(e, u)
    BY DEF ReservedPathsCompatible
  <2>1. \A end \in PathEnds(p) : reservedPaths[end[1]][end[2]] = p
    BY DEF RouteInv, EndsHeld, PathEnds
  <2>2. \A end \in PathEnds(q) : reservedPaths[end[1]][end[2]] = q
    BY DEF RouteInv, EndsHeld, PathEnds
  <2> QED
    BY <2>1, <2>2 DEF RouteInv, RoutesApart, Apart
<1> QED
  BY <1>1, RouteInvariance, PTL
=============================================================================
