SPECIFICATION RSpec
CONSTANTS
  b1 = b1
  b2 = b2
  b3 = b3
  t1 = t1
  t2 = t2
  p12 = p12
  p13 = p13
  p31 = p31
  w = w
  cross = cross
  bridge = bridge
  NoTrain = NoTrain
  NoPath = NoPath
  Block <- MCBlock
  Train <- MCTrain
  Path <- MCPath
  Element <- MCElement
  From <- MCFrom
  To <- MCTo
  FromSide <- MCFromSide
  ToSide <- MCToSide
  Route <- MCRoute
  Kind <- MCKind
  Values <- MCValues
  Inputs <- MCInputs
  Vertical = {}
  ManualUnprotected <- MCTrain
  MaxTrainBlocks = 3
  MaxScheduled = 1
  Identifying = FALSE
\* The process may have crashed, and a train may be lost track of: then it stops.
CHECK_DEADLOCK FALSE
SYMMETRY TrainSymmetry
INVARIANTS
  TypeOK
  BlockStateCurrent
  OneTrainPerBlock
  ReservationHeld
  NoLeakedReservation
  ReservedPathsCompatible
PROPERTIES
  OccupiedNotGivenUp
