SPECIFICATION ZFairSpec
CONSTANTS
  s1 = s1
  s2 = s2
  t1 = t1
  entry = entry
  d = d
  shed = shed
  platform = platform
  yard = yard
  NoTrain = NoTrain
  NoPath = NoPath
  Block <- MCBlock
  Train <- MCTrain
  Path <- MCPath
  Element <- MCElement
  From <- MCFrom
  To <- MCTo
  FromSide <- MCFromSide
  ToSide <- MCToSide
  Route <- MCRoute
  Kind <- MCKind
  Values <- MCValues
  Inputs <- MCInputs
  Vertical <- MCVertical
  ManualUnprotected <- MCTrain
  Zone <- MCZone
  ZonesOf <- MCZonesOf
  Muting <- MCMuting
  MaxTrainBlocks = 2
  MaxScheduled = 1
  Identifying = TRUE
\* The process may have crashed, and a train may be lost track of: then it stops.
CHECK_DEADLOCK FALSE
INVARIANTS
  BlockStateCurrent
  OneTrainPerBlock
  ZoneKnown
  MuteCurrent
PROPERTIES
  DelayedReleaseEnds
