SPECIFICATION Spec
CONSTANTS
  t1 = t1
  t2 = t2
  v1 = v1
  h1 = h1
  h2 = h2
  NoTrain = NoTrain
  NoThrottle = NoThrottle
  Train <- MCTrain
  Vehicle <- MCVehicle
  Powered <- MCPowered
  Throttle <- MCThrottle
  Notch <- MCNotch
  MaxSpeed = 3
  AccelerationStep = 2
  BrakingStep = 1
  MaxDue = 1
SYMMETRY MCSymmetry
INVARIANTS
  TypeOK
  OneActiveTrain
  OneThrottle
  StoppedIsTold
  EmergencyStopHeld
  RunsWithTrain
  SpeedPursued
PROPERTIES
  RunningNotReversed
