SPECIFICATION FairSpec
CONSTANTS
  l1 = l1
  a1 = a1
  Loco = {}
  Accessory = {}
  Speed = {0, 5}
  Config <- MCConfig
  QueueLimit = 3
  PulseSlots = 2
  CrashSeconds = 2
  Button = {"PowerOn", "PowerOff", "Run", "Stop"}
  MaxRepeating = 2
  MaxCalls = 2
\* The session may have ended.
CHECK_DEADLOCK FALSE
INVARIANTS
  TypeOK
  QueueServed
  OverflowTold
  CrashTold
  PowerRunCoupled
  TrackInSync
PROPERTIES
  GoDelivered
