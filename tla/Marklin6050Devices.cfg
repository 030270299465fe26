SPECIFICATION Spec
CONSTANTS
  l1 = l1
  a1 = a1
  Loco <- MCLoco
  Accessory <- MCAccessory
  Speed = {0, 5}
  Config <- MCDeviceConfig
  QueueLimit = 2
  PulseSlots = 2
  CrashSeconds = 2
  Button = {}
  MaxRepeating = 2
  MaxCalls = 1
\* The session may have ended.
CHECK_DEADLOCK FALSE
INVARIANTS
  LocoInSync
  AccessoryInSync
