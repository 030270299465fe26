SPECIFICATION Spec
CONSTANTS
  e1 = e1
  e2 = e2
  Amount = 2
  Event <- MCEvent
  KindOf <- MCKindOf
  MaxCount = 2
  MaxPackets = 1
INVARIANTS
  TypeOK
  InStep
PROPERTIES
  FeedbackReported
