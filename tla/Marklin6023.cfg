SPECIFICATION FairSpec
CONSTANTS
  Contacts = 2
  Config <- MCConfig
  QueueLimit = 2
  MaxRepeating = 1
  MaxAnswers = 2
  MaxTimeouts = 1
\* The session may have ended.
CHECK_DEADLOCK FALSE
INVARIANTS
  TypeOK
  OneCarrier
  WaitingIsWatched
  QueueServed
PROPERTIES
  ContactsReported
  ContactsPolled
