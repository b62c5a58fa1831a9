CONSTANTS
  a = a
  b = b
  h1 = h1
  h2 = h2
  User = {a, b}
  Recipient = {a}
  Handler = {h1, h2}
  NoJob = NoJob
  RetryLimit = 1
  MaxAcks = 2
  MaxFaults = 1
SPECIFICATION FairSpec
INVARIANTS
  TypeOK
  NoFalseDelivery
PROPERTIES
  NeverUndelivered
  EventuallyRecorded
CHECK_DEADLOCK FALSE
