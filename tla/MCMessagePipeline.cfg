CONSTANTS
  u1 = u1
  c1 = c1
  k1 = k1
  w1 = w1
  w2 = w2
  h1 = h1
  h2 = h2
  Request <- MCRequest
  Worker = {w1, w2}
  Handler = {h1, h2}
  Host <- MCHost
  InitialMember <- MCMember
  NoDelivery = NoDelivery
  RetryLimit = 1
  MaxSends = 1
  MaxCrashes = 1
  MaxFaults = 1
SPECIFICATION FairSpec
INVARIANTS
  TypeOK
  OneRowPerClientId
  AckNamesDurableRow
  NoSilentLoss
PROPERTIES
  ImplementsStore
  EventuallySettled
CHECK_DEADLOCK FALSE
