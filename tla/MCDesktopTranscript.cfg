CONSTANTS
  a = a
  o1 = o1
  o2 = o2
  s1 = s1
  s2 = s2
  Mine = {a}
  Others = {o1}
  Slot = {s1}
  PageSize = 1
  FeedSize = 1
  MaxPages = 1
  MaxLog = 2
  MaxDelivery = 2
  Notices = {"sending", "failed"}
  MaxSkew = 0
  MaxTicks = 1
  MaxFaults = 1
SPECIFICATION FairSpec
CHECK_DEADLOCK FALSE
INVARIANTS
  TypeOK
  NoDuplicates
  CursorKept
PROPERTY
  Converges
