CONSTANTS
  a = a
  o1 = o1
  o2 = o2
  Mine = {a}
  Others = {o1}
  FeedSize = 1
  MaxPages = 2
  MaxSkew = 1
  MaxLog = 2
  MaxFaults = 1
SPECIFICATION Spec
CHECK_DEADLOCK FALSE
INVARIANTS
  TypeOK
  NoDuplicates
  CountedOnce
  Converged
