CONSTANTS
  a = a
  b = b
  r1 = r1
  r2 = r2
  s1 = s1
  User = {a, b}
  Creator = a
  Request = {r1, r2}
  Socket = {s1}
  Owner <- MCOwner
  Nobody = Nobody
  MaxChanges = 1
  MaxFaults = 0
SPECIFICATION Spec
INVARIANT RemovedStopReceiving
CHECK_DEADLOCK FALSE
