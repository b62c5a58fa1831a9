CONSTANTS
  v1 = v1
  v2 = v2
  c1 = c1
  c2 = c2
  none = none
  Conversation = {v1}
  NoConv = none
  Conn = {c1, c2}
  NoSocket = none
  MaxLogins = 1
  MaxFrames = 2
  MaxFaults = 1
SPECIFICATION Spec
CHECK_DEADLOCK FALSE
INVARIANT
  ClosedIsClear
