CONSTANTS
  v1 = v1
  v2 = v2
  c1 = c1
  c2 = c2
  none = none
  Conversation = {v1, v2}
  NoConv = none
  Conn = {c1, c2}
  NoSocket = none
  MaxLogins = 2
  MaxFrames = 1
  MaxFaults = 2
SPECIFICATION FairSpec
CHECK_DEADLOCK FALSE
INVARIANTS
  OneSocket
  OwnMessages
PROPERTY
  Settles
