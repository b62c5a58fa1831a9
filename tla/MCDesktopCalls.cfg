CONSTANTS
  p1 = p1
  r1 = r1
  Placed = {p1}
  Received = {r1}
  NoCall = NoCall
  Stream = {1, 2, 3}
  MaxIce = 1
  MaxTimers = 1
  MaxMedia = 1
SPECIFICATION FairSpec
CHECK_DEADLOCK FALSE
INVARIANTS
  TypeOK
  OfferAfterAccept
  CandidatesDrained
  InviteKept
  MediaFollowsCall
PROPERTY
  OverLeaves
