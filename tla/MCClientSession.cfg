CONSTANTS
  w1 = w1
  w2 = w2
  c1 = c1
  c2 = c2
  Window = {w1, w2}
  Caller = {c1, c2}
  Home <- MCHome
  HasLocks = TRUE
  MaxTokens = 2
SPECIFICATION FairSpec
INVARIANTS
  TypeOK
  NoReuse
  Recoverable
  LoginKept
PROPERTY
  Answered
