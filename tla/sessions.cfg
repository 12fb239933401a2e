\* Two concurrent requests on the sessions of one user, three refresh tokens: two
\* rotations of one token.
SPECIFICATION FairSpec
CONSTANTS
  Requests = {r1, r2}
  MaxFailures = 2
  MaxTokens = 3
  MaxResets = 1
  MaxPasswords = 1
  MaxClock = 1
INVARIANTS
  TypeOK
  FamiliesGrowByRotation
  DeadlockNeedsABlock
PROPERTIES
  FamiliesEnd
  LockOutlastsNewRequests
  EveryRequestEnds
