\* Two concurrent requests of either user, one document posted once.
SPECIFICATION FairSpec
CONSTANTS
  Requests = {r1, r2}
  DocIds = {d1, d2}
  Users = {u1}
  Headers = {h1}
  NoRow = NoRow
  NoDoc = NoDoc
  MaxOriginals = 1
  MaxApprovals = 1
  MaxEntries = 1
  LineIds = {1, 2, 3, 4}
\* A document ends in a terminal status and no further one may be created.
CHECK_DEADLOCK FALSE
PROPERTIES
  EveryRequestEnds
