\* One update that read the document in DRAFT, racing its posting.
SPECIFICATION Spec
CONSTANTS
  Requests = {r1, r2}
  DocIds = {d1, d2}
  Users = {u1}
  Headers = {h1}
  NoRow = NoRow
  NoDoc = NoDoc
  MaxOriginals = 1
  MaxApprovals = 1
  MaxEntries = 1
  LineIds = {1, 2, 3, 4}
CHECK_DEADLOCK FALSE
PROPERTIES
  PostedIsImmutable
