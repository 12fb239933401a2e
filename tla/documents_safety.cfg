\* Two concurrent requests on one document; ids for two CORRECTION documents, so
\* that two reversals can race.
SPECIFICATION Spec
CONSTANTS
  Requests = {r1, r2}
  DocIds = {d1, d2, d3}
  Users = {u1, u2}
  Headers = {h1}
  NoRow = NoRow
  NoDoc = NoDoc
  MaxOriginals = 1
  MaxApprovals = 2
  MaxEntries = 2
  LineIds = {1, 2, 3}
\* A document ends in a terminal status and no further one may be created.
CHECK_DEADLOCK FALSE
SYMMETRY Symmetry
INVARIANTS
  TypeOK
  ApprovalConsumedOnce
  ReversedOnce
PROPERTIES
  LinesChangeOnlyInDraft
  PostedLinesAreCurrent
