\* Two concurrent requests about one applicant and two administrators, who may block
\* each other; two codes, so that a second can follow the first.
SPECIFICATION Spec
CONSTANTS
  Requests = {r1, r2}
  a1 = a1
  a2 = a2
  u1 = u1
  People <- Everybody
  Admins <- TheAdmins
  Nobody = Nobody
  MaxAttempts = 2
  MaxCodes = 2
  MaxUncounted = 1
SYMMETRY Symmetry
INVARIANTS
  TypeOK
  ActiveIsApproved
  ApprovedOnce
  DeadlockNeedsABlock
PROPERTIES
  SpentCodesTakeNoAnswer
  RejectionIsFinal
