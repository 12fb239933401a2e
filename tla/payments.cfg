\* Two concurrent requests, one expense request whose account may change, two keys.
SPECIFICATION FairSpec
CONSTANTS
  Requests = {r1, r2}
  ExpenseIds = {e1}
  Accounts = {a1, a2}
  Keys = {k1, k2}
  Null = Null
  MaxPayments = 2
  MaxApprovals = 2
\* An expense request ends in a terminal status.
CHECK_DEADLOCK FALSE
INVARIANTS
  TypeOK
  ApprovalPaidOnce
PROPERTIES
  ImplementsAtMostOnce
  PaysTheApproved
  EveryRequestEnds
