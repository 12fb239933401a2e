\* An update and a payment race on one expense request.
SPECIFICATION Spec
CONSTANTS
  Requests = {r1, r2}
  ExpenseIds = {e1}
  Accounts = {a1, a2}
  Keys = {k1, k2}
  Null = Null
  MaxPayments = 1
  MaxApprovals = 1
\* An expense request ends in a terminal status.
CHECK_DEADLOCK FALSE
SYMMETRY Symmetry
PROPERTIES
  DebitsItsAccount
