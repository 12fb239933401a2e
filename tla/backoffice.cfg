\* Two requests at a time and five in all: a row or a budget, what is done to it,
\* and two requests that race on it.
SPECIFICATION Spec
CONSTANTS
  Requests = {r1, r2}
  Null = Null
  MaxServed = 5
  BudgetIds = {b1}
  Periods = {p1, p2}
  LineSets = {l1, l2}
  Approvers = {u1, u2}
  RowIds = {1, 2}
  Keys = {k1, k2}
  Rates = {x1, x2}
\* The bound on the requests ends it.
CHECK_DEADLOCK FALSE
SYMMETRY Symmetry
INVARIANTS
  TypeOK
  AnswersWhatWasApproved
PROPERTIES
  ApprovedBudgetsAreFrozen
  SettledRowsStay
