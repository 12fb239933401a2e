\* Postings and reversals of one document against the changes of one period, with
\* one request more than the pool has connections.
SPECIFICATION FairSpec
CONSTANTS
  Requests = {r1, r2, r3}
  PoolSize = 2
  Sources = {d1}
  Months = {m1}
  cash = cash
  sales = sales
  rent = rent
  Accounts = {cash, sales, rent}
  TypeOf <- Types
  CashAccounts <- Cash
  Dimensions = {0, 1}
  Postings <- Posted
  Users = {u1}
  Null = Null
  MaxEntries = 2
  MaxMoves = 3
\* The bounds end it.
CHECK_DEADLOCK FALSE
INVARIANTS
  TypeOK
  AuditTellsStatus
  BooksAgree
  ReversalCancels
  BaseBalances
PROPERTIES
  EntryPinsPeriod
  EveryRequestEnds
