\* One posting, racing the closing of its period.
SPECIFICATION Spec
CONSTANTS
  Requests = {r1, r2}
  PoolSize = 2
  Sources = {d1}
  Months = {m1}
  cash = cash
  sales = sales
  rent = rent
  Accounts = {cash, sales, rent}
  TypeOf <- Types
  CashAccounts <- Cash
  Dimensions = {0, 1}
  Postings <- Posted
  Users = {u1}
  Null = Null
  MaxEntries = 2
  MaxMoves = 3
CHECK_DEADLOCK FALSE
PROPERTIES
  PostsOnlyWhenOpen
