SPECIFICATION MCSpec
CONSTANTS
  Devices = {a, b}
  Accounts = {p, q}
  IssuerKey = ik
  OtherKey = ok
  MaxU64 = 3
  MaxDraws = 1
  MaxDebits = 2
  CentAmounts = {0, 1, 2}
  OpeningBalances = {0, 3}
CHECK_DEADLOCK FALSE
INVARIANTS IssuerTypeOK BooksBalance
