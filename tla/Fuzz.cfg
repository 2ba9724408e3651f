SPECIFICATION Spec
CONSTANTS
  Devices = {a, b}
  Accounts = {p, q}
  IssuerKey = ik
  OtherKey = ok
  MaxU64 = 24
  MaxDraws = 6
  MaxDebits = 6
  Limit = 4
  Ops = 6
CHECK_DEADLOCK FALSE
INVARIANTS FindsNothing
PROPERTIES Finishes ImplementsLedger NoRefusalAfterDebit
