SPECIFICATION Spec
CONSTANTS
  Devices = {a, b}
  Strangers = {}
  Accounts = {acc}
  IssuerKey = ik
  OtherKey = ok
  MaxU64 = 7
  MaxDraws = 2
  MaxDebits = 2
  CentAmounts = {1}
  OpeningBalances = {2}
  Limits = {2}
  AlteredAmounts = {}
  Crackable = {a}
  Losable = {b}
  MaxMoney = 2
CHECK_DEADLOCK FALSE
INVARIANTS FloatIsBacked NegativeFloatIsProof
PROPERTIES ImplementsNotes
