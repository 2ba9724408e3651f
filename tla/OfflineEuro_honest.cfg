SPECIFICATION Spec
CONSTANTS
  Devices = {a, b, x}
  Strangers = {x}
  Accounts = {acc}
  IssuerKey = ik
  OtherKey = ok
  MaxU64 = 7
  MaxDraws = 2
  MaxDebits = 2
  CentAmounts = {0, 1, 2}
  OpeningBalances = {3}
  Limits = {3}
  AlteredAmounts = {1}
  Crackable = {}
  Losable = {}
  MaxMoney = 3
SYMMETRY Symmetry
CHECK_DEADLOCK FALSE
INVARIANTS TypeOK FloatIsBacked MoneyConserved CreditedOnce CancelledForGood CircuitIsClosed RoomIsForOpenRequests PaymentLands FundingLands DefundingLands
PROPERTIES ImplementsNotes
