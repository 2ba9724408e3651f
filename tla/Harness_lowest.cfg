SPECIFICATION Spec
CONSTANTS
  Alice = alice
  Bakery = bakery
  Kiosk = kiosk
  Mallory = mallory
  Rogue = rogue
  Devices = {alice, bakery, kiosk, mallory, rogue}
  Accounts = {alice, bakery, kiosk, mallory}
  IssuerKey = ik
  OtherKey = ok
  MaxU64 = 1000000
  MaxDraws = 4
  MaxDebits = 4
  Numbers = {}
  MaxArguments = 0
  CheckLimits = {2000, 3000, 4000}
CHECK_DEADLOCK FALSE
INVARIANTS LowestLimitSuffices
