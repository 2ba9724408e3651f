SPECIFICATION Spec
CONSTANTS
  Alice = alice
  Bakery = bakery
  Kiosk = kiosk
  Mallory = mallory
  Rogue = rogue
  Devices = {alice, bakery, kiosk, mallory, rogue}
  Accounts = {alice, bakery, kiosk, mallory}
  IssuerKey = ik
  OtherKey = ok
  MaxU64 = 1000000
  MaxDraws = 4
  MaxDebits = 4
  Numbers = {1, 513, 2048}
  MaxArguments = 4
  CheckLimits = {2000, 2050, 2999, 3000, 3001, 3999, 4000, 4001, 6000, 9999, 10000, 10001, 50000}
CHECK_DEADLOCK FALSE
INVARIANTS ReadsArguments ExitCodeTells
PROPERTIES CheckPasses
