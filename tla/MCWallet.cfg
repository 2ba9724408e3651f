SPECIFICATION MCSpec
CONSTANTS
  Home = h
  Peer = p
  Stranger = x
  Devices = {h, p, x}
  IssuerKey = ik
  OtherKey = ok
  MaxU64 = 9
  MaxDraws = 4
  MaxDebits = 2
  CentAmounts = {0, 1, 2, 3}
  Limit = 4
CHECK_DEADLOCK FALSE
INVARIANTS WalletTypeOK WithinHoldingLimit NonceUsedOnce
