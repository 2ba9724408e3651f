SPECIFICATION Spec
CONSTANTS
  KeySizes = {10, 12, 16}
  Expansions = {0, 1, 2, 28, 29, 31, 898, 899, 900, 12345, 16383, 16384, 65535}
  Presented = 1800
CHECK_DEADLOCK FALSE
INVARIANTS OnlyTheSignature FullWidth ExponentsInvert MaskKeepsBelow
