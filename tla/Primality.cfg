SPECIFICATION PrimalitySpec
CONSTANTS
  Numbers = {0, 1, 2, 3, 4, 5, 9, 15, 25, 49, 73, 77, 79, 81, 83, 89, 97, 101, 121, 143, 149, 257, 561, 769, 1153, 1729, 2047, 3329, 5329, 5333, 6241, 6247, 6557, 6889, 7031, 7663, 8633, 9409, 12403}
  Rounds = 2
CHECK_DEADLOCK FALSE
INVARIANTS PrimesPass FewLiars
