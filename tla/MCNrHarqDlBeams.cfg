SPECIFICATION Spec
CONSTANTS
  UEs = {u1, u2}
  Ids = {p1, p2}
  Rbgs = 2
  Beam <- OwnBeams
  Symbols = {2}
  MaxDelay = 1
  MaxDuplicates = 0
  MaxBlocks = 3
INVARIANT HarqGoesFirst
