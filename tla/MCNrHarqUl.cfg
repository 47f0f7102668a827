SPECIFICATION UlFairSpec
CONSTANTS
  UEs = {u1, u2}
  Ids = {p1, p2}
  Rbgs = 1
  Symbols = {1, 2}
  MaxDelay = 1
  MaxBlocks = 2
INVARIANT UlTypeOK FollowedAtMostOnce
PROPERTY Drains
