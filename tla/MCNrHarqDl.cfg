SPECIFICATION Spec
CONSTANTS
  UEs = {u1, u2}
  Ids = {p1, p2}
  Rbgs = 2
  Beam <- OneBeam
  Symbols = {0, 3}
  MaxDelay = 2
  MaxDuplicates = 0
  MaxBlocks = 2
SYMMETRY DlSymmetry
INVARIANT PlacedApart EachBlockIsFollowed HarqGoesFirst
