SPECIFICATION Spec
CONSTANTS
  UEs = {u1}
  Ids = {p1, p2}
  Rbgs = 2
  Beam <- OneBeam
  Symbols = {1}
  MaxDelay = 2
  MaxDuplicates = 1
  MaxBlocks = 2
SYMMETRY DlSymmetry
INVARIANT TypeOK
