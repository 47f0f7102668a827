SPECIFICATION Spec
CONSTANTS
  Conns = {c1}
  FramesPerSegment = 2
  FrameSizes <- MCFrameSizes
  HeaderSize = 2
  TxCapacity = 2
  Interleaves = FALSE
  MaxSegments = 1
  MaxBlanks = 0
  MaxErrors = 0
  MayStop = TRUE
INVARIANTS
  NoFrameLost
CHECK_DEADLOCK FALSE
