SPECIFICATION Spec
CONSTANTS
  Conns = {c1, c2}
  FramesPerSegment = 2
  FrameSizes <- MCFrameSizes
  HeaderSize = 2
  TxCapacity = 2
  Interleaves = TRUE
  MaxSegments = 1
  MaxBlanks = 0
  MaxErrors = 0
  MayStop = FALSE
INVARIANTS
  AnswersItsClient
CHECK_DEADLOCK FALSE
