SPECIFICATION Spec
CONSTANTS
  Conns = {c1, c2}
  FramesPerSegment = 2
  FrameSizes = {3}
  HeaderSize = 2
  TxCapacity = 2
  Interleaves = FALSE
  MaxSegments = 1
  MaxBlanks = 1
  MaxErrors = 1
  MayStop = TRUE
INVARIANTS
  TypeOK
  AnswersItsClient
  QueueWaitsForSpace
  NoFrameLostRunning
PROPERTIES
  EveryRequestAnswered
CHECK_DEADLOCK FALSE
