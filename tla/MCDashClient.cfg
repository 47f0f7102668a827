SPECIFICATION Spec
CONSTANTS
  Rates <- MCRates
  Sizes <- MCSizes
  HeaderSize = 2
  FramesPerSegment = 2
  Capacity = 4
  RxCapacity = 3
  MaxSegments = 2
  MaxLosses = 1
  MayStop = TRUE
INVARIANTS
  TypeOK
  OneSegmentAtATime
  StalledOnlyWhenFull
  Backpressure
  MeasuredExactly
  PlaysInOrder
  ParserAligned
  NeverAborts
PROPERTIES
  KeepsPromise
  PlaysToTheEnd
CHECK_DEADLOCK FALSE
