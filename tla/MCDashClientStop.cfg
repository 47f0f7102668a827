SPECIFICATION Spec
CONSTANTS
  Rates <- MCRates
  Sizes <- MCSizes
  HeaderSize = 2
  FramesPerSegment = 2
  Capacity = 4
  RxCapacity = 3
  MaxSegments = 1
  MaxLosses = 0
  MayStop = TRUE
PROPERTIES
  NoRequestAfterStop
CHECK_DEADLOCK FALSE
