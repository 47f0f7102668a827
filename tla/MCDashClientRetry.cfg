SPECIFICATION Spec
CONSTANTS
  Rates <- MCRates
  Sizes <- MCSizes
  HeaderSize = 2
  FramesPerSegment = 2
  Capacity = 4
  RxCapacity = 3
  MaxSegments = 2
  MaxLosses = 1
  MayStop = FALSE
PROPERTIES
  RetryResumes
CHECK_DEADLOCK FALSE
