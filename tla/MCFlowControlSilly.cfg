SPECIFICATION FlowSpec
CONSTANTS
  Rates <- MCRates
  Sizes <- MixedSizes
  HeaderSize = 1
  FramesPerSegment = 5
  Capacity = 2
  RxCapacity = 3
  MaxSegments = 1
  SegmentSize = 2
  KeepAliveFrames = 2
PROPERTIES
  FlowsToTheEnd
CHECK_DEADLOCK FALSE
