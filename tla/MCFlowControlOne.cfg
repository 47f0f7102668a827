SPECIFICATION FlowSpec
CONSTANTS
  Rates <- MCRates
  Sizes <- UnitSizes
  HeaderSize = 1
  FramesPerSegment = 9
  Capacity = 2
  RxCapacity = 3
  MaxSegments = 2
  SegmentSize = 2
  KeepAliveFrames = 2
PROPERTIES
  FlowsToTheEnd
CHECK_DEADLOCK FALSE
