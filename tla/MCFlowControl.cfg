SPECIFICATION FlowSpec
CONSTANTS
  Rates <- MCRates
  Sizes <- MixedSizes
  HeaderSize = 1
  FramesPerSegment = 5
  Capacity = 2
  RxCapacity = 2
  MaxSegments = 1
  SegmentSize = 2
  KeepAliveFrames = 2
INVARIANTS
  FlowTypeOK
  NeverOverruns
PROPERTIES
  RefinesDashClient
  FlowsToTheEnd
CHECK_DEADLOCK FALSE
