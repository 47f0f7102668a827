SPECIFICATION Spec
CONSTANTS
  Frames <- MCFrames
  Capacity = 3
  FrameInterval = 2
  StartDelay = 3
  SimStop = 11
INVARIANTS
  TypeOK
  SingleEventChain
  PlayClock
  PausedMeansStarved
  BytesAccounted
PROPERTIES
  PlayedOnTime
  ReachesStop
