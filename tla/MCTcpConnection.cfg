SPECIFICATION FairSpec
CONSTANTS
  MaxData <- VideoOnly
  Window = 4
  SynRetries = 2
  DataRetries = 1
  DelAckMax = 2
  MaxLosses = 1
  MaxEarly = 1
INVARIANTS
  TypeOK
  AckedMeansReceived
  UnackedIsTimed
PROPERTIES
  Arrives
CHECK_DEADLOCK FALSE
