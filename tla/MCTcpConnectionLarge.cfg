SPECIFICATION Spec
CONSTANTS
  MaxData <- MCMaxData
  Window = 4
  SynRetries = 2
  DataRetries = 2
  DelAckMax = 2
  MaxLosses = 1
  MaxEarly = 1
INVARIANTS
  TypeOK
  AckedMeansReceived
  UnackedIsTimed
CHECK_DEADLOCK FALSE
