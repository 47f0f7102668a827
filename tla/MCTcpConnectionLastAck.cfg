SPECIFICATION Spec
CONSTANTS
  MaxData <- MCMaxData
  Window = 4
  SynRetries = 2
  DataRetries = 2
  DelAckMax = 2
  MaxLosses = 1
  MaxEarly = 0
PROPERTIES
  LastAckIsOfTheFin
CHECK_DEADLOCK FALSE
