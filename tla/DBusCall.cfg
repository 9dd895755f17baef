SPECIFICATION FairSpec
CONSTANTS
  SerialWidth = 3
  MaxCalls = 4
  MaxSignals = 2
  MaxGarbled = 2
INVARIANT TypeOK
PROPERTIES CallsAreRpc CallReturns
CHECK_DEADLOCK FALSE
