SPECIFICATION FairSpec
CONSTANTS
  MaxStreams = 1
  StreamWindowBytes = 2
  MaxDataBytes = 1
  MaxId = 1
  MaxBytes = 3
INVARIANTS TypeOK NoProtocolFailure ReadsInOrder CreditConserved
PROPERTIES WriteCompletes FinishedIsFreed
CHECK_DEADLOCK FALSE
