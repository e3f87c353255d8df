SPECIFICATION Spec
CONSTANTS
  MaxStreams = 1
  StreamWindowBytes = 4
  MaxDataBytes = 2
  MaxId = 3
  MaxBytes = 0
INVARIANTS ReservationHolds
CHECK_DEADLOCK FALSE
