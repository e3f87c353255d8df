SPECIFICATION Spec
CONSTANTS
  MaxStreams = 1
  StreamWindowBytes = 1
  MaxDataBytes = 1
  MaxId = 1
  MaxBytes = 0
INVARIANT ListenerKeepsLiveMux
CHECK_DEADLOCK FALSE
