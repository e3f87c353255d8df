SPECIFICATION Spec
CONSTANTS
  Callers = {k1, k2}
  MaxId = 2
  MaxRev = 2
PROPERTIES KeepsItsPromise
CHECK_DEADLOCK FALSE
