SPECIFICATION Spec
CONSTANTS
  Pairs = {p1}
  Callers = {c1}
  Workers = {w1, w2}
  NoTimer = NoTimer
  BackoffLen = 1
  MaxEpoch = 1
SYMMETRY Symmetric
INVARIANTS TypeOK SingleFlight TimerOwnership WakeNotStranded
PROPERTIES StaleAttemptLeavesNoTrace
