SPECIFICATION SecondSpec
CONSTANTS
  MaxAttempt = 2
  MaxFaults = 1
VIEW HandoverView
INVARIANTS SlotsAreLive AuthorityIsOwned
PROPERTIES MakeBeforeBreak NeverRevived
CHECK_DEADLOCK FALSE
