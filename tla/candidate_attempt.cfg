SPECIFICATION FairSpec
CONSTANTS
  MaxAttempt = 1
  MaxFaults = 3
INVARIANTS TypeOK PrimaryIsCommitted AuthorityIsOwned RevokedOwnsNothing
PROPERTIES CandidateSettles AuthorityIsReleased
CHECK_DEADLOCK FALSE
