SPECIFICATION Spec
CONSTANTS
  MaxWire = 2
  Services = {s1, s2}
  Urls = {u1, u2}
  MaxGen = 3
  Endpoints = {"e1", "e2"}
  MaxVer = 3
  Ids = {1, 2, 3, 4}
  REPLAY_WINDOW = 2
  Limit = 2
  MaxCalls = 3
  MaxDocs = 2
  Callers = {k1, k2}
  MaxId = 2
  MaxRev = 2
INVARIANTS
  TypeOK
  OneResumableIdentity
  AuthorityIsCurrent
  AnswersAreTrue
PROPERTIES
  NothingIsTakenBack
  PromiseKeptUnlessOvertaken
CHECK_DEADLOCK FALSE
