SPECIFICATION Spec
CONSTANTS
  MaxPairs = 2
  MaxRev = 2
  MaxGen = 1
  MaxMoved = 1
  None = None
  Packages = {1, 2}
  Source <- source
  FEED_LIMIT = 1
  MaxCalls = 2
  Users = {u1, u2}
  Nets = {n1}
  MaxNews = 1
  Null = Null
  RootKinds = {r1, r2}
  ExecutableKinds = {e1, e2}
  MaxSpaces = 1
  MaxInstalled = 1
  Pairs = {p1}
  Keys = {k1, k2}
  MaxKeys = 1
  MinPort = 2
  MaxPort = 3
  Options = 3
  Disabled = {1}
  MaxEdits = 2
INVARIANTS
  TypeOK
  ShowsWhatIsHeld
PROPERTIES
  StepsAreAccounted
CHECK_DEADLOCK FALSE
