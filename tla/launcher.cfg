SPECIFICATION Spec
CONSTANTS
  Current <- cur
  Releases <- rel
  MaxGen = 3
  Areas <- areas
  Spots <- spots
  MIN_VISIBLE_WIDTH = 2
  MIN_VISIBLE_HEIGHT = 1
  MaxServes = 3
  Guests = {g1, g2}
  Levels = 3
  DefaultLevel = 2
  MaxCommands = 2
  MaxSeq = 2
  MaxDocs = 2
  MaxWait = 2
  MaxLeaked = 1
  Commits = {c1, c2, c3}
  None = None
  PluginNames = {n1, n2}
  PluginDirs = {d1, d2, d3}
  Paths <- paths
  HomeDir <- home
  Default <- default
  Caps = {k1, k2}
  Installs = {i1}
  Revisions <- revisions
  MaxExe = 3
  MaxTools = 1
  MaxChanges = 1
  Sessions = {1}
  Steps = {1, 2}
  Counts = {1, 2}
  Days = {1}
  Models = {1}
  MaxEvents = 3
  MaxVersion = 2
  Configs = {3, 4}
  Slots = {1, 2}
  MaxCalls = 3
  MaxLate = 1
  batchSize = 2
  queueLimit = 2
  MaxFlights = 2
  MaxWrites = 2
  MaxRestarts = 1
  Keys = {1, 2}
  Batch <- batch
  migrations <- declared
  Missing = Missing
INVARIANTS
  TypeOK
  RunsWhatItRecords
  ShowsWhatIsTrue
  NothingIsLost
PROPERTIES
  AnswersAreTheirOwn
  QuitCompletes
CHECK_DEADLOCK FALSE
