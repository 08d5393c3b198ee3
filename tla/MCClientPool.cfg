SPECIFICATION Spec
CONSTANTS
  c1 = c1
  c2 = c2
  s1 = s1
  s2 = s2
  s3 = s3
  None = None
  Keeper = Keeper
  Conn <- Conns
  Session <- Sessions
  StreamLimit = 1
  MaxBuilds = 2
  MaxBuildAttempts = 2
  MaxIdleSessions = 1
  MaxFailures = 2
  ActiveWindow = 3
  MaxBackoff = 1
  Ttl = 2
  Starts <- RaceOrReturn
  MaxTime = 3
INVARIANTS
  NoStrandedWaiter
  KeeperGivesUp
PROPERTIES
  AcquireEnds
  
CHECK_DEADLOCK FALSE
