SPECIFICATION Spec
CONSTANTS
  v4 = v4
  a6 = a6
  b6 = b6
  p48 = p48
  c1 = c1
  c2 = c2
  c3 = c3
  None = None
  Source <- MCSource
  Prefix <- MCPrefix
  AggKey <- MCAggKey
  Conn <- MCConn
  CapV4 = 2
  CapV6 = 1
  AggFanout = 1
  MaxEntries = 2
  IdleGrace = 1
  PruneBudget = 2
  ConnectionLimit = 1
  ShedSlots = 1
  MaxDetached = 1
  MaxTime = 1
SYMMETRY ConnSymmetry
INVARIANTS
  CountersMatchPermits
  LimiterIsBounded
PROPERTIES
  EvictionIsSafe
CHECK_DEADLOCK FALSE
