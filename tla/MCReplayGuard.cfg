SPECIFICATION GuardSpec
CONSTANTS
  Entry <- MCEntry
  Legacy <- MCLegacy
  None = None
  Window = 1
  MaxFutureSkew = 1
  Capacity = 2
  StaleThreshold = 0
  OrderedMetadata = TRUE
  MaxTime = 2
  MaxFaults = 1
  MaxCrashes = 2
INVARIANTS NoStrandedEntry
PROPERTIES RetryDrainsQueue
