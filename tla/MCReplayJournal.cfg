SPECIFICATION Spec
CONSTANTS
  Entry <- MCEntry
  Legacy <- MCLegacy
  None = None
  Window = 1
  MaxFutureSkew = 1
  Capacity = 2
  StaleThreshold = 0
  OrderedMetadata = TRUE
  MaxTime = 3
  MaxFaults = 2
  MaxCrashes = 2
INVARIANTS NoReplay AcceptedIsDurable JournalAlwaysLoads IndexMatchesOrder JournalMatchesFile
