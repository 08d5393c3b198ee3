SPECIFICATION Spec
CONSTANTS
  RecordUnits = 1
  ByteLimit = 2
  RecordLimit = 1
  ClientCamo = 2
  Chunks = 2
  MaxUp = 2
  MaxDown = 2
INVARIANTS
  SequenceAligned
  ServerReleases
  ResidualsTolerated
PROPERTIES
  KeepsPromise
CHECK_DEADLOCK FALSE
