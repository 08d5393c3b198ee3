SPECIFICATION Spec
CONSTANTS
  RecordUnits = 2
  ByteLimit = 2
  RecordLimit = 1
  ClientCamo = 2
  Chunks = 2
  MaxUp = 2
  MaxDown = 2
INVARIANTS
  ResidualsTolerated
CHECK_DEADLOCK FALSE
