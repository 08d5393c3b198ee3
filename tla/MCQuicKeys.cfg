SPECIFICATION Spec
CONSTANTS
  Limit = 3
  MaxPn = 4
INVARIANTS
  NoKeyError
  Readable
  KeyLimit
CHECK_DEADLOCK FALSE
