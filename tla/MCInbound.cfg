SPECIFICATION Spec
CONSTANTS
  MaxUp = 3
  MaxDown = 2
INVARIANTS
  Transparent
  ClosesByFin

  
CHECK_DEADLOCK FALSE
