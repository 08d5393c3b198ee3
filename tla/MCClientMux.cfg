SPECIFICATION Spec
CONSTANTS
  c1 = c1
  NoAge = NoAge
  Conn <- OneConn
  FrameCap = 1
  ControlCap = 1
  StreamCap = 1
  SuspectAfter = 1
  DeadAfter = 2
  MaxUp = 1
  MaxDown = 2
  DownCap = 2
INVARIANTS
  
  UploadComplete
PROPERTIES
  RegisteredFirst
  NoFalseDeath
  ResetEnds
CHECK_DEADLOCK FALSE
