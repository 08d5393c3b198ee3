SPECIFICATION Spec
CONSTANTS
  Streams = 2
  SendBuffer = 2
  StreamWindow = 1
  ConnWindow = 1
  StreamLimit = 1
  Cwnd = 2
  BaseMtu = 1
  MaxMtu = 2
  SearchStep = 1
  MaxProbes = 1
  BlackholeThreshold = 1
  Plans <- MCPlans
INVARIANTS  CreditExact BufferHolds EofComplete 
CHECK_DEADLOCK FALSE
