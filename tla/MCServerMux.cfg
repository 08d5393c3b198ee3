SPECIFICATION Spec
CONSTANTS
  id1 = id1
  Id <- OneId
  MaxOpens = 2
  MaxStreams = 1
  Depth = 2
  ControlCap = 1
  UploadCap = 1
  BatchFrames = 2
  MaxData = 1
  WithUploads = FALSE
  WithReceipts = TRUE
INVARIANTS TargetsBounded
PROPERTIES WireOrder ReceiptIsFirst FinIsComplete
