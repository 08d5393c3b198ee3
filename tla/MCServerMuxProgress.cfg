SPECIFICATION Spec
CONSTANTS
  id1 = id1
  Id <- OneId
  MaxOpens = 1
  MaxStreams = 1
  Depth = 1
  ControlCap = 1
  UploadCap = 1
  BatchFrames = 2
  MaxData = 1
  WithUploads = TRUE
  WithReceipts = TRUE

PROPERTIES  WriterEnds
