SPECIFICATION Spec
CONSTANTS
  FileLens <- SmallFileLens
  WordMax = 20
  SeekThreshold = 4
  Requests <- SmallRequests
  ScratchLen = 4
PROPERTIES
  ImplementsContract
