SPECIFICATION MCSpec
CONSTANTS
  FileLens <- AllFileLens
  RiffSizes <- AllRiffSizes
  ChunkSizes <- AllChunkSizes
  FactCounts = {0, 5}
  Ds64Bodies <- SizesDs64Bodies
  SizeTables <- SizesSizeTables
  SizeMax = 44
  WordMax = 201
  FmtCore = 2
  Ds64Core = 4
  EntryLen = 1
  MaxEntries = 2
  SeekThreshold = 8
INVARIANTS
  ChunksAreAdjacent
  FirstChunksWin
  CounterFollowsPosition
  TableSizesInOrder
  SizeAndCountAreTheirOwn
  CounterNeverOverflows
PROPERTIES
  WalkReturns
CHECK_DEADLOCK FALSE
