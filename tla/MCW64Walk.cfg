SPECIFICATION WalkSpec
CONSTANTS
  FileLens <- MCFileLens
  ChunkSizes <- MCChunkSizes
  FactCounts = {0, 5}
  SizeMax = 99
  WordMax = 400
  FmtCore = 2
  SeekThreshold = 90
INVARIANTS
  ChunksAreAdjacent
  FirstChunksWin
CHECK_DEADLOCK FALSE
