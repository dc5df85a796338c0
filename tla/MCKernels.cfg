SPECIFICATION MCSpec
CONSTANTS
  Frames = 6
  RawLags <- EdgeLags
  BurstLen = 250
  Bursts = 2
INVARIANTS
  BlockIsUsedUp
  HistoryIsContinuous
  ScaleInRange
  PolesAreStable
CHECK_DEADLOCK FALSE
