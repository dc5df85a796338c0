SPECIFICATION MCSpec
CONSTANTS
  ChunkLens <- ManyLens
  Cores <- AllCores
  Extras <- ManyExtras
  CoefCounts <- SomeCoefs
  ValidBits <- SomeValid
  MaxRates = {8000, 48000}
INVARIANTS
  ConsumesExactly
  CanBeConverted
  AdmittedIsPlayable
  TagsAgree
CHECK_DEADLOCK FALSE
