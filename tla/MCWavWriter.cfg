SPECIFICATION FairSpec
CONSTANTS
  HeaderLen <- MCHeaderLen
  Marker = 2
  SizeMax = 11
  WordMax = 21
  Specs <- MCSpecs
  CopyScratch = 2
  ConvScratch = 5
  MaxCall = 6
  MaxStale = 5
INVARIANTS
  RelocationKeepsPayload
  PromotionCanRead
  PromotedExactlyWhenNeeded
  FinalizedFileIsComplete
  OnlyIoErrorsAreTerminal
  NoLateRefusal
PROPERTIES
  ImplementsContract
  EveryCallReturns
CHECK_DEADLOCK FALSE
