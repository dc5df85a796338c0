SPECIFICATION BudgetSpec
CONSTANTS
  WordMax = 500
  MsBlock = 3
  MsSamples = 4
  Formats <- SmallFormats
  PayloadLengths <- SmallLengths
  DeclaredSizes <- SmallDeclared
  Durations <- SmallDurations
  DecodeRates <- SmallDecodeRates
  OutputCaps <- SmallOutputCaps
INVARIANTS
  DeliveryInBudget
  EstimateIsInTheData
  NothingIsLost
CHECK_DEADLOCK FALSE
