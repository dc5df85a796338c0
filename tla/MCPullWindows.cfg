SPECIFICATION Spec
CONSTANTS
  BlockBytes = 8
  MsBlock = 3
  MsSamples = 3
  Formats <- SmallFormats
  Totals <- SmallTotals
  Limits <- SmallLimits
INVARIANTS
  CursorIsAhead
  RouteReadsFormat
PROPERTIES
  ImplementsDelivery
CHECK_DEADLOCK FALSE
