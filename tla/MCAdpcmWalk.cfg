SPECIFICATION Spec
CONSTANTS
  WordMax = 60
  MsBlock = 65
  MsSamples = 320
  Aligns <- SmallAligns
  Lengths <- SmallLengths
  Declared <- SmallDeclared
  Slack <- SmallSlack
INVARIANTS
  BlockMatchesEstimate
  WalkDeliversTheTotal
CHECK_DEADLOCK FALSE
