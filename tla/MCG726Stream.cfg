SPECIFICATION FairSpec
CONSTANTS
  Scratch = 2
  SliceSamples = 3
  Payloads <- SmallPayloads
  Limits <- SmallLimits
  Caps <- SmallCaps
INVARIANTS
  CodesAreTheStream
  AdmittedIsDecoded
PROPERTIES
  EveryPushReturns
CHECK_DEADLOCK FALSE
