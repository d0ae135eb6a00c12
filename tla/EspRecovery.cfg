SPECIFICATION RecoverySpec
CONSTANTS
  Parts = 3
  Needed <- MCNeeded
  PartBlocks = 2
  Trials = 2
  MaxLosses = 1
  Old = Old
  New = New
  Bad = Bad
CHECK_DEADLOCK FALSE
INVARIANTS
  VerifiedMeansFlashed
PROPERTIES
  FlashedThroughStub
