CONSTANTS
  MaxKeys = 6
  MayFail = TRUE
SPECIFICATION FairSessionSpec
INVARIANTS OneSession OffMeansOff
PROPERTY SessionFollowsSwitch
