CONSTANTS
  PAGE_MAX = 3
  MaxInputs = 2
SPECIFICATION FairSpec
PROPERTY PageOnItsBackground
