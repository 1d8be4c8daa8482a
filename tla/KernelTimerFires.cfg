SPECIFICATION FairSpec
CONSTANTS
  HardTimers = {h1}
  SoftTimers = {s1}
  NoTimer = none
  TICKS = 8
  Times = {1, 2}
  MaxLate = 2
  MaxCalls = 2
PROPERTIES
  KeepsFiring
