SPECIFICATION Spec
CONSTANTS
  HardTimers = {h1}
  SoftTimers = {s1, s2}
  NoTimer = none
  TICKS = 8
  Times = {1, 2}
  MaxLate = 2
  MaxCalls = 3
SYMMETRY Symmetric
VIEW View
INVARIANTS
  TypeOK
  ListsInOrder
  HardTimersInTime
  ThreadWakesInTime
  ListedIsActivated
PROPERTIES
  NeverEarly
  FirstStartedFirst
