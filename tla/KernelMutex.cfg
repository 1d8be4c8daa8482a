SPECIFICATION Spec
CONSTANTS
  low = low
  mid = mid
  also = also
  high = high
  Threads = {low, mid, also, high}
  Mutexes = {m1, m2}
  NoThread = none
  NoMutex = none
  InitPriority <- MCPriority
  MaxHold = 2
VIEW View
SYMMETRY Symmetric
CHECK_DEADLOCK FALSE
INVARIANTS OwnerInherits UrgentFirst NobodyForgotten TakeTellsTheTruth PriorityGivenBack
PROPERTY LockKept
