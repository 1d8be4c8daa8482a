SPECIFICATION Spec
CONSTANTS
  MemSize = 144
  Requests = {8, 17, 50}
INVARIANTS HeapTiled HolesPlugged LowestFreeKnown UsedIsSum FailsOnlyWhenFull
PROPERTY RegionsKept
