SPECIFICATION IndexSpec
CONSTANTS
  Sessions = {s1, s2}
  Loaders = {tool, api}
  ThinLoaders = {tool}
  Window = 1
  MaxObs = 2
  MaxRequeues = 1
  MaxLoads = 1
  MaxCrashes = 1
INVARIANT IndexTypeOK
INVARIANT SearchSound
INVARIANT MemoryKept
CHECK_DEADLOCK FALSE
