SPECIFICATION IndexSpec
CONSTANTS
  Sessions = {s1}
  Loaders = {api}
  ThinLoaders = {}
  Window = 1
  MaxObs = 2
  MaxRequeues = 0
  MaxLoads = 0
  MaxCrashes = 0
INVARIANT UnembeddedIsPersisted
CHECK_DEADLOCK FALSE
