SPECIFICATION Spec
CONSTANTS
  Sessions = {s1, s2}
  Flushers = {f1}
  Syncers = {}
  Stop = Stop
  NoWrite = NoWrite
  BatchSize = 2
  MaxWrites = 2
  MaxRequeues = 0
  MaxFaults = 0
  MaxRestarts = 0
SYMMETRY Symmetry
INVARIANT EvictedIsDurable
CHECK_DEADLOCK FALSE
