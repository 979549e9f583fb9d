SPECIFICATION Spec
CONSTANTS
  Sessions = {s1, s2}
  Flushers = {}
  Syncers = {}
  Stop = Stop
  NoWrite = NoWrite
  BatchSize = 2
  MaxWrites = 4
  MaxRequeues = 1
  MaxFaults = 2
  MaxRestarts = 0
SYMMETRY Symmetry
INVARIANT NewestWins
CHECK_DEADLOCK FALSE
