SPECIFICATION Spec
CONSTANTS
  Sessions = {s1, s2}
  Flushers = {f1}
  Syncers = {c1}
  Stop = Stop
  NoWrite = NoWrite
  BatchSize = 2
  MaxWrites = 2
  MaxRequeues = 1
  MaxFaults = 1
  MaxRestarts = 1
SYMMETRY Symmetry
INVARIANT TypeOK
INVARIANT NoSilentLoss
INVARIANT PipeInv
INVARIANT PromisesKept
PROPERTY ImplementsWriteBehind
CHECK_DEADLOCK FALSE
