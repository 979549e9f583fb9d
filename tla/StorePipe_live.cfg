SPECIFICATION FairSpec
CONSTANTS
  Sessions = {s1}
  Flushers = {f1}
  Syncers = {}
  Stop = Stop
  NoWrite = NoWrite
  BatchSize = 2
  MaxWrites = 3
  MaxRequeues = 1
  MaxFaults = 0
  MaxRestarts = 0
PROPERTY StopReturns
PROPERTY EventuallyDurable
CHECK_DEADLOCK FALSE
