SPECIFICATION FairSpec
CONSTANTS
  Sessions = {s1}
  Flushers = {}
  Syncers = {}
  Stop = Stop
  NoWrite = NoWrite
  BatchSize = 2
  MaxWrites = 2
  MaxRequeues = 0
  MaxFaults = 1
  MaxRestarts = 0
PROPERTY StopReturns
CHECK_DEADLOCK FALSE
