SPECIFICATION LifeSpec
CONSTANTS
  Observations = {x1}
  Hosts = {"daemon"}
  OutboxBatch = 1
  MaxRetry = 1
  MaxSqlFaults = 0
  MaxLives = 1
INVARIANT TerminationFlushes
CHECK_DEADLOCK FALSE
