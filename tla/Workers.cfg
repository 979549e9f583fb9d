SPECIFICATION Spec
CONSTANTS
  Observations = {x1, x2}
  Hosts = {"daemon", "mcp"}
  OutboxBatch = 2
  MaxRetry = 1
  MaxSqlFaults = 1
  MaxLives = 1
  MaxRestarts = 3
  Clients = {c1, c2}
  Conns = {k1, k2}
  NoConn = NoConn
  NoReply = NoReply
  MaxCalls = 3
  MaxPoolCancels = 1
  MaxPoolCrashes = 1
  Topics = {a1, a2}
  Shapes <- Shapes1
  Nothing = Nothing
  IndexCap = 1
  MaxCandidates = 1
  PageSize = 1
  ResurfaceAt = 1
  Bedrock = 1
  IdleTicks = 1
  MaxObserved = 2
  MaxNow = 1
  MaxMishaps = 0
  QueueSize = 2
  BatchSize = 2
  MaxEntries = 4
  MaxLogFaults = 2
  MaxLinks = 2
  MaxAdapters = 1
  MaxRespawn = 1
  Events = {e1, e2}
  MaxAttempts = 2
  BatchLimit = 2
  MaxOutboxMishaps = 1
  MaxFaults = 1
  Callers = {c1, c2, c3}
  Threshold = 2
  MaxFailures = 4
  MaxCancels = 1
PROPERTY Progress
CHECK_DEADLOCK FALSE
