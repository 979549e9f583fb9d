SPECIFICATION Spec
CONSTANTS
  Procs = {p1, p2}
  None = None
  MaxLags = 1
  MaxCrashes = 1
  Observations = {x1, x2}
  Hosts = {"daemon", "mcp"}
  OutboxBatch = 2
  MaxRetry = 1
  MaxSqlFaults = 1
  MaxLives = 2
  Interval = 4
  MaxTime = 14
  Clients = {c1, c2, c3}
  Conns = {k1, k2}
  NoConn = NoConn
  NoReply = NoReply
  MaxCalls = 4
  MaxPoolCancels = 1
  MaxPoolCrashes = 1
  Sessions = {s1, s2}
  FlushEvery = 2
  SessionsCap = 1
  MaxSteps = 3
  MaxStepFaults = 1
  Topics = {a1, a2}
  Shapes <- Shapes1
  Nothing = Nothing
  IndexCap = 1
  MaxCandidates = 1
  PageSize = 1
  ResurfaceAt = 1
  Bedrock = 1
  IdleTicks = 1
  MaxObserved = 2
  MaxNow = 1
  MaxMishaps = 1
  Warners = {w1, w2}
  Decisions = {w1}
  Configs <- Configs1
  HitsCap = 1
  LoopsCap = 1
  Requests = {r1, r2}
  StreamLimit = 1
  CaptureChunks = 2
  MaxWriteFaults = 1
  Calls = {c1, c2, c3}
  MaxTotal = 2
  MaxMemory = 1
  MaxPending = 2
  Events = {e1, e2}
  MaxAttempts = 2
  BatchLimit = 2
  MaxOutboxMishaps = 2
  MaxFaults = 1
  MaxLinks = 2
  MaxAdapters = 2
  MaxRespawn = 1
  Tunnels = {t1, t2}
  MaxTunnels = 1
  MaxChunks = 3
  BufLimit = 2
  MaxRestarts = 3
  QueueSize = 2
  BatchSize = 2
  MaxEntries = 4
  MaxLogFaults = 2
  Callers = {c1, c2, c3}
  Threshold = 2
  MaxFailures = 4
  MaxCancels = 1
INVARIANT TypeOK
 
 
INVARIANT LossWindow
INVARIANT PoolSound
 
INVARIANT AnchorsKept
 
INVARIANT LogsSound
 
INVARIANT DispatchSound
INVARIANT OutboxSound
INVARIANT OneAdapter
 
INVARIANT StateMatchesCount
PROPERTY SettledIsFinal
PROPERTY FailedTrialReopens
CHECK_DEADLOCK FALSE
