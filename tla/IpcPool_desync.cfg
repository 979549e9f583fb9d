SPECIFICATION PoolSpec
CONSTANTS
  Clients = {c1, c2}
  Conns = {k1}
  NoConn = NoConn
  NoReply = NoReply
  MaxCalls = 2
  MaxPoolCancels = 1
  MaxPoolCrashes = 0
INVARIANT OwnReply
CHECK_DEADLOCK FALSE
