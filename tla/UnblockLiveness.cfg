SPECIFICATION FairSpec
CONSTANTS
  Key = {k1, k2}
  NoKey = NoKey
  Attempt = {}
  Caller = {c1}
  Worker = {w1}
  Limit = 1
  MaxGen = 0
  MaxReq = 2
  Batch = 1
PROPERTY PendingEnds
CHECK_DEADLOCK FALSE
