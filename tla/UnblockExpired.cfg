SPECIFICATION Spec
CONSTANTS
  Key = {k1}
  NoKey = NoKey
  Attempt = {a1}
  Caller = {c1}
  Worker = {w1}
  Limit = 1
  MaxGen = 2
  MaxReq = 2
  Batch = 2
PROPERTY SavedIsRetried
CHECK_DEADLOCK FALSE
