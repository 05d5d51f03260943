SPECIFICATION Spec
CONSTANTS
  Key = {k1}
  NoKey = NoKey
  Attempt = {a1}
  Caller = {c1}
  Worker = {w1, w2}
  Limit = 1
  MaxGen = 2
  MaxReq = 2
  Batch = 2
SYMMETRY Symmetric
INVARIANTS ResetAtMostOnce CompletedIsDone OwnRequestUnblocks
PROPERTY NewerBlockSurvives
CHECK_DEADLOCK FALSE
