SPECIFICATION SceneSpec
CONSTANTS
  Scenes = {"selfDeletion"}
  u1 = u1
  u2 = u2
  u3 = u3
  s1 = s1
  s2 = s2
  s3 = s3
  l1 = l1
  User = {u1, u2, u3}
  Session = {s1, s2, s3}
  Link = {l1}
  Txn = {t1, t2}
  NoTxn = NoTxn
  Requests <- AllRequests
  MaxVersion = 2
SYMMETRY TxnSymmetry
INVARIANT LastAdministrator
CHECK_DEADLOCK FALSE
