SPECIFICATION SceneSpec
CONSTANTS
  Scenes = {"downgrade"}
  u1 = u1
  u2 = u2
  u3 = u3
  e1 = e1
  e2 = e2
  e3 = e3
  e4 = e4
  i1 = i1
  n1 = n1
  User = {u1, u2, u3}
  Workspace = {1}
  Invitation = {i1, i2}
  Email = {e1, e2, e3}
  Name = {n1}
  Txn = {t1}
  NoTxn = NoTxn
  Requests <- AllRequests
  OwnedLimit = 1
  PendingLimit = 2
PROPERTY AdminRevokesOnlyMemberInvitations
