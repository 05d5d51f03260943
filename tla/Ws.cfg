SPECIFICATION SceneSpec
CONSTANTS
  Scenes = {"ownership", "lifecycle", "governance", "creation", "invitations", "addresses"}
  u1 = u1
  u2 = u2
  u3 = u3
  e1 = e1
  e2 = e2
  e3 = e3
  e4 = e4
  i1 = i1
  n1 = n1
  User = {u1, u2, u3}
  Workspace = {1, 2, 3}
  Invitation = {i1, i2}
  Email = {e1, e2, e3, e4}
  Name = {n1, n2}
  Txn = {t1, t2, t3}
  NoTxn = NoTxn
  Requests <- AllRequests
  OwnedLimit = 2
  PendingLimit = 1
SYMMETRY TxnSymmetry
INVARIANTS TypeOK ActiveOwner CyclesAreMixed PendingInvitations
PROPERTIES PromotedIsActive AuthorityAtCommit CreateWithinLimit InvitationFinal AcceptanceAdmits
