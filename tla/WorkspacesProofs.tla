-------------------------- MODULE WorkspacesProofs --------------------------
(***************************************************************************)
(* TypeOK, ActiveOwner, CyclesAreMixed, the authority a transaction        *)
(* commits with and the limits it keeps, of Workspaces, for every number   *)
(* of accounts, workspaces, invitations and concurrent transactions.       *)
(***************************************************************************)
EXTENDS Workspaces, FiniteSetTheorems, WellFoundedInduction, TLAPS

\* The request of an idle transaction is a request.
LEMMA IdleType == Idle \in Request
  BY RequestAssumption DEF Idle

\* COMMIT and ROLLBACK keep the types of the transactions' local state.
LEMMA ReleaseType ==
  ASSUME TypeOK, NEW t \in Txn, Release(t)
  PROVE  /\ pc' \in [Txn -> Stage] /\ req' \in [Txn -> Request]
         /\ actorRole' \in [Txn -> Roles] /\ todo' \in [Txn -> SUBSET Workspace]
         /\ asOf' \in [Txn -> SUBSET Invitation]
         /\ wsLock' \in [Workspace -> Txn \cup {NoTxn}]
         /\ userLock' \in [Txn -> {"none", "X", "N", "S"}]
         /\ adminLock' \in Txn \cup {NoTxn}
  <1>1. pc' \in [Txn -> Stage]
    BY DEF TypeOK, Release, EndOf, Goto, Stage
  <1>2. req' \in [Txn -> Request]
    BY IdleType DEF TypeOK, Release, EndOf
  <1>3. actorRole' \in [Txn -> Roles] /\ userLock' \in [Txn -> {"none", "X", "N", "S"}]
    BY DEF TypeOK, Release, EndOf, Roles
  <1>4. todo' \in [Txn -> SUBSET Workspace] /\ asOf' \in [Txn -> SUBSET Invitation]
    BY DEF TypeOK, Release, EndOf
  <1>5. wsLock' \in [Workspace -> Txn \cup {NoTxn}] /\ adminLock' \in Txn \cup {NoTxn}
    BY DEF TypeOK, Release
  <1>6. QED
    BY <1>1, <1>2, <1>3, <1>4, <1>5

\* A stage that follows another is a stage.
LEMMA NextStageType ==
  ASSUME NEW r \in Request, NEW stage \in {"idle", "lockAdmin", "lockWs", "lockUser"}
  PROVE  NextStage(r, stage) \in Stage
  BY DEF NextStage, Stage, Request, WorkspaceOps, Lifecycle, AccountOps

\* Granting a workspace's row to a transaction keeps the type of wsLock.
LEMMA GrantType ==
  ASSUME TypeOK, NEW t \in Txn, NEW w, wsLock' = [wsLock EXCEPT ![w] = t]
  PROVE  wsLock' \in [Workspace -> Txn \cup {NoTxn}]
  BY DEF TypeOK

\* An invitation row keeps its type when its state changes.
LEMMA InviteStateType ==
  ASSUME NEW r \in Invite, NEW s \in {"unissued", "pending", "accepted", "revoked"}
  PROVE  [r EXCEPT !.state = s] \in Invite
  BY DEF Invite

\* A transaction serves one of the requests made.
RequestsServed == \A t \in Txn : pc[t] # "idle" => req[t] \in Requests

\* The types are invariant.
THEOREM TypeCorrect == Spec => [](TypeOK /\ RequestsServed)
  <1>1. Init => TypeOK /\ RequestsServed
    <2> SUFFICES ASSUME Init PROVE TypeOK /\ RequestsServed
      OBVIOUS
    <2>1. NoInvitation \in Invite
      BY IdleType DEF NoInvitation, Invite, Request
    <2>2. QED
      BY <2>1, IdleType DEF Init, EmptyTables, NoTransaction, TypeOK, Stage, Roles,
           RequestsServed
  <1>2. TypeOK /\ RequestsServed /\ [Next]_vars => TypeOK'
    <2> SUFFICES ASSUME TypeOK, RequestsServed, [Next]_vars PROVE TypeOK'
      OBVIOUS
    <2>1. ASSUME NEW t \in Txn, Refuse(t) PROVE TypeOK'
      BY <2>1, ReleaseType DEF TypeOK, Refuse, data
    <2>2. ASSUME NEW t \in Txn, NEW r \in Requests, Begin(t, r) PROVE TypeOK'
      <3>1. r \in Request
        BY RequestAssumption
      <3>2. NextStage(r, "idle") \in Stage
        BY <3>1, NextStageType
      <3>3. QED
        BY <2>2, <3>1, <3>2 DEF TypeOK, Begin, Goto, data
    <2>3. ASSUME NEW t \in Txn, Authorize(t) PROVE TypeOK'
      <3>1. CASE Refuse(t)
        BY <3>1, <2>1
      <3>2. CASE ~Refuse(t)
        <4>1. NextStage(req[t], "lockWs") \in Stage
          BY NextStageType DEF TypeOK
        <4>2. req[t].ws \in Workspace /\ req[t].actor \in User
          BY DEF TypeOK, Request
        <4>3. wsLock' \in [Workspace -> Txn \cup {NoTxn}]
          BY <2>3, <3>2, GrantType DEF Authorize
        <4>4. member[req[t].ws][req[t].actor] \in Roles
          BY <4>2 DEF TypeOK
        <4>5. actorRole' \in [Txn -> Roles]
          BY <2>3, <3>2, <4>4 DEF Authorize, TypeOK
        <4>6. QED
          BY <2>3, <3>2, <4>1, <4>3, <4>5 DEF Authorize, TypeOK, Goto, data
      <3>3. QED
        BY <3>1, <3>2
    <2>4. ASSUME NEW t \in Txn, LockUser(t) PROVE TypeOK'
      <3>1. CASE Refuse(t)
        BY <3>1, <2>1
      <3>2. CASE ~Refuse(t)
        <4>1. NextStage(req[t], "lockUser") \in Stage
          BY NextStageType DEF TypeOK
        <4>2. LockMode(req[t].op) \in {"X", "N", "S"}
          BY DEF LockMode
        <4>3. QED
          BY <2>4, <3>2, <4>1, <4>2 DEF LockUser, TypeOK, Goto, data
      <3>3. QED
        BY <3>1, <3>2
    <2>5. ASSUME NEW t \in Txn, LockAdministration(t) PROVE TypeOK'
      <3>1. NextStage(req[t], "lockAdmin") \in Stage
        BY NextStageType DEF TypeOK
      <3>2. QED
        BY <2>5, <3>1 DEF LockAdministration, TypeOK, Goto, data
    <2>6. ASSUME NEW t \in Txn, AcceptLock(t) PROVE TypeOK'
      <3>1. CASE Refuse(t)
        BY <3>1, <2>1
      <3>2. CASE ~Refuse(t)
        <4>1. NextStage(req[t], "lockWs") \in Stage
          BY NextStageType DEF TypeOK
        <4>2. wsLock' \in [Workspace -> Txn \cup {NoTxn}]
          BY <2>6, <3>2, GrantType DEF AcceptLock
        <4>3. QED
          BY <2>6, <3>2, <4>1, <4>2 DEF AcceptLock, TypeOK, Goto, data
      <3>3. QED
        BY <3>1, <3>2
    <2>7. ASSUME NEW t \in Txn,
                 CreateCheck(t) \/ InviteCheck(t) \/ AcceptCheck(t) \/ ChangeCheck(t)
                   \/ ChangeDenied(t) \/ RefuseLastOwner(t)
          PROVE  TypeOK'
      <3>1. CASE Refuse(t)
        BY <3>1, <2>1
      <3>2. CASE ~Refuse(t)
        BY <2>7, <3>2 DEF CreateCheck, InviteCheck, AcceptCheck, ChangeCheck, ChangeDenied,
             RefuseLastOwner, TypeOK, Goto, Stage, data
      <3>3. QED
        BY <3>1, <3>2
    <2>8. ASSUME NEW t \in Txn, CreateCommit(t) PROVE TypeOK'
      <3>1. CASE Refuse(t)
        BY <3>1, <2>1
      <3>2. CASE ~Refuse(t)
        <4>1. member' \in [Workspace -> [User -> Roles]]
          <5>1. req[t].actor \in User /\ "owner" \in Roles
            BY DEF TypeOK, Request, Roles, Role
          <5>2. PICK w \in Workspace : member' = [member EXCEPT ![w][req[t].actor] = "owner"]
            BY <2>8, <3>2 DEF CreateCommit
          <5>3. QED
            BY <5>1, <5>2 DEF TypeOK
        <4>2. live' \subseteq Workspace /\ name' \in [Workspace -> Name]
          BY <2>8, <3>2 DEF CreateCommit, TypeOK
        <4>3. QED
          BY <2>8, <3>2, <4>1, <4>2, ReleaseType DEF CreateCommit, TypeOK
      <3>3. QED
        BY <3>1, <3>2
    <2>9. ASSUME NEW t \in Txn, RenameCommit(t) PROVE TypeOK'
      BY <2>9, ReleaseType DEF RenameCommit, TypeOK
    <2>10. ASSUME NEW t \in Txn, InviteCommit(t) PROVE TypeOK'
      <3>1. CASE Refuse(t)
        BY <3>1, <2>1
      <3>2. CASE ~Refuse(t)
        <4>1. req[t].role \in {"admin", "member"} /\ req[t] \in Request
          BY <2>10, RequestAssumption DEF InviteCommit, At, RequestsServed, TypeOK
        <4>2. invite' \in [Invitation -> Invite]
          <5>1. PICK new \in Invitation :
                  invite' = [i \in Invitation |->
                    IF i = new THEN [state |-> "pending", ws |-> req[t].ws, email |-> req[t].email,
                                     role |-> req[t].role, expired |-> FALSE]
                    ELSE IF i \in Reissued(req[t]) THEN [invite[i] EXCEPT !.state = "revoked"]
                    ELSE invite[i]]
            BY <2>10, <3>2 DEF InviteCommit, Unissued
          <5>2. [state |-> "pending", ws |-> req[t].ws, email |-> req[t].email,
                 role |-> req[t].role, expired |-> FALSE] \in Invite
            BY <4>1 DEF Invite, Request
          <5>3. \A i \in Invitation : invite[i] \in Invite /\ [invite[i] EXCEPT !.state = "revoked"] \in Invite
            BY InviteStateType DEF TypeOK
          <5>4. QED
            BY <5>1, <5>2, <5>3
        <4>3. QED
          BY <2>10, <3>2, <4>2, ReleaseType DEF InviteCommit, TypeOK
      <3>3. QED
        BY <3>1, <3>2
    <2>11. ASSUME NEW t \in Txn, RevokeCommit(t) PROVE TypeOK'
      <3>1. CASE Refuse(t)
        BY <3>1, <2>1
      <3>2. CASE ~Refuse(t)
        <4>1. invite' \in [Invitation -> Invite]
          <5>1. invite' = [invite EXCEPT ![req[t].inv].state = "revoked"] /\ req[t].inv \in Invitation
            BY <2>11, <3>2 DEF RevokeCommit, TypeOK, Request
          <5>2. [invite[req[t].inv] EXCEPT !.state = "revoked"] \in Invite
            BY <5>1, InviteStateType DEF TypeOK
          <5>3. invite' = [invite EXCEPT ![req[t].inv] = [invite[req[t].inv] EXCEPT !.state = "revoked"]]
            BY <5>1
          <5>4. QED
            BY <5>2, <5>3 DEF TypeOK
        <4>2. QED
          BY <2>11, <3>2, <4>1, ReleaseType DEF RevokeCommit, TypeOK
      <3>3. QED
        BY <3>1, <3>2
    <2>12. ASSUME NEW t \in Txn, AcceptCommit(t) PROVE TypeOK'
      <3>1. /\ invite[req[t].inv] \in Invite /\ req[t].actor \in User
            /\ invite[req[t].inv].role \in Roles /\ invite[req[t].inv].ws \in Workspace
        BY DEF TypeOK, Request, Invite, Roles, Role
      <3>2. Joined(invite[req[t].inv].ws, req[t].actor, invite[req[t].inv].role) \in Roles
        BY <3>1 DEF TypeOK, Joined
      <3>3. member' \in [Workspace -> [User -> Roles]]
        BY <2>12, <3>2 DEF AcceptCommit, TypeOK
      <3>4. invite' \in [Invitation -> Invite]
        BY <2>12 DEF AcceptCommit, TypeOK, Invite
      <3>5. QED
        BY <2>12, <3>3, <3>4, ReleaseType DEF AcceptCommit, TypeOK
    <2>13. ASSUME NEW t \in Txn, ChangeCommit(t) PROVE TypeOK'
      BY <2>13, ReleaseType DEF ChangeCommit, TypeOK, Request
    <2>14. ASSUME NEW t \in Txn, OpenTrigger(t) PROVE TypeOK'
      BY <2>14 DEF OpenTrigger, TypeOK, Owned, Goto, Stage, data
    <2>15. ASSUME NEW t \in Txn, NEW w \in Workspace, VisitOwned(t, w) PROVE TypeOK'
      <3>1. CASE Refuse(t)
        BY <3>1, <2>1
      <3>2. CASE ~Refuse(t)
        <4>1. wsLock' \in [Workspace -> Txn \cup {NoTxn}]
          BY <2>15, <3>2, GrantType DEF VisitOwned
        <4>2. QED
          BY <2>15, <3>2, <4>1 DEF VisitOwned, TypeOK, data
      <3>3. QED
        BY <3>1, <3>2
    <2>16. ASSUME NEW t \in Txn, CommitStatus(t) PROVE TypeOK'
      BY <2>16, ReleaseType DEF CommitStatus, TypeOK, NewStatus
    <2>17. ASSUME NEW t \in Txn, DeadlockVictim(t) \/ Fail(t) PROVE TypeOK'
      BY <2>17, <2>1 DEF DeadlockVictim, Fail
    <2>18. ASSUME NEW i \in Invitation, Expire(i) PROVE TypeOK'
      BY <2>18 DEF Expire, TypeOK, Invite, ctl
    <2>19. ASSUME NEW u \in User, NEW e \in Email, ChangeEmail(u, e) PROVE TypeOK'
      BY <2>19 DEF ChangeEmail, TypeOK, ctl
    <2>20. CASE UNCHANGED vars
      BY <2>20 DEF TypeOK, vars, data, ctl
    <2>21. QED
      BY <2>2, <2>3, <2>4, <2>5, <2>6, <2>7, <2>8, <2>9, <2>10, <2>11, <2>12, <2>13, <2>14,
         <2>15, <2>16, <2>17, <2>18, <2>19, <2>20 DEF Next, Step
  <1>3. TypeOK /\ RequestsServed /\ [Next]_vars => RequestsServed'
    <2> SUFFICES ASSUME TypeOK, RequestsServed, [Next]_vars, NEW s \in Txn, pc'[s] # "idle"
                 PROVE  req'[s] \in Requests
      BY DEF RequestsServed
    <2>1. ASSUME NEW t \in Txn, Release(t) PROVE req'[s] \in Requests
      BY <2>1 DEF Release, EndOf, Goto, TypeOK, RequestsServed
    <2>2. ASSUME NEW t \in Txn, NEW r \in Requests, Begin(t, r) PROVE req'[s] \in Requests
      BY <2>2 DEF Begin, Goto, TypeOK, RequestsServed
    <2>3. ASSUME NEW t \in Txn, pc[t] # "idle", req' = req, pc' = [pc EXCEPT ![t] = pc'[t]]
          PROVE  req'[s] \in Requests
      BY <2>3 DEF TypeOK, RequestsServed
    <2>4. ASSUME UNCHANGED <<pc, req>> PROVE req'[s] \in Requests
      BY <2>4 DEF RequestsServed
    <2>5. ASSUME NEW t \in Txn, Step(t) PROVE req'[s] \in Requests
      <3>1. CASE Release(t)
        BY <3>1, <2>1
      <3>2. CASE ~Release(t)
        <4>1. pc[t] # "idle" /\ req' = req /\ (pc' = pc \/ \E stage : Goto(t, stage))
          BY <2>5, <3>2 DEF Step, Refuse, Authorize, LockUser, LockAdministration, CreateCheck,
             CreateCommit, RenameCommit, InviteCheck, InviteCommit, RevokeCommit, AcceptLock,
             AcceptCheck, AcceptCommit, ChangeCheck, ChangeDenied, RefuseLastOwner,
             ChangeCommit, OpenTrigger, CommitStatus, VisitOwned, At
        <4>2. QED
          BY <4>1, <2>3 DEF Goto, TypeOK, RequestsServed
      <3>3. QED
        BY <3>1, <3>2
    <2>6. QED
      BY <2>1, <2>2, <2>4, <2>5 DEF Next, DeadlockVictim, Fail, Refuse, Expire, ChangeEmail,
         vars, ctl
  <1>4. QED
    BY <1>1, <1>2, <1>3, PTL DEF Spec

-----------------------------------------------------------------------------
(* ActiveOwner is not inductive.  What makes it so: the locks a transaction *)
(* holds at each stage, that these locks exclude one another, and what a   *)
(* transaction has established about the rows it has locked.               *)

UserLockExclusion ==
  \A s, t \in Txn : s # t /\ req[s].user = req[t].user /\ userLock[s] \in {"X", "N"}
                      => userLock[t] = "none"

HeldLocks(t) ==
  /\ pc[t] = "idle" => userLock[t] = "none"
  /\ req[t].op = "change" /\ pc[t] # "idle" => req[t].ws \in live
  /\ req[t].op = "change" /\ pc[t] \in {"lockUser", "check", "commit"} => wsLock[req[t].ws] = t
  /\ req[t].op = "change" /\ pc[t] \in {"check", "commit"} /\ req[t].role # "none" =>
       userLock[t] = "S" /\ status[req[t].user] = "active"
  /\ req[t].op = "create" /\ pc[t] \in {"check", "commit"} =>
       userLock[t] = "X" /\ status[req[t].user] = "active"
  /\ req[t].op \in Lifecycle /\ pc[t] \in {"update", "trigger"} => userLock[t] \in {"X", "N"}

\* An owner whom t takes away leaves another active owner in the workspace.
Established(t) ==
  /\ At(t, "commit", {"change"}) /\ LosesOwner(req[t]) =>
       OtherActiveOwner(req[t].ws, req[t].user)
  /\ At(t, "trigger", Lifecycle \ {"activate"}) =>
       \A w \in Owned(req[t].user) :
          w \in todo[t] \/ (wsLock[w] = t /\ OtherActiveOwner(w, req[t].user))

\* A workspace that does not exist has no owners.
Unborn == \A w \in Workspace \ live, u \in User : member[w][u] # "owner"

OwnerInv ==
  /\ TypeOK /\ RequestsServed /\ UserLockExclusion /\ Unborn /\ ActiveOwner
  /\ \A t \in Txn : HeldLocks(t) /\ Established(t)

\* The steps of a transaction.
Moves(s) == Step(s) \/ Refuse(s) \/ \E r \in Requests : Begin(s, r)

LEMMA NextMoves ==
  ASSUME Next
  PROVE  \/ \E s \in Txn : Moves(s)
         \/ UNCHANGED <<status, live, member, ctl>>
  BY DEF Next, Moves, DeadlockVictim, Fail, Expire, ChangeEmail

\* A step of s touches neither another transaction's local state nor its locks.
LEMMA OthersUntouched ==
  ASSUME TypeOK, NEW s \in Txn, NEW t \in Txn, s # t, Moves(s)
  PROVE  /\ pc'[t] = pc[t] /\ req'[t] = req[t] /\ todo'[t] = todo[t]
         /\ userLock'[t] = userLock[t]
         /\ \A w \in Workspace : wsLock[w] = t => wsLock'[w] = t
  <1> USE DEF TypeOK
  <1>1. CASE Release(s)
    BY <1>1 DEF Release, EndOf, Goto
  <1>2. ASSUME NEW r \in Requests, Begin(s, r)
        PROVE  /\ pc'[t] = pc[t] /\ req'[t] = req[t] /\ todo'[t] = todo[t]
               /\ userLock'[t] = userLock[t] /\ wsLock' = wsLock
    BY <1>2 DEF Begin, Goto
  <1>3. CASE Step(s) /\ ~Release(s)
    <2>1. /\ req' = req
          /\ pc' = pc \/ \E stage : Goto(s, stage)
          /\ todo' = todo \/ \E S : todo' = [todo EXCEPT ![s] = S]
          /\ userLock' = userLock \/ \E m : userLock' = [userLock EXCEPT ![s] = m]
          /\ wsLock' = wsLock \/ \E w : WsFree(w) /\ wsLock' = [wsLock EXCEPT ![w] = s]
      BY <1>3 DEF Step, Refuse, Authorize, LockUser, LockAdministration, CreateCheck,
         CreateCommit, RenameCommit, InviteCheck, InviteCommit, RevokeCommit, AcceptLock,
         AcceptCheck, AcceptCommit, ChangeCheck, ChangeDenied, RefuseLastOwner,
         ChangeCommit, OpenTrigger, CommitStatus, VisitOwned
    <2>2. pc'[t] = pc[t] /\ todo'[t] = todo[t] /\ userLock'[t] = userLock[t]
      BY <2>1 DEF Goto
    <2>3. \A w \in Workspace : wsLock[w] = t => wsLock'[w] = t
      BY <2>1, SetsAssumption DEF WsFree
    <2>4. QED
      BY <2>1, <2>2, <2>3
  <1>4. QED
    BY <1>1, <1>2, <1>3 DEF Moves, Refuse

\* Only four steps write accounts, workspaces or memberships.
CreatesWorkspace(s, w) ==
  /\ At(s, "commit", {"create"})
  /\ w \in Workspace \ live /\ live' = live \cup {w}
  /\ member' = [member EXCEPT ![w][req[s].actor] = "owner"]
  /\ UNCHANGED status

LEMMA WritingSteps ==
  ASSUME NEW s \in Txn, Moves(s)
  PROVE  \/ UNCHANGED <<status, live, member>>
         \/ \E w \in Workspace : CreatesWorkspace(s, w)
         \/ AcceptCommit(s) \/ ChangeCommit(s) \/ CommitStatus(s)
  BY DEF Moves, Step, Refuse, Begin, Authorize, LockUser, LockAdministration, CreateCheck,
     CreateCommit, RenameCommit, InviteCheck, InviteCommit, RevokeCommit, AcceptLock,
     AcceptCheck, ChangeCheck, ChangeDenied, RefuseLastOwner, OpenTrigger, VisitOwned, data,
     CreatesWorkspace

\* An acceptance makes nobody an owner and unmakes none.
LEMMA AcceptKeepsOwners ==
  ASSUME TypeOK, NEW s \in Txn, AcceptCommit(s), NEW w \in Workspace, NEW u \in User
  PROVE  member'[w][u] = "owner" <=> member[w][u] = "owner"
  <1>1. /\ invite[req[s].inv] \in Invite /\ req[s].actor \in User
    BY DEF TypeOK, Request
  <1>2. invite[req[s].inv].role # "owner" /\ invite[req[s].inv].ws \in Workspace
    BY <1>1 DEF Invite
  <1>3. QED
    BY <1>1, <1>2 DEF AcceptCommit, Joined, TypeOK

\* The row lock of a workspace protects its active owners from other
\* transactions, those that change the status of an account included.
LEMMA LockProtectsOwners ==
  ASSUME OwnerInv, NEW s \in Txn, Moves(s), NEW w \in live, wsLock[w] # s,
         NEW u \in User, OtherActiveOwner(w, u)
  PROVE  OtherActiveOwner(w, u)'
  <1>1. PICK v \in User : member[w][v] = "owner" /\ status[v] = "active" /\ v # u
    BY DEF OtherActiveOwner, ActiveOwners, Owners
  <1>2. SUFFICES member'[w][v] = "owner" /\ status'[v] = "active"
    BY <1>1 DEF OtherActiveOwner, ActiveOwners, Owners
  <1>3. w \in Workspace /\ TypeOK
    BY DEF OwnerInv, TypeOK
  <1>4. CASE UNCHANGED <<status, live, member>>
    BY <1>1, <1>4
  <1>5. CASE \E x \in Workspace : CreatesWorkspace(s, x)
    BY <1>1, <1>3, <1>5 DEF CreatesWorkspace, TypeOK
  <1>6. CASE AcceptCommit(s)
    BY <1>1, <1>3, <1>6, AcceptKeepsOwners DEF AcceptCommit
  <1>7. CASE ChangeCommit(s)
    <2>1. wsLock[req[s].ws] = s
      BY <1>7 DEF OwnerInv, HeldLocks, ChangeCommit, At
    <2>2. QED
      BY <1>1, <1>3, <1>7, <2>1 DEF ChangeCommit, TypeOK
  <1>8. CASE CommitStatus(s)
    <2>1. CASE req[s].op = "activate"
      BY <1>1, <1>3, <1>8, <2>1 DEF CommitStatus, NewStatus, TypeOK
    <2>2. CASE req[s].op # "activate"
      <3>1. At(s, "trigger", Lifecycle \ {"activate"}) /\ todo[s] = {}
        BY <1>8, <2>2 DEF CommitStatus, At
      <3>2. \A x \in Owned(req[s].user) : wsLock[x] = s
        BY <3>1 DEF OwnerInv, Established
      <3>3. v # req[s].user
        BY <3>2, <1>1 DEF Owned
      <3>4. QED
        BY <1>1, <1>3, <1>8, <3>3 DEF CommitStatus, TypeOK
    <2>3. QED
      BY <2>1, <2>2
  <1>9. QED
    BY <1>4, <1>5, <1>6, <1>7, <1>8, WritingSteps

\* A locked account keeps its status, and an exclusively locked one gains no
\* workspace.
LEMMA LockProtectsAccount ==
  ASSUME OwnerInv, NEW s \in Txn, NEW t \in Txn, s # t, Moves(s), userLock[t] # "none",
         NEW u \in User, u = req[t].user
  PROVE  /\ status'[u] = status[u]
         /\ userLock[t] \in {"X", "N"} => Owned(u)' \subseteq Owned(u)
  <1>1. TypeOK
    BY DEF OwnerInv
  <1>2. CASE UNCHANGED <<status, live, member>>
    BY <1>2 DEF Owned
  <1>3. CASE \E w \in Workspace : CreatesWorkspace(s, w)
    <2>1. PICK w \in Workspace : CreatesWorkspace(s, w)
      BY <1>3
    <2>2. userLock[s] = "X" /\ req[s].user = req[s].actor
      BY <2>1, RequestAssumption DEF CreatesWorkspace, At, OwnerInv, HeldLocks, RequestsServed
    <2>3. req[s].actor # u
      BY <2>2 DEF OwnerInv, UserLockExclusion
    <2>4. \A x \in Workspace : member'[x][u] = member[x][u]
      BY <2>1, <2>3, <1>1 DEF CreatesWorkspace, TypeOK
    <2>5. Owned(u)' \subseteq Owned(u)
      <3> SUFFICES ASSUME NEW x \in live', member'[x][u] = "owner" PROVE x \in Owned(u)
        BY DEF Owned
      <3>1. x \in Workspace /\ member[x][u] = "owner"
        BY <2>1, <2>4, <1>1 DEF CreatesWorkspace, TypeOK
      <3>2. CASE x = w
        BY <3>1, <3>2, <2>1 DEF CreatesWorkspace, OwnerInv, Unborn
      <3>3. CASE x # w
        BY <2>1, <3>1, <3>3 DEF CreatesWorkspace, Owned
      <3>4. QED
        BY <3>2, <3>3
    <2>6. QED
      BY <2>1, <2>5 DEF CreatesWorkspace
  <1>4. CASE AcceptCommit(s)
    <2>1. live' = live /\ status' = status /\ live \subseteq Workspace
      BY <1>1, <1>4 DEF AcceptCommit, TypeOK
    <2>2. \A x \in Workspace : member'[x][u] = "owner" <=> member[x][u] = "owner"
      BY <1>1, <1>4, AcceptKeepsOwners
    <2>3. QED
      BY <2>1, <2>2 DEF Owned
  <1>5. CASE ChangeCommit(s)
    <2>1. CASE req[s].role = "owner" /\ req[s].user = u
      <3>1. userLock[s] = "S"
        BY <1>5, <2>1 DEF ChangeCommit, At, OwnerInv, HeldLocks
      <3>2. userLock[t] \notin {"X", "N"}
        BY <3>1, <2>1 DEF OwnerInv, UserLockExclusion
      <3>3. QED
        BY <1>5, <3>2 DEF ChangeCommit
    <2>2. CASE ~(req[s].role = "owner" /\ req[s].user = u)
      BY <1>1, <1>5, <2>2 DEF ChangeCommit, Owned, TypeOK, Request
    <2>3. QED
      BY <2>1, <2>2
  <1>6. CASE CommitStatus(s)
    <2>1. userLock[s] \in {"X", "N"}
      BY <1>6 DEF CommitStatus, At, OwnerInv, HeldLocks
    <2>2. req[s].user # u
      BY <2>1 DEF OwnerInv, UserLockExclusion
    <2>3. QED
      BY <1>1, <1>6, <2>2 DEF CommitStatus, Owned, TypeOK
  <1>7. QED
    BY <1>2, <1>3, <1>4, <1>5, <1>6, WritingSteps

\* Row locks at or above SHARE exclude one another unless both are SHARE.
LEMMA LockModes ==
  \A m, n \in {"X", "N", "S"} : Compatible(m, n) => m = "S" /\ n = "S"
  BY DEF Compatible, CompatibleModes

\* Rows of "user" stay exclusively locked: a granted lock has no blockers.
LEMMA ExclusionPreserved ==
  ASSUME OwnerInv, NEW s \in Txn, Moves(s)
  PROVE  UserLockExclusion'
  <1>1. TypeOK
    BY DEF OwnerInv
  <1>2. \A t \in Txn \ {s} : req'[t] = req[t] /\ userLock'[t] = userLock[t]
    BY <1>1, OthersUntouched
  <1>3. SUFFICES \/ userLock'[s] = "none"
                 \/ /\ req'[s] = req[s]
                    /\ \/ userLock'[s] = userLock[s]
                       \/ UserBlockers(s, userLock'[s]) = {} /\ userLock'[s] \in {"X", "N", "S"}
    <2>1. CASE userLock'[s] = "none"
      BY <1>2, <2>1 DEF OwnerInv, UserLockExclusion
    <2>2. CASE req'[s] = req[s] /\ userLock'[s] = userLock[s]
      BY <1>2, <2>2 DEF OwnerInv, UserLockExclusion
    <2>3. CASE /\ req'[s] = req[s] /\ userLock'[s] \in {"X", "N", "S"}
               /\ UserBlockers(s, userLock'[s]) = {}
      <3>1. ASSUME NEW t \in Txn \ {s}, req[t].user = req[s].user, userLock[t] # "none"
            PROVE  userLock[t] = "S" /\ userLock'[s] = "S"
        <4>1. Compatible(userLock[t], userLock'[s])
          BY <2>3, <3>1 DEF UserBlockers
        <4>2. userLock[t] \in {"X", "N", "S"}
          BY <1>1, <3>1 DEF TypeOK
        <4>3. QED
          BY <2>3, <4>1, <4>2, LockModes
      <3>2. QED
        BY <1>2, <2>3, <3>1 DEF OwnerInv, UserLockExclusion
    <2>4. QED
      BY <2>1, <2>2, <2>3
  <1>4. CASE Release(s)
    BY <1>1, <1>4 DEF Release, EndOf, TypeOK
  <1>5. ASSUME NEW r \in Requests, Begin(s, r) PROVE userLock'[s] = "none"
    BY <1>5 DEF OwnerInv, HeldLocks, Begin
  <1>6. CASE LockUser(s) /\ ~Release(s)
    BY <1>1, <1>6 DEF LockUser, LockMode, TypeOK, Refuse
  <1>7. CASE Step(s) /\ ~LockUser(s) /\ ~Release(s)
    BY <1>7 DEF Step, Refuse, Authorize, LockAdministration, CreateCheck,
       CreateCommit, RenameCommit, InviteCheck, InviteCommit, RevokeCommit, AcceptLock,
       AcceptCheck, AcceptCommit, ChangeCheck, ChangeDenied, RefuseLastOwner,
       ChangeCommit, OpenTrigger, CommitStatus, VisitOwned
  <1>8. QED
    BY <1>4, <1>5, <1>6, <1>7 DEF Moves, Refuse

\* What a transaction holds and has established survives the others' steps.
LEMMA OthersPreserved ==
  ASSUME OwnerInv, NEW s \in Txn, NEW t \in Txn, s # t, Moves(s)
  PROVE  HeldLocks(t)' /\ Established(t)'
  <1>1. TypeOK /\ HeldLocks(t) /\ Established(t) /\ req[t] \in Request
    BY DEF OwnerInv, TypeOK
  <1>2. /\ pc'[t] = pc[t] /\ req'[t] = req[t] /\ todo'[t] = todo[t]
        /\ userLock'[t] = userLock[t]
        /\ \A w \in Workspace : wsLock[w] = t => wsLock'[w] = t
    BY <1>1, OthersUntouched
  <1>3. live \subseteq live' /\ live \subseteq Workspace /\ req[t].ws \in Workspace
    BY <1>1, WritingSteps DEF CreatesWorkspace, AcceptCommit, ChangeCommit, CommitStatus, TypeOK,
       Request
  <1>4. userLock[t] # "none" => status'[req[t].user] = status[req[t].user]
    BY <1>1, LockProtectsAccount DEF Request
  <1>5. HeldLocks(t)'
    BY <1>1, <1>2, <1>3, <1>4 DEF HeldLocks
  <1>6. \A w \in live : wsLock[w] = t /\ OtherActiveOwner(w, req[t].user)
          => OtherActiveOwner(w, req[t].user)'
    <2> SUFFICES ASSUME NEW w \in live, wsLock[w] = t, NEW u \in User, u = req[t].user,
                        OtherActiveOwner(w, u)
                 PROVE  OtherActiveOwner(w, u)'
      BY <1>1, <1>2 DEF Request, OtherActiveOwner, ActiveOwners, Owners
    <2>1. wsLock[w] # s
      OBVIOUS
    <2>2. QED
      BY <2>1, LockProtectsOwners
  <1>7. At(t, "commit", {"change"}) /\ LosesOwner(req[t])' =>
          LosesOwner(req[t]) /\ wsLock[req[t].ws] = t /\ req[t].ws \in live
    <2> SUFFICES ASSUME At(t, "commit", {"change"}), LosesOwner(req[t])'
                 PROVE  LosesOwner(req[t]) /\ wsLock[req[t].ws] = t /\ req[t].ws \in live
      OBVIOUS
    <2>1. wsLock[req[t].ws] = t /\ req[t].ws \in live
      BY <1>1 DEF HeldLocks, At
    <2>2. member'[req[t].ws][req[t].user] = "owner" => member[req[t].ws][req[t].user] = "owner"
      <3>1. CASE ChangeCommit(s)
        <4>1. wsLock[req[s].ws] = s
          BY <3>1 DEF OwnerInv, HeldLocks, ChangeCommit, At
        <4>2. QED
          BY <3>1, <4>1, <2>1, <1>1 DEF ChangeCommit, TypeOK, Request
      <3>2. CASE AcceptCommit(s)
        BY <3>2, <1>1, <1>3, AcceptKeepsOwners DEF Request
      <3>3. CASE \E w \in Workspace : CreatesWorkspace(s, w)
        BY <3>3, <2>1, <1>1 DEF CreatesWorkspace, TypeOK, Request
      <3>4. QED
        BY <3>1, <3>2, <3>3, WritingSteps DEF CommitStatus
    <2>3. QED
      BY <2>1, <2>2, <1>2 DEF LosesOwner
  <1>8. At(t, "trigger", Lifecycle \ {"activate"}) =>
          Owned(req[t].user)' \subseteq Owned(req[t].user)
    <2> SUFFICES ASSUME At(t, "trigger", Lifecycle \ {"activate"}), NEW u \in User, u = req[t].user
                 PROVE  Owned(u)' \subseteq Owned(u)
      BY <1>1, <1>2 DEF Request, Owned
    <2>1. userLock[t] \in {"X", "N"}
      BY <1>1 DEF HeldLocks, At
    <2>2. QED
      BY <2>1, LockProtectsAccount
  <1>9. Established(t)'
    <2>1. At(t, "commit", {"change"})' /\ LosesOwner(req[t])' =>
            OtherActiveOwner(req[t].ws, req[t].user)'
      BY <1>1, <1>2, <1>6, <1>7 DEF Established, At
    <2>2. ASSUME At(t, "trigger", Lifecycle \ {"activate"})', NEW w \in Owned(req[t].user)'
          PROVE  w \in todo'[t] \/ (wsLock'[w] = t /\ OtherActiveOwner(w, req[t].user)')
      <3>1. At(t, "trigger", Lifecycle \ {"activate"}) /\ w \in Owned(req[t].user)
        BY <2>2, <1>2, <1>8 DEF At
      <3>2. w \in live /\ w \in Workspace
        BY <3>1, <1>3 DEF Owned
      <3>3. w \in todo[t] \/ (wsLock[w] = t /\ OtherActiveOwner(w, req[t].user))
        BY <3>1, <1>1 DEF Established
      <3>4. QED
        BY <3>2, <3>3, <1>2, <1>6
    <2>3. QED
      BY <2>1, <2>2 DEF Established
  <1>10. QED
    BY <1>5, <1>9

\* Of more than one element, one is not x.
LEMMA AnotherElement ==
  ASSUME NEW S, IsFiniteSet(S), Cardinality(S) > 1, NEW x
  PROVE  \E y \in S : y # x
  <1> SUFFICES ASSUME S \subseteq {x} PROVE FALSE
    OBVIOUS
  <1>1. IsFiniteSet({x}) /\ Cardinality({x}) = 1
    BY FS_Singleton
  <1>2. Cardinality(S) <= 1 /\ Cardinality(S) \in Nat
    BY <1>1, FS_Subset, FS_CardinalityType
  <1>3. QED
    BY <1>2

\* A transaction's own steps take the locks and establish the facts that its
\* next statement relies on.
LEMMA SelfPreserved ==
  ASSUME OwnerInv, NEW s \in Txn, Moves(s)
  PROVE  HeldLocks(s)' /\ Established(s)'
  <1>1. TypeOK /\ HeldLocks(s) /\ Established(s) /\ req[s] \in Request
    BY DEF OwnerInv, TypeOK
  <1> USE DEF At
  <1>2. CASE Release(s)
    BY <1>1, <1>2 DEF Release, EndOf, Goto, HeldLocks, Established, TypeOK, Lifecycle, AccountOps
  <1>3. ASSUME NEW r \in Requests, Begin(s, r) PROVE HeldLocks(s)' /\ Established(s)'
    <2>1. pc[s] = "idle" /\ pc'[s] = NextStage(r, "idle") /\ req'[s] = r /\ live' = live
          /\ r \in Request /\ (r.op = "change" => r.ws \in live)
      BY <1>1, <1>3, RequestAssumption DEF Begin, Goto, TypeOK, Known, data
    <2>2. pc'[s] \in {"lockAdmin", "lockWs", "lockUser"} /\ (r.op = "change" => pc'[s] = "lockWs")
      BY <2>1 DEF NextStage, Request, WorkspaceOps, Lifecycle, AccountOps
    <2>3. QED
      BY <2>1, <2>2 DEF HeldLocks, Established
  <1>4. CASE Authorize(s) /\ ~Release(s)
    <2>1. /\ pc'[s] = NextStage(req[s], "lockWs") /\ req' = req /\ wsLock'[req[s].ws] = s
          /\ userLock' = userLock /\ status' = status /\ live' = live
          /\ pc[s] = "lockWs" /\ req[s].op \in ManageOps \cup {"change"}
      BY <1>1, <1>4 DEF Authorize, Refuse, Goto, TypeOK, data, Request
    <2>2. /\ pc'[s] \in {"lockUser", "check", "commit"}
          /\ req[s].op = "change" => pc'[s] = IF req[s].role # "none" THEN "lockUser" ELSE "check"
      BY <2>1 DEF NextStage, ManageOps, AccountOps
    <2>3. req[s].op # "create" /\ req[s].op \notin Lifecycle
      BY <2>1 DEF ManageOps, Lifecycle, AccountOps
    <2>4. QED
      BY <1>1, <2>1, <2>2, <2>3 DEF HeldLocks, Established, Lifecycle, AccountOps
  <1>5. CASE LockUser(s) /\ ~Release(s)
    <2>1. /\ pc'[s] = NextStage(req[s], "lockUser") /\ req' = req /\ wsLock' = wsLock
          /\ userLock'[s] = LockMode(req[s].op) /\ status' = status /\ live' = live
          /\ pc[s] = "lockUser" /\ RowQualifies(req[s])
      BY <1>1, <1>5 DEF LockUser, Refuse, Goto, TypeOK, data
    <2>2. /\ req[s].op \in {"create", "change"} => pc'[s] = "check"
          /\ pc'[s] \in {"lockUser", "update", "check", "commit"}
      BY <1>1, <2>1 DEF NextStage, AccountOps, Request, Lifecycle, WorkspaceOps
    <2>3. /\ req[s].op = "create" => LockMode(req[s].op) = "X"
          /\ req[s].op = "change" => LockMode(req[s].op) = "S"
          /\ req[s].op \in Lifecycle => LockMode(req[s].op) \in {"X", "N"}
          /\ req[s].op \in {"create", "change"} => status[req[s].user] = "active"
      BY <2>1 DEF LockMode, RowQualifies, Lifecycle, AccountOps
    <2>4. req[s].op \in Lifecycle => req[s].op \notin {"create", "change"}
      BY DEF Lifecycle, AccountOps
    <2>5. QED
      BY <1>1, <2>1, <2>2, <2>3, <2>4 DEF HeldLocks, Established
  <1>6. CASE LockAdministration(s)
    <2>1. pc'[s] = "lockUser" /\ req' = req /\ req[s].op \in AccountOps
      BY <1>1, <1>6 DEF LockAdministration, Goto, TypeOK, NextStage, AccountOps
    <2>2. QED
      BY <2>1 DEF HeldLocks, Established, AccountOps
  <1>7. CASE AcceptLock(s) /\ ~Release(s)
    <2>1. req' = req /\ req[s].op = "accept" /\ pc'[s] # "idle"
      BY <1>1, <1>7 DEF AcceptLock, Refuse, Goto, TypeOK, NextStage, AccountOps
    <2>2. QED
      BY <2>1 DEF HeldLocks, Established, Lifecycle, AccountOps
  <1>8. CASE (CreateCheck(s) \/ InviteCheck(s) \/ AcceptCheck(s)) /\ ~Release(s)
    BY <1>1, <1>8 DEF CreateCheck, InviteCheck, AcceptCheck, Refuse, Goto, TypeOK, data,
       HeldLocks, Established, Lifecycle, AccountOps
  <1>9. CASE ChangeCheck(s)
    <2>1. /\ pc'[s] = "commit" /\ pc[s] = "check" /\ req' = req /\ req[s].op = "change"
          /\ UNCHANGED <<status, live, member, wsLock, userLock>>
          /\ LosesOwner(req[s]) => Cardinality(ActiveOwners(req[s].ws)) > 1
      BY <1>1, <1>9 DEF ChangeCheck, Goto, TypeOK, data
    <2>2. LosesOwner(req[s]) => OtherActiveOwner(req[s].ws, req[s].user)
      <3>1. IsFiniteSet(ActiveOwners(req[s].ws))
        BY SetsAssumption, FS_Subset DEF ActiveOwners, Owners
      <3>2. QED
        BY <2>1, <3>1, AnotherElement DEF OtherActiveOwner
    <2>3. HeldLocks(s)'
      BY <1>1, <2>1 DEF HeldLocks, Lifecycle, AccountOps
    <2>4. Established(s)'
      BY <2>1, <2>2 DEF Established, LosesOwner, OtherActiveOwner, ActiveOwners, Owners,
         Lifecycle, AccountOps
    <2>5. QED
      BY <2>3, <2>4
  <1>10. CASE OpenTrigger(s)
    <2>1. /\ pc'[s] = "trigger" /\ pc[s] = "update" /\ req' = req /\ req[s].op \in Lifecycle
          /\ UNCHANGED <<status, live, member, wsLock, userLock>>
          /\ req[s].op # "activate" => todo'[s] = Owned(req[s].user)
      BY <1>1, <1>10 DEF OpenTrigger, Goto, TypeOK, data
    <2>2. QED
      BY <1>1, <2>1 DEF HeldLocks, Established, Owned, Lifecycle, AccountOps
  <1>11. ASSUME NEW w \in Workspace, VisitOwned(s, w), ~Release(s)
         PROVE  HeldLocks(s)' /\ Established(s)'
    <2>1. /\ UNCHANGED <<pc, req, status, live, member, userLock>>
          /\ req[s].op \in Lifecycle /\ pc[s] = "trigger"
          /\ wsLock' = [wsLock EXCEPT ![w] = s] /\ todo'[s] = todo[s] \ {w}
          /\ OtherActiveOwner(w, req[s].user)
      BY <1>1, <1>11 DEF VisitOwned, Refuse, TypeOK, data
    <2>2. HeldLocks(s)'
      BY <1>1, <2>1 DEF HeldLocks, Lifecycle, AccountOps
    <2>3. ASSUME req[s].op # "activate", NEW x \in Owned(req[s].user)
          PROVE  x \in todo'[s] \/ (wsLock'[x] = s /\ OtherActiveOwner(x, req[s].user))
      <3>1. x \in todo[s] \/ (wsLock[x] = s /\ OtherActiveOwner(x, req[s].user))
        BY <1>1, <2>1, <2>3 DEF Established
      <3>2. x \in Workspace
        BY <1>1 DEF Owned, TypeOK
      <3>3. QED
        BY <1>1, <2>1, <3>1, <3>2 DEF TypeOK
    <2>4. Established(s)'
      BY <2>1, <2>3 DEF Established, Owned, OtherActiveOwner, ActiveOwners, Owners,
         Lifecycle, AccountOps
    <2>5. QED
      BY <2>2, <2>4
  <1>12. CASE Step(s) /\ ~Release(s)
    BY <1>4, <1>5, <1>6, <1>7, <1>8, <1>9, <1>10, <1>11, <1>12 DEF Step, Refuse, CreateCommit,
       RenameCommit, InviteCommit, RevokeCommit, AcceptCommit, ChangeDenied, RefuseLastOwner,
       ChangeCommit, CommitStatus
  <1>13. QED
    BY <1>2, <1>3, <1>12 DEF Moves, Refuse

\* The writing steps keep an active owner in every workspace.
LEMMA OwnersPreserved ==
  ASSUME OwnerInv, NEW s \in Txn, Moves(s)
  PROVE  ActiveOwner' /\ Unborn'
  <1>1. TypeOK /\ HeldLocks(s) /\ Established(s) /\ ActiveOwner /\ Unborn /\ req[s] \in Request
    BY DEF OwnerInv, TypeOK
  <1>2. \A w \in live : wsLock[w] # s => ActiveOwners(w)' # {}
    <2> SUFFICES ASSUME NEW w \in live, wsLock[w] # s PROVE ActiveOwners(w)' # {}
      OBVIOUS
    <2>1. PICK v \in User : v \in ActiveOwners(w)
      BY <1>1 DEF ActiveOwner, ActiveOwners, Owners
    <2>2. CASE \E u \in User : OtherActiveOwner(w, u)
      BY <2>2, LockProtectsOwners DEF OtherActiveOwner
    <2>3. CASE ~\E u \in User : OtherActiveOwner(w, u)
      <3>1. ~(At(s, "trigger", Lifecycle \ {"activate"}) /\ todo[s] = {} /\ req[s].user = v)
        BY <1>1, <2>1 DEF Established, Owned, ActiveOwners, Owners
      <3>2. CASE CommitStatus(s)
        BY <1>1, <2>1, <3>1, <3>2 DEF CommitStatus, At, NewStatus, ActiveOwners, Owners, TypeOK
      <3>3. CASE ChangeCommit(s)
        <4>1. wsLock[req[s].ws] = s
          BY <1>1, <3>3 DEF HeldLocks, ChangeCommit, At
        <4>2. QED
          BY <1>1, <2>1, <3>3, <4>1 DEF ChangeCommit, ActiveOwners, Owners, TypeOK
      <3>4. CASE AcceptCommit(s)
        BY <1>1, <2>1, <3>4, AcceptKeepsOwners DEF AcceptCommit, ActiveOwners, Owners, TypeOK
      <3>5. CASE \E x \in Workspace : CreatesWorkspace(s, x)
        BY <1>1, <2>1, <3>5 DEF CreatesWorkspace, ActiveOwners, Owners, TypeOK
      <3>6. QED
        BY <2>1, <3>2, <3>3, <3>4, <3>5, WritingSteps DEF ActiveOwners, Owners
    <2>4. QED
      BY <2>2, <2>3
  <1>3. CASE UNCHANGED <<status, live, member>>
    BY <1>1, <1>3 DEF ActiveOwner, Unborn, ActiveOwners, Owners
  <1>4. CASE \E w \in Workspace : CreatesWorkspace(s, w)
    <2>1. PICK w \in Workspace : CreatesWorkspace(s, w)
      BY <1>4
    <2>2. status[req[s].user] = "active" /\ req[s].user = req[s].actor /\ req[s].actor \in User
      BY <1>1, <2>1, RequestAssumption DEF CreatesWorkspace, At, HeldLocks, OwnerInv,
         RequestsServed, Request
    <2>3. req[s].actor \in ActiveOwners(w)'
      BY <1>1, <2>1, <2>2 DEF CreatesWorkspace, ActiveOwners, Owners, TypeOK
    <2>4. \A x \in live : ActiveOwners(x)' = ActiveOwners(x)
      BY <1>1, <2>1 DEF CreatesWorkspace, ActiveOwners, Owners, TypeOK
    <2>5. QED
      BY <1>1, <2>1, <2>3, <2>4 DEF CreatesWorkspace, ActiveOwner, Unborn, TypeOK
  <1>5. CASE AcceptCommit(s)
    <2>1. live' = live /\ status' = status /\ live \subseteq Workspace
      BY <1>1, <1>5 DEF AcceptCommit, TypeOK
    <2>2. \A w \in Workspace, u \in User : member'[w][u] = "owner" <=> member[w][u] = "owner"
      BY <1>1, <1>5, AcceptKeepsOwners
    <2>3. QED
      BY <1>1, <2>1, <2>2 DEF ActiveOwner, Unborn, ActiveOwners, Owners
  <1>6. CASE ChangeCommit(s)
    <2>1. wsLock[req[s].ws] = s /\ req[s].ws \in live /\ req[s].user \in User
      BY <1>1, <1>6 DEF HeldLocks, ChangeCommit, At, Request
    <2>2. \A w \in Workspace \ {req[s].ws} : member'[w] = member[w]
      BY <1>1, <1>6 DEF ChangeCommit, TypeOK
    <2>3. ASSUME NEW w \in live, w = req[s].ws PROVE ActiveOwners(w)' # {}
      <3>1. CASE LosesOwner(req[s])
        <4>1. OtherActiveOwner(req[s].ws, req[s].user)
          BY <1>1, <1>6, <3>1 DEF ChangeCommit, Established
        <4>2. PICK v \in User : /\ member[req[s].ws][v] = "owner" /\ status[v] = "active"
                                /\ v # req[s].user
          BY <4>1 DEF OtherActiveOwner, ActiveOwners, Owners
        <4>3. member'[req[s].ws][v] = "owner" /\ status'[v] = "active"
          BY <1>1, <1>6, <2>1, <4>2 DEF ChangeCommit, TypeOK
        <4>4. QED
          BY <4>3, <2>3 DEF ActiveOwners, Owners
      <3>2. CASE ~LosesOwner(req[s])
        <4>1. PICK v \in User : member[req[s].ws][v] = "owner" /\ status[v] = "active"
          BY <1>1, <2>1 DEF ActiveOwner, ActiveOwners, Owners
        <4>2. member'[req[s].ws][v] = "owner" /\ status'[v] = "active"
          BY <1>1, <1>6, <2>1, <3>2, <4>1 DEF ChangeCommit, LosesOwner, TypeOK
        <4>3. QED
          BY <4>2, <2>3 DEF ActiveOwners, Owners
      <3>3. QED
        BY <3>1, <3>2
    <2>4. QED
      BY <1>1, <1>6, <2>1, <2>2, <2>3 DEF ChangeCommit, ActiveOwner, Unborn, ActiveOwners,
         Owners, TypeOK
  <1>7. CASE CommitStatus(s)
    <2>1. UNCHANGED <<live, member>>
      BY <1>7 DEF CommitStatus
    <2>2. \A w \in live : ActiveOwners(w)' # {}
      <3> SUFFICES ASSUME NEW w \in live PROVE ActiveOwners(w)' # {}
        OBVIOUS
      <3>1. PICK v \in User : member[w][v] = "owner" /\ status[v] = "active"
        BY <1>1 DEF ActiveOwner, ActiveOwners, Owners
      <3>2. CASE req[s].op = "activate" \/ v # req[s].user
        BY <1>1, <1>7, <3>1, <3>2 DEF CommitStatus, NewStatus, ActiveOwners, Owners, TypeOK
      <3>3. CASE req[s].op # "activate" /\ v = req[s].user
        <4>1. OtherActiveOwner(w, v)
          BY <1>1, <1>7, <3>1, <3>3 DEF CommitStatus, At, Established, Owned
        <4>2. PICK x \in User : member[w][x] = "owner" /\ status[x] = "active" /\ x # v
          BY <4>1 DEF OtherActiveOwner, ActiveOwners, Owners
        <4>3. QED
          BY <1>1, <1>7, <3>3, <4>2 DEF CommitStatus, ActiveOwners, Owners, TypeOK
      <3>4. QED
        BY <3>2, <3>3
    <2>3. QED
      BY <1>1, <2>1, <2>2 DEF ActiveOwner, Unborn
  <1>8. QED
    BY <1>3, <1>4, <1>5, <1>6, <1>7, WritingSteps

\* The inductive invariant holds in every reachable state.
LEMMA OwnerInvAlways == Spec => []OwnerInv
  <1>1. Init /\ TypeOK => OwnerInv
    BY DEF Init, EmptyTables, NoTransaction, OwnerInv, RequestsServed, UserLockExclusion, Unborn,
       ActiveOwner, HeldLocks, Established, At
  <1>2. OwnerInv /\ (TypeOK /\ RequestsServed)' /\ [Next]_vars => OwnerInv'
    <2> SUFFICES ASSUME OwnerInv, (TypeOK /\ RequestsServed)', [Next]_vars PROVE OwnerInv'
      OBVIOUS
    <2>1. ASSUME NEW s \in Txn, Moves(s) PROVE OwnerInv'
      <3>1. \A t \in Txn : HeldLocks(t)' /\ Established(t)'
        BY <2>1, SelfPreserved, OthersPreserved
      <3>2. QED
        BY <2>1, <3>1, ExclusionPreserved, OwnersPreserved DEF OwnerInv
    <2>2. CASE UNCHANGED <<status, live, member, ctl>>
      BY <2>2 DEF OwnerInv, UserLockExclusion, Unborn, ActiveOwner, ActiveOwners, Owners, HeldLocks,
         Established, At, LosesOwner, OtherActiveOwner, Owned, ctl
    <2>3. CASE UNCHANGED vars
      BY <2>2, <2>3 DEF vars, data
    <2>4. QED
      BY <2>1, <2>2, <2>3, NextMoves
  <1>3. QED
    BY <1>1, <1>2, TypeCorrect, PTL DEF Spec

\* In every reachable state every workspace has an owner whose account is
\* active, whatever membership changes, suspensions, deletions and failures
\* run at the same time.
THEOREM ActiveOwnerAlways == Spec => []ActiveOwner
  <1>1. OwnerInv => ActiveOwner
    BY DEF OwnerInv
  <1>2. QED
    BY <1>1, OwnerInvAlways, PTL

\* A member becomes an owner only while the account is active.
THEOREM PromotionsAreActive == Spec => PromotedIsActive
  <1>1. OwnerInv /\ [Next]_vars =>
          [\A w \in live, u \in User :
             member[w][u] # "owner" /\ member'[w][u] = "owner" => status'[u] = "active"]_vars
    <2> SUFFICES ASSUME OwnerInv, Next, NEW w \in live, NEW u \in User,
                        member[w][u] # "owner", member'[w][u] = "owner"
                 PROVE  status'[u] = "active"
      OBVIOUS
    <2>1. TypeOK
      BY DEF OwnerInv
    <2>2. PICK s \in Txn : Moves(s)
      BY NextMoves
    <2>3. CASE ChangeCommit(s)
      <3>1. req[s].role = "owner" /\ req[s].user = u
        BY <2>1, <2>3 DEF ChangeCommit, TypeOK
      <3>2. QED
        BY <2>3, <3>1 DEF ChangeCommit, At, OwnerInv, HeldLocks
    <2>4. CASE AcceptCommit(s)
      BY <2>1, <2>4, AcceptKeepsOwners DEF TypeOK
    <2>5. CASE \E x \in Workspace : CreatesWorkspace(s, x)
      BY <2>1, <2>5 DEF CreatesWorkspace, TypeOK
    <2>6. QED
      BY <2>2, <2>3, <2>4, <2>5, WritingSteps DEF CommitStatus
  <1>2. QED
    BY <1>1, OwnerInvAlways, PTL DEF Spec, PromotedIsActive

-----------------------------------------------------------------------------
(* Waiting.  Where the statements of an operation are, and at which of them *)
(* it may hold a lock: a row of a workspace is locked before the rows of    *)
(* "user" by memberships, after them by status changes, which visit the     *)
(* workspaces upwards.                                                      *)

LifecycleStages == {"idle", "lockAdmin", "lockUser", "update", "trigger"}
WorkspaceStages == {"idle", "lockWs", "lockUser", "check", "commit"}

Ordered(t) ==
  /\ req[t].op \in Lifecycle => pc[t] \in LifecycleStages
  /\ req[t].op \in WorkspaceOps => pc[t] \in WorkspaceStages
  /\ At(t, "lockUser", WorkspaceOps) => req[t].op \in {"create", "change"}
  /\ userLock[t] # "none" =>
       \/ req[t].op \in {"create", "change"} /\ pc[t] \in {"check", "commit"}
       \/ At(t, "update", Lifecycle) \/ At(t, "trigger", Lifecycle)
  /\ \A w \in Workspace : wsLock[w] = t =>
       \/ req[t].op \in WorkspaceOps /\ pc[t] \in {"lockUser", "check", "commit"}
       \/ At(t, "trigger", Lifecycle) /\ \A v \in todo[t] : w < v
  /\ adminLock = t => req[t].op \in AccountOps /\ pc[t] \in {"lockUser", "update", "trigger"}

OrderInv == TypeOK /\ \A t \in Txn : Ordered(t)

\* A step of s takes no lock for another transaction.
LEMMA OthersTakeNothing ==
  ASSUME TypeOK, NEW s \in Txn, NEW t \in Txn, s # t, Moves(s)
  PROVE  /\ \A w \in Workspace : wsLock'[w] = t => wsLock[w] = t
         /\ adminLock' = t => adminLock = t
  <1> USE DEF TypeOK
  <1>1. CASE Release(s)
    BY <1>1, SetsAssumption DEF Release
  <1>2. ASSUME NEW r \in Requests, Begin(s, r) PROVE wsLock' = wsLock /\ adminLock' = adminLock
    BY <1>2 DEF Begin
  <1>3. CASE Step(s) /\ ~Release(s)
    <2>1. /\ wsLock' = wsLock \/ \E w : wsLock' = [wsLock EXCEPT ![w] = s]
          /\ adminLock' = adminLock \/ adminLock' = s
      BY <1>3 DEF Step, Refuse, Authorize, LockUser, LockAdministration, CreateCheck,
         CreateCommit, RenameCommit, InviteCheck, InviteCommit, RevokeCommit, AcceptLock,
         AcceptCheck, AcceptCommit, ChangeCheck, ChangeDenied, RefuseLastOwner,
         ChangeCommit, OpenTrigger, CommitStatus, VisitOwned
    <2>2. QED
      BY <2>1
  <1>4. QED
    BY <1>1, <1>2, <1>3 DEF Moves, Refuse

\* So its place in the order is what it was.
LEMMA OthersStayOrdered ==
  ASSUME OrderInv, NEW s \in Txn, NEW t \in Txn, s # t, Moves(s)
  PROVE  Ordered(t)'
  <1>1. TypeOK /\ Ordered(t)
    BY DEF OrderInv
  <1>2. pc'[t] = pc[t] /\ req'[t] = req[t] /\ todo'[t] = todo[t] /\ userLock'[t] = userLock[t]
    BY <1>1, OthersUntouched
  <1>3. QED
    BY <1>1, <1>2, OthersTakeNothing DEF Ordered, At

\* A transaction's own steps take the locks in their order.
LEMMA SelfStaysOrdered ==
  ASSUME OrderInv, NEW s \in Txn, Moves(s)
  PROVE  Ordered(s)'
  <1>1. TypeOK /\ Ordered(s) /\ req[s] \in Request /\ s # NoTxn
    BY SetsAssumption DEF OrderInv, TypeOK
  <1> USE DEF At, Lifecycle, AccountOps, WorkspaceOps, LifecycleStages, WorkspaceStages
  <1>2. CASE Release(s)
    BY <1>1, <1>2 DEF Release, EndOf, Goto, Ordered, TypeOK
  <1>3. ASSUME NEW r \in Requests, Begin(s, r) PROVE Ordered(s)'
    <2>1. /\ pc[s] = "idle" /\ pc'[s] = NextStage(r, "idle") /\ req'[s] = r /\ r \in Request
          /\ wsLock' = wsLock /\ adminLock' = adminLock /\ userLock' = userLock
      BY <1>1, <1>3, RequestAssumption DEF Begin, Goto, TypeOK
    <2>2. userLock[s] = "none" /\ adminLock # s /\ \A w \in Workspace : wsLock[w] # s
      BY <1>1, <2>1 DEF Ordered
    <2>3. r.op \in WorkspaceOps \cup Lifecycle
      BY <2>1 DEF Request
    <2>4. /\ r.op \in Lifecycle => pc'[s] \in {"lockAdmin", "lockUser"}
          /\ r.op \in WorkspaceOps => pc'[s] \in {"lockWs", "lockUser"}
          /\ r.op \in WorkspaceOps /\ pc'[s] = "lockUser" => r.op = "create"
      BY <2>1, <2>3 DEF NextStage
    <2>5. QED
      BY <2>1, <2>2, <2>4 DEF Ordered
  <1>4. CASE (Authorize(s) \/ AcceptLock(s)) /\ ~Release(s)
    <2>1. /\ pc'[s] = NextStage(req[s], "lockWs") /\ req' = req /\ userLock' = userLock
          /\ adminLock' = adminLock /\ pc[s] = "lockWs"
          /\ req[s].op \in {"rename", "invite", "revoke", "change", "accept"}
      BY <1>1, <1>4 DEF Authorize, AcceptLock, Refuse, Goto, TypeOK, ManageOps
    <2>2. /\ pc'[s] \in {"lockUser", "check", "commit"}
          /\ pc'[s] = "lockUser" => req[s].op = "change"
      BY <2>1 DEF NextStage
    <2>3. userLock[s] = "none" /\ adminLock # s
      BY <1>1, <2>1 DEF Ordered
    <2>4. QED
      BY <1>1, <2>1, <2>2, <2>3 DEF Ordered
  <1>5. CASE LockUser(s) /\ ~Release(s)
    <2>1. /\ pc[s] = "lockUser" /\ pc'[s] = NextStage(req[s], "lockUser") /\ req' = req
          /\ wsLock' = wsLock /\ adminLock' = adminLock
      BY <1>1, <1>5 DEF LockUser, Refuse, Goto, TypeOK
    <2>2. req[s].op \in {"create", "change"} \cup Lifecycle
      BY <1>1, <2>1 DEF Ordered, Request
    <2>3. pc'[s] = IF req[s].op \in Lifecycle THEN "update" ELSE "check"
      BY <2>1, <2>2 DEF NextStage
    <2>4. \A w \in Workspace : wsLock[w] = s => req[s].op \in WorkspaceOps
      BY <1>1, <2>1 DEF Ordered
    <2>5. adminLock = s => req[s].op \in AccountOps
      BY <1>1 DEF Ordered
    <2>6. QED
      BY <2>1, <2>2, <2>3, <2>4, <2>5 DEF Ordered
  <1>6. CASE LockAdministration(s)
    <2>1. /\ pc[s] = "lockAdmin" /\ pc'[s] = NextStage(req[s], "lockAdmin") /\ req' = req
          /\ wsLock' = wsLock /\ userLock' = userLock /\ req[s].op \in AccountOps
      BY <1>1, <1>6 DEF LockAdministration, Goto, TypeOK
    <2>2. pc'[s] = "lockUser"
      BY <2>1 DEF NextStage
    <2>3. userLock[s] = "none" /\ \A w \in Workspace : wsLock[w] # s
      BY <1>1, <2>1 DEF Ordered
    <2>4. QED
      BY <2>1, <2>2, <2>3 DEF Ordered
  <1>7. CASE (CreateCheck(s) \/ InviteCheck(s) \/ AcceptCheck(s) \/ ChangeCheck(s)) /\ ~Release(s)
    <2>1. /\ pc[s] = "check" /\ pc'[s] = "commit" /\ req[s].op \in WorkspaceOps
          /\ UNCHANGED <<req, wsLock, userLock, adminLock>>
      BY <1>1, <1>7 DEF CreateCheck, InviteCheck, AcceptCheck, ChangeCheck, Refuse, Goto, TypeOK
    <2>2. QED
      BY <1>1, <2>1 DEF Ordered
  <1>8. CASE OpenTrigger(s)
    <2>1. /\ pc[s] = "update" /\ pc'[s] = "trigger" /\ req[s].op \in Lifecycle
          /\ UNCHANGED <<req, wsLock, userLock, adminLock>>
      BY <1>1, <1>8 DEF OpenTrigger, Goto, TypeOK
    <2>2. \A w \in Workspace : wsLock[w] # s
      BY <1>1, <2>1 DEF Ordered
    <2>3. QED
      BY <1>1, <2>1, <2>2 DEF Ordered
  <1>9. ASSUME NEW w \in Workspace, VisitOwned(s, w), ~Release(s) PROVE Ordered(s)'
    <2>1. /\ pc[s] = "trigger" /\ NextOwned(s, w) /\ wsLock' = [wsLock EXCEPT ![w] = s]
          /\ todo'[s] = todo[s] \ {w} /\ req[s].op \in Lifecycle
          /\ UNCHANGED <<pc, req, userLock, adminLock>>
      BY <1>1, <1>9 DEF VisitOwned, Refuse, TypeOK
    <2>2. ASSUME NEW v \in todo'[s] PROVE w < v
      <3>1. v \in todo[s] /\ v # w /\ w <= v
        BY <2>1 DEF NextOwned
      <3>2. v \in Nat /\ w \in Nat
        BY <1>1, <3>1, SetsAssumption DEF TypeOK
      <3>3. QED
        BY <3>1, <3>2
    <2>3. \A x \in Workspace : wsLock'[x] = s => \A v \in todo'[s] : x < v
      BY <1>1, <2>1, <2>2 DEF Ordered, TypeOK
    <2>4. QED
      BY <1>1, <2>1, <2>3 DEF Ordered
  <1>10. CASE Step(s) /\ ~Release(s)
    BY <1>4, <1>5, <1>6, <1>7, <1>8, <1>9, <1>10 DEF Step, Refuse, CreateCommit, RenameCommit,
       InviteCommit, RevokeCommit, AcceptCommit, ChangeDenied, RefuseLastOwner, ChangeCommit,
       CommitStatus
  <1>11. QED
    BY <1>2, <1>3, <1>10 DEF Moves, Refuse

\* The order of the locks is kept in every reachable state.
LEMMA OrderInvAlways == Spec => []OrderInv
  <1>1. Init /\ TypeOK => OrderInv
    BY SetsAssumption DEF Init, NoTransaction, OrderInv, Ordered, At, Lifecycle, AccountOps,
       LifecycleStages, WorkspaceStages
  <1>2. OrderInv /\ (TypeOK /\ RequestsServed)' /\ [Next]_vars => OrderInv'
    <2> SUFFICES ASSUME OrderInv, TypeOK', [Next]_vars PROVE OrderInv'
      OBVIOUS
    <2>1. ASSUME NEW s \in Txn, Moves(s) PROVE OrderInv'
      BY <2>1, SelfStaysOrdered, OthersStayOrdered DEF OrderInv
    <2>2. CASE UNCHANGED ctl
      BY <2>2 DEF OrderInv, Ordered, At, ctl
    <2>3. QED
      BY <2>1, <2>2, NextMoves DEF vars, ctl
  <1>3. QED
    BY <1>1, <1>2, TypeCorrect, PTL DEF Spec

\* Whom t waits for has locked a row at a later statement than t is at.
LEMMA HoldersAreAhead ==
  ASSUME OrderInv, NEW s \in Txn, NEW t \in Txn, s \in WaitsFor(t)
  PROVE  /\ pc[t] = "lockAdmin" => pc[s] \in {"lockUser", "update", "trigger"}
         /\ pc[t] = "lockWs" => \E w \in Workspace : wsLock[w] = s
         /\ pc[t] = "trigger" =>
              \E w \in Workspace : NextOwned(t, w) /\ wsLock[w] = s
         /\ pc[t] \in {"lockUser", "commit"} => userLock[s] # "none"
         /\ pc[t] \in {"lockAdmin", "lockWs", "lockUser", "trigger", "commit"}
         /\ pc[t] = "commit" => req[t].op = "accept"
  <1>1. TypeOK /\ Ordered(t) /\ Ordered(s) /\ req[t] \in Request /\ s # NoTxn
    BY SetsAssumption DEF OrderInv, TypeOK
  <1> USE DEF At
  <1>2. CASE At(t, "lockWs", {"accept"})
    <2>1. s = wsLock[invite[req[t].inv].ws] /\ invite[req[t].inv].ws \in Workspace
      BY <1>1, <1>2 DEF WaitsFor, TypeOK, Request, Invite
    <2>2. QED
      BY <1>2, <2>1
  <1>3. CASE At(t, "lockWs", WorkspaceOps \ {"accept"})
    <2>1. s = wsLock[req[t].ws] /\ req[t].ws \in Workspace
      BY <1>1, <1>3 DEF WaitsFor, TypeOK, Request
    <2>2. QED
      BY <1>3, <2>1
  <1>4. CASE pc[t] = "lockAdmin"
    BY <1>1, <1>4 DEF WaitsFor, Ordered
  <1>5. CASE pc[t] = "lockUser"
    BY <1>1, <1>5 DEF WaitsFor, UserBlockers, Compatible
  <1>6. CASE pc[t] = "trigger"
    <2>1. PICK w \in todo[t] : NextOwned(t, w) /\ s = wsLock[w]
      BY <1>1, <1>6 DEF WaitsFor
    <2>2. QED
      BY <1>1, <1>6, <2>1 DEF TypeOK
  <1>7. CASE At(t, "commit", {"accept"})
    BY <1>1, <1>7 DEF WaitsFor, UserBlockers, Compatible
  <1>8. QED
    BY <1>2, <1>3, <1>4, <1>5, <1>6, <1>7 DEF WaitsFor

\* Of membership and invitation writes, whoever holds a workspace waits for
\* holders of accounts at most, and these wait for nobody.
LEMMA MembershipWaitsEnd ==
  ASSUME OrderInv, NEW C \in SUBSET Txn, NEW succ \in [C -> C], C # {},
         \A t \in C : succ[t] \in WaitsFor(t) /\ req[t].op \in WorkspaceOps
  PROVE  FALSE
  <1> USE DEF At, WorkspaceOps, Lifecycle, AccountOps
  <1>1. \A t \in C : Ordered(t) /\ t \in Txn /\ succ[t] \in C
    BY DEF OrderInv
  <1>2. \A t \in C : pc[t] \in {"lockWs", "lockUser", "commit"}
    BY <1>1, HoldersAreAhead DEF Ordered, WorkspaceStages
  <1>3. ASSUME NEW t \in C, pc[t] \in {"lockUser", "commit"} PROVE FALSE
    <2>1. userLock[succ[t]] # "none"
      BY <1>1, <1>3, HoldersAreAhead
    <2>2. req[succ[t]].op \in {"create", "change"} /\ pc[succ[t]] \in {"check", "commit"}
      BY <1>1, <2>1 DEF Ordered
    <2>3. pc[succ[t]] = "commit"
      BY <1>1, <1>2, <2>2
    <2>4. req[succ[t]].op = "accept"
      BY <1>1, <2>3, HoldersAreAhead
    <2>5. QED
      BY <2>2, <2>4
  <1>4. ASSUME NEW t \in C, pc[t] = "lockWs" PROVE FALSE
    <2>1. PICK w \in Workspace : wsLock[w] = succ[t]
      BY <1>1, <1>4, HoldersAreAhead
    <2>2. pc[succ[t]] \in {"lockUser", "check", "commit"}
      BY <1>1, <2>1 DEF Ordered
    <2>3. QED
      BY <1>1, <1>2, <1>3, <2>2
  <1>5. QED
    BY <1>2, <1>3, <1>4

\* The transactions of D with nothing to visit up to some workspace t has still
\* to visit: along a chain of waits they become fewer.
Ahead(D, t) == {s \in D : \E w \in todo[t] : \A v \in todo[s] : w < v}

\* Of status changes, some statements lead to the trigger, and there whoever
\* holds a workspace has only later ones to visit: among finitely many, the one
\* that has come furthest waits for nobody.
LEMMA StatusWaitsEnd ==
  ASSUME OrderInv, NEW C \in SUBSET Txn, NEW succ \in [C -> C], C # {},
         \A t \in C : succ[t] \in WaitsFor(t) /\ req[t].op \in Lifecycle
  PROVE  FALSE
  <1> USE DEF At
  <1>1. \A t \in C : Ordered(t) /\ t \in Txn /\ succ[t] \in C
    BY DEF OrderInv
  <1>2. req \in [Txn -> Request] /\ Lifecycle \cap WorkspaceOps = {} /\ WorkspaceOps \cap AccountOps = {}
        /\ "change" \notin Lifecycle /\ "create" \notin Lifecycle
    BY DEF OrderInv, TypeOK, Lifecycle, AccountOps, WorkspaceOps
  <1>3. \A t \in C : pc[t] \in {"lockAdmin", "lockUser", "trigger"}
    BY <1>1, HoldersAreAhead DEF Ordered, LifecycleStages
  <1> DEFINE D == {t \in C : pc[t] = "trigger"}
  <1>4. ASSUME NEW t \in C, pc[t] = "lockUser" PROVE succ[t] \in D
    <2>1. userLock[succ[t]] # "none"
      BY <1>1, <1>4, HoldersAreAhead
    <2>2. pc[succ[t]] \in {"update", "trigger"}
      BY <1>1, <1>2, <2>1 DEF Ordered
    <2>3. QED
      BY <1>1, <1>3, <2>2
  <1>5. D # {}
    <2>1. PICK t \in C : TRUE
      OBVIOUS
    <2>2. CASE pc[t] = "lockAdmin"
      <3>1. pc[succ[t]] \in {"lockUser", "trigger"}
        BY <1>1, <1>3, <2>2, HoldersAreAhead
      <3>2. QED
        BY <1>1, <1>4, <3>1
    <2>3. QED
      BY <1>1, <1>3, <1>4, <2>2
  <1>6. ASSUME NEW t \in D
        PROVE  succ[t] \in D /\ \E w \in todo[t] : wsLock[w] = succ[t] /\ \A v \in todo[succ[t]] : w < v
    <2>1. PICK w \in Workspace : NextOwned(t, w) /\ wsLock[w] = succ[t]
      BY <1>1, HoldersAreAhead
    <2>2. pc[succ[t]] = "trigger" /\ \A v \in todo[succ[t]] : w < v
      BY <1>1, <1>2, <2>1 DEF Ordered
    <2>3. QED
      BY <1>1, <2>1, <2>2 DEF NextOwned
  <1> DEFINE left == {Ahead(D, t) : t \in D}
  <1>7. IsWellFoundedOn(StrictSubsetOrdering(Txn), FiniteSubsetsOf(Txn))
    BY FS_StrictSubsetOrderingWellFounded
  <1>8. left \subseteq FiniteSubsetsOf(Txn) /\ left # {}
    <2>1. \A t \in D : Ahead(D, t) \subseteq Txn
      BY <1>1 DEF Ahead
    <2>2. FiniteSubsetsOf(Txn) = SUBSET Txn
      BY SetsAssumption, FS_FiniteSubsetsOfFinite
    <2>3. left \subseteq SUBSET Txn
      BY <2>1
    <2>4. left # {}
      BY <1>5
    <2> HIDE DEF left
    <2>5. QED
      BY <2>2, <2>3, <2>4
  <1>9. PICK t \in D : \A s \in D : ~(<<Ahead(D, s), Ahead(D, t)>> \in StrictSubsetOrdering(Txn))
    <2>1. \E A \in left : \A B \in left : ~(<<B, A>> \in StrictSubsetOrdering(Txn))
      <3> HIDE DEF left
      <3> QED
        BY <1>7, <1>8, WFMin
    <2>2. PICK t \in D : \A B \in left : ~(<<B, Ahead(D, t)>> \in StrictSubsetOrdering(Txn))
      BY <2>1
    <2>3. QED
      BY <2>2
  <1>10. PICK w \in todo[t] : wsLock[w] = succ[t] /\ \A v \in todo[succ[t]] : w < v
    BY <1>6
  <1>11. succ[t] \in Ahead(D, t)
    BY <1>6, <1>10 DEF Ahead
  <1>12. succ[t] \notin Ahead(D, succ[t])
    <2>1. \A v \in todo[succ[t]] : v \in Nat
      BY <1>1, <1>6, SetsAssumption DEF OrderInv, TypeOK
    <2>2. QED
      BY <2>1 DEF Ahead
  <1>13. Ahead(D, succ[t]) \subseteq Ahead(D, t)
    <2>1. ASSUME NEW s \in D, NEW x \in todo[succ[t]], \A v \in todo[s] : x < v PROVE s \in Ahead(D, t)
      <3>1. w \in Nat /\ x \in Nat /\ w < x /\ \A v \in todo[s] : v \in Nat
        BY <1>1, <1>6, <1>10, SetsAssumption DEF OrderInv, TypeOK
      <3>2. \A v \in todo[s] : w < v
        BY <2>1, <3>1
      <3>3. QED
        BY <3>2 DEF Ahead
    <2>2. QED
      BY <2>1 DEF Ahead
  <1>14. <<Ahead(D, succ[t]), Ahead(D, t)>> \in StrictSubsetOrdering(Txn)
    <2>1. Ahead(D, t) \subseteq Txn /\ Ahead(D, succ[t]) \subseteq Txn
      BY <1>1 DEF Ahead
    <2>2. QED
      BY <2>1, <1>11, <1>12, <1>13 DEF StrictSubsetOrdering
  <1>15. QED
    BY <1>6, <1>9, <1>14

\* In every reachable state a cycle of waits has a status change of an account
\* and a membership or invitation write in it: neither kind of operation
\* deadlocks with itself, however many transactions run.
THEOREM CyclesAlwaysMixed == Spec => []CyclesAreMixed
  <1>1. OrderInv => CyclesAreMixed
    <2> SUFFICES ASSUME OrderInv, NEW C \in SUBSET Txn, WaitCycle(C)
                 PROVE  /\ \E t \in C : req[t].op \in Lifecycle
                        /\ \E t \in C : req[t].op \in WorkspaceOps
      BY DEF CyclesAreMixed
    <2>1. PICK succ \in [C -> C] : \A t \in C : succ[t] \in WaitsFor(t)
      BY DEF WaitCycle
    <2>2. \A t \in C : req[t].op \in Lifecycle \cup WorkspaceOps
      BY DEF OrderInv, TypeOK, Request
    <2>3. C # {}
      BY DEF WaitCycle
    <2>4. QED
      BY <2>1, <2>2, <2>3, MembershipWaitsEnd, StatusWaitsEnd
  <1>2. QED
    BY <1>1, OrderInvAlways, PTL

(***************************************************************************)
(* AuthorityAtCommit, AcceptanceAdmits, InvitationFinal, the pending       *)
(* invitations and CreateWithinLimit: what a transaction reads or counts   *)
(* under a lock stays true until it commits.                               *)
(***************************************************************************)

(* AuthorityAtCommit is about the state of the commit, the checks are some  *)
(* statements earlier.  The invariant says what each stage still knows.    *)

AuthorizedOps == ManageOps \cup {"change"}

\* authorize answered for the workspace t has locked since.
Authorized(t) ==
  req[t].op \in AuthorizedOps /\ pc[t] # "idle" =>
    /\ req[t].ws \in live
    /\ pc[t] # "lockWs" => /\ wsLock[req[t].ws] = t
                           /\ actorRole[t] = member[req[t].ws][req[t].actor]
                           /\ MayEnter(t)

\* What the statements before the last have found.
Decided(t) ==
  /\ At(t, "commit", {"invite"}) => actorRole[t] = "owner" \/ req[t].role = "member"
  /\ At(t, "commit", {"change"}) => MayChange(t)

\* An invitation that is being accepted is pending, and nobody else's.
Accepting(t) ==
  req[t].op = "accept" /\ pc[t] \notin {"idle", "lockWs"} =>
    /\ invite[req[t].inv].state = "pending"
    /\ wsLock[invite[req[t].inv].ws] = t

AuthorityInv == TypeOK /\ \A t \in Txn : Authorized(t) /\ Decided(t) /\ Accepting(t)

-----------------------------------------------------------------------------
(* What a lock protects                                                    *)

\* Three steps write invitations.
LEMMA InviteWriters ==
  ASSUME NEW s \in Txn, Moves(s)
  PROVE  UNCHANGED invite \/ AcceptCommit(s) \/ InviteCommit(s) \/ RevokeCommit(s)
  BY DEF Moves, Step, Refuse, Begin, Authorize, LockUser, LockAdministration, CreateCheck,
     CreateCommit, RenameCommit, InviteCheck, AcceptLock, AcceptCheck, ChangeCheck, ChangeDenied,
     RefuseLastOwner, ChangeCommit, OpenTrigger, CommitStatus, VisitOwned, data

\* The memberships of a workspace change by the holder of its lock only.
LEMMA LockProtectsMembers ==
  ASSUME AuthorityInv, NEW s \in Txn, Moves(s), NEW w \in live, wsLock[w] # s
  PROVE  member'[w] = member[w]
  <1>1. TypeOK /\ Authorized(s) /\ Accepting(s) /\ w \in Workspace
    BY DEF AuthorityInv, TypeOK
  <1>2. CASE \E x \in Workspace : CreatesWorkspace(s, x)
    BY <1>1, <1>2 DEF CreatesWorkspace, TypeOK
  <1>3. CASE AcceptCommit(s)
    <2>1. wsLock[invite[req[s].inv].ws] = s
      BY <1>1, <1>3 DEF AcceptCommit, At, Accepting
    <2>2. QED
      BY <1>1, <1>3, <2>1 DEF AcceptCommit, TypeOK
  <1>4. CASE ChangeCommit(s)
    <2>1. wsLock[req[s].ws] = s
      BY <1>1, <1>4 DEF ChangeCommit, At, Authorized, AuthorizedOps
    <2>2. QED
      BY <1>1, <1>4, <2>1 DEF ChangeCommit, TypeOK
  <1>5. QED
    BY <1>2, <1>3, <1>4, WritingSteps DEF CommitStatus

\* So do its pending invitations.
LEMMA LockProtectsInvitations ==
  ASSUME AuthorityInv, NEW s \in Txn, Moves(s), NEW i \in Invitation,
         invite[i].state = "pending", wsLock[invite[i].ws] # s
  PROVE  invite'[i] = invite[i]
  <1>1. TypeOK /\ Authorized(s) /\ Accepting(s)
    BY DEF AuthorityInv
  <1>2. CASE AcceptCommit(s)
    <2>1. wsLock[invite[req[s].inv].ws] = s
      BY <1>1, <1>2 DEF AcceptCommit, At, Accepting
    <2>2. QED
      BY <1>1, <1>2, <2>1 DEF AcceptCommit, TypeOK
  <1>3. CASE InviteCommit(s)
    <2>1. wsLock[req[s].ws] = s
      BY <1>1, <1>3 DEF InviteCommit, At, Authorized, AuthorizedOps, ManageOps
    <2>2. i \notin Reissued(req[s]) /\ i \notin Unissued
      BY <2>1 DEF Reissued, Pending, Unissued
    <2>3. QED
      BY <1>1, <1>3, <2>2 DEF InviteCommit, Refuse, data
  <1>4. CASE RevokeCommit(s)
    <2>1. wsLock[req[s].ws] = s
      BY <1>1, <1>4 DEF RevokeCommit, At, Authorized, AuthorizedOps, ManageOps
    <2>2. MayRevoke(s) => req[s].inv # i
      BY <2>1 DEF MayRevoke, Pending
    <2>3. QED
      BY <1>1, <1>4, <2>2 DEF RevokeCommit, Refuse, data, TypeOK
  <1>5. QED
    BY <1>2, <1>3, <1>4, InviteWriters

\* A step of s leaves alone what authorize read for another transaction.
LEMMA OthersRole ==
  ASSUME TypeOK, NEW s \in Txn, NEW t \in Txn, s # t, Moves(s)
  PROVE  actorRole'[t] = actorRole[t]
  <1>1. actorRole' = actorRole \/ \E role : actorRole' = [actorRole EXCEPT ![s] = role]
    BY DEF Moves, Step, Refuse, Release, EndOf, Begin, Authorize, LockUser, LockAdministration,
       CreateCheck, CreateCommit, RenameCommit, InviteCheck, InviteCommit, RevokeCommit, AcceptLock,
       AcceptCheck, AcceptCommit, ChangeCheck, ChangeDenied, RefuseLastOwner, ChangeCommit,
       OpenTrigger, CommitStatus, VisitOwned
  <1>2. QED
    BY <1>1 DEF TypeOK

\* A workspace that exists goes on existing.
LEMMA LiveGrows ==
  ASSUME NEW s \in Txn, Moves(s)
  PROVE  live \subseteq live'
  BY WritingSteps DEF CreatesWorkspace, AcceptCommit, ChangeCommit, CommitStatus

-----------------------------------------------------------------------------
(* AuthorityInv is inductive                                               *)

\* What t has found out survives the steps of the others.
LEMMA OthersKeepAuthority ==
  ASSUME AuthorityInv, NEW s \in Txn, NEW t \in Txn, s # t, Moves(s)
  PROVE  Authorized(t)' /\ Decided(t)' /\ Accepting(t)'
  <1>1. /\ TypeOK /\ Authorized(t) /\ Decided(t) /\ Accepting(t)
        /\ req[t].ws \in Workspace /\ req[t].actor \in User /\ req[t].user \in User
        /\ req[t].inv \in Invitation
    BY DEF AuthorityInv, TypeOK, Request
  <1>2. /\ pc'[t] = pc[t] /\ req'[t] = req[t] /\ actorRole'[t] = actorRole[t]
        /\ \A w \in Workspace : wsLock[w] = t => wsLock'[w] = t
    BY <1>1, OthersUntouched, OthersRole
  <1>3. \A w \in live : wsLock[w] = t => member'[w] = member[w]
    BY LockProtectsMembers
  <1>4. Authorized(t)'
    BY <1>1, <1>2, <1>3, LiveGrows DEF Authorized, MayEnter
  <1>5. Decided(t)'
    <2>1. At(t, "commit", {"invite"})' => At(t, "commit", {"invite"})
      BY <1>2 DEF At
    <2>2. At(t, "commit", {"change"})' => MayChange(t)'
      <3> SUFFICES ASSUME At(t, "commit", {"change"})' PROVE MayChange(t)'
        OBVIOUS
      <3>1. At(t, "commit", {"change"}) /\ MayChange(t)
        BY <1>1, <1>2 DEF At, Decided
      <3>2. req[t].ws \in live /\ wsLock[req[t].ws] = t
        BY <1>1, <3>1 DEF At, Authorized, AuthorizedOps
      <3>3. member'[req[t].ws] = member[req[t].ws]
        BY <1>3, <3>2
      <3>4. QED
        BY <1>2, <3>1, <3>3 DEF MayChange
    <2>3. QED
      BY <1>1, <1>2, <2>1, <2>2 DEF Decided
  <1>6. Accepting(t)'
    <2> SUFFICES ASSUME req'[t].op = "accept", pc'[t] \notin {"idle", "lockWs"}
                 PROVE  invite'[req'[t].inv].state = "pending"
                        /\ wsLock'[invite'[req'[t].inv].ws] = t
      BY DEF Accepting
    <2>1. invite[req[t].inv].state = "pending" /\ wsLock[invite[req[t].inv].ws] = t
      BY <1>1, <1>2 DEF Accepting
    <2>2. invite'[req[t].inv] = invite[req[t].inv]
      BY <1>1, <2>1, LockProtectsInvitations
    <2>3. invite[req[t].inv].ws \in Workspace
      BY <1>1 DEF TypeOK, Invite
    <2>4. QED
      BY <1>2, <2>1, <2>2, <2>3
  <1>7. QED
    BY <1>4, <1>5, <1>6

\* A transaction that has ended claims nothing.
LEMMA EndedClaimsNothing ==
  ASSUME TypeOK, NEW s \in Txn, Release(s)
  PROVE  Authorized(s)' /\ Decided(s)' /\ Accepting(s)'
  <1>1. pc'[s] = "idle"
    BY DEF Release, EndOf, Goto, TypeOK
  <1>2. QED
    BY <1>1 DEF Authorized, Decided, Accepting, At

\* A transaction's own steps find out what its next statement relies on.
LEMMA SelfKeepsAuthority ==
  ASSUME AuthorityInv, NEW s \in Txn, Moves(s)
  PROVE  Authorized(s)' /\ Decided(s)' /\ Accepting(s)'
  <1>1. /\ TypeOK /\ Authorized(s) /\ Decided(s) /\ Accepting(s) /\ req[s] \in Request
        /\ req[s].ws \in Workspace /\ req[s].inv \in Invitation
    BY DEF AuthorityInv, TypeOK, Request
  <1>2. CASE Release(s)
    BY <1>1, <1>2, EndedClaimsNothing
  <1>3. ASSUME NEW r \in Requests, Begin(s, r) PROVE Authorized(s)' /\ Decided(s)' /\ Accepting(s)'
    <2>1. /\ req'[s] = r /\ live' = live /\ pc'[s] = NextStage(r, "idle") /\ r \in Request
          /\ r.op \in {"rename", "invite", "revoke", "change"} => r.ws \in live
      BY <1>1, <1>3, RequestAssumption DEF Begin, Goto, TypeOK, Known, data
    <2>2. /\ r.op \in AuthorizedOps \cup {"accept"} => pc'[s] = "lockWs"
          /\ pc'[s] # "commit"
      BY <2>1 DEF NextStage, AuthorizedOps, ManageOps, AccountOps, Request, Lifecycle, WorkspaceOps
    <2>3. QED
      BY <2>1, <2>2 DEF Authorized, Decided, Accepting, At, AuthorizedOps, ManageOps
  <1>4. CASE Authorize(s) /\ ~Release(s)
    <2>1. /\ req' = req /\ UNCHANGED data /\ MayEnter(s)
          /\ wsLock'[req[s].ws] = s /\ actorRole'[s] = member[req[s].ws][req[s].actor]
          /\ pc'[s] = NextStage(req[s], "lockWs") /\ req[s].op \in AuthorizedOps
          /\ pc[s] = "lockWs"
      BY <1>1, <1>4 DEF Authorize, Refuse, Goto, TypeOK, At, AuthorizedOps
    <2>2. /\ req[s].op \in {"invite", "change"} => pc'[s] # "commit"
          /\ req[s].op # "accept"
      BY <2>1 DEF NextStage, AuthorizedOps, ManageOps, AccountOps
    <2>3. Authorized(s)'
      BY <1>1, <2>1 DEF Authorized, MayEnter, data
    <2>4. QED
      BY <2>1, <2>2, <2>3 DEF Decided, Accepting, At
  <1>5. CASE (LockUser(s) \/ LockAdministration(s) \/ OpenTrigger(s)) /\ ~Release(s)
    <2>1. /\ UNCHANGED <<data, req, actorRole, wsLock>> /\ pc[s] \notin {"idle", "lockWs"}
          /\ (pc[s] = "lockUser" /\ pc'[s] = NextStage(req[s], "lockUser")) \/ req[s].op \in Lifecycle
      BY <1>1, <1>5 DEF LockUser, LockAdministration, OpenTrigger, Refuse, Goto, At, TypeOK,
         Lifecycle
    <2>2. req[s].op \in Lifecycle => req[s].op \notin AuthorizedOps \cup {"accept", "invite", "change"}
      BY DEF Lifecycle, AccountOps, AuthorizedOps, ManageOps
    <2>3. pc[s] = "lockUser" /\ req[s].op \in {"invite", "change"} /\ pc'[s] = NextStage(req[s], "lockUser")
            => pc'[s] # "commit"
      BY DEF NextStage, AccountOps
    <2>4. Authorized(s)'
      BY <1>1, <2>1, <2>2 DEF Authorized, MayEnter, data
    <2>5. Decided(s)'
      BY <2>1, <2>2, <2>3 DEF Decided, At
    <2>6. QED
      BY <1>1, <2>1, <2>4, <2>5 DEF Accepting, data
  <1>6. CASE AcceptLock(s) /\ ~Release(s)
    <2>1. /\ UNCHANGED <<data, req>> /\ req[s].op = "accept" /\ Acceptable(s)
          /\ wsLock'[invite[req[s].inv].ws] = s
      <3>1. invite[req[s].inv].ws \in Workspace
        BY <1>1 DEF TypeOK, Invite
      <3>2. QED
        BY <1>1, <1>6, <3>1 DEF AcceptLock, Refuse, At, TypeOK
    <2>2. QED
      BY <2>1 DEF Authorized, Decided, Accepting, At, AuthorizedOps, ManageOps, Acceptable, data
  <1>7. CASE (CreateCheck(s) \/ InviteCheck(s) \/ AcceptCheck(s) \/ ChangeCheck(s)) /\ ~Release(s)
    <2>1. /\ UNCHANGED <<data, req, actorRole, wsLock>> /\ pc[s] = "check"
          /\ req[s].op = "invite" => MayInvite(s)
          /\ req[s].op = "change" => MayChange(s)
      BY <1>7 DEF CreateCheck, InviteCheck, AcceptCheck, ChangeCheck, Refuse, At
    <2>2. Authorized(s)' /\ Accepting(s)'
      BY <1>1, <2>1 DEF Authorized, MayEnter, Accepting, data
    <2>3. Decided(s)'
      BY <2>1 DEF Decided, At, MayInvite, MayChange, data
    <2>4. QED
      BY <2>2, <2>3
  <1>8. ASSUME NEW w \in Workspace, VisitOwned(s, w), ~Release(s)
        PROVE  Authorized(s)' /\ Decided(s)' /\ Accepting(s)'
    <2>1. req' = req /\ req[s].op \in Lifecycle
      BY <1>8 DEF VisitOwned, Refuse, At
    <2>2. req[s].op \notin AuthorizedOps \cup {"accept", "invite", "change"}
      BY <2>1 DEF Lifecycle, AccountOps, AuthorizedOps, ManageOps
    <2>3. QED
      BY <2>1, <2>2 DEF Authorized, Decided, Accepting, At
  <1>9. CASE Step(s) /\ ~Release(s)
    BY <1>4, <1>5, <1>6, <1>7, <1>8, <1>9 DEF Step, Refuse, CreateCommit, RenameCommit,
       InviteCommit, RevokeCommit, AcceptCommit, ChangeDenied, RefuseLastOwner, ChangeCommit,
       CommitStatus
  <1>10. QED
    BY <1>2, <1>3, <1>9 DEF Moves, Refuse

\* Time and changes of address move nothing the transactions rely on.
LEMMA EnvironmentKeepsAuthority ==
  ASSUME AuthorityInv, TypeOK', UNCHANGED <<live, member, ctl>>,
         \A i \in Invitation : invite'[i].state = invite[i].state /\ invite'[i].ws = invite[i].ws
  PROVE  AuthorityInv'
  <1>1. \A t \in Txn : req[t].inv \in Invitation
    BY DEF AuthorityInv, TypeOK, Request
  <1>2. QED
    BY <1>1 DEF AuthorityInv, Authorized, MayEnter, Decided, MayChange, Accepting, At, ctl

\* The inductive invariant holds in every reachable state.
LEMMA AuthorityInvAlways == Spec => []AuthorityInv
  <1>1. Init /\ TypeOK => AuthorityInv
    BY DEF Init, NoTransaction, AuthorityInv, Authorized, Decided, Accepting, At
  <1>2. AuthorityInv /\ TypeOK' /\ [Next]_vars => AuthorityInv'
    <2> SUFFICES ASSUME AuthorityInv, TypeOK', [Next]_vars PROVE AuthorityInv'
      OBVIOUS
    <2>1. ASSUME NEW s \in Txn, Moves(s) PROVE AuthorityInv'
      BY <2>1, SelfKeepsAuthority, OthersKeepAuthority DEF AuthorityInv
    <2>2. ASSUME NEW i \in Invitation, Expire(i) PROVE AuthorityInv'
      BY <2>2, EnvironmentKeepsAuthority DEF AuthorityInv, Expire, TypeOK, Invite
    <2>3. ASSUME NEW u \in User, NEW e \in Email, ChangeEmail(u, e) PROVE AuthorityInv'
      BY <2>3, EnvironmentKeepsAuthority DEF ChangeEmail
    <2>4. CASE UNCHANGED vars
      BY <2>4, EnvironmentKeepsAuthority DEF vars, data
    <2>5. QED
      BY <2>1, <2>2, <2>3, <2>4 DEF Next, Moves, DeadlockVictim, Fail
  <1>3. QED
    BY <1>1, <1>2, TypeCorrect, PTL DEF Spec

-----------------------------------------------------------------------------
(* What follows                                                            *)

\* Only the transaction that moves can write.
LEMMA WriterMoves ==
  ASSUME TypeOK, Next, NEW t \in Txn, Writes(t)
  PROVE  Moves(t)
  <1>1. PICK s \in Txn : Moves(s)
    BY DEF Next, Moves, DeadlockVictim, Fail, Expire, ChangeEmail, Writes, ctl
  <1>2. s = t
    BY <1>1, OthersUntouched DEF Writes
  <1>3. QED
    BY <1>1, <1>2

\* A commit that writes is the last statement of its operation.
LEMMA WritingCommits ==
  ASSUME NEW t \in Txn, Moves(t), Writes(t)
  PROVE  /\ pc[t] \in {"commit", "trigger"}
         /\ \/ CreateCommit(t) \/ RenameCommit(t) \/ InviteCommit(t)
            \/ (RevokeCommit(t) /\ MayRevoke(t)) \/ AcceptCommit(t) \/ ChangeCommit(t)
            \/ CommitStatus(t)
  <1>1. data' # data
    BY DEF Writes
  <1>2. \/ CreateCommit(t) \/ RenameCommit(t) \/ InviteCommit(t)
        \/ (RevokeCommit(t) /\ MayRevoke(t)) \/ AcceptCommit(t) \/ ChangeCommit(t)
        \/ CommitStatus(t)
    BY <1>1 DEF Moves, Step, Refuse, Begin, Authorize, LockUser, LockAdministration, CreateCheck,
       InviteCheck, RevokeCommit, AcceptLock, AcceptCheck, ChangeCheck, ChangeDenied,
       RefuseLastOwner, OpenTrigger, VisitOwned
  <1>3. QED
    BY <1>2 DEF CreateCommit, RenameCommit, InviteCommit, RevokeCommit, AcceptCommit, ChangeCommit,
       CommitStatus, At

\* A request that only members of a workspace may make is written with the
\* authority its actor holds in the state it is written in.
THEOREM AuthorityIsCurrent == Spec => AuthorityAtCommit
  <1>1. AuthorityInv /\ [Next]_vars => [\A t \in Txn : Writes(t) => HoldsAuthority(t)]_vars
    <2> SUFFICES ASSUME AuthorityInv, Next, NEW t \in Txn, Writes(t) PROVE HoldsAuthority(t)
      OBVIOUS
    <2>1. TypeOK /\ Authorized(t) /\ Decided(t)
      BY DEF AuthorityInv
    <2>2. Moves(t)
      BY <2>1, WriterMoves
    <2>3. member[req[t].ws][req[t].actor] \in Roles
      BY <2>1 DEF TypeOK, Request
    <2>4. req[t].op \in AuthorizedOps =>
            /\ actorRole[t] = member[req[t].ws][req[t].actor] /\ MayEnter(t)
            /\ pc[t] = "commit" \/ req[t].op \in Lifecycle
      BY <2>1, <2>2, WritingCommits DEF Authorized, CreateCommit, RenameCommit, InviteCommit,
         RevokeCommit, AcceptCommit, ChangeCommit, CommitStatus, At
    <2>5. CASE req[t].op = "rename"
      BY <2>3, <2>4, <2>5 DEF HoldsAuthority, MayEnter, ManageOps, AuthorizedOps, Roles, Role
    <2>6. CASE req[t].op = "invite"
      <3>1. actorRole[t] = "owner" \/ req[t].role = "member"
        BY <2>1, <2>4, <2>6 DEF Decided, At, AuthorizedOps, ManageOps, Lifecycle, AccountOps
      <3>2. QED
        BY <2>3, <2>4, <2>6, <3>1 DEF HoldsAuthority, MayEnter, ManageOps, AuthorizedOps, Roles, Role
    <2>7. CASE req[t].op = "revoke"
      <3>1. MayRevoke(t)
        BY <2>2, <2>7, WritingCommits DEF CreateCommit, RenameCommit, InviteCommit, AcceptCommit,
           ChangeCommit, CommitStatus, At, Lifecycle, AccountOps
      <3>2. QED
        BY <2>3, <2>4, <2>7, <3>1 DEF HoldsAuthority, MayRevoke, MayEnter, ManageOps, AuthorizedOps,
           Roles, Role
    <2>8. CASE req[t].op = "change"
      <3>1. MayChange(t)
        BY <2>1, <2>4, <2>8 DEF Decided, At, AuthorizedOps, Lifecycle, AccountOps
      <3>2. QED
        BY <2>3, <2>4, <2>8, <3>1 DEF HoldsAuthority, MayChange, MayEnter, AuthorizedOps
    <2>9. QED
      BY <2>5, <2>6, <2>7, <2>8 DEF HoldsAuthority
  <1>2. QED
    BY <1>1, AuthorityInvAlways, PTL DEF Spec, AuthorityAtCommit

\* A used or revoked invitation stays so, whoever meets it.
THEOREM InvitationsAreFinal == Spec => InvitationFinal
  <1>1. AuthorityInv /\ [Next]_vars =>
          [\A i \in Invitation : invite[i].state \in {"accepted", "revoked"} =>
             invite'[i] = invite[i]]_vars
    <2> SUFFICES ASSUME AuthorityInv, Next, NEW i \in Invitation,
                        invite[i].state \in {"accepted", "revoked"}
                 PROVE  invite'[i] = invite[i]
      OBVIOUS
    <2>1. TypeOK
      BY DEF AuthorityInv
    <2>2. ASSUME NEW s \in Txn, AcceptCommit(s) PROVE invite'[i] = invite[i]
      <3>1. invite[req[s].inv].state = "pending"
        BY <2>2 DEF AuthorityInv, Accepting, AcceptCommit, At
      <3>2. QED
        BY <2>1, <2>2, <3>1 DEF AcceptCommit, TypeOK
    <2>3. ASSUME NEW s \in Txn, InviteCommit(s) PROVE invite'[i] = invite[i]
      BY <2>1, <2>3 DEF InviteCommit, Refuse, data, Unissued, Reissued, Pending
    <2>4. ASSUME NEW s \in Txn, RevokeCommit(s) PROVE invite'[i] = invite[i]
      BY <2>1, <2>4 DEF RevokeCommit, MayRevoke, Pending, Refuse, data, TypeOK
    <2>5. ASSUME NEW j \in Invitation, Expire(j) PROVE invite'[i] = invite[i]
      BY <2>1, <2>5 DEF Expire, TypeOK
    <2>6. QED
      BY <2>2, <2>3, <2>4, <2>5, InviteWriters DEF Next, Moves, DeadlockVictim, Fail, ChangeEmail
  <1>2. QED
    BY <1>1, AuthorityInvAlways, PTL DEF Spec, InvitationFinal

\* An acceptance is the only way into a workspace, with the role that was
\* offered, and changes no membership that exists.
THEOREM AcceptancesAdmit == Spec => AcceptanceAdmits
  <1>1. AuthorityInv /\ [Next]_vars =>
          [\A w \in live, u \in User : member[w][u] = "none" /\ member'[w][u] # "none" =>
             \E i \in Pending(w) :
                invite'[i].state = "accepted" /\ member'[w][u] = invite[i].role]_vars
    <2> SUFFICES ASSUME AuthorityInv, Next, NEW w \in live, NEW u \in User,
                        member[w][u] = "none", member'[w][u] # "none"
                 PROVE  \E i \in Pending(w) : /\ invite'[i].state = "accepted"
                                              /\ member'[w][u] = invite[i].role
      OBVIOUS
    <2>1. TypeOK /\ w \in Workspace
      BY DEF AuthorityInv, TypeOK
    <2>2. PICK s \in Txn : Moves(s)
      BY NextMoves
    <2>3. req[s].inv \in Invitation /\ req[s].actor \in User /\ req[s].user \in User
      BY <2>1 DEF TypeOK, Request
    <2>4. CASE \E x \in Workspace : CreatesWorkspace(s, x)
      BY <2>1, <2>4 DEF CreatesWorkspace, TypeOK
    <2>5. CASE ChangeCommit(s)
      <3>1. member[req[s].ws][req[s].user] # "none"
        BY <2>5 DEF ChangeCommit, AuthorityInv, Decided, MayChange, At
      <3>2. QED
        BY <2>1, <2>3, <2>5, <3>1 DEF ChangeCommit, TypeOK
    <2>6. CASE AcceptCommit(s)
      <3>1. invite[req[s].inv].state = "pending"
        BY <2>6 DEF AuthorityInv, Accepting, AcceptCommit, At
      <3>2. invite[req[s].inv].ws = w /\ u = req[s].actor
        BY <2>1, <2>6 DEF AcceptCommit, TypeOK
      <3>3. member'[w][u] = invite[req[s].inv].role
        BY <2>1, <2>6, <3>2 DEF AcceptCommit, Joined, TypeOK
      <3>4. invite'[req[s].inv].state = "accepted"
        BY <2>1, <2>3, <2>6 DEF AcceptCommit, TypeOK, Invite
      <3>5. QED
        BY <2>3, <3>1, <3>2, <3>3, <3>4 DEF Pending
    <2>7. QED
      BY <2>2, <2>4, <2>5, <2>6, WritingSteps DEF CommitStatus
  <1>2. AuthorityInv /\ [Next]_vars =>
          [\A t \in Txn : req[t].op = "accept" =>
             (Writes(t) => \A w \in Workspace, u \in User : member'[w][u] # member[w][u] =>
                             u = req[t].actor /\ member[w][u] = "none")]_vars
    <2> SUFFICES ASSUME AuthorityInv, Next, NEW t \in Txn, req[t].op = "accept", Writes(t),
                        NEW w \in Workspace, NEW u \in User, member'[w][u] # member[w][u]
                 PROVE  u = req[t].actor /\ member[w][u] = "none"
      OBVIOUS
    <2>1. TypeOK /\ Moves(t)
      BY WriterMoves DEF AuthorityInv
    <2>2. AcceptCommit(t)
      BY <2>1, WritingCommits DEF CreateCommit, RenameCommit, InviteCommit, RevokeCommit,
         ChangeCommit, CommitStatus, At, Lifecycle, AccountOps
    <2>3. QED
      BY <2>1, <2>2 DEF AcceptCommit, Joined, TypeOK
  <1>3. Spec => JoinsOnlyByInvitation
    BY <1>1, AuthorityInvAlways, PTL DEF Spec, JoinsOnlyByInvitation
  <1>4. Spec => AcceptanceNeverUpgrades
    BY <1>2, AuthorityInvAlways, PTL DEF Spec, AcceptanceNeverUpgrades
  <1>5. QED
    BY <1>3, <1>4, PTL DEF AcceptanceAdmits

-----------------------------------------------------------------------------
(* The limits: what create and invite have counted stays an upper bound    *)
(* until they write, under the account's or the workspace's lock.          *)

AllPending  == {i \in Invitation : invite[i].state = "pending"}
InForce(w)  == {i \in Pending(w) : ~invite[i].expired}
FiniteTables == IsFiniteSet(live) /\ IsFiniteSet(AllPending)

\* An id that has not been issued has not expired.
UnissuedIsFresh == \A i \in Unissued : ~invite[i].expired

\* OnePending and PendingBound for every workspace id, used or not.
OneLink   == \A i, j \in AllPending :
               invite[i].ws = invite[j].ws /\ invite[i].email = invite[j].email => i = j
FewLinks  == \A w \in Workspace : Cardinality(InForce(w)) <= PendingLimit

\* What t has counted, and that what it takes for expired is.
Counted(t) ==
  /\ \A i \in asOf[t] : invite[i].expired
  /\ At(t, "commit", {"invite"}) => BelowLimit(t)
  /\ At(t, "commit", {"create"}) => Cardinality(Owned(req[t].actor)) < OwnedLimit

LimitsInv ==
  /\ OwnerInv /\ AuthorityInv
  /\ FiniteTables /\ UnissuedIsFresh /\ OneLink /\ FewLinks
  /\ \A t \in Txn : Counted(t)

\* An invitation that is not issued in this step.
Ages(i) ==
  /\ invite'[i].ws = invite[i].ws /\ invite'[i].email = invite[i].email
  /\ invite[i].expired => invite'[i].expired
  /\ invite'[i].state = "pending" => invite[i].state = "pending"
  /\ invite'[i].state = "unissued" =>
       invite[i].state = "unissued" /\ invite'[i].expired = invite[i].expired

Issues(s, new) ==
  /\ At(s, "commit", {"invite"})
  /\ new \in Unissued
  /\ invite'[new] = [state |-> "pending", ws |-> req[s].ws, email |-> req[s].email,
                     role |-> req[s].role, expired |-> FALSE]
  /\ \A i \in Reissued(req[s]) : invite'[i].state = "revoked"
  /\ \A i \in Invitation \ {new} : Ages(i)

\* An invitation that does not change ages.
LEMMA SameAges == ASSUME NEW i, invite'[i] = invite[i] PROVE Ages(i)
  BY DEF Ages

\* In a step one invitation is issued at most, and the others age.
LEMMA InvitesAge ==
  ASSUME AuthorityInv, Next
  PROVE  \/ \A i \in Invitation : Ages(i)
         \/ \E s \in Txn, new \in Invitation : Issues(s, new) /\ Release(s)
  <1>1. TypeOK
    BY DEF AuthorityInv
  <1>2. ASSUME NEW s \in Txn, AcceptCommit(s) PROVE \A i \in Invitation : Ages(i)
    <2>1. invite[req[s].inv].state = "pending"
      BY <1>2 DEF AuthorityInv, Accepting, AcceptCommit, At
    <2>2. QED
      BY <1>1, <1>2, <2>1 DEF AcceptCommit, Ages, TypeOK, Invite
  <1>3. ASSUME NEW s \in Txn, RevokeCommit(s) PROVE \A i \in Invitation : Ages(i)
    <2>1. CASE invite' = invite
      BY <2>1, SameAges
    <2>2. CASE invite' = [invite EXCEPT ![req[s].inv].state = "revoked"]
      BY <1>1, <2>2 DEF Ages, TypeOK, Invite
    <2>3. QED
      BY <1>3, <2>1, <2>2 DEF RevokeCommit, Refuse, data
  <1>4. ASSUME NEW j \in Invitation, Expire(j) PROVE \A i \in Invitation : Ages(i)
    BY <1>1, <1>4 DEF Expire, Ages, TypeOK, Invite
  <1>5. ASSUME NEW s \in Txn, InviteCommit(s), ~Refuse(s)
        PROVE  \E new \in Invitation : Issues(s, new) /\ Release(s)
    <2>1. PICK new \in Unissued :
            invite' = [i \in Invitation |->
              IF i = new THEN [state |-> "pending", ws |-> req[s].ws, email |-> req[s].email,
                               role |-> req[s].role, expired |-> FALSE]
              ELSE IF i \in Reissued(req[s]) THEN [invite[i] EXCEPT !.state = "revoked"]
              ELSE invite[i]]
      BY <1>5 DEF InviteCommit
    <2>2. new \in Invitation /\ new \notin Reissued(req[s])
      BY <2>1 DEF Unissued, Reissued, Pending
    <2>3. \A i \in Reissued(req[s]) : i \in Invitation /\ invite[i] \in Invite
      BY <1>1 DEF Reissued, Pending, TypeOK
    <2>4. \A i \in Reissued(req[s]) : invite'[i].state = "revoked"
      BY <2>1, <2>2, <2>3 DEF Invite
    <2>5. ASSUME NEW i \in Invitation \ {new} PROVE Ages(i)
      <3>1. CASE i \in Reissued(req[s])
        BY <2>1, <2>3, <3>1 DEF Ages, Invite
      <3>2. CASE i \notin Reissued(req[s])
        BY <2>1, <3>2, SameAges
      <3>3. QED
        BY <3>1, <3>2
    <2>6. QED
      BY <1>5, <2>1, <2>2, <2>4, <2>5 DEF Issues, InviteCommit
  <1>6. CASE UNCHANGED invite
    BY <1>6, SameAges
  <1>7. ASSUME NEW s \in Txn, Moves(s), InviteCommit(s) \/ UNCHANGED invite
        PROVE  \/ \A i \in Invitation : Ages(i)
               \/ \E new \in Invitation : Issues(s, new) /\ Release(s)
    <2>1. CASE UNCHANGED invite
      BY <2>1, SameAges
    <2>2. CASE InviteCommit(s) /\ ~Refuse(s)
      BY <1>5, <2>2
    <2>3. CASE Refuse(s)
      BY <2>3, SameAges DEF Refuse, data
    <2>4. QED
      BY <1>7, <2>1, <2>2, <2>3
  <1>8. CASE \E s \in Txn : Moves(s)
    <2>1. PICK s \in Txn : Moves(s)
      BY <1>8
    <2>2. QED
      BY <2>1, <1>2, <1>3, <1>7, InviteWriters
  <1>9. QED
    BY <1>4, <1>6, <1>8 DEF Next, Moves, DeadlockVictim, Fail, ChangeEmail

\* The links of a step in which none is issued were there before.
LEMMA AgeingShrinks ==
  ASSUME AuthorityInv, LimitsInv, TypeOK', \A i \in Invitation : Ages(i)
  PROVE  IsFiniteSet(AllPending)' /\ UnissuedIsFresh' /\ OneLink' /\ FewLinks'
  <1>1. AllPending' \subseteq AllPending /\ IsFiniteSet(AllPending)
    BY DEF AllPending, Ages, LimitsInv, FiniteTables
  <1>2. IsFiniteSet(AllPending)'
    BY <1>1, FS_Subset
  <1>3. UnissuedIsFresh' /\ OneLink'
    BY <1>1 DEF UnissuedIsFresh, OneLink, Unissued, LimitsInv, Ages, AllPending
  <1>4. FewLinks'
    <2> SUFFICES ASSUME NEW w \in Workspace PROVE Cardinality(InForce(w)') <= PendingLimit
      BY DEF FewLinks
    <2>1. InForce(w)' \subseteq InForce(w) /\ InForce(w) \subseteq AllPending
      BY DEF InForce, Pending, Ages, AllPending, TypeOK, AuthorityInv, Invite
    <2>2. IsFiniteSet(InForce(w)) /\ IsFiniteSet(InForce(w)')
      BY <1>1, <2>1, FS_Subset
    <2>3. Cardinality(InForce(w)') <= Cardinality(InForce(w))
      BY <2>1, <2>2, FS_Subset
    <2>4. /\ Cardinality(InForce(w)) \in Nat /\ Cardinality(InForce(w)') \in Nat
          /\ Cardinality(InForce(w)) <= PendingLimit /\ PendingLimit \in Nat
      BY <2>2, FS_CardinalityType, SetsAssumption DEF LimitsInv, FewLinks
    <2>5. QED
      BY <2>3, <2>4
  <1>5. QED
    BY <1>2, <1>3, <1>4

\* A link that is issued replaces those of its address and keeps the limit.
LEMMA IssuingKeepsLimits ==
  ASSUME LimitsInv, TypeOK', NEW s \in Txn, NEW new \in Invitation, Issues(s, new)
  PROVE  IsFiniteSet(AllPending)' /\ UnissuedIsFresh' /\ OneLink' /\ FewLinks'
  <1>1. /\ TypeOK /\ FiniteTables /\ UnissuedIsFresh /\ OneLink /\ FewLinks /\ Counted(s)
        /\ new \notin AllPending
    BY DEF LimitsInv, AuthorityInv, Issues, Unissued, AllPending
  <1>2. AllPending' \subseteq AllPending \cup {new} /\ IsFiniteSet(AllPending)
    BY <1>1 DEF AllPending, Issues, Ages, FiniteTables
  <1>3. IsFiniteSet(AllPending)'
    <2>1. IsFiniteSet(AllPending \cup {new})
      BY <1>2, FS_AddElement
    <2>2. QED
      BY <1>2, <2>1, FS_Subset
  <1>4. UnissuedIsFresh'
    BY <1>1 DEF UnissuedIsFresh, Unissued, Issues, Ages
  <1>5. \A i \in AllPending' \ {new} : /\ i \in AllPending /\ i \notin Reissued(req[s]) /\ Ages(i)
    BY <1>2 DEF AllPending, Issues
  <1>6. OneLink'
    <2>1. ASSUME NEW i \in AllPending' \ {new}
          PROVE  ~(invite'[i].ws = req[s].ws /\ invite'[i].email = req[s].email)
      BY <1>5, <2>1 DEF Ages, Reissued, Pending, AllPending
    <2>2. invite'[new].ws = req[s].ws /\ invite'[new].email = req[s].email
      BY DEF Issues
    <2>3. QED
      BY <1>1, <1>5, <2>1, <2>2 DEF OneLink, Ages
  <1>7. FewLinks'
    <2> SUFFICES ASSUME NEW w \in Workspace PROVE Cardinality(InForce(w)') <= PendingLimit
      BY DEF FewLinks
    <2>1. CASE w = req[s].ws
      <3>1. InForce(w)' \subseteq OtherPending(s) \cup {new}
        <4> SUFFICES ASSUME NEW i \in InForce(w)', i # new PROVE i \in OtherPending(s)
          OBVIOUS
        <4>1. i \in AllPending' \ {new}
          BY DEF InForce, Pending, AllPending
        <4>2. /\ i \in AllPending /\ i \notin Reissued(req[s]) /\ invite[i].ws = w
              /\ ~invite[i].expired
          BY <1>1, <1>5, <4>1 DEF Ages, InForce, Pending, TypeOK, Invite
        <4>3. i \notin asOf[s]
          BY <1>1, <4>2 DEF Counted
        <4>4. QED
          BY <2>1, <4>2, <4>3 DEF OtherPending, Reissued, Pending, AllPending
      <3>2. OtherPending(s) \subseteq AllPending
        BY DEF OtherPending, Pending, AllPending
      <3>3. IsFiniteSet(OtherPending(s))
        BY <1>2, <3>2, FS_Subset
      <3>4. /\ IsFiniteSet(OtherPending(s) \cup {new})
            /\ Cardinality(OtherPending(s) \cup {new}) <= Cardinality(OtherPending(s)) + 1
            /\ Cardinality(OtherPending(s)) \in Nat
        <4>1. Cardinality(OtherPending(s)) \in Nat
          BY <3>3, FS_CardinalityType
        <4>2. /\ IsFiniteSet(OtherPending(s) \cup {new})
              /\ \/ Cardinality(OtherPending(s) \cup {new}) = Cardinality(OtherPending(s))
                 \/ Cardinality(OtherPending(s) \cup {new}) = Cardinality(OtherPending(s)) + 1
          BY <3>3, FS_AddElement
        <4>3. QED
          BY <4>1, <4>2
      <3>5. IsFiniteSet(InForce(w)') /\ Cardinality(InForce(w)') <= Cardinality(OtherPending(s) \cup {new})
        BY <3>1, <3>4, FS_Subset
      <3>6. Cardinality(OtherPending(s)) < PendingLimit
        BY <1>1 DEF Issues, Counted, BelowLimit
      <3>7. Cardinality(InForce(w)') \in Nat /\ Cardinality(OtherPending(s) \cup {new}) \in Nat
        BY <3>4, <3>5, FS_CardinalityType
      <3>8. QED
        BY <3>4, <3>5, <3>6, <3>7, SetsAssumption
    <2>2. CASE w # req[s].ws
      <3>1. InForce(w)' \subseteq InForce(w)
        <4> SUFFICES ASSUME NEW i \in InForce(w)' PROVE i \in InForce(w)
          OBVIOUS
        <4>1. i \in AllPending' \ {new}
          BY <2>2 DEF InForce, Pending, AllPending, Issues
        <4>2. QED
          BY <1>1, <1>5, <4>1 DEF Ages, InForce, Pending, AllPending, TypeOK, Invite
      <3>2. IsFiniteSet(InForce(w)) /\ Cardinality(InForce(w)') <= Cardinality(InForce(w))
        <4>1. InForce(w) \subseteq AllPending
          BY DEF InForce, Pending, AllPending
        <4>2. IsFiniteSet(InForce(w))
          BY <1>2, <4>1, FS_Subset
        <4>3. QED
          BY <3>1, <4>2, FS_Subset
      <3>3. /\ Cardinality(InForce(w)) \in Nat /\ Cardinality(InForce(w)') \in Nat
            /\ Cardinality(InForce(w)) <= PendingLimit
        BY <1>1, <3>1, <3>2, FS_Subset, FS_CardinalityType DEF FewLinks
      <3>4. QED
        BY <3>2, <3>3, SetsAssumption
    <2>3. QED
      BY <2>1, <2>2
  <1>8. QED
    BY <1>3, <1>4, <1>6, <1>7

\* A step of s moves nobody else's now().
LEMMA OthersNow ==
  ASSUME TypeOK, NEW s \in Txn, NEW t \in Txn, s # t, Moves(s)
  PROVE  asOf'[t] = asOf[t]
  <1>1. asOf' = asOf \/ \E S : asOf' = [asOf EXCEPT ![s] = S]
    BY DEF Moves, Step, Refuse, Release, EndOf, Begin, Authorize, LockUser, LockAdministration,
       CreateCheck, CreateCommit, RenameCommit, InviteCheck, InviteCommit, RevokeCommit, AcceptLock,
       AcceptCheck, AcceptCommit, ChangeCheck, ChangeDenied, RefuseLastOwner, ChangeCommit,
       OpenTrigger, CommitStatus, VisitOwned
  <1>2. QED
    BY <1>1 DEF TypeOK

\* A count of links stays right while the workspace is locked by another.
LEMMA OthersKeepLinks ==
  ASSUME AuthorityInv, Next, NEW s \in Txn, NEW t \in Txn, s # t, Moves(s),
         At(t, "commit", {"invite"}), BelowLimit(t)
  PROVE  BelowLimit(t)'
  <1>1. TypeOK /\ Authorized(t) /\ Authorized(s) /\ req[t].ws \in Workspace
    BY DEF AuthorityInv, TypeOK, Request
  <1>2. wsLock[req[t].ws] = t
    BY <1>1 DEF At, Authorized, AuthorizedOps, ManageOps
  <1>3. req'[t] = req[t] /\ asOf'[t] = asOf[t]
    BY <1>1, OthersUntouched, OthersNow
  <1>4. \A i \in Pending(req[t].ws) : invite'[i] = invite[i]
    BY <1>2, LockProtectsInvitations DEF Pending
  <1>5. \A i \in Invitation : invite'[i].state = "pending" /\ invite'[i].ws = req[t].ws
                               => i \in Pending(req[t].ws)
    <2> SUFFICES ASSUME NEW i \in Invitation, invite'[i].state = "pending", invite'[i].ws = req[t].ws
                 PROVE  invite[i].state = "pending" /\ invite[i].ws = req[t].ws
      BY DEF Pending
    <2>1. CASE \A j \in Invitation : Ages(j)
      BY <2>1 DEF Ages
    <2>2. ASSUME NEW r \in Txn, NEW new \in Invitation, Issues(r, new), Release(r)
          PROVE  Ages(i)
      <3>1. r = s
        <4>1. pc[r] = "commit" /\ pc'[r] = "idle"
          BY <1>1, <2>2 DEF Issues, At, Release, EndOf, Goto, TypeOK
        <4>2. QED
          BY <1>1, <4>1, OthersUntouched
      <3>2. req[s].ws # req[t].ws
        BY <1>1, <1>2, <2>2, <3>1 DEF Issues, At, Authorized, AuthorizedOps, ManageOps
      <3>3. QED
        BY <2>2, <3>1, <3>2 DEF Issues
    <2>3. QED
      BY <2>1, <2>2, InvitesAge DEF Ages
  <1>6. OtherPending(t)' = OtherPending(t)
    BY <1>3, <1>4, <1>5 DEF OtherPending, Pending
  <1>7. QED
    BY <1>6 DEF BelowLimit

\* Nor do others add to the workspaces of an account that is locked FOR UPDATE.
LEMMA OthersKeepOwned ==
  ASSUME LimitsInv, NEW s \in Txn, NEW t \in Txn, s # t, Moves(s),
         At(t, "commit", {"create"}), Cardinality(Owned(req[t].actor)) < OwnedLimit
  PROVE  Cardinality(Owned(req[t].actor)') < OwnedLimit
  <1>1. /\ OwnerInv /\ HeldLocks(t) /\ IsFiniteSet(live) /\ req[t].user = req[t].actor
        /\ req[t].actor \in User
    BY RequestAssumption DEF LimitsInv, OwnerInv, FiniteTables, RequestsServed, At, TypeOK, Request
  <1>2. Owned(req[t].actor)' \subseteq Owned(req[t].actor)
    <2> SUFFICES ASSUME NEW u \in User, u = req[t].user PROVE Owned(u)' \subseteq Owned(u)
      <3>1. TypeOK /\ req'[t] = req[t]
        BY <1>1, OthersUntouched DEF OwnerInv
      <3>2. QED
        BY <1>1, <3>1 DEF Owned
    <2>1. userLock[t] = "X"
      BY <1>1 DEF HeldLocks, At
    <2>2. QED
      BY <1>1, <2>1, LockProtectsAccount
  <1>3. IsFiniteSet(Owned(req[t].actor))
    BY <1>1, FS_Subset DEF Owned
  <1>4. /\ Cardinality(Owned(req[t].actor)') <= Cardinality(Owned(req[t].actor))
        /\ IsFiniteSet(Owned(req[t].actor)')
    BY <1>2, <1>3, FS_Subset
  <1>5. Cardinality(Owned(req[t].actor)') \in Nat /\ Cardinality(Owned(req[t].actor)) \in Nat
    BY <1>3, <1>4, FS_CardinalityType
  <1>6. QED
    BY <1>4, <1>5, SetsAssumption

\* An invitation that has expired stays so.
LEMMA ExpiredStays ==
  ASSUME LimitsInv, Next, NEW i \in Invitation, invite[i].expired
  PROVE  invite'[i].expired
  <1>1. i \notin Unissued
    BY DEF LimitsInv, UnissuedIsFresh
  <1>2. Ages(i)
    BY <1>1, InvitesAge DEF LimitsInv, Issues
  <1>3. QED
    BY <1>2 DEF Ages

\* A transaction's own steps count, and write at once what they have counted.
LEMMA SelfCounts ==
  ASSUME LimitsInv, Next, NEW s \in Txn, Moves(s)
  PROVE  Counted(s)'
  <1>1. TypeOK /\ Counted(s) /\ asOf[s] \subseteq Invitation /\ req[s] \in Request
    BY DEF LimitsInv, AuthorityInv, TypeOK
  <1>2. \A i \in asOf[s] : invite'[i].expired
    BY <1>1, ExpiredStays DEF Counted
  <1>3. CASE Release(s)
    BY <1>1, <1>3 DEF Release, EndOf, Goto, TypeOK, Counted, At
  <1>4. ASSUME NEW r \in Requests, Begin(s, r) PROVE Counted(s)'
    <2>1. /\ invite' = invite /\ pc'[s] = NextStage(r, "idle") /\ r \in Request
          /\ \A i \in asOf'[s] : invite[i].expired
      BY <1>1, <1>4, RequestAssumption DEF Begin, Goto, TypeOK, data
    <2>2. pc'[s] # "commit"
      BY <2>1 DEF NextStage, AccountOps, Request, Lifecycle, WorkspaceOps
    <2>3. QED
      BY <2>1, <2>2 DEF Counted, At
  <1>5. CASE InviteCheck(s) /\ ~Release(s)
    <2>1. /\ UNCHANGED <<data, req, asOf>> /\ BelowLimit(s) /\ req[s].op = "invite"
      BY <1>5 DEF InviteCheck, MayInvite, Refuse, At
    <2>2. BelowLimit(s)'
      BY <2>1 DEF BelowLimit, OtherPending, Pending, data
    <2>3. QED
      BY <1>2, <2>1, <2>2 DEF Counted, At
  <1>6. CASE CreateCheck(s) /\ ~Release(s)
    <2>1. /\ UNCHANGED <<data, req, asOf>> /\ req[s].op = "create"
          /\ Cardinality(Owned(req[s].actor)) < OwnedLimit
      BY <1>6 DEF CreateCheck, Refuse, At
    <2>2. QED
      BY <1>2, <2>1 DEF Counted, At, Owned, data
  <1>7. CASE Step(s) /\ ~Release(s) /\ ~InviteCheck(s) /\ ~CreateCheck(s)
    <2>1. /\ UNCHANGED <<data, req, asOf>>
          /\ \/ pc'[s] = pc[s]
             \/ \E stage \in {"lockAdmin", "lockWs", "lockUser"} :
                  pc[s] = stage /\ pc'[s] = NextStage(req[s], stage)
             \/ req[s].op \notin {"invite", "create"}
      BY <1>1, <1>7 DEF Step, Refuse, Authorize, LockUser, LockAdministration, CreateCommit,
         RenameCommit, InviteCommit, RevokeCommit, AcceptLock, AcceptCheck, AcceptCommit, ChangeCheck,
         ChangeDenied, RefuseLastOwner, ChangeCommit, OpenTrigger, CommitStatus, VisitOwned, At, Goto,
         TypeOK, Lifecycle, AccountOps
    <2>2. At(s, "commit", {"invite", "create"})' => At(s, "commit", {"invite", "create"})
      BY <2>1 DEF At, NextStage, AccountOps
    <2>3. At(s, "commit", {"invite"})' => At(s, "commit", {"invite"}) /\ BelowLimit(s)'
      BY <1>1, <2>1, <2>2 DEF At, Counted, BelowLimit, OtherPending, Pending, data
    <2>4. At(s, "commit", {"create"})' => /\ At(s, "commit", {"create"})
                                          /\ Cardinality(Owned(req[s].actor)') < OwnedLimit
      BY <1>1, <2>1, <2>2 DEF At, Counted, Owned, data
    <2>5. QED
      BY <1>2, <2>1, <2>3, <2>4 DEF Counted, Owned
  <1>8. QED
    BY <1>3, <1>4, <1>5, <1>6, <1>7 DEF Moves, Refuse

\* The tables stay finite: a step adds one workspace at most.
LEMMA LiveStaysFinite ==
  ASSUME IsFiniteSet(live), NEW s \in Txn, Moves(s)
  PROVE  IsFiniteSet(live')
  <1>1. live' = live \/ \E w : live' = live \cup {w}
    BY WritingSteps DEF CreatesWorkspace, AcceptCommit, ChangeCommit, CommitStatus
  <1>2. QED
    BY <1>1, FS_AddElement

\* The invariant of the limits holds in every reachable state.
LEMMA LimitsInvAlways == Spec => []LimitsInv
  <1>1. Init /\ OwnerInv /\ AuthorityInv => LimitsInv
    <2> SUFFICES ASSUME Init, OwnerInv, AuthorityInv PROVE LimitsInv
      OBVIOUS
    <2>1. AllPending = {} /\ live = {} /\ \A w \in Workspace : InForce(w) = {}
      BY DEF Init, EmptyTables, NoInvitation, AllPending, InForce, Pending
    <2>2. UnissuedIsFresh /\ OneLink
      BY <2>1 DEF Init, EmptyTables, NoInvitation, UnissuedIsFresh, OneLink, Unissued
    <2>3. FewLinks
      BY <2>1, FS_EmptySet, SetsAssumption DEF FewLinks
    <2>4. \A t \in Txn : Counted(t)
      BY DEF Init, NoTransaction, Counted, At
    <2>5. QED
      BY <2>1, <2>2, <2>3, <2>4, FS_EmptySet DEF LimitsInv, FiniteTables
  <1>2. LimitsInv /\ (OwnerInv /\ AuthorityInv)' /\ [Next]_vars => LimitsInv'
    <2> SUFFICES ASSUME LimitsInv, (OwnerInv /\ AuthorityInv)', [Next]_vars PROVE LimitsInv'
      OBVIOUS
    <2>1. TypeOK /\ TypeOK' /\ AuthorityInv /\ \A t \in Txn : Counted(t)
      BY DEF LimitsInv, AuthorityInv
    <2>2. CASE UNCHANGED vars
      BY <2>2 DEF LimitsInv, FiniteTables, UnissuedIsFresh, OneLink, FewLinks, Counted, AllPending,
         InForce, Pending, Unissued, BelowLimit, OtherPending, Owned, At, vars, data, ctl
    <2>3. CASE Next
      <3>1. IsFiniteSet(AllPending)' /\ UnissuedIsFresh' /\ OneLink' /\ FewLinks'
        BY <2>1, <2>3, InvitesAge, AgeingShrinks, IssuingKeepsLimits
      <3>2. ASSUME NEW s \in Txn, Moves(s) PROVE LimitsInv'
        <4>1. ASSUME NEW t \in Txn, t # s PROVE Counted(t)'
          <5>1. pc'[t] = pc[t] /\ req'[t] = req[t] /\ asOf'[t] = asOf[t] /\ asOf[t] \subseteq Invitation
            BY <2>1, <3>2, <4>1, OthersUntouched, OthersNow DEF TypeOK
          <5>2. \A i \in asOf[t] : invite'[i].expired
            BY <2>1, <2>3, <5>1, ExpiredStays DEF Counted
          <5>3. At(t, "commit", {"invite"})' => BelowLimit(t)'
            BY <2>1, <2>3, <3>2, <4>1, <5>1, OthersKeepLinks DEF Counted, At
          <5>4. At(t, "commit", {"create"})' => Cardinality(Owned(req[t].actor)') < OwnedLimit
            BY <2>1, <3>2, <4>1, <5>1, OthersKeepOwned DEF Counted, At
          <5>5. QED
            BY <5>1, <5>2, <5>3, <5>4 DEF Counted, Owned
        <4>2. Counted(s)'
          BY <2>3, <3>2, SelfCounts
        <4>3. IsFiniteSet(live')
          BY <3>2, LiveStaysFinite DEF LimitsInv, FiniteTables
        <4>4. QED
          BY <3>1, <4>1, <4>2, <4>3 DEF LimitsInv, FiniteTables
      <3>3. ASSUME UNCHANGED <<status, live, member, ctl>>,
                   \A i \in Invitation : Ages(i) /\ (invite'[i].state = "pending" <=> invite[i].state = "pending")
            PROVE  LimitsInv'
        <4>1. ASSUME NEW t \in Txn PROVE Counted(t)'
          <5>1. pc' = pc /\ req' = req /\ asOf' = asOf /\ asOf[t] \subseteq Invitation
            BY <2>1, <3>3 DEF TypeOK, ctl
          <5>2. OtherPending(t)' = OtherPending(t)
            BY <3>3, <5>1 DEF OtherPending, Pending, Ages
          <5>3. QED
            BY <2>1, <3>3, <5>1, <5>2 DEF Counted, At, BelowLimit, Owned, Ages
        <4>2. QED
          BY <3>1, <3>3, <4>1 DEF LimitsInv, FiniteTables
      <3>4. ASSUME NEW i \in Invitation, Expire(i) PROVE LimitsInv'
        <4>1. \A j \in Invitation : Ages(j) /\ (invite'[j].state = "pending" <=> invite[j].state = "pending")
          <5>1. invite[i] \in Invite /\ invite[i].state = "pending"
            BY <2>1, <3>4 DEF TypeOK, Expire
          <5>2. invite'[i] = [invite[i] EXCEPT !.expired = TRUE]
            BY <2>1, <3>4 DEF TypeOK, Expire
          <5>3. Ages(i) /\ invite'[i].state = "pending"
            BY <5>1, <5>2 DEF Ages, Invite
          <5>4. \A j \in Invitation \ {i} : invite'[j] = invite[j]
            BY <2>1, <3>4 DEF TypeOK, Expire
          <5>5. QED
            BY <5>1, <5>3, <5>4, SameAges
        <4>2. QED
          BY <3>3, <3>4, <4>1 DEF Expire
      <3>5. ASSUME NEW u \in User, NEW e \in Email, ChangeEmail(u, e) PROVE LimitsInv'
        BY <3>3, <3>5, SameAges DEF ChangeEmail
      <3>6. QED
        BY <2>3, <3>2, <3>4, <3>5 DEF Next, Moves, DeadlockVictim, Fail
    <2>4. QED
      BY <2>2, <2>3
  <1>3. QED
    BY <1>1, <1>2, OwnerInvAlways, AuthorityInvAlways, PTL DEF Spec

\* One link per address of a workspace is in force, and no more links than the
\* limit, whatever invites, revocations and expiries meet.
THEOREM LinksAreBounded == Spec => []PendingInvitations
  <1>1. LimitsInv => PendingInvitations
    <2> SUFFICES ASSUME LimitsInv PROVE PendingInvitations
      OBVIOUS
    <2>1. OneLink /\ FewLinks /\ live \subseteq Workspace
      BY DEF LimitsInv, AuthorityInv, TypeOK
    <2>2. OnePending
      BY <2>1 DEF OnePending, OneLink, Pending, AllPending
    <2>3. PendingBound
      BY <2>1 DEF PendingBound, FewLinks, InForce
    <2>4. QED
      BY <2>2, <2>3 DEF PendingInvitations
  <1>2. QED
    BY <1>1, LimitsInvAlways, PTL

\* An account that creates a workspace owned fewer than the limit, although its
\* other creates and its promotions run at the same time.
THEOREM CreationsAreLimited == Spec => CreateWithinLimit
  <1>1. LimitsInv /\ [Next]_vars =>
          [live' # live => \A u \in User, w \in live' \ live :
             member'[w][u] = "owner" => Cardinality(Owned(u)) < OwnedLimit]_vars
    <2> SUFFICES ASSUME LimitsInv, Next, NEW u \in User, NEW w \in live', w \notin live,
                        member'[w][u] = "owner"
                 PROVE  Cardinality(Owned(u)) < OwnedLimit
      OBVIOUS
    <2>1. TypeOK /\ Unborn
      BY DEF LimitsInv, OwnerInv
    <2>2. PICK s \in Txn : Moves(s)
      BY NextMoves
    <2>3. PICK x \in Workspace : CreatesWorkspace(s, x)
      BY <2>2, WritingSteps DEF AcceptCommit, ChangeCommit, CommitStatus
    <2>4. x = w /\ member[w][u] # "owner"
      BY <2>1, <2>3 DEF CreatesWorkspace, Unborn
    <2>5. u = req[s].actor
      BY <2>1, <2>3, <2>4 DEF CreatesWorkspace, TypeOK
    <2>6. QED
      BY <2>3, <2>5 DEF LimitsInv, Counted, CreatesWorkspace
  <1>2. QED
    BY <1>1, LimitsInvAlways, PTL DEF Spec, CreateWithinLimit
=============================================================================
