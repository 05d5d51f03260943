----------------------------- MODULE Workspaces -----------------------------
(***************************************************************************)
(* Organization workspaces: WorkspacesService, the protect_workspace_owner *)
(* trigger, and the account mutations that fire it.                        *)
(*                                                                         *)
(* Every operation is a PostgreSQL transaction at READ COMMITTED.  A step  *)
(* of the model is one statement (with the row lock it may have to wait    *)
(* for); a transaction's writes become visible in its last step, which     *)
(* commits and releases its locks.  A statement that follows a lock wait   *)
(* sees what had been committed when the wait ended.                       *)
(***************************************************************************)
EXTENDS Naturals, FiniteSets

CONSTANTS
  User,         \* accounts
  Workspace,    \* workspace ids; the trigger visits them in their order
  Invitation,   \* invitation ids; each is issued at most once
  Email,        \* normalized addresses
  Name,         \* workspace names
  Txn,          \* database transactions that may be open at a time, one a connection
  NoTxn,        \* the holder of a free row
  Requests,     \* the requests made of the system, a subset of Request
  OwnedLimit,   \* create refuses above it (20 in the code)
  PendingLimit  \* invite refuses above it (100 in the code)

Role  == {"owner", "admin", "member"}
Roles == Role \cup {"none"}      \* "none": no row in workspace_members

WorkspaceOps == {"create", "rename", "invite", "accept", "revoke", "change"}
AccountOps   == {"suspend", "activate", "remove"}   \* administration console
Lifecycle    == AccountOps \cup {"selfDelete"}
Request == [op: WorkspaceOps \cup Lifecycle, actor: User, ws: Workspace,
            user: User, role: Roles, inv: Invitation, email: Email]

ASSUME SetsAssumption ==
  /\ IsFiniteSet(User) /\ Workspace \subseteq Nat
  \* the pool opens at most maxConnections connections (database.options.ts)
  /\ IsFiniteSet(Txn) /\ NoTxn \notin Txn
  /\ OwnedLimit \in Nat /\ PendingLimit \in Nat
ASSUME RequestAssumption ==
  /\ Requests \subseteq Request
  /\ \E r \in Request : TRUE
  \* a request about the caller's own account names it as its target
  /\ \A r \in Requests : r.op \in {"create", "accept", "selfDelete"} => r.user = r.actor
  \* InviteDto admits "admin" and "member" only
  /\ \A r \in Requests : r.op = "invite" => r.role \in {"admin", "member"}

VARIABLES
  status,    \* status[u]: "active", "inactive" or "deleted"
  email,     \* email[u]
  live,      \* workspaces that exist
  member,    \* member[w][u]: role in workspace_members
  name,      \* name[w]
  invite,    \* rows of workspace_invitations
  pc,        \* the statement a transaction is about to execute
  req,       \* the request it serves
  actorRole, \* the role authorize read
  todo,      \* workspaces the trigger has still to visit
  asOf,      \* invitations already expired at the transaction's now()
  wsLock,    \* holder of the FOR UPDATE lock of a workspace row
  userLock,  \* userLock[t]: mode in which t has locked the row of req[t].user
  adminLock  \* holder of the administrator role's row

data == <<status, email, live, member, name, invite>>
ctl  == <<pc, req, actorRole, todo, asOf, wsLock, userLock, adminLock>>
vars == <<data, ctl>>

-----------------------------------------------------------------------------
(* Row locks. "X": FOR UPDATE, "N": FOR NO KEY UPDATE (a plain UPDATE),    *)
(* "S": FOR SHARE, "K": FOR KEY SHARE (a foreign key check).               *)

CompatibleModes == {<<"S", "S">>, <<"S", "K">>, <<"K", "S">>, <<"K", "K">>, <<"N", "K">>, <<"K", "N">>}
Compatible(m, n) == m = "none" \/ <<m, n>> \in CompatibleModes

UserBlockers(t, mode) ==
  {s \in Txn \ {t} : req[s].user = req[t].user /\ ~Compatible(userLock[s], mode)}

WsFree_NoForUpdate(w) == TRUE    \* mutant: the row is read without a lock
WsFree(w) == wsLock[w] = NoTxn

Idle == CHOOSE r \in Request : TRUE

At(t, stage, ops) == pc[t] = stage /\ req[t].op \in ops
Goto(t, stage) == pc' = [pc EXCEPT ![t] = stage]

EndOf(t) ==
  /\ Goto(t, "idle")
  /\ req'       = [req EXCEPT ![t] = Idle]
  /\ actorRole' = [actorRole EXCEPT ![t] = "none"]
  /\ todo'      = [todo EXCEPT ![t] = {}]
  /\ asOf'      = [asOf EXCEPT ![t] = {}]
  /\ userLock'  = [userLock EXCEPT ![t] = "none"]

\* mutant: the connection goes back to the pool with its transaction open
Release_Leak(t) == EndOf(t) /\ UNCHANGED <<wsLock, adminLock>>

\* COMMIT or ROLLBACK: every lock of t is released and t is free again.
Release(t) ==
  /\ EndOf(t)
  /\ wsLock'    = [w \in Workspace |-> IF wsLock[w] = t THEN NoTxn ELSE wsLock[w]]
  /\ adminLock' = IF adminLock = t THEN NoTxn ELSE adminLock

\* An exception: the transaction rolls back.
Refuse(t) == Release(t) /\ UNCHANGED data

-----------------------------------------------------------------------------
(* Queries                                                                 *)

Owners(w)       == {u \in User : member[w][u] = "owner"}
ActiveOwners(w) == {u \in Owners(w) : status[u] = "active"}
Owned(u)        == {w \in live : member[w][u] = "owner"}
Unissued        == {i \in Invitation : invite[i].state = "unissued"}
Pending(w)      == {i \in Invitation : invite[i].state = "pending" /\ invite[i].ws = w}

NoInvitation == [state |-> "unissued", ws |-> Idle.ws, email |-> Idle.email,
                 role |-> "member", expired |-> FALSE]

EmptyTables ==
  /\ status = [u \in User |-> "active"]
  /\ email \in [User -> Email]
  /\ \A u, v \in User : u # v => email[u] # email[v]
  /\ live = {}
  /\ member = [w \in Workspace |-> [u \in User |-> "none"]]
  /\ name \in [Workspace -> Name]
  /\ invite = [i \in Invitation |-> NoInvitation]

NoTransaction ==
  /\ pc = [t \in Txn |-> "idle"]
  /\ req = [t \in Txn |-> Idle]
  /\ actorRole = [t \in Txn |-> "none"]
  /\ todo = [t \in Txn |-> {}]
  /\ asOf = [t \in Txn |-> {}]
  /\ wsLock = [w \in Workspace |-> NoTxn]
  /\ userLock = [t \in Txn |-> "none"]
  /\ adminLock = NoTxn

Init == EmptyTables /\ NoTransaction

-----------------------------------------------------------------------------
(* A request passes the JWT guard, which reads the caller's live status,   *)
(* and opens a transaction, which fixes now().  An unknown workspace or    *)
(* invitation is answered 404 without a lock.                              *)

Known(r) ==
  CASE r.op \in {"rename", "invite", "change"} -> r.ws \in live
    [] r.op = "revoke" -> r.ws \in live /\ invite[r.inv].state # "unissued"
    [] r.op = "accept" -> invite[r.inv].state # "unissued"
    [] OTHER -> TRUE

NextStage(r, stage) ==
  CASE r.op \in AccountOps ->
         IF stage = "idle" THEN "lockAdmin" ELSE IF stage = "lockAdmin" THEN "lockUser" ELSE "update"
    [] r.op = "selfDelete" -> IF stage = "idle" THEN "lockUser" ELSE "update"
    [] r.op = "create" -> IF stage = "idle" THEN "lockUser" ELSE "check"
    [] r.op = "change" ->
         IF stage = "idle" THEN "lockWs"
         ELSE IF stage = "lockWs" /\ r.role # "none" THEN "lockUser" ELSE "check"
    [] r.op \in {"invite", "accept"} -> IF stage = "idle" THEN "lockWs" ELSE "check"
    [] r.op \in {"rename", "revoke"} -> IF stage = "idle" THEN "lockWs" ELSE "commit"

Begin(t, r) ==
  /\ pc[t] = "idle"
  /\ r.op \notin AccountOps => status[r.actor] = "active"
  /\ Known(r)
  /\ Goto(t, NextStage(r, "idle"))
  /\ req' = [req EXCEPT ![t] = r]
  /\ asOf' = [asOf EXCEPT ![t] = IF r.op \in {"invite", "accept"}
                                 THEN {i \in Invitation : invite[i].expired} ELSE {}]
  /\ UNCHANGED <<data, actorRole, todo, wsLock, userLock, adminLock>>

-----------------------------------------------------------------------------
(* authorize: lock the workspace row, then read the actor's membership.    *)

ManageOps == {"rename", "invite", "revoke"}

MayEnter(t) ==
  LET role == member[req[t].ws][req[t].actor]
  IN  role # "none" /\ (req[t].op \in ManageOps => role # "member")

Authorize(t) ==
  /\ At(t, "lockWs", ManageOps \cup {"change"})
  /\ WsFree(req[t].ws)
  /\ \/ /\ MayEnter(t)
        /\ wsLock' = [wsLock EXCEPT ![req[t].ws] = t]
        /\ actorRole' = [actorRole EXCEPT ![t] = member[req[t].ws][req[t].actor]]
        /\ Goto(t, NextStage(req[t], "lockWs"))
        /\ UNCHANGED <<data, req, todo, asOf, userLock, adminLock>>
     \/ ~MayEnter(t) /\ Refuse(t)

(* The statements that lock a row of "user" and test it: create wants the  *)
(* creator active, changeMember the target; lockAccount wants the account  *)
(* to exist; the UPDATE of softDelete finds its row whatever its state.    *)
LockMode_KeyShare(op) ==      \* mutant: FOR UPDATE and FOR SHARE are left out
  CASE op \in {"create", "change"} -> "K" [] op = "selfDelete" -> "N" [] OTHER -> "X"
LockMode(op) ==
  CASE op = "change" -> "S" [] op = "selfDelete" -> "N" [] OTHER -> "X"

RowQualifies(r) ==
  CASE r.op \in {"create", "change"} -> status[r.user] = "active"
    [] r.op = "selfDelete" -> TRUE
    [] OTHER -> status[r.user] # "deleted"

LockUser(t) ==
  LET r == req[t] IN
  /\ pc[t] = "lockUser"
  /\ UserBlockers(t, LockMode(r.op)) = {}
  /\ \/ /\ RowQualifies(r)
        /\ userLock' = [userLock EXCEPT ![t] = LockMode(r.op)]
        /\ Goto(t, NextStage(r, "lockUser"))
        /\ UNCHANGED <<data, req, actorRole, todo, asOf, wsLock, adminLock>>
     \/ ~RowQualifies(r) /\ Refuse(t)

-----------------------------------------------------------------------------
(* create and rename                                                       *)

CreateCheck(t) ==
  /\ At(t, "check", {"create"})
  /\ \/ /\ Cardinality(Owned(req[t].actor)) < OwnedLimit
        /\ Goto(t, "commit")
        /\ UNCHANGED <<data, req, actorRole, todo, asOf, wsLock, userLock, adminLock>>
     \/ Cardinality(Owned(req[t].actor)) >= OwnedLimit /\ Refuse(t)

CreateCommit(t) ==
  /\ At(t, "commit", {"create"})
  /\ \/ /\ \E w \in Workspace \ live, n \in Name :
             /\ live' = live \cup {w}
             /\ member' = [member EXCEPT ![w][req[t].actor] = "owner"]
             /\ name' = [name EXCEPT ![w] = n]
        /\ Release(t)
        /\ UNCHANGED <<status, email, invite>>
     \/ Workspace \subseteq live /\ Refuse(t)   \* bound: no id is left

RenameCommit(t) ==
  /\ At(t, "commit", {"rename"})
  /\ \E n \in Name : name' = [name EXCEPT ![req[t].ws] = n]
  /\ Release(t)
  /\ UNCHANGED <<status, email, live, member, invite>>

-----------------------------------------------------------------------------
(* invite and revoke                                                       *)

OtherPending(t) ==
  {i \in Pending(req[t].ws) : invite[i].email # req[t].email /\ i \notin asOf[t]}

BelowLimit_OffByOne(t) == Cardinality(OtherPending(t)) <= PendingLimit   \* mutant
BelowLimit(t) == Cardinality(OtherPending(t)) < PendingLimit

MayInvite(t) ==
  LET r == req[t] IN
  /\ actorRole[t] = "owner" \/ r.role = "member"
  /\ ~\E u \in User : /\ member[r.ws][u] # "none" /\ email[u] = r.email
                      /\ status[u] # "deleted"
  /\ BelowLimit(t)

InviteCheck(t) ==
  /\ At(t, "check", {"invite"})
  /\ \/ /\ MayInvite(t)
        /\ Goto(t, "commit")
        /\ UNCHANGED <<data, req, actorRole, todo, asOf, wsLock, userLock, adminLock>>
     \/ ~MayInvite(t) /\ Refuse(t)

\* mutant: an expired invitation is left as it is
Reissued_Unexpired(r) == {i \in Pending(r.ws) : invite[i].email = r.email /\ ~invite[i].expired}

\* Every pending invitation of the same address is revoked, expired ones too.
Reissued(r) == {i \in Pending(r.ws) : invite[i].email = r.email}

InviteCommit(t) ==
  LET r == req[t] IN
  /\ At(t, "commit", {"invite"})
  /\ \/ /\ \E new \in Unissued :
             invite' = [i \in Invitation |->
               IF i = new THEN [state |-> "pending", ws |-> r.ws, email |-> r.email,
                                role |-> r.role, expired |-> FALSE]
               ELSE IF i \in Reissued(r) THEN [invite[i] EXCEPT !.state = "revoked"]
               ELSE invite[i]]
        /\ Release(t)
        /\ UNCHANGED <<status, email, live, member, name>>
     \/ Unissued = {} /\ Refuse(t)               \* bound: no id is left

MayRevoke(t) ==
  LET r == req[t] IN
  r.inv \in Pending(r.ws) /\ (actorRole[t] = "owner" \/ invite[r.inv].role = "member")

RevokeCommit(t) ==
  /\ At(t, "commit", {"revoke"})
  /\ \/ /\ MayRevoke(t)
        /\ invite' = [invite EXCEPT ![req[t].inv].state = "revoked"]
        /\ Release(t)
        /\ UNCHANGED <<status, email, live, member, name>>
     \/ ~MayRevoke(t) /\ Refuse(t)

-----------------------------------------------------------------------------
(* accept: the workspace is known from an unlocked read; the invitation is *)
(* read again under the workspace's lock, the account without a lock.      *)

Acceptable_NotReread(t) == TRUE   \* mutant: the first, unlocked read is trusted
Acceptable(t) == invite[req[t].inv].state = "pending" /\ req[t].inv \notin asOf[t]

AcceptLock(t) ==
  LET w == invite[req[t].inv].ws IN
  /\ At(t, "lockWs", {"accept"})
  /\ WsFree(w)
  /\ \/ /\ Acceptable(t)
        /\ wsLock' = [wsLock EXCEPT ![w] = t]
        /\ Goto(t, NextStage(req[t], "lockWs"))
        /\ UNCHANGED <<data, req, actorRole, todo, asOf, userLock, adminLock>>
     \/ ~Acceptable(t) /\ Refuse(t)

IsAddressee(t) ==
  status[req[t].actor] = "active" /\ email[req[t].actor] = invite[req[t].inv].email

AcceptCheck(t) ==
  /\ At(t, "check", {"accept"})
  /\ \/ /\ IsAddressee(t)
        /\ Goto(t, "commit")
        /\ UNCHANGED <<data, req, actorRole, todo, asOf, wsLock, userLock, adminLock>>
     \/ ~IsAddressee(t) /\ Refuse(t)

Joined_DoUpdate(w, u, role) == role   \* mutant: ON CONFLICT DO UPDATE
\* ON CONFLICT DO NOTHING: a present membership keeps its role.
Joined(w, u, role) == IF member[w][u] = "none" THEN role ELSE member[w][u]

AcceptCommit(t) ==
  LET i == req[t].inv
      w == invite[i].ws
      u == req[t].actor IN
  /\ At(t, "commit", {"accept"})
  /\ member[w][u] = "none" => UserBlockers(t, "K") = {}
  /\ member' = [member EXCEPT ![w][u] = Joined(w, u, invite[i].role)]
  /\ invite' = [invite EXCEPT ![i].state = "accepted"]
  /\ Release(t)
  /\ UNCHANGED <<status, email, live, name>>

-----------------------------------------------------------------------------
(* changeMember; the role "none" removes the member                        *)

MayChange(t) ==
  LET r      == req[t]
      target == member[r.ws][r.user] IN
  /\ target # "none"
  /\ \/ r.user = r.actor /\ r.role = "none"
     \/ actorRole[t] = "owner"
     \/ actorRole[t] = "admin" /\ target = "member" /\ r.role \in {"member", "none"}

LosesOwner(r) == member[r.ws][r.user] = "owner" /\ r.role # "owner"

ChangeCheck(t) ==
  /\ At(t, "check", {"change"})
  /\ MayChange(t)
  /\ LosesOwner(req[t]) => Cardinality(ActiveOwners(req[t].ws)) > 1
  /\ Goto(t, "commit")
  /\ UNCHANGED <<data, req, actorRole, todo, asOf, wsLock, userLock, adminLock>>

ChangeDenied(t) ==
  /\ At(t, "check", {"change"})
  /\ ~MayChange(t)
  /\ Refuse(t)

RefuseLastOwner(t) ==
  /\ At(t, "check", {"change"})
  /\ MayChange(t)
  /\ LosesOwner(req[t])
  /\ Cardinality(ActiveOwners(req[t].ws)) <= 1
  /\ Refuse(t)

ChangeCommit(t) ==
  /\ At(t, "commit", {"change"})
  /\ member' = [member EXCEPT ![req[t].ws][req[t].user] = req[t].role]
  /\ Release(t)
  /\ UNCHANGED <<status, email, live, name, invite>>

-----------------------------------------------------------------------------
(* Account status changes.  AccountsService takes the administration lock  *)
(* and the account's row, then updates it; DELETE /auth/me only updates.   *)

LockAdministration(t) ==
  /\ At(t, "lockAdmin", AccountOps)
  /\ adminLock = NoTxn
  /\ adminLock' = t
  /\ Goto(t, NextStage(req[t], "lockAdmin"))
  /\ UNCHANGED <<data, req, actorRole, todo, asOf, wsLock, userLock>>

\* The trigger's loop opens its cursor, unless the account becomes active.
OpenTrigger(t) ==
  /\ At(t, "update", Lifecycle)
  /\ todo' = [todo EXCEPT ![t] = IF req[t].op = "activate" THEN {} ELSE Owned(req[t].user)]
  /\ Goto(t, "trigger")
  /\ UNCHANGED <<data, req, actorRole, asOf, wsLock, userLock, adminLock>>

OtherActiveOwner_AnyStatus(w, u) == \E v \in Owners(w) : v # u   \* mutant: no "statusId"
OtherActiveOwner(w, u) == \E v \in ActiveOwners(w) : v # u

NextOwned_AnyOrder(t, w) == w \in todo[t]   \* mutant: no ORDER BY workspace_id
\* ORDER BY workspace_id
NextOwned(t, w) == w \in todo[t] /\ \A v \in todo[t] : w <= v

VisitOwned(t, w) ==
  /\ At(t, "trigger", Lifecycle)
  /\ NextOwned(t, w)
  /\ WsFree(w)
  /\ \/ /\ OtherActiveOwner(w, req[t].user)
        /\ wsLock' = [wsLock EXCEPT ![w] = t]
        /\ todo' = [todo EXCEPT ![t] = @ \ {w}]
        /\ UNCHANGED <<data, pc, req, actorRole, asOf, userLock, adminLock>>
     \/ ~OtherActiveOwner(w, req[t].user) /\ Refuse(t)

NewStatus_AsGiven(op) == op   \* mutant: the request's word is stored
NewStatus(op) == CASE op = "suspend" -> "inactive" [] op = "activate" -> "active"
                   [] OTHER -> "deleted"

CommitStatus(t) ==
  /\ At(t, "trigger", Lifecycle)
  /\ todo[t] = {}
  /\ status' = [status EXCEPT ![req[t].user] = NewStatus(req[t].op)]
  /\ Release(t)
  /\ UNCHANGED <<email, live, member, name, invite>>

-----------------------------------------------------------------------------
(* The environment                                                         *)

\* The rows a transaction is waiting for are locked by these.
WaitsFor(t) ==
  LET holder(w) == {wsLock[w]} \ {NoTxn} IN
  CASE At(t, "lockWs", {"accept"}) -> holder(invite[req[t].inv].ws)
    [] At(t, "lockWs", WorkspaceOps \ {"accept"}) -> holder(req[t].ws)
    [] pc[t] = "lockAdmin" -> {adminLock} \ {NoTxn}
    [] pc[t] = "lockUser" -> UserBlockers(t, LockMode(req[t].op))
    [] pc[t] = "trigger" -> UNION {holder(w) : w \in {v \in todo[t] : NextOwned(t, v)}}
    [] /\ At(t, "commit", {"accept"})
       /\ member[invite[req[t].inv].ws][req[t].actor] = "none" -> UserBlockers(t, "K")
    [] OTHER -> {}

\* The sets of transactions that wait for one another in cycles.
WaitCycle(C) ==
  /\ C # {}
  /\ \E succ \in [C -> C] :
       /\ \A t \in C : succ[t] \in WaitsFor(t)
       /\ \A s, t \in C : succ[s] = succ[t] => s = t

\* PostgreSQL's deadlock detector cancels a transaction of a cycle.
DeadlockVictim(t) ==
  /\ \E C \in SUBSET Txn : t \in C /\ WaitCycle(C)
  /\ Refuse(t)

\* statement_timeout, a lost connection or the death of the process.
Fail(t) == pc[t] # "idle" /\ Refuse(t)

\* Seven days pass for an invitation.
Expire(i) ==
  /\ invite[i].state = "pending" /\ ~invite[i].expired
  /\ invite' = [invite EXCEPT ![i].expired = TRUE]
  /\ UNCHANGED <<status, email, live, member, name, ctl>>

\* confirmNewEmail: one transaction that locks no other row.
ChangeEmail(u, e) ==
  /\ status[u] # "deleted"
  /\ \A v \in User : email[v] # e
  /\ \A t \in Txn : req[t].user = u => userLock[t] = "none"
  /\ email' = [email EXCEPT ![u] = e]
  /\ UNCHANGED <<status, live, member, name, invite, ctl>>

-----------------------------------------------------------------------------
Step(t) ==
  \/ Authorize(t) \/ LockUser(t) \/ LockAdministration(t)
  \/ CreateCheck(t) \/ CreateCommit(t) \/ RenameCommit(t)
  \/ InviteCheck(t) \/ InviteCommit(t) \/ RevokeCommit(t)
  \/ AcceptLock(t) \/ AcceptCheck(t) \/ AcceptCommit(t)
  \/ ChangeCheck(t) \/ ChangeDenied(t) \/ RefuseLastOwner(t) \/ ChangeCommit(t)
  \/ OpenTrigger(t) \/ CommitStatus(t)
  \/ \E w \in Workspace : VisitOwned(t, w)

Next ==
  \/ \E t \in Txn : \/ \E r \in Requests : Begin(t, r)
                    \/ Step(t) \/ DeadlockVictim(t) \/ Fail(t)
  \/ \E i \in Invitation : Expire(i)
  \/ \E u \in User, e \in Email : ChangeEmail(u, e)

Spec == Init /\ [][Next]_vars

(* A waiter is granted its row in the end: PostgreSQL queues the waiters   *)
(* of a row, so a lock that is free again and again is not denied forever. *)
Fairness == \A t \in Txn : SF_vars(Step(t)) /\ WF_vars(DeadlockVictim(t))
FairSpec == Spec /\ Fairness

-----------------------------------------------------------------------------
(* Properties                                                              *)

Invite == [state: {"unissued", "pending", "accepted", "revoked"}, ws: Workspace,
           email: Email, role: {"admin", "member"}, expired: BOOLEAN]
Stage == {"idle", "lockAdmin", "lockWs", "lockUser", "check", "update", "trigger", "commit"}

\* The tables and the transactions' local state have their types.
TypeOK ==
  /\ status \in [User -> {"active", "inactive", "deleted"}]
  /\ email \in [User -> Email]
  /\ live \subseteq Workspace
  /\ member \in [Workspace -> [User -> Roles]]
  /\ name \in [Workspace -> Name]
  /\ invite \in [Invitation -> Invite]
  /\ pc \in [Txn -> Stage]
  /\ req \in [Txn -> Request]
  /\ actorRole \in [Txn -> Roles]
  /\ todo \in [Txn -> SUBSET Workspace]
  /\ asOf \in [Txn -> SUBSET Invitation]
  /\ wsLock \in [Workspace -> Txn \cup {NoTxn}]
  /\ userLock \in [Txn -> {"none", "X", "N", "S"}]
  /\ adminLock \in Txn \cup {NoTxn}

\* Whatever memberships and accounts change at the same time, a workspace
\* keeps an owner whose account is active (changeMember's lastOwner count and
\* the protect_workspace_owner trigger together).
ActiveOwner == \A w \in live : ActiveOwners(w) # {}

\* workspace_invitations_pending_idx: concurrent invites of one address to
\* one workspace leave a single link in force.
OnePending ==
  \A w \in live : \A i, j \in Pending(w) : invite[i].email = invite[j].email => i = j

\* At most PendingLimit links of a workspace are usable, although each invite
\* counts the others only, and as of its own now().
PendingBound == \A w \in live : Cardinality({i \in Pending(w) : ~invite[i].expired}) <= PendingLimit

\* The links in force, whatever invites, revocations and expiries meet.
PendingInvitations == OnePending /\ PendingBound

\* Waiting is never circular among membership and invitation writes (the
\* comment in accept: "the same lock, in the same order"), nor among status
\* changes of accounts (the trigger's ORDER BY workspace_id): a cycle needs one
\* of each, since a status change locks the account before the workspace.
CyclesAreMixed ==
  \A C \in SUBSET Txn : WaitCycle(C) =>
    /\ \E t \in C : req[t].op \in Lifecycle
    /\ \E t \in C : req[t].op \in WorkspaceOps

\* The step in which t commits what its request wrote.
Writes(t) == pc[t] # "idle" /\ pc'[t] = "idle" /\ data' # data

\* What a request writes to a workspace it writes with the authority its actor
\* holds in that very state, not the one authorize read some statements ago.
HoldsAuthority(t) ==
  LET r     == req[t]
      role  == member[r.ws][r.actor] IN
  CASE r.op = "rename" -> role \in {"owner", "admin"}
    [] r.op = "invite" -> role = "owner" \/ (role = "admin" /\ r.role = "member")
    [] r.op = "revoke" -> role = "owner" \/ (role = "admin" /\ invite[r.inv].role = "member")
    [] r.op = "change" ->
         \/ role = "owner"
         \/ r.user = r.actor /\ r.role = "none" /\ role # "none"
         \/ role = "admin" /\ member[r.ws][r.user] = "member" /\ r.role \in {"member", "none"}
    [] OTHER -> TRUE
AuthorityAtCommit == [][\A t \in Txn : Writes(t) => HoldsAuthority(t)]_vars

\* A membership of an existing workspace begins with an invitation to that
\* workspace and role that was pending and is used up in the same step.
JoinsOnlyByInvitation ==
  [][\A w \in live, u \in User : member[w][u] = "none" /\ member'[w][u] # "none" =>
       \E i \in Pending(w) : invite'[i].state = "accepted" /\ member'[w][u] = invite[i].role]_vars

\* An acceptance changes no membership that exists (an administrator who
\* replays an old link stays what he is), and only its addressee's.
AcceptanceNeverUpgrades ==
  [][\A t \in Txn : req[t].op = "accept" =>
       (Writes(t) => \A w \in Workspace, u \in User : member'[w][u] # member[w][u] =>
                       u = req[t].actor /\ member[w][u] = "none")]_vars

\* Accepting is the only way in, and changes nothing else.
AcceptanceAdmits == JoinsOnlyByInvitation /\ AcceptanceNeverUpgrades

\* A used or revoked link stays so: no race of accept with accept, revoke or a
\* reissue brings it back.
InvitationFinal ==
  [][\A i \in Invitation : invite[i].state \in {"accepted", "revoked"} => invite'[i] = invite[i]]_vars

\* create never leaves its creator with more than OwnedLimit workspaces, even
\* if another of his creates or a promotion runs at the same time.
CreateWithinLimit ==
  [][live' # live => \A u \in User, w \in live' \ live :
        member'[w][u] = "owner" => Cardinality(Owned(u)) < OwnedLimit]_vars

\* A member is made owner only while the account is active: FOR SHARE keeps a
\* concurrent suspension out between the check and the commit.
PromotedIsActive ==
  [][\A w \in live, u \in User :
       member[w][u] # "owner" /\ member'[w][u] = "owner" => status'[u] = "active"]_vars

\* saas-boilerplate.md: an administrator may revoke member invitations (only).
AdminRevokesOnlyMemberInvitations ==
  [][\A i \in Invitation, t \in Txn :
       /\ invite[i].state = "pending" /\ invite'[i].state = "revoked"
       /\ Writes(t) /\ member[invite[i].ws][req[t].actor] = "admin"
       => invite[i].role = "member"]_vars

\* Every transaction ends: neither a lock it waits for nor a cycle of waits
\* holds it forever.
TransactionsEnd == \A t \in Txn : pc[t] # "idle" ~> pc[t] = "idle"
=============================================================================
