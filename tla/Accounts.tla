------------------------------ MODULE Accounts ------------------------------
(***************************************************************************)
(* Accounts, their sessions and the links mailed to them: AuthService and  *)
(* UsersService for the account's own requests, AccountsService for those  *)
(* of the administration console.                                          *)
(*                                                                         *)
(* A step is a statement with the row lock it may wait for; what a         *)
(* transaction writes appears in its last step.  A password is the number  *)
(* of the change that set it: bcrypt salts, no two hashes are equal.       *)
(***************************************************************************)
EXTENDS Naturals, FiniteSets

CONSTANTS
  User,        \* account ids
  Session,     \* session ids, each used once
  Link,        \* mailed links
  Txn,         \* requests that may be under way at a time
  NoTxn,       \* holder of a free row
  Requests,    \* the requests made of the system, a subset of Request
  MaxVersion   \* bound: changes of an account

OwnOps   == {"profile", "password", "email", "selfDelete"}  \* with an access token
AdminOps == {"create", "save", "remove"}
LinkOps  == {"reset", "confirm", "confirmNew"}
Request == [op: OwnOps \cup AdminOps \cup LinkOps \cup {"login"},
            user: User,           \* whose row it changes
            actor: User,          \* who sends it
            session: Session, link: Link,
            role: {"keep", "admin", "user"}, status: {"keep", "active", "inactive"},
            newPassword: BOOLEAN] \* of save

ASSUME AccountsAssumption ==
  /\ IsFiniteSet(User) /\ NoTxn \notin Txn /\ MaxVersion \in Nat
  /\ Requests \subseteq Request
  /\ \E r \in Request : TRUE
  /\ \A r \in Requests : r.op \notin AdminOps => r.user = r.actor
  \* AdminAccountDto: creating, the status is not optional
  /\ \A r \in Requests : r.op = "create" => r.status # "keep"

VARIABLES
  status,    \* "none" (no row), "pending", "active", "inactive", "deleted"
  role,      \* "admin" or "user"
  version,   \* updatedAt
  password,  \* the version that set it
  session,   \* rows of session, credential: the password it was opened with
  link,      \* mailed links, bound: the state of the account they are signed with
  pc, req,   \* a request's next statement, and the request
  seen,      \* what validateLogin, the guard or the sender knew when it began
  userLock,  \* holder of an account's row
  adminLock  \* holder of the administrator role's row

accounts == <<status, role, version, password>>
data     == <<accounts, session, link>>
ctl      == <<pc, req, seen, userLock, adminLock>>
vars     == <<data, ctl>>

NoSession == [state |-> "unused", user |-> CHOOSE u \in User : TRUE, credential |-> 0]
NoLink == [kind |-> "unused", user |-> CHOOSE u \in User : TRUE, bound |-> 0]
Idle == CHOOSE r \in Request : TRUE
Nothing == [password |-> 0, version |-> 0, role |-> "user"]

NoRequest ==
  /\ pc = [t \in Txn |-> "idle"]
  /\ req = [t \in Txn |-> Idle]
  /\ seen = [t \in Txn |-> Nothing]
  /\ userLock = [u \in User |-> NoTxn]
  /\ adminLock = NoTxn

\* The seed's administrator and, if configured, its user.
Init ==
  /\ \E admin \in User : \E seed \in {{admin}} \cup {{admin, u} : u \in User} :
       /\ status = [u \in User |-> IF u \in seed THEN "active" ELSE "none"]
       /\ role = [u \in User |-> IF u = admin THEN "admin" ELSE "user"]
  /\ version = [u \in User |-> 0]
  /\ password = [u \in User |-> 0]
  /\ session = [s \in Session |-> NoSession]
  /\ link = [l \in Link |-> NoLink]
  /\ NoRequest

Exists(u) == status[u] \notin {"none", "deleted"}
ActiveAdmins == {u \in User : role[u] = "admin" /\ status[u] = "active"}
Live(s) == session[s].state = "live"

-----------------------------------------------------------------------------
(* Requests                                                                *)

At(t, stage, ops) == pc[t] = stage /\ req[t].op \in ops
Goto(t, stage) == pc' = [pc EXCEPT ![t] = stage]

\* COMMIT, ROLLBACK or the end of a request without a transaction
Release(t) ==
  /\ Goto(t, "idle")
  /\ req' = [req EXCEPT ![t] = Idle]
  /\ seen' = [seen EXCEPT ![t] = Nothing]
  /\ userLock' = [u \in User |-> IF userLock[u] = t THEN NoTxn ELSE userLock[u]]
  /\ adminLock' = IF adminLock = t THEN NoTxn ELSE adminLock

Refuse(t) == Release(t) /\ UNCHANGED data

\* JwtStrategy.validate: session, account and role in one query.
Authenticated(r) ==
  /\ Live(r.session) /\ session[r.session].user = r.actor
  /\ status[r.actor] = "active"

\* AccountsService.save and remove before their transaction
SelfRules(r) == r.user = r.actor => r.op = "save" /\ r.status # "inactive"

Admitted(r) ==
  CASE r.op = "login" -> status[r.user] = "active"
    [] r.op = "selfDelete" -> Authenticated(r) /\ role[r.actor] # "admin"
    [] r.op \in OwnOps \ {"selfDelete"} -> Authenticated(r)
    [] r.op \in AdminOps -> Authenticated(r) /\ role[r.actor] = "admin" /\ SelfRules(r)
    [] r.op \in LinkOps -> link[r.link].kind # "unused" /\ link[r.link].user = r.user

Begin(t, r) ==
  /\ pc[t] = "idle"
  /\ Admitted(r)
  /\ req' = [req EXCEPT ![t] = r]
  /\ seen' = [seen EXCEPT ![t] =
                [password |-> password[r.user], version |-> version[r.user], role |-> role[r.actor]]]
  /\ Goto(t, IF r.op \in AdminOps THEN "lockAdmin" ELSE "lockUser")
  /\ UNCHANGED <<data, userLock, adminLock>>

AdminFree_NoLock == TRUE   \* mutant: only the target's row is locked
AdminFree == adminLock = NoTxn

LockAdministration(t) ==
  /\ pc[t] = "lockAdmin"
  /\ AdminFree
  /\ adminLock' = t
  /\ Goto(t, IF req[t].op = "create" THEN "commit" ELSE "lockUser")
  /\ UNCHANGED <<data, req, seen, userLock>>

-----------------------------------------------------------------------------
(* What is decided from the account's row once it is locked                *)

CredentialsHold_NotReread(t) == TRUE   \* mutant: create inserts at once
\* TypeOrmSessionRepository.create
CredentialsHold(t) ==
  status[req[t].user] = "active" /\ password[req[t].user] = seen[t].password

OldPasswordHolds(t) == password[req[t].user] = seen[t].password

\* mutant: the link is verified before updateAtomically locks the row
LinkVerifies_BeforeLock(t) ==
  LET l == link[req[t].link]
  IN  l.bound = IF l.kind = "reset" THEN seen[t].password ELSE seen[t].version
\* The secret of a link contains what it was issued for.
LinkVerifies(t) ==
  LET l == link[req[t].link]
  IN  l.bound = IF l.kind = "reset" THEN password[req[t].user] ELSE version[req[t].user]

LinkAccepted(t) ==
  LET kind == link[req[t].link].kind
      now  == status[req[t].user] IN
  /\ LinkVerifies(t)
  /\ CASE req[t].op = "reset"      -> kind = "reset"
       [] req[t].op = "confirm"    -> kind = "signUp" /\ now = "pending"
       [] req[t].op = "confirmNew" -> kind = "newEmail" /\ now = "active"

\* save: the actor's own role stays
OwnRoleKept(t) ==
  LET r == req[t] IN r.user = r.actor => r.role \in {"keep", role[r.user]}

Accepted(t) ==
  LET r == req[t] IN
  /\ Exists(r.user)
  /\ r.op = "login" => CredentialsHold(t)
  /\ r.op = "password" => OldPasswordHolds(t)
  /\ r.op \in LinkOps => LinkAccepted(t)
  /\ r.op = "save" => OwnRoleKept(t)
  /\ r.op = "remove" => role[r.user] # "admin"

LosesAdmin(t) ==
  LET r == req[t] IN
  r.op = "save" /\ r.user \in ActiveAdmins /\ (r.role = "user" \/ r.status = "inactive")

LockUser(t) ==
  LET u == req[t].user IN
  /\ pc[t] = "lockUser" /\ req[t].op # "selfDelete"
  /\ userLock[u] = NoTxn
  /\ \/ /\ Accepted(t)
        /\ userLock' = [userLock EXCEPT ![u] = t]
        /\ Goto(t, IF LosesAdmin(t) THEN "count" ELSE "commit")
        /\ UNCHANGED <<data, req, seen, adminLock>>
     \/ ~Accepted(t) /\ Refuse(t)

Enough(t) == Cardinality(ActiveAdmins) > 1

CountAdmins(t) ==
  /\ pc[t] = "count"
  /\ \/ Enough(t) /\ Goto(t, "commit") /\ UNCHANGED <<data, req, seen, userLock, adminLock>>
     \/ ~Enough(t) /\ Refuse(t)

-----------------------------------------------------------------------------
(* Commits                                                                 *)

Touch(u) == /\ version[u] < MaxVersion
            /\ version' = [version EXCEPT ![u] = @ + 1]

\* revokeUserSessions
Revoke(u, except) ==
  [s \in Session |->
     IF session[s].user = u /\ Live(s) /\ s \notin except
     THEN [session[s] EXCEPT !.state = "revoked"] ELSE session[s]]

OpenSession(t) ==
  LET u == req[t].user IN
  /\ At(t, "commit", {"login"})
  /\ \E s \in Session :
       /\ session[s].state = "unused"
       /\ session' = [session EXCEPT ![s] = [state |-> "live", user |-> u, credential |-> password[u]]]
  /\ Release(t)
  /\ UNCHANGED <<accounts, link>>

SaveProfile(t) ==
  /\ At(t, "commit", {"profile"})
  /\ Touch(req[t].user)
  /\ Release(t)
  /\ UNCHANGED <<status, role, password, session, link>>

\* The caller's session stays, and from now on stands for the new password.
SetPassword(u, sessions) ==
  /\ Touch(u)
  /\ password' = [password EXCEPT ![u] = version[u] + 1]
  /\ session' = sessions

Kept(t) == Revoke(req[t].user, {req[t].session})

ChangePassword(t) ==
  LET r == req[t]
      kept == Kept(t) IN
  /\ At(t, "commit", {"password"})
  /\ SetPassword(r.user, IF Live(r.session)
                         THEN [kept EXCEPT ![r.session].credential = version[r.user] + 1] ELSE kept)
  /\ Release(t)
  /\ UNCHANGED <<status, role, link>>

Unsent == {l \in Link : link[l].kind = "unused"}
Mail(l, kind, u) ==
  link' = [link EXCEPT ![l] = [kind |-> kind, user |-> u,
                               bound |-> IF kind = "reset" THEN password[u] ELSE version[u]]]

\* The link goes out after the commit, signed with the row update returned.
RequestNewEmail(t) ==
  /\ At(t, "commit", {"email"})
  /\ \E l \in Unsent : Mail(l, "newEmail", req[t].user)
  /\ Release(t)
  /\ UNCHANGED <<accounts, session>>

ResetPassword(t) ==
  /\ At(t, "commit", {"reset"})
  /\ SetPassword(req[t].user, Revoke(req[t].user, {}))
  /\ Release(t)
  /\ UNCHANGED <<status, role, link>>

ConfirmEmail(t) ==
  /\ At(t, "commit", {"confirm"})
  /\ Touch(req[t].user)
  /\ status' = [status EXCEPT ![req[t].user] = "active"]
  /\ Release(t)
  /\ UNCHANGED <<role, password, session, link>>

ConfirmNewEmail(t) ==
  /\ At(t, "commit", {"confirmNew"})
  /\ Touch(req[t].user)
  /\ session' = Revoke(req[t].user, {})
  /\ Release(t)
  /\ UNCHANGED <<status, role, password, link>>

\* DELETE /auth/me: one UPDATE, which waits for the row.
SelfDelete(t) ==
  LET u == req[t].user IN
  /\ At(t, "lockUser", {"selfDelete"})
  /\ userLock[u] = NoTxn
  /\ status' = [status EXCEPT ![u] = "deleted"]
  /\ Release(t)
  /\ UNCHANGED <<role, version, password, session, link>>

Revokes(t) ==
  \/ req[t].newPassword
  \/ req[t].role \notin {"keep", role[req[t].user]}
  \/ req[t].status = "inactive"

\* A role that is the account's already is no change.
Changed(t) == req[t].newPassword \/ req[t].status # "keep" \/ req[t].role \notin {"keep", role[req[t].user]}

SaveAccount(t) ==
  LET r == req[t]
      u == r.user IN
  /\ At(t, "commit", {"save"})
  /\ IF Changed(t) THEN Touch(u) ELSE UNCHANGED version
  /\ role' = [role EXCEPT ![u] = IF r.role = "keep" THEN @ ELSE r.role]
  /\ status' = [status EXCEPT ![u] = IF r.status = "keep" THEN @ ELSE r.status]
  /\ password' = [password EXCEPT ![u] = IF r.newPassword THEN version[u] + 1 ELSE @]
  /\ session' = IF Revokes(t) THEN Revoke(u, {}) ELSE session
  /\ Release(t)
  /\ UNCHANGED link

NewRole(r) == IF r.role = "keep" THEN "user" ELSE r.role

CreateAccount(t) ==
  LET r == req[t] IN
  /\ At(t, "commit", {"create"})
  /\ status[r.user] = "none"
  /\ status' = [status EXCEPT ![r.user] = r.status]
  /\ role' = [role EXCEPT ![r.user] = NewRole(r)]
  /\ Release(t)
  /\ UNCHANGED <<version, password, session, link>>

RemoveAccount(t) ==
  LET u == req[t].user IN
  /\ At(t, "commit", {"remove"})
  /\ status' = [status EXCEPT ![u] = "deleted"]
  /\ session' = Revoke(u, {})
  /\ Release(t)
  /\ UNCHANGED <<role, version, password, link>>

-----------------------------------------------------------------------------
(* One-step requests                                                       *)

\* register: with the link to confirm the address, or active at once
Register(u) ==
  /\ status[u] = "none"
  /\ \/ /\ status' = [status EXCEPT ![u] = "pending"]
        /\ \E l \in Unsent : Mail(l, "signUp", u)
     \/ status' = [status EXCEPT ![u] = "active"] /\ UNCHANGED link
  /\ UNCHANGED <<role, version, password, session, ctl>>

ResendConfirmation(u) ==
  /\ status[u] = "pending"
  /\ \E l \in Unsent : Mail(l, "signUp", u)
  /\ UNCHANGED <<accounts, session, ctl>>

ForgotPassword(u) ==
  /\ Exists(u)
  /\ \E l \in Unsent : Mail(l, "reset", u)
  /\ UNCHANGED <<accounts, session, ctl>>

Logout(s) ==
  /\ Live(s)
  /\ session' = [session EXCEPT ![s].state = "revoked"]
  /\ UNCHANGED <<accounts, link, ctl>>

\* A timeout, a lost connection or the death of the process.
Fail(t) == pc[t] # "idle" /\ Refuse(t)

Commit(t) ==
  \/ OpenSession(t) \/ SaveProfile(t) \/ ChangePassword(t) \/ RequestNewEmail(t)
  \/ ResetPassword(t) \/ ConfirmEmail(t) \/ ConfirmNewEmail(t)
  \/ SelfDelete(t) \/ CreateAccount(t) \/ SaveAccount(t) \/ RemoveAccount(t)

Next ==
  \/ \E t \in Txn : \/ \E r \in Requests : Begin(t, r)
                    \/ LockAdministration(t) \/ LockUser(t) \/ CountAdmins(t)
                    \/ Commit(t) \/ Fail(t)
  \/ \E u \in User : Register(u) \/ ResendConfirmation(u) \/ ForgotPassword(u)
  \/ \E s \in Session : Logout(s)

Spec == Init /\ [][Next]_vars

-----------------------------------------------------------------------------
(* Properties                                                              *)

\* The tables and the requests have their types.
TypeOK ==
  /\ status \in [User -> {"none", "pending", "active", "inactive", "deleted"}]
  /\ role \in [User -> {"admin", "user"}]
  /\ version \in [User -> 0 .. MaxVersion]
  /\ password \in [User -> 0 .. MaxVersion]
  /\ session \in [Session -> [state: {"unused", "live", "revoked"}, user: User,
                              credential: 0 .. MaxVersion]]
  /\ link \in [Link -> [kind: {"unused", "signUp", "newEmail", "reset"}, user: User,
                        bound: 0 .. MaxVersion]]
  /\ pc \in [Txn -> {"idle", "lockAdmin", "lockUser", "count", "commit"}]
  /\ req \in [Txn -> Request]
  /\ seen \in [Txn -> [password: 0 .. MaxVersion, version: 0 .. MaxVersion, role: {"admin", "user"}]]
  /\ userLock \in [User -> Txn \cup {NoTxn}]
  /\ adminLock \in Txn \cup {NoTxn}

\* "Password changes, suspensions, and role reassignment revoke sessions": no
\* session outlives the password it was opened with or the account's activity,
\* a login that verified its password before the change included.
SessionsAreCurrent ==
  \A s \in Session : Live(s) /\ status[session[s].user] # "deleted" =>
    /\ status[session[s].user] = "active"
    /\ session[s].credential = password[session[s].user]

\* The administration console always leaves an active administrator, whoever
\* changes whom at the same time; remove refuses administrators.  An account
\* that deletes itself is not the console's.
ConsoleKeepsAdministrator ==
  (\A u \in User : status[u] = "deleted" => role[u] # "admin") => ActiveAdmins # {}

\* README: the lock "protects the last active administrator".
LastAdministrator == ActiveAdmins # {}

\* A password is replaced by an administrator, or by a request that stands for
\* the one it replaces: of two changes or reset links used at once one fails.
PasswordReplacedKnowingly ==
  [][\A u \in User : password'[u] # password[u] =>
       \E t \in Txn : /\ pc[t] = "commit" /\ pc'[t] = "idle" /\ req[t].user = u
                      /\ CASE req[t].op = "save" -> TRUE
                           [] req[t].op = "password" -> seen[t].password = password[u]
                           [] req[t].op = "reset" -> link[req[t].link].bound = password[u]
                           [] OTHER -> FALSE]_vars

\* "Profile/password/status changes invalidate outstanding confirmation links":
\* a pending account becomes active by a link only if nothing of it has
\* changed since the link was mailed.
ActivationIsFresh ==
  [][\A u \in User, t \in Txn :
       /\ pc[t] = "commit" /\ pc'[t] = "idle" /\ req[t].user = u /\ req[t].op = "confirm"
       /\ status'[u] # status[u]
       => link[req[t].link].bound = version[u] /\ status[u] = "pending"]_vars
=============================================================================
