---------------------------- MODULE AccountsProofs ----------------------------
(***************************************************************************)
(* Sessions, passwords and the last administrator, for every number of     *)
(* accounts, sessions, links and concurrent requests.                      *)
(***************************************************************************)
EXTENDS Accounts, FiniteSetTheorems, TLAPS

(* The properties are not inductive: a request relies at its commit on what *)
(* it tested under the locks it still holds.                                *)

\* Its account's row is locked from its test to its commit.
HoldsRow(t) == pc[t] \in {"count", "commit"} /\ req[t].op # "create"

DeletedAdmin == \E u \in User : role[u] = "admin" /\ status[u] = "deleted"

Granted(t) ==
  /\ pc[t] # "idle" => req[t] \in Requests
  /\ pc[t] = "count" => req[t].op = "save"
  /\ HoldsRow(t) => userLock[req[t].user] = t /\ Accepted(t)
  /\ req[t].op \in AdminOps /\ pc[t] \in {"lockUser", "count", "commit"} => adminLock = t
  /\ pc[t] = "commit" /\ LosesAdmin(t) =>
       DeletedAdmin \/ \E v \in ActiveAdmins : v # req[t].user
  /\ pc[t] # "idle" /\ req[t].op \in OwnOps =>
       session[req[t].session].state # "unused" /\ session[req[t].session].user = req[t].user
  /\ pc[t] # "idle" /\ req[t].op \in LinkOps => link[req[t].link].kind # "unused"

AccountsInv ==
  /\ TypeOK
  /\ \A t \in Txn : Granted(t)
  /\ DeletedAdmin \/ ActiveAdmins # {}
  /\ SessionsAreCurrent

(* What a step of the request t may do to the rows and to other requests;   *)
(* NoTxn stands for a step that is no request's.                            *)

SameRow(u) == /\ status'[u] = status[u] /\ role'[u] = role[u]
              /\ version'[u] = version[u] /\ password'[u] = password[u]

Others(t) ==
  /\ \A s \in Txn \ {t} : /\ pc'[s] = pc[s] /\ req'[s] = req[s] /\ seen'[s] = seen[s]
                          /\ adminLock = s => adminLock' = s
  /\ \A s \in Txn \ {t} : \A u \in User : userLock[u] = s => userLock'[u] = s

Keeps(t) ==
  /\ \A u \in User : Exists(u) /\ userLock[u] \in Txn \ {t} => SameRow(u)
  /\ \A l \in Link : link[l].kind # "unused" => link'[l] = link[l]
  /\ \A s \in Session : session[s].state # "unused" =>
       session'[s].state # "unused" /\ session'[s].user = session[s].user
  /\ \A u \in User : role[u] = "admin" /\ status[u] = "deleted" =>
       role'[u] = "admin" /\ status'[u] = "deleted"
  /\ adminLock # t => \A v \in ActiveAdmins : v \in ActiveAdmins' \/ DeletedAdmin'

-----------------------------------------------------------------------------
(* Types                                                                    *)

CtlType ==
  /\ pc \in [Txn -> {"idle", "lockAdmin", "lockUser", "count", "commit"}]
  /\ req \in [Txn -> Request]
  /\ seen \in [Txn -> [password: 0 .. MaxVersion, version: 0 .. MaxVersion, role: {"admin", "user"}]]
  /\ userLock \in [User -> Txn \cup {NoTxn}]
  /\ adminLock \in Txn \cup {NoTxn}

AccountsType ==
  /\ status \in [User -> {"none", "pending", "active", "inactive", "deleted"}]
  /\ role \in [User -> {"admin", "user"}]
  /\ version \in [User -> 0 .. MaxVersion]
  /\ password \in [User -> 0 .. MaxVersion]

SessionRow == [state: {"unused", "live", "revoked"}, user: User, credential: 0 .. MaxVersion]
LinkRow == [kind: {"unused", "signUp", "newEmail", "reset"}, user: User, bound: 0 .. MaxVersion]

LEMMA TypeParts ==
  TypeOK <=> /\ CtlType /\ AccountsType
             /\ session \in [Session -> SessionRow] /\ link \in [Link -> LinkRow]
  BY DEF TypeOK, CtlType, AccountsType, SessionRow, LinkRow

LEMMA IdleType == Idle \in Request /\ Nothing \in [password: 0 .. MaxVersion, version: 0 .. MaxVersion, role: {"admin", "user"}]
  BY AccountsAssumption DEF Idle, Nothing

\* The end of a request leaves the others as they are.
LEMMA ReleaseStep ==
  ASSUME CtlType, NEW t \in Txn, Release(t)
  PROVE  Others(t) /\ pc'[t] = "idle" /\ CtlType'
  <1>1. pc' = [pc EXCEPT ![t] = "idle"]
    BY DEF Release, Goto
  <1>2. pc'[t] = "idle"
    BY <1>1 DEF CtlType
  <1>3. \A s \in Txn \ {t} : pc'[s] = pc[s] /\ req'[s] = req[s] /\ seen'[s] = seen[s]
    BY <1>1 DEF Release, CtlType
  <1>4. \A s \in Txn \ {t} : adminLock = s => adminLock' = s
    BY DEF Release
  <1>5. \A s \in Txn \ {t} : \A u \in User : userLock[u] = s => userLock'[u] = s
    BY DEF Release
  <1>6. pc' \in [Txn -> {"idle", "lockAdmin", "lockUser", "count", "commit"}]
    BY <1>1 DEF CtlType
  <1>7. req' \in [Txn -> Request]
    BY IdleType DEF Release, CtlType
  <1>8. seen' \in [Txn -> [password: 0 .. MaxVersion, version: 0 .. MaxVersion, role: {"admin", "user"}]]
    BY IdleType DEF Release, CtlType
  <1>9. userLock' \in [User -> Txn \cup {NoTxn}] /\ adminLock' \in Txn \cup {NoTxn}
    BY DEF Release, CtlType
  <1>10. QED
    BY <1>2, <1>3, <1>4, <1>5, <1>6, <1>7, <1>8, <1>9 DEF Others, CtlType

-----------------------------------------------------------------------------
(* Steps that only read                                                     *)

\* Nothing is written: every fact about the rows stays.
LEMMA DataKept ==
  ASSUME AccountsInv, UNCHANGED data, NEW t
  PROVE  /\ Keeps(t) /\ AccountsType' /\ session' \in [Session -> SessionRow] /\ link' \in [Link -> LinkRow]
         /\ (DeletedAdmin \/ ActiveAdmins # {})' /\ SessionsAreCurrent'
  <1>1. UNCHANGED <<status, role, version, password, session, link>>
    BY DEF data, accounts
  <1>2. AccountsType /\ session \in [Session -> SessionRow] /\ link \in [Link -> LinkRow]
    BY TypeParts DEF AccountsInv
  <1>3. AccountsType' /\ session' \in [Session -> SessionRow] /\ link' \in [Link -> LinkRow]
    BY <1>1, <1>2 DEF AccountsType
  <1>4. ActiveAdmins' = ActiveAdmins /\ (DeletedAdmin <=> DeletedAdmin')
    BY <1>1 DEF ActiveAdmins, DeletedAdmin
  <1>5. SessionsAreCurrent'
    BY <1>1 DEF AccountsInv, SessionsAreCurrent, Live
  <1>6. Keeps(t)
    BY <1>1, <1>4 DEF Keeps, SameRow
  <1>7. QED
    BY <1>3, <1>4, <1>5, <1>6 DEF AccountsInv

\* A test that was passed stays passed while its row, link and request stay.
LEMMA AcceptedKept ==
  ASSUME CtlType, NEW t \in Txn, Accepted(t), req'[t] = req[t], seen'[t] = seen[t],
         SameRow(req[t].user), req[t].op \in LinkOps => link'[req[t].link] = link[req[t].link]
  PROVE  Accepted(t)'
  <1>1. /\ Exists(req[t].user) => Exists(req[t].user)'
        /\ CredentialsHold(t) => CredentialsHold(t)'
        /\ OldPasswordHolds(t) => OldPasswordHolds(t)'
    BY DEF SameRow, Exists, CredentialsHold, OldPasswordHolds
  <1>2. req[t].op \in LinkOps /\ LinkAccepted(t) => LinkAccepted(t)'
    BY DEF SameRow, LinkAccepted, LinkVerifies, LinkOps
  <1>3. OwnRoleKept(t) => OwnRoleKept(t)'
    BY DEF SameRow, OwnRoleKept
  <1>4. QED
    BY <1>1, <1>2, <1>3 DEF Accepted, SameRow

\* Of more than one element, one is not x.
LEMMA AnotherElement ==
  ASSUME NEW S, IsFiniteSet(S), Cardinality(S) > 1, NEW x
  PROVE  \E y \in S : y # x
  <1> SUFFICES ASSUME S \subseteq {x} PROVE FALSE
    OBVIOUS
  <1>1. IsFiniteSet({x}) /\ Cardinality({x}) = 1
    BY FS_Singleton
  <1>2. Cardinality(S) <= 1 /\ Cardinality(S) \in Nat
    BY <1>1, FS_Subset, FS_CardinalityType
  <1>3. QED
    BY <1>2

LEMMA BeginStep ==
  ASSUME AccountsInv, NEW t \in Txn, NEW r \in Requests, Begin(t, r)
  PROVE  CtlType' /\ Others(t) /\ UNCHANGED data /\ Granted(t)'
  <1>1. CtlType /\ r \in Request /\ (r.op \notin AdminOps => r.user = r.actor)
    BY TypeParts, AccountsAssumption DEF AccountsInv
  <1>2. /\ pc' = [pc EXCEPT ![t] = IF r.op \in AdminOps THEN "lockAdmin" ELSE "lockUser"]
        /\ req' = [req EXCEPT ![t] = r] /\ UNCHANGED <<data, userLock, adminLock>>
    BY DEF Begin, Goto
  <1>3. [password |-> password[r.user], version |-> version[r.user], role |-> role[r.actor]]
          \in [password: 0 .. MaxVersion, version: 0 .. MaxVersion, role: {"admin", "user"}]
    BY <1>1, TypeParts DEF AccountsInv, AccountsType, Request
  <1>4. seen' \in [Txn -> [password: 0 .. MaxVersion, version: 0 .. MaxVersion, role: {"admin", "user"}]]
    BY <1>1, <1>3 DEF Begin, CtlType
  <1>5. CtlType'
    BY <1>1, <1>2, <1>4 DEF CtlType
  <1>6. Others(t)
    BY <1>1, <1>2 DEF Begin, Others, CtlType
  <1>7. pc'[t] = (IF r.op \in AdminOps THEN "lockAdmin" ELSE "lockUser") /\ req'[t] = r
    BY <1>1, <1>2 DEF CtlType
  <1>8. session' = session /\ link' = link
    BY <1>2 DEF data
  <1>9. r.op \in OwnOps => session[r.session].state # "unused" /\ session[r.session].user = r.user
    <2> SUFFICES ASSUME r.op \in OwnOps
                 PROVE  session[r.session].state # "unused" /\ session[r.session].user = r.user
      OBVIOUS
    <2>1. Admitted(r) /\ r.op \in {"profile", "password", "email", "selfDelete"}
      BY DEF Begin, OwnOps
    <2>2. Authenticated(r)
      BY <2>1, <1>1 DEF Admitted, OwnOps, AdminOps, LinkOps
    <2>3. QED
      BY <1>1, <2>1, <2>2 DEF Authenticated, Live, AdminOps
  <1>10. r.op \in LinkOps => link[r.link].kind # "unused"
    BY DEF Begin, Admitted, OwnOps, AdminOps, LinkOps
  <1>11. QED
    BY <1>2, <1>5, <1>6, <1>7, <1>8, <1>9, <1>10 DEF Granted, HoldsRow

LEMMA LockAdministrationStep ==
  ASSUME AccountsInv, NEW t \in Txn, LockAdministration(t)
  PROVE  CtlType' /\ Others(t) /\ UNCHANGED data /\ Granted(t)'
  <1>1. CtlType /\ Granted(t)
    BY TypeParts DEF AccountsInv
  <1>2. /\ pc' = [pc EXCEPT ![t] = IF req[t].op = "create" THEN "commit" ELSE "lockUser"]
        /\ adminLock = NoTxn /\ adminLock' = t /\ UNCHANGED <<data, req, seen, userLock>>
        /\ pc[t] = "lockAdmin"
    BY DEF LockAdministration, Goto, AdminFree
  <1>3. CtlType'
    BY <1>1, <1>2 DEF CtlType
  <1>4. Others(t)
    BY <1>1, <1>2, AccountsAssumption DEF Others, CtlType
  <1>5. pc'[t] = IF req[t].op = "create" THEN "commit" ELSE "lockUser"
    BY <1>1, <1>2 DEF CtlType
  <1>6. session' = session /\ link' = link
    BY <1>2 DEF data
  <1>7. pc'[t] = "commit" => ~LosesAdmin(t)'
    BY <1>2, <1>5 DEF LosesAdmin
  <1>8. QED
    BY <1>1, <1>2, <1>3, <1>4, <1>5, <1>6, <1>7 DEF Granted, HoldsRow

LEMMA LockUserStep ==
  ASSUME AccountsInv, NEW t \in Txn, LockUser(t), Accepted(t)
  PROVE  CtlType' /\ Others(t) /\ UNCHANGED data /\ Granted(t)'
  <1>1. CtlType /\ Granted(t) /\ req[t].user \in User
    BY TypeParts DEF AccountsInv, CtlType, Request
  <1>2. /\ pc[t] = "lockUser" /\ userLock[req[t].user] = NoTxn
        /\ userLock' = [userLock EXCEPT ![req[t].user] = t]
        /\ pc' = [pc EXCEPT ![t] = IF LosesAdmin(t) THEN "count" ELSE "commit"]
        /\ UNCHANGED <<data, req, seen, adminLock>>
    BY DEF LockUser, Goto
  <1>3. UNCHANGED <<status, role, version, password, session, link>>
    BY <1>2 DEF data, accounts
  <1>4. CtlType'
    <2>1. userLock' \in [User -> Txn \cup {NoTxn}]
      BY <1>1, <1>2 DEF CtlType
    <2>2. pc' \in [Txn -> {"idle", "lockAdmin", "lockUser", "count", "commit"}]
      BY <1>1, <1>2 DEF CtlType
    <2>3. QED
      BY <1>1, <1>2, <2>1, <2>2 DEF CtlType
  <1>5. Others(t)
    BY <1>1, <1>2, AccountsAssumption DEF Others, CtlType
  <1>6. Accepted(t)'
    <2>1. SameRow(req[t].user)
      BY <1>3 DEF SameRow
    <2>2. QED
      BY <1>1, <1>2, <1>3, <2>1, AcceptedKept
  <1>7. (LosesAdmin(t) <=> LosesAdmin(t)') /\ (LosesAdmin(t) => req[t].op = "save")
    BY <1>2, <1>3 DEF LosesAdmin, ActiveAdmins
  <1>8. /\ pc'[t] = (IF LosesAdmin(t) THEN "count" ELSE "commit")
        /\ userLock'[req[t].user] = t
    BY <1>1, <1>2 DEF CtlType
  <1>9. QED
    BY <1>1, <1>2, <1>3, <1>4, <1>5, <1>6, <1>7, <1>8 DEF Granted, HoldsRow

LEMMA CountAdminsStep ==
  ASSUME AccountsInv, NEW t \in Txn, CountAdmins(t), Enough(t)
  PROVE  CtlType' /\ Others(t) /\ UNCHANGED data /\ Granted(t)'
  <1>1. CtlType /\ Granted(t)
    BY TypeParts DEF AccountsInv
  <1>2. /\ pc[t] = "count" /\ pc' = [pc EXCEPT ![t] = "commit"]
        /\ UNCHANGED <<data, req, seen, userLock, adminLock>>
    BY DEF CountAdmins, Goto
  <1>3. UNCHANGED <<status, role, version, password, session, link>>
    BY <1>2 DEF data, accounts
  <1>4. CtlType' /\ Others(t) /\ pc'[t] = "commit"
    BY <1>1, <1>2 DEF CtlType, Others
  <1>5. Accepted(t)'
    <2>1. SameRow(req[t].user)
      BY <1>3 DEF SameRow
    <2>2. Accepted(t)
      BY <1>1, <1>2 DEF Granted, HoldsRow
    <2>3. QED
      BY <1>1, <1>2, <1>3, <2>1, <2>2, AcceptedKept
  <1>6. \E v \in ActiveAdmins' : v # req'[t].user
    <2>1. IsFiniteSet(ActiveAdmins)
      BY AccountsAssumption, FS_Subset DEF ActiveAdmins
    <2>2. \E v \in ActiveAdmins : v # req[t].user
      BY <2>1, AnotherElement DEF Enough
    <2>3. QED
      BY <1>2, <1>3, <2>2 DEF ActiveAdmins
  <1>7. QED
    BY <1>1, <1>2, <1>3, <1>4, <1>5, <1>6 DEF Granted, HoldsRow

-----------------------------------------------------------------------------
(* Commits                                                                  *)

RowsType == AccountsType /\ session \in [Session -> SessionRow] /\ link \in [Link -> LinkRow]

\* What every step keeps of the rows.
Safe(t) ==
  /\ Keeps(t) /\ RowsType'
  /\ (DeletedAdmin \/ ActiveAdmins # {})' /\ SessionsAreCurrent'

\* Sessions and links are never reused.
RowsStay ==
  /\ \A l \in Link : link[l].kind # "unused" => link'[l] = link[l]
  /\ \A s \in Session : session[s].state # "unused" =>
       session'[s].state # "unused" /\ session'[s].user = session[s].user

\* A commit that changes only the row it has locked, and neither role nor
\* activity unless it is the administration's.
LEMMA OneRow ==
  ASSUME AccountsInv, NEW t \in Txn, HoldsRow(t), RowsStay,
         \A v \in User \ {req[t].user} : SameRow(v),
         \/ req[t].op \in AdminOps
         \/ /\ role'[req[t].user] = role[req[t].user]
            /\ status[req[t].user] = "active" => status'[req[t].user] = "active"
  PROVE  /\ Keeps(t)
         /\ req[t].op \notin AdminOps => (DeletedAdmin \/ ActiveAdmins # {})'
  <1> DEFINE u == req[t].user
  <1>1. u \in User /\ Granted(t) /\ userLock[u] = t /\ Exists(u)
    BY TypeParts DEF AccountsInv, CtlType, Request, Granted, Accepted
  <1>2. \A v \in User : Exists(v) /\ userLock[v] \in Txn \ {t} => SameRow(v)
    BY <1>1
  <1>3. \A v \in User : role[v] = "admin" /\ status[v] = "deleted" => role'[v] = "admin" /\ status'[v] = "deleted"
    BY <1>1 DEF Exists, SameRow
  <1>4. req[t].op \notin AdminOps => \A v \in ActiveAdmins : v \in ActiveAdmins'
    BY <1>1 DEF ActiveAdmins, SameRow
  <1>5. adminLock # t => req[t].op \notin AdminOps
    BY <1>1 DEF Granted, HoldsRow
  <1>6. DeletedAdmin => DeletedAdmin'
    BY <1>3 DEF DeletedAdmin
  <1>7. QED
    BY <1>2, <1>3, <1>4, <1>5, <1>6 DEF Keeps, RowsStay, AccountsInv

LEMMA RevokeFacts ==
  ASSUME session \in [Session -> SessionRow], NEW u, NEW except
  PROVE  /\ Revoke(u, except) \in [Session -> SessionRow]
         /\ \A s \in Session :
              LET new == Revoke(u, except)[s] IN
              /\ new.user = session[s].user /\ new.credential = session[s].credential
              /\ session[s].state # "unused" => new.state # "unused"
              /\ new.state = "live" => Live(s) /\ (session[s].user # u \/ s \in except)
  <1>1. \A s \in Session :
          session[s] \in SessionRow /\ [session[s] EXCEPT !.state = "revoked"] \in SessionRow
    BY DEF SessionRow
  <1>2. Revoke(u, except) \in [Session -> SessionRow]
    BY <1>1 DEF Revoke
  <1>3. ASSUME NEW s \in Session
        PROVE  LET new == Revoke(u, except)[s] IN
               /\ new.user = session[s].user /\ new.credential = session[s].credential
               /\ session[s].state # "unused" => new.state # "unused"
               /\ new.state = "live" => Live(s) /\ (session[s].user # u \/ s \in except)
    BY <1>1 DEF Revoke, SessionRow, Live
  <1>4. QED
    BY <1>2, <1>3

\* The facts every commit but create starts from.
LEMMA AtCommit ==
  ASSUME AccountsInv, NEW t \in Txn, NEW op, At(t, "commit", {op}), op # "create"
  PROVE  /\ RowsType /\ CtlType /\ Granted(t) /\ HoldsRow(t) /\ req[t].op = op
         /\ req[t].user \in User /\ Exists(req[t].user) /\ Accepted(t)
  BY TypeParts DEF AccountsInv, At, RowsType, CtlType, Request, Granted, HoldsRow, Accepted

LEMMA OpenSessionSafe ==
  ASSUME AccountsInv, NEW t \in Txn, OpenSession(t)
  PROVE  Safe(t)
  <1> DEFINE u == req[t].user
  <1>1. /\ RowsType /\ CtlType /\ Granted(t) /\ HoldsRow(t) /\ req[t].op = "login"
        /\ u \in User /\ Accepted(t)
    BY AtCommit DEF OpenSession
  <1>2. status[u] = "active"
    BY <1>1 DEF Accepted, CredentialsHold
  <1>3. UNCHANGED <<status, role, version, password, link>>
    BY DEF OpenSession, accounts
  <1>4. PICK s \in Session :
          /\ session[s].state = "unused"
          /\ session' = [session EXCEPT ![s] = [state |-> "live", user |-> u, credential |-> password[u]]]
    BY DEF OpenSession
  <1>5. RowsType'
    <2>1. [state |-> "live", user |-> u, credential |-> password[u]] \in SessionRow
      BY <1>1 DEF RowsType, AccountsType, SessionRow
    <2>2. session' \in [Session -> SessionRow]
      BY <1>1, <1>4, <2>1 DEF RowsType
    <2>3. QED
      BY <1>1, <1>3, <2>2 DEF RowsType, AccountsType
  <1>6. \A x \in Session : session'[x] = IF x = s THEN [state |-> "live", user |-> u, credential |-> password[u]]
                                         ELSE session[x]
    BY <1>1, <1>4 DEF RowsType
  <1>7. RowsStay
    BY <1>3, <1>4, <1>6 DEF RowsStay
  <1>8. Keeps(t) /\ (DeletedAdmin \/ ActiveAdmins # {})'
    BY <1>1, <1>3, <1>7, OneRow DEF SameRow, AdminOps
  <1>9. SessionsAreCurrent'
    BY <1>2, <1>3, <1>6 DEF AccountsInv, SessionsAreCurrent, Live
  <1>10. QED
    BY <1>5, <1>8, <1>9 DEF Safe

LEMMA TouchFacts ==
  ASSUME AccountsType, NEW u \in User, Touch(u)
  PROVE  /\ version' \in [User -> 0 .. MaxVersion] /\ version[u] + 1 \in 0 .. MaxVersion
         /\ \A v \in User \ {u} : version'[v] = version[v]
  <1>1. version[u] \in 0 .. MaxVersion /\ version[u] < MaxVersion /\ MaxVersion \in Nat
    BY AccountsAssumption DEF AccountsType, Touch
  <1>2. version[u] + 1 \in 0 .. MaxVersion
    BY <1>1
  <1>3. version' = [version EXCEPT ![u] = version[u] + 1]
    BY DEF Touch
  <1>4. QED
    BY <1>2, <1>3 DEF AccountsType

LEMMA SaveProfileSafe ==
  ASSUME AccountsInv, NEW t \in Txn, SaveProfile(t)
  PROVE  Safe(t)
  <1>1. /\ RowsType /\ HoldsRow(t) /\ req[t].op = "profile" /\ req[t].user \in User
        /\ Touch(req[t].user) /\ UNCHANGED <<status, role, password, session, link>>
    BY AtCommit DEF SaveProfile
  <1>2. version' \in [User -> 0 .. MaxVersion] /\ \A v \in User \ {req[t].user} : version'[v] = version[v]
    BY <1>1, TouchFacts DEF RowsType
  <1>3. RowsType' /\ RowsStay
    BY <1>1, <1>2 DEF RowsType, AccountsType, RowsStay
  <1>4. Keeps(t) /\ (DeletedAdmin \/ ActiveAdmins # {})'
    BY <1>1, <1>2, <1>3, OneRow DEF SameRow, AdminOps
  <1>5. SessionsAreCurrent'
    BY <1>1 DEF AccountsInv, SessionsAreCurrent, Live
  <1>6. QED
    BY <1>3, <1>4, <1>5 DEF Safe

\* The account's own password: every session but the kept one is revoked, and
\* that one stands for the new password.
LEMMA ChangePasswordSafe ==
  ASSUME AccountsInv, NEW t \in Txn, ChangePassword(t)
  PROVE  Safe(t)
  <1> DEFINE u == req[t].user
             c == req[t].session
             kept == Revoke(u, {c})
  <1>1. /\ RowsType /\ CtlType /\ Granted(t) /\ HoldsRow(t) /\ req[t].op = "password" /\ u \in User
    BY AtCommit DEF ChangePassword
  <1>2. /\ Touch(u) /\ password' = [password EXCEPT ![u] = version[u] + 1]
        /\ session' = IF Live(c) THEN [kept EXCEPT ![c].credential = version[u] + 1] ELSE kept
        /\ UNCHANGED <<status, role, link>>
    BY DEF ChangePassword, SetPassword, Kept
  <1>3. /\ version' \in [User -> 0 .. MaxVersion] /\ version[u] + 1 \in 0 .. MaxVersion
        /\ \A v \in User \ {u} : version'[v] = version[v]
    BY <1>1, <1>2, TouchFacts DEF RowsType
  <1>4. /\ c \in Session /\ session[c].state # "unused" /\ session[c].user = u
    BY <1>1 DEF CtlType, Request, Granted, HoldsRow, OwnOps
  <1>5. /\ kept \in [Session -> SessionRow]
        /\ \A s \in Session : /\ kept[s].user = session[s].user /\ kept[s].credential = session[s].credential
                              /\ session[s].state # "unused" => kept[s].state # "unused"
                              /\ kept[s].state = "live" => Live(s) /\ (session[s].user # u \/ s = c)
    BY <1>1, RevokeFacts DEF RowsType
  <1>6. /\ session' \in [Session -> SessionRow]
        /\ \A s \in Session : /\ session'[s].state = kept[s].state /\ session'[s].user = kept[s].user
                              /\ s # c => session'[s].credential = kept[s].credential
                              /\ Live(c) => session'[c].credential = version[u] + 1
    <2>1. [kept[c] EXCEPT !.credential = version[u] + 1] \in SessionRow
      BY <1>3, <1>4, <1>5 DEF SessionRow
    <2>2. [kept EXCEPT ![c].credential = version[u] + 1]
            = [kept EXCEPT ![c] = [kept[c] EXCEPT !.credential = version[u] + 1]]
      OBVIOUS
    <2>3. kept[c] \in SessionRow
      BY <1>4, <1>5
    <2>4. /\ [kept[c] EXCEPT !.credential = version[u] + 1].state = kept[c].state
          /\ [kept[c] EXCEPT !.credential = version[u] + 1].user = kept[c].user
          /\ [kept[c] EXCEPT !.credential = version[u] + 1].credential = version[u] + 1
      BY <2>3 DEF SessionRow
    <2> DEFINE new == [kept[c] EXCEPT !.credential = version[u] + 1]
    <2>5. new \in SessionRow /\ new.state = kept[c].state /\ new.user = kept[c].user
          /\ new.credential = version[u] + 1
      BY <2>1, <2>4
    <2>6. session' = IF Live(c) THEN [kept EXCEPT ![c] = new] ELSE kept
      BY <1>2, <2>2
    <2> HIDE DEF new, kept
    <2>7. QED
      BY <1>4, <1>5, <2>5, <2>6
  <1> HIDE DEF kept
  <1>7. \A v \in User : password'[v] = IF v = u THEN version[u] + 1 ELSE password[v]
    BY <1>1, <1>2 DEF RowsType, AccountsType
  <1>8. RowsType'
    <2>1. password' \in [User -> 0 .. MaxVersion]
      BY <1>1, <1>2, <1>3 DEF RowsType, AccountsType
    <2>2. QED
      BY <1>1, <1>2, <1>3, <1>6, <2>1 DEF RowsType, AccountsType
  <1>9. RowsStay
    BY <1>2, <1>5, <1>6 DEF RowsStay
  <1>10. Keeps(t) /\ (DeletedAdmin \/ ActiveAdmins # {})'
    BY <1>1, <1>2, <1>3, <1>7, <1>9, OneRow DEF SameRow, AdminOps
  <1>11. SessionsAreCurrent'
    <2> SUFFICES ASSUME NEW s \in Session, session'[s].state = "live", status'[session'[s].user] # "deleted"
                 PROVE  /\ status'[session'[s].user] = "active"
                        /\ session'[s].credential = password'[session'[s].user]
      BY DEF SessionsAreCurrent, Live
    <2>1. Live(s) /\ session'[s].user = session[s].user /\ (session[s].user # u \/ s = c)
      BY <1>5, <1>6
    <2>2. status[session[s].user] = "active" /\ session[s].credential = password[session[s].user]
      BY <1>2, <2>1 DEF AccountsInv, SessionsAreCurrent
    <2>3. session[s].user \in User
      BY <1>1 DEF RowsType, SessionRow
    <2>4. QED
      BY <1>2, <1>4, <1>5, <1>6, <1>7, <2>1, <2>2, <2>3
  <1>12. QED
    BY <1>8, <1>10, <1>11 DEF Safe

\* Revoking every session of the account that changes.
LEMMA AllRevoked ==
  ASSUME AccountsInv, NEW u \in User, session' = Revoke(u, {}),
         \A v \in User \ {u} : status'[v] = status[v] /\ password'[v] = password[v]
  PROVE  /\ session' \in [Session -> SessionRow] /\ SessionsAreCurrent'
         /\ \A s \in Session : session[s].state # "unused" =>
              session'[s].state # "unused" /\ session'[s].user = session[s].user
  <1>1. session \in [Session -> SessionRow]
    BY TypeParts DEF AccountsInv
  <1>2. /\ session' \in [Session -> SessionRow]
        /\ \A s \in Session : /\ session'[s].user = session[s].user
                              /\ session'[s].credential = session[s].credential
                              /\ session[s].state # "unused" => session'[s].state # "unused"
                              /\ session'[s].state = "live" => Live(s) /\ session[s].user # u
    BY <1>1, RevokeFacts
  <1>3. \A s \in Session : session[s].user \in User
    BY <1>1 DEF SessionRow
  <1>4. SessionsAreCurrent'
    BY <1>2, <1>3 DEF AccountsInv, SessionsAreCurrent, Live
  <1>5. QED
    BY <1>2, <1>4

\* Sessions may stay where passwords stay and no account ceases to be active
\* but by deletion.
LEMMA NoneRevoked ==
  ASSUME AccountsInv, session' = session,
         \A v \in User : /\ password'[v] = password[v]
                         /\ status'[v] # "deleted" => status[v] # "deleted"
                         /\ status'[v] # "deleted" /\ status[v] = "active" => status'[v] = "active"
  PROVE  SessionsAreCurrent'
  <1>1. \A s \in Session : session[s].user \in User
    BY TypeParts DEF AccountsInv, SessionRow
  <1>2. QED
    BY <1>1 DEF AccountsInv, SessionsAreCurrent, Live

LEMMA MailStep ==
  ASSUME RowsType, NEW l \in Unsent, NEW kind \in {"signUp", "newEmail", "reset"}, NEW u \in User,
         Mail(l, kind, u)
  PROVE  /\ link' \in [Link -> LinkRow]
         /\ \A k \in Link : link[k].kind # "unused" => link'[k] = link[k]
  <1> DEFINE new == [kind |-> kind, user |-> u, bound |-> IF kind = "reset" THEN password[u] ELSE version[u]]
  <1>1. link' = [link EXCEPT ![l] = new] /\ l \in Link /\ link[l].kind = "unused"
    BY DEF Mail, Unsent
  <1>2. new \in LinkRow
    BY DEF RowsType, AccountsType, LinkRow
  <1> HIDE DEF new
  <1>3. QED
    BY <1>1, <1>2 DEF RowsType

LEMMA RequestNewEmailSafe ==
  ASSUME AccountsInv, NEW t \in Txn, RequestNewEmail(t)
  PROVE  Safe(t)
  <1>1. /\ RowsType /\ HoldsRow(t) /\ req[t].op = "email" /\ req[t].user \in User
        /\ UNCHANGED <<status, role, version, password, session>>
    BY AtCommit DEF RequestNewEmail, accounts
  <1>2. /\ link' \in [Link -> LinkRow]
        /\ \A k \in Link : link[k].kind # "unused" => link'[k] = link[k]
    BY <1>1, MailStep DEF RequestNewEmail
  <1>3. RowsType' /\ RowsStay
    BY <1>1, <1>2 DEF RowsType, AccountsType, RowsStay
  <1>4. Keeps(t) /\ (DeletedAdmin \/ ActiveAdmins # {})'
    BY <1>1, <1>3, OneRow DEF SameRow, AdminOps
  <1>5. SessionsAreCurrent'
    BY <1>1, NoneRevoked
  <1>6. QED
    BY <1>3, <1>4, <1>5 DEF Safe

LEMMA ResetPasswordSafe ==
  ASSUME AccountsInv, NEW t \in Txn, ResetPassword(t)
  PROVE  Safe(t)
  <1> DEFINE u == req[t].user
  <1>1. RowsType /\ HoldsRow(t) /\ req[t].op = "reset" /\ u \in User
    BY AtCommit DEF ResetPassword
  <1>2. /\ Touch(u) /\ password' = [password EXCEPT ![u] = version[u] + 1]
        /\ session' = Revoke(u, {}) /\ UNCHANGED <<status, role, link>>
    BY DEF ResetPassword, SetPassword
  <1>3. /\ version' \in [User -> 0 .. MaxVersion] /\ version[u] + 1 \in 0 .. MaxVersion
        /\ \A v \in User \ {u} : version'[v] = version[v]
    BY <1>1, <1>2, TouchFacts DEF RowsType
  <1>4. password' \in [User -> 0 .. MaxVersion] /\ \A v \in User \ {u} : password'[v] = password[v]
    BY <1>1, <1>2, <1>3 DEF RowsType, AccountsType
  <1>5. /\ session' \in [Session -> SessionRow] /\ SessionsAreCurrent'
        /\ \A s \in Session : session[s].state # "unused" =>
             session'[s].state # "unused" /\ session'[s].user = session[s].user
    BY <1>1, <1>2, <1>4, AllRevoked
  <1>6. RowsType' /\ RowsStay
    BY <1>1, <1>2, <1>3, <1>4, <1>5 DEF RowsType, AccountsType, RowsStay
  <1>7. Keeps(t) /\ (DeletedAdmin \/ ActiveAdmins # {})'
    BY <1>1, <1>2, <1>3, <1>4, <1>6, OneRow DEF SameRow, AdminOps
  <1>8. QED
    BY <1>5, <1>6, <1>7 DEF Safe

LEMMA ConfirmEmailSafe ==
  ASSUME AccountsInv, NEW t \in Txn, ConfirmEmail(t)
  PROVE  Safe(t)
  <1> DEFINE u == req[t].user
  <1>1. RowsType /\ HoldsRow(t) /\ req[t].op = "confirm" /\ u \in User /\ Exists(u)
    BY AtCommit DEF ConfirmEmail
  <1>2. /\ Touch(u) /\ status' = [status EXCEPT ![u] = "active"]
        /\ UNCHANGED <<role, password, session, link>>
    BY DEF ConfirmEmail
  <1>3. version' \in [User -> 0 .. MaxVersion] /\ \A v \in User \ {u} : version'[v] = version[v]
    BY <1>1, <1>2, TouchFacts DEF RowsType
  <1>4. /\ status' \in [User -> {"none", "pending", "active", "inactive", "deleted"}]
        /\ \A v \in User : status'[v] = IF v = u THEN "active" ELSE status[v]
    BY <1>1, <1>2 DEF RowsType, AccountsType
  <1>5. RowsType' /\ RowsStay
    BY <1>1, <1>2, <1>3, <1>4 DEF RowsType, AccountsType, RowsStay
  <1>6. Keeps(t) /\ (DeletedAdmin \/ ActiveAdmins # {})'
    BY <1>1, <1>2, <1>3, <1>4, <1>5, OneRow DEF SameRow, AdminOps
  <1>7. SessionsAreCurrent'
    BY <1>1, <1>2, <1>4, NoneRevoked DEF Exists
  <1>8. QED
    BY <1>5, <1>6, <1>7 DEF Safe

LEMMA ConfirmNewEmailSafe ==
  ASSUME AccountsInv, NEW t \in Txn, ConfirmNewEmail(t)
  PROVE  Safe(t)
  <1> DEFINE u == req[t].user
  <1>1. /\ RowsType /\ HoldsRow(t) /\ req[t].op = "confirmNew" /\ u \in User
        /\ Touch(u) /\ session' = Revoke(u, {}) /\ UNCHANGED <<status, role, password, link>>
    BY AtCommit DEF ConfirmNewEmail
  <1>2. version' \in [User -> 0 .. MaxVersion] /\ \A v \in User \ {u} : version'[v] = version[v]
    BY <1>1, TouchFacts DEF RowsType
  <1>3. /\ session' \in [Session -> SessionRow] /\ SessionsAreCurrent'
        /\ \A s \in Session : session[s].state # "unused" =>
             session'[s].state # "unused" /\ session'[s].user = session[s].user
    BY <1>1, AllRevoked
  <1>4. RowsType' /\ RowsStay
    BY <1>1, <1>2, <1>3 DEF RowsType, AccountsType, RowsStay
  <1>5. Keeps(t) /\ (DeletedAdmin \/ ActiveAdmins # {})'
    BY <1>1, <1>2, <1>4, OneRow DEF SameRow, AdminOps
  <1>6. QED
    BY <1>3, <1>4, <1>5 DEF Safe

LEMMA SelfDeleteSafe ==
  ASSUME AccountsInv, NEW t \in Txn, SelfDelete(t)
  PROVE  Safe(t)
  <1> DEFINE u == req[t].user
  <1>1. RowsType /\ u \in User
    BY TypeParts DEF AccountsInv, RowsType, CtlType, Request
  <1>2. /\ userLock[u] = NoTxn /\ status' = [status EXCEPT ![u] = "deleted"]
        /\ UNCHANGED <<role, version, password, session, link>>
    BY DEF SelfDelete
  <1>3. /\ status' \in [User -> {"none", "pending", "active", "inactive", "deleted"}]
        /\ \A v \in User : status'[v] = IF v = u THEN "deleted" ELSE status[v]
    BY <1>1, <1>2 DEF RowsType, AccountsType
  <1>4. RowsType'
    BY <1>1, <1>2, <1>3 DEF RowsType, AccountsType
  <1>5. \A v \in ActiveAdmins : v \in ActiveAdmins' \/ DeletedAdmin'
    BY <1>2, <1>3 DEF ActiveAdmins, DeletedAdmin
  <1>6. DeletedAdmin => DeletedAdmin'
    BY <1>2, <1>3 DEF DeletedAdmin
  <1>7. Keeps(t)
    BY <1>2, <1>3, <1>5, AccountsAssumption DEF Keeps, SameRow
  <1>8. SessionsAreCurrent'
    BY <1>2, <1>3, NoneRevoked
  <1>9. QED
    BY <1>4, <1>5, <1>6, <1>7, <1>8 DEF Safe, AccountsInv

LEMMA CreateAccountSafe ==
  ASSUME AccountsInv, NEW t \in Txn, CreateAccount(t)
  PROVE  Safe(t)
  <1> DEFINE r == req[t]
             u == req[t].user
  <1>1. /\ RowsType /\ r \in Request /\ u \in User /\ Granted(t) /\ pc[t] = "commit" /\ r.op = "create"
    BY TypeParts DEF AccountsInv, RowsType, CtlType, Request, CreateAccount, At
  <1>2. adminLock = t /\ r.status \in {"active", "inactive"}
    BY <1>1, AccountsAssumption DEF Granted, AdminOps, Request
  <1>3. /\ status[u] = "none" /\ status' = [status EXCEPT ![u] = r.status]
        /\ role' = [role EXCEPT ![u] = NewRole(r)] /\ UNCHANGED <<version, password, session, link>>
    BY DEF CreateAccount
  <1>4. /\ status' \in [User -> {"none", "pending", "active", "inactive", "deleted"}]
        /\ \A v \in User : status'[v] = IF v = u THEN r.status ELSE status[v]
    BY <1>1, <1>2, <1>3 DEF RowsType, AccountsType
  <1>5. role' \in [User -> {"admin", "user"}] /\ \A v \in User \ {u} : role'[v] = role[v]
    <2>1. NewRole(r) \in {"admin", "user"}
      BY <1>1 DEF NewRole, Request
    <2>2. QED
      BY <1>1, <1>3, <2>1 DEF RowsType, AccountsType
  <1>6. RowsType'
    BY <1>1, <1>3, <1>4, <1>5 DEF RowsType, AccountsType
  <1>7. Keeps(t)
    BY <1>2, <1>3, <1>4, <1>5 DEF Keeps, SameRow, Exists
  <1>8. (DeletedAdmin \/ ActiveAdmins # {})'
    BY <1>3, <1>4, <1>5 DEF AccountsInv, DeletedAdmin, ActiveAdmins
  <1>9. SessionsAreCurrent'
    BY <1>2, <1>3, <1>4, NoneRevoked
  <1>10. QED
    BY <1>6, <1>7, <1>8, <1>9 DEF Safe

LEMMA RemoveAccountSafe ==
  ASSUME AccountsInv, NEW t \in Txn, RemoveAccount(t)
  PROVE  Safe(t)
  <1> DEFINE u == req[t].user
  <1>1. RowsType /\ HoldsRow(t) /\ req[t].op = "remove" /\ u \in User /\ Accepted(t)
    BY AtCommit DEF RemoveAccount
  <1>2. role[u] # "admin"
    BY <1>1 DEF Accepted
  <1>3. /\ status' = [status EXCEPT ![u] = "deleted"] /\ session' = Revoke(u, {})
        /\ UNCHANGED <<role, version, password, link>>
    BY DEF RemoveAccount
  <1>4. /\ status' \in [User -> {"none", "pending", "active", "inactive", "deleted"}]
        /\ \A v \in User : status'[v] = IF v = u THEN "deleted" ELSE status[v]
    BY <1>1, <1>3 DEF RowsType, AccountsType
  <1>5. /\ session' \in [Session -> SessionRow] /\ SessionsAreCurrent'
        /\ \A s \in Session : session[s].state # "unused" =>
             session'[s].state # "unused" /\ session'[s].user = session[s].user
    BY <1>1, <1>3, <1>4, AllRevoked
  <1>6. RowsType' /\ RowsStay
    BY <1>1, <1>3, <1>4, <1>5 DEF RowsType, AccountsType, RowsStay
  <1>7. Keeps(t)
    BY <1>1, <1>3, <1>4, <1>6, OneRow DEF SameRow, AdminOps
  <1>8. (DeletedAdmin \/ ActiveAdmins # {})'
    BY <1>2, <1>3, <1>4 DEF AccountsInv, DeletedAdmin, ActiveAdmins
  <1>9. QED
    BY <1>5, <1>6, <1>7, <1>8 DEF Safe

\* An administrator that loses the role or is suspended leaves another, whom
\* the request counted; everyone else's row is locked or stays.
LEMMA SaveAccountSafe ==
  ASSUME AccountsInv, NEW t \in Txn, SaveAccount(t)
  PROVE  Safe(t)
  <1> DEFINE r == req[t]
             u == req[t].user
  <1>1. /\ RowsType /\ CtlType /\ Granted(t) /\ HoldsRow(t) /\ r.op = "save" /\ u \in User
        /\ Exists(u) /\ pc[t] = "commit" /\ r \in Request
    BY AtCommit DEF SaveAccount, At, CtlType
  <1>2. /\ IF Changed(t) THEN Touch(u) ELSE UNCHANGED version
        /\ role' = [role EXCEPT ![u] = IF r.role = "keep" THEN role[u] ELSE r.role]
        /\ status' = [status EXCEPT ![u] = IF r.status = "keep" THEN status[u] ELSE r.status]
        /\ password' = [password EXCEPT ![u] = IF r.newPassword THEN version[u] + 1 ELSE password[u]]
        /\ session' = IF Revokes(t) THEN Revoke(u, {}) ELSE session
        /\ link' = link
    BY DEF SaveAccount
  <1>3. /\ r.role \in {"keep", "admin", "user"} /\ r.status \in {"keep", "active", "inactive"}
        /\ r.newPassword \in BOOLEAN
    BY <1>1 DEF Request
  <1>4. /\ version' \in [User -> 0 .. MaxVersion] /\ \A v \in User \ {u} : version'[v] = version[v]
        /\ r.newPassword => version[u] + 1 \in 0 .. MaxVersion
    <2>1. CASE Changed(t)
      BY <1>1, <1>2, <2>1, TouchFacts DEF RowsType
    <2>2. CASE ~Changed(t)
      BY <1>1, <1>2, <2>2 DEF RowsType, AccountsType, Changed
    <2>3. QED
      BY <2>1, <2>2
  <1>5. /\ role' \in [User -> {"admin", "user"}]
        /\ \A v \in User : role'[v] = IF v = u /\ r.role # "keep" THEN r.role ELSE role[v]
    BY <1>1, <1>2, <1>3 DEF RowsType, AccountsType
  <1>6. /\ status' \in [User -> {"none", "pending", "active", "inactive", "deleted"}]
        /\ \A v \in User : status'[v] = IF v = u /\ r.status # "keep" THEN r.status ELSE status[v]
    BY <1>1, <1>2, <1>3 DEF RowsType, AccountsType
  <1>7. /\ password' \in [User -> 0 .. MaxVersion]
        /\ \A v \in User : v # u \/ ~r.newPassword => password'[v] = password[v]
    BY <1>1, <1>2, <1>3, <1>4 DEF RowsType, AccountsType
  <1>8. /\ session' \in [Session -> SessionRow] /\ SessionsAreCurrent'
        /\ \A s \in Session : session[s].state # "unused" =>
             session'[s].state # "unused" /\ session'[s].user = session[s].user
    <2>1. CASE Revokes(t)
      BY <1>1, <1>2, <1>6, <1>7, <2>1, AllRevoked
    <2>2. CASE ~Revokes(t)
      <3>1. session' = session /\ ~r.newPassword /\ r.status # "inactive"
        BY <1>2, <2>2 DEF Revokes
      <3>2. status[u] # "deleted"
        BY <1>1 DEF Exists
      <3>3. SessionsAreCurrent'
        BY <1>3, <1>6, <1>7, <3>1, <3>2, NoneRevoked
      <3>4. QED
        BY <1>1, <3>1, <3>3 DEF RowsType
    <2>3. QED
      BY <2>1, <2>2
  <1>9. RowsType' /\ RowsStay
    BY <1>1, <1>2, <1>4, <1>5, <1>6, <1>7, <1>8 DEF RowsType, AccountsType, RowsStay
  <1>10. Keeps(t)
    BY <1>1, <1>4, <1>5, <1>6, <1>7, <1>9, OneRow DEF SameRow, AdminOps
  <1>11. (DeletedAdmin \/ ActiveAdmins # {})'
    <2>1. DeletedAdmin => DeletedAdmin'
      BY <1>1, <1>5, <1>6 DEF DeletedAdmin, Exists
    <2>2. ASSUME NEW v \in ActiveAdmins, v # u
          PROVE  v \in ActiveAdmins'
      BY <1>5, <1>6, <2>2 DEF ActiveAdmins
    <2>3. CASE LosesAdmin(t)
      <3>1. DeletedAdmin \/ \E v \in ActiveAdmins : v # u
        BY <1>1, <2>3 DEF Granted
      <3>2. QED
        BY <2>1, <2>2, <3>1
    <2>4. CASE ~LosesAdmin(t)
      <3>1. u \in ActiveAdmins => r.role # "user" /\ r.status # "inactive"
        BY <1>1, <2>4 DEF LosesAdmin
      <3>2. u \in ActiveAdmins => u \in ActiveAdmins'
        BY <1>3, <1>5, <1>6, <3>1 DEF ActiveAdmins
      <3>3. QED
        BY <2>1, <2>2, <3>2 DEF AccountsInv
    <2>5. QED
      BY <2>3, <2>4
  <1>12. QED
    BY <1>8, <1>9, <1>10, <1>11 DEF Safe

-----------------------------------------------------------------------------
(* Requests of one step                                                     *)

LEMMA RegisterSafe ==
  ASSUME AccountsInv, NEW u \in User, Register(u)
  PROVE  Safe(NoTxn)
  <1>1. RowsType
    BY TypeParts DEF AccountsInv, RowsType
  <1>2. status[u] = "none" /\ UNCHANGED <<role, version, password, session>>
    BY DEF Register
  <1>3. PICK new \in {"pending", "active"} : status' = [status EXCEPT ![u] = new]
    BY DEF Register
  <1>4. /\ status' \in [User -> {"none", "pending", "active", "inactive", "deleted"}]
        /\ \A v \in User : status'[v] = IF v = u THEN new ELSE status[v]
    BY <1>1, <1>3 DEF RowsType, AccountsType
  <1>5. /\ link' \in [Link -> LinkRow]
        /\ \A k \in Link : link[k].kind # "unused" => link'[k] = link[k]
    BY <1>1, MailStep DEF Register, RowsType
  <1>6. RowsType'
    BY <1>1, <1>2, <1>4, <1>5 DEF RowsType, AccountsType
  <1>7. \A v \in ActiveAdmins : v \in ActiveAdmins'
    BY <1>2, <1>4 DEF ActiveAdmins
  <1>8. DeletedAdmin => DeletedAdmin'
    BY <1>2, <1>4 DEF DeletedAdmin
  <1>9. Keeps(NoTxn)
    BY <1>2, <1>4, <1>5, <1>7 DEF Keeps, SameRow, Exists
  <1>10. SessionsAreCurrent'
    BY <1>2, <1>4, NoneRevoked
  <1>11. QED
    BY <1>6, <1>7, <1>8, <1>9, <1>10 DEF Safe, AccountsInv

\* Mail and logout leave the accounts as they are.
LEMMA AccountsStay ==
  ASSUME AccountsInv, UNCHANGED accounts, RowsStay, RowsType', SessionsAreCurrent'
  PROVE  Safe(NoTxn)
  <1>1. UNCHANGED <<status, role, version, password>>
    BY DEF accounts
  <1>2. Keeps(NoTxn)
    BY <1>1 DEF Keeps, RowsStay, SameRow, ActiveAdmins
  <1>3. (DeletedAdmin \/ ActiveAdmins # {})'
    BY <1>1 DEF AccountsInv, DeletedAdmin, ActiveAdmins
  <1>4. QED
    BY <1>2, <1>3 DEF Safe

LEMMA MailSafe ==
  ASSUME AccountsInv, NEW u \in User, ResendConfirmation(u) \/ ForgotPassword(u)
  PROVE  Safe(NoTxn)
  <1>1. RowsType /\ UNCHANGED <<accounts, session>>
    BY TypeParts DEF AccountsInv, RowsType, ResendConfirmation, ForgotPassword
  <1>2. /\ link' \in [Link -> LinkRow]
        /\ \A k \in Link : link[k].kind # "unused" => link'[k] = link[k]
    BY <1>1, MailStep DEF ResendConfirmation, ForgotPassword
  <1>3. RowsType' /\ RowsStay
    BY <1>1, <1>2 DEF RowsType, AccountsType, RowsStay, accounts
  <1>4. SessionsAreCurrent'
    BY <1>1, NoneRevoked DEF accounts
  <1>5. QED
    BY <1>1, <1>3, <1>4, AccountsStay

LEMMA LogoutSafe ==
  ASSUME AccountsInv, NEW s \in Session, Logout(s)
  PROVE  Safe(NoTxn)
  <1>1. RowsType /\ UNCHANGED <<accounts, link>>
    BY TypeParts DEF AccountsInv, RowsType, Logout
  <1>2. PICK new : new = [session[s] EXCEPT !.state = "revoked"]
    OBVIOUS
  <1>3. session' = [session EXCEPT ![s] = new] /\ session[s] \in SessionRow
    BY <1>1, <1>2 DEF Logout, RowsType
  <1>4. new \in SessionRow /\ new.state = "revoked" /\ new.user = session[s].user
    BY <1>2, <1>3 DEF SessionRow
  <1>5. /\ session' \in [Session -> SessionRow]
        /\ \A x \in Session : session'[x] = IF x = s THEN new ELSE session[x]
    BY <1>1, <1>3, <1>4 DEF RowsType
  <1>6. RowsType' /\ RowsStay
    BY <1>1, <1>4, <1>5 DEF RowsType, AccountsType, RowsStay, accounts
  <1>7. SessionsAreCurrent'
    BY <1>1, <1>4, <1>5 DEF AccountsInv, SessionsAreCurrent, Live, accounts
  <1>8. QED
    BY <1>1, <1>6, <1>7, AccountsStay

-----------------------------------------------------------------------------
(* The invariant                                                            *)

\* A safe step of t leaves every other request what it has tested.
LEMMA Preserved ==
  ASSUME AccountsInv, NEW t, Safe(t), Others(t), CtlType', t \in Txn => Granted(t)'
  PROVE  AccountsInv'
  <1>1. TypeOK'
    BY TypeParts DEF Safe, RowsType, TypeOK, CtlType, AccountsType, SessionRow, LinkRow
  <1>2. ASSUME NEW s \in Txn \ {t}
        PROVE  Granted(s)'
    <2> DEFINE u == req[s].user
    <2>1. /\ Granted(s) /\ CtlType /\ req[s] \in Request /\ u \in User
          /\ req[s].session \in Session /\ req[s].link \in Link
      BY TypeParts DEF AccountsInv, CtlType, Request
    <2>2. /\ pc'[s] = pc[s] /\ req'[s] = req[s] /\ seen'[s] = seen[s]
          /\ adminLock = s => adminLock' = s
          /\ userLock[u] = s => userLock'[u] = s
      BY <2>1 DEF Others
    <2>3. Keeps(t)
      BY DEF Safe
    <2>4. HoldsRow(s) => SameRow(u) /\ Accepted(s)
      <3>1. HoldsRow(s) => Accepted(s) /\ userLock[u] = s /\ Exists(u)
        BY <2>1 DEF Granted, Accepted
      <3>2. QED
        BY <2>1, <2>3, <3>1 DEF Keeps
    <2>5. HoldsRow(s)' => HoldsRow(s)
      BY <2>2 DEF HoldsRow
    <2>6. pc[s] # "idle" /\ req[s].op \in LinkOps =>
            link[req[s].link].kind # "unused" /\ link'[req[s].link] = link[req[s].link]
      BY <2>1, <2>3 DEF Granted, Keeps
    <2>7. HoldsRow(s) => Accepted(s)'
      BY <2>1, <2>2, <2>4, <2>6, AcceptedKept DEF HoldsRow
    <2>8. pc[s] = "commit" /\ LosesAdmin(s)' =>
            DeletedAdmin' \/ \E v \in ActiveAdmins' : v # u
      <3> SUFFICES ASSUME pc[s] = "commit", LosesAdmin(s)'
                   PROVE  DeletedAdmin' \/ \E v \in ActiveAdmins' : v # u
        OBVIOUS
      <3>1. req[s].op = "save" /\ HoldsRow(s)
        BY <2>2 DEF LosesAdmin, HoldsRow
      <3>2. LosesAdmin(s)
        BY <2>1, <2>2, <2>4, <3>1 DEF LosesAdmin, ActiveAdmins, SameRow
      <3>3. DeletedAdmin \/ \E v \in ActiveAdmins : v # u
        BY <2>1, <3>2 DEF Granted
      <3>4. adminLock # t
        BY <2>1, <3>1 DEF Granted, AdminOps
      <3>5. DeletedAdmin => DeletedAdmin'
        BY <2>3 DEF Keeps, DeletedAdmin
      <3>6. QED
        BY <2>3, <3>3, <3>4, <3>5 DEF Keeps
    <2>9. pc[s] # "idle" /\ req[s].op \in OwnOps =>
            session'[req[s].session].state # "unused" /\ session'[req[s].session].user = u
      BY <2>1, <2>3 DEF Granted, Keeps
    <2>10. pc[s] # "idle" => req[s] \in Requests
      BY <2>1 DEF Granted
    <2>11. /\ pc[s] = "count" => req[s].op = "save"
           /\ HoldsRow(s) => userLock[u] = s
           /\ req[s].op \in AdminOps /\ pc[s] \in {"lockUser", "count", "commit"} => adminLock = s
      BY <2>1 DEF Granted
    <2>12. QED
      BY <2>2, <2>5, <2>6, <2>7, <2>8, <2>9, <2>10, <2>11 DEF Granted
  <1>3. QED
    BY <1>1, <1>2 DEF AccountsInv, Safe

LEMMA AccountsStart == Init => AccountsInv
  <1> SUFFICES ASSUME Init PROVE AccountsInv
    OBVIOUS
  <1>1. PICK admin \in User : \E seed \in {{admin}} \cup {{admin, u} : u \in User} :
          /\ status = [u \in User |-> IF u \in seed THEN "active" ELSE "none"]
          /\ role = [u \in User |-> IF u = admin THEN "admin" ELSE "user"]
    BY DEF Init
  <1>2. admin \in ActiveAdmins
    BY <1>1 DEF ActiveAdmins
  <1>3. 0 \in 0 .. MaxVersion /\ \E u \in User : TRUE
    BY <1>1, AccountsAssumption
  <1>4. AccountsType
    BY <1>1, <1>3 DEF Init, AccountsType
  <1>5. NoSession \in SessionRow /\ NoSession.state = "unused" /\ NoLink \in LinkRow
    BY <1>3 DEF NoSession, SessionRow, NoLink, LinkRow
  <1>6. /\ session \in [Session -> SessionRow] /\ \A s \in Session : session[s].state = "unused"
        /\ link \in [Link -> LinkRow]
    BY <1>5 DEF Init
  <1>7. CtlType /\ \A t \in Txn : pc[t] = "idle"
    BY IdleType DEF Init, NoRequest, CtlType
  <1>8. \A t \in Txn : Granted(t)
    BY <1>7 DEF Granted, HoldsRow
  <1>9. SessionsAreCurrent
    BY <1>6 DEF SessionsAreCurrent, Live
  <1>10. QED
    BY <1>2, <1>4, <1>6, <1>7, <1>8, <1>9, TypeParts DEF AccountsInv

\* A step that writes nothing.
LEMMA ReadOnly ==
  ASSUME AccountsInv, NEW t \in Txn, CtlType', Others(t), UNCHANGED data, Granted(t)'
  PROVE  AccountsInv'
  <1>1. Safe(t)
    BY DataKept DEF Safe, RowsType
  <1>2. QED
    BY <1>1, Preserved

LEMMA RefusePreserves ==
  ASSUME AccountsInv, NEW t \in Txn, Refuse(t)
  PROVE  AccountsInv'
  <1>1. CtlType' /\ Others(t) /\ pc'[t] = "idle" /\ UNCHANGED data
    BY ReleaseStep, TypeParts DEF AccountsInv, Refuse
  <1>2. Granted(t)'
    BY <1>1 DEF Granted, HoldsRow
  <1>3. QED
    BY <1>1, <1>2, ReadOnly

LEMMA CommitPreserves ==
  ASSUME AccountsInv, NEW t \in Txn, Commit(t)
  PROVE  AccountsInv'
  <1>1. Release(t)
    BY DEF Commit, OpenSession, SaveProfile, ChangePassword, RequestNewEmail, ResetPassword,
           ConfirmEmail, ConfirmNewEmail, SelfDelete, CreateAccount, SaveAccount, RemoveAccount
  <1>2. CtlType' /\ Others(t) /\ pc'[t] = "idle"
    BY <1>1, ReleaseStep, TypeParts DEF AccountsInv
  <1>3. Granted(t)'
    BY <1>2 DEF Granted, HoldsRow
  <1>4. Safe(t)
    BY OpenSessionSafe, SaveProfileSafe, ChangePasswordSafe, RequestNewEmailSafe,
       ResetPasswordSafe, ConfirmEmailSafe, ConfirmNewEmailSafe, SelfDeleteSafe,
       CreateAccountSafe, SaveAccountSafe, RemoveAccountSafe DEF Commit
  <1>5. QED
    BY <1>2, <1>3, <1>4, Preserved

LEMMA OneStepPreserves ==
  ASSUME AccountsInv, Safe(NoTxn), UNCHANGED ctl
  PROVE  AccountsInv'
  <1>1. UNCHANGED <<pc, req, seen, userLock, adminLock>>
    BY DEF ctl
  <1>2. CtlType' /\ Others(NoTxn)
    BY <1>1, TypeParts DEF AccountsInv, CtlType, Others
  <1>3. QED
    BY <1>2, AccountsAssumption, Preserved

LEMMA NextPreserves == AccountsInv /\ [Next]_vars => AccountsInv'
  <1> SUFFICES ASSUME AccountsInv, [Next]_vars PROVE AccountsInv'
    OBVIOUS
  <1>1. CASE UNCHANGED vars
    <2>1. UNCHANGED data /\ UNCHANGED ctl
      BY <1>1 DEF vars
    <2>2. Safe(NoTxn)
      BY <2>1, DataKept DEF Safe, RowsType
    <2>3. QED
      BY <2>1, <2>2, OneStepPreserves
  <1>2. ASSUME NEW t \in Txn, NEW r \in Requests, Begin(t, r)
        PROVE  AccountsInv'
    BY <1>2, BeginStep, ReadOnly
  <1>3. ASSUME NEW t \in Txn, LockAdministration(t)
        PROVE  AccountsInv'
    BY <1>3, LockAdministrationStep, ReadOnly
  <1>4. ASSUME NEW t \in Txn, LockUser(t)
        PROVE  AccountsInv'
    <2>1. CASE Accepted(t)
      BY <1>4, <2>1, LockUserStep, ReadOnly
    <2>2. CASE ~Accepted(t)
      BY <1>4, <2>2, RefusePreserves DEF LockUser
    <2>3. QED
      BY <2>1, <2>2
  <1>5. ASSUME NEW t \in Txn, CountAdmins(t)
        PROVE  AccountsInv'
    <2>1. CASE Enough(t)
      BY <1>5, <2>1, CountAdminsStep, ReadOnly
    <2>2. CASE ~Enough(t)
      BY <1>5, <2>2, RefusePreserves DEF CountAdmins
    <2>3. QED
      BY <2>1, <2>2
  <1>6. ASSUME NEW t \in Txn, Commit(t) \/ Fail(t)
        PROVE  AccountsInv'
    BY <1>6, CommitPreserves, RefusePreserves DEF Fail
  <1>7. ASSUME NEW u \in User, Register(u) \/ ResendConfirmation(u) \/ ForgotPassword(u)
        PROVE  AccountsInv'
    <2>1. UNCHANGED ctl
      BY <1>7 DEF Register, ResendConfirmation, ForgotPassword
    <2>2. QED
      BY <1>7, <2>1, RegisterSafe, MailSafe, OneStepPreserves
  <1>8. ASSUME NEW s \in Session, Logout(s)
        PROVE  AccountsInv'
    <2>1. UNCHANGED ctl
      BY <1>8 DEF Logout
    <2>2. QED
      BY <1>8, <2>1, LogoutSafe, OneStepPreserves
  <1>9. QED
    BY <1>1, <1>2, <1>3, <1>4, <1>5, <1>6, <1>7, <1>8 DEF Next

LEMMA AccountsInvariant == Spec => []AccountsInv
  BY AccountsStart, NextPreserves, PTL DEF Spec

-----------------------------------------------------------------------------
(* Theorems                                                                 *)

\* The tables and the requests always have their types.
THEOREM AccountsTypeCorrect == Spec => []TypeOK
  <1>1. AccountsInv => TypeOK
    BY DEF AccountsInv
  <1>2. QED
    BY <1>1, AccountsInvariant, PTL

\* "Password changes, suspensions, and role reassignment revoke sessions": no
\* live session outlives its account's activity or the password it was opened
\* with, whatever logins, resets and administration run at the same time.
THEOREM SessionsAlwaysCurrent == Spec => []SessionsAreCurrent
  <1>1. AccountsInv => SessionsAreCurrent
    BY DEF AccountsInv
  <1>2. QED
    BY <1>1, AccountsInvariant, PTL

\* Locking the administrator role's row first, AccountsService.save and remove
\* never leave the console without an active administrator.
THEOREM AdministratorRemains == Spec => []ConsoleKeepsAdministrator
  <1>1. AccountsInv => ConsoleKeepsAdministrator
    BY DEF AccountsInv, ConsoleKeepsAdministrator, DeletedAdmin
  <1>2. QED
    BY <1>1, AccountsInvariant, PTL

\* A pending account is confirmed only by a link mailed since its last change,
\* as confirmationSecret promises, for it is verified under the row's lock.
THEOREM ActivationsAreFresh == Spec => ActivationIsFresh
  <1>1. AccountsInv /\ [Next]_vars =>
          [\A u \in User, t \in Txn :
             /\ pc[t] = "commit" /\ pc'[t] = "idle" /\ req[t].user = u /\ req[t].op = "confirm"
             /\ status'[u] # status[u]
             => link[req[t].link].bound = version[u] /\ status[u] = "pending"]_vars
    <2> SUFFICES ASSUME AccountsInv, NEW t \in Txn, pc[t] = "commit", req[t].op = "confirm"
                 PROVE  /\ link[req[t].link].bound = version[req[t].user]
                        /\ status[req[t].user] = "pending"
      OBVIOUS
    <2>1. LinkAccepted(t)
      BY DEF AccountsInv, Granted, HoldsRow, Accepted, LinkOps
    <2>2. LinkVerifies(t) /\ link[req[t].link].kind = "signUp" /\ status[req[t].user] = "pending"
      BY <2>1 DEF LinkAccepted
    <2>3. QED
      BY <2>2 DEF LinkVerifies
  <1>2. QED
    BY <1>1, AccountsInvariant, PTL DEF Spec, ActivationIsFresh

\* Three commits write passwords.
LEMMA PasswordWriter ==
  ASSUME Next, NEW u \in User, password'[u] # password[u]
  PROVE  \E t \in Txn : ChangePassword(t) \/ ResetPassword(t) \/ SaveAccount(t)
  <1> SUFFICES ASSUME \A t \in Txn : ~(ChangePassword(t) \/ ResetPassword(t) \/ SaveAccount(t))
               PROVE  password' = password
    OBVIOUS
  <1>1. ASSUME NEW t \in Txn, NEW r \in Requests, Begin(t, r) PROVE password' = password
    BY <1>1 DEF Begin, data, accounts
  <1>2. ASSUME NEW t \in Txn, LockAdministration(t) \/ LockUser(t) \/ CountAdmins(t) \/ Fail(t)
        PROVE  password' = password
    BY <1>2 DEF LockAdministration, LockUser, CountAdmins, Fail, Refuse, data, accounts
  <1>3. ASSUME NEW t \in Txn, Commit(t) PROVE password' = password
    BY <1>3 DEF Commit, OpenSession, SaveProfile, RequestNewEmail, ConfirmEmail, ConfirmNewEmail,
       SelfDelete, CreateAccount, RemoveAccount, accounts
  <1>4. ASSUME NEW v \in User, Register(v) \/ ResendConfirmation(v) \/ ForgotPassword(v)
        PROVE  password' = password
    BY <1>4 DEF Register, ResendConfirmation, ForgotPassword, accounts
  <1>5. ASSUME NEW s \in Session, Logout(s) PROVE password' = password
    BY <1>5 DEF Logout, accounts
  <1>6. QED
    BY <1>1, <1>2, <1>3, <1>4, <1>5 DEF Next

\* update and resetPassword verify the password they replace under the row's
\* lock: of two that race, the second fails.
THEOREM PasswordsReplacedKnowingly == Spec => PasswordReplacedKnowingly
  <1> DEFINE Knows(t, u) ==
               CASE req[t].op = "save" -> TRUE
                 [] req[t].op = "password" -> seen[t].password = password[u]
                 [] req[t].op = "reset" -> link[req[t].link].bound = password[u]
                 [] OTHER -> FALSE
  <1>1. ASSUME AccountsInv, Next, NEW u \in User, password'[u] # password[u]
        PROVE  \E t \in Txn : /\ pc[t] = "commit" /\ pc'[t] = "idle" /\ req[t].user = u
                              /\ Knows(t, u)
    <2>1. PICK t \in Txn : ChangePassword(t) \/ ResetPassword(t) \/ SaveAccount(t)
      BY <1>1, PasswordWriter
    <2>2. RowsType /\ CtlType
      BY <1>1, TypeParts DEF AccountsInv, RowsType
    <2>3. pc[t] = "commit" /\ req[t].op \in {"password", "reset", "save"} /\ Release(t)
      BY <2>1 DEF ChangePassword, ResetPassword, SaveAccount, At
    <2>4. pc'[t] = "idle"
      BY <2>2, <2>3, ReleaseStep
    <2>5. \A v \in User \ {req[t].user} : password'[v] = password[v]
      BY <2>1, <2>2 DEF ChangePassword, ResetPassword, SaveAccount, SetPassword, RowsType, AccountsType
    <2>6. req[t].user = u
      BY <1>1, <2>5
    <2>7. Accepted(t)
      BY <1>1, <2>3 DEF AccountsInv, Granted, HoldsRow
    <2>8. req[t].op = "password" => seen[t].password = password[u]
      BY <2>6, <2>7 DEF Accepted, OldPasswordHolds
    <2>9. req[t].op = "reset" => link[req[t].link].bound = password[u]
      <3> SUFFICES ASSUME req[t].op = "reset" PROVE link[req[t].link].bound = password[u]
        OBVIOUS
      <3>1. LinkAccepted(t)
        BY <2>7 DEF Accepted, LinkOps
      <3>2. LinkVerifies(t) /\ link[req[t].link].kind = "reset"
        BY <3>1 DEF LinkAccepted
      <3>3. QED
        BY <2>6, <3>2 DEF LinkVerifies
    <2>10. Knows(t, u)
      BY <2>3, <2>8, <2>9
    <2>11. QED
      BY <2>3, <2>4, <2>6, <2>10
  <1>2. AccountsInv /\ [Next]_vars =>
          [\A u \in User : password'[u] # password[u] =>
             \E t \in Txn : /\ pc[t] = "commit" /\ pc'[t] = "idle" /\ req[t].user = u
                            /\ Knows(t, u)]_vars
    BY <1>1
  <1>3. QED
    BY <1>2, AccountsInvariant, PTL DEF Spec, PasswordReplacedKnowingly
=============================================================================
