---------------------------- MODULE MCWorkspaces ----------------------------
(***************************************************************************)
(* Instances of Workspaces for TLC.  A scene is a starting point that      *)
(* creates, acceptances and promotions reach, the requests made from it    *)
(* and how many transactions may be open; a run checks several scenes.     *)
(***************************************************************************)
EXTENDS Workspaces, TLC

CONSTANTS Scenes, u1, u2, u3, e1, e2, e3, e4, i1, n1

VARIABLE scene

R(op, actor, user, ws, role, inv, e) ==
  [op |-> op, actor |-> actor, ws |-> ws, user |-> user, role |-> role, inv |-> inv, email |-> e]

Self(op) == {R(op, u, u, 1, "none", i1, e1) : u \in User}
Account(ops) == {R(op, u1, u, 1, "none", i1, e1) : op \in ops, u \in User}
Invites(role) == {R("invite", u, u1, 1, role, i1, e) : u \in User, e \in Email}
Accepts == {R("accept", u, u, 1, "none", i, e1) : u \in User, i \in Invitation}
Revokes == {R("revoke", u, u1, 1, "none", i, e1) : u \in User, i \in Invitation}
Changes(ws, roles) == {R("change", a, u, w, r, i1, e1) :
                         a \in User, u \in User, w \in ws, r \in roles}
Renames == {R("rename", u, u1, 1, "none", i1, e1) : u \in User}

Owner(r) == r.actor \in {u1, u2}
RequestsOf == [s \in Scenes |->
  CASE s = "ownership" ->
         {r \in Changes({1}, {"none"}) : Owner(r) /\ r.user # u3}
           \cup {r \in Changes({1}, {"owner"}) : Owner(r) /\ r.user = u3}
           \cup Account({"suspend"}) \cup {r \in Self("selfDelete") : ~Owner(r)}
    [] s = "lifecycle" ->
         {r \in Changes({1, 2}, {"owner", "none"}) \cup Account(AccountOps) \cup Self("selfDelete") :
            Owner(r) /\ r.user # u3}
    [] s = "governance" ->
         {r \in Changes({1}, Roles) : Owner(r) /\ r.user # u1}
           \cup {r \in Changes({1}, {"none"}) : r.actor = u3 /\ r.user = u3}
           \cup {r \in Account({"suspend"}) : r.user # u3} \cup {r \in Renames : r.actor = u2}
    [] s = "creation" ->
         {r \in Self("create") \cup Changes(Workspace, {"owner"}) \cup Account({"suspend"}) :
            Owner(r) /\ r.user # u3}
    [] s = "invitations" ->
         {r \in Invites("member") : Owner(r) /\ r.email \in {e3, e4}}
           \cup {r \in Revokes : r.actor = u2}
           \cup {r \in Accepts : r.actor = u3}
           \cup {r \in Changes({1}, {"none"}) : r.actor = u1 /\ r.user # u1}
    [] s = "addresses" ->
         {r \in Invites("member") : r.actor = u1 /\ r.email = e3}
           \cup {r \in Invites("admin") : r.actor = u1 /\ r.email = e4}
           \cup {r \in Accepts : r.actor # u2}
           \cup {r \in Account({"suspend"}) : r.user = u3}
           \cup {r \in Changes({1}, {"none"}) : r.actor = u1 /\ r.user = u3}
    [] s = "downgrade" -> Invites("member") \cup Invites("admin") \cup Accepts]

AllRequests == UNION {RequestsOf[s] : s \in Scenes}
Width == CASE scene = "ownership" -> 3 [] scene = "downgrade" -> 1 [] OTHER -> 2
Live  == CASE scene = "lifecycle" -> {1, 2} [] scene = "creation" -> {} [] OTHER -> {1}

Members ==
  CASE scene \in {"ownership", "lifecycle"} ->
         (u1 :> "owner" @@ u2 :> "owner" @@ u3 :> "member")
    [] scene = "addresses" -> (u1 :> "owner" @@ u2 :> "none" @@ u3 :> "none")
    [] OTHER -> (u1 :> "owner" @@ u2 :> "admin" @@ u3 :> "none")

SceneInit ==
  /\ scene \in Scenes
  /\ status = [u \in User |-> "active"]
  /\ email = (u1 :> e1 @@ u2 :> e2 @@ u3 :> e3)
  /\ live = Live
  /\ member = [w \in Workspace |-> IF w \in Live THEN Members ELSE [u \in User |-> "none"]]
  /\ name = [w \in Workspace |-> n1]
  /\ invite = [i \in Invitation |-> NoInvitation]
  /\ NoTransaction

\* Next with the requests, the number of transactions and the changes of address
\* of the scene.
SceneNext ==
  /\ UNCHANGED scene
  /\ \/ /\ Cardinality({t \in Txn : pc[t] # "idle"}) < Width
        /\ \E t \in Txn, r \in RequestsOf[scene] : Begin(t, r)
     \/ \E t \in Txn : Step(t) \/ DeadlockVictim(t) \/ Fail(t)
     \/ \E i \in Invitation : Expire(i)
     \/ scene = "addresses" /\ (ChangeEmail(u1, e3) \/ ChangeEmail(u1, e1) \/ \E e \in {e3, e4} : ChangeEmail(u3, e))

SceneSpec == SceneInit /\ [][SceneNext]_<<vars, scene>>
SceneFairSpec == SceneSpec /\ Fairness

TxnSymmetry == Permutations(Txn)
=============================================================================
