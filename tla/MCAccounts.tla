----------------------------- MODULE MCAccounts -----------------------------
(***************************************************************************)
(* Instances of Accounts for TLC.  A scene is a starting point, the        *)
(* requests made from it and the one-step requests that occur in it.       *)
(***************************************************************************)
EXTENDS Accounts, TLC

CONSTANTS Scenes, u1, u2, u3, s1, s2, s3, l1

VARIABLE scene

R(op, actor, user, s, l) ==
  [op |-> op, actor |-> actor, user |-> user, session |-> s, link |-> l,
   role |-> "keep", status |-> "keep", newPassword |-> FALSE]

OwnSession == (u1 :> s1 @@ u2 :> s2 @@ u3 :> s3)
Own(op, u) == {R(op, u, u, s, l1) : s \in Session \ {s1}}
Login(u) == {R("login", u, u, s1, l1)}
ByLink(op, u) == {R(op, u, u, s1, l) : l \in Link}
Console(op, a, u) == R(op, a, u, OwnSession[a], l1)
Roles(a, u) == {[Console("save", a, u) EXCEPT !.role = x] : x \in {"admin", "user"}}
Statuses(a, u) == {[Console("save", a, u) EXCEPT !.status = x] : x \in {"active", "inactive"}}
Passwords(a, u) == {[Console("save", a, u) EXCEPT !.newPassword = TRUE]}

RequestsOf == [sc \in Scenes |->
  CASE sc = "administration" ->
         UNION {Roles(a, u) \cup Statuses(a, u) : a \in {u1, u2}, u \in {u1, u2}}
           \cup {Console("remove", u1, u2), Console("remove", u1, u3)}
           \cup {[Console("create", u2, u3) EXCEPT !.role = x, !.status = "active"] : x \in {"keep", "admin"}}
           \cup {[Console("save", u1, u3) EXCEPT !.role = "user"]}
    [] sc = "credentials" ->
         Login(u2) \cup Own("password", u2) \cup ByLink("reset", u2) \cup Statuses(u1, u2)
           \cup Passwords(u1, u2) \cup {Console("remove", u1, u2)}
    [] sc = "links" ->
         Login(u2) \cup UNION {Own(op, u2) : op \in {"profile", "email", "selfDelete"}}
           \cup UNION {ByLink(op, u2) : op \in LinkOps} \cup Statuses(u1, u2)
    [] sc = "selfDeletion" ->
         {[r EXCEPT !.session = s] : r \in Roles(u1, u2) \cup Roles(u2, u1), s \in Session}
           \cup Own("selfDelete", u2) \cup Login(u2)]

AllRequests == UNION {RequestsOf[sc] : sc \in Scenes}

SceneInit ==
  /\ scene \in Scenes
  /\ status = (u1 :> "active" @@ u2 :> (IF scene = "links" THEN "none" ELSE "active")
                 @@ u3 :> "none")
  /\ role = (u1 :> "admin" @@ u2 :> (IF scene = "administration" THEN "admin" ELSE "user") @@ u3 :> "user")
  /\ version = [u \in User |-> 0]
  /\ password = [u \in User |-> 0]
  /\ session = [s \in Session |->
       IF s = s1 \/ (s = s2 /\ scene # "links") THEN [state |-> "live", user |-> IF s = s1 THEN u1 ELSE u2, credential |-> 0]
       ELSE NoSession]
  /\ link = [l \in Link |-> NoLink]
  /\ NoRequest

\* What the scene leaves out of Next: requests of other scenes; registrations,
\* mailed links and logouts that it is not about (they leave pc as it is).
InScene ==
  /\ \A t \in Txn : pc[t] = "idle" /\ pc'[t] # "idle" => req'[t] \in RequestsOf[scene]
  /\ pc' = pc =>
       CASE scene = "credentials" ->
              /\ status' = status /\ Live(s1)'
              /\ \A l \in Link : link'[l] # link[l] => link'[l].user = u2
         [] scene = "links" -> status'[u3] = "none" /\ session' = session
         [] OTHER -> FALSE
  /\ UNCHANGED scene

SceneSpec == SceneInit /\ [][Next /\ InScene]_<<vars, scene>>

TxnSymmetry == Permutations(Txn)
=============================================================================
