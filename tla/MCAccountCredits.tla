-------------------------- MODULE MCAccountCredits --------------------------
(* Instances of AccountCredits for TLC. *)
EXTENDS AccountCredits, TLC

CONSTANTS c1, c2, c3, c4, k1, k2, k3, p1

\* Two programs that share a key, and dialogs with keys of their own.
Keys == [c \in Client |-> CASE c \in {c1, c2} -> k1 [] c = c3 -> k2 [] OTHER -> k3]
Amounts == {-2, 0, 2}

\* The first credit: c4 opens p1 before anybody else starts, so that the others
\* find a pair with a row and one without; c3 withdraws.
Opening ==
  /\ dialog'[c4] # "recorded" => \A c \in Client \ {c4} : submitted'[c] = NoEntry
  /\ dialog[c4] = "saving" => dialog'[c4] \in {"saving", "recorded"}
  /\ submitted'[c4] \in {NoEntry} \cup {a \in Adjustment : a.pair = p1 /\ a.amount = 2}
  /\ submitted'[c3] \in {NoEntry} \cup {a \in Adjustment : a.amount = -2}
  /\ submitted'[c2] \in {NoEntry} \cup {a \in Adjustment : a.amount = 2}

OpenedSpec == Init /\ [][Next /\ Opening]_vars

OpenedFairSpec == OpenedSpec /\ \A t \in Txn : SF_vars(Step(t))

TxnSymmetry == Permutations(Txn)
=============================================================================
