------------------------ MODULE AccountCreditsProofs ------------------------
(***************************************************************************)
(* Credit adjustments implement the ledger, balances are the sums of their *)
(* entries, and retries are never told of a conflict, for every number of  *)
(* dialogs, keys, accounts, amounts and requests under way.                *)
(***************************************************************************)
EXTENDS AccountCredits, DataLemmas

(* What refinement needs beyond the types: a request that has claimed a key *)
(* or locked a balance is alone in it, and the dialog that hears of its end *)
(* is the one that sent what it carries.                                    *)

Working == {"pair", "claim", "compare", "increment", "commit"}
Claimed(t) == pc[t] \in {"increment", "commit"}

Carries(t) ==
  /\ pc[t] # "idle" => adj[t] \in Adjustment /\ client[t] \in Client
  /\ pc[t] \in Working => adj[t].amount # 0
  /\ Claimed(t) => entries[adj[t].key] = NoEntry
  /\ pc[t] = "commit" => result[t] = balance[adj[t].pair] + adj[t].amount /\ InRange(result[t])

Listens(t) ==
  heard[t] => pc[t] # "idle" /\ dialog[client[t]] = "saving" /\ submitted[client[t]] = adj[t]

Apart(s, t) ==
  /\ Claimed(s) /\ Claimed(t) => adj[s].key # adj[t].key
  /\ pc[s] = "commit" /\ pc[t] = "commit" => adj[s].pair # adj[t].pair
  /\ heard[s] /\ heard[t] => client[s] # client[t]

CreditsInv ==
  /\ TypeOK
  /\ \A t \in Txn : Carries(t) /\ Listens(t)
  /\ \A s, t \in Txn : s # t => Apart(s, t)

\* A step of t leaves the other requests as they are.
Others(t) ==
  \A s \in Txn \ {t} : /\ pc'[s] = pc[s] /\ client'[s] = client[s] /\ adj'[s] = adj[s]
                       /\ heard'[s] = heard[s] /\ result'[s] = result[s]

\* The request's end: only the dialog that listens is told.
LEMMA EndStep ==
  ASSUME CreditsInv, NEW t \in Txn, pc[t] # "idle",
         NEW answer \in {"open", "recorded"}, End(t, answer)
  PROVE  /\ Others(t) /\ pc'[t] = "idle" /\ ~heard'[t] /\ submitted' = submitted
         /\ pc' \in [Txn -> {"idle", "sent", "pair", "claim", "compare", "increment", "commit"}]
         /\ client' \in [Txn -> Client \cup {NoClient}]
         /\ adj' \in [Txn -> Adjustment \cup {NoEntry}]
         /\ heard' \in [Txn -> BOOLEAN] /\ result' \in [Txn -> Int]
         /\ dialog' \in [Client -> {"open", "saving", "recorded", "discarded"}]
         /\ \A c \in Client : dialog'[c] = IF heard[t] /\ c = client[t] THEN answer ELSE dialog[c]
         /\ \A s \in Txn \ {t} : Listens(s)'
  <1>1. TypeOK /\ Listens(t) /\ Carries(t)
    BY DEF CreditsInv
  <1>2. Others(t) /\ pc'[t] = "idle" /\ ~heard'[t] /\ submitted' = submitted
    BY <1>1 DEF End, Goto, Others, TypeOK
  <1>3. pc' \in [Txn -> {"idle", "sent", "pair", "claim", "compare", "increment", "commit"}]
    BY <1>1 DEF End, Goto, TypeOK
  <1>4. client' \in [Txn -> Client \cup {NoClient}] /\ adj' \in [Txn -> Adjustment \cup {NoEntry}]
    BY <1>1 DEF End, TypeOK
  <1>5. heard' \in [Txn -> BOOLEAN] /\ result' \in [Txn -> Int]
    BY <1>1 DEF End, TypeOK
  <1>6. \A c \in Client : dialog'[c] = IF heard[t] /\ c = client[t] THEN answer ELSE dialog[c]
    BY <1>1 DEF End, TypeOK
  <1>7. dialog' \in [Client -> {"open", "saving", "recorded", "discarded"}]
    BY <1>1 DEF End, TypeOK
  <1>8. ASSUME NEW s \in Txn \ {t} PROVE Listens(s)'
    <2>1. Listens(s) /\ Apart(s, t) /\ Carries(s)
      BY DEF CreditsInv
    <2>2. heard[s] => client[s] \in Client /\ dialog'[client[s]] = dialog[client[s]]
      BY <2>1, <1>6 DEF Listens, Apart, Carries
    <2>3. QED
      BY <2>1, <2>2, <1>2 DEF Listens, Others
  <1>9. QED
    BY <1>2, <1>3, <1>4, <1>5, <1>6, <1>7, <1>8

\* The dialogs that have been told stay told, and those that listened join them.
LEMMA EndTells ==
  ASSUME CreditsInv, NEW t \in Txn, pc[t] # "idle"
  PROVE  /\ End(t, "open") => Told' = Told
         /\ End(t, "recorded") => Told' \in {Told, Told \cup {adj[t]}}
  <1>1. Listens(t) /\ Carries(t)
    BY DEF CreditsInv
  <1>2. CASE ~heard[t]
    BY <1>1, <1>2 DEF End, Told
  <1>3. CASE heard[t]
    <2>1. client[t] \in Client /\ dialog[client[t]] = "saving" /\ submitted[client[t]] = adj[t]
      BY <1>1, <1>3 DEF Listens, Carries
    <2>2. ASSUME End(t, "open") PROVE Told' = Told
      <3>1. \A c \in Client : dialog'[c] = "recorded" <=> dialog[c] = "recorded"
        BY <1>3, <2>1, <2>2, EndStep
      <3>2. QED
        BY <3>1, <2>2 DEF Told, End
    <2>3. ASSUME End(t, "recorded") PROVE Told' = Told \cup {adj[t]}
      <3>1. \A c \in Client : dialog'[c] = "recorded" <=> dialog[c] = "recorded" \/ c = client[t]
        BY <1>3, <2>1, <2>3, EndStep
      <3>2. QED
        BY <3>1, <2>1, <2>3 DEF Told, End
    <2>4. QED
      BY <2>2, <2>3
  <1>4. QED
    BY <1>2, <1>3

\* A rollback changes no table and nothing the others rely on.
LEMMA RefuseStep ==
  ASSUME CreditsInv, NEW t \in Txn, pc[t] # "idle", Refuse(t)
  PROVE  CreditsInv' /\ Told' = Told
  <1>1. /\ Others(t) /\ pc'[t] = "idle" /\ ~heard'[t] /\ UNCHANGED tables
        /\ \A s \in Txn \ {t} : Listens(s)'
    BY EndStep DEF Refuse
  <1>2. TypeOK'
    BY EndStep DEF CreditsInv, Refuse, TypeOK, tables
  <1>3. \A s \in Txn : Carries(s)' /\ Listens(s)'
    BY <1>1 DEF CreditsInv, Carries, Listens, Others, Claimed, Working, tables
  <1>4. \A r, s \in Txn : r # s => Apart(r, s)'
    BY <1>1 DEF CreditsInv, Apart, Others, Claimed
  <1>5. QED
    BY <1>2, <1>3, <1>4, EndTells DEF CreditsInv, Refuse

\* A request that only goes on to its next stage.
LEMMA AdvanceStep ==
  ASSUME CreditsInv, NEW t \in Txn, pc[t] # "idle", NEW stage \in Working,
         Goto(t, stage), UNCHANGED <<tables, Local>>, result' \in [Txn -> Int],
         \A s \in Txn \ {t} : result'[s] = result[s],
         adj[t].amount # 0,
         stage \in {"increment", "commit"} =>
           /\ entries[adj[t].key] = NoEntry
           /\ \A s \in Txn \ {t} : Claimed(s) => adj[s].key # adj[t].key,
         stage = "commit" =>
           /\ result'[t] = balance[adj[t].pair] + adj[t].amount /\ InRange(result'[t])
           /\ \A s \in Txn \ {t} : pc[s] = "commit" => adj[s].pair # adj[t].pair
  PROVE  CreditsInv' /\ Told' = Told
  <1>1. TypeOK'
    BY DEF CreditsInv, TypeOK, Goto, Working, tables, Local
  <1>2. pc'[t] = stage /\ \A s \in Txn \ {t} : pc'[s] = pc[s]
    BY DEF CreditsInv, TypeOK, Goto
  <1>3. \A s \in Txn : Carries(s)'
    BY <1>2 DEF CreditsInv, Carries, Claimed, Working, tables, Local
  <1>4. \A s \in Txn : Listens(s)'
    BY <1>2 DEF CreditsInv, Listens, Working, Local
  <1>5. \A r, s \in Txn : r # s => Apart(r, s)'
    BY <1>2 DEF CreditsInv, Apart, Claimed, Working, Local
  <1>6. Told' = Told
    BY DEF Told, Local
  <1>7. QED
    BY <1>1, <1>3, <1>4, <1>5, <1>6 DEF CreditsInv

\* The statements before the commit.
LEMMA WorkingSteps ==
  ASSUME CreditsInv, NEW t \in Txn,
         Receive(t) \/ InsertPair(t) \/ ClaimKey(t) \/ Conflict(t) \/ Increment(t) \/ Fail(t)
  PROVE  CreditsInv' /\ Told' = Told /\ UNCHANGED tables
  <1>1. TypeOK /\ Carries(t)
    BY DEF CreditsInv
  <1>2. CASE Refuse(t) /\ pc[t] # "idle"
    BY <1>2, RefuseStep DEF Refuse
  <1>3. CASE Receive(t) /\ ~Refuse(t)
    BY <1>1, <1>3, AdvanceStep DEF Receive, TypeOK, Working
  <1>4. CASE InsertPair(t)
    BY <1>1, <1>4, AdvanceStep DEF InsertPair, TypeOK, Working, Carries
  <1>5. CASE ClaimKey(t)
    <2>1. adj[t].amount # 0
      BY <1>1, <1>5 DEF ClaimKey, Carries, Working
    <2>2. \A s \in Txn \ {t} : Claimed(s) => adj[s].key # adj[t].key
      BY <1>5 DEF ClaimKey, Claiming, Claimed
    <2>3. CASE entries[adj[t].key] = NoEntry
      BY <1>1, <1>5, <2>1, <2>2, <2>3, AdvanceStep DEF ClaimKey, TypeOK, Working
    <2>4. CASE entries[adj[t].key] # NoEntry
      BY <1>1, <1>5, <2>1, <2>4, AdvanceStep DEF ClaimKey, TypeOK, Working
    <2>5. QED
      BY <2>3, <2>4
  <1>6. CASE Increment(t) /\ ~Refuse(t)
    <2>1. /\ adj[t].amount # 0 /\ entries[adj[t].key] = NoEntry /\ adj[t] \in Adjustment
          /\ pc[t] = "increment"
      BY <1>1, <1>6 DEF Increment, Carries, Claimed, Working
    <2>2. \A s \in Txn \ {t} : Claimed(s) => adj[s].key # adj[t].key
      BY <2>1 DEF CreditsInv, Apart, Claimed
    <2>3. \A s \in Txn \ {t} : pc[s] = "commit" => adj[s].pair # adj[t].pair
      BY <1>6 DEF Increment, Updating
    <2>4. balance[adj[t].pair] + adj[t].amount \in Int
      <3>1. adj[t].pair \in Pair /\ adj[t].amount \in Int
        BY <2>1, CreditsAssumption DEF Adjustment
      <3>2. balance[adj[t].pair] \in -MaxBalance .. MaxBalance
        BY <1>1, <3>1 DEF TypeOK
      <3>3. QED
        BY <3>1, <3>2, CreditsAssumption
    <2>5. /\ result' = [result EXCEPT ![t] = balance[adj[t].pair] + adj[t].amount]
          /\ InRange(balance[adj[t].pair] + adj[t].amount)
          /\ Goto(t, "commit") /\ UNCHANGED <<tables, Local>>
      BY <1>6 DEF Increment
    <2>6. /\ result' \in [Txn -> Int] /\ \A s \in Txn \ {t} : result'[s] = result[s]
          /\ result'[t] = balance[adj[t].pair] + adj[t].amount
      BY <1>1, <2>4, <2>5 DEF TypeOK
    <2>7. QED
      BY <2>1, <2>2, <2>3, <2>5, <2>6, AdvanceStep DEF Working
  <1>7. QED
    BY <1>2, <1>3, <1>4, <1>5, <1>6 DEF Receive, Conflict, Increment, Fail

\* A replay changes no table: its sender is told of the entry found.
LEMMA ReplayStep ==
  ASSUME CreditsInv, NEW t \in Txn, Replay(t)
  PROVE  /\ CreditsInv' /\ UNCHANGED tables
         /\ adj[t] \in Adjustment /\ entries[adj[t].key] = adj[t]
         /\ Told' \in {Told, Told \cup {adj[t]}}
  <1>1. pc[t] # "idle" /\ UNCHANGED tables /\ End(t, "recorded")
    BY DEF Replay
  <1>2. /\ Others(t) /\ pc'[t] = "idle" /\ ~heard'[t]
        /\ \A s \in Txn \ {t} : Listens(s)'
    BY <1>1, EndStep
  <1>3. TypeOK'
    BY <1>1, EndStep DEF CreditsInv, TypeOK, tables
  <1>4. \A s \in Txn : Carries(s)' /\ Listens(s)'
    BY <1>1, <1>2 DEF CreditsInv, Carries, Listens, Others, Claimed, Working, tables
  <1>5. \A r, s \in Txn : r # s => Apart(r, s)'
    BY <1>2 DEF CreditsInv, Apart, Others, Claimed
  <1>6. adj[t] \in Adjustment /\ entries[adj[t].key] = adj[t]
    BY <1>1 DEF CreditsInv, Carries, Replay, SameEntry
  <1>7. QED
    BY <1>1, <1>3, <1>4, <1>5, <1>6, EndTells DEF CreditsInv

\* The commit enters the adjustment, its amount and its audit row at once.
LEMMA CommitStep ==
  ASSUME CreditsInv, NEW t \in Txn, Commit(t)
  PROVE  /\ CreditsInv' /\ adj[t] \in Adjustment
         /\ entries[adj[t].key] = NoEntry /\ adj[t].amount # 0
         /\ InRange(balance[adj[t].pair] + adj[t].amount)
         /\ entries' = [entries EXCEPT ![adj[t].key] = adj[t]]
         /\ balance' = [balance EXCEPT ![adj[t].pair] = @ + adj[t].amount]
         /\ audits' = [audits EXCEPT ![adj[t].pair] = @ + 1]
         /\ Told' \in {Told, Told \cup {adj[t]}}
  <1>1. /\ TypeOK /\ pc[t] = "commit" /\ adj[t] \in Adjustment /\ adj[t].amount # 0
        /\ entries[adj[t].key] = NoEntry /\ InRange(result[t])
        /\ result[t] = balance[adj[t].pair] + adj[t].amount
    BY DEF CreditsInv, Commit, Carries, Claimed, Working
  <1>2. adj[t].key \in Key /\ adj[t].pair \in Pair /\ adj[t].amount \in Int
    BY <1>1, CreditsAssumption DEF Adjustment
  <1>3. /\ Others(t) /\ pc'[t] = "idle" /\ ~heard'[t]
        /\ \A s \in Txn \ {t} : Listens(s)'
    BY <1>1, EndStep DEF Commit
  <1>4. TypeOK'
    <2>1. rows' \subseteq Pair /\ entries' \in [Key -> Adjustment \cup {NoEntry}]
      BY <1>1, <1>2 DEF Commit, TypeOK
    <2>2. result[t] \in -MaxBalance .. MaxBalance
      BY <1>1, CreditsAssumption DEF TypeOK, InRange
    <2>3. balance' \in [Pair -> -MaxBalance .. MaxBalance]
      BY <1>1, <1>2, <2>2 DEF Commit, TypeOK
    <2>4. audits' \in [Pair -> Nat]
      BY <1>1, <1>2 DEF Commit, TypeOK
    <2>5. QED
      BY <1>1, <2>1, <2>3, <2>4, EndStep DEF Commit, TypeOK
  <1>5. ASSUME NEW s \in Txn PROVE Carries(s)'
    <2>1. CASE s = t
      BY <1>3, <2>1 DEF Carries, Claimed, Working
    <2>2. CASE s # t
      <3>1. Carries(s) /\ Apart(s, t)
        BY <2>2 DEF CreditsInv
      <3>2. adj'[s] = adj[s] /\ pc'[s] = pc[s] /\ client'[s] = client[s] /\ result'[s] = result[s]
        BY <1>3, <2>2 DEF Others
      <3>3. Claimed(s) => adj[s].key # adj[t].key /\ adj[s].key \in Key
        BY <1>1, <3>1 DEF Apart, Claimed, Carries, Adjustment
      <3>4. Claimed(s) => entries'[adj[s].key] = NoEntry
        BY <1>1, <3>1, <3>3 DEF Commit, TypeOK, Carries
      <3>5. pc[s] = "commit" => adj[s].pair # adj[t].pair /\ adj[s].pair \in Pair
        BY <1>1, <3>1 DEF Apart, Carries, Adjustment
      <3>6. pc[s] = "commit" => balance'[adj[s].pair] = balance[adj[s].pair]
        BY <1>1, <3>5 DEF Commit, TypeOK
      <3>7. QED
        BY <3>1, <3>2, <3>4, <3>6 DEF Carries, Claimed
    <2>3. QED
      BY <2>1, <2>2
  <1>6. \A r, s \in Txn : r # s => Apart(r, s)'
    BY <1>3 DEF CreditsInv, Apart, Others, Claimed
  <1>7. \A s \in Txn : Listens(s)'
    BY <1>3 DEF Listens
  <1>8. /\ entries' = [entries EXCEPT ![adj[t].key] = adj[t]]
        /\ balance' = [balance EXCEPT ![adj[t].pair] = @ + adj[t].amount]
        /\ audits' = [audits EXCEPT ![adj[t].pair] = @ + 1]
        /\ End(t, "recorded")
    BY <1>1 DEF Commit
  <1>9. QED
    BY <1>1, <1>4, <1>5, <1>6, <1>7, <1>8, EndTells DEF CreditsInv

\* A submission is heard by the dialog that made it, and by no other.
LEMMA SubmitStep ==
  ASSUME CreditsInv, NEW c \in Client, NEW t \in Txn, Submit(c, t)
  PROVE  CreditsInv' /\ Told' = Told /\ UNCHANGED tables
  <1>1. PICK a \in Payload(c) : submitted' = [submitted EXCEPT ![c] = a] /\ adj' = [adj EXCEPT ![t] = a]
    BY DEF Submit
  <1>2. a \in Adjustment /\ TypeOK /\ pc[t] = "idle" /\ dialog[c] = "open" /\ UNCHANGED tables
    BY DEF Payload, CreditsInv, Submit
  <1>3. /\ pc'[t] = "sent" /\ client'[t] = c /\ adj'[t] = a /\ heard'[t] = TRUE
        /\ dialog'[c] = "saving" /\ submitted'[c] = a
        /\ \A d \in Client \ {c} : dialog'[d] = dialog[d] /\ submitted'[d] = submitted[d]
        /\ Others(t)
    BY <1>1, <1>2 DEF Submit, Goto, Others, TypeOK
  <1>4. TypeOK'
    <2>1. submitted' \in [Client -> Adjustment \cup {NoEntry}] /\ adj' \in [Txn -> Adjustment \cup {NoEntry}]
      BY <1>1, <1>2 DEF TypeOK
    <2>2. QED
      BY <1>2, <2>1 DEF Submit, TypeOK, Goto, tables
  <1>5. \A s \in Txn \ {t} : heard[s] => client[s] # c /\ client[s] \in Client
    BY <1>2 DEF CreditsInv, Listens, Carries
  <1>6. \A s \in Txn : Carries(s)'
    BY <1>2, <1>3 DEF CreditsInv, Carries, Claimed, Working, Others, tables
  <1>7. \A s \in Txn : Listens(s)'
    BY <1>3, <1>5 DEF CreditsInv, Listens, Others
  <1>8. \A r, s \in Txn : r # s => Apart(r, s)'
    BY <1>3, <1>5 DEF CreditsInv, Apart, Claimed, Others
  <1>9. Told' = Told
    BY <1>2, <1>3 DEF Told
  <1>10. QED
    BY <1>2, <1>4, <1>6, <1>7, <1>8, <1>9 DEF CreditsInv

\* Who stops listening is not told.
LEMMA LeaveStep ==
  ASSUME CreditsInv, NEW c \in Client, TimeOut(c) \/ Leave(c)
  PROVE  CreditsInv' /\ Told' = Told /\ UNCHANGED tables
  <1>1. TypeOK /\ UNCHANGED <<tables, pc, client, adj, result, submitted>>
    BY DEF CreditsInv, TimeOut, Leave
  <1>2. /\ \A t \in Txn : heard'[t] = (heard[t] /\ client[t] # c)
        /\ \A d \in Client \ {c} : dialog'[d] = dialog[d]
        /\ dialog[c] # "recorded" /\ dialog'[c] # "recorded"
        /\ heard' \in [Txn -> BOOLEAN]
        /\ dialog' \in [Client -> {"open", "saving", "recorded", "discarded"}]
    BY <1>1 DEF TimeOut, Leave, StopListening, TypeOK
  <1>3. TypeOK'
    BY <1>1, <1>2 DEF TypeOK, tables
  <1>4. \A s \in Txn : Carries(s)'
    BY <1>1 DEF CreditsInv, Carries, Claimed, Working, tables
  <1>5. \A s \in Txn : Listens(s)'
    BY <1>1, <1>2 DEF CreditsInv, Listens, Carries
  <1>6. \A r, s \in Txn : r # s => Apart(r, s)'
    BY <1>1, <1>2 DEF CreditsInv, Apart, Claimed
  <1>7. Told' = Told
    BY <1>1, <1>2 DEF Told
  <1>8. QED
    BY <1>1, <1>3, <1>4, <1>5, <1>6, <1>7 DEF CreditsInv

\* Init establishes the invariant.
LEMMA CreditsStart == Init => CreditsInv
  <1> SUFFICES ASSUME Init PROVE CreditsInv
    OBVIOUS
  <1>1. 0 \in -MaxBalance .. MaxBalance
    BY CreditsAssumption
  <1>2. QED
    BY <1>1 DEF Init, CreditsInv, TypeOK, Carries, Listens, Apart, Claimed, Working

\* Every step keeps the invariant.
LEMMA CreditsStep == CreditsInv /\ [Next]_vars => CreditsInv'
<1> SUFFICES ASSUME CreditsInv, [Next]_vars PROVE CreditsInv'
  OBVIOUS
<1>1. CASE UNCHANGED vars
  BY <1>1 DEF CreditsInv, TypeOK, Carries, Listens, Apart, Claimed, Working, vars, tables
<1>2. CASE Next
  BY <1>2, WorkingSteps, ReplayStep, CommitStep, SubmitStep, LeaveStep DEF Next, Step
<1>3. QED
  BY <1>1, <1>2

\* In every reachable state the tables, the requests and the dialogs have their
\* types: in particular no balance leaves the range of numeric(20,4).
THEOREM CreditsTypeCorrect == Spec => []TypeOK
  <1>1. CreditsInv => TypeOK
    BY DEF CreditsInv
  <1>2. QED
    BY <1>1, CreditsStart, CreditsStep, PTL DEF Spec

\* Every behaviour of dialogs and requests is one of the ledger: retries,
\* duplicates, races, lost answers and failures enter each key at most once,
\* together with its balance and audit row, and only what is entered is told.
THEOREM CreditsImplementLedger == Spec => ImplementsLedger
  <1>1. CreditsInv /\ [Next]_vars => CreditsInv' /\ [Ledger!LedgerNext]_(Ledger!ledgerVars)
    <2> SUFFICES ASSUME CreditsInv, [Next]_vars
                 PROVE  CreditsInv' /\ [Ledger!LedgerNext]_(Ledger!ledgerVars)
      OBVIOUS
    <2> USE DEF Ledger!ledgerVars
    <2>1. CASE UNCHANGED vars
      BY <2>1 DEF CreditsInv, TypeOK, Carries, Listens, Apart, Claimed, Working, vars, tables, Told
    <2>2. ASSUME NEW t \in Txn, Replay(t) PROVE CreditsInv' /\ [Ledger!LedgerNext]_(Ledger!ledgerVars)
      <3>1. Told' = Told \/ Ledger!Tell(adj[t])
        BY <2>2, ReplayStep DEF Ledger!Tell, tables
      <3>2. adj[t] \in Ledger!Adjustment /\ UNCHANGED tables
        BY <2>2, ReplayStep DEF Adjustment, Ledger!Adjustment
      <3>3. QED
        BY <2>2, <3>1, <3>2, ReplayStep DEF Ledger!LedgerNext, tables
    <2>3. ASSUME NEW t \in Txn, Commit(t) PROVE CreditsInv' /\ [Ledger!LedgerNext]_(Ledger!ledgerVars)
      <3>1. Ledger!Enter(adj[t])
        BY <2>3, CommitStep DEF Ledger!Enter, InRange, Ledger!InRange
      <3>2. adj[t] \in Ledger!Adjustment
        BY <2>3, CommitStep DEF Adjustment, Ledger!Adjustment
      <3>3. QED
        BY <2>3, <3>1, <3>2, CommitStep DEF Ledger!LedgerNext
    <2>4. CASE Next /\ ~\E t \in Txn : Replay(t) \/ Commit(t)
      BY <2>4, WorkingSteps, SubmitStep, LeaveStep DEF Next, Step, tables
    <2>5. QED
      BY <2>1, <2>2, <2>3, <2>4
  <1>2. Init => Ledger!LedgerInit
    BY DEF Init, Ledger!LedgerInit, Told
  <1>3. QED
    BY <1>1, <1>2, CreditsStart, PTL DEF Spec, ImplementsLedger, Ledger!LedgerSpec

-----------------------------------------------------------------------------
(* Sums.                                                                    *)

Amounts(e, S) == [k \in S |-> e[k].amount]

\* What the tables say of each other: only finitely many keys are entered, and
\* they account for the balance and the audit rows of every pair.
SumsAgree ==
  \A p \in Pair : /\ IsFiniteSet(Entered(p))
                  /\ balance[p] = SumFunction(Amounts(entries, Entered(p)))
                  /\ audits[p] = Cardinality(Entered(p))

\* A commit enters one key more for its pair, and none for the others.
LEMMA CommitSums ==
  ASSUME CreditsInv, SumsAgree, NEW t \in Txn, Commit(t)
  PROVE  SumsAgree'
<1> DEFINE a == adj[t]
<1>1. /\ TypeOK /\ a \in Adjustment /\ entries[a.key] = NoEntry
      /\ entries' = [entries EXCEPT ![a.key] = a]
      /\ balance' = [balance EXCEPT ![a.pair] = @ + a.amount]
      /\ audits' = [audits EXCEPT ![a.pair] = @ + 1]
  BY CommitStep DEF CreditsInv
<1>2. a.key \in Key /\ a.pair \in Pair /\ a.amount \in Int /\ a # NoEntry
  BY <1>1, CreditsAssumption DEF Adjustment
<1> HIDE DEF a
<1>3. \A p \in Pair : \A k \in Entered(p) :
        entries'[k] = entries[k] /\ entries[k].amount \in Int /\ k # a.key
  BY <1>1, <1>2, CreditsAssumption DEF Entered, TypeOK, Adjustment
<1>4. ASSUME NEW p \in Pair, p # a.pair
      PROVE  /\ IsFiniteSet(Entered(p)') /\ balance'[p] = SumFunction(Amounts(entries', Entered(p)'))
             /\ audits'[p] = Cardinality(Entered(p)')
  <2>1. Entered(p)' = Entered(p)
    BY <1>1, <1>2, <1>4 DEF Entered, TypeOK
  <2>2. balance'[p] = balance[p] /\ audits'[p] = audits[p]
    BY <1>1, <1>4 DEF TypeOK
  <2>3. Amounts(entries', Entered(p)) = Amounts(entries, Entered(p))
    BY <1>3 DEF Amounts
  <2>4. QED
    BY <2>1, <2>2, <2>3 DEF SumsAgree
<1>5. ASSUME NEW p \in Pair, p = a.pair
      PROVE  /\ IsFiniteSet(Entered(p)') /\ balance'[p] = SumFunction(Amounts(entries', Entered(p)'))
             /\ audits'[p] = Cardinality(Entered(p)')
  <2>1. Entered(p)' = Entered(p) \cup {a.key} /\ a.key \notin Entered(p)
    BY <1>1, <1>2, <1>5 DEF Entered, TypeOK
  <2>2. balance'[p] = balance[p] + a.amount /\ audits'[p] = audits[p] + 1
    BY <1>1, <1>5 DEF TypeOK
  <2>3. entries'[a.key].amount = a.amount
    BY <1>1, <1>2 DEF TypeOK
  <2>4. IsFiniteSet(Entered(p)) /\ Cardinality(Entered(p) \cup {a.key}) = Cardinality(Entered(p)) + 1
        /\ IsFiniteSet(Entered(p) \cup {a.key})
    BY <2>1, FS_AddElement DEF SumsAgree
  <2>5. SumFunction(Amounts(entries', Entered(p) \cup {a.key})) = SumFunction(Amounts(entries, Entered(p))) + a.amount
    <3> DEFINE f == Amounts(entries, Entered(p))
               h == Amounts(entries', Entered(p) \cup {a.key})
    <3>1. f \in [Entered(p) -> Int] /\ h \in [Entered(p) \cup {a.key} -> Int]
      BY <1>2, <1>3, <2>3 DEF Amounts
    <3>2. (\A k \in Entered(p) : h[k] = f[k]) /\ h[a.key] = a.amount
      BY <1>3, <2>3 DEF Amounts
    <3> HIDE DEF f, h
    <3>3. SumFunction(h) = SumFunction(f) + h[a.key]
      BY <2>1, <2>4, <3>1, <3>2, SumAdds
    <3>4. QED
      BY <3>2, <3>3 DEF f, h
  <2>6. QED
    BY <2>1, <2>2, <2>4, <2>5 DEF SumsAgree
<1>6. QED
  BY <1>4, <1>5 DEF SumsAgree

\* In every reachable state a balance is the sum of its ledger entries, one for
\* each audit row: no interleaving of requests loses an amount, counts one twice
\* or records one without the other.
THEOREM BalancesAreSums == Spec => []BalanceIsSum
<1>1. Init => SumsAgree
  <2> SUFFICES ASSUME Init, NEW p \in Pair
               PROVE  IsFiniteSet(Entered(p)) /\ balance[p] = SumFunction(Amounts(entries, Entered(p)))
                      /\ audits[p] = Cardinality(Entered(p))
    BY DEF SumsAgree
  <2>1. Entered(p) = {} /\ balance[p] = 0 /\ audits[p] = 0
    BY DEF Init, Entered
  <2>2. SumFunction(Amounts(entries, Entered(p))) = 0
    BY <2>1, SumOfNone DEF Amounts
  <2>3. QED
    BY <2>1, <2>2, FS_EmptySet
<1>2. CreditsInv /\ SumsAgree /\ [Next]_vars => (CreditsInv /\ SumsAgree)'
  <2> SUFFICES ASSUME CreditsInv, SumsAgree, [Next]_vars PROVE CreditsInv' /\ SumsAgree'
    OBVIOUS
  <2>1. CreditsInv'
    BY CreditsStep
  <2>2. ASSUME UNCHANGED tables PROVE SumsAgree'
    <3>1. entries' = entries /\ balance' = balance /\ audits' = audits
      BY <2>2 DEF tables
    <3>2. \A p \in Pair : Entered(p)' = Entered(p)
      BY <3>1 DEF Entered
    <3>3. \A p \in Pair : /\ IsFiniteSet(Entered(p)') /\ balance'[p] = SumFunction(Amounts(entries', Entered(p)'))
                          /\ audits'[p] = Cardinality(Entered(p)')
      BY <3>1, <3>2 DEF SumsAgree
    <3>4. QED
      BY <3>3 DEF SumsAgree
  <2>3. ASSUME NEW t \in Txn, Commit(t) PROVE SumsAgree'
    BY <2>3, CommitSums
  <2>4. CASE UNCHANGED vars
    BY <2>1, <2>2, <2>4 DEF vars
  <2>5. CASE Next /\ ~\E t \in Txn : Commit(t)
    BY <2>2, <2>5, WorkingSteps, ReplayStep, SubmitStep, LeaveStep DEF Next, Step
  <2>6. QED
    BY <2>1, <2>3, <2>4, <2>5
<1>3. SumsAgree => BalanceIsSum
  BY DEF SumsAgree, BalanceIsSum, Amounts
<1>4. QED
  BY <1>1, <1>2, <1>3, CreditsStart, PTL DEF Spec

-----------------------------------------------------------------------------
(* A retry carries the payload of the first submission, which is what its  *)
(* key was entered with if one of its requests entered it.                 *)

FirstPayload ==
  /\ \A c \in Client : submitted[c] # NoEntry => submitted[c].key = KeyOf[c]
  /\ \A t \in Txn : pc[t] # "idle" => adj[t] = submitted[client[t]]
  /\ \A k \in Key : entries[k] # NoEntry => \E c \in Client : KeyOf[c] = k /\ entries[k] = submitted[c]
  /\ \A t \in Txn : pc[t] = "compare" => entries[adj[t].key] # NoEntry

\* Steps that submit nothing and enter nothing.
LEMMA QuietKeepsPayload ==
  ASSUME FirstPayload, entries' = entries, submitted' = submitted,
         \A s \in Txn : pc'[s] # "idle" => pc[s] # "idle" /\ adj'[s] = adj[s] /\ client'[s] = client[s],
         \A s \in Txn : pc'[s] = "compare" => pc[s] = "compare" \/ entries[adj[s].key] # NoEntry
  PROVE  FirstPayload'
  <1>1. \A c \in Client : submitted'[c] # NoEntry => submitted'[c].key = KeyOf[c]
    BY DEF FirstPayload
  <1>2. \A t \in Txn : pc'[t] # "idle" => adj'[t] = submitted'[client'[t]]
    BY DEF FirstPayload
  <1>3. \A k \in Key : entries'[k] # NoEntry => \E c \in Client : KeyOf[c] = k /\ entries'[k] = submitted'[c]
    BY DEF FirstPayload
  <1>4. \A t \in Txn : pc'[t] = "compare" => entries'[adj'[t].key] # NoEntry
    BY DEF FirstPayload
  <1>5. QED
    BY <1>1, <1>2, <1>3, <1>4 DEF FirstPayload

LEMMA EndKeepsPayload ==
  ASSUME CreditsInv, FirstPayload, NEW t \in Txn, pc[t] # "idle", NEW answer \in {"open", "recorded"},
         End(t, answer), entries' = entries
  PROVE  FirstPayload'
  <1>1. Others(t) /\ pc'[t] = "idle" /\ submitted' = submitted
    BY EndStep
  <1>2. QED
    BY <1>1, QuietKeepsPayload DEF Others

LEMMA AdvanceKeepsPayload ==
  ASSUME CreditsInv, FirstPayload, NEW t \in Txn, pc[t] # "idle", NEW stage, Goto(t, stage),
         stage = "compare" => entries[adj[t].key] # NoEntry, UNCHANGED <<tables, Local>>
  PROVE  FirstPayload'
  <1>1. pc \in [Txn -> {"idle", "sent", "pair", "claim", "compare", "increment", "commit"}]
    BY DEF CreditsInv, TypeOK
  <1>2. \A s \in Txn : pc'[s] = IF s = t THEN stage ELSE pc[s]
    BY <1>1 DEF Goto
  <1>3. entries' = entries /\ submitted' = submitted /\ adj' = adj /\ client' = client
    BY DEF tables, Local
  <1>4. QED
    BY <1>2, <1>3, QuietKeepsPayload

LEMMA CommitKeepsPayload == ASSUME CreditsInv, FirstPayload, NEW t \in Txn, Commit(t) PROVE FirstPayload'
  <1>1. /\ pc[t] = "commit" /\ entries' = [entries EXCEPT ![adj[t].key] = adj[t]] /\ End(t, "recorded")
        /\ adj[t] \in Adjustment /\ entries[adj[t].key] = NoEntry
    BY CommitStep DEF Commit
  <1>2. Others(t) /\ pc'[t] = "idle" /\ submitted' = submitted
    BY <1>1, EndStep
  <1>3. client[t] \in Client /\ adj[t] = submitted[client[t]] /\ adj[t] # NoEntry
    BY <1>1, CreditsAssumption DEF CreditsInv, Carries, FirstPayload
  <1>4. KeyOf[client[t]] = adj[t].key
    BY <1>3 DEF FirstPayload
  <1>5. \A k \in Key : entries'[k] = IF k = adj[t].key THEN adj[t] ELSE entries[k]
    BY <1>1 DEF CreditsInv, TypeOK
  <1>6. \A c \in Client : submitted'[c] # NoEntry => submitted'[c].key = KeyOf[c]
    BY <1>2 DEF FirstPayload
  <1>7. \A s \in Txn : pc'[s] # "idle" => adj'[s] = submitted'[client'[s]]
    BY <1>2 DEF FirstPayload, Others
  <1>8. \A k \in Key : entries'[k] # NoEntry => \E c \in Client : KeyOf[c] = k /\ entries'[k] = submitted'[c]
    BY <1>2, <1>3, <1>4, <1>5 DEF FirstPayload
  <1>9. \A s \in Txn : pc'[s] = "compare" => entries'[adj'[s].key] # NoEntry
    <2>1. SUFFICES ASSUME NEW s \in Txn, pc'[s] = "compare" PROVE entries'[adj'[s].key] # NoEntry
      OBVIOUS
    <2>2. s # t /\ pc[s] = "compare" /\ adj'[s] = adj[s]
      BY <1>2, <2>1 DEF Others
    <2>3. adj[s].key \in Key /\ entries[adj[s].key] # NoEntry
      BY <2>2 DEF CreditsInv, Carries, Adjustment, FirstPayload
    <2>4. QED
      BY <1>3, <1>5, <2>2, <2>3
  <1>10. QED
    BY <1>6, <1>7, <1>8, <1>9 DEF FirstPayload

LEMMA SubmitKeepsPayload ==
  ASSUME CreditsInv, FirstPayload, NEW c \in Client, NEW t \in Txn, Submit(c, t)
  PROVE  FirstPayload'
  <1>1. PICK a \in Payload(c) : submitted' = [submitted EXCEPT ![c] = a] /\ adj' = [adj EXCEPT ![t] = a]
    BY DEF Submit
  <1>2. a \in Adjustment /\ a.key = KeyOf[c] /\ submitted[c] \in {NoEntry, a} /\ a # NoEntry
    BY <1>1, CreditsAssumption DEF Payload
  <1>3. /\ pc[t] = "idle" /\ entries' = entries
        /\ pc' = [pc EXCEPT ![t] = "sent"] /\ client' = [client EXCEPT ![t] = c]
    BY DEF Submit, Goto, tables
  <1>4. /\ \A d \in Client : submitted'[d] = IF d = c THEN a ELSE submitted[d]
        /\ \A s \in Txn : adj'[s] = IF s = t THEN a ELSE adj[s]
        /\ \A s \in Txn : client'[s] = IF s = t THEN c ELSE client[s]
        /\ \A s \in Txn : pc'[s] = IF s = t THEN "sent" ELSE pc[s]
    BY <1>1, <1>3 DEF CreditsInv, TypeOK
  <1>5. \A d \in Client : submitted[d] # NoEntry => submitted'[d] = submitted[d]
    BY <1>2, <1>4
  <1>6. \A d \in Client : submitted'[d] # NoEntry => submitted'[d].key = KeyOf[d]
    BY <1>2, <1>4 DEF FirstPayload
  <1>7. \A s \in Txn : pc'[s] # "idle" => adj'[s] = submitted'[client'[s]]
    <2>1. CASE Txn = {t}
      BY <1>4, <2>1
    <2>2. ASSUME NEW s \in Txn, s # t, pc[s] # "idle" PROVE adj[s] = submitted'[client[s]]
      <3>1. adj[s] = submitted[client[s]] /\ client[s] \in Client /\ adj[s] # NoEntry
        BY <2>2, CreditsAssumption DEF FirstPayload, CreditsInv, Carries
      <3>2. QED
        BY <1>5, <3>1
    <2>3. QED
      BY <1>4, <2>2
  <1>8. \A k \in Key : entries'[k] # NoEntry => \E d \in Client : KeyOf[d] = k /\ entries'[k] = submitted'[d]
    BY <1>3, <1>5 DEF FirstPayload
  <1>9. \A s \in Txn : pc'[s] = "compare" => entries'[adj'[s].key] # NoEntry
    BY <1>3, <1>4 DEF FirstPayload
  <1>10. QED
    BY <1>6, <1>7, <1>8, <1>9 DEF FirstPayload

LEMMA PayloadStep == CreditsInv /\ FirstPayload /\ [Next]_vars => FirstPayload'
  <1> SUFFICES ASSUME CreditsInv, FirstPayload, [Next]_vars PROVE FirstPayload'
    OBVIOUS
  <1>1. ASSUME NEW t \in Txn, pc[t] # "idle", Refuse(t) PROVE FirstPayload'
    BY <1>1, EndKeepsPayload DEF Refuse, tables
  <1>2. ASSUME NEW t \in Txn, Receive(t) PROVE FirstPayload'
    BY <1>1, <1>2, AdvanceKeepsPayload DEF Receive
  <1>3. ASSUME NEW t \in Txn, InsertPair(t) PROVE FirstPayload'
    BY <1>3, AdvanceKeepsPayload DEF InsertPair
  <1>4. ASSUME NEW t \in Txn, ClaimKey(t) PROVE FirstPayload'
    BY <1>4, AdvanceKeepsPayload DEF ClaimKey
  <1>5. ASSUME NEW t \in Txn, Replay(t) PROVE FirstPayload'
    BY <1>5, EndKeepsPayload DEF Replay, tables
  <1>6. ASSUME NEW t \in Txn, Conflict(t) \/ Fail(t) PROVE FirstPayload'
    BY <1>1, <1>6 DEF Conflict, Fail
  <1>7. ASSUME NEW t \in Txn, Increment(t) PROVE FirstPayload'
    <2>1. CASE Refuse(t)
      BY <1>1, <1>7, <2>1 DEF Increment
    <2>2. CASE Goto(t, "commit") /\ UNCHANGED <<tables, Local>>
      BY <1>7, <2>2, AdvanceKeepsPayload DEF Increment
    <2>3. QED
      BY <1>7, <2>1, <2>2 DEF Increment
  <1>8. ASSUME NEW c \in Client, TimeOut(c) \/ Leave(c) PROVE FirstPayload'
    BY <1>8, QuietKeepsPayload DEF TimeOut, Leave, tables
  <1>9. CASE UNCHANGED vars
    BY <1>9, QuietKeepsPayload DEF vars, tables
  <1>10. CASE Next
    BY <1>2, <1>3, <1>4, <1>5, <1>6, <1>7, <1>8, <1>10, CommitKeepsPayload, SubmitKeepsPayload DEF Next, Step
  <1>11. QED
    BY <1>9, <1>10

\* Whatever is lost, delayed and sent again, a dialog that is told of a conflict shares
\* its key with another: its own earlier requests never cause one
\* (AccountCreditsService.adjust, submitted in credit-adjustment.component.ts).
THEOREM RetriesNeverConflict == Spec => RetryNeverConflicts
  <1>1. Init => FirstPayload
    BY DEF Init, FirstPayload
  <1>2. CreditsInv /\ FirstPayload =>
          \A t \in Txn : Conflict(t) => \E c \in Client \ {client[t]} : KeyOf[c] = KeyOf[client[t]]
    <2> SUFFICES ASSUME CreditsInv, FirstPayload, NEW t \in Txn, Conflict(t)
                 PROVE  \E c \in Client \ {client[t]} : KeyOf[c] = KeyOf[client[t]]
      OBVIOUS
    <2>1. /\ entries[adj[t].key] # adj[t] /\ entries[adj[t].key] # NoEntry
          /\ adj[t] \in Adjustment /\ client[t] \in Client /\ adj[t] = submitted[client[t]]
      BY DEF Conflict, SameEntry, FirstPayload, CreditsInv, Carries
    <2>2. adj[t].key \in Key /\ adj[t] # NoEntry
      BY <2>1, CreditsAssumption DEF Adjustment
    <2>3. KeyOf[client[t]] = adj[t].key
      BY <2>1, <2>2 DEF FirstPayload
    <2>4. PICK c \in Client : KeyOf[c] = adj[t].key /\ entries[adj[t].key] = submitted[c]
      BY <2>1, <2>2 DEF FirstPayload
    <2>5. QED
      BY <2>1, <2>3, <2>4
  <1>3. CreditsInv /\ FirstPayload =>
          [\A t \in Txn : Conflict(t) => \E c \in Client \ {client[t]} : KeyOf[c] = KeyOf[client[t]]]_vars
    BY <1>2
  <1>4. QED
    BY <1>1, <1>3, CreditsStart, CreditsStep, PayloadStep, PTL DEF Spec, RetryNeverConflicts
=============================================================================
