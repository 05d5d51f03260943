--------------------------- MODULE AccountCredits ---------------------------
(***************************************************************************)
(* Credit adjustments end to end: the web dialog that submits an           *)
(* adjustment and retries it after an uncertain answer, and the transaction *)
(* AccountCreditsService.adjust runs for every request that arrives.       *)
(*                                                                         *)
(* The transaction is at READ COMMITTED; a step is one SQL statement with  *)
(* the wait it may have to make.  What it has written is seen by the others *)
(* from its last step, the commit, on; until then it makes them wait.      *)
(***************************************************************************)
EXTENDS Integers, FiniteSets, Functions

CONSTANTS
  Pair, Key, Note, Amount, MaxBalance, NoEntry,   \* see CreditLedger
  Client,    \* open dialogs, and programs that call the API
  KeyOf,     \* KeyOf[c]: the key c sends; programs may share one
  Txn,       \* requests that may be under way at a time
  NoClient

Adjustment == [pair: Pair, amount: Amount, key: Key, note: Note]

ASSUME CreditsAssumption ==
  /\ Amount \subseteq Int /\ MaxBalance \in Nat
  /\ NoEntry \notin Adjustment
  /\ KeyOf \in [Client -> Key] /\ NoClient \notin Client

VARIABLES
  rows,      \* pairs that have a row in account_credits
  balance,   \* balance[p], 0 where there is no row
  entries,   \* entries[k]: the row of credit_entries with that key
  audits,    \* audits[p]: "credit.adjusted" rows of activities
  pc,        \* the statement a request is about to execute
  client,    \* client[t]: who sent it
  adj,       \* adj[t]: the adjustment it carries
  heard,     \* heard[t]: the sender still waits for its answer
  result,    \* result[t]: the balance in t's uncommitted row version
  dialog,    \* dialog[c]
  submitted  \* submitted[c]: the payload of the first submission

tables == <<rows, balance, entries, audits>>
vars   == <<tables, pc, client, adj, heard, result, dialog, submitted>>

Init ==
  /\ rows = {}
  /\ balance = [p \in Pair |-> 0]
  /\ entries = [k \in Key |-> NoEntry]
  /\ audits = [p \in Pair |-> 0]
  /\ pc = [t \in Txn |-> "idle"]
  /\ client = [t \in Txn |-> NoClient]
  /\ adj = [t \in Txn |-> NoEntry]
  /\ heard = [t \in Txn |-> FALSE]
  /\ result = [t \in Txn |-> 0]
  /\ dialog = [c \in Client |-> "open"]
  /\ submitted = [c \in Client |-> NoEntry]

Goto(t, stage) == pc' = [pc EXCEPT ![t] = stage]

-----------------------------------------------------------------------------
(* The dialog                                                              *)

\* mutant: a retry sends what the form holds by then
Payload_Reread(c) == {a \in Adjustment : a.key = KeyOf[c]}
\* submitted ??= form.getRawValue(): a retry sends the first payload again.
Payload(c) == {a \in Adjustment : a.key = KeyOf[c] /\ submitted[c] \in {NoEntry, a}}

Submit(c, t) ==
  /\ dialog[c] = "open"
  /\ pc[t] = "idle"
  /\ \E a \in Payload(c) : /\ submitted' = [submitted EXCEPT ![c] = a]
                            /\ adj' = [adj EXCEPT ![t] = a]
  /\ dialog' = [dialog EXCEPT ![c] = "saving"]
  /\ Goto(t, "sent")
  /\ client' = [client EXCEPT ![t] = c]
  /\ heard' = [heard EXCEPT ![t] = TRUE]
  /\ UNCHANGED <<tables, result>>

StopListening(c) == heard' = [t \in Txn |-> heard[t] /\ client[t] # c]

\* The connection fails or times out; the request may be anywhere.
TimeOut(c) ==
  /\ dialog[c] = "saving"
  /\ dialog' = [dialog EXCEPT ![c] = "open"]
  /\ StopListening(c)
  /\ UNCHANGED <<tables, pc, client, adj, result, submitted>>

\* Cancel, or Escape even while a submission is under way.
Leave(c) ==
  /\ dialog[c] \in {"open", "saving"}
  /\ dialog' = [dialog EXCEPT ![c] = "discarded"]
  /\ StopListening(c)
  /\ UNCHANGED <<tables, pc, client, adj, result, submitted>>

-----------------------------------------------------------------------------
(* The request                                                             *)

\* The transaction is over and its answer sent.
End(t, answer) ==
  /\ Goto(t, "idle")
  /\ client' = [client EXCEPT ![t] = NoClient]
  /\ adj' = [adj EXCEPT ![t] = NoEntry]
  /\ heard' = [heard EXCEPT ![t] = FALSE]
  /\ result' = [result EXCEPT ![t] = 0]
  /\ dialog' = IF heard[t] THEN [dialog EXCEPT ![client[t]] = answer] ELSE dialog
  /\ UNCHANGED submitted

\* An exception: rollback and an error answer.
Refuse(t) == End(t, "open") /\ UNCHANGED tables

\* The request is lost, the process dies, or a statement times out.
Fail(t) == pc[t] # "idle" /\ Refuse(t)

Local == <<client, adj, heard, dialog, submitted>>

Receive(t) ==
  /\ pc[t] = "sent"
  /\ \/ adj[t].amount # 0 /\ Goto(t, "pair") /\ UNCHANGED <<tables, result, Local>>
     \/ adj[t].amount = 0 /\ Refuse(t)

\* Requests whose uncommitted account_credits row is that of t's pair.
Inserting(t) ==
  {s \in Txn \ {t} : /\ pc[s] \in {"claim", "compare", "increment", "commit"}
                     /\ adj[s].pair = adj[t].pair /\ adj[s].pair \notin rows}

\* INSERT INTO account_credits ... ON CONFLICT DO NOTHING
InsertPair(t) ==
  /\ pc[t] = "pair"
  /\ Inserting(t) = {}
  /\ Goto(t, "claim")
  /\ UNCHANGED <<tables, result, Local>>

\* Requests that have inserted t's key and not committed yet.
Claiming(t) == {s \in Txn \ {t} : pc[s] \in {"increment", "commit"} /\ adj[s].key = adj[t].key}

\* INSERT INTO credit_entries ... ON CONFLICT DO NOTHING RETURNING id
ClaimKey(t) ==
  /\ pc[t] = "claim"
  /\ Claiming(t) = {}
  /\ Goto(t, IF entries[adj[t].key] = NoEntry THEN "increment" ELSE "compare")
  /\ UNCHANGED <<tables, result, Local>>

SameEntry_KeyOnly(t) == entries[adj[t].key] # NoEntry   \* mutant: existsBy({idempotency_key})
SameEntry(t) == entries[adj[t].key] = adj[t]

Replay(t) ==
  /\ pc[t] = "compare"
  /\ SameEntry(t)
  /\ End(t, "recorded")
  /\ UNCHANGED tables

Conflict_Retried(t) ==   \* mutant: the claim is tried again until it is granted
  pc[t] = "compare" /\ ~SameEntry(t) /\ Goto(t, "claim") /\ UNCHANGED <<tables, result, Local>>
Conflict(t) ==
  /\ pc[t] = "compare"
  /\ ~SameEntry(t)
  /\ Refuse(t)

Updating_Unseen(t) == {}   \* mutant: save() of the balance that was read
\* Requests that hold the lock of the row t wants to update.
Updating(t) == {s \in Txn \ {t} : pc[s] = "commit" /\ adj[s].pair = adj[t].pair}

InRange_Any(n) == TRUE   \* mutant: numeric without precision
InRange(n) == -MaxBalance <= n /\ n <= MaxBalance

\* UPDATE account_credits SET balance = balance + amount
Increment(t) ==
  LET new == balance[adj[t].pair] + adj[t].amount IN
  /\ pc[t] = "increment"
  /\ Updating(t) = {}
  /\ \/ /\ InRange(new)
        /\ result' = [result EXCEPT ![t] = new]
        /\ Goto(t, "commit")
        /\ UNCHANGED <<tables, Local>>
     \/ ~InRange(new) /\ Refuse(t)

\* The audit row is inserted and everything becomes visible.
Commit(t) ==
  LET a == adj[t] IN
  /\ pc[t] = "commit"
  /\ rows' = rows \cup {a.pair}
  /\ balance' = [balance EXCEPT ![a.pair] = result[t]]
  /\ entries' = [entries EXCEPT ![a.key] = a]
  /\ audits' = [audits EXCEPT ![a.pair] = @ + 1]
  /\ End(t, "recorded")

Step(t) ==
  \/ Receive(t) \/ InsertPair(t) \/ ClaimKey(t) \/ Replay(t) \/ Conflict(t)
  \/ Increment(t) \/ Commit(t)

Next ==
  \/ \E c \in Client : (\E t \in Txn : Submit(c, t)) \/ TimeOut(c) \/ Leave(c)
  \/ \E t \in Txn : Step(t) \/ Fail(t)

Spec == Init /\ [][Next]_vars

(* The waits are for a transaction's end; a waiter is granted its turn in  *)
(* the order of PostgreSQL's queue.                                        *)
FairSpec == Spec /\ \A t \in Txn : SF_vars(Step(t))

-----------------------------------------------------------------------------
(* Properties                                                              *)

\* The tables, the requests and the dialogs have their types.
TypeOK ==
  /\ rows \subseteq Pair
  /\ balance \in [Pair -> -MaxBalance .. MaxBalance]
  /\ entries \in [Key -> Adjustment \cup {NoEntry}]
  /\ audits \in [Pair -> Nat]
  /\ pc \in [Txn -> {"idle", "sent", "pair", "claim", "compare", "increment", "commit"}]
  /\ client \in [Txn -> Client \cup {NoClient}]
  /\ adj \in [Txn -> Adjustment \cup {NoEntry}]
  /\ heard \in [Txn -> BOOLEAN]
  /\ result \in [Txn -> Int]
  /\ dialog \in [Client -> {"open", "saving", "recorded", "discarded"}]
  /\ submitted \in [Client -> Adjustment \cup {NoEntry}]

Told == {submitted[c] : c \in {d \in Client : dialog[d] = "recorded"}}
Ledger == INSTANCE CreditLedger
            WITH ledger <- entries, balances <- balance, audit <- audits, told <- Told

\* adjust and the dialog implement the ledger: whatever is retried, duplicated,
\* raced or lost, each key is entered once, in one step with its balance and
\* audit row, and a dialog that closes as recorded has its adjustment entered.
ImplementsLedger == Ledger!LedgerSpec

\* The keys entered for a pair.
Entered(p) == {k \in Key : entries[k] # NoEntry /\ entries[k].pair = p}

\* The balance is the sum of the entries (docs/operations.md step 7 relies on
\* it to find lost credits).
BalanceIsSum ==
  \A p \in Pair : /\ balance[p] = SumFunction([k \in Entered(p) |-> entries[k].amount])
                  /\ audits[p] = Cardinality(Entered(p))

\* A dialog is never told that its key belongs to a different adjustment on
\* account of its own earlier request, the one it gave up waiting for included.
RetryNeverConflicts ==
  [][\A t \in Txn : Conflict(t) =>
       \E c \in Client \ {client[t]} : KeyOf[c] = KeyOf[client[t]]]_vars

\* Every request ends: the waits for a pair, for a key and for a balance are
\* never circular.
RequestsEnd == \A t \in Txn : pc[t] # "idle" ~> pc[t] = "idle"
=============================================================================
