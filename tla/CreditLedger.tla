---------------------------- MODULE CreditLedger ----------------------------
(***************************************************************************)
(* What account credits promise (README.md "decimal credit balances,       *)
(* idempotent adjustments, and audit history"; docs/architecture.md, the   *)
(* paragraph on credit balances): an adjustment is entered at most once per *)
(* idempotency key, in one step with the balance and the audit record; an  *)
(* entry is final; and whoever was told of success finds his adjustment    *)
(* entered.                                                                *)
(***************************************************************************)
EXTENDS Integers

CONSTANTS
  Pair,        \* (account, currency)
  Key,         \* idempotency keys
  Note,        \* reason and operator
  Amount,      \* amounts, in units of 0.0001
  MaxBalance,  \* numeric(20,4) holds -MaxBalance .. MaxBalance
  NoEntry      \* no ledger entry

Adjustment == [pair: Pair, amount: Amount, key: Key, note: Note]

VARIABLES
  ledger,   \* ledger[k]: the adjustment entered under the key k
  balances, \* balances[p]
  audit,    \* audit[p]: number of "credit.adjusted" activities
  told      \* adjustments whose submitter has been told of success

ledgerVars == <<ledger, balances, audit, told>>

LedgerInit ==
  /\ ledger = [k \in Key |-> NoEntry]
  /\ balances = [p \in Pair |-> 0]
  /\ audit = [p \in Pair |-> 0]
  /\ told = {}

InRange(n) == -MaxBalance <= n /\ n <= MaxBalance

\* The submitter may have gone by the time the adjustment is entered.
Enter(a) ==
  /\ ledger[a.key] = NoEntry
  /\ a.amount # 0
  /\ InRange(balances[a.pair] + a.amount)
  /\ ledger' = [ledger EXCEPT ![a.key] = a]
  /\ balances' = [balances EXCEPT ![a.pair] = @ + a.amount]
  /\ audit' = [audit EXCEPT ![a.pair] = @ + 1]
  /\ told' \in {told, told \cup {a}}

Tell(a) ==
  /\ ledger[a.key] = a
  /\ told' = told \cup {a}
  /\ UNCHANGED <<ledger, balances, audit>>

LedgerNext == \E a \in Adjustment : Enter(a) \/ Tell(a)
LedgerSpec == LedgerInit /\ [][LedgerNext]_ledgerVars
=============================================================================
