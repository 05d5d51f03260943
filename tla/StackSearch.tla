----------------------------- MODULE StackSearch -----------------------------
(***************************************************************************)
(* search_stack of ui-ux-pro-max: which generation of a framework a query  *)
(* is answered for, and the audit of the stack tables that it relies on    *)
(* (_check_stack_freshness_contract).                                      *)
(***************************************************************************)
EXTENDS Integers, FiniteSets, Sequences

CONSTANTS
  StackRow,  \* rows of a stack table
  RowKinds   \* bound: the contents of rows the instances draw from

\* legacyOnly: uwp; versioned: of STACK_CURRENT_VERSIONS; shadcn; open: wpf, uno.
Stack == {"legacyOnly", "versioned", "shadcn", "open"}

\* target: what Applies To names, current, an older version, or nothing of the stack;
\* names: the API identifiers of the row; successor: it says what a new app should use.
Content == [status: {"active", "unverified", "deprecated"}, target: {"current", "legacy", "other"},
            bases: SUBSET {"base", "aria", "radix"}, weighty: BOOLEAN, official: BOOLEAN,
            verified: BOOLEAN, names: SUBSET {"api"}, successor: BOOLEAN]
ASSUME StackAssumption == RowKinds \subseteq Content

\* The versions a query names, against the current one; the words it uses; the
\* component base it names; whether it is nothing but an identifier; whether it is
\* about a brand-new application.
StackQuery == [versions: SUBSET {"older", "same", "newer"}, migrates: BOOLEAN, says_legacy: BOOLEAN,
               base: {"none", "base", "aria", "radix"}, identifier: BOOLEAN, newApp: BOOLEAN]

-----------------------------------------------------------------------------
(* The audit                                                               *)

\* Every row but a deprecated one of a stack targets what the table of current
\* versions says, important rows cite an official page, and something is active.
RowIsFresh(stack, r) ==
  /\ r.target # "other" /\ r.status # "unverified"
  /\ r.status = "active" => r.target = (IF stack = "legacyOnly" THEN "legacy" ELSE "current")
  /\ r.status = "active" => r.target # "legacy"
  /\ r.status = "deprecated" => r.target = "legacy"
  /\ r.weighty => r.official
  /\ r.status # "unverified" => r.verified

SomeActive_Any(stack, rows) == TRUE   \* mutant: not counted
SomeActive(stack, rows) == stack = "legacyOnly" \/ \E x \in DOMAIN rows : rows[x].status = "active"

StackAudit(stack, rows) ==
  SomeActive(stack, rows) /\ \A x \in DOMAIN rows : RowIsFresh(stack, rows[x])

-----------------------------------------------------------------------------
(* The program                                                             *)

AllOlder_Some(versions) == "older" \in versions   \* mutant: any(...)
AllOlder(versions) == versions = {"older"}

\* _stack_query_requests_legacy; of other stacks no versions are read.
RequestsLegacy(stack, q) ==
  \/ stack = "legacyOnly"
  \/ /\ stack = "versioned" /\ q.versions # {}
     /\ ~(q.migrates /\ q.versions \cap {"same", "newer"} # {})
     /\ AllOlder(q.versions)
  \/ /\ stack # "versioned" \/ q.versions = {}
     /\ ~q.migrates /\ q.says_legacy

Statuses(rows) == {rows[x].status : x \in DOMAIN rows}

Generation(stack, rows, q) ==
  CASE RequestsLegacy(stack, q) /\ "deprecated" \in Statuses(rows) -> {"deprecated"}
    [] RequestsLegacy(stack, q) /\ "deprecated" \notin Statuses(rows) /\ stack = "versioned" -> {}
    [] OTHER -> IF "active" \in Statuses(rows) THEN {"active"} ELSE {"unverified", "active"}

\* _stack_row_filter
Admitted(stack, rows, q) ==
  {x \in DOMAIN rows :
     /\ rows[x].status \in Generation(stack, rows, q)
     /\ stack = "shadcn" /\ q.base # "none" => q.base \in rows[x].bases}

OnlyOne(S) == IF Cardinality(S) = 1 THEN S ELSE {}
Successor(stack, rows, q) ==
  IF stack = "legacyOnly" /\ q.newApp
  THEN OnlyOne({x \in Admitted(stack, rows, q) : rows[x].successor}) ELSE {}
ExactIdentifier(stack, rows, q) ==
  IF q.identifier THEN OnlyOne({x \in Admitted(stack, rows, q) : rows[x].names # {}}) ELSE {}

\* The successor row, else the row of the identifier, else rows that are ranked and
\* pass the threshold, if any.
StackAnswers(stack, rows, q) ==
  IF Successor(stack, rows, q) # {} THEN {Successor(stack, rows, q)}
  ELSE IF ExactIdentifier(stack, rows, q) # {} THEN {ExactIdentifier(stack, rows, q)}
  ELSE SUBSET Admitted(stack, rows, q)

-----------------------------------------------------------------------------
VARIABLES stackTable, stack, stackQuery, stackAnswer, stackStep
stackVars == <<stackTable, stack, stackQuery, stackAnswer, stackStep>>

StackInit ==
  /\ stackTable = <<>> /\ stack = "open" /\ stackAnswer = {} /\ stackStep = "tables"
  /\ stackQuery = [versions |-> {}, migrates |-> FALSE, says_legacy |-> FALSE, base |-> "none",
                   identifier |-> FALSE, newApp |-> FALSE]

\* A table that is installed has passed the audit.
InstallStack ==
  /\ stackStep = "tables"
  /\ stack' \in Stack
  /\ \E n \in 0..Cardinality(StackRow) : stackTable' \in [1..n -> RowKinds]
  /\ StackAudit(stack', stackTable')
  /\ stackStep' = "ready" /\ UNCHANGED <<stackQuery, stackAnswer>>

SearchStack ==
  /\ stackStep = "ready"
  /\ stackQuery' \in StackQuery
  /\ stackAnswer' \in StackAnswers(stack, stackTable, stackQuery')
  /\ stackStep' = "answered" /\ UNCHANGED <<stackTable, stack>>

StackNext == InstallStack \/ SearchStack
StackSpec == StackInit /\ [][StackNext]_stackVars

-----------------------------------------------------------------------------
(* Properties                                                              *)

\* Who asks how to move to the current version, or names it next to an older one, is
\* not told how things were done before; a legacy-only stack has nothing newer
\* (_stack_query_requests_legacy over the row filter and the exact identifier).
ModernNeverOlder ==
  stackStep = "answered" /\ stack # "legacyOnly"
    /\ \/ stackQuery.versions \cap {"same", "newer"} # {} /\ stack = "versioned"
       \/ stackQuery.migrates /\ stackQuery.versions = {}
  => \A x \in stackAnswer : stackTable[x].target = "current"

\* With an audited table there are rows for every query that does not ask for the old
\* generation and names no component base, and all of them are current
\* (_check_stack_freshness_contract against _stack_row_filter).
AuditedIsServed ==
  stackStep = "answered" /\ ~RequestsLegacy(stack, stackQuery) =>
    /\ stack # "shadcn" \/ stackQuery.base = "none" => Admitted(stack, stackTable, stackQuery) # {}
    /\ \A x \in Admitted(stack, stackTable, stackQuery) : stackTable[x].target = "current"
=============================================================================
