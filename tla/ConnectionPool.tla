--------------------------- MODULE ConnectionPool ---------------------------
(***************************************************************************)
(* The connection pool of an API replica under concurrent profile updates. *)
(* updateAtomically holds a connection with the user's row locked while    *)
(* prepareChanges asks the pool for another one to look an address up.     *)
(***************************************************************************)
EXTENDS Naturals, Sequences, SequencesExt

CONSTANTS
  Update,          \* updates under way
  RowOf,           \* RowOf[u]: the user u updates
  MaxConnections   \* 10 by default

ASSUME PoolAssumption == MaxConnections \in Nat \ {0}

VARIABLES
  idle,      \* connections nobody holds
  waiters,   \* updates that wait for a connection, in order
  doing,     \* doing[u]: the step of an update
  holds      \* holds[u]: its connections

poolVars == <<idle, waiters, doing, holds>>

PoolInit ==
  /\ idle = MaxConnections /\ waiters = <<>>
  /\ doing = [u \in Update |-> "ended"] /\ holds = [u \in Update |-> 0]

\* u asks for a connection to do next, or waits, as meanwhile.
Connect(u, meanwhile, next) ==
  IF idle > 0
  THEN /\ idle' = idle - 1
       /\ holds' = [holds EXCEPT ![u] = @ + 1]
       /\ doing' = [doing EXCEPT ![u] = next]
       /\ UNCHANGED waiters
  ELSE /\ waiters' = Append(waiters, u)
       /\ doing' = [doing EXCEPT ![u] = meanwhile]
       /\ UNCHANGED <<idle, holds>>

\* u gives n connections back and does next; those who wait in line are served.
GiveBack(u, n, line, next) ==
  LET served == IF Len(line) < n THEN Len(line) ELSE n
      Served == {line[i] : i \in 1 .. served}
  IN  /\ idle' = idle + n - served
      /\ waiters' = SubSeq(line, served + 1, Len(line))
      /\ holds' = [v \in Update |-> IF v = u THEN holds[v] - n ELSE IF v \in Served THEN holds[v] + 1 ELSE holds[v]]
      /\ doing' = [v \in Update |-> IF v = u THEN next
                                 ELSE IF v \in Served THEN (IF doing[v] = "begin" THEN "lock" ELSE "lookup")
                                 ELSE doing[v]]

\* The transaction is over, committed or rolled back.
EndUpdate(u) == GiveBack(u, holds[u], Remove(waiters, u), "ended")

BeginUpdate(u) == doing[u] = "ended" /\ Connect(u, "begin", "lock")

Locked(row) == \E v \in Update : RowOf[v] = row /\ doing[v] \in {"prepare", "wait", "lookup", "save"}

LockRow(u) ==
  /\ doing[u] = "lock" /\ ~Locked(RowOf[u])
  /\ doing' = [doing EXCEPT ![u] = "prepare"]
  /\ UNCHANGED <<idle, waiters, holds>>

\* With a new address, findByEmail on a connection of its own.
PrepareChanges(u) ==
  /\ doing[u] = "prepare"
  /\ \/ Connect(u, "wait", "lookup")
     \/ doing' = [doing EXCEPT ![u] = "save"] /\ UNCHANGED <<idle, waiters, holds>>

LookUp(u) == doing[u] = "lookup" /\ GiveBack(u, 1, waiters, "save")

Save(u) == doing[u] = "save" /\ EndUpdate(u)

\* mutant: only the lookup fails, its transaction keeps its connection
TimesOut_KeepsFirst(u) == doing[u] = "begin"
\* connectionTimeoutMillis: the lookup throws and the transaction rolls back;
\* statement_timeout: so does the wait for the row.
TimesOut(u) == doing[u] \in {"begin", "wait", "lock"}

TimeOutUpdate(u) == TimesOut(u) /\ EndUpdate(u)

UpdateStep(u) == LockRow(u) \/ PrepareChanges(u) \/ LookUp(u) \/ Save(u) \/ TimeOutUpdate(u)

PoolNext == \E u \in Update : BeginUpdate(u) \/ UpdateStep(u)

PoolFairness == \A u \in Update : WF_poolVars(UpdateStep(u))
PoolSpec == PoolInit /\ [][PoolNext]_poolVars /\ PoolFairness

-----------------------------------------------------------------------------
(* Properties                                                              *)

\* Every update ends, even when each connection is held by an update that
\* waits for a second one.
UpdateEnds == \A u \in Update : doing[u] # "ended" ~> doing[u] = "ended"
=============================================================================
