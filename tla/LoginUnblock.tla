---------------------------- MODULE LoginUnblock ----------------------------
(***************************************************************************)
(* Login blocks and their removal: AuthProtectionGuard counts attempts in  *)
(* Redis and records a block in PostgreSQL; LoginUnblockService records a  *)
(* request, then resets the counter and completes the request, in the call *)
(* itself or in the retry worker every API replica runs.                   *)
(*                                                                         *)
(* A process is a call of unblock or a worker.  A step is one statement or *)
(* one Redis command; a transaction's writes appear in its last step.      *)
(***************************************************************************)
EXTENDS Integers, FiniteSets, FiniteSetsExt

CONSTANTS
  Key,       \* hashed client addresses
  NoKey,
  Attempt,   \* guarded requests between the counter and the block's row
  Caller,    \* calls of unblock under way
  Worker,    \* API replicas
  Limit,     \* attempts allowed in a window
  MaxGen,    \* bound: generations of blocks, 1 .. MaxGen
  MaxReq,    \* bound: unblock requests, 1 .. MaxReq in order of created_at
  Batch      \* requests a worker takes at a time (20 in the code)

Proc == Caller \cup Worker
Gen  == 1 .. MaxGen       \* 0: no block
Req  == 1 .. MaxReq       \* 0: no request

ASSUME UnblockAssumption ==
  /\ Limit \in Nat /\ MaxGen \in Nat /\ MaxReq \in Nat /\ Batch \in Nat \ {0}
  /\ Caller \cap Worker = {} /\ NoKey \notin Key

VARIABLES
  counter,   \* Redis: attempts in the current window, capped at Limit + 2
  marker,    \* Redis: requests with a deduplication marker
  block,     \* login_blocks: block[k] is the generation, 0 without a row
  lastGen,   \* generations in use
  request,   \* login_unblock_requests
  recording, \* recording[a]: key whose block the guard is about to record
  pc, key, id, gen,   \* a process's stage, key, request and generation read
  joined,    \* the call found another call's pending request
  answer,    \* what the call was answered
  todo,      \* todo[w]: rest of the worker's batch
  resets,    \* history: resets[r] counts the times r has erased the counter
  opened     \* history: opened[p]: the key was not over its limit at some time of the call

redis == <<counter, marker, resets, opened>>
local == <<pc, key, id, gen, joined, answer, todo>>
vars  == <<redis, block, lastGen, request, recording, local>>

Unused == [state |-> "unused", key |-> NoKey, gen |-> 0, age |-> 0]

Init ==
  /\ counter = [k \in Key |-> 0]
  /\ marker = {}
  /\ block = [k \in Key |-> 0]
  /\ lastGen = 0
  /\ request = [r \in Req |-> Unused]
  /\ recording = [a \in Attempt |-> NoKey]
  /\ pc = [p \in Proc |-> "idle"]
  /\ key = [p \in Proc |-> NoKey]
  /\ id = [p \in Proc |-> 0]
  /\ gen = [p \in Proc |-> 0]
  /\ joined = [p \in Proc |-> FALSE]
  /\ answer = [p \in Proc |-> "none"]
  /\ todo = [w \in Worker |-> {}]
  /\ resets = [r \in Req |-> 0]
  /\ opened = [p \in Proc |-> FALSE]

Pending(k) == {r \in Req : request[r].state = "pending" /\ request[r].key = k}
AllPending == {r \in Req : request[r].state = "pending"}
Free       == {r \in Req : request[r].state = "unused"}

-----------------------------------------------------------------------------
(* The guard                                                               *)

\* The attempt that first exceeds the limit records the block.
CountAttempt(a, k) ==
  /\ recording[a] = NoKey
  /\ counter[k] < Limit + 2
  /\ counter' = [counter EXCEPT ![k] = @ + 1]
  /\ recording' = [recording EXCEPT ![a] = IF counter[k] = Limit THEN k ELSE NoKey]
  /\ UNCHANGED <<marker, resets, opened, block, lastGen, request, local>>

RecordBlock(a) ==
  /\ recording[a] # NoKey
  /\ lastGen < MaxGen
  /\ lastGen' = lastGen + 1
  /\ block' = [block EXCEPT ![recording[a]] = lastGen + 1]
  /\ recording' = [recording EXCEPT ![a] = NoKey]
  /\ UNCHANGED <<redis, request, local>>

\* The database does not take the row, the attempt is refused all the same.
LoseBlock(a) ==
  /\ recording[a] # NoKey
  /\ recording' = [recording EXCEPT ![a] = NoKey]
  /\ UNCHANGED <<redis, block, lastGen, request, local>>

\* The counter of k is gone, by a reset or by its expiry.
Erase(k) ==
  /\ counter' = [counter EXCEPT ![k] = 0]
  /\ opened' = [p \in Proc |-> opened[p] \/ key[p] = k]

WindowEnds(k) ==
  /\ counter[k] > 0
  /\ Erase(k)
  /\ UNCHANGED <<marker, resets, block, lastGen, request, recording, local>>

-----------------------------------------------------------------------------
(* unblock: the transaction that makes the request durable                 *)

Goto(p, stage) == pc' = [pc EXCEPT ![p] = stage]

Call(p, k) ==
  /\ pc[p] = "idle"
  /\ Goto(p, "read")
  /\ key' = [key EXCEPT ![p] = k]
  /\ id' = [id EXCEPT ![p] = 0]
  /\ gen' = [gen EXCEPT ![p] = 0]
  /\ joined' = [joined EXCEPT ![p] = FALSE]
  /\ answer' = [answer EXCEPT ![p] = "none"]
  /\ opened' = [opened EXCEPT ![p] = counter[k] <= Limit]
  /\ UNCHANGED <<counter, marker, resets, block, lastGen, request, recording, todo>>

ReadBlock(p) ==
  /\ pc[p] = "read"
  /\ gen' = [gen EXCEPT ![p] = block[key[p]]]
  /\ Goto(p, "insert")
  /\ UNCHANGED <<redis, block, lastGen, request, recording, key, id, joined, answer, todo>>

\* login_unblock_pending_key: one pending request per key.
InsertRequest(p) ==
  /\ pc[p] = "insert"
  /\ \/ /\ Pending(key[p]) = {}
        /\ Free # {}
        /\ id' = [id EXCEPT ![p] = Min(Free)]
        /\ request' = [request EXCEPT ![Min(Free)] =
                         [state |-> "pending", key |-> key[p], gen |-> gen[p], age |-> 0]]
        /\ Goto(p, "lock")
        /\ UNCHANGED joined
     \/ /\ Pending(key[p]) # {}
        /\ joined' = [joined EXCEPT ![p] = TRUE]
        /\ Goto(p, "find")
        /\ UNCHANGED <<id, request>>
  /\ UNCHANGED <<redis, block, lastGen, recording, key, gen, answer, todo>>

Answer(p, text) ==
  /\ Goto(p, "idle")
  /\ answer' = [answer EXCEPT ![p] = text]

FindPending(p) ==
  /\ pc[p] = "find"
  /\ \/ /\ Pending(key[p]) # {}
        /\ id' = [id EXCEPT ![p] = Min(Pending(key[p]))]
        /\ Goto(p, "lock")
        /\ UNCHANGED answer
     \* completed after the conflict
     \/ Pending(key[p]) = {} /\ Answer(p, "unblocked") /\ UNCHANGED id
  /\ UNCHANGED <<redis, block, lastGen, request, recording, key, gen, joined, todo>>

-----------------------------------------------------------------------------
(* reconcile: a round of a worker                                          *)

\* mutant: requests past the age limit are left out of the query
Oldest_Fresh ==
  LET fresh == {r \in AllPending : request[r].age = 0}
  IN  {r \in fresh : Cardinality({s \in fresh : s < r}) < Batch}
\* The oldest Batch pending requests.
Oldest == {r \in AllPending : Cardinality({s \in AllPending : s < r}) < Batch}

Scan(w) ==
  /\ pc[w] = "idle"
  /\ Oldest # {}
  /\ todo' = [todo EXCEPT ![w] = Oldest \ {Min(Oldest)}]
  /\ id' = [id EXCEPT ![w] = Min(Oldest)]
  /\ Goto(w, "lock")
  /\ UNCHANGED <<redis, block, lastGen, request, recording, key, gen, joined, answer>>

-----------------------------------------------------------------------------
(* process                                                                 *)

Holders(r) == {p \in Proc : pc[p] \in {"reset", "complete", "expire"} /\ id[p] = r}

\* process returns: a call answers, a worker takes up the next request.
Return(p, done) ==
  \/ /\ p \in Caller
     /\ Answer(p, IF done THEN "unblocked" ELSE "saved")
     /\ UNCHANGED <<id, todo>>
  \/ /\ p \in Worker
     /\ IF todo[p] = {} THEN Goto(p, "idle") /\ UNCHANGED <<id, todo>>
        ELSE /\ Goto(p, "lock")
             /\ id' = [id EXCEPT ![p] = Min(todo[p])]
             /\ todo' = [todo EXCEPT ![p] = @ \ {Min(todo[p])}]
     /\ UNCHANGED answer

\* process throws: a call's request stays, a worker's round is over.
Throw(p) ==
  \/ /\ p \in Caller
     /\ Answer(p, IF pc[p] \in {"read", "insert", "find"} THEN "error" ELSE "saved")
     /\ UNCHANGED todo
  \/ /\ p \in Worker
     /\ Goto(p, "idle")
     /\ todo' = [todo EXCEPT ![p] = {}]
     /\ UNCHANGED answer

TooOld_Never(r) == FALSE   \* mutant: no age limit
TooOld(r) == request[r].age > 0

Skipped_Done == TRUE   \* mutant: a row another process has locked is taken for done
\* What process returns for it.
Skipped == FALSE

\* SELECT ... FOR UPDATE SKIP LOCKED, and what is decided from the row
LockRequest(p) ==
  LET r == id[p] IN
  /\ pc[p] = "lock"
  /\ \/ Holders(r) # {} /\ Return(p, Skipped)
     \/ /\ Holders(r) = {} /\ request[r].state # "pending"
        /\ Return(p, TRUE)
     \/ /\ Holders(r) = {} /\ request[r].state = "pending"
        /\ Goto(p, IF TooOld(r) THEN "expire" ELSE "reset")
        /\ UNCHANGED <<id, answer, todo>>
  /\ UNCHANGED <<redis, block, lastGen, request, recording, key, gen, joined>>

Expire(p) ==
  /\ pc[p] = "expire"
  /\ request' = [request EXCEPT ![id[p]].state = "expired"]
  /\ Return(p, FALSE)
  /\ UNCHANGED <<redis, block, lastGen, recording, key, gen, joined>>

\* RESET_ONCE_SCRIPT
EraseOnce(r) ==
  \/ r \in marker /\ UNCHANGED redis
  \/ /\ r \notin marker
     /\ Erase(request[r].key)
     /\ marker' = marker \cup {r}
     /\ resets' = [resets EXCEPT ![r] = @ + 1]

ResetCounter(p) ==
  /\ pc[p] = "reset"
  /\ EraseOnce(id[p])
  /\ Goto(p, "complete")
  /\ UNCHANGED <<block, lastGen, request, recording, key, id, gen, joined, answer, todo>>

\* The script runs, its reply is lost: the transaction rolls back.
ResetUnheard(p) ==
  /\ pc[p] = "reset"
  /\ EraseOnce(id[p])
  /\ Throw(p)
  /\ UNCHANGED <<block, lastGen, request, recording, key, id, gen, joined>>

Cleared_AnyGeneration(r) == TRUE   \* mutant: delete({ key })
\* mutant: the block is left to expire
Cleared_Never(r) == FALSE
Cleared(r) == request[r].gen # 0 /\ block[request[r].key] = request[r].gen

Complete(p) ==
  LET r == id[p] IN
  /\ pc[p] = "complete"
  /\ block' = IF Cleared(r) THEN [block EXCEPT ![request[r].key] = 0] ELSE block
  /\ request' = [request EXCEPT ![r].state = "completed"]
  /\ Return(p, TRUE)
  /\ UNCHANGED <<redis, lastGen, recording, key, gen, joined>>

\* Redis or PostgreSQL does not answer in time, or the process dies.
Fail(p) ==
  /\ pc[p] # "idle"
  /\ Throw(p)
  /\ UNCHANGED <<redis, block, lastGen, request, recording, key, id, gen, joined>>

-----------------------------------------------------------------------------
(* Time: a request is older than a day at age 1 and than the seven days a  *)
(* marker lives at age 2.  The call that made it does not last a day, nor  *)
(* a transaction six: statements time out after seconds.                   *)

GrowOld(r) ==
  /\ request[r].state # "unused" /\ request[r].age < 2
  /\ request[r].age = 1 => Holders(r) = {}
  /\ \A p \in Caller : id[p] = r /\ pc[p] # "idle" => joined[p]
  /\ request' = [request EXCEPT ![r].age = @ + 1]
  /\ UNCHANGED <<redis, block, lastGen, recording, local>>

ForgetMarker(r) ==
  /\ r \in marker /\ request[r].age = 2
  /\ marker' = marker \ {r}
  /\ UNCHANGED <<counter, resets, opened, block, lastGen, request, recording, local>>

Process(p) == LockRequest(p) \/ Expire(p) \/ ResetCounter(p) \/ Complete(p)

Next ==
  \/ \E a \in Attempt : (\E k \in Key : CountAttempt(a, k)) \/ RecordBlock(a) \/ LoseBlock(a)
  \/ \E k \in Key : WindowEnds(k)
  \/ \E p \in Caller : (\E k \in Key : Call(p, k)) \/ ReadBlock(p) \/ InsertRequest(p) \/ FindPending(p)
  \/ \E w \in Worker : Scan(w)
  \/ \E p \in Proc : Process(p) \/ ResetUnheard(p) \/ Fail(p)
  \/ \E r \in Req : GrowOld(r) \/ ForgetMarker(r)

Spec == Init /\ [][Next]_vars

(* A worker's timer fires again and again, and outages end: a command that *)
(* is tried again and again succeeds.  A call does not linger at the lock. *)
Fairness ==
  /\ \A w \in Worker : WF_vars(Scan(w)) /\ SF_vars(LockRequest(w))
  /\ \A p \in Caller : WF_vars(LockRequest(p) \/ Fail(p))
  /\ \A p \in Proc : SF_vars(ResetCounter(p)) /\ SF_vars(Expire(p) \/ Complete(p))
FairSpec == Spec /\ Fairness

-----------------------------------------------------------------------------
(* Properties                                                              *)

\* The tables, Redis and the processes have their types.
TypeOK ==
  /\ counter \in [Key -> 0 .. Limit + 2]
  /\ marker \subseteq Req
  /\ block \in [Key -> {0} \cup Gen] /\ lastGen \in {0} \cup Gen
  /\ request \in [Req -> [state: {"unused", "pending", "completed", "expired"},
                          key: Key \cup {NoKey}, gen: {0} \cup Gen, age: 0 .. 2]]
  /\ recording \in [Attempt -> Key \cup {NoKey}]
  /\ pc \in [Proc -> {"idle", "read", "insert", "find", "lock", "reset", "complete", "expire"}]
  /\ key \in [Proc -> Key \cup {NoKey}]
  /\ id \in [Proc -> {0} \cup Req]
  /\ gen \in [Proc -> {0} \cup Gen]
  /\ joined \in [Proc -> BOOLEAN]
  /\ answer \in [Proc -> {"none", "unblocked", "saved", "error"}]
  /\ todo \in [Worker -> SUBSET Req]
  /\ resets \in [Req -> Nat]
  /\ opened \in [Proc -> BOOLEAN]

\* However often a request is retried, by calls and workers, after lost replies
\* and when its marker has expired, it erases the counter once: never the
\* window that a newer series of attempts has filled.
ResetAtMostOnce == \A r \in Req : resets[r] <= 1

\* A completed request has done both halves of its work, the reset and the
\* removal of the block it was made for; an expired one may have done none.
CompletedIsDone ==
  \A r \in Req : request[r].state = "completed" =>
    /\ resets[r] = 1
    /\ request[r].gen # 0 => block[request[r].key] # request[r].gen

\* "A retry must not erase a newer block": a block goes only with the request
\* that was made for that very generation.
NewerBlockSurvives ==
  [][\A k \in Key : block[k] # 0 /\ block'[k] = 0 =>
       \E r \in Pending(k) : request[r].gen = block[k] /\ request'[r].state = "completed"]_vars

\* A call that made its own request and is answered "unblocked" was right: at
\* some moment of the call the address was not over its limit.
OwnRequestUnblocks ==
  \A p \in Caller : answer[p] = "unblocked" /\ ~joined[p] => opened[p]

\* docs/operations.md: "An unblock first commits a request [...], then resets
\* the Redis counter and commits completion": whoever is answered "unblocked".
UnblockedMeansReset ==
  \A p \in Caller : answer[p] = "unblocked" => opened[p]

\* unblock's message "is saved for automatic retry": the request it is about
\* has not been given up.
SavedIsRetried ==
  [][\A p \in Caller : answer[p] = "none" /\ answer'[p] = "saved" =>
       request'[id[p]].state # "expired"]_vars

\* Every pending request comes to its end, completed or expired.
PendingEnds == \A r \in Req : request[r].state = "pending" ~> request[r].state # "pending"
=============================================================================
