-------------------------- MODULE LoginUnblockProofs --------------------------
(***************************************************************************)
(* The removal of login blocks, for every number of addresses, calls,      *)
(* workers and requests: a request resets once and completes only what it  *)
(* has done, whatever replies are lost and markers expire.                 *)
(***************************************************************************)
EXTENDS LoginUnblock, FiniteSetTheorems, WellFoundedInduction, TLAPS

Located == {"lock", "reset", "complete", "expire"}
Holding == {"reset", "complete", "expire"}

\* Rows and processes know their address once they have begun.
Keyed ==
  /\ \A r \in Req : request[r].state # "unused" => request[r].key \in Key
  /\ \A p \in Proc : pc[p] \in {"read", "insert", "find"} => key[p] \in Key /\ p \in Caller
  /\ \A p \in Proc : pc[p] \in Located => id[p] \in Req
Types == TypeOK /\ Keyed

\* No generation is used before it is made.
Gens ==
  /\ \A k \in Key : block[k] <= lastGen
  /\ \A p \in Proc : gen[p] <= lastGen
  /\ \A r \in Req : request[r].gen <= lastGen

\* The marker counts the resets until a request is too old to be reset again.
Marked ==
  \A r \in Req :
    /\ request[r].state = "unused" => resets[r] = 0 /\ request[r].age = 0
    /\ r \in marker => resets[r] = 1
    /\ r \notin marker => resets[r] = 0 \/ (resets[r] = 1 /\ request[r].age = 2)

\* A locked request is one process's, pending, and young where it will be reset.
Locks ==
  \A p \in Proc : pc[p] \in Holding =>
    /\ request[id[p]].state = "pending"
    /\ \A q \in Proc : pc[q] \in Holding /\ id[q] = id[p] => q = p
    /\ pc[p] \in {"reset", "complete"} => request[id[p]].age < 2
    /\ pc[p] = "complete" => id[p] \in marker
    /\ pc[p] = "expire" => request[id[p]].age > 0

\* A call that made its request sees it through while it is young.
Owned ==
  \A p \in Caller :
    /\ pc[p] = "find" => joined[p]
    /\ pc[p] \in Located /\ ~joined[p] =>
         /\ request[id[p]].age = 0 /\ request[id[p]].key = key[p]
         /\ request[id[p]].state \in {"pending", "completed"}
         /\ resets[id[p]] = 1 => opened[p]

(* None of the properties is inductive: a reset is the first because the    *)
(* marker outlives every process that may still come to it.                 *)
UnblockInv == Types /\ Gens /\ Marked /\ Locks /\ CompletedIsDone /\ Owned /\ OwnRequestUnblocks

USE UnblockAssumption DEF Proc, Gen, Req

\* The smallest of a set of requests is one of them: of the sets of requests up
\* to a given one, a smallest has no member below its own.
LEMMA MinIsMember ==
  ASSUME NEW S \in SUBSET Req, S # {}
  PROVE  Min(S) \in S
<1> DEFINE upTo(x) == {y \in S : y <= x}
           heads == {upTo(x) : x \in S}
<1>1. IsWellFoundedOn(StrictSubsetOrdering(S), FiniteSubsetsOf(S))
  BY FS_StrictSubsetOrderingWellFounded
<1>2. heads \subseteq SUBSET S /\ heads # {}
  OBVIOUS
<1>3. heads \subseteq FiniteSubsetsOf(S)
  <2>1. IsFiniteSet(1 .. MaxReq)
    BY FS_Interval
  <2>2. IsFiniteSet(S)
    BY <2>1, FS_Subset
  <2> QED
    BY <1>2, <2>2, FS_FiniteSubsetsOfFinite
<1>4. \E H \in heads : \A G \in heads : ~ (<<G, H>> \in StrictSubsetOrdering(S))
  <2> HIDE DEF heads
  <2> QED
    BY <1>1, <1>2, <1>3, WFMin
<1>5. PICK x \in S : \A G \in heads : ~ (<<G, upTo(x)>> \in StrictSubsetOrdering(S))
  BY <1>4
<1>6. ASSUME NEW y \in S, y < x PROVE FALSE
  <2>1. upTo(y) \in heads
    OBVIOUS
  <2>2. upTo(y) \subseteq upTo(x)
    <3> SUFFICES ASSUME NEW z \in upTo(y) PROVE z \in upTo(x)
      OBVIOUS
    <3>1. z \in Nat /\ y \in Nat /\ x \in Nat
      OBVIOUS
    <3> QED
      BY <1>6, <3>1
  <2>3. x \notin upTo(y) /\ x \in upTo(x)
    <3>1. y \in Nat /\ x \in Nat
      OBVIOUS
    <3> QED
      BY <1>6, <3>1
  <2>4. upTo(y) \in SUBSET S /\ upTo(x) \in SUBSET S
    OBVIOUS
  <2> HIDE DEF upTo, heads
  <2>5. <<upTo(y), upTo(x)>> \in StrictSubsetOrdering(S)
    BY <2>2, <2>3, <2>4 DEF StrictSubsetOrdering
  <2> QED
    BY <1>5, <2>1, <2>5
<1>7. \A y \in S : x <= y
  BY <1>6
<1> QED
  BY <1>7 DEF Min

\* A step that erases counters opens calls and closes none.
LEMMA EraseTypes ==
  ASSUME Types, NEW k, Erase(k)
  PROVE  /\ counter' \in [Key -> 0 .. Limit + 2] /\ opened' \in [Proc -> BOOLEAN]
         /\ \A p \in Proc : opened[p] \/ key[p] = k => opened'[p]
<1>1. counter' \in [Key -> 0 .. Limit + 2]
  <2>1. counter \in [Key -> 0 .. Limit + 2] /\ counter' = [counter EXCEPT ![k] = 0]
    BY DEF Types, TypeOK, Erase
  <2>2. 0 \in 0 .. Limit + 2
    BY UnblockAssumption
  <2> QED
    BY <2>1, <2>2
<1>2. opened' \in [Proc -> BOOLEAN]
  <2>1. \A p \in Proc : (opened[p] \/ key[p] = k) \in BOOLEAN
    BY Zenon DEF Types, TypeOK
  <2> QED
    BY <2>1, Zenon DEF Erase
<1>3. \A p \in Proc : opened[p] \/ key[p] = k => opened'[p]
  BY DEF Types, TypeOK, Erase
<1> QED
  BY <1>1, <1>2, <1>3

\* The locals of a process after it returns or throws.
Stages == {"idle", "read", "insert", "find", "lock", "reset", "complete", "expire"}
Texts == {"none", "unblocked", "saved", "error"}
LocalTypes ==
  /\ pc \in [Proc -> Stages] /\ id \in [Proc -> {0} \cup Req]
  /\ answer \in [Proc -> Texts] /\ todo \in [Worker -> SUBSET Req]
\* p goes on, and nobody else does.
Alone(p) ==
  \A q \in Proc \ {p} : pc'[q] = pc[q] /\ id'[q] = id[q] /\ answer'[q] = answer[q]

\* A caller that returns is answered; a worker goes on to a request or ends its round.
LEMMA ReturnTypes ==
  ASSUME Types, NEW p \in Proc, NEW done \in BOOLEAN, Return(p, done)
  PROVE  /\ LocalTypes' /\ Alone(p) /\ pc'[p] \in {"idle", "lock"}
         /\ p \in Caller => /\ pc'[p] = "idle" /\ id'[p] = id[p]
                           /\ answer'[p] = (IF done THEN "unblocked" ELSE "saved")
         /\ p \in Worker => answer' = answer
         /\ pc'[p] = "lock" => id'[p] \in Req
<1> USE DEF Types, TypeOK, Goto, Answer, LocalTypes, Alone, Stages, Texts
<1>1. CASE p \in Caller
  BY <1>1 DEF Return
<1>2. CASE p \in Worker /\ todo[p] = {}
  BY <1>2 DEF Return
<1>3. CASE p \in Worker /\ todo[p] # {}
  <2>1. Min(todo[p]) \in todo[p] /\ todo[p] \subseteq Req
    BY <1>3, MinIsMember
  <2>2. pc' = [pc EXCEPT ![p] = "lock"] /\ id' = [id EXCEPT ![p] = Min(todo[p])]
        /\ todo' = [todo EXCEPT ![p] = @ \ {Min(todo[p])}] /\ answer' = answer
    BY <1>3 DEF Return
  <2> QED
    BY <1>3, <2>1, <2>2
<1> QED
  BY <1>1, <1>2, <1>3

LEMMA ThrowTypes ==
  ASSUME Types, NEW p \in Proc, Throw(p), UNCHANGED id
  PROVE  /\ LocalTypes' /\ Alone(p) /\ pc'[p] = "idle"
         /\ p \in Caller => answer'[p] \in {"error", "saved"}
         /\ p \in Worker => answer' = answer
<1> USE DEF Types, TypeOK, Goto, Answer, LocalTypes, Alone, Stages, Texts
<1>1. CASE p \in Caller
  BY <1>1 DEF Throw
<1>2. CASE p \in Worker
  BY <1>2 DEF Throw
<1> QED
  BY <1>1, <1>2

\* What the guard and Redis hold, and what PostgreSQL holds.
StoreTypes ==
  /\ counter \in [Key -> 0 .. Limit + 2] /\ marker \subseteq Req /\ resets \in [Req -> Nat]
  /\ opened \in [Proc -> BOOLEAN] /\ recording \in [Attempt -> Key \cup {NoKey}]
  /\ block \in [Key -> {0} \cup Gen] /\ lastGen \in {0} \cup Gen
Rows == [state: {"unused", "pending", "completed", "expired"}, key: Key \cup {NoKey}, gen: {0} \cup Gen, age: 0 .. 2]
CallTypes ==
  /\ key \in [Proc -> Key \cup {NoKey}] /\ gen \in [Proc -> {0} \cup Gen] /\ joined \in [Proc -> BOOLEAN]
LEMMA TypesSplit == TypeOK <=> StoreTypes /\ request \in [Req -> Rows] /\ LocalTypes /\ CallTypes
  BY DEF TypeOK, StoreTypes, Rows, LocalTypes, CallTypes, Stages, Texts
LEMMA TypesOK ==
  ASSUME StoreTypes', request' \in [Req -> Rows], LocalTypes', CallTypes' PROVE TypeOK'
  BY DEF TypeOK, StoreTypes, Rows, LocalTypes, CallTypes, Stages, Texts

\* EraseOnce keeps the types and marks the request.
LEMMA EraseOnceTypes ==
  ASSUME Types, NEW r \in Req, EraseOnce(r)
  PROVE  /\ counter' \in [Key -> 0 .. Limit + 2] /\ opened' \in [Proc -> BOOLEAN]
         /\ marker' = marker \cup {r} /\ marker' \subseteq Req
         /\ resets' \in [Req -> Nat]
         /\ resets'[r] = (IF r \in marker THEN resets[r] ELSE resets[r] + 1)
         /\ \A s \in Req \ {r} : resets'[s] = resets[s]
         /\ \A p \in Proc : opened[p] => opened'[p]
         /\ r \notin marker => \A p \in Proc : key[p] = request[r].key => opened'[p]
<1>0. marker \subseteq Req /\ resets \in [Req -> Nat] /\ counter \in [Key -> 0 .. Limit + 2]
      /\ opened \in [Proc -> BOOLEAN]
  BY DEF Types, TypeOK
<1>1. CASE r \in marker /\ UNCHANGED redis
  BY <1>0, <1>1 DEF redis
<1>2. CASE r \notin marker /\ Erase(request[r].key) /\ marker' = marker \cup {r} /\ resets' = [resets EXCEPT ![r] = @ + 1]
  BY <1>0, <1>2, EraseTypes
<1> QED
  BY <1>1, <1>2 DEF EraseOnce

\* The steps of the guard and of time leave the processes alone.
LEMMA GuardTypes ==
  ASSUME Types,
         \/ \E a \in Attempt : (\E k \in Key : CountAttempt(a, k)) \/ RecordBlock(a) \/ LoseBlock(a)
         \/ \E k \in Key : WindowEnds(k)
         \/ \E r \in Req : ForgetMarker(r)
  PROVE  Types' /\ UNCHANGED <<request, pc, key, id, gen, joined, answer>>
<1>0. StoreTypes /\ request \in [Req -> Rows] /\ LocalTypes /\ CallTypes
  BY TypesSplit DEF Types
<1>1. UNCHANGED <<request, local>> => UNCHANGED <<request, pc, key, id, gen, joined, answer, todo>>
  BY DEF local
<1>2. ASSUME UNCHANGED <<request, local>>, StoreTypes' PROVE Types' /\ UNCHANGED <<request, pc, key, id, gen, joined, answer>>
  <2>1. LocalTypes' /\ CallTypes' /\ Keyed'
    BY <1>0, <1>1, <1>2 DEF LocalTypes, CallTypes, Keyed, Types
  <2> QED
    BY <1>0, <1>1, <1>2, <2>1, TypesOK DEF Types
<1>3. ASSUME NEW a \in Attempt, NEW k \in Key, CountAttempt(a, k) PROVE StoreTypes'
  <2>1. counter' \in [Key -> 0 .. Limit + 2]
    <3>1. counter[k] + 1 \in 0 .. Limit + 2
      BY <1>0, <1>3, UnblockAssumption DEF CountAttempt, StoreTypes
    <3> QED
      BY <1>0, <1>3, <3>1 DEF CountAttempt, StoreTypes
  <2>2. recording' \in [Attempt -> Key \cup {NoKey}]
    BY <1>0, <1>3 DEF CountAttempt, StoreTypes
  <2> QED
    BY <1>0, <1>3, <2>1, <2>2 DEF CountAttempt, StoreTypes
<1>4. ASSUME NEW a \in Attempt, RecordBlock(a) PROVE StoreTypes'
  <2>1. lastGen + 1 \in Gen
    BY <1>0, <1>4, UnblockAssumption DEF RecordBlock, StoreTypes
  <2>2. block' \in [Key -> {0} \cup Gen] /\ lastGen' \in {0} \cup Gen
    BY <1>0, <1>4, <2>1 DEF RecordBlock, StoreTypes
  <2>3. recording' \in [Attempt -> Key \cup {NoKey}]
    BY <1>0, <1>4 DEF RecordBlock, StoreTypes
  <2>4. UNCHANGED <<counter, marker, resets, opened>>
    BY <1>4 DEF RecordBlock, redis
  <2> QED
    BY <1>0, <2>2, <2>3, <2>4 DEF StoreTypes
<1>5. ASSUME NEW a \in Attempt, LoseBlock(a) PROVE StoreTypes'
  BY <1>0, <1>5 DEF LoseBlock, StoreTypes, redis
<1>6. ASSUME NEW k \in Key, WindowEnds(k) PROVE StoreTypes'
  BY <1>0, <1>6, EraseTypes DEF WindowEnds, StoreTypes
<1>7. ASSUME NEW r \in Req, ForgetMarker(r) PROVE StoreTypes'
  BY <1>0, <1>7 DEF ForgetMarker, StoreTypes
<1>8. UNCHANGED <<request, local>>
  BY DEF CountAttempt, RecordBlock, LoseBlock, WindowEnds, ForgetMarker
<1> QED
  BY <1>2, <1>3, <1>4, <1>5, <1>6, <1>7, <1>8

\* The steps of a process keep the types.
LEMMA ProcessTypes ==
  ASSUME Types, Locks, NEW p \in Proc,
         \/ p \in Caller /\ (\/ \E k \in Key : Call(p, k)
                            \/ ReadBlock(p) \/ InsertRequest(p) \/ FindPending(p))
         \/ p \in Worker /\ Scan(p)
         \/ Process(p) \/ ResetUnheard(p) \/ Fail(p)
  PROVE  Types'
<1>0. StoreTypes /\ request \in [Req -> Rows] /\ LocalTypes /\ CallTypes /\ Keyed
  BY TypesSplit DEF Types
<1>1. ASSUME StoreTypes', request' \in [Req -> Rows], LocalTypes', CallTypes', Keyed' PROVE Types'
  BY <1>1, TypesOK DEF Types
<1>2. UNCHANGED redis => UNCHANGED <<counter, marker, resets, opened>>
  BY DEF redis
<1>3. ASSUME NEW k \in Key, p \in Caller, Call(p, k) PROVE Types'
  <2>1. LocalTypes' /\ CallTypes'
    BY <1>0, <1>3 DEF Call, Goto, LocalTypes, CallTypes, Stages, Texts
  <2>2. opened' \in [Proc -> BOOLEAN]
    <3>1. (counter[k] <= Limit) \in BOOLEAN
      OBVIOUS
    <3>2. opened' = [opened EXCEPT ![p] = counter[k] <= Limit] /\ opened \in [Proc -> BOOLEAN]
      BY <1>0, <1>3 DEF Call, StoreTypes
    <3> QED
      BY <3>1, <3>2, Zenon
  <2>3. StoreTypes' /\ request' = request
    BY <1>0, <1>3, <2>2 DEF Call, StoreTypes
  <2>4. Keyed'
    BY <1>0, <1>3 DEF Call, Goto, Keyed, LocalTypes, CallTypes, Located
  <2> QED
    BY <1>0, <1>1, <2>1, <2>3, <2>4
<1>4. ASSUME p \in Caller, ReadBlock(p) PROVE Types'
  <2>1. block[key[p]] \in {0} \cup Gen
    BY <1>0, <1>4 DEF ReadBlock, Keyed, StoreTypes
  <2>2. LocalTypes' /\ CallTypes'
    BY <1>0, <1>4, <2>1 DEF ReadBlock, Goto, LocalTypes, CallTypes, Stages
  <2>3. StoreTypes' /\ request' = request
    BY <1>0, <1>2, <1>4 DEF ReadBlock, StoreTypes
  <2>4. Keyed'
    BY <1>0, <1>4 DEF ReadBlock, Goto, Keyed, LocalTypes, CallTypes, Located
  <2> QED
    BY <1>0, <1>1, <2>2, <2>3, <2>4
<1>5. ASSUME p \in Caller, InsertRequest(p) PROVE Types'
  <2>1. StoreTypes'
    BY <1>0, <1>2, <1>5 DEF InsertRequest, StoreTypes
  <2>2. key[p] \in Key /\ gen[p] \in {0} \cup Gen
    BY <1>0, <1>5 DEF InsertRequest, Keyed, CallTypes
  <2>3. CASE Pending(key[p]) = {} /\ Free # {}
    <3> DEFINE row == [state |-> "pending", key |-> key[p], gen |-> gen[p], age |-> 0]
    <3>1. Min(Free) \in Free /\ Min(Free) \in Req
      BY <2>3, MinIsMember DEF Free
    <3>2. row \in Rows /\ row.key \in Key
      BY <2>2 DEF Rows
    <3> HIDE DEF row
    <3>3. /\ request' = [request EXCEPT ![Min(Free)] = row] /\ id' = [id EXCEPT ![p] = Min(Free)]
          /\ pc' = [pc EXCEPT ![p] = "lock"] /\ UNCHANGED <<key, gen, joined, answer, todo>>
      BY <1>5, <2>3 DEF InsertRequest, Goto, row
    <3>4. LocalTypes' /\ CallTypes'
      BY <1>0, <3>1, <3>3 DEF LocalTypes, CallTypes, Stages
    <3>5. Keyed'
      BY <1>0, <3>1, <3>2, <3>3 DEF Keyed, LocalTypes, Located
    <3>6. request' \in [Req -> Rows]
      BY <1>0, <3>2, <3>3
    <3> QED
      BY <1>1, <2>1, <3>4, <3>5, <3>6
  <2>4. CASE Pending(key[p]) # {}
    <3>1. /\ joined' = [joined EXCEPT ![p] = TRUE] /\ pc' = [pc EXCEPT ![p] = "find"]
          /\ UNCHANGED <<id, request, key, gen, answer, todo>>
      BY <1>5, <2>4 DEF InsertRequest, Goto
    <3>2. LocalTypes' /\ CallTypes'
      BY <1>0, <3>1 DEF LocalTypes, CallTypes, Stages
    <3>3. Keyed'
      BY <1>0, <1>5, <2>2, <3>1 DEF Keyed, LocalTypes, Located
    <3> QED
      BY <1>0, <1>1, <2>1, <3>1, <3>2, <3>3
  <2> QED
    BY <1>5, <2>3, <2>4 DEF InsertRequest
<1>6. ASSUME p \in Caller, FindPending(p) PROVE Types'
  <2>1. StoreTypes' /\ request' = request
    BY <1>0, <1>2, <1>6 DEF FindPending, StoreTypes
  <2>2. CASE Pending(key[p]) # {} /\ id' = [id EXCEPT ![p] = Min(Pending(key[p]))] /\ Goto(p, "lock") /\ UNCHANGED answer
    <3>1. Min(Pending(key[p])) \in Req
      BY <2>2, MinIsMember DEF Pending
    <3>2. LocalTypes' /\ CallTypes'
      BY <1>0, <1>6, <2>2, <3>1 DEF FindPending, Goto, LocalTypes, CallTypes, Stages
    <3>3. Keyed'
      BY <1>0, <1>6, <2>2, <3>1 DEF FindPending, Goto, Keyed, LocalTypes, Located
    <3> QED
      BY <1>0, <1>1, <2>1, <3>2, <3>3
  <2>3. CASE Answer(p, "unblocked") /\ UNCHANGED id
    <3>1. LocalTypes' /\ CallTypes'
      BY <1>0, <1>6, <2>3 DEF FindPending, Answer, Goto, LocalTypes, CallTypes, Stages, Texts
    <3>2. Keyed'
      BY <1>0, <1>6, <2>3 DEF FindPending, Answer, Goto, Keyed, LocalTypes, Located
    <3> QED
      BY <1>0, <1>1, <2>1, <3>1, <3>2
  <2> QED
    BY <1>6, <2>2, <2>3 DEF FindPending
<1>7. ASSUME p \in Worker, Scan(p) PROVE Types'
  <2>1. StoreTypes' /\ request' = request /\ CallTypes'
    BY <1>0, <1>2, <1>7 DEF Scan, StoreTypes, CallTypes
  <2>2. Oldest \subseteq Req
    BY DEF Oldest, AllPending
  <2>3. Min(Oldest) \in Req
    BY <1>7, <2>2, MinIsMember DEF Scan
  <2>4. LocalTypes'
    BY <1>0, <1>7, <2>2, <2>3 DEF Scan, Goto, LocalTypes, Stages
  <2>5. Keyed'
    BY <1>0, <1>7, <2>3 DEF Scan, Goto, Keyed, LocalTypes, Located
  <2> QED
    BY <1>0, <1>1, <2>1, <2>4, <2>5
<1> DEFINE Shift == UNCHANGED <<key, gen, joined>> /\ LocalTypes' /\ Alone(p) /\ (pc'[p] = "lock" => id'[p] \in Req)
<1>8. ASSUME Shift, pc'[p] \in {"idle", "lock"} \/ (pc'[p] \in Located /\ id'[p] \in Req),
             \A r \in Req : request'[r].state # "unused" => request'[r].key \in Key
      PROVE  CallTypes' /\ Keyed'
  <2>1. CallTypes'
    BY <1>0, <1>8 DEF CallTypes
  <2>2. ASSUME NEW q \in Proc, pc'[q] \in {"read", "insert", "find"} PROVE key'[q] \in Key /\ q \in Caller
    BY <1>0, <1>8, <2>2 DEF Keyed, Alone, Located
  <2>3. ASSUME NEW q \in Proc, pc'[q] \in Located PROVE id'[q] \in Req
    BY <1>0, <1>8, <2>3 DEF Keyed, Alone, Located
  <2> QED
    BY <1>8, <2>1, <2>2, <2>3 DEF Keyed
<1>9. ASSUME NEW r \in Req, NEW s \in {"completed", "expired"}, request' = [request EXCEPT ![r].state = s],
             request[r].state # "unused"
      PROVE  request' \in [Req -> Rows] /\ \A q \in Req : request'[q].state # "unused" => request'[q].key \in Key
  BY <1>0, <1>9 DEF Rows, Keyed
<1>10. CASE LockRequest(p)
  <2>1. UNCHANGED <<key, gen, joined, request>> /\ StoreTypes' /\ id[p] \in Req
    BY <1>0, <1>2, <1>10 DEF LockRequest, StoreTypes, Keyed, Located
  <2>2. ASSUME NEW done \in BOOLEAN, Return(p, done) PROVE Types'
    BY <1>0, <1>1, <1>8, <2>1, <2>2, ReturnTypes DEF Keyed
  <2>3. CASE pc' = [pc EXCEPT ![p] = IF TooOld(id[p]) THEN "expire" ELSE "reset"] /\ UNCHANGED <<id, answer, todo>>
    <3>1. LocalTypes' /\ Alone(p) /\ pc'[p] \in {"expire", "reset"}
      BY <1>0, <2>3 DEF LocalTypes, Alone, Stages
    <3> QED
      BY <1>0, <1>1, <1>8, <2>1, <2>3, <3>1 DEF Keyed, Located
  <2> QED
    BY <1>10, <2>2, <2>3 DEF LockRequest, Goto, Skipped
<1>11. CASE Expire(p)
  <2>1. UNCHANGED <<key, gen, joined>> /\ StoreTypes' /\ id[p] \in Req /\ request[id[p]].state = "pending"
    BY <1>0, <1>2, <1>11 DEF Expire, StoreTypes, Keyed, Located, Locks, Holding
  <2>2. Shift /\ pc'[p] \in {"idle", "lock"}
    BY <1>11, <2>1, ReturnTypes DEF Expire
  <2>3. request' = [request EXCEPT ![id[p]].state = "expired"]
    BY <1>11 DEF Expire
  <2> QED
    BY <1>1, <1>8, <1>9, <2>1, <2>2, <2>3
<1>12. ASSUME EraseOnce(id[p]), pc[p] = "reset", UNCHANGED <<block, lastGen, recording>> PROVE StoreTypes'
  <2>1. id[p] \in Req
    BY <1>0, <1>12 DEF Keyed, Located
  <2> QED
    BY <1>0, <1>12, <2>1, EraseOnceTypes DEF StoreTypes
<1>13. CASE ResetCounter(p)
  <2>1. StoreTypes' /\ request' = request /\ id[p] \in Req
    BY <1>0, <1>12, <1>13 DEF ResetCounter, Keyed, Located
  <2>2. LocalTypes' /\ Alone(p) /\ pc'[p] = "complete" /\ id' = id /\ UNCHANGED <<key, gen, joined>>
    BY <1>0, <1>13 DEF ResetCounter, Goto, LocalTypes, Alone, Stages
  <2> QED
    BY <1>0, <1>1, <1>8, <2>1, <2>2 DEF Keyed, Located
<1>14. CASE ResetUnheard(p)
  <2>1. StoreTypes' /\ request' = request /\ UNCHANGED <<id, key, gen, joined>>
    BY <1>12, <1>14 DEF ResetUnheard
  <2>2. Shift /\ pc'[p] = "idle"
    BY <1>14, <2>1, ThrowTypes DEF ResetUnheard
  <2> QED
    BY <1>0, <1>1, <1>8, <2>1, <2>2 DEF Keyed
<1>15. CASE Complete(p)
  <2>1. id[p] \in Req /\ request[id[p]].state = "pending"
    BY <1>0, <1>15 DEF Complete, Keyed, Located, Locks, Holding
  <2>2. StoreTypes' /\ UNCHANGED <<key, gen, joined>>
    <3>1. block' \in [Key -> {0} \cup Gen]
      BY <1>0, <1>15 DEF Complete, StoreTypes
    <3> QED
      BY <1>0, <1>2, <1>15, <3>1 DEF Complete, StoreTypes
  <2>3. Shift /\ pc'[p] \in {"idle", "lock"}
    BY <1>15, <2>2, ReturnTypes DEF Complete
  <2>4. request' = [request EXCEPT ![id[p]].state = "completed"]
    BY <1>15 DEF Complete
  <2> QED
    BY <1>1, <1>8, <1>9, <2>1, <2>2, <2>3, <2>4
<1>16. CASE Fail(p)
  <2>1. StoreTypes' /\ request' = request /\ UNCHANGED <<id, key, gen, joined>>
    BY <1>0, <1>2, <1>16 DEF Fail, StoreTypes
  <2>2. Shift /\ pc'[p] = "idle"
    BY <1>16, <2>1, ThrowTypes DEF Fail
  <2> QED
    BY <1>0, <1>1, <1>8, <2>1, <2>2 DEF Keyed
<1> QED
  BY <1>3, <1>4, <1>5, <1>6, <1>7, <1>10, <1>11, <1>13, <1>14, <1>15, <1>16 DEF Process

\* A request grows old.
LEMMA GrowTypes ==
  ASSUME Types, NEW r \in Req, GrowOld(r)
  PROVE  /\ Types' /\ UNCHANGED <<redis, block, lastGen, recording, local>>
         /\ request'[r].state = request[r].state /\ request'[r].key = request[r].key
         /\ request'[r].gen = request[r].gen /\ request'[r].age = request[r].age + 1
         /\ \A s \in Req \ {r} : request'[s] = request[s]
<1>0. StoreTypes /\ request \in [Req -> Rows] /\ LocalTypes /\ CallTypes /\ Keyed
  BY TypesSplit DEF Types
<1>1. request' = [request EXCEPT ![r].age = @ + 1] /\ request[r].age + 1 \in 0 .. 2
  BY <1>0 DEF GrowOld, Rows
<1>2. /\ request' \in [Req -> Rows]
      /\ request'[r].state = request[r].state /\ request'[r].key = request[r].key
      /\ request'[r].gen = request[r].gen /\ request'[r].age = request[r].age + 1
      /\ \A s \in Req \ {r} : request'[s] = request[s]
  BY <1>0, <1>1 DEF Rows
<1>3. UNCHANGED <<redis, block, lastGen, recording, local>>
  BY DEF GrowOld
<1>4. StoreTypes' /\ LocalTypes' /\ CallTypes' /\ Keyed'
  BY <1>0, <1>2, <1>3 DEF redis, local, StoreTypes, LocalTypes, CallTypes, Keyed
<1> QED
  BY <1>2, <1>3, <1>4, TypesOK DEF Types

-----------------------------------------------------------------------------
(* The invariant                                                           *)

Work == Gens /\ Marked /\ Locks /\ CompletedIsDone /\ Owned /\ OwnRequestUnblocks

\* Nothing is blocked, counted or asked for.
LEMMA UnblockInitInv == Init => UnblockInv
<1> SUFFICES ASSUME Init PROVE UnblockInv
  OBVIOUS
<1>1. StoreTypes /\ request \in [Req -> Rows] /\ LocalTypes /\ CallTypes
  BY UnblockAssumption DEF Init, StoreTypes, Rows, LocalTypes, CallTypes, Stages, Texts, Unused
<1>2. Keyed
  BY DEF Init, Keyed, Unused, Located
<1>3. Gens /\ Marked
  BY DEF Init, Gens, Marked, Unused
<1>4. Locks /\ CompletedIsDone /\ Owned /\ OwnRequestUnblocks
  BY DEF Init, Locks, CompletedIsDone, Owned, OwnRequestUnblocks, Unused, Holding, Located
<1> QED
  BY <1>1, <1>2, <1>3, <1>4, TypesSplit DEF UnblockInv, Types

\* Blocks are made, counters erased and markers forgotten, but no process moves.
LEMMA GuardInv ==
  ASSUME UnblockInv,
         \/ \E a \in Attempt : (\E k \in Key : CountAttempt(a, k)) \/ RecordBlock(a) \/ LoseBlock(a)
         \/ \E k \in Key : WindowEnds(k)
         \/ \E r \in Req : ForgetMarker(r)
  PROVE  Types' /\ Work'
<1> USE DEF UnblockInv
<1>0. Types' /\ UNCHANGED <<request, pc, key, id, gen, joined, answer>>
  BY GuardTypes
<1>t. StoreTypes /\ request \in [Req -> Rows] /\ LocalTypes /\ CallTypes /\ Keyed
  BY TypesSplit DEF Types
<1>1. ASSUME UNCHANGED <<marker, resets, block, lastGen>>, \A p \in Proc : opened[p] => opened'[p]
      PROVE  Work'
  <2>1. Gens' /\ Marked' /\ CompletedIsDone'
    BY <1>0, <1>1 DEF Gens, Marked, CompletedIsDone
  <2>2. Locks'
    BY <1>0, <1>1 DEF Locks
  <2>3. Owned' /\ OwnRequestUnblocks'
    BY <1>0, <1>1 DEF Owned, OwnRequestUnblocks
  <2> QED
    BY <2>1, <2>2, <2>3 DEF Work
<1>2. ASSUME NEW a \in Attempt, RecordBlock(a) PROVE Work'
  <2>1. lastGen' = lastGen + 1 /\ \A k \in Key : block'[k] \in {block[k], lastGen + 1}
    BY <1>2, <1>t DEF RecordBlock, StoreTypes
  <2>2. lastGen \in Nat /\ \A k \in Key : block[k] \in Nat
    BY <1>t, UnblockAssumption DEF StoreTypes
  <2>3. \A r \in Req : request[r].gen \in Nat
    BY <1>t, UnblockAssumption DEF Rows
  <2>4. \A q \in Proc : gen[q] \in Nat
    BY <1>t, UnblockAssumption DEF CallTypes
  <2>5. Gens'
    BY <1>0, <2>1, <2>2, <2>3, <2>4 DEF Gens
  <2>6. UNCHANGED <<marker, resets, opened>>
    BY <1>2 DEF RecordBlock, redis
  <2>7. CompletedIsDone'
    <3> SUFFICES ASSUME NEW r \in Req, request[r].state = "completed", request[r].gen # 0
                 PROVE  resets[r] = 1 /\ block'[request[r].key] # request[r].gen
      BY <1>0, <2>6 DEF CompletedIsDone
    <3>1. request[r].key \in Key /\ resets[r] = 1 /\ block[request[r].key] # request[r].gen
      BY <1>t DEF Keyed, CompletedIsDone
    <3> QED
      BY <2>1, <2>2, <2>3, <3>1 DEF Gens
  <2>8. Marked' /\ Locks' /\ Owned' /\ OwnRequestUnblocks'
    BY <1>0, <2>6 DEF Marked, Locks, Owned, OwnRequestUnblocks
  <2> QED
    BY <2>5, <2>7, <2>8 DEF Work
<1>3. ASSUME NEW r \in Req, ForgetMarker(r) PROVE Work'
  <2>1. r \in marker /\ request[r].age = 2 /\ marker' = marker \ {r} /\ UNCHANGED <<resets, opened, block, lastGen>>
    BY <1>3 DEF ForgetMarker
  <2>2. Gens' /\ CompletedIsDone' /\ Owned' /\ OwnRequestUnblocks'
    BY <1>0, <2>1 DEF Gens, CompletedIsDone, Owned, OwnRequestUnblocks
  <2>3. Marked'
    BY <1>0, <2>1 DEF Marked
  <2>4. Locks'
    BY <1>0, <2>1 DEF Locks
  <2> QED
    BY <2>2, <2>3, <2>4 DEF Work
<1>4. ASSUME NEW a \in Attempt, (\E k \in Key : CountAttempt(a, k)) \/ LoseBlock(a) PROVE Work'
  BY <1>1, <1>4 DEF CountAttempt, LoseBlock, redis
<1>5. ASSUME NEW k \in Key, WindowEnds(k) PROVE Work'
  BY <1>1, <1>5, EraseTypes DEF WindowEnds
<1> QED
  BY <1>0, <1>2, <1>3, <1>4, <1>5

\* Only a request nobody has locked or is making grows too old.
LEMMA GrowInv ==
  ASSUME UnblockInv, NEW r \in Req, GrowOld(r)
  PROVE  Types' /\ Work'
<1> USE DEF UnblockInv
<1>0. /\ Types' /\ UNCHANGED <<marker, resets, opened, block, lastGen, pc, key, id, gen, joined, answer>>
      /\ request'[r].state = request[r].state /\ request'[r].key = request[r].key
      /\ request'[r].gen = request[r].gen /\ request'[r].age = request[r].age + 1
      /\ \A s \in Req \ {r} : request'[s] = request[s]
  BY GrowTypes DEF redis, local
<1>t. StoreTypes /\ request \in [Req -> Rows] /\ LocalTypes /\ CallTypes /\ Keyed
  BY TypesSplit DEF Types
<1>1. request[r].state # "unused" /\ request[r].age \in {0, 1}
  BY <1>t DEF GrowOld, Rows
<1>2. Gens' /\ CompletedIsDone' /\ OwnRequestUnblocks'
  BY <1>0 DEF Gens, CompletedIsDone, OwnRequestUnblocks
<1>3. Marked'
  BY <1>0, <1>1 DEF Marked
<1>4. Locks'
  <2> SUFFICES ASSUME NEW p \in Proc, pc[p] \in Holding
               PROVE  /\ request'[id[p]].state = "pending"
                      /\ \A q \in Proc : pc[q] \in Holding /\ id[q] = id[p] => q = p
                      /\ pc[p] \in {"reset", "complete"} => request'[id[p]].age < 2
                      /\ pc[p] = "complete" => id[p] \in marker
                      /\ pc[p] = "expire" => request'[id[p]].age > 0
    BY <1>0 DEF Locks
  <2>1. id[p] \in Req
    BY <1>t DEF Keyed, Located, Holding
  <2>2. CASE id[p] = r
    <3>1. request[r].age = 0
      BY <1>1, <2>2 DEF GrowOld, Holders, Holding
    <3> QED
      BY <1>0, <2>2, <3>1 DEF Locks
  <2>3. CASE id[p] # r
    BY <1>0, <2>1, <2>3 DEF Locks
  <2> QED
    BY <2>2, <2>3
<1>5. Owned'
  <2>1. \A p \in Caller : pc[p] \in Located /\ ~joined[p] => id[p] \in Req /\ id[p] # r
    BY <1>t DEF GrowOld, Located, Keyed
  <2> QED
    BY <1>0, <2>1 DEF Owned
<1> QED
  BY <1>0, <1>2, <1>3, <1>4, <1>5 DEF Work

\* A process that moves without a lock, and answers "unblocked" rightly, changes nothing.
LEMMA MoveInv ==
  ASSUME UnblockInv, NEW p \in Proc, UNCHANGED <<request, marker, resets, block, lastGen, key, joined>>,
         \A q \in Proc : opened[q] => opened'[q],
         Alone(p), pc'[p] \notin Holding,
         \A q \in Proc : gen'[q] <= lastGen,
         pc'[p] = "find" => joined[p],
         p \in Caller /\ pc'[p] = "lock" => joined[p],
         p \in Caller /\ answer'[p] = "unblocked" /\ ~joined[p] => opened'[p]
  PROVE  Work'
<1> USE DEF UnblockInv
<1>1. Gens' /\ Marked' /\ CompletedIsDone'
  BY DEF Gens, Marked, CompletedIsDone
<1>2. Locks'
  BY DEF Locks, Alone
<1>3. OwnRequestUnblocks'
  BY DEF OwnRequestUnblocks, Alone
<1>4. ASSUME NEW q \in Caller PROVE (pc'[q] = "find" => joined[q]) /\ (pc'[q] \in Located /\ ~joined[q] => q # p)
  BY DEF Owned, Alone, Located, Holding
<1>5. Owned'
  BY <1>4 DEF Owned, Alone
<1> QED
  BY <1>1, <1>2, <1>3, <1>5 DEF Work

\* The steps of a call before its request is locked.
LEMMA CallInv ==
  ASSUME UnblockInv, NEW p \in Caller,
         (\E k \in Key : Call(p, k)) \/ ReadBlock(p) \/ InsertRequest(p) \/ FindPending(p)
  PROVE  Work'
<1> USE DEF UnblockInv
<1>t. StoreTypes /\ request \in [Req -> Rows] /\ LocalTypes /\ CallTypes /\ Keyed
  BY TypesSplit DEF Types
<1>1. ASSUME NEW k \in Key, Call(p, k) PROVE Work'
  <2>1. /\ pc' = [pc EXCEPT ![p] = "read"] /\ UNCHANGED <<marker, resets, block, lastGen, request>>
        /\ \A q \in Proc \ {p} : key'[q] = key[q] /\ joined'[q] = joined[q] /\ opened'[q] = opened[q] /\ gen'[q] = gen[q]
                                /\ answer'[q] = answer[q] /\ id'[q] = id[q]
        /\ gen'[p] = 0 /\ answer'[p] = "none"
    BY <1>1, <1>t DEF Call, Goto, StoreTypes, LocalTypes, CallTypes
  <2>2. pc'[p] = "read" /\ \A q \in Proc \ {p} : pc'[q] = pc[q]
    BY <1>t, <2>1 DEF LocalTypes
  <2>3. 0 <= lastGen
    BY <1>t, UnblockAssumption DEF StoreTypes
  <2>4. Gens' /\ Marked' /\ CompletedIsDone'
    BY <2>1, <2>3 DEF Gens, Marked, CompletedIsDone
  <2>5. Locks'
    BY <2>1, <2>2 DEF Locks, Holding
  <2>6. Owned' /\ OwnRequestUnblocks'
    BY <2>1, <2>2 DEF Owned, OwnRequestUnblocks, Located
  <2> QED
    BY <2>4, <2>5, <2>6 DEF Work
<1>2. CASE ReadBlock(p)
  <2>1. /\ UNCHANGED <<request, marker, resets, opened, block, lastGen, key, joined, id, answer>>
        /\ pc' = [pc EXCEPT ![p] = "insert"] /\ gen' = [gen EXCEPT ![p] = block[key[p]]]
    BY <1>2 DEF ReadBlock, Goto, redis
  <2>2. \A q \in Proc : gen'[q] <= lastGen
    BY <1>2, <1>t, <2>1 DEF Gens, Keyed, CallTypes, ReadBlock
  <2>3. Alone(p) /\ pc'[p] = "insert"
    BY <1>t, <2>1 DEF Alone, LocalTypes
  <2>4. answer[p] = "unblocked" /\ ~joined[p] => opened[p]
    BY DEF OwnRequestUnblocks
  <2> QED
    BY <2>1, <2>2, <2>3, <2>4, MoveInv DEF Holding
<1>3. CASE FindPending(p)
  <2>1. /\ UNCHANGED <<request, marker, resets, opened, block, lastGen, key, joined, gen>>
        /\ pc'[p] \in {"lock", "idle"} /\ Alone(p) /\ joined[p]
    BY <1>3, <1>t DEF FindPending, Answer, Goto, redis, Alone, LocalTypes, Owned
  <2>2. \A q \in Proc : gen'[q] <= lastGen
    BY <2>1 DEF Gens
  <2> QED
    BY <2>1, <2>2, MoveInv DEF Holding
<1>4. CASE InsertRequest(p) /\ Pending(key[p]) # {}
  <2>1. /\ UNCHANGED <<request, marker, resets, opened, block, lastGen, key, gen, id, answer>>
        /\ pc' = [pc EXCEPT ![p] = "find"] /\ joined' = [joined EXCEPT ![p] = TRUE]
    BY <1>4 DEF InsertRequest, Goto, redis
  <2>2. pc'[p] = "find" /\ joined'[p] /\ \A q \in Proc \ {p} : pc'[q] = pc[q] /\ joined'[q] = joined[q]
    BY <1>t, <2>1 DEF LocalTypes, CallTypes
  <2>3. Gens' /\ Marked' /\ CompletedIsDone'
    BY <2>1 DEF Gens, Marked, CompletedIsDone
  <2>4. Locks'
    BY <2>1, <2>2 DEF Locks, Holding
  <2>5. Owned' /\ OwnRequestUnblocks'
    BY <2>1, <2>2 DEF Owned, OwnRequestUnblocks, Located
  <2> QED
    BY <2>3, <2>4, <2>5 DEF Work
<1>5. CASE InsertRequest(p) /\ Pending(key[p]) = {}
  <2> DEFINE row == [state |-> "pending", key |-> key[p], gen |-> gen[p], age |-> 0]
             n == Min(Free)
  <2>1. n \in Req /\ request[n].state = "unused"
    BY <1>5, MinIsMember DEF InsertRequest, Free
  <2>2. /\ UNCHANGED <<marker, resets, opened, block, lastGen, key, gen, joined, answer>>
        /\ request' = [request EXCEPT ![n] = row] /\ id' = [id EXCEPT ![p] = n] /\ pc' = [pc EXCEPT ![p] = "lock"]
    BY <1>5 DEF InsertRequest, Goto, redis
  <2>3. row.state = "pending" /\ row.key = key[p] /\ row.gen = gen[p] /\ row.age = 0
    OBVIOUS
  <2> HIDE DEF row, n
  <2>4. request'[n] = row /\ \A r \in Req \ {n} : request'[r] = request[r]
    BY <1>t, <2>1, <2>2
  <2>5. pc'[p] = "lock" /\ id'[p] = n /\ \A q \in Proc \ {p} : pc'[q] = pc[q] /\ id'[q] = id[q]
    BY <1>t, <2>2 DEF LocalTypes
  <2>6. Gens'
    BY <2>1, <2>2, <2>3, <2>4 DEF Gens
  <2>7. resets[n] = 0 /\ n \notin marker
    BY <2>1 DEF Marked
  <2>8. Marked'
    BY <2>2, <2>3, <2>4, <2>7 DEF Marked
  <2>9. CompletedIsDone' /\ OwnRequestUnblocks'
    BY <2>2, <2>3, <2>4 DEF CompletedIsDone, OwnRequestUnblocks
  <2>10. Locks'
    <3>1. \A q \in Proc : pc'[q] \in Holding => q # p /\ pc[q] \in Holding /\ id[q] \in Req /\ id[q] # n
      BY <1>t, <2>1, <2>5 DEF Locks, Holding, Keyed, Located
    <3> QED
      BY <2>2, <2>4, <2>5, <3>1 DEF Locks
  <2>11. Owned'
    <3>1. \A q \in Caller \ {p} : pc'[q] \in Located /\ ~joined[q] => pc[q] \in Located /\ id[q] \in Req /\ id[q] # n
      BY <1>t, <2>1, <2>5 DEF Owned, Keyed
    <3>2. ASSUME NEW q \in Caller \ {p}, pc'[q] \in Located, ~joined[q]
          PROVE  /\ request'[id[q]].age = 0 /\ request'[id[q]].key = key[q]
                 /\ request'[id[q]].state \in {"pending", "completed"}
                 /\ resets[id[q]] = 1 => opened[q]
      BY <2>4, <3>1, <3>2 DEF Owned
    <3>3. \A q \in Caller : pc'[q] = "find" => joined[q]
      BY <2>5 DEF Owned
    <3> QED
      BY <2>2, <2>3, <2>4, <2>5, <2>7, <3>2, <3>3 DEF Owned
  <2> QED
    BY <2>6, <2>8, <2>9, <2>10, <2>11 DEF Work
<1> QED
  BY <1>1, <1>2, <1>3, <1>4, <1>5

\* The script resets once and opens the calls of its request.
LEMMA ScriptInv ==
  ASSUME UnblockInv, NEW p \in Proc, pc[p] = "reset", EraseOnce(id[p]),
         UNCHANGED <<request, block, lastGen, key, id, gen, joined>>, Alone(p),
         pc'[p] \in {"complete", "idle"},
         p \in Caller /\ answer'[p] = "unblocked" => pc'[p] = "complete" /\ answer'[p] = answer[p]
  PROVE  Work'
<1> USE DEF UnblockInv
<1>t. StoreTypes /\ request \in [Req -> Rows] /\ LocalTypes /\ CallTypes /\ Keyed
  BY TypesSplit DEF Types
<1> DEFINE r == id[p]
<1>1. r \in Req /\ request[r].state = "pending" /\ request[r].age < 2
  BY <1>t DEF Keyed, Located, Locks, Holding
<1>2. /\ marker' = marker \cup {r} /\ resets'[r] = 1
      /\ \A s \in Req \ {r} : resets'[s] = resets[s]
      /\ \A q \in Proc : opened[q] => opened'[q]
      /\ resets[r] # 1 => \A q \in Proc : key[q] = request[r].key => opened'[q]
  <2>1. /\ r \in marker => resets[r] = 1
        /\ r \notin marker => resets[r] = 0
    BY <1>1 DEF Marked
  <2> QED
    BY <1>1, <2>1, EraseOnceTypes
<1>3. Gens' /\ CompletedIsDone'
  BY <1>1, <1>2 DEF Gens, CompletedIsDone
<1>4. Marked'
  BY <1>1, <1>2 DEF Marked
<1>5. Locks'
  BY <1>1, <1>2 DEF Locks, Holding, Alone
<1>6. Owned'
  <2> SUFFICES ASSUME NEW q \in Caller
               PROVE  /\ pc'[q] = "find" => joined[q]
                      /\ pc'[q] \in Located /\ ~joined[q] =>
                           /\ request[id[q]].age = 0 /\ request[id[q]].key = key[q]
                           /\ request[id[q]].state \in {"pending", "completed"}
                           /\ resets'[id[q]] = 1 => opened'[q]
    BY DEF Owned
  <2>1. (pc'[q] = "find" => pc[q] = "find") /\ (pc'[q] \in Located => pc[q] \in Located /\ id[q] \in Req)
    BY <1>t DEF Alone, Located, Keyed
  <2>2. pc'[q] \in Located /\ ~joined[q] => (resets'[id[q]] = 1 => opened'[q])
    BY <1>2, <2>1 DEF Owned
  <2> QED
    BY <2>1, <2>2 DEF Owned
<1>7. OwnRequestUnblocks'
  BY <1>2 DEF OwnRequestUnblocks, Alone
<1> QED
  BY <1>3, <1>4, <1>5, <1>6, <1>7 DEF Work

\* p ends its request, completed and done or expired unstarted, and goes on.
LEMMA EndInv ==
  ASSUME UnblockInv, NEW p \in Proc, pc[p] \in {"complete", "expire"}, NEW end \in {"completed", "expired"},
         request' = [request EXCEPT ![id[p]].state = end], pc[p] = "complete" <=> end = "completed",
         UNCHANGED <<marker, resets, opened, lastGen, key, gen, joined>>,
         block' = (IF pc[p] = "complete" /\ Cleared(id[p]) THEN [block EXCEPT ![request[id[p]].key] = 0] ELSE block),
         Return(p, end = "completed")
  PROVE  Work'
<1> USE DEF UnblockInv
<1>t. StoreTypes /\ request \in [Req -> Rows] /\ LocalTypes /\ CallTypes /\ Keyed
  BY TypesSplit DEF Types
<1> DEFINE r == id[p]
<1>1. r \in Req /\ request[r].state = "pending" /\ request[r].key \in Key
  BY <1>t DEF Keyed, Located, Locks, Holding
<1>2. /\ request'[r].state = end /\ request'[r].key = request[r].key /\ request'[r].gen = request[r].gen
      /\ request'[r].age = request[r].age /\ \A s \in Req \ {r} : request'[s] = request[s]
  BY <1>t, <1>1 DEF Rows
<1>3. /\ Alone(p) /\ pc'[p] \in {"idle", "lock"}
      /\ p \in Worker => answer' = answer
      /\ p \in Caller => /\ pc'[p] = "idle" /\ answer'[p] = (IF end = "completed" THEN "unblocked" ELSE "saved")
  BY ReturnTypes
<1>4. lastGen \in Nat /\ \A k \in Key : block[k] \in Nat
  BY <1>t, UnblockAssumption DEF StoreTypes
<1>5. \A k \in Key : block'[k] \in {0, block[k]}
  BY <1>t DEF StoreTypes
<1>6. Gens'
  <2>1. \A s \in Req : request'[s].gen <= lastGen
    BY <1>2 DEF Gens
  <2> QED
    BY <1>4, <1>5, <2>1 DEF Gens
<1>7. Marked'
  BY <1>1, <1>2 DEF Marked
<1>8. Locks'
  <2>1. \A q \in Proc : pc'[q] \in Holding => q # p /\ pc[q] \in Holding /\ id'[q] = id[q] /\ id[q] \in Req /\ id[q] # r
    BY <1>t, <1>3 DEF Locks, Holding, Alone, Keyed, Located
  <2> QED
    BY <1>2, <1>3, <2>1 DEF Locks, Alone
<1>9. end = "completed" => resets[r] = 1 /\ (request[r].gen # 0 => block'[request[r].key] # request[r].gen)
  <2>1. end = "completed" => r \in marker
    BY DEF Locks, Holding
  <2>2. end = "completed" => (request[r].gen # 0 => block'[request[r].key] # request[r].gen)
    BY <1>t, <1>1 DEF Cleared, StoreTypes
  <2> QED
    BY <1>1, <2>1, <2>2 DEF Marked
<1>10. CompletedIsDone'
  <2> SUFFICES ASSUME NEW s \in Req, request'[s].state = "completed"
               PROVE  resets[s] = 1 /\ (request'[s].gen # 0 => block'[request'[s].key] # request'[s].gen)
    BY DEF CompletedIsDone
  <2>1. CASE s = r
    BY <1>2, <1>9, <2>1
  <2>2. CASE s # r
    <3>1. request'[s] = request[s] /\ request[s].key \in Key /\ resets[s] = 1
          /\ (request[s].gen # 0 => block[request[s].key] # request[s].gen)
      BY <1>2, <1>t, <2>2 DEF Keyed, CompletedIsDone
    <3> QED
      BY <1>5, <3>1
  <2> QED
    BY <2>1, <2>2
<1>11. p \in Caller /\ end = "completed" /\ ~joined[p] => opened[p]
  BY <1>9 DEF Owned, Located
<1>12. OwnRequestUnblocks'
  BY <1>3, <1>11 DEF OwnRequestUnblocks, Alone
<1>13. Owned'
  <2> SUFFICES ASSUME NEW q \in Caller
               PROVE  /\ pc'[q] = "find" => joined[q]
                      /\ pc'[q] \in Located /\ ~joined[q] =>
                           /\ request'[id'[q]].age = 0 /\ request'[id'[q]].key = key[q]
                           /\ request'[id'[q]].state \in {"pending", "completed"}
                           /\ resets[id'[q]] = 1 => opened[q]
    BY DEF Owned
  <2>1. pc'[q] = "find" => joined[q]
    BY <1>3 DEF Owned, Alone
  <2>2. ASSUME pc'[q] \in Located, ~joined[q]
        PROVE  /\ request'[id'[q]].age = 0 /\ request'[id'[q]].key = key[q]
               /\ request'[id'[q]].state \in {"pending", "completed"}
               /\ resets[id'[q]] = 1 => opened[q]
    <3>1. q # p /\ pc[q] \in Located /\ id'[q] = id[q] /\ id[q] \in Req
      BY <1>3, <1>t, <2>2 DEF Alone, Located, Keyed
    <3>2. id[q] = r => end = "completed"
      BY <2>2, <3>1 DEF Owned, Locks, Holding
    <3> QED
      BY <1>2, <2>2, <3>1, <3>2 DEF Owned
  <2> QED
    BY <2>1, <2>2
<1> QED
  BY <1>6, <1>7, <1>8, <1>10, <1>12, <1>13 DEF Work

\* The steps of a request's processing keep the invariant.
LEMMA ProcessInv ==
  ASSUME UnblockInv, NEW p \in Proc, (p \in Worker /\ Scan(p)) \/ Process(p) \/ ResetUnheard(p) \/ Fail(p)
  PROVE  Work'
<1> USE DEF UnblockInv
<1>t. StoreTypes /\ request \in [Req -> Rows] /\ LocalTypes /\ CallTypes /\ Keyed
  BY TypesSplit DEF Types
<1>0. UNCHANGED redis => UNCHANGED <<counter, marker, resets, opened>>
  BY DEF redis
<1>g. \A q \in Proc : gen[q] <= lastGen
  BY DEF Gens
<1>d. p \in Worker => p \notin Caller
  BY UnblockAssumption
<1>1. CASE p \in Worker /\ Scan(p)
  <2>1. /\ UNCHANGED <<request, marker, resets, opened, block, lastGen, key, joined, gen, answer>>
        /\ pc'[p] = "lock" /\ Alone(p)
    BY <1>0, <1>1, <1>t DEF Scan, Goto, Alone, LocalTypes
  <2> QED
    BY <1>1, <1>g, <1>d, <2>1, MoveInv DEF Holding
<1>2. CASE LockRequest(p) /\ \E done \in BOOLEAN :
             Return(p, done) /\ (done => Holders(id[p]) = {} /\ request[id[p]].state # "pending")
  <2>1. PICK done \in BOOLEAN : Return(p, done) /\ (done => request[id[p]].state # "pending")
    BY <1>2
  <2>2. UNCHANGED <<request, marker, resets, opened, block, lastGen, key, joined, gen>>
    BY <1>0, <1>2 DEF LockRequest
  <2>3. /\ Alone(p) /\ pc'[p] \in {"idle", "lock"}
        /\ p \in Caller => pc'[p] = "idle" /\ answer'[p] = (IF done THEN "unblocked" ELSE "saved")
    BY <2>1, ReturnTypes
  <2>4. p \in Caller /\ done /\ ~joined[p] => opened[p]
    <3>1. id[p] \in Req /\ pc[p] = "lock"
      BY <1>2, <1>t DEF LockRequest, Keyed, Located
    <3> QED
      BY <2>1, <3>1 DEF Owned, Located, CompletedIsDone
  <2> QED
    BY <1>g, <2>2, <2>3, <2>4, MoveInv DEF Holding
<1>3. CASE LockRequest(p) /\ Holders(id[p]) = {} /\ request[id[p]].state = "pending"
           /\ Goto(p, IF TooOld(id[p]) THEN "expire" ELSE "reset") /\ UNCHANGED <<id, answer, todo>>
  <2>1. UNCHANGED <<request, marker, resets, opened, block, lastGen, key, joined, gen, id, answer>>
    BY <1>0, <1>3 DEF LockRequest
  <2>2. /\ pc[p] = "lock" /\ id[p] \in Req /\ \A q \in Proc \ {p} : pc'[q] = pc[q]
        /\ pc'[p] = IF request[id[p]].age > 0 THEN "expire" ELSE "reset"
    BY <1>3, <1>t DEF LockRequest, Goto, TooOld, LocalTypes, Keyed, Located
  <2>3. Gens' /\ Marked' /\ CompletedIsDone' /\ OwnRequestUnblocks'
    BY <2>1 DEF Gens, Marked, CompletedIsDone, OwnRequestUnblocks
  <2>4. \A q \in Proc \ {p} : pc[q] \in Holding => id[q] # id[p]
    BY <1>3 DEF Holders, Holding
  <2>5. request[id[p]].age \in 0 .. 2
    BY <1>t, <2>2 DEF Rows
  <2>6. Locks'
    BY <1>3, <2>1, <2>2, <2>4, <2>5 DEF Locks, Holding
  <2>7. Owned'
    BY <2>1, <2>2 DEF Owned, Located
  <2> QED
    BY <2>3, <2>6, <2>7 DEF Work
<1>4. CASE LockRequest(p)
  BY <1>2, <1>3, <1>4 DEF LockRequest, Skipped
<1>5. CASE Expire(p)
  BY <1>0, <1>5, EndInv DEF Expire
<1>6. CASE ResetCounter(p)
  <2>1. pc'[p] = "complete" /\ Alone(p)
    BY <1>6, <1>t DEF ResetCounter, Goto, Alone, LocalTypes
  <2> QED
    BY <1>6, <2>1, ScriptInv DEF ResetCounter
<1>7. CASE ResetUnheard(p)
  <2>1. UNCHANGED <<request, block, lastGen, key, id, gen, joined>> /\ pc[p] = "reset" /\ EraseOnce(id[p])
    BY <1>7 DEF ResetUnheard
  <2>2. pc'[p] = "idle" /\ Alone(p) /\ (p \in Caller => answer'[p] \in {"error", "saved"})
    BY <1>7, <2>1, ThrowTypes DEF ResetUnheard
  <2> QED
    BY <2>1, <2>2, ScriptInv
<1>8. CASE Complete(p)
  BY <1>0, <1>8, EndInv DEF Complete
<1>9. CASE Fail(p)
  <2>1. UNCHANGED <<request, marker, resets, opened, block, lastGen, key, id, gen, joined>>
    BY <1>0, <1>9 DEF Fail
  <2>2. pc'[p] = "idle" /\ Alone(p) /\ (p \in Caller => answer'[p] \in {"error", "saved"})
    BY <1>9, <2>1, ThrowTypes DEF Fail
  <2> QED
    BY <1>g, <2>1, <2>2, MoveInv DEF Holding
<1> QED
  BY <1>1, <1>4, <1>5, <1>6, <1>7, <1>8, <1>9 DEF Process

\* Every step keeps the invariant.
LEMMA UnblockStepInv == UnblockInv /\ [Next]_vars => UnblockInv'
<1> SUFFICES ASSUME UnblockInv, [Next]_vars PROVE UnblockInv'
  OBVIOUS
<1>1. ASSUME Types', Work' PROVE UnblockInv'
  BY <1>1 DEF UnblockInv, Work
<1>2. Types /\ Locks
  BY DEF UnblockInv
<1>3. ASSUME NEW a \in Attempt, (\E k \in Key : CountAttempt(a, k)) \/ RecordBlock(a) \/ LoseBlock(a) PROVE UnblockInv'
  BY <1>1, <1>3, GuardInv
<1>4. ASSUME NEW k \in Key, WindowEnds(k) PROVE UnblockInv'
  BY <1>1, <1>4, GuardInv
<1>5. ASSUME NEW r \in Req, GrowOld(r) \/ ForgetMarker(r) PROVE UnblockInv'
  BY <1>1, <1>5, GuardInv, GrowInv
<1>6. ASSUME NEW p \in Caller, (\E k \in Key : Call(p, k)) \/ ReadBlock(p) \/ InsertRequest(p) \/ FindPending(p)
      PROVE  UnblockInv'
  BY <1>1, <1>2, <1>6, ProcessTypes, CallInv
<1>7. ASSUME NEW p \in Proc, (p \in Worker /\ Scan(p)) \/ Process(p) \/ ResetUnheard(p) \/ Fail(p) PROVE UnblockInv'
  BY <1>1, <1>2, <1>7, ProcessTypes, ProcessInv
<1>8. CASE UNCHANGED vars
  <2>1. UNCHANGED <<redis, block, lastGen, request, recording, local>>
    BY <1>8 DEF vars
  <2>2. Types'
    BY <1>2, <2>1 DEF redis, local, Types, TypeOK, Keyed
  <2>3. Gens' /\ Marked' /\ Locks'
    BY <2>1 DEF redis, local, UnblockInv, Gens, Marked, Locks
  <2>4. CompletedIsDone' /\ Owned' /\ OwnRequestUnblocks'
    BY <2>1 DEF redis, local, UnblockInv, CompletedIsDone, Owned, OwnRequestUnblocks
  <2> QED
    BY <1>1, <2>2, <2>3, <2>4 DEF Work
<1> QED
  BY <1>3, <1>4, <1>5, <1>6, <1>7, <1>8 DEF Next

\* The tables, Redis and the processes keep their types.
THEOREM UnblockTypeCorrect == Spec => []TypeOK
<1>1. UnblockInv => TypeOK
  BY DEF UnblockInv, Types
<1> QED
  BY <1>1, UnblockInitInv, UnblockStepInv, PTL DEF Spec

\* A request erases the counter once, however often calls and workers retry it.
THEOREM ResetIsOnce == Spec => []ResetAtMostOnce
<1>1. UnblockInv => ResetAtMostOnce
  BY DEF UnblockInv, Marked, ResetAtMostOnce
<1> QED
  BY <1>1, UnblockInitInv, UnblockStepInv, PTL DEF Spec

\* A completed request has reset the counter and removed the block it was made for.
THEOREM CompletedRequestsAreDone == Spec => []CompletedIsDone
<1>1. UnblockInv => CompletedIsDone
  BY DEF UnblockInv
<1> QED
  BY <1>1, UnblockInitInv, UnblockStepInv, PTL DEF Spec

\* Whoever makes a request of his own and is told "unblocked" was unblocked.
THEOREM OwnRequestsUnblock == Spec => []OwnRequestUnblocks
<1>1. UnblockInv => OwnRequestUnblocks
  BY DEF UnblockInv
<1> QED
  BY <1>1, UnblockInitInv, UnblockStepInv, PTL DEF Spec

\* A retry never removes a block newer than the one its request was made for.
THEOREM NewerBlocksSurvive == Spec => NewerBlockSurvives
<1> DEFINE Kept == \A k \in Key : block[k] # 0 /\ block'[k] = 0 =>
                      \E r \in Pending(k) : request[r].gen = block[k] /\ request'[r].state = "completed"
<1>1. ASSUME UnblockInv, [Next]_vars PROVE [Kept]_vars
  <2>t. StoreTypes /\ request \in [Req -> Rows] /\ LocalTypes /\ CallTypes /\ Keyed
    BY <1>1, TypesSplit DEF UnblockInv, Types
  <2>1. CASE UNCHANGED block
    BY <2>1
  <2>2. ASSUME NEW a \in Attempt, RecordBlock(a) PROVE Kept
    <3>1. lastGen + 1 # 0
      BY <2>t, UnblockAssumption DEF StoreTypes
    <3> QED
      BY <2>2, <2>t, <3>1 DEF RecordBlock, StoreTypes
  <2>3. ASSUME NEW p \in Proc, Complete(p) PROVE Kept
    <3> DEFINE r == id[p]
    <3>1. r \in Req /\ request[r].state = "pending"
      BY <1>1, <2>3, <2>t DEF Complete, Keyed, Located, Holding, UnblockInv, Locks
    <3>2. request'[r].state = "completed"
      BY <2>3, <2>t, <3>1 DEF Complete, Rows
    <3> SUFFICES ASSUME NEW k \in Key, block[k] # 0, block'[k] = 0
                 PROVE  r \in Pending(k) /\ request[r].gen = block[k]
      BY <3>2
    <3>3. Cleared(r) /\ k = request[r].key
      BY <2>3, <2>t DEF Complete, StoreTypes
    <3> QED
      BY <3>1, <3>3 DEF Cleared, Pending
  <2>4. ASSUME NEW a \in Attempt, (\E k \in Key : CountAttempt(a, k)) \/ LoseBlock(a) PROVE UNCHANGED block
    BY <2>4 DEF CountAttempt, LoseBlock
  <2>5. ASSUME NEW k \in Key, WindowEnds(k) PROVE UNCHANGED block
    BY <2>5 DEF WindowEnds
  <2>6. ASSUME NEW r \in Req, GrowOld(r) \/ ForgetMarker(r) PROVE UNCHANGED block
    BY <2>6 DEF GrowOld, ForgetMarker
  <2>7. ASSUME NEW p \in Caller, (\E k \in Key : Call(p, k)) \/ ReadBlock(p) \/ InsertRequest(p) \/ FindPending(p)
        PROVE  UNCHANGED block
    BY <2>7 DEF Call, ReadBlock, InsertRequest, FindPending
  <2>8. ASSUME NEW p \in Proc, (p \in Worker /\ Scan(p)) \/ LockRequest(p) \/ Expire(p) \/ ResetCounter(p)
                               \/ ResetUnheard(p) \/ Fail(p)
        PROVE  UNCHANGED block
    BY <2>8 DEF Scan, LockRequest, Expire, ResetCounter, ResetUnheard, Fail
  <2> HIDE DEF Kept
  <2>9. CASE Next
    BY <2>1, <2>2, <2>3, <2>4, <2>5, <2>6, <2>7, <2>8, <2>9 DEF Next, Process, Kept
  <2>10. CASE UNCHANGED vars
    BY <2>10
  <2> QED
    BY <1>1, <2>9, <2>10
<1>2. UnblockInv /\ [Next]_vars => [Kept]_vars
  BY <1>1
<1> HIDE DEF Kept
<1>3. Spec => [][Kept]_vars
  BY <1>2, UnblockInitInv, UnblockStepInv, PTL DEF Spec
<1> QED
  BY <1>3 DEF NewerBlockSurvives, Kept
===============================================================================
