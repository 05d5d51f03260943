--------------------------- MODULE DashboardCache ---------------------------
(***************************************************************************)
(* RedisService.cached behind the dashboard, and SettingsService.clear.    *)
(* A read is four steps: the namespace's version, the value stored under   *)
(* it, the load from the database, the store.  A value is known by the     *)
(* state of the database it was loaded from.                               *)
(***************************************************************************)
EXTENDS Naturals

CONSTANTS
  Reader,       \* dashboard requests under way, of all replicas
  MaxClears,    \* bound: clears of the namespace
  MaxChanges    \* bound: changes of what the dashboard counts

ASSUME DashboardAssumption == MaxClears \in Nat /\ MaxChanges \in Nat

ClearCount == 0 .. MaxClears
NoValue == MaxChanges + 1
Value == 0 .. MaxChanges

VARIABLES
  rowsAsOf,     \* number of changes committed in the database
  cacheVersion, \* Redis: cache-version:dashboard
  stored,       \* Redis: stored[v], the value under version v
  step,         \* step[r]: where the read of r is
  keyVersion,   \* the version in its key
  loaded,       \* the value it loaded
  clearedAsOf,  \* history: rowsAsOf at the last clear
  askedAsOf,    \* history: clearedAsOf when the read of r began
  shown         \* history: the last answer, and askedAsOf of its read

readVars == <<step, keyVersion, loaded, askedAsOf>>
dashboardVars == <<rowsAsOf, cacheVersion, stored, readVars, clearedAsOf, shown>>

DashboardInit ==
  /\ rowsAsOf = 0 /\ cacheVersion = 0
  /\ stored = [v \in ClearCount |-> NoValue]
  /\ step = [r \in Reader |-> "idle"]
  /\ keyVersion = [r \in Reader |-> 0]
  /\ loaded = [r \in Reader |-> 0]
  /\ askedAsOf = [r \in Reader |-> 0]
  /\ clearedAsOf = 0 /\ shown = <<0, 0>>

ChangeRows ==
  /\ rowsAsOf < MaxChanges
  /\ rowsAsOf' = rowsAsOf + 1
  /\ UNCHANGED <<cacheVersion, stored, readVars, clearedAsOf, shown>>

\* invalidate: INCR of the version
ClearCache ==
  /\ cacheVersion < MaxClears
  /\ cacheVersion' = cacheVersion + 1
  /\ clearedAsOf' = rowsAsOf
  /\ UNCHANGED <<rowsAsOf, stored, readVars, shown>>

\* A stored value lives 30 seconds.
ValueExpires(v) ==
  /\ stored[v] # NoValue
  /\ stored' = [stored EXCEPT ![v] = NoValue]
  /\ UNCHANGED <<rowsAsOf, cacheVersion, readVars, clearedAsOf, shown>>

MoveOn(r, to) == step' = [step EXCEPT ![r] = to]

\* The answer; what the read held is forgotten.
Show(r, value) ==
  /\ MoveOn(r, "idle")
  /\ shown' = <<value, askedAsOf[r]>>
  /\ keyVersion' = [keyVersion EXCEPT ![r] = 0]
  /\ loaded' = [loaded EXCEPT ![r] = 0]
  /\ askedAsOf' = [askedAsOf EXCEPT ![r] = 0]

BeginRead(r) ==
  /\ step[r] = "idle"
  /\ MoveOn(r, "version")
  /\ askedAsOf' = [askedAsOf EXCEPT ![r] = clearedAsOf]
  /\ UNCHANGED <<rowsAsOf, cacheVersion, stored, keyVersion, loaded, clearedAsOf, shown>>

\* Redis fails: the value is loaded for this answer alone.
RedisFails(r) ==
  /\ step[r] \in {"version", "get"}
  /\ MoveOn(r, "alone")
  /\ UNCHANGED <<rowsAsOf, cacheVersion, stored, keyVersion, loaded, askedAsOf, clearedAsOf, shown>>

ReadVersion(r) ==
  /\ step[r] = "version"
  /\ MoveOn(r, "get")
  /\ keyVersion' = [keyVersion EXCEPT ![r] = cacheVersion]
  /\ UNCHANGED <<rowsAsOf, cacheVersion, stored, loaded, askedAsOf, clearedAsOf, shown>>

FindValue(r) ==
  /\ step[r] = "get" /\ stored[keyVersion[r]] # NoValue
  /\ Show(r, stored[keyVersion[r]])
  /\ UNCHANGED <<rowsAsOf, cacheVersion, stored, clearedAsOf>>

MissValue(r) ==
  /\ step[r] = "get" /\ stored[keyVersion[r]] = NoValue
  /\ MoveOn(r, "load")
  /\ UNCHANGED <<rowsAsOf, cacheVersion, stored, keyVersion, loaded, askedAsOf, clearedAsOf, shown>>

LoadOnly(r) ==
  /\ step[r] = "alone"
  /\ Show(r, rowsAsOf)
  /\ UNCHANGED <<rowsAsOf, cacheVersion, stored, clearedAsOf>>

LoadValue(r) ==
  /\ step[r] = "load"
  /\ MoveOn(r, "set")
  /\ loaded' = [loaded EXCEPT ![r] = rowsAsOf]
  /\ UNCHANGED <<rowsAsOf, cacheVersion, stored, keyVersion, askedAsOf, clearedAsOf, shown>>

\* mutant: the key is built when the value is stored
StoreVersion_Now(r) == cacheVersion
StoreVersion(r) == keyVersion[r]

\* SET with the key computed at the beginning; a failure is only logged.
StoreValue(r) ==
  /\ step[r] = "set"
  /\ stored' \in {stored, [stored EXCEPT ![StoreVersion(r)] = loaded[r]]}
  /\ Show(r, loaded[r])
  /\ UNCHANGED <<rowsAsOf, cacheVersion, clearedAsOf>>

ReadStep(r) ==
  \/ BeginRead(r) \/ RedisFails(r) \/ ReadVersion(r) \/ FindValue(r) \/ MissValue(r)
  \/ LoadOnly(r) \/ LoadValue(r) \/ StoreValue(r)

DashboardNext ==
  \/ ChangeRows \/ ClearCache
  \/ \E v \in ClearCount : ValueExpires(v)
  \/ \E r \in Reader : ReadStep(r)

DashboardSpec == DashboardInit /\ [][DashboardNext]_dashboardVars

-----------------------------------------------------------------------------
(* Properties                                                              *)

\* The database, Redis and the reads have their types.
DashboardTypeOK ==
  /\ rowsAsOf \in Value /\ cacheVersion \in ClearCount /\ clearedAsOf \in Value
  /\ stored \in [ClearCount -> Value \cup {NoValue}]
  /\ step \in [Reader -> {"idle", "version", "get", "load", "alone", "set"}]
  /\ keyVersion \in [Reader -> ClearCount]
  /\ loaded \in [Reader -> Value] /\ askedAsOf \in [Reader -> Value]
  /\ shown \in Value \X Value

\* "cleared": a dashboard asked for after a clear shows nothing older than the
\* clear, although reads that began before it are still storing what they loaded.
ClearIsFinal == shown[1] >= shown[2]
=============================================================================
