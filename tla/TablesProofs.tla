---------------------------- MODULE TablesProofs ----------------------------
(***************************************************************************)
(* Proofs about the tools of the design skills: ui-ux-pro-max's search of  *)
(* its tables while others write them, the audit of these tables, and what *)
(* the search of a stack and the generated designs make of audited ones;   *)
(* the images of the design skill; and the slides of design-system.        *)
(***************************************************************************)
EXTENDS Skills, SearchCache, Ranking, DataLemmas

(***************************************************************************)
(* SearchCache.  CacheSound is not inductive.  A version is a signature,   *)
(* and versions only grow: what a search has read lies between the version *)
(* it began with and the one that is there, so two equal signatures leave  *)
(* no room for another version between them.                               *)
(***************************************************************************)

SearchStages == {"idle", "detect", "stat", "before", "read", "after", "variant", "fit", "rank", "keywords"}
Searching ==
  [table: Table, stage: SearchStages, then: {"variant", "fit", "keywords"}, legacy: BOOLEAN,
   before: Version, half: 1..2, rows: Halves, sig: 0..Versions, tries: 0..Attempts,
   variant: IndexVariant, fitted: Halves, answer: {"none", "rows", "keywords", "empty", "error"},
   since: Version]
CacheTypes == CacheTypeOK /\ search \in Searching

\* What is kept under a signature is what the table was then.
CachesReal ==
  /\ SnapshotIsReal
  /\ \A f \in Table : csv[f].sig <= version[f]
  /\ \A f \in Table, v \in IndexVariant : index[<<f, v>>].sig # None =>
       index[<<f, v>>].rows = <<index[<<f, v>>].sig, index[<<f, v>>].sig>>
  /\ keywords.from # None => keywords.from >= keywords.sig

\* What is read lies between the two signatures.
Between ==
  /\ search.since <= version[f0]
  /\ search.stage \in {"read", "after"} => search.since <= search.before /\ search.before <= version[f0]
  /\ (search.stage = "read" /\ search.half = 2) \/ search.stage = "after" =>
       search.before <= search.rows[1] /\ search.rows[1] <= version[f0]
  /\ search.stage = "after" => search.before <= search.rows[2] /\ search.rows[2] <= version[f0]

Loaded == search.sig # None /\ search.rows = <<search.sig, search.sig>> /\ search.since <= search.sig

\* A step that works on rows has them from one version; a table of several generations is
\* ranked under the choice made for the kind of query, if anything is left of it.
Informed ==
  /\ search.stage \in {"variant", "keywords"} => search.sig = None \/ Loaded
  /\ search.stage \in {"fit", "rank"} \/ search.answer = "rows" => Loaded /\ search.then = "fit"
  /\ search.stage = "rank" \/ search.answer = "rows" =>
       search.fitted = search.rows /\ Filter(StatusesIn[search.sig], search.variant) # {}
  /\ f0 = "stack" /\ search.then = "fit" =>
       search.variant \in (IF search.legacy THEN {"legacy-only", "legacy-unavailable"}
                                            ELSE {"current-only", "non-legacy"})

\* How a search goes on: the keywords are those of the product table, and their
\* signature was taken before the rows were.
Planned ==
  /\ search.stage # "idle" => search.answer = "none"
  /\ search.stage = "detect" => search.then = "keywords"
  /\ search.stage \in {"variant", "fit", "keywords"} => search.then = search.stage
  /\ search.stage # "idle" /\ search.then = "keywords" => f0 = "product"
  /\ search.stage \notin {"idle", "detect"} /\ search.then = "keywords" =>
       search.fitted[1] <= version[f0]
  /\ search.stage = "keywords" /\ search.sig # None => search.fitted[1] <= search.sig
  /\ search.answer = "keywords" /\ keywords.from # None => keywords.from >= search.since

CacheInv == CacheTypes /\ CachesReal /\ Between /\ Informed /\ Planned

LEMMA CacheStart == CacheInit => CacheInv
  <1> SUFFICES ASSUME CacheInit PROVE CacheInv
    OBVIOUS
  <1>1. 1 \in Version /\ 1 \in 1..2 /\ 0 \in 0..Attempts /\ 0 \in 0..MaxSearches /\ NoRows \in Halves /\ 0 \in 0..Versions
    BY CacheAssumption DEF Version, Attempts, NoRows, Halves
  <1>2. search = [table |-> "product", stage |-> "idle", then |-> "variant", legacy |-> FALSE, before |-> 1,
                  half |-> 1, rows |-> NoRows, sig |-> None, tries |-> 0, variant |-> "",
                  fitted |-> NoRows, answer |-> "none", since |-> 1]
    BY DEF CacheInit, Search
  <1>3. search \in Searching
    BY <1>1, <1>2 DEF Searching, SearchStages, Table, IndexVariant, None
  <1>4. CacheTypeOK
    <2>1. [sig |-> None, rows |-> NoRows] \in [sig: 0..Versions, rows: Halves]
      BY <1>1 DEF None
    <2>2. index \in [Table \X IndexVariant -> [sig: 0..Versions, rows: Halves]]
      BY <2>1 DEF CacheInit
    <2>3. csv \in [Table -> [sig: 0..Versions, rows: Halves]] /\ version \in [Table -> Version]
      BY <1>1, <2>1 DEF CacheInit
    <2>4. keywords \in [sig: 0..Versions, from: 0..Versions]
      BY <1>1, CacheAssumption DEF CacheInit, None
    <2>5. search.tries \in 0..Attempts /\ searches \in 0..MaxSearches
      BY <1>1, <1>3 DEF CacheInit, Searching
    <2>6. QED
      BY <2>2, <2>3, <2>4, <2>5 DEF CacheTypeOK
  <1>5. \A f \in Table : csv[f].sig = None /\ version[f] = 1
    BY DEF CacheInit
  <1>6. \A k \in Table \X IndexVariant : index[k].sig = None
    BY DEF CacheInit
  <1>7. CachesReal
    BY <1>4, <1>5, <1>6 DEF CacheInit, CachesReal, SnapshotIsReal, None
  <1>8. /\ f0 = "product" /\ search.stage = "idle" /\ search.then = "variant" /\ search.answer = "none"
        /\ search.since = 1
    BY <1>2 DEF f0
  <1>9. QED
    BY <1>3, <1>4, <1>5, <1>7, <1>8 DEF CacheTypes, CacheInv, Between, Informed, Planned, f0, None, Table

\* The facts a step starts from, as numbers.
LEMMA CacheFacts ==
  ASSUME CacheInv
  PROVE  /\ f0 \in Table /\ version[f0] \in Version /\ version[f0] # None
         /\ \A f \in Table : version[f] \in Nat
         /\ version \in [Table -> Version] /\ csv \in [Table -> [sig: 0..Versions, rows: Halves]]
         /\ index \in [Table \X IndexVariant -> [sig: 0..Versions, rows: Halves]]
         /\ keywords \in [sig: 0..Versions, from: 0..Versions]
         /\ search \in Searching
         /\ search.rows[1] \in Version /\ search.rows[2] \in Version /\ search.fitted[1] \in Version
         /\ Version \subseteq Nat /\ Version \subseteq 0..Versions
  <1>1. /\ version \in [Table -> Version] /\ csv \in [Table -> [sig: 0..Versions, rows: Halves]]
        /\ index \in [Table \X IndexVariant -> [sig: 0..Versions, rows: Halves]]
        /\ keywords \in [sig: 0..Versions, from: 0..Versions]
        /\ search \in Searching
    BY DEF CacheInv, CacheTypes, CacheTypeOK
  <1>2. search.table \in Table /\ search.rows \in Halves /\ search.fitted \in Halves
    BY <1>1 DEF Searching
  <1>3. search.rows[1] \in Version /\ search.rows[2] \in Version /\ search.fitted[1] \in Version
    BY <1>2 DEF Halves
  <1>4. Version \subseteq Nat /\ Version \subseteq 0..Versions /\ None \notin Version
    BY CacheAssumption DEF Version, None
  <1>5. f0 \in Table
    BY <1>2 DEF f0
  <1>6. version[f0] \in Version /\ version[f0] # None
    BY <1>1, <1>4, <1>5
  <1>7. \A f \in Table : version[f] \in Nat
    BY <1>1, <1>4
  <1>8. QED
    BY <1>1, <1>3, <1>4, <1>5, <1>6, <1>7

\* Somebody writes a table: the version grows, the search and the caches stay.
LEMMA WriteKeeps == ASSUME CacheInv, NEW f \in Table, WriteTable(f) PROVE CacheInv'
  <1>1. CacheTypeOK /\ search' = search /\ version[f] + 1 \in Version
    BY CacheFacts, CacheAssumption DEF WriteTable, CacheInv, CacheTypes, Version
  <1>2. version' \in [Table -> Version] /\ \A g \in Table : version[g] <= version'[g]
    BY <1>1, CacheFacts DEF WriteTable
  <1>3. CacheTypes'
    BY <1>1, <1>2 DEF WriteTable, CacheInv, CacheTypes, CacheTypeOK
  <1>4. CachesReal'
    BY <1>2, CacheFacts DEF WriteTable, CacheInv, CachesReal, SnapshotIsReal
  <1>5. f0' = f0 /\ version'[f0] \in Nat
    BY <1>1, <1>2, CacheFacts DEF f0
  <1>6. Between'
    BY <1>1, <1>2, <1>5, CacheFacts DEF CacheInv, Between, Searching
  <1>7. Informed' /\ Planned'
    BY <1>1, <1>2, <1>5, CacheFacts DEF WriteTable, CacheInv, Informed, Planned, Loaded, Searching
  <1>8. QED
    BY <1>3, <1>4, <1>6, <1>7 DEF CacheInv

\* A step of the search that leaves the tables and the caches alone.
LEMMA OnlySearches ==
  ASSUME CacheInv, csv' = csv, UNCHANGED <<version, index, keywords, searches>>, search' \in Searching,
         search'.table = f0, search'.since = search.since
  PROVE  CacheTypes' /\ CachesReal' /\ f0' = f0 /\ version'[f0'] = version[f0]
         /\ search'.since <= version'[f0']
  <1>1. search'.tries \in 0..Attempts
    BY DEF Searching
  <1>2. CacheTypes'
    BY <1>1 DEF CacheInv, CacheTypes, CacheTypeOK
  <1>3. QED
    BY <1>2 DEF CacheInv, CachesReal, SnapshotIsReal, Between, f0

LEMMA StatKeeps == ASSUME CacheInv, Stat PROVE CacheInv'
  <1>1. CASE /\ csv[f0].sig = version[f0]
             /\ search' = [search EXCEPT !.rows = csv[f0].rows, !.sig = csv[f0].sig, !.stage = search.then]
    <2>1. csv[f0].sig \in 0..Versions /\ csv[f0].sig # None /\ csv[f0].rows \in Halves
          /\ csv[f0].rows = <<csv[f0].sig, csv[f0].sig>>
      BY <1>1, CacheFacts DEF CacheInv, CachesReal, SnapshotIsReal
    <2>2. /\ search' \in Searching /\ search'.table = f0 /\ search'.since = search.since
          /\ search'.rows = <<search'.sig, search'.sig>> /\ search'.sig = version[f0]
          /\ search'.stage = search.then /\ search'.then = search.then
          /\ search'.fitted = search.fitted /\ search'.variant = search.variant
          /\ search'.legacy = search.legacy /\ search'.answer = search.answer
      BY <1>1, <2>1, CacheFacts DEF Searching, SearchStages, f0
    <2>3. CacheTypes' /\ CachesReal' /\ f0' = f0 /\ version'[f0'] = version[f0]
          /\ search'.since <= version'[f0']
      BY <2>2, OnlySearches DEF Stat, Set
    <2>4. search.then \in {"variant", "fit", "keywords"} /\ search.stage = "stat" /\ search.answer = "none"
      BY CacheFacts DEF Stat, Searching, CacheInv, Planned
    <2>5. Between'
      BY <2>2, <2>3, <2>4 DEF Between
    <2>6. Loaded'
      BY <2>1, <2>2, <2>3, <1>1 DEF Loaded
    <2>7. Informed'
      BY <2>2, <2>3, <2>4, <2>6 DEF Informed, CacheInv
    <2>8. Planned'
      BY <2>2, <2>3, <2>4 DEF Planned, CacheInv
    <2>9. QED
      BY <2>3, <2>5, <2>7, <2>8 DEF CacheInv
  <1>2. CASE search' = [search EXCEPT !.stage = "before", !.tries = 0]
    <2>1. /\ search' \in Searching /\ search'.table = f0 /\ search'.since = search.since
          /\ search'.stage = "before" /\ search'.then = search.then
          /\ search'.fitted = search.fitted /\ search'.variant = search.variant
          /\ search'.legacy = search.legacy /\ search'.answer = search.answer
      <3>1. search \in Searching /\ "before" \in SearchStages /\ 0 \in 0..Attempts
        BY CacheFacts DEF SearchStages, Attempts
      <3>2. search' \in Searching
        BY <1>2, <3>1 DEF Searching
      <3>3. QED
        BY <1>2, <3>1, <3>2 DEF Searching, f0
    <2>2. CacheTypes' /\ CachesReal' /\ f0' = f0 /\ version'[f0'] = version[f0]
          /\ search'.since <= version'[f0']
      BY <2>1, OnlySearches DEF Stat, Set
    <2>3. search.stage = "stat" /\ search.answer = "none"
      BY DEF Stat, CacheInv, Planned
    <2>4. QED
      BY <2>1, <2>2, <2>3 DEF CacheInv, Between, Informed, Planned
  <1>3. QED
    BY <1>1, <1>2 DEF Stat, Set, CsvHit

\* A read that fails, or is tried for the last time, ends the search or leaves it without rows.
LEMMA ErrorKeeps ==
  ASSUME CacheInv, search.stage \in {"before", "read"}, ReadError, csv' = csv
  PROVE  CacheInv'
  <1>1. search.answer = "none" /\ search.then \in {"variant", "fit", "keywords"}
    BY CacheFacts DEF CacheInv, Planned, Searching
  <1>2. 0 \in 0..Versions
    BY CacheAssumption
  <1>3. /\ search' \in Searching /\ search'.table = f0 /\ search'.since = search.since
        /\ search'.then = search.then /\ search'.fitted = search.fitted
        /\ search'.variant = search.variant /\ search'.legacy = search.legacy
        /\ IF search.then = "fit"
           THEN search'.stage = "idle" /\ search'.answer = "error"
           ELSE search'.stage = search.then /\ search'.answer = "none" /\ search'.sig = None
    <2>1. CASE search.then = "keywords"
      BY <1>1, <1>2, <2>1, CacheFacts DEF ReadError, Set, Searching, SearchStages, None, f0
    <2>2. CASE search.then = "variant"
      BY <1>1, <1>2, <2>2, CacheFacts DEF ReadError, Set, Searching, SearchStages, None, f0
    <2>3. CASE search.then = "fit"
      BY <1>1, <1>2, <2>3, CacheFacts DEF ReadError, Set, Searching, SearchStages, f0
    <2>4. QED
      BY <1>1, <2>1, <2>2, <2>3
  <1>4. CacheTypes' /\ CachesReal' /\ f0' = f0 /\ version'[f0'] = version[f0]
        /\ search'.since <= version'[f0']
    BY <1>3, OnlySearches DEF ReadError, Set
  <1>5. Between'
    BY <1>1, <1>3, <1>4 DEF Between
  <1>6. Informed' /\ Planned'
    BY <1>1, <1>3, <1>4 DEF CacheInv, Informed, Planned
  <1>7. QED
    BY <1>4, <1>5, <1>6 DEF CacheInv

LEMMA BeforeKeeps == ASSUME CacheInv, Before PROVE CacheInv'
  <1>1. CASE /\ ~GivesUp
             /\ Set([search EXCEPT !.before = version[f0], !.stage = "read", !.half = 1, !.tries = @ + 1])
    <2>1. search.tries + 1 \in 0..Attempts
      BY <1>1, CacheFacts DEF GivesUp, Searching, Attempts
    <2>2. /\ search' \in Searching /\ search'.table = f0 /\ search'.since = search.since
          /\ search'.stage = "read" /\ search'.half = 1 /\ search'.before = version[f0]
          /\ search'.then = search.then /\ search'.fitted = search.fitted
          /\ search'.variant = search.variant /\ search'.legacy = search.legacy
          /\ search'.answer = search.answer
      <3>1. search \in Searching /\ "read" \in SearchStages /\ 1 \in 1..2 /\ version[f0] \in Version
        BY CacheFacts DEF SearchStages
      <3>2. search' \in Searching
        BY <1>1, <2>1, <3>1 DEF Set, Searching
      <3>3. QED
        BY <1>1, <3>1, <3>2 DEF Set, Searching, f0
    <2>3. CacheTypes' /\ CachesReal' /\ f0' = f0 /\ version'[f0'] = version[f0]
          /\ search'.since <= version'[f0']
      BY <1>1, <2>2, OnlySearches DEF Before, Set
    <2>4. search.stage = "before" /\ search.answer = "none" /\ version[f0] \in Nat
      BY CacheFacts DEF Before, CacheInv, Planned
    <2>5. Between'
      BY <2>2, <2>3, <2>4 DEF Between
    <2>6. Informed' /\ Planned'
      BY <2>2, <2>3, <2>4 DEF CacheInv, Informed, Planned
    <2>7. QED
      BY <2>3, <2>5, <2>6 DEF CacheInv
  <1>2. QED
    BY <1>1, ErrorKeeps DEF Before

LEMMA HalfRead ==
  ASSUME NEW r \in Halves, NEW h \in 1..2, NEW v \in Version
  PROVE  /\ [r EXCEPT ![h] = v] \in Halves
         /\ [r EXCEPT ![h] = v][1] = IF h = 1 THEN v ELSE r[1]
         /\ [r EXCEPT ![h] = v][2] = IF h = 2 THEN v ELSE r[2]
  <1>1. PICK a \in Version, b \in Version : r = <<a, b>>
    BY DEF Halves
  <1>2. CASE h = 1
    <2>1. [r EXCEPT ![h] = v] = <<v, b>>
      BY <1>1, <1>2
    <2>2. QED
      BY <1>1, <1>2, <2>1 DEF Halves
  <1>3. CASE h = 2
    <2>1. [r EXCEPT ![h] = v] = <<a, v>>
      BY <1>1, <1>3
    <2>2. QED
      BY <1>1, <1>3, <2>1 DEF Halves
  <1>4. QED
    BY <1>2, <1>3

LEMMA ReadKeeps == ASSUME CacheInv, ReadHalf PROVE CacheInv'
  <1> DEFINE next == IF search.half = 1 THEN "read" ELSE "after"
             read == [search.rows EXCEPT ![search.half] = version[f0]]
  <1>1. CASE Set([search EXCEPT !.rows[search.half] = version[f0], !.half = 2, !.stage = next])
    <2>1. /\ search \in Searching /\ next \in SearchStages /\ 2 \in 1..2 /\ search.half \in 1..2
          /\ search.rows \in Halves /\ version[f0] \in Version
      BY CacheFacts DEF SearchStages, Searching
    <2>2. /\ read \in Halves
          /\ read[1] = IF search.half = 1 THEN version[f0] ELSE search.rows[1]
          /\ read[2] = IF search.half = 2 THEN version[f0] ELSE search.rows[2]
      BY <2>1, HalfRead
    <2>3. search' = [search EXCEPT !.rows = read, !.half = 2, !.stage = next]
      BY <1>1, <2>1 DEF Set, Searching
    <2> HIDE DEF next, read
    <2>4. search' \in Searching
      BY <2>1, <2>2, <2>3 DEF Searching
    <2>5. /\ search'.table = f0 /\ search'.since = search.since
          /\ search'.stage = next /\ search'.half = 2 /\ search'.before = search.before
          /\ search'.then = search.then /\ search'.fitted = search.fitted /\ search'.rows = read
          /\ search'.variant = search.variant /\ search'.legacy = search.legacy
          /\ search'.answer = search.answer
      BY <2>1, <2>3 DEF Searching, f0
    <2>6. CacheTypes' /\ CachesReal' /\ f0' = f0 /\ version'[f0'] = version[f0]
          /\ search'.since <= version'[f0']
      BY <1>1, <2>4, <2>5, OnlySearches DEF ReadHalf, Set
    <2>7. search.stage = "read" /\ search.answer = "none" /\ version[f0] \in Nat
      BY CacheFacts DEF ReadHalf, CacheInv, Planned
    <2>8. IF search.half = 1 THEN next = "read" ELSE search.half = 2 /\ next = "after"
      BY <2>1 DEF next
    <2>9. Between'
      BY <2>2, <2>5, <2>6, <2>7, <2>8 DEF CacheInv, Between
    <2>10. Informed' /\ Planned'
      BY <2>5, <2>6, <2>7, <2>8 DEF CacheInv, Informed, Planned
    <2>11. QED
      BY <2>6, <2>9, <2>10 DEF CacheInv
  <1>2. QED
    BY <1>1, ErrorKeeps DEF ReadHalf

LEMMA AfterKeeps == ASSUME CacheInv, After PROVE CacheInv'
  <1>1. search.stage = "after" /\ search.answer = "none" /\ search \in Searching
        /\ search.then \in {"variant", "fit", "keywords"} /\ version[f0] \in Version
        /\ version[f0] \in Nat /\ version[f0] # None /\ version[f0] \in 0..Versions /\ f0 \in Table
    BY CacheFacts DEF After, CacheInv, Planned, Searching
  <1>2. CASE /\ Stable
             /\ csv' = [csv EXCEPT ![f0] = [sig |-> version[f0], rows |-> search.rows]]
             /\ Set([search EXCEPT !.sig = version[f0], !.stage = search.then])
    <2>1. search.rows[1] = version[f0] /\ search.rows[2] = version[f0]
      <3>1. search.before = version[f0]
        BY <1>2 DEF Stable
      <3>2. /\ search.before <= search.rows[1] /\ search.rows[1] <= version[f0]
            /\ search.before <= search.rows[2] /\ search.rows[2] <= version[f0]
        BY <1>1 DEF CacheInv, Between
      <3>3. search.rows[1] \in Nat /\ search.rows[2] \in Nat
        BY CacheFacts
      <3>4. QED
        BY <1>1, <3>1, <3>2, <3>3
    <2>2. search.rows \in Halves /\ search.rows = <<version[f0], version[f0]>>
      BY <1>1, <2>1 DEF Searching, Halves
    <2>3. search' \in Searching
      BY <1>1, <1>2 DEF Set, Searching, SearchStages
    <2>4. /\ search'.table = f0 /\ search'.since = search.since
          /\ search'.stage = search.then /\ search'.sig = version[f0]
          /\ search'.then = search.then /\ search'.fitted = search.fitted /\ search'.rows = search.rows
          /\ search'.variant = search.variant /\ search'.legacy = search.legacy
          /\ search'.answer = search.answer
      BY <1>1, <1>2 DEF Set, Searching, f0
    <2>5. UNCHANGED <<version, index, keywords, searches>> /\ f0' = f0
      BY <1>2, <2>4 DEF Set, f0
    <2>6. csv' \in [Table -> [sig: 0..Versions, rows: Halves]]
      BY <1>1, <1>2, <2>2, CacheFacts
    <2>7. CacheTypes'
      BY <2>3, <2>5, <2>6 DEF CacheInv, CacheTypes, CacheTypeOK, Searching
    <2>8. CachesReal'
      BY <1>1, <1>2, <2>2, <2>5, CacheFacts DEF CacheInv, CachesReal, SnapshotIsReal
    <2>9. search.since <= version[f0]
      BY DEF CacheInv, Between
    <2>10. Between'
      BY <1>1, <2>4, <2>5, <2>9 DEF Between
    <2>11. Loaded'
      BY <1>1, <2>2, <2>4, <2>9 DEF Loaded
    <2>12. Informed' /\ Planned'
      BY <1>1, <2>4, <2>5, <2>11 DEF CacheInv, Informed, Planned
    <2>13. QED
      BY <2>7, <2>8, <2>10, <2>12 DEF CacheInv
  <1>3. CASE Set([search EXCEPT !.stage = "before"]) /\ UNCHANGED csv
    <2>1. search' \in Searching
      BY <1>1, <1>3 DEF Set, Searching, SearchStages
    <2>2. /\ search'.table = f0 /\ search'.since = search.since /\ search'.stage = "before"
          /\ search'.then = search.then /\ search'.fitted = search.fitted
          /\ search'.variant = search.variant /\ search'.legacy = search.legacy
          /\ search'.answer = search.answer
      BY <1>1, <1>3 DEF Set, Searching, f0
    <2>3. CacheTypes' /\ CachesReal' /\ f0' = f0 /\ version'[f0'] = version[f0]
          /\ search'.since <= version'[f0']
      BY <1>3, <2>1, <2>2, OnlySearches DEF Set
    <2>4. QED
      BY <1>1, <2>2, <2>3 DEF CacheInv, Between, Informed, Planned
  <1>4. QED
    BY <1>2, <1>3 DEF After

LEMMA PickKeeps == ASSUME CacheInv, PickVariant PROVE CacheInv'
  <1> DEFINE pick == IF f0 = "stack" THEN VariantOf(ReadStatuses, search.legacy) ELSE ""
  <1>1. search.stage = "variant" /\ search.answer = "none" /\ search \in Searching /\ f0 \in Table
        /\ csv' = csv /\ Set([search EXCEPT !.variant = pick, !.stage = "stat", !.then = "fit"])
    BY CacheFacts DEF PickVariant, CacheInv, Planned
  <1>2. /\ pick \in IndexVariant
        /\ f0 = "stack" => pick \in (IF search.legacy THEN {"legacy-only", "legacy-unavailable"}
                                                     ELSE {"current-only", "non-legacy"})
    BY DEF VariantOf, IndexVariant
  <1> HIDE DEF pick
  <1>3. search' \in Searching
    BY <1>1, <1>2 DEF Set, Searching, SearchStages
  <1>4. /\ search'.table = f0 /\ search'.since = search.since /\ search'.stage = "stat"
        /\ search'.then = "fit" /\ search'.variant = pick /\ search'.legacy = search.legacy
        /\ search'.answer = search.answer
    BY <1>1 DEF Set, Searching, f0
  <1>5. CacheTypes' /\ CachesReal' /\ f0' = f0 /\ version'[f0'] = version[f0]
        /\ search'.since <= version'[f0']
    BY <1>1, <1>3, <1>4, OnlySearches DEF Set
  <1>6. Informed'
    BY <1>1, <1>2, <1>4, <1>5 DEF Informed
  <1>7. QED
    BY <1>1, <1>4, <1>5, <1>6 DEF CacheInv, Between, Planned

LEMMA FitKeeps == ASSUME CacheInv, Fit PROVE CacheInv'
  <1> DEFINE key == <<f0, search.variant>>
  <1>1. /\ search.stage = "fit" /\ search.then = "fit" /\ search.answer = "none" /\ Loaded
        /\ search \in Searching /\ f0 \in Table /\ search.variant \in IndexVariant
        /\ search.sig \in 0..Versions /\ search.rows \in Halves
        /\ csv' = csv /\ UNCHANGED <<version, keywords, searches>>
    BY CacheFacts DEF Fit, CacheInv, Planned, Informed, Searching
  <1>2. ReadStatuses = StatusesIn[search.sig]
    BY <1>1 DEF ReadStatuses, Loaded
  <1>3. CASE search' = [search EXCEPT !.stage = "idle", !.answer = "empty"] /\ index' = index
    <2>1. search' \in Searching
      BY <1>1, <1>3 DEF Searching, SearchStages
    <2>2. /\ search'.table = f0 /\ search'.since = search.since /\ search'.stage = "idle"
          /\ search'.then = search.then /\ search'.variant = search.variant
          /\ search'.legacy = search.legacy /\ search'.answer = "empty"
      BY <1>1, <1>3 DEF Searching, f0
    <2>3. CacheTypes' /\ CachesReal' /\ f0' = f0 /\ version'[f0'] = version[f0]
          /\ search'.since <= version'[f0']
      BY <1>1, <1>3, <2>1, <2>2, OnlySearches
    <2>4. QED
      BY <1>1, <2>2, <2>3 DEF CacheInv, Between, Informed, Planned
  <1>4. CASE /\ Filter(ReadStatuses, search.variant) # {}
             /\ search' = [search EXCEPT !.fitted = search.rows, !.stage = "rank"]
             /\ \/ index' = index
                \/ index' = [index EXCEPT ![key] = [sig |-> search.sig, rows |-> search.rows]]
    <2>1. search' \in Searching
      BY <1>1, <1>4 DEF Searching, SearchStages
    <2>2. /\ search'.table = f0 /\ search'.since = search.since /\ search'.stage = "rank"
          /\ search'.then = search.then /\ search'.variant = search.variant
          /\ search'.legacy = search.legacy /\ search'.answer = "none"
          /\ search'.sig = search.sig /\ search'.rows = search.rows /\ search'.fitted = search.rows
      BY <1>1, <1>4 DEF Searching, f0
    <2>3. /\ index' \in [Table \X IndexVariant -> [sig: 0..Versions, rows: Halves]]
          /\ \A k \in Table \X IndexVariant : index'[k].sig # None =>
               index'[k].rows = <<index'[k].sig, index'[k].sig>>
      <3>1. key \in Table \X IndexVariant
        BY <1>1
      <3>2. \A k \in Table \X IndexVariant : index[k].sig # None =>
              index[k].rows = <<index[k].sig, index[k].sig>>
        BY DEF CacheInv, CachesReal
      <3> HIDE DEF key
      <3>3. CASE index' = index
        BY <3>2, <3>3, CacheFacts
      <3>4. CASE index' = [index EXCEPT ![key] = [sig |-> search.sig, rows |-> search.rows]]
        <4>1. [sig |-> search.sig, rows |-> search.rows] \in [sig: 0..Versions, rows: Halves]
          BY <1>1
        <4>2. index' \in [Table \X IndexVariant -> [sig: 0..Versions, rows: Halves]]
          BY <3>1, <3>4, <4>1, CacheFacts
        <4>3. index'[key] = [sig |-> search.sig, rows |-> search.rows]
              /\ \A k \in (Table \X IndexVariant) \ {key} : index'[k] = index[k]
          BY <3>1, <3>4, CacheFacts
        <4>4. QED
          BY <1>1, <3>2, <4>2, <4>3 DEF Loaded
      <3>5. QED
        BY <1>4, <3>3, <3>4
    <2>4. CacheTypes'
      BY <1>1, <2>1, <2>3 DEF CacheInv, CacheTypes, CacheTypeOK, Searching
    <2>5. CachesReal'
      BY <1>1, <2>3 DEF CacheInv, CachesReal, SnapshotIsReal
    <2>6. f0' = f0 /\ version' = version /\ search.since <= version[f0]
      BY <1>1, <2>2 DEF CacheInv, Between, f0
    <2>7. Loaded' /\ Informed'
      BY <1>1, <1>2, <1>4, <2>2, <2>6 DEF CacheInv, Informed, Loaded
    <2>8. QED
      BY <1>1, <2>2, <2>4, <2>5, <2>6, <2>7 DEF CacheInv, Between, Planned
  <1>5. CASE /\ Filter(ReadStatuses, search.variant) # {} /\ IndexHit(f0, search.variant)
             /\ search' = [search EXCEPT !.fitted = index[key].rows, !.stage = "rank"]
             /\ index' = index
    <2>1. index[key].sig = search.sig
      BY <1>5 DEF IndexHit
    <2>2. index[key].rows = search.rows
      BY <1>1, <2>1 DEF Loaded, CacheInv, CachesReal
    <2>3. QED
      BY <1>4, <1>5, <2>2
  <1>6. QED
    BY <1>3, <1>4, <1>5 DEF Fit

LEMMA RankKeeps == ASSUME CacheInv, Rank PROVE CacheInv'
  <1>1. /\ search.stage = "rank" /\ search.then = "fit" /\ Loaded /\ search \in Searching
        /\ search.fitted = search.rows /\ Filter(StatusesIn[search.sig], search.variant) # {}
        /\ csv' = csv /\ Set([search EXCEPT !.stage = "idle", !.answer = "rows"])
    BY CacheFacts DEF Rank, CacheInv, Informed
  <1>2. search' \in Searching
    BY <1>1 DEF Set, Searching, SearchStages
  <1>3. /\ search'.table = f0 /\ search'.since = search.since /\ search'.stage = "idle"
        /\ search'.then = search.then /\ search'.variant = search.variant
        /\ search'.legacy = search.legacy /\ search'.answer = "rows"
        /\ search'.sig = search.sig /\ search'.rows = search.rows /\ search'.fitted = search.fitted
    BY <1>1 DEF Set, Searching, f0
  <1>4. CacheTypes' /\ CachesReal' /\ f0' = f0 /\ version'[f0'] = version[f0]
        /\ search'.since <= version'[f0']
    BY <1>1, <1>2, <1>3, OnlySearches DEF Set
  <1>5. Loaded' /\ Informed'
    BY <1>1, <1>3, <1>4 DEF CacheInv, Informed, Loaded
  <1>6. QED
    BY <1>1, <1>3, <1>4, <1>5 DEF CacheInv, Between, Planned

LEMMA DetectKeeps == ASSUME CacheInv, Detect PROVE CacheInv'
  <1>1. /\ search.stage = "detect" /\ search.then = "keywords" /\ search.answer = "none"
        /\ f0 = "product" /\ search \in Searching /\ csv' = csv
        /\ version[f0] \in Version /\ version[f0] \in Nat /\ search.since <= version[f0]
    BY CacheFacts DEF Detect, CacheInv, Planned, Between
  <1>2. CASE keywords.sig = version[f0] /\ Set([search EXCEPT !.stage = "idle", !.answer = "keywords"])
    <2>1. search' \in Searching
      BY <1>1, <1>2 DEF Set, Searching, SearchStages
    <2>2. /\ search'.table = f0 /\ search'.since = search.since /\ search'.stage = "idle"
          /\ search'.then = search.then /\ search'.variant = search.variant
          /\ search'.legacy = search.legacy /\ search'.answer = "keywords"
      BY <1>1, <1>2 DEF Set, Searching, f0
    <2>3. CacheTypes' /\ CachesReal' /\ f0' = f0 /\ version'[f0'] = version[f0]
          /\ search'.since <= version'[f0']
      BY <1>1, <1>2, <2>1, <2>2, OnlySearches DEF Set
    <2>4. keywords'.from # None => keywords'.from >= search'.since
      <3>1. keywords.from \in Nat /\ keywords.sig \in Nat /\ search.since \in Nat
        BY CacheFacts, CacheAssumption DEF Searching, Version
      <3>2. keywords' = keywords
        BY <1>2 DEF Set
      <3>3. QED
        BY <1>1, <1>2, <2>2, <3>1, <3>2 DEF CacheInv, CachesReal
    <2>5. QED
      BY <1>1, <2>2, <2>3, <2>4 DEF CacheInv, Between, Informed, Planned
  <1>3. CASE Set([search EXCEPT !.fitted = <<version[f0], version[f0]>>, !.stage = "stat"])
    <2>1. <<version[f0], version[f0]>> \in Halves
      BY <1>1 DEF Halves
    <2>2. search' \in Searching
      BY <1>1, <1>3, <2>1 DEF Set, Searching, SearchStages
    <2>3. /\ search'.table = f0 /\ search'.since = search.since /\ search'.stage = "stat"
          /\ search'.then = search.then /\ search'.fitted = <<version[f0], version[f0]>>
          /\ search'.variant = search.variant /\ search'.legacy = search.legacy
          /\ search'.answer = search.answer
      BY <1>1, <1>3 DEF Set, Searching, f0
    <2>4. CacheTypes' /\ CachesReal' /\ f0' = f0 /\ version'[f0'] = version[f0]
          /\ search'.since <= version'[f0']
      BY <1>1, <1>3, <2>2, <2>3, OnlySearches DEF Set
    <2>5. QED
      BY <1>1, <2>3, <2>4 DEF CacheInv, Between, Informed, Planned
  <1>4. QED
    BY <1>2, <1>3 DEF Detect

LEMMA KeywordsKeep == ASSUME CacheInv, StoreKeywords PROVE CacheInv'
  <1> DEFINE from == IF search.sig = None THEN None ELSE search.rows[1]
  <1>1. /\ search.stage = "keywords" /\ search.then = "keywords" /\ search.answer = "none"
        /\ search \in Searching /\ (search.sig = None \/ Loaded)
    BY CacheFacts DEF StoreKeywords, CacheInv, Planned, Informed
  <1>2. /\ search.fitted[1] \in Nat /\ search.since \in Nat /\ search.sig \in Nat
        /\ search.fitted[1] \in 0..Versions /\ search.sig \in 0..Versions
    BY CacheFacts, CacheAssumption DEF Searching, Version
  <1>3. /\ from = search.sig
        /\ from # None => from >= search.fitted[1] /\ from >= search.since
    BY <1>1, <1>2 DEF Loaded, CacheInv, Planned
  <1>4. /\ keywords' = [sig |-> search.fitted[1], from |-> from]
        /\ search' = [search EXCEPT !.stage = "idle", !.answer = "keywords"]
        /\ UNCHANGED <<version, csv, index, searches>>
    BY DEF StoreKeywords, KeywordSignature
  <1> HIDE DEF from
  <1>5. search' \in Searching
    BY <1>1, <1>4 DEF Searching, SearchStages
  <1>6. /\ f0' = f0 /\ search'.since = search.since /\ search'.stage = "idle"
        /\ search'.then = search.then /\ search'.variant = search.variant
        /\ search'.legacy = search.legacy /\ search'.answer = "keywords"
    BY <1>1, <1>4 DEF Searching, f0
  <1>7. CacheTypes'
    BY <1>2, <1>3, <1>4, <1>5 DEF CacheInv, CacheTypes, CacheTypeOK, Searching
  <1>8. CachesReal'
    BY <1>3, <1>4 DEF CacheInv, CachesReal, SnapshotIsReal
  <1>9. Between' /\ Informed'
    BY <1>1, <1>4, <1>6 DEF CacheInv, Between, Informed
  <1>10. Planned'
    BY <1>1, <1>3, <1>4, <1>6 DEF CacheInv, Planned
  <1>11. QED
    BY <1>7, <1>8, <1>9, <1>10 DEF CacheInv

LEMMA BeginKeeps ==
  ASSUME CacheInv, NEW f \in Table, NEW legacy \in BOOLEAN, NEW then \in {"variant", "fit", "keywords"},
         f = "stack" <=> then = "variant", Begin(f, legacy, then)
  PROVE  CacheInv'
  <1> DEFINE first == IF then = "keywords" THEN "detect" ELSE "stat"
  <1>1. /\ search' = [Search(f, first, legacy) EXCEPT !.then = then]
        /\ searches' \in 0..MaxSearches /\ UNCHANGED <<version, csv, index, keywords>>
    BY CacheAssumption DEF Begin, CacheInv, CacheTypes, CacheTypeOK
  <1>2. /\ first \in {"detect", "stat"}
        /\ first = "detect" <=> then = "keywords"
    OBVIOUS
  <1> HIDE DEF first
  <1>3. search' = [table |-> f, stage |-> first, then |-> then, legacy |-> legacy, before |-> 1, half |-> 1,
                   rows |-> NoRows, sig |-> None, tries |-> 0, variant |-> "", fitted |-> NoRows,
                   answer |-> "none", since |-> version[f]]
    BY <1>1 DEF Search
  <1>4. /\ 1 \in Version /\ 1 \in 1..2 /\ 0 \in 0..Attempts /\ 0 \in 0..Versions /\ NoRows \in Halves
        /\ version[f] \in Version /\ version[f] \in Nat /\ "" \in IndexVariant /\ first \in SearchStages
    <2>1. 1 \in Version /\ 0 \in 0..Versions
      BY CacheAssumption DEF Version
    <2>2. NoRows \in Halves /\ 0 \in 0..Attempts
      BY <2>1 DEF NoRows, Halves, Attempts
    <2>3. "" \in IndexVariant /\ first \in SearchStages
      BY <1>2 DEF IndexVariant, SearchStages
    <2>4. version[f] \in Version /\ version[f] \in Nat
      BY CacheFacts
    <2>5. 1 \in 1..2
      OBVIOUS
    <2>6. QED
      BY <2>1, <2>2, <2>3, <2>4, <2>5, Zenon
  <1>5. search' \in Searching
    BY <1>3, <1>4 DEF Searching, None
  <1>6. /\ f0' = f /\ search'.since = version[f] /\ search'.stage = first
        /\ search'.then = then /\ search'.answer = "none"
    BY <1>3 DEF f0
  <1>7. CacheTypes'
    BY <1>1, <1>5 DEF CacheInv, CacheTypes, CacheTypeOK, Searching
  <1>8. CachesReal'
    BY <1>1 DEF CacheInv, CachesReal, SnapshotIsReal
  <1>9. Between'
    <2>1. version' = version
      BY <1>1
    <2>2. search'.since = version[f] /\ version'[f0'] = version[f] /\ version[f] <= version[f]
      BY <1>6, <2>1, CacheFacts
    <2>3. search'.since <= version'[f0']
      BY <2>2, Zenon
    <2>4. QED
      BY <1>2, <1>6, <2>3 DEF Between
  <1>10. Informed'
    BY <1>2, <1>6 DEF Informed
  <1>11. Planned'
    BY <1>2, <1>6 DEF Planned, Table
  <1>12. QED
    BY <1>7, <1>8, <1>9, <1>10, <1>11 DEF CacheInv

LEMMA CacheStep == CacheInv /\ [CacheNext]_cacheVars => CacheInv'
  <1> SUFFICES ASSUME CacheInv, [CacheNext]_cacheVars PROVE CacheInv'
    OBVIOUS
  <1>1. CASE UNCHANGED cacheVars
    BY <1>1 DEF cacheVars, CacheInv, CacheTypes, CacheTypeOK, CachesReal, SnapshotIsReal, Between,
       Informed, Loaded, Planned, f0
  <1>2. ASSUME NEW f \in Table, WriteTable(f) PROVE CacheInv'
    BY <1>2, WriteKeeps
  <1>3. CASE \/ \E legacy \in BOOLEAN : Begin("stack", legacy, "variant")
             \/ Begin("product", FALSE, "fit") \/ Begin("product", FALSE, "keywords")
    BY <1>3, BeginKeeps DEF Table
  <1>4. CASE SearchStep
    BY <1>4, StatKeeps, BeforeKeeps, ReadKeeps, AfterKeeps, PickKeeps, FitKeeps, RankKeeps,
       DetectKeeps, KeywordsKeep DEF SearchStep
  <1>5. QED
    BY <1>1, <1>2, <1>3, <1>4 DEF CacheNext

\* What is ranked under the choice for a kind of query is of one generation.
LEMMA OneGenerationIsShown ==
  ASSUME NEW statuses, NEW legacy \in BOOLEAN,
         NEW variant \in (IF legacy THEN {"legacy-only", "legacy-unavailable"} ELSE {"current-only", "non-legacy"}),
         Filter(statuses, variant) # {}
  PROVE  IF legacy THEN Filter(statuses, variant) = {"deprecated"}
         ELSE "deprecated" \notin Filter(statuses, variant)
  BY DEF Filter

LEMMA CacheInvSuffices == CacheInv => CacheSound
  <1> SUFFICES ASSUME CacheInv PROVE CacheSound
    OBVIOUS
  <1>1. search \in Searching /\ search.rows[1] \in Nat /\ search.since \in Nat
    BY CacheFacts DEF Searching
  <1>2. CacheTypeOK /\ SnapshotIsReal /\ IndexFits
    BY DEF CacheInv, CacheTypes, CachesReal, Informed, IndexFits
  <1>3. ASSUME search.answer = "rows"
        PROVE  /\ search.fitted[1] = search.sig /\ search.sig >= search.since /\ search.rows[1] = search.sig
               /\ search.then = "fit" /\ Filter(StatusesIn[search.sig], search.variant) # {}
    BY <1>1, <1>3 DEF CacheInv, Informed, Loaded
  <1>4. AnswerIsFresh
    BY <1>3 DEF AnswerIsFresh, CacheInv, Planned
  <1>5. OneGeneration
    <2>1. ASSUME search.answer = "rows", f0 = "stack"
          PROVE  search.variant \in (IF search.legacy THEN {"legacy-only", "legacy-unavailable"}
                                                       ELSE {"current-only", "non-legacy"})
      BY <1>3, <2>1 DEF CacheInv, Informed
    <2>2. search.legacy \in BOOLEAN
      BY <1>1 DEF Searching
    <2>3. QED
      BY <1>3, <2>1, <2>2, OneGenerationIsShown DEF OneGeneration, f0
  <1>6. QED
    BY <1>2, <1>4, <1>5 DEF CacheSound

\* Whoever writes the tables while a process searches them: what a search answers with
\* is what a table was at one moment of the search, of one generation of the
\* framework, ranked by an index of those very rows (core.py, _load_csv_snapshot,
\* _search_csv_detailed, _domain_keywords).
THEOREM CacheAlwaysSound == CacheSpec => []CacheSound
  <1>1. CacheSpec => []CacheInv
    BY CacheStart, CacheStep, PTL DEF CacheSpec
  <1>2. QED
    BY <1>1, CacheInvSuffices, PTL

-----------------------------------------------------------------------------
(***************************************************************************)
(* DataAudit: by the end of each phase the faults it looks for have been   *)
(* reported, or a report of the same file hides them.                      *)
(***************************************************************************)

Phases == {"data", "domains", "stacks", "reasoning", "contracts", "catalogs", "judge", "provenance",
           "report", "exit0", "exit1", "crashed"}
PastData == Phases \ {"data"}
PastDomains == PastData \ {"domains", "crashed"}
PastStacks == PastDomains \ {"stacks"}
PastReasoning == PastStacks \ {"reasoning"}
PastContracts == PastReasoning \ {"contracts"}
PastCatalogs == PastContracts \ {"catalogs"}
PastJudge == PastCatalogs \ {"judge"}
PastProvenance == PastJudge \ {"provenance"}

\* The report says that the file cannot be used at all.
Named(t) == \E g \in problems : g.of = t /\ g.what \in {"missing", "unreadable", "invalid", "array"}
Reported(f) == f \in problems \/ Named(f.of)
Explained(f) == f \in problems \/ Shadows(f) \cap problems # {}
InFile(f) == f.what \in {"missing", "unreadable", "columns", "duplicate"}
\* Told when the catalogs are loaded, and when they are judged.
OfCatalogs(f) == /\ f.of \in Catalog \cup {"refresh"}
                 /\ f.what \in {"missing", "encoding", "invalid", "array", "incomplete"}
Judged(f) == \/ f.of \in Catalog /\ f.what \in {"contract", "source", "metadata"}
             \/ f.of = "fonts" /\ f.what = "contract"
             \/ f.what = "uncatalogued"

AuditTypes ==
  /\ auditAt \in Phases /\ faults \subseteq Fault /\ problems \subseteq faults
  /\ auditAt = "data" => problems = {}
HeldRows ==
  /\ auditAt \in PastDomains => Readable(DomainTable) \subseteq loaded
  /\ auditAt \in PastStacks => Readable({"stack"}) \subseteq loaded
  /\ auditAt \in PastReasoning => Readable({"reasoning"}) \subseteq loaded
FilesTold ==
  \A f \in faults : InFile(f) =>
    /\ auditAt \in PastDomains /\ f.of \in DomainTable => Reported(f)
    /\ auditAt \in PastStacks /\ f.of = "stack" => Reported(f)
    /\ auditAt \in PastReasoning /\ f.of = "reasoning" => Reported(f)
ContractsTold ==
  auditAt \in PastContracts =>
    \A f \in faults : f.of \in AuditTable \ {"fonts"} /\ f.what = "contract" => Reported(f)
CatalogsTold ==
  auditAt \in PastCatalogs =>
    /\ parsed = {j \in Catalog : ~Unparsed(j)}
    /\ \A f \in faults : OfCatalogs(f) => Reported(f)
JudgedTold ==
  auditAt \in PastJudge =>
    /\ \A f \in faults : Judged(f) => Explained(f)
    /\ SummaryCrashes => Unparsed("summary")
ProvenanceTold ==
  auditAt \in PastProvenance =>
    \A f \in faults : /\ f.of = "provenance" => Reported(f)
                      /\ f.what = "numbering" => Reported(f) \/ Unparsed("provenance")
\* What ended the audit early.
CrashCaused ==
  auditAt = "crashed" =>
    \/ \E f \in faults : f.what \notin {"missing", "unreadable"}
    \/ /\ SummaryCrashes /\ ~Unparsed("summary")
       /\ \A f \in faults : OfCatalogs(f) \/ (f.of \in AuditTable /\ InFile(f)) => Reported(f)
Exits ==
  /\ auditAt = "exit0" => problems = {}
  /\ auditAt = "exit1" => problems # {}

AuditInv == /\ AuditTypes /\ HeldRows /\ FilesTold /\ ContractsTold /\ CatalogsTold
            /\ JudgedTold /\ ProvenanceTold /\ CrashCaused /\ Exits

LEMMA FaultsAreFound ==
  ASSUME AuditTypes
  PROVE  /\ \A f \in faults : Has(f.of, f.what)
         /\ \A t, w : Has(t, w) => \E f \in faults : f.of = t /\ f.what = w
         /\ \A f \in faults : \/ f.of \in AuditTable \/ OfCatalogs(f) \/ Judged(f) \/ f.of = "provenance"
         /\ \A f \in faults : f.of \in {"provenance", "refresh"} => ~Judged(f)
         /\ \A f \in faults : f.what = "numbering" => f.of \in {"style", "reasoning"}
         /\ \A f \in faults : f.of \in AuditTable =>
              InFile(f) \/ f.what \in {"contract", "numbering", "uncatalogued"}
         /\ \A f \in faults : f.what = "uncatalogued" => f.of \in {"typography", "icons"}
         /\ \A f \in faults : f.what = "unreadable" => f.of \in AuditTable
         /\ \A f \in faults : f.what \in {"invalid", "array"} => f.of \notin AuditTable
         /\ \A f \in faults : f.of = "refresh" => f.what = "incomplete"
  <1>1. \A f \in faults : f \in Fault
    BY DEF AuditTypes
  <1>2. \A f \in Fault : f = [of |-> f.of, what |-> f.what]
    BY DEF Fault
  <1>3. \A t, w : Has(t, w) => \E f \in faults : f.of = t /\ f.what = w
    BY DEF Has
  <1>4. \A f \in faults : Has(f.of, f.what)
    BY <1>1, <1>2 DEF Has
  <1>5. QED
    BY <1>1, <1>3, <1>4 DEF Fault, AuditTable, DomainTable, Catalog, InFile, OfCatalogs, Judged

\* Reports are only added to.
LEMMA StaysReported ==
  ASSUME faults' = faults, problems \subseteq problems'
  PROVE  \A f \in faults : Reported(f) => Reported(f)'
  BY DEF Reported, Named

LEMMA StaysExplained ==
  ASSUME faults' = faults, problems \subseteq problems'
  PROVE  \A f \in faults : Explained(f) => Explained(f)'
  BY DEF Explained, Shadows

\* A report on a file explains what it hides of that file.
LEMMA ReportExplains ==
  ASSUME AuditTypes
  PROVE  /\ \A f \in faults : Reported(f) => Explained(f)
         /\ \A t \in AuditTable : Named(t) =>
              \E g \in problems \cap Fault : g.of = t /\ g.what \in {"missing", "unreadable"}
         /\ \A t : Named(t) /\ t \notin AuditTable =>
              \E g \in problems \cap Fault : g.of = t /\ g.what \in {"missing", "invalid", "array"}
  <1>1. \A t : Named(t) => \E g \in problems \cap Fault :
              g \in faults /\ g.of = t /\ g.what \in {"missing", "unreadable", "invalid", "array"}
    BY DEF Named, AuditTypes
  <1>2. \A f \in faults : Reported(f) => Explained(f)
    BY <1>1 DEF Reported, Explained, Shadows
  <1>3. QED
    BY <1>1, <1>2, FaultsAreFound

\* What a table's file has wrong with it is told by _check_file, or hidden by what it tells.
LEMMA CheckFileTells ==
  ASSUME AuditTypes, faults' = faults, NEW t, FileProblems(t) \subseteq problems'
  PROVE  \A f \in faults : f.of = t /\ InFile(f) => Reported(f)'
  <1>1. SUFFICES ASSUME NEW f \in faults, f.of = t, InFile(f), f \notin FileProblems(t)
                 PROVE  Named(t)'
    BY DEF Reported
  <1>2. CASE Has(t, "missing")
    <2>1. PICK g \in faults : g.of = t /\ g.what = "missing"
      BY <1>2, FaultsAreFound
    <2>2. g \in FileProblems(t)
      BY <1>2, <2>1 DEF FileProblems
    <2>3. QED
      BY <1>1, <2>1, <2>2 DEF Named
  <1>3. CASE ~Has(t, "missing") /\ Has(t, "unreadable")
    <2>1. PICK g \in faults : g.of = t /\ g.what = "unreadable"
      BY <1>3, FaultsAreFound
    <2>2. g \in FileProblems(t)
      BY <1>3, <2>1 DEF FileProblems
    <2>3. QED
      BY <1>1, <2>1, <2>2 DEF Named
  <1>4. CASE ~Has(t, "missing") /\ ~Has(t, "unreadable")
    <2>1. f.what # "missing" /\ f.what # "unreadable"
      BY <1>1, <1>4, FaultsAreFound
    <2>2. QED
      BY <1>1, <1>4, <2>1 DEF FileProblems, InFile
  <1>5. QED
    BY <1>2, <1>3, <1>4

\* A fault of a table that is not held is hidden by what is said of its file.
LEMMA UnreadIsNamed ==
  ASSUME AuditTypes, FilesTold, auditAt \in PastReasoning,
         NEW f \in faults, f.of \in AuditTable, Unread(f.of)
  PROVE  Named(f.of)
  <1>1. PICK g \in faults : g.of = f.of /\ g.what \in {"missing", "unreadable"}
    BY FaultsAreFound DEF Unread
  <1>2. Reported(g)
    BY <1>1 DEF FilesTold, InFile, AuditTable, PastReasoning, PastStacks, PastDomains
  <1>3. QED
    BY <1>1, <1>2 DEF Reported, Named

\* The phases in their order.
LEMMA PhaseOrder ==
  /\ "stacks" \in PastDomains \ PastStacks
  /\ "reasoning" \in PastStacks \ PastReasoning
  /\ "contracts" \in PastReasoning \ PastContracts
  /\ "catalogs" \in PastContracts \ PastCatalogs
  /\ "crashed" \in Phases \ PastDomains
  /\ "judge" \in PastCatalogs \ PastJudge
  /\ "provenance" \in PastJudge \ PastProvenance
  /\ "report" \in PastProvenance /\ "exit0" \in PastProvenance /\ "exit1" \in PastProvenance
  /\ "data" \notin PastDomains /\ "domains" \notin PastDomains
  /\ PastProvenance \subseteq PastJudge /\ PastJudge \subseteq PastCatalogs
  /\ PastCatalogs \subseteq PastContracts /\ PastContracts \subseteq PastReasoning
  /\ PastReasoning \subseteq PastStacks /\ PastStacks \subseteq PastDomains /\ PastDomains \subseteq Phases
  BY DEF PastProvenance, PastJudge, PastCatalogs, PastContracts, PastReasoning, PastStacks, PastDomains,
     PastData, Phases

LEMMA AuditStart == AuditInit => AuditInv
  BY PhaseOrder DEF AuditInit, AuditInv, AuditTypes, HeldRows, FilesTold, ContractsTold, CatalogsTold,
     JudgedTold, ProvenanceTold, CrashCaused, Exits, Phases

LEMMA GiveDataKeeps == ASSUME AuditInv, GiveData PROVE AuditInv'
  <1>1. PICK f \in Fault, g \in Fault : faults' \in {{}, {f}, {f, g}}
    BY DEF GiveData
  <1>2. faults' \subseteq Fault /\ problems' = {} /\ auditAt' = "domains"
    BY <1>1 DEF GiveData, AuditInv, AuditTypes
  <1>3. QED
    BY <1>2, PhaseOrder DEF AuditInv, AuditTypes, HeldRows, FilesTold, ContractsTold, CatalogsTold,
       JudgedTold, ProvenanceTold, CrashCaused, Exits, Phases

LEMMA DomainsKeep == ASSUME AuditInv, CheckDomains PROVE AuditInv'
  <1>1. /\ AuditTypes /\ auditAt' = "stacks" /\ faults' = faults /\ loaded' = Readable(DomainTable)
        /\ problems' = problems \cup UNION {FileProblems(t) : t \in DomainTable}
    BY DEF AuditInv, CheckDomains, Tell, ToPhase
  <1>2. AuditTypes'
    BY <1>1 DEF AuditTypes, FileProblems, Phases
  <1>3. \A t \in DomainTable : FileProblems(t) \subseteq problems'
    BY <1>1
  <1>4. \A f \in faults : f.of \in DomainTable /\ InFile(f) => Reported(f)'
    BY <1>1, <1>3, CheckFileTells
  <1>5. FilesTold'
    BY <1>1, <1>4, PhaseOrder DEF FilesTold, InFile
  <1>6. HeldRows'
    BY <1>1, PhaseOrder DEF HeldRows, Readable, Unread, Has
  <1>7. QED
    BY <1>1, <1>2, <1>5, <1>6, PhaseOrder DEF AuditInv, ContractsTold, CatalogsTold,
       JudgedTold, ProvenanceTold, CrashCaused, Exits

\* A crash takes nothing back; it needs a cause.
LEMMA CrashKeeps ==
  ASSUME AuditInv, Crash, CrashCaused'
  PROVE  AuditInv'
  BY PhaseOrder DEF Crash, AuditInv, AuditTypes, HeldRows, FilesTold, ContractsTold, CatalogsTold, JudgedTold,
     ProvenanceTold, Exits

LEMMA RaiseKeeps ==
  ASSUME AuditInv, Crash, NEW f \in faults, f.what \notin {"missing", "unreadable"}
  PROVE  AuditInv'
  <1>1. CrashCaused'
    BY DEF CrashCaused, Crash
  <1>2. QED
    BY <1>1, CrashKeeps

LEMMA StacksKeep == ASSUME AuditInv, CheckStacks PROVE AuditInv'
  <1> DEFINE Faulty == RowProblems(Readable({"stack"}))
  <1>0. CASE MayRaise(Faulty)
    <2>1. Crash /\ \E f \in faults : f.what \notin {"missing", "unreadable"}
      BY <1>0 DEF MayRaise, RowProblems
    <2>2. QED
      BY <2>1, RaiseKeeps
  <1> SUFFICES ASSUME ~MayRaise(Faulty) PROVE AuditInv'
    BY <1>0
  <1>1. /\ AuditTypes /\ auditAt = "stacks" /\ auditAt' = "reasoning" /\ faults' = faults
        /\ loaded' = loaded \cup Readable({"stack"})
        /\ problems' = problems \cup FileProblems("stack") \cup Faulty
    BY DEF AuditInv, CheckStacks, Tell, ToPhase
  <1>2. AuditTypes'
    BY <1>1 DEF AuditTypes, FileProblems, RowProblems, Phases
  <1>3. \A f \in faults : f.of = "stack" /\ InFile(f) => Reported(f)'
    BY <1>1, CheckFileTells
  <1>4. \A f \in faults : f.of \in DomainTable /\ InFile(f) => Reported(f)'
    BY <1>1, StaysReported, PhaseOrder DEF AuditInv, FilesTold
  <1>5. FilesTold'
    BY <1>1, <1>3, <1>4, PhaseOrder DEF FilesTold, InFile
  <1>6. HeldRows'
    BY <1>1, PhaseOrder DEF AuditInv, HeldRows, Readable, Unread, Has
  <1>7. QED
    BY <1>1, <1>2, <1>5, <1>6, PhaseOrder DEF AuditInv, ContractsTold, CatalogsTold,
       JudgedTold, ProvenanceTold, CrashCaused, Exits

LEMMA ReasoningKeeps == ASSUME AuditInv, CheckReasoning PROVE AuditInv'
  <1>1. /\ AuditTypes /\ auditAt = "reasoning" /\ auditAt' = "contracts" /\ faults' = faults
        /\ loaded' = loaded \cup Readable({"reasoning"})
        /\ problems' = problems \cup FileProblems("reasoning")
    BY DEF AuditInv, CheckReasoning, Tell, ToPhase
  <1>2. AuditTypes'
    BY <1>1 DEF AuditTypes, FileProblems, Phases
  <1>3. \A f \in faults : f.of = "reasoning" /\ InFile(f) => Reported(f)'
    BY <1>1, CheckFileTells
  <1>4. \A f \in faults : f.of \in DomainTable \cup {"stack"} /\ InFile(f) => Reported(f)'
    BY <1>1, StaysReported, PhaseOrder DEF AuditInv, FilesTold
  <1>5. FilesTold'
    BY <1>1, <1>3, <1>4, PhaseOrder DEF FilesTold, InFile
  <1>6. HeldRows'
    BY <1>1, PhaseOrder DEF AuditInv, HeldRows, Readable, Unread, Has
  <1>7. QED
    BY <1>1, <1>2, <1>5, <1>6, PhaseOrder DEF AuditInv, ContractsTold, CatalogsTold,
       JudgedTold, ProvenanceTold, CrashCaused, Exits

\* What earlier phases told stays told, and what they hold stays held.
LEMMA LaterPhases ==
  ASSUME AuditInv, auditAt \in PastReasoning, faults' = faults, loaded' = loaded,
         problems \subseteq problems', problems' \subseteq faults, auditAt' \in PastContracts
  PROVE  /\ AuditTypes' /\ HeldRows' /\ FilesTold'
         /\ auditAt \in PastContracts => ContractsTold'
  <1>1. \A f \in faults : Reported(f) => Reported(f)'
    BY StaysReported
  <1>2. AuditTypes' /\ auditAt' \in PastReasoning
    BY PhaseOrder DEF AuditInv, AuditTypes
  <1>3. FilesTold'
    BY <1>1, PhaseOrder DEF AuditInv, FilesTold, InFile
  <1>4. HeldRows'
    BY PhaseOrder DEF AuditInv, HeldRows, Readable, Unread, Has
  <1>5. auditAt \in PastContracts => ContractsTold'
    BY <1>1 DEF AuditInv, ContractsTold
  <1>6. QED
    BY <1>2, <1>3, <1>4, <1>5

\* The rows of a table that can be read are held.
LEMMA RowsAreHeld ==
  ASSUME AuditInv, auditAt \in PastReasoning, NEW t \in AuditTable, t \notin loaded
  PROVE  Unread(t)
  BY PhaseOrder DEF AuditInv, HeldRows, Readable, AuditTable

LEMMA ContractsKeep == ASSUME AuditInv, CheckContracts PROVE AuditInv'
  <1> DEFINE Faulty == RowProblems(loaded \ {"fonts"})
  <1>0. CASE MayRaise(Faulty)
    <2>1. Crash /\ \E f \in faults : f.what \notin {"missing", "unreadable"}
      BY <1>0 DEF MayRaise, RowProblems
    <2>2. QED
      BY <2>1, RaiseKeeps
  <1> SUFFICES ASSUME ~MayRaise(Faulty) PROVE AuditInv'
    BY <1>0
  <1>1. /\ AuditTypes /\ auditAt = "contracts" /\ auditAt' = "catalogs" /\ faults' = faults
        /\ loaded' = loaded /\ problems' = problems \cup Faulty
    BY DEF AuditInv, CheckContracts, Tell, ToPhase
  <1>2. AuditTypes' /\ HeldRows' /\ FilesTold'
    BY <1>1, LaterPhases, PhaseOrder DEF RowProblems, AuditTypes
  <1>3. ASSUME NEW f \in faults, f.of \in AuditTable \ {"fonts"}, f.what = "contract"
        PROVE  Reported(f)'
    <2>1. CASE f.of \in loaded
      BY <1>1, <1>3, <2>1 DEF RowProblems, Reported
    <2>2. CASE f.of \notin loaded
      <3>1. Named(f.of)
        BY <1>1, <1>3, <2>2, RowsAreHeld, UnreadIsNamed, PhaseOrder DEF AuditInv
      <3>2. QED
        BY <1>1, <3>1, StaysReported DEF Reported
    <2>3. QED
      BY <2>1, <2>2
  <1>4. ContractsTold'
    BY <1>1, <1>3 DEF ContractsTold
  <1>5. QED
    BY <1>1, <1>2, <1>4, PhaseOrder DEF AuditInv, CatalogsTold, JudgedTold, ProvenanceTold, CrashCaused, Exits

LEMMA LoadCatalogsKeeps == ASSUME AuditInv, LoadCatalogs PROVE AuditInv'
  <1>1. AuditTypes /\ auditAt = "catalogs" /\ auditAt \in PastContracts
    BY PhaseOrder DEF AuditInv, LoadCatalogs
  <1>2. CASE (\E j \in Catalog : Has(j, "encoding") /\ ~Has(j, "missing")) /\ Crash
    <2>1. \E f \in faults : f.what = "encoding"
      BY <1>1, <1>2, FaultsAreFound
    <2>2. QED
      BY <1>2, <2>1, RaiseKeeps
  <1>3. CASE ~((\E j \in Catalog : Has(j, "encoding") /\ ~Has(j, "missing")) /\ Crash)
    <2> DEFINE Told == {f \in faults : f.of \in Catalog \cup {"refresh"}
                         /\ \/ f.what \in {"missing", "incomplete"}
                            \/ f.what \in {"invalid", "array"} /\ ~Has(f.of, "missing")}
    <2>1. /\ \A j \in Catalog : Has(j, "encoding") => Has(j, "missing")
          /\ auditAt' = "judge" /\ faults' = faults /\ loaded' = loaded
          /\ parsed' = {j \in Catalog : ~Unparsed(j)} /\ problems' = problems \cup Told
      BY <1>3 DEF LoadCatalogs, Tell, ToPhase
    <2>2. AuditTypes' /\ HeldRows' /\ FilesTold' /\ ContractsTold'
      BY <1>1, <2>1, LaterPhases, PhaseOrder DEF AuditTypes
    <2>3. ASSUME NEW f \in faults, OfCatalogs(f)
          PROVE  Reported(f)'
      <3>1. CASE f \in Told
        BY <2>1, <3>1 DEF Reported
      <3>2. CASE f \notin Told
        <4>1. Has(f.of, f.what) /\ f.what \in {"invalid", "array", "encoding"}
              /\ (f.what # "encoding" => Has(f.of, "missing"))
          BY <1>1, <2>3, <3>2, FaultsAreFound DEF OfCatalogs
        <4>2. f.what = "encoding" => f.of \in Catalog
          BY <1>1, <2>3, FaultsAreFound DEF OfCatalogs
        <4>3. Has(f.of, "missing")
          BY <2>1, <4>1, <4>2
        <4>4. PICK g \in faults : g.of = f.of /\ g.what = "missing"
          BY <1>1, <4>3, FaultsAreFound
        <4>5. g \in Told
          BY <2>3, <4>4 DEF OfCatalogs
        <4>6. QED
          BY <2>1, <4>4, <4>5 DEF Reported, Named
      <3>3. QED
        BY <3>1, <3>2
    <2>4. parsed' = {j \in Catalog : ~Unparsed(j)'}
      BY <2>1 DEF Unparsed, Has
    <2>5. CatalogsTold'
      BY <2>1, <2>3, <2>4 DEF CatalogsTold
    <2>6. QED
      BY <2>1, <2>2, <2>5, PhaseOrder DEF AuditInv, JudgedTold, ProvenanceTold, CrashCaused, Exits
  <1>4. QED
    BY <1>2, <1>3

\* What is judged against a JSON file is told, or explained by what is told of that
\* file, of the rows or of the counts.
LEMMA JudgedIsTold ==
  ASSUME AuditInv, auditAt = "judge", faults' = faults,
         problems' = problems \cup (FontProblems \cup PhosphorProblems \cup SummaryProblems),
         NEW f \in faults, Judged(f)
  PROVE  Explained(f)'
  <1>1. /\ AuditTypes /\ auditAt \in PastReasoning /\ FilesTold
        /\ parsed = {j \in Catalog : ~Unparsed(j)}
        /\ \A g \in faults : OfCatalogs(g) => Reported(g)
    BY PhaseOrder DEF AuditInv, CatalogsTold
  <1>2. \A j \in Catalog \ parsed : \E g \in problems \cap Fault :
          g.of = j /\ g.what \in {"missing", "invalid", "array"}
    <2>1. SUFFICES ASSUME NEW j \in Catalog \ parsed PROVE Named(j) /\ j \notin AuditTable
      BY <1>1, ReportExplains
    <2>2. PICK g \in faults : g.of = j /\ g.what \in {"missing", "invalid", "array"}
      BY <1>1, <2>1, FaultsAreFound DEF Unparsed
    <2>3. Reported(g)
      BY <1>1, <2>2 DEF OfCatalogs
    <2>4. QED
      BY <2>2, <2>3 DEF Reported, Named, Catalog, AuditTable, DomainTable
  <1>3. \A t \in AuditTable \ loaded : \E g \in problems \cap Fault : g.of = t /\ g.what \in {"missing", "unreadable"}
    <2>1. SUFFICES ASSUME NEW t \in AuditTable \ loaded PROVE Named(t)
      BY <1>1, ReportExplains
    <2>2. PICK g \in faults : g.of = t /\ (g.what = "missing" \/ g.what = "unreadable")
      BY <1>1, <2>1, RowsAreHeld, FaultsAreFound DEF Unread
    <2>3. QED
      BY <1>1, <2>1, <2>2, UnreadIsNamed, RowsAreHeld
  <1>4. \A j \in {"licenses", "phosphor"} \cap parsed : Has(j, "metadata") =>
          \E g \in problems' \cap Fault : g.of = j /\ g.what = "metadata"
    <2>1. SUFFICES ASSUME NEW g \in faults, g.of \in {"licenses", "phosphor"} \cap parsed, g.what = "metadata"
                   PROVE  g \in problems' /\ g \in Fault
      BY <1>1, FaultsAreFound
    <2>2. g \in FontProblems \/ g \in PhosphorProblems
      BY <2>1 DEF FontProblems, PhosphorProblems
    <2>3. QED
      BY <1>1, <2>2 DEF AuditTypes
  <1>5. \A g \in Fault : g \in problems' /\ g \in Shadows(f) => Explained(f)'
    BY DEF Explained, Shadows
  <1>6. /\ \A t \in {"fonts", "typography", "icons"} : t \in AuditTable
        /\ \A j \in {"licenses", "phosphor", "summary"} : j \in Catalog
    BY DEF AuditTable, DomainTable, Catalog
  <1>7. CASE f \in FontProblems \cup PhosphorProblems \cup SummaryProblems
    BY <1>7 DEF Explained
  <1>8. ASSUME f \notin FontProblems \cup PhosphorProblems \cup SummaryProblems
        PROVE  \E g \in problems' \cap Fault : g \in Shadows(f)
    <2>1. CASE f.of = "licenses"
      <3>1. \/ "licenses" \notin parsed
            \/ "licenses" \in parsed /\ Has("licenses", "metadata")
            \/ "fonts" \notin loaded
        BY <1>8, <2>1, FaultsAreFound, <1>1 DEF FontProblems, Judged
      <3>2. QED
        BY <1>2, <1>3, <1>4, <1>6, <2>1, <3>1 DEF Shadows
    <2>2. CASE f.of = "fonts" /\ f.what = "contract"
      <3>1. "licenses" \notin parsed \/ "fonts" \notin loaded
        BY <1>8, <2>2 DEF FontProblems
      <3>2. QED
        BY <1>2, <1>3, <1>6, <2>2, <3>1 DEF Shadows
    <2>3. CASE f.of = "typography" /\ f.what = "uncatalogued"
      <3>1. \/ "licenses" \notin parsed
            \/ "licenses" \in parsed /\ Has("licenses", "metadata")
            \/ "fonts" \notin loaded \/ "typography" \notin loaded
        BY <1>8, <2>3 DEF FontProblems
      <3>2. QED
        BY <1>2, <1>3, <1>4, <1>6, <2>3, <3>1 DEF Shadows
    <2>4. CASE f.of = "phosphor"
      <3>1. "phosphor" \notin parsed \/ ("phosphor" \in parsed /\ Has("phosphor", "metadata"))
        BY <1>8, <2>4, FaultsAreFound, <1>1 DEF PhosphorProblems, Judged
      <3>2. QED
        BY <1>2, <1>4, <1>6, <2>4, <3>1 DEF Shadows
    <2>5. CASE f.of = "icons" /\ f.what = "uncatalogued"
      <3>1. \/ "phosphor" \notin parsed
            \/ "phosphor" \in parsed /\ Has("phosphor", "metadata")
            \/ "icons" \notin loaded
        BY <1>8, <2>5 DEF PhosphorProblems
      <3>2. QED
        BY <1>2, <1>3, <1>4, <1>6, <2>5, <3>1 DEF Shadows
    <2>6. CASE f.of = "summary"
      <3>1. f.what = "contract" /\ "summary" \notin parsed
        BY <1>1, <1>8, <2>6 DEF SummaryProblems, Judged, AuditTypes, Fault
      <3>2. QED
        BY <1>2, <1>6, <2>6, <3>1 DEF Shadows
    <2>7. QED
      BY <1>1, <2>1, <2>2, <2>3, <2>4, <2>5, <2>6, FaultsAreFound DEF Judged, Catalog
  <1>9. QED
    BY <1>5, <1>7, <1>8

LEMMA JudgeKeeps == ASSUME AuditInv, JudgeCatalogs PROVE AuditInv'
  <1>1. /\ AuditTypes /\ auditAt = "judge" /\ auditAt \in PastContracts
        /\ parsed = {j \in Catalog : ~Unparsed(j)}
        /\ \A f \in faults : OfCatalogs(f) => Reported(f)
    BY PhaseOrder DEF AuditInv, JudgeCatalogs, CatalogsTold
  <1>2. CASE MayRaise(FontProblems \cup PhosphorProblems)
    <2>1. Crash /\ \E f \in faults : f.what \notin {"missing", "unreadable"}
      BY <1>2 DEF MayRaise, FontProblems, PhosphorProblems
    <2>2. QED
      BY <2>1, RaiseKeeps
  <1>3. CASE "summary" \in parsed /\ SummaryCrashes /\ Crash
    <2>1. ~Unparsed("summary")
      BY <1>1, <1>3 DEF Catalog
    <2>2. \A f \in faults : f.of \in AuditTable /\ InFile(f) => Reported(f)
      BY <1>1, PhaseOrder DEF AuditInv, FilesTold, AuditTable
    <2>3. faults' = faults /\ problems' = problems
      BY <1>3 DEF Crash
    <2>4. \A f \in faults : Reported(f)' = Reported(f)
      BY <2>3 DEF Reported, Named
    <2>5. SummaryCrashes' = SummaryCrashes /\ Unparsed("summary")' = Unparsed("summary")
      BY <2>3 DEF SummaryCrashes, SummaryNeeds, Unread, Unparsed, Has
    <2>6. CrashCaused'
      BY <1>1, <1>3, <2>1, <2>2, <2>3, <2>4, <2>5 DEF CrashCaused, OfCatalogs, InFile
    <2>7. QED
      BY <1>3, <2>6, CrashKeeps
  <1>4. CASE ~Crash
    <2> DEFINE Told == FontProblems \cup PhosphorProblems \cup SummaryProblems
    <2>1. /\ "summary" \notin parsed \/ ~SummaryCrashes
          /\ auditAt' = "provenance" /\ faults' = faults /\ loaded' = loaded /\ parsed' = parsed
          /\ problems' = problems \cup Told
      BY <1>4 DEF JudgeCatalogs, MayRaise, Tell, ToPhase
    <2>2. Told \subseteq faults
      BY DEF FontProblems, PhosphorProblems, SummaryProblems
    <2>3. AuditTypes' /\ HeldRows' /\ FilesTold' /\ ContractsTold'
      BY <1>1, <2>1, <2>2, LaterPhases, PhaseOrder DEF AuditTypes
    <2>4. \A f \in faults : Reported(f) => Reported(f)'
      BY <2>1, StaysReported
    <2>5. \A f \in faults : Judged(f) => Explained(f)'
      BY <1>1, <2>1, JudgedIsTold
    <2>6. CatalogsTold'
      BY <1>1, <2>1, <2>4 DEF CatalogsTold, Unparsed, Has, OfCatalogs
    <2>7. SummaryCrashes => Unparsed("summary")
      BY <1>1, <2>1 DEF Catalog
    <2>8. JudgedTold'
      BY <2>1, <2>5, <2>7 DEF JudgedTold, SummaryCrashes, SummaryNeeds, Unread, Unparsed, Has, Judged
    <2>9. QED
      BY <2>1, <2>3, <2>6, <2>8, PhaseOrder DEF AuditInv, ProvenanceTold, CrashCaused, Exits
  <1>5. QED
    BY <1>2, <1>3, <1>4 DEF JudgeCatalogs, MayRaise, Crash, ToPhase

LEMMA ProvenanceKeeps == ASSUME AuditInv, CheckProvenance PROVE AuditInv'
  <1>1. /\ AuditTypes /\ auditAt = "provenance" /\ auditAt \in PastContracts /\ auditAt \in PastReasoning
        /\ CatalogsTold /\ JudgedTold /\ FilesTold
    BY PhaseOrder DEF AuditInv, CheckProvenance
  <1> DEFINE Told == {f \in faults : f.of = "provenance"}
             Ends(S) == /\ auditAt' = "report" /\ faults' = faults /\ loaded' = loaded /\ parsed' = parsed
                        /\ problems' = problems \cup S
  <1>2. \/ (NotText \/ (~Unparsed("provenance") /\ (BadNumber \/ LacksColumn \/ CountsArray))) /\ Crash
        \/ ~Unparsed("provenance") /\ MayRaise(Told)
        \/ ~NotText /\ Unparsed("provenance") /\ Ends(UnparsedProblems)
        \/ ~Unparsed("provenance") /\ ~BadNumber /\ Ends(Told)
    BY DEF CheckProvenance, Tell, ToPhase
  <1>3. ASSUME NEW S \in SUBSET faults, Ends(S), \A f \in faults : f.of = "provenance" => Reported(f)',
               \A f \in faults : f.what = "numbering" => Reported(f)' \/ Unparsed("provenance")
        PROVE  AuditInv'
    <2>1. AuditTypes' /\ HeldRows' /\ FilesTold' /\ ContractsTold'
      BY <1>1, <1>3, LaterPhases, PhaseOrder DEF AuditTypes
    <2>2. \A f \in faults : /\ Reported(f) => Reported(f)'
                            /\ Explained(f) => Explained(f)'
      BY <1>3, StaysReported, StaysExplained
    <2>3. \A t : Unread(t)' = Unread(t) /\ Unparsed(t)' = Unparsed(t)
      BY <1>3 DEF Unread, Unparsed, Has
    <2>4. SummaryCrashes' = SummaryCrashes
      BY <1>3 DEF SummaryCrashes, SummaryNeeds, Unread, Has
    <2>5. CatalogsTold'
      BY <1>1, <1>3, <2>2, <2>3, PhaseOrder DEF CatalogsTold, OfCatalogs
    <2>6. JudgedTold'
      BY <1>1, <1>3, <2>2, <2>3, <2>4, PhaseOrder DEF JudgedTold, Judged
    <2>7. ProvenanceTold'
      BY <1>3, <2>3 DEF ProvenanceTold
    <2>8. QED
      BY <1>3, <2>1, <2>5, <2>6, <2>7 DEF AuditInv, CrashCaused, Exits
  <1>4. CASE (NotText \/ (~Unparsed("provenance") /\ (BadNumber \/ LacksColumn \/ CountsArray))) /\ Crash
    <2>1. \E f \in faults : f.what \in {"encoding", "numbering", "columns", "array"}
      BY <1>1, <1>4, FaultsAreFound DEF NotText, BadNumber, LacksColumn, CountsArray
    <2>2. QED
      BY <1>4, <2>1, RaiseKeeps
  <1>5. CASE ~Unparsed("provenance") /\ MayRaise(Told)
    <2>1. PICK f \in faults : f.of = "provenance"
      BY <1>5 DEF MayRaise
    <2>2. f.what # "missing" /\ f.what # "unreadable"
      BY <1>1, <1>5, <2>1, FaultsAreFound DEF Unparsed, AuditTable, DomainTable
    <2>3. QED
      BY <1>5, <2>2, RaiseKeeps DEF MayRaise
  <1>6. CASE ~NotText /\ Unparsed("provenance") /\ Ends(UnparsedProblems)
    <2>1. PICK g \in UnparsedProblems : g.of = "provenance" /\ g.what \in {"missing", "invalid", "array"}
      BY <1>1, <1>6, FaultsAreFound DEF Unparsed, UnparsedProblems
    <2>2. Named("provenance")'
      BY <1>6, <2>1 DEF Named
    <2>3. \A f \in faults : f.of = "provenance" => Reported(f)'
      BY <2>2 DEF Reported
    <2>4. UnparsedProblems \subseteq faults
      BY DEF UnparsedProblems
    <2>5. QED
      BY <1>3, <1>6, <2>3, <2>4
  <1>7. CASE ~Unparsed("provenance") /\ ~BadNumber /\ Ends(Told)
    <2>1. \A f \in faults : f.of = "provenance" => Reported(f)'
      BY <1>7 DEF Reported
    <2>2. ASSUME NEW f \in faults, f.what = "numbering"
          PROVE  Reported(f)'
      <3>1. f.of \in {"style", "reasoning"} /\ Has(f.of, "numbering")
        BY <1>1, <2>2, FaultsAreFound
      <3>2. f.of \in AuditTable /\ f.of \notin loaded
        BY <1>7, <3>1 DEF BadNumber, AuditTable, DomainTable
      <3>3. Named(f.of)
        BY <1>1, <3>2, RowsAreHeld, UnreadIsNamed
      <3>4. QED
        BY <1>7, <3>3, StaysReported DEF Reported
    <2>3. QED
      BY <1>3, <1>7, <2>1, <2>2
  <1>8. QED
    BY <1>2, <1>4, <1>5, <1>6, <1>7

LEMMA ExitKeeps == ASSUME AuditInv, Exit PROVE AuditInv'
  <1>1. /\ auditAt = "report" /\ faults' = faults /\ loaded' = loaded /\ parsed' = parsed
        /\ problems' = problems /\ auditAt' \in {"exit0", "exit1"}
        /\ auditAt' = "exit0" <=> problems = {}
    BY DEF Exit
  <1>2. AuditTypes' /\ HeldRows' /\ FilesTold' /\ ContractsTold'
    BY <1>1, LaterPhases, PhaseOrder DEF AuditInv, AuditTypes
  <1>3. \A f \in faults : /\ Reported(f) => Reported(f)'
                          /\ Explained(f) => Explained(f)'
    BY <1>1, StaysReported, StaysExplained
  <1>4. \A t : Unread(t)' = Unread(t) /\ Unparsed(t)' = Unparsed(t)
    BY <1>1 DEF Unread, Unparsed, Has
  <1>5. SummaryCrashes' = SummaryCrashes
    BY <1>1 DEF SummaryCrashes, SummaryNeeds, Unread, Has
  <1>6. CatalogsTold'
    BY <1>1, <1>3, <1>4, PhaseOrder DEF AuditInv, CatalogsTold, OfCatalogs
  <1>7. JudgedTold'
    BY <1>1, <1>3, <1>4, <1>5, PhaseOrder DEF AuditInv, JudgedTold, Judged
  <1>8. ProvenanceTold'
    BY <1>1, <1>3, <1>4, PhaseOrder DEF AuditInv, ProvenanceTold
  <1>9. QED
    BY <1>1, <1>2, <1>6, <1>7, <1>8 DEF AuditInv, CrashCaused, Exits

LEMMA AuditStep == AuditInv /\ [AuditNext]_auditVars => AuditInv'
  <1> SUFFICES ASSUME AuditInv, [AuditNext]_auditVars PROVE AuditInv'
    OBVIOUS
  <1>1. CASE AuditNext
    BY <1>1, GiveDataKeeps, DomainsKeep, StacksKeep, ReasoningKeeps, ContractsKeep, LoadCatalogsKeeps, JudgeKeeps,
       ProvenanceKeeps, ExitKeeps DEF AuditNext
  <1>2. CASE UNCHANGED auditVars
    <2>1. AuditTypes' /\ HeldRows'
      BY <1>2 DEF AuditInv, AuditTypes, HeldRows, Readable, Unread, Has, auditVars
    <2>2. FilesTold' /\ ContractsTold'
      BY <1>2 DEF AuditInv, FilesTold, ContractsTold, Reported, Named, auditVars, InFile
    <2>3. CatalogsTold' /\ JudgedTold' /\ ProvenanceTold'
      BY <1>2 DEF AuditInv, CatalogsTold, JudgedTold, ProvenanceTold, Reported, Named, Explained, Shadows, auditVars,
         Unparsed, Unread, Has, SummaryCrashes, SummaryNeeds, OfCatalogs, Judged
    <2>4. CrashCaused' /\ Exits'
      BY <1>2 DEF AuditInv, CrashCaused, Exits, Reported, Named, auditVars, Unparsed, Unread, Has,
         SummaryCrashes, SummaryNeeds, InFile, OfCatalogs
    <2>5. QED
      BY <2>1, <2>2, <2>3, <2>4 DEF AuditInv
  <1>3. QED
    BY <1>1, <1>2

LEMMA AuditAlways == AuditSpec => []AuditInv
  BY AuditStart, AuditStep, PTL DEF AuditSpec

\* At the end every fault is reported, or explained as HidesOnlyItsOwn says.
LEMMA EndTellsAll ==
  ASSUME AuditInv, auditAt \in {"exit0", "exit1"}, NEW f \in faults
  PROVE  Explained(f)
  <1>1. /\ auditAt \in PastProvenance /\ auditAt \in PastJudge /\ auditAt \in PastCatalogs
        /\ auditAt \in PastContracts /\ auditAt \in PastReasoning /\ auditAt \in PastStacks
        /\ auditAt \in PastDomains
    BY PhaseOrder
  <1>2. AuditTypes /\ (Reported(f) => Explained(f))
    BY ReportExplains DEF AuditInv
  <1>3. CASE Judged(f)
    BY <1>1, <1>3 DEF AuditInv, JudgedTold
  <1>4. CASE f.of \in AuditTable /\ InFile(f)
    BY <1>1, <1>2, <1>4 DEF AuditInv, FilesTold, AuditTable
  <1>5. CASE f.of \in AuditTable /\ f.what = "contract" /\ ~Judged(f)
    BY <1>1, <1>2, <1>5 DEF AuditInv, ContractsTold, Judged
  <1>6. CASE f.what = "numbering"
    <2>1. CASE Reported(f)
      BY <1>2, <2>1
    <2>2. CASE Unparsed("provenance")
      <3>1. PICK g \in faults : g.of = "provenance" /\ g.what \in {"missing", "invalid", "array"}
        BY <1>2, <2>2, FaultsAreFound DEF Unparsed
      <3>2. Named("provenance")
        BY <1>1, <3>1 DEF AuditInv, ProvenanceTold, Reported, Named
      <3>3. \E h \in problems \cap Fault : h.of = "provenance" /\ h.what \in {"missing", "invalid", "array"}
        BY <1>2, <3>2, ReportExplains DEF AuditTable, DomainTable
      <3>4. QED
        BY <1>6, <3>3 DEF Explained, Shadows
    <2>3. QED
      BY <1>1, <1>6, <2>1, <2>2 DEF AuditInv, ProvenanceTold
  <1>7. CASE f.of = "provenance"
    BY <1>1, <1>2, <1>7 DEF AuditInv, ProvenanceTold
  <1>8. CASE OfCatalogs(f)
    BY <1>1, <1>2, <1>8 DEF AuditInv, CatalogsTold
  <1>9. QED
    BY <1>2, <1>3, <1>4, <1>5, <1>6, <1>7, <1>8, FaultsAreFound DEF Judged

LEMMA EndIsRight == AuditInv => AcceptsOnlySound /\ HidesOnlyItsOwn
  <1> SUFFICES ASSUME AuditInv PROVE AcceptsOnlySound /\ HidesOnlyItsOwn
    OBVIOUS
  <1>1. AuditTypes /\ Exits /\ CrashCaused
    BY DEF AuditInv
  <1>2. ASSUME auditAt = "exit0" PROVE faults = {}
    <2>1. problems = {}
      BY <1>1, <1>2 DEF Exits
    <2>2. QED
      BY <1>2, <2>1, EndTellsAll DEF Explained
  <1>3. auditAt = "exit1" => faults # {}
    BY <1>1 DEF Exits, AuditTypes
  <1>4. ASSUME auditAt = "crashed" PROVE faults # {}
    <2>1. SUFFICES ASSUME SummaryCrashes PROVE faults # {}
      BY <1>1, <1>4 DEF CrashCaused
    <2>2. QED
      BY <2>1 DEF SummaryCrashes, Unread, Has
  <1>5. AcceptsOnlySound
    BY <1>2, <1>3, <1>4 DEF AcceptsOnlySound
  <1>6. HidesOnlyItsOwn
    BY EndTellsAll DEF HidesOnlyItsOwn, Explained
  <1>7. QED
    BY <1>5, <1>6

\* One missing or unreadable file.
LEMMA LossIsKnown == AuditInv => LosesReport
  <1> SUFFICES ASSUME AuditInv, NEW f \in faults, faults = {f}, f.what \in {"missing", "unreadable"},
                      auditAt \in {"exit1", "crashed"}
               PROVE  /\ f \in problems
                      /\ auditAt = "crashed" <=> f.of \notin {"landing", "platform", "summary", "provenance"}
    BY DEF LosesReport
  <1>1. AuditTypes /\ Exits /\ CrashCaused /\ JudgedTold
    BY DEF AuditInv
  <1>2. \A t, w : Has(t, w) => t = f.of /\ w = f.what
    BY <1>1, FaultsAreFound
  <1>3. Has(f.of, f.what)
    BY <1>1, FaultsAreFound
  <1>4. f.of \in AuditTable \/ f.of \in Catalog \cup {"provenance"}
    BY <1>1, FaultsAreFound DEF OfCatalogs, Judged
  <1>5. f.what = "unreadable" => f.of \in AuditTable
    BY <1>1, FaultsAreFound
  <1>6. Reported(f) => f \in problems
    BY <1>1 DEF Reported, Named, AuditTypes
  <1>7. CASE auditAt = "exit1"
    <2>1. f \in problems
      BY <1>1, <1>7 DEF Exits, AuditTypes
    <2>2. SummaryCrashes => Unparsed("summary")
      BY <1>1, <1>7, PhaseOrder DEF JudgedTold
    <2>3. Unparsed("summary") => f.of = "summary"
      BY <1>2 DEF Unparsed
    <2>4. f.of \in (SummaryNeeds \cup Catalog) \ {"summary"} => SummaryCrashes
      BY <1>1, <1>3, <1>5, FaultsAreFound DEF SummaryCrashes, Unread, Catalog, SummaryNeeds, AuditTable, DomainTable
    <2>5. f.of \in {"landing", "platform", "summary", "provenance"}
      BY <1>4, <2>2, <2>3, <2>4 DEF AuditTable, DomainTable, Catalog, SummaryNeeds
    <2>6. QED
      BY <1>7, <2>1, <2>5
  <1>8. CASE auditAt = "crashed"
    <2>1. /\ SummaryCrashes /\ ~Unparsed("summary")
          /\ OfCatalogs(f) \/ (f.of \in AuditTable /\ InFile(f)) => Reported(f)
      BY <1>1, <1>8 DEF CrashCaused
    <2>2. f.of \in SummaryNeeds \/ f.of \in Catalog
      BY <1>2, <2>1 DEF SummaryCrashes, Unread
    <2>3. f.of # "summary"
      BY <1>3, <1>5, <2>1 DEF Unparsed, AuditTable, DomainTable
    <2>4. f.of \notin {"landing", "platform", "summary", "provenance"}
      BY <2>2, <2>3 DEF SummaryNeeds, Catalog
    <2>5. f \in problems
      BY <1>5, <1>6, <2>1, <2>2 DEF SummaryNeeds, AuditTable, DomainTable, InFile, OfCatalogs
    <2>6. QED
      BY <1>8, <2>4, <2>5
  <1>9. QED
    BY <1>7, <1>8

-----------------------------------------------------------------------------
(***************************************************************************)
(* CatalogAudit: the verdict is that of the audits.                        *)
(***************************************************************************)

VerdictInv ==
  /\ verdict = "fonts" => TypographyAudit(pairing) /\ FontCatalogAudit(fontCatalog, license, pairing)
  /\ verdict = "provenance" => ProvenanceAudit(records)

LEMMA VerdictAlways == CatalogAuditSpec => []VerdictInv
  <1>1. CatalogAuditInit => VerdictInv
    BY DEF CatalogAuditInit, VerdictInv
  <1>2. VerdictInv /\ [CatalogAuditNext]_catalogAuditVars => VerdictInv'
    BY DEF VerdictInv, CatalogAuditNext, AuditFonts, AuditProvenance, catalogAuditVars
  <1>3. QED
    BY <1>1, <1>2, PTL DEF CatalogAuditSpec

LEMMA FontsAreHad == VerdictInv => FontsCanBeHad
  <1> SUFFICES ASSUME VerdictInv, verdict = "fonts", NEW f \in {pairing.heading, pairing.body}
               PROVE  /\ \E d \in pairing.css : d[1] = f /\ d[2] \subseteq fontCatalog[f]
                      /\ f \in license.active \ license.excluded
                      /\ pairing.notes \subseteq UNION {fontCatalog[g] : g \in DOMAIN fontCatalog}
    BY DEF FontsCanBeHad
  <1>1. TypographyAudit(pairing) /\ FontCatalogAudit(fontCatalog, license, pairing)
    BY DEF VerdictInv
  <1>2. \A d \in pairing.url : d[1] \in DOMAIN fontCatalog /\ d[2] \subseteq fontCatalog[d[1]]
    BY <1>1 DEF FontCatalogAudit
  <1>3. PICK d \in pairing.url : d[1] = f
    BY <1>1 DEF TypographyAudit, Names
  <1>4. f \in license.active /\ f \notin license.excluded
    BY <1>1, <1>2, <1>3 DEF FontCatalogAudit, SameFamilies
  <1>5. pairing.notes \subseteq UNION {fontCatalog[g] : g \in DOMAIN fontCatalog}
    BY <1>1, <1>2 DEF TypographyAudit, Imported
  <1>6. QED
    BY <1>1, <1>2, <1>3, <1>4, <1>5 DEF TypographyAudit

LEMMA RecordsVouch == VerdictInv => ProvenanceBinds
  <1> SUFFICES ASSUME VerdictInv, verdict = "provenance" PROVE ProvenanceBinds
    BY DEF ProvenanceBinds
  <1>1. ProvenanceAudit(records)
    BY DEF VerdictInv
  <1>2. ASSUME NEW r \in records, "official" \in Sources(r) PROVE r.official = "approved"
    BY <1>1, <1>2 DEF ProvenanceAudit, RecordAudit, ValidSources, Sources
  <1>3. ASSUME NEW f \in CoreFile PROVE \E r \in records : r.of = f /\ r.rows /\ r.official = "approved"
    BY <1>1, <1>2, <1>3 DEF ProvenanceAudit, Vouches
  <1>4. ASSUME NEW r \in records, r.sla = "manual-verified" PROVE r.official = "approved"
    BY <1>1, <1>4 DEF ProvenanceAudit, RecordAudit, ValidSources
  <1>5. ASSUME NEW n \in NewRow
        PROVE  \E r \in records : r.of = n /\ (r.sla = "manual-verified" => r.official = "approved")
    BY <1>1, <1>4, <1>5 DEF ProvenanceAudit
  <1>6. QED
    BY <1>3, <1>5 DEF ProvenanceBinds

-----------------------------------------------------------------------------
(***************************************************************************)
(* StackSearch.                                                            *)
(***************************************************************************)

StackInv ==
  /\ stackStep \in {"tables", "ready", "answered"}
  /\ stackStep # "tables" =>
       /\ StackAudit(stack, stackTable)
       /\ \A x \in DOMAIN stackTable : stackTable[x].status \in {"active", "unverified", "deprecated"}
  /\ stackStep = "answered" => stackAnswer \subseteq Admitted(stack, stackTable, stackQuery)

\* Whatever the route to an answer, its rows passed the filter of the query.
LEMMA AnswersAreAdmitted ==
  ASSUME NEW s, NEW rows, NEW q, NEW a \in StackAnswers(s, rows, q)
  PROVE  a \subseteq Admitted(s, rows, q)
  BY DEF StackAnswers, Successor, ExactIdentifier, OnlyOne

LEMMA StackAlways == StackSpec => []StackInv
  <1>1. StackInit => StackInv
    BY DEF StackInit, StackInv
  <1>2. ASSUME StackInv, [StackNext]_stackVars PROVE StackInv'
    <2>1. CASE UNCHANGED stackVars
      BY <1>2, <2>1 DEF stackVars, StackInv
    <2>2. CASE InstallStack
      <3>1. PICK n \in 0..Cardinality(StackRow) : stackTable' \in [1..n -> RowKinds]
        BY <2>2 DEF InstallStack
      <3>2. \A x \in DOMAIN stackTable' : stackTable'[x] \in Content
        BY <3>1, StackAssumption
      <3>3. \A x \in DOMAIN stackTable' : stackTable'[x].status \in {"active", "unverified", "deprecated"}
        BY <3>2 DEF Content
      <3>4. QED
        BY <2>2, <3>3 DEF InstallStack, StackInv
    <2>3. CASE SearchStack
      BY <1>2, <2>3, AnswersAreAdmitted DEF SearchStack, StackInv
    <2>4. QED
      BY <1>2, <2>1, <2>2, <2>3 DEF StackNext
  <1>3. QED
    BY <1>1, <1>2, PTL DEF StackSpec

\* A query that does not ask for the older generation is answered from the current one.
LEMMA CurrentIsServed ==
  ASSUME StackInv, stackStep = "answered", ~RequestsLegacy(stack, stackQuery)
  PROVE  /\ \E x \in DOMAIN stackTable : stackTable[x].status = "active"
         /\ Generation(stack, stackTable, stackQuery) = {"active"}
         /\ \A x \in Admitted(stack, stackTable, stackQuery) : stackTable[x].target = "current"
  <1>1. stack # "legacyOnly" /\ StackAudit(stack, stackTable)
    BY DEF StackInv, RequestsLegacy
  <1>2. \E x \in DOMAIN stackTable : stackTable[x].status = "active"
    BY <1>1 DEF StackAudit, SomeActive
  <1>3. Generation(stack, stackTable, stackQuery) = {"active"}
    BY <1>2 DEF Generation, Statuses
  <1>4. \A x \in Admitted(stack, stackTable, stackQuery) :
          x \in DOMAIN stackTable /\ stackTable[x].status = "active"
    BY <1>3 DEF Admitted
  <1>5. QED
    BY <1>1, <1>2, <1>3, <1>4 DEF StackAudit, RowIsFresh

LEMMA StackInvSuffices == StackInv => ModernNeverOlder /\ AuditedIsServed
  <1> SUFFICES ASSUME StackInv, stackStep = "answered" PROVE ModernNeverOlder /\ AuditedIsServed
    BY DEF ModernNeverOlder, AuditedIsServed
  <1>1. AuditedIsServed
    <2>1. ASSUME ~RequestsLegacy(stack, stackQuery), stack # "shadcn" \/ stackQuery.base = "none"
          PROVE  Admitted(stack, stackTable, stackQuery) # {}
      BY <2>1, CurrentIsServed DEF Admitted
    <2>2. QED
      BY <2>1, CurrentIsServed DEF AuditedIsServed
  <1>2. ASSUME stack # "legacyOnly",
               \/ stackQuery.versions \cap {"same", "newer"} # {} /\ stack = "versioned"
               \/ stackQuery.migrates /\ stackQuery.versions = {}
        PROVE  ~RequestsLegacy(stack, stackQuery)
    BY <1>2 DEF RequestsLegacy, AllOlder
  <1>3. ModernNeverOlder
    BY <1>2, CurrentIsServed DEF ModernNeverOlder, StackInv
  <1>4. QED
    BY <1>1, <1>3

-----------------------------------------------------------------------------
(***************************************************************************)
(* Mockups.  The clock is past every file name when an image is saved, and *)
(* the logo is not loaded again once a set is under way.                   *)
(***************************************************************************)

MockupName == Range(CatalogRow) \X Nat
Shot == [of: Wish, prompt: [deliverable: Range(CatalogRow), useLogo: BOOLEAN], logo: BOOLEAN]

MockupTypes ==
  /\ stage \in {"idle", "start", "begin", "generate", "save", "ended"}
  /\ args \in Args /\ logoHeld \in BOOLEAN /\ second \in Nat
  /\ queue \in Seq(Wish) /\ (stage = "save" => queue # <<>>)
  /\ results \in Seq(MockupName \X Shot)
  /\ mockup \in SUBSET (MockupName \X Shot)
OneLogo ==
  /\ stage \in {"idle", "start", "begin"} => results = <<>>
  /\ \A i \in DOMAIN results : results[i][2].logo = logoHeld /\ results[i][2].prompt.useLogo = logoHeld
NamesPast ==
  /\ \A m \in mockup : m[1][2] <= second /\ (stage = "save" => m[1][2] < second)
  /\ \A i \in DOMAIN results : results[i] \in mockup
MockupInv == MockupTypes /\ OneLogo /\ NamesPast

LEMMA WishesAreSeqs == \A a \in Args : a.wishes \in Seq(Wish)
  <1>1. <<>> \in Seq(Wish) /\ \A w \in Wish : <<w>> \in Seq(Wish)
    OBVIOUS
  <1>2. \A v, w \in Wish : <<v, w>> \in Seq(Wish)
    OBVIOUS
  <1>3. ASSUME NEW p \in Wish \X Wish PROVE p \in Seq(Wish)
    <2>1. p = <<p[1], p[2]>> /\ p[1] \in Wish /\ p[2] \in Wish
      OBVIOUS
    <2>2. QED
      BY <1>2, <2>1, Zenon
  <1>4. QED
    BY <1>1, <1>3 DEF Args

LEMMA MockupStart == MockupsInit => MockupInv
  <1> SUFFICES ASSUME MockupsInit PROVE MockupInv
    OBVIOUS
  <1>1. args \in Args
    BY DEF MockupsInit, NoArgs, Args
  <1>2. queue \in Seq(Wish) /\ results \in Seq(MockupName \X Shot)
    BY DEF MockupsInit
  <1>3. MockupTypes
    BY <1>1, <1>2 DEF MockupsInit, MockupTypes
  <1>4. DOMAIN results = {}
    BY DEF MockupsInit
  <1>5. OneLogo
    BY <1>4 DEF MockupsInit, OneLogo
  <1>6. NamesPast
    BY <1>4 DEF MockupsInit, NamesPast
  <1>7. QED
    BY <1>3, <1>5, <1>6 DEF MockupInv

LEMMA SaveKeeps == ASSUME MockupInv, SaveMockup PROVE MockupInv'
  <1> DEFINE w == Head(queue)
             name == FileName(Prompt(w))
             shot == [of |-> w, prompt |-> Prompt(w), logo |-> Attached]
  <1>1. /\ stage = "save" /\ stage' = "generate" /\ queue' = Tail(queue)
        /\ mockup' = {m \in mockup : m[1] # name} \cup {<<name, shot>>}
        /\ results' = Append(results, <<name, shot>>)
        /\ args' = args /\ logoHeld' = logoHeld /\ second' = second
    BY DEF SaveMockup
  <1>2. /\ args \in Args /\ logoHeld \in BOOLEAN /\ second \in Nat /\ queue \in Seq(Wish) /\ queue # <<>>
        /\ results \in Seq(MockupName \X Shot) /\ mockup \in SUBSET (MockupName \X Shot)
    BY <1>1 DEF MockupInv, MockupTypes
  <1>3. w \in Wish /\ Tail(queue) \in Seq(Wish)
    BY <1>2
  <1>4. CatalogRow[w] \in Range(CatalogRow)
    BY <1>3, MockupsAssumption DEF Range
  <1>5. name = <<CatalogRow[w], second>>
    BY DEF FileName, Prompt
  <1>6. /\ shot.prompt.useLogo = logoHeld /\ shot.logo = logoHeld /\ shot \in Shot
    BY <1>2, <1>3, <1>4 DEF Prompt, Attached, Shot
  <1>7. name \in MockupName /\ name[2] = second
    BY <1>2, <1>4, <1>5 DEF MockupName
  <1> HIDE DEF w, name, shot
  <1>8. <<name, shot>> \in MockupName \X Shot
    BY <1>6, <1>7
  <1>9. MockupTypes'
    BY <1>1, <1>2, <1>3, <1>8 DEF MockupTypes
  <1>10. /\ DOMAIN results = 1..Len(results) /\ DOMAIN results' = 1..(Len(results) + 1)
         /\ results'[Len(results) + 1] = <<name, shot>> /\ Len(results) \in Nat
         /\ \A i \in DOMAIN results : results'[i] = results[i]
    BY <1>1, <1>2, <1>8
  <1>11. \A i \in DOMAIN results' : i \in DOMAIN results \/ results'[i] = <<name, shot>>
    BY <1>10
  <1>12. OneLogo'
    <2>1. \A i \in DOMAIN results : results[i][2].logo = logoHeld /\ results[i][2].prompt.useLogo = logoHeld
      BY DEF MockupInv, OneLogo
    <2>2. QED
      BY <1>1, <1>6, <1>10, <1>11, <2>1 DEF OneLogo
  <1>13. NamesPast'
    <2>1. /\ \A m \in mockup : m[1][2] <= second /\ m[1][2] < second
          /\ \A i \in DOMAIN results : results[i] \in mockup
      BY <1>1 DEF MockupInv, NamesPast
    <2>2. \A m \in mockup : m[1][2] \in Nat
      BY <1>2 DEF MockupName
    <2>3. \A m \in mockup : m[1] # name
      BY <1>2, <1>7, <2>1, <2>2
    <2>4. \A m \in mockup' : m[1][2] <= second
      BY <1>1, <1>2, <1>7, <2>1
    <2>5. \A i \in DOMAIN results' : results'[i] \in mockup'
      BY <1>1, <1>10, <1>11, <2>1, <2>3
    <2>6. QED
      BY <1>1, <2>4, <2>5 DEF NamesPast
  <1>14. QED
    BY <1>9, <1>12, <1>13 DEF MockupInv

\* A step before the first image.
LEMMA QuietStepKeeps ==
  ASSUME MockupInv, results' = results, mockup' = mockup, second' = second, args' \in Args, logoHeld' \in BOOLEAN,
         queue' \in Seq(Wish), stage' \in {"idle", "start", "begin", "generate", "ended"},
         stage' \in {"idle", "start", "begin"} => results = <<>>, results = <<>> \/ logoHeld' = logoHeld
  PROVE  MockupInv'
  <1>1. MockupTypes'
    BY DEF MockupInv, MockupTypes
  <1>2. results = <<>> => DOMAIN results = {}
    OBVIOUS
  <1>3. OneLogo'
    BY <1>2 DEF MockupInv, OneLogo
  <1>4. NamesPast'
    BY DEF MockupInv, NamesPast
  <1>5. QED
    BY <1>1, <1>3, <1>4 DEF MockupInv

LEMMA GenerateKeeps == ASSUME MockupInv, Generate PROVE MockupInv'
  <1>1. /\ stage = "generate" /\ queue # <<>> /\ second' = second + 1 /\ args' = args /\ logoHeld' = logoHeld
        /\ mockup' = mockup /\ results' = results
        /\ \/ stage' = "save" /\ queue' = queue
           \/ stage' = "generate" /\ queue' = Tail(queue)
    BY DEF Generate
  <1>2. MockupTypes'
    <2>1. queue \in Seq(Wish) /\ second \in Nat
      BY DEF MockupInv, MockupTypes
    <2>2. queue' \in Seq(Wish) /\ (stage' = "save" => queue' # <<>>) /\ second' \in Nat
      BY <1>1, <2>1
    <2>3. QED
      BY <1>1, <2>2 DEF MockupInv, MockupTypes
  <1>3. OneLogo'
    BY <1>1 DEF MockupInv, OneLogo
  <1>4. \A m \in mockup : m[1][2] \in Nat /\ m[1][2] <= second
    BY DEF MockupInv, MockupTypes, NamesPast, MockupName
  <1>5. second \in Nat
    BY DEF MockupInv, MockupTypes
  <1>6. NamesPast'
    BY <1>1, <1>4, <1>5 DEF MockupInv, NamesPast
  <1>7. QED
    BY <1>2, <1>3, <1>6 DEF MockupInv

LEMMA MockupStep == MockupInv /\ [MockupsNext]_mockupVars => MockupInv'
  <1> SUFFICES ASSUME MockupInv, [MockupsNext]_mockupVars PROVE MockupInv'
    OBVIOUS
  <1>1. /\ stage \in {"idle", "start", "begin", "generate", "save", "ended"} /\ args \in Args
        /\ logoHeld \in BOOLEAN /\ queue \in Seq(Wish)
        /\ stage \in {"idle", "start", "begin"} => results = <<>>
    BY DEF MockupInv, MockupTypes, OneLogo
  <1>2. CASE StartTool
    BY <1>1, <1>2, QuietStepKeeps DEF StartTool
  <1>3. CASE ReplaceLogo
    <2>1. MockupTypes' /\ OneLogo' /\ NamesPast'
      BY <1>3 DEF ReplaceLogo, MockupInv, MockupTypes, OneLogo, NamesPast
    <2>2. QED
      BY <2>1 DEF MockupInv
  <1>4. CASE LoadLogo
    BY <1>1, <1>4, QuietStepKeeps DEF LoadLogo, ToStage
  <1>5. CASE CheckLogoRequired
    BY <1>1, <1>5, QuietStepKeeps DEF CheckLogoRequired, ToStage
  <1>6. CASE ShowPrompts
    BY <1>1, <1>6, QuietStepKeeps DEF ShowPrompts, ToStage
  <1>7. CASE BeginSet
    <2>1. queue' \in Seq(Wish)
      BY <1>1, <1>7, WishesAreSeqs, MockupsAssumption DEF BeginSet
    <2>2. args.logo \in BOOLEAN
      BY <1>1 DEF Args
    <2>3. QED
      BY <1>1, <1>7, <2>1, <2>2, QuietStepKeeps DEF BeginSet, ToStage
  <1>8. CASE BeginSingle
    BY <1>1, <1>8, WishesAreSeqs, QuietStepKeeps DEF BeginSingle, ToStage
  <1>9. CASE SetDone
    BY <1>1, <1>9, QuietStepKeeps DEF SetDone, ToStage
  <1>10. CASE UNCHANGED mockupVars
    <2>1. MockupTypes' /\ OneLogo' /\ NamesPast'
      BY <1>10 DEF mockupVars, MockupInv, MockupTypes, OneLogo, NamesPast
    <2>2. QED
      BY <2>1 DEF MockupInv
  <1>11. QED
    BY <1>2, <1>3, <1>4, <1>5, <1>6, <1>7, <1>8, <1>9, <1>10, GenerateKeeps, SaveKeeps DEF MockupsNext

LEMMA MockupsAlways == MockupsSpec => []MockupInv
  BY MockupStart, MockupStep, PTL DEF MockupsSpec

LEMMA MockupInvSuffices == MockupInv => SetIsUniform /\ MockupsKept
  BY DEF MockupInv, OneLogo, NamesPast, SetIsUniform, MockupsKept, Range

-----------------------------------------------------------------------------
(***************************************************************************)
(* IdentityBrief.  What each way of making an image asks the style table   *)
(* for stays the same while a set is under way.                            *)
(***************************************************************************)

BriefInv ==
  /\ briefAt \in {"idle", "set", "shown"}
  /\ briefAt = "idle" => made = {}
  /\ briefAt # "idle" => /\ identity.brief.style \in StyleRow \cup {NoRow}
                         /\ identity.asked # NoRow => identity.brief.style = Found("style", identity.asked)
  /\ \A m \in made : /\ m.row \in Query
                     /\ \/ m.way = "set" /\ m.style = StyleOf(identity.brief.style)
                        \/ m.way = "single" /\ m.style = StyleOf(identity.asked)
  /\ \A s \in shown : s[1].row \in Query /\ s[2] = InfoOf(s[1].brand, s[1].row)

LEMMA FoundAreRows ==
  \A q \in Query \cup {NoRow} : /\ Found("style", q) \in StyleRow \cup {NoRow}
                                /\ Found("deliverable", q) \in Deliverable \cup {NoRow}
                                /\ Found("industry", q) \in DOMAIN Industry \cup {NoRow}
  BY BriefAssumption DEF Found

LEMMA QueriesForStyles ==
  \A i \in DOMAIN Industry \cup {NoRow}, s \in Query \cup {NoRow} : StyleQuery(i, s) \in Query
  BY BriefAssumption, Zenon DEF StyleQuery

\* The style of a brief is a row; it is what --style finds if that is given.
LEMMA BriefsHaveRows ==
  ASSUME NEW q \in Query, NEW s \in Query \cup {NoRow}
  PROVE  /\ CipBrief(q, s).style \in StyleRow \cup {NoRow}
         /\ s # NoRow => CipBrief(q, s).style = Found("style", s)
  <1>1. Found("industry", q) \in DOMAIN Industry \cup {NoRow}
    BY FoundAreRows
  <1>2. StyleQuery(Found("industry", q), s) \in Query
    BY <1>1, QueriesForStyles
  <1>3. CipBrief(q, s).style = Found("style", StyleQuery(Found("industry", q), s))
    BY DEF CipBrief
  <1>4. s # NoRow => StyleQuery(Found("industry", q), s) = s
    BY DEF StyleQuery
  <1>5. QED
    BY <1>2, <1>3, <1>4, FoundAreRows

LEMMA MakeKeeps ==
  ASSUME BriefInv, NEW wish \in Query, NEW style, NEW way, Make(wish, style, way),
         \/ way = "set" /\ style = StyleOf(identity.brief.style)
         \/ way = "single" /\ style = StyleOf(identity.asked)
  PROVE  BriefInv'
  <1>1. made' = made \cup {[brand |-> identity.brand, row |-> ImageName(wish), style |-> style, way |-> way]}
    BY DEF Make
  <1>2. ImageName(wish) \in Query
    BY FoundAreRows, BriefAssumption DEF ImageName
  <1>3. identity' = identity /\ shown' = shown /\ briefAt' = briefAt /\ briefAt = "set"
    BY DEF Make
  <1>4. QED
    BY <1>1, <1>2, <1>3 DEF BriefInv

LEMMA BriefAlways == BriefSpec => []BriefInv
  <1>1. BriefInit => BriefInv
    BY DEF BriefInit, BriefInv
  <1>2. ASSUME BriefInv, [BriefNext]_briefVars PROVE BriefInv'
    <2>1. CASE SearchGuidelines
      BY <1>2, <2>1 DEF SearchGuidelines, BriefInv
    <2>2. CASE BeginIdentity
      <3>1. PICK b \in Brand, q \in Query, asked \in Query \cup {NoRow} :
              identity' = [brand |-> b, asked |-> asked, brief |-> CipBrief(q, asked)]
        BY <2>2 DEF BeginIdentity
      <3>2. /\ identity'.brief.style \in StyleRow \cup {NoRow}
            /\ identity'.asked # NoRow => identity'.brief.style = Found("style", identity'.asked)
        BY <3>1, BriefsHaveRows
      <3>3. QED
        BY <1>2, <2>2, <3>2 DEF BeginIdentity, BriefInv
    <2>3. CASE MakeImage
      BY <1>2, <2>3, MakeKeeps DEF MakeImage, PromptStyle
    <2>4. CASE MakeSingle
      BY <1>2, <2>4, MakeKeeps DEF MakeSingle
    <2>5. CASE Present
      BY <1>2, <2>5 DEF Present, BriefInv
    <2>6. CASE UNCHANGED briefVars
      BY <1>2, <2>6 DEF briefVars, BriefInv
    <2>7. QED
      BY <1>2, <2>1, <2>2, <2>3, <2>4, <2>5, <2>6 DEF BriefNext
  <1>3. QED
    BY <1>1, <1>2, PTL DEF BriefSpec

\* The first of the entries in the name is found: the row's own, or an earlier one.
LEMMA EarlierIsFound ==
  ASSUME NEW brand, NEW row \in Query, OwnEntry[row] # NoRow, InfoOf(brand, row) # OwnEntry[row]
  PROVE  \E i, j \in DOMAIN Entries : /\ i < j /\ Entries[i] = InfoOf(brand, row) /\ Entries[j] = OwnEntry[row]
                                      /\ InfoOf(brand, row) \in Inside[row] \cup Inside[brand]
  <1> DEFINE inside == {i \in DOMAIN Entries : Entries[i] \in Inside[row] \cup Inside[brand]}
             m == CHOOSE i \in inside : \A j \in inside : i <= j
  <1>1. OwnEntry[row] \in Range(Entries) \cap Inside[row]
    BY BriefAssumption
  <1>2. PICK k \in DOMAIN Entries : Entries[k] = OwnEntry[row]
    BY <1>1 DEF Range
  <1>3. k \in inside
    BY <1>1, <1>2
  <1>4. inside \subseteq Nat
    <2>1. Entries \in Seq(Range(Entries))
      BY BriefAssumption, Zenon
    <2>2. DOMAIN Entries \subseteq Nat
      BY <2>1
    <2>3. QED
      BY <2>2
  <1>5. InfoOf(brand, row) = Entries[m]
    BY <1>3 DEF InfoOf
  <1>6. m \in inside /\ \A j \in inside : m <= j
    <2> DEFINE S == inside
    <2> HIDE DEF inside
    <2>1. \E i \in S : \A j \in S : i <= j
      <3>1. Min(S) \in S /\ \A j \in S : Min(S) <= j
        BY <1>3, <1>4, LeastNumber
      <3>2. QED
        BY <3>1
    <2>2. QED
      BY <2>1
  <1>7. m # k
    BY <1>2, <1>5
  <1>8. m < k
    <2> HIDE DEF inside, m
    <2>1. QED
      BY <1>3, <1>4, <1>6, <1>7
  <1>9. QED
    BY <1>2, <1>5, <1>6, <1>8

LEMMA BriefInvSuffices == BriefInv => OneStyle /\ ShownAsMade
  <1> SUFFICES ASSUME BriefInv PROVE OneStyle /\ ShownAsMade
    OBVIOUS
  <1> DEFINE brief == identity.brief.style
  <1>1. ASSUME NEW m \in made
        PROVE  /\ \A n \in made : n.way = m.way => n.style = m.style
               /\ m.way = "set" /\ m.style # brief => Finds["style"][brief] \notin {brief, NoRow}
               /\ m.way = "single" /\ m.style # brief =>
                    identity.asked = NoRow \/ Finds["style"][identity.asked] = NoRow
    <2>1. /\ briefAt # "idle"
          /\ identity.asked # NoRow => brief = Found("style", identity.asked)
          /\ m.way = "set" => m.style = StyleOf(brief)
          /\ m.way = "single" => m.style = StyleOf(identity.asked)
      BY <1>1 DEF BriefInv
    <2>2. \A n \in made : n.way = m.way => n.style = m.style
      BY <1>1 DEF BriefInv
    <2>3. QED
      BY <2>1, <2>2 DEF StyleOf, Found
  <1>2. OneStyle
    BY <1>1 DEF OneStyle
  <1>3. ShownAsMade
    BY EarlierIsFound DEF BriefInv, ShownAsMade
  <1>4. QED
    BY <1>2, <1>3

-----------------------------------------------------------------------------
(***************************************************************************)
(* Icons.  Files before the turn are not touched any more, and each holds  *)
(* what was made of its drawing.                                           *)
(***************************************************************************)

\* Finished, for any turn.
FinishedAt(a, k, svg) ==
  LET colored == ApplyColor(svg, a.color)
  IN IF a.mode = "batch" THEN colored ELSE ApplyViewboxSize(colored, Pixels(a, k))

IconTypes ==
  /\ iconStage \in {"idle", "ask", "save", "ended"} /\ iconArgs \in IconArgs
  /\ turn \in 1..iconArgs.count /\ found \in Nat
  /\ DOMAIN icon = 1..MaxIcons
\* The SVGs that are left fit into the batch.
RoomLeft ==
  /\ iconStage = "save" => found >= 1 /\ turn + found <= iconArgs.count + 1
  /\ iconStage = "save" /\ iconArgs.mode # "batch" => found = 1
  /\ iconStage = "ask" /\ iconArgs.mode = "batch" => turn = 1
InOrder ==
  /\ iconStage = "idle" => returned = {} /\ turn = 1
  /\ returned \subseteq 1..turn
  /\ iconStage \in {"ask", "save"} => turn \notin returned
  /\ iconArgs.mode = "batch" /\ iconStage = "save" => 1..(turn - 1) \subseteq returned
  /\ iconArgs.mode = "batch" /\ iconStage = "ended" => returned = {} \/ 1..turn \subseteq returned
AsMade ==
  \A k \in returned : /\ icon[k].whole /\ icon[k].drawn \in Drawn
                      /\ icon[k].svg = FinishedAt(iconArgs, k, icon[k].drawn)
IconInv == IconTypes /\ RoomLeft /\ InOrder /\ AsMade

LEMMA PixelsAreSizes == \A a \in IconArgs, k \in Nat : Pixels(a, k) \in {24, 512}
  <1>1. \A k \in Nat : k % 2 = 0 \/ k % 2 = 1
    OBVIOUS
  <1>2. <<512, 24>>[1 + 0] = 512 /\ <<512, 24>>[1 + 1] = 24
    OBVIOUS
  <1>3. QED
    BY <1>1, <1>2 DEF Pixels

SvgField == {"width", "height", "child", "stroke", "twice", "paint", "accent"}

\* What is rewritten in an SVG, and what is added to it.
LEMMA Resized ==
  ASSUME NEW c, SvgField \subseteq DOMAIN c, NEW size, size # 0
  PROVE  LET svg == ApplyViewboxSize(c, size)
             plain == c.stroke = 0 /\ c.child = 0
         IN /\ svg.paint = c.paint
            /\ svg.width = (IF c.width # 0 \/ plain THEN size ELSE 0)
            /\ svg.stroke = (IF c.stroke = 0 THEN 0 ELSE size) /\ svg.child = (IF c.child = 0 THEN 0 ELSE size)
            /\ svg.twice = IF c.width = 0 /\ plain THEN c.height # 0 ELSE c.twice
  <1> DEFINE Sub(n) == IF n = 0 THEN 0 ELSE size
             sized == [c EXCEPT !.width = Sub(c.width), !.height = Sub(c.height), !.child = Sub(c.child),
                                !.stroke = Sub(c.stroke)]
             added == [sized EXCEPT !.width = size, !.height = size, !.twice = c.height # 0]
             bare == c.width = 0 /\ c.child = 0 /\ c.stroke = 0
  <1>1. ApplyViewboxSize(c, size) = IF bare THEN added ELSE sized
    BY DEF ApplyViewboxSize
  <1>2. /\ SvgField \subseteq DOMAIN sized
        /\ sized.width = Sub(c.width) /\ sized.child = Sub(c.child) /\ sized.stroke = Sub(c.stroke)
        /\ sized.twice = c.twice /\ sized.paint = c.paint
    <2> HIDE DEF Sub
    <2>1. QED
      BY DEF SvgField
  <1> HIDE DEF sized
  <1>3. /\ added.width = size /\ added.child = sized.child /\ added.stroke = sized.stroke
        /\ added.twice = (c.height # 0) /\ added.paint = sized.paint
    <2> DEFINE two == c.height # 0
    <2> HIDE DEF two
    <2>1. /\ [sized EXCEPT !.width = size, !.height = size, !.twice = two].width = size
          /\ [sized EXCEPT !.width = size, !.height = size, !.twice = two].child = sized.child
          /\ [sized EXCEPT !.width = size, !.height = size, !.twice = two].stroke = sized.stroke
          /\ [sized EXCEPT !.width = size, !.height = size, !.twice = two].twice = two
          /\ [sized EXCEPT !.width = size, !.height = size, !.twice = two].paint = sized.paint
      BY <1>2 DEF SvgField
    <2>2. QED
      BY <2>1 DEF two
  <1> HIDE DEF added
  <1>4. CASE bare
    BY <1>1, <1>2, <1>3, <1>4
  <1>5. CASE ~bare
    BY <1>1, <1>2, <1>5
  <1>6. QED
    BY <1>4, <1>5

\* What the tool makes of a drawing.
LEMMA SvgIsFinished ==
  ASSUME NEW a \in IconArgs, NEW k \in Nat, NEW s \in Drawn
  PROVE  /\ a.color => "currentColor" \notin FinishedAt(a, k, s).paint
         /\ a.mode # "batch" =>
              LET svg == FinishedAt(a, k, s)
                  size == Pixels(a, k)
                  Sub(n) == IF n = 0 THEN 0 ELSE size
                  plain == s.stroke = 0 /\ s.child = 0
              IN /\ size \in {24, 512}
                 /\ svg.width = (IF s.width # 0 \/ plain THEN size ELSE 0)
                 /\ svg.stroke = Sub(s.stroke) /\ svg.child = Sub(s.child)
                 /\ svg.twice <=> s.width = 0 /\ plain /\ s.height # 0
  <1> DEFINE c == ApplyColor(s, a.color)
             size == Pixels(a, k)
  <1>0. s \in Svg /\ ~s.twice
    BY IconsAssumption
  <1>1. /\ c \in Svg /\ c.width = s.width /\ c.height = s.height /\ c.child = s.child /\ c.stroke = s.stroke
        /\ c.twice = s.twice /\ (a.color => "currentColor" \notin c.paint)
    <2>1. CASE a.color
      <3>1. s.width \in {0, 24, 512} /\ s.height \in {0, 24, 512} /\ s.child \in {0, 6, 24, 512}
            /\ s.stroke \in {0, 2, 24, 512} /\ s.twice \in BOOLEAN /\ s.paint \subseteq {"currentColor", "other"}
        BY <1>0 DEF Svg
      <3>2. c = [width |-> s.width, height |-> s.height, child |-> s.child, stroke |-> s.stroke, twice |-> s.twice,
                 paint |-> s.paint \ {"currentColor"}, accent |-> TRUE]
        BY <1>0, <2>1 DEF ApplyColor, Svg
      <3>3. c \in Svg
        <4> HIDE DEF c
        <4>1. QED
          BY <3>1, <3>2 DEF Svg
      <3>4. QED
        BY <3>2, <3>3
    <2>2. CASE ~a.color
      BY <1>0, <2>2 DEF ApplyColor
    <2>3. QED
      BY <2>1, <2>2
  <1>2. size \in {24, 512}
    BY PixelsAreSizes
  <1>3. FinishedAt(a, k, s) = IF a.mode = "batch" THEN c ELSE ApplyViewboxSize(c, size)
    BY DEF FinishedAt
  <1> DEFINE svg == ApplyViewboxSize(c, size)
  <1> HIDE DEF c, size
  <1>4. /\ svg.paint = c.paint
        /\ svg.width = (IF c.width # 0 \/ (c.stroke = 0 /\ c.child = 0) THEN size ELSE 0)
        /\ svg.stroke = (IF c.stroke = 0 THEN 0 ELSE size) /\ svg.child = (IF c.child = 0 THEN 0 ELSE size)
        /\ svg.twice = IF c.width = 0 /\ c.stroke = 0 /\ c.child = 0 THEN c.height # 0 ELSE c.twice
    <2>1. size # 0
      BY <1>2
    <2>2. SvgField \subseteq DOMAIN c
      BY <1>1 DEF Svg, SvgField
    <2>3. QED
      BY <2>1, <2>2, Resized
  <1> HIDE DEF svg
  <1>5. a.mode # "batch" => FinishedAt(a, k, s) = svg
    BY <1>3 DEF svg
  <1>6. a.color => "currentColor" \notin FinishedAt(a, k, s).paint
    BY <1>1, <1>3, <1>4 DEF svg
  <1>7. /\ svg.width = (IF s.width # 0 \/ (s.stroke = 0 /\ s.child = 0) THEN size ELSE 0)
        /\ svg.stroke = (IF s.stroke = 0 THEN 0 ELSE size) /\ svg.child = (IF s.child = 0 THEN 0 ELSE size)
        /\ svg.twice <=> s.width = 0 /\ s.stroke = 0 /\ s.child = 0 /\ s.height # 0
    BY <1>0, <1>1, <1>4
  <1>8. QED
    BY <1>2, <1>5, <1>6, <1>7 DEF size

LEMMA SvgsAreCounted ==
  ASSUME NEW text \in BoundedSeq(Block, MaxAnswer)
  PROVE  Cardinality(ExtractSvgs(text)) \in Nat
  <1>1. PICK m \in 0..MaxAnswer : text \in [1..m -> Block]
    BY DEF BoundedSeq, SeqOf
  <1>2. IsFiniteSet(1..m)
    BY <1>1, IconsAssumption, FS_Interval
  <1>3. ExtractSvgs(text) \subseteq 1..m
    BY <1>1 DEF ExtractSvgs, Fenced
  <1>4. QED
    BY <1>2, <1>3, FS_Subset, FS_CardinalityType

LEMMA IconStart == IconsInit => IconInv
  <1> SUFFICES ASSUME IconsInit PROVE IconInv
    OBVIOUS
  <1>1. iconArgs \in IconArgs /\ iconArgs.count = 1 /\ iconArgs.mode = "one"
    BY IconsAssumption DEF IconsInit, IconArgs
  <1>2. IconTypes
    BY <1>1 DEF IconsInit, IconTypes
  <1>3. RoomLeft /\ InOrder /\ AsMade
    BY <1>1 DEF IconsInit, RoomLeft, InOrder, AsMade
  <1>4. QED
    BY <1>2, <1>3 DEF IconInv

LEMMA StartKeeps == ASSUME IconInv, StartIcons PROVE IconInv'
  <1>1. /\ iconStage = "idle" /\ iconStage' = "ask" /\ turn' = turn /\ found' = found /\ icon' = icon
        /\ returned' = returned /\ iconArgs' \in IconArgs /\ turn = 1 /\ returned = {}
        /\ DOMAIN icon = 1..MaxIcons /\ found \in Nat
    BY DEF IconInv, IconTypes, InOrder, StartIcons
  <1>2. iconArgs'.count \in Nat /\ iconArgs'.count >= 1
    BY <1>1, IconsAssumption DEF IconArgs
  <1>3. IconTypes'
    BY <1>1, <1>2 DEF IconTypes
  <1>4. RoomLeft' /\ InOrder' /\ AsMade'
    BY <1>1 DEF RoomLeft, InOrder, AsMade
  <1>5. QED
    BY <1>3, <1>4 DEF IconInv

\* The next icon, when the returned ones are the same files as before, this one perhaps
\* among them.
LEMMA NextIconKeeps ==
  ASSUME IconInv, iconStage \in {"ask", "save"}, NextIcon, found' = 0, iconArgs' = iconArgs,
         DOMAIN icon' = 1..MaxIcons, returned' \subseteq returned \cup {turn},
         \A k \in returned' : /\ icon'[k].whole /\ icon'[k].drawn \in Drawn
                              /\ icon'[k].svg = FinishedAt(iconArgs, k, icon'[k].drawn),
         iconArgs.mode = "batch" => returned' = {} \/ 1..turn \subseteq returned'
  PROVE  IconInv'
  <1>1. /\ iconArgs \in IconArgs /\ turn \in 1..iconArgs.count /\ returned \subseteq 1..turn
    BY DEF IconInv, IconTypes, InOrder
  <1>2. iconArgs.count \in Nat
    BY <1>1, IconsAssumption DEF IconArgs
  <1>3. \/ iconArgs.mode = "sizes" /\ iconStage' = "ask" /\ turn' = turn + 1 /\ turn' \in 1..iconArgs.count
        \/ iconStage' = "ended" /\ turn' = turn
    BY <1>1, <1>2 DEF NextIcon
  <1>4. IconTypes'
    BY <1>1, <1>3 DEF IconTypes
  <1>5. RoomLeft'
    BY <1>3 DEF RoomLeft
  <1>6. InOrder'
    BY <1>1, <1>2, <1>3 DEF InOrder
  <1>7. AsMade'
    BY DEF AsMade
  <1>8. QED
    BY <1>4, <1>5, <1>6, <1>7 DEF IconInv

LEMMA NoResultKeeps == ASSUME IconInv, iconStage = "ask", NoResult PROVE IconInv'
  <1>1. /\ NextIcon /\ found' = 0 /\ iconArgs' = iconArgs /\ icon' = icon
        /\ returned' = IF iconArgs.mode = "batch" THEN {} ELSE returned
    BY DEF NoResult
  <1>2. DOMAIN icon' = 1..MaxIcons /\ returned' \subseteq returned
    BY <1>1 DEF IconInv, IconTypes
  <1>3. \A k \in returned' : /\ icon'[k].whole /\ icon'[k].drawn \in Drawn
                             /\ icon'[k].svg = FinishedAt(iconArgs, k, icon'[k].drawn)
    BY <1>1, <1>2 DEF IconInv, AsMade
  <1>4. QED
    BY <1>1, <1>2, <1>3, NextIconKeeps

LEMMA AskKeeps == ASSUME IconInv, AskModel PROVE IconInv'
  <1>1. iconStage = "ask"
    BY DEF AskModel
  <1>2. CASE NoResult
    BY <1>1, <1>2, NoResultKeeps
  <1>3. CASE ~NoResult
    <2>1. PICK text \in BoundedSeq(Block, MaxAnswer) :
            /\ Cardinality(ExtractSvgs(text)) > 0
            /\ found' = IF iconArgs.mode # "batch" THEN 1
                        ELSE IF Cardinality(ExtractSvgs(text)) < iconArgs.count
                             THEN Cardinality(ExtractSvgs(text)) ELSE iconArgs.count
            /\ iconStage' = "save" /\ iconArgs' = iconArgs /\ turn' = turn /\ icon' = icon /\ returned' = returned
      BY <1>3 DEF AskModel
    <2>2. Cardinality(ExtractSvgs(text)) \in Nat
      BY SvgsAreCounted
    <2>3. /\ iconArgs \in IconArgs /\ turn \in 1..iconArgs.count /\ DOMAIN icon = 1..MaxIcons
          /\ iconArgs.mode = "batch" => turn = 1
          /\ returned \subseteq 1..turn /\ turn \notin returned
      BY <1>1 DEF IconInv, IconTypes, RoomLeft, InOrder
    <2>4. iconArgs.count \in Nat /\ iconArgs.count >= 1
      BY <2>3, IconsAssumption DEF IconArgs
    <2>5. found' \in Nat /\ found' >= 1 /\ turn + found' <= iconArgs.count + 1
      BY <2>1, <2>2, <2>3, <2>4
    <2>6. IconTypes'
      BY <2>1, <2>3, <2>5 DEF IconTypes
    <2>7. RoomLeft'
      BY <2>1, <2>5 DEF RoomLeft
    <2>8. InOrder'
      BY <2>1, <2>3 DEF InOrder
    <2>9. AsMade'
      BY <2>1 DEF IconInv, AsMade
    <2>10. QED
      BY <2>6, <2>7, <2>8, <2>9 DEF IconInv
  <1>4. QED
    BY <1>2, <1>3

LEMMA SaveIconKeeps == ASSUME IconInv, SaveIcon PROVE IconInv'
  <1>1. PICK svg \in Drawn, whole \in BOOLEAN :
          /\ icon' = [icon EXCEPT ![turn] = [drawn |-> svg, svg |-> Finished(svg), whole |-> whole]]
          /\ \/ /\ whole /\ found = 1
                /\ returned' = returned \cup {turn}
                /\ found' = 0 /\ NextIcon
             \/ /\ whole /\ found > 1
                /\ returned' = returned \cup {turn}
                /\ found' = found - 1 /\ turn' = turn + 1 /\ iconStage' = iconStage
             \/ /\ ~whole
                /\ NextIcon /\ found' = 0
                /\ returned' = IF iconArgs.mode = "batch" THEN {} ELSE returned
    BY DEF SaveIcon
  <1>2. iconStage = "save" /\ iconArgs' = iconArgs
    BY DEF SaveIcon
  <1>3. /\ iconArgs \in IconArgs /\ turn \in 1..iconArgs.count /\ found \in Nat /\ DOMAIN icon = 1..MaxIcons
        /\ returned \subseteq 1..turn /\ turn \notin returned
        /\ found >= 1 /\ turn + found <= iconArgs.count + 1
        /\ iconArgs.mode # "batch" => found = 1
        /\ iconArgs.mode = "batch" => 1..(turn - 1) \subseteq returned
    BY <1>2 DEF IconInv, IconTypes, InOrder, RoomLeft
  <1>4. iconArgs.count \in 1..MaxIcons /\ turn \in 1..MaxIcons
    BY <1>3, IconsAssumption DEF IconArgs
  <1>5. /\ DOMAIN icon' = 1..MaxIcons
        /\ \A k \in 1..MaxIcons : k # turn => icon'[k] = icon[k]
        /\ icon'[turn] = [drawn |-> svg, svg |-> Finished(svg), whole |-> whole]
    BY <1>1, <1>3, <1>4
  <1>6. svg \in Svg /\ Finished(svg) = FinishedAt(iconArgs, turn, svg)
    BY IconsAssumption DEF Finished, FinishedAt
  <1>7. \A k \in returned : /\ icon'[k].whole /\ icon'[k].drawn \in Drawn
                            /\ icon'[k].svg = FinishedAt(iconArgs, k, icon'[k].drawn)
    <2>1. \A k \in returned : k \in 1..MaxIcons /\ k # turn
      BY <1>3, <1>4, IconsAssumption
    <2>2. QED
      BY <1>5, <2>1 DEF IconInv, AsMade
  <1>8. whole => /\ icon'[turn].whole /\ icon'[turn].drawn \in Drawn
                 /\ icon'[turn].svg = FinishedAt(iconArgs, turn, icon'[turn].drawn)
    BY <1>5, <1>6
  <1>9. iconArgs.mode = "batch" => 1..turn \subseteq returned \cup {turn}
    BY <1>3, <1>4
  <1>10. CASE whole /\ found = 1 /\ returned' = returned \cup {turn} /\ found' = 0 /\ NextIcon
    <2>1. \A k \in returned' : /\ icon'[k].whole /\ icon'[k].drawn \in Drawn
                               /\ icon'[k].svg = FinishedAt(iconArgs, k, icon'[k].drawn)
      BY <1>7, <1>8, <1>10
    <2>2. iconArgs.mode = "batch" => 1..turn \subseteq returned'
      BY <1>9, <1>10
    <2>3. QED
      BY <1>2, <1>5, <1>10, <2>1, <2>2, NextIconKeeps
  <1>11. CASE whole /\ found > 1 /\ returned' = returned \cup {turn} /\ found' = found - 1 /\ turn' = turn + 1
              /\ iconStage' = iconStage
    <2>1. AsMade'
      BY <1>2, <1>7, <1>8, <1>11 DEF AsMade
    <2>2. turn' \in 1..iconArgs.count /\ found' \in Nat /\ found' >= 1 /\ turn' + found' <= iconArgs.count + 1
      BY <1>3, <1>4, <1>11
    <2>3. IconTypes'
      BY <1>2, <1>3, <1>5, <1>11, <2>2 DEF IconTypes
    <2>4. iconArgs.mode = "batch"
      BY <1>3, <1>11
    <2>5. RoomLeft'
      BY <1>2, <1>11, <2>2, <2>4 DEF RoomLeft
    <2>6. InOrder'
      <3>1. turn' - 1 = turn /\ turn' \notin returned' /\ returned' \subseteq 1..turn'
        BY <1>3, <1>4, <1>11
      <3>2. QED
        BY <1>2, <1>9, <1>11, <3>1 DEF InOrder
    <2>7. QED
      BY <2>1, <2>3, <2>5, <2>6 DEF IconInv
  <1>12. CASE ~whole /\ NextIcon /\ found' = 0 /\ returned' = IF iconArgs.mode = "batch" THEN {} ELSE returned
    <2>1. \A k \in returned' : /\ icon'[k].whole /\ icon'[k].drawn \in Drawn
                               /\ icon'[k].svg = FinishedAt(iconArgs, k, icon'[k].drawn)
      BY <1>7, <1>12
    <2>2. QED
      BY <1>2, <1>5, <1>12, <2>1, NextIconKeeps
  <1>13. QED
    BY <1>1, <1>10, <1>11, <1>12

LEMMA IconStep == IconInv /\ [IconsNext]_iconVars => IconInv'
  <1> SUFFICES ASSUME IconInv, [IconsNext]_iconVars PROVE IconInv'
    OBVIOUS
  <1>1. CASE UNCHANGED iconVars
    BY <1>1 DEF iconVars, IconInv, IconTypes, RoomLeft, InOrder, AsMade
  <1>2. QED
    BY <1>1, StartKeeps, AskKeeps, SaveIconKeeps DEF IconsNext

LEMMA IconsAlways == IconsSpec => []IconInv
  BY IconStart, IconStep, PTL DEF IconsSpec

LEMMA IconInvSuffices == IconInv => IconsReturned /\ SizedUnlessStroked
  <1> SUFFICES ASSUME IconInv PROVE IconsReturned /\ SizedUnlessStroked
    OBVIOUS
  <1>1. iconArgs \in IconArgs /\ turn \in Nat /\ returned \subseteq 1..turn
    BY IconsAssumption DEF IconInv, IconTypes, IconArgs, InOrder
  <1>2. \A k \in returned : /\ k \in Nat /\ icon[k].whole /\ icon[k].drawn \in Drawn
                            /\ icon[k].svg = FinishedAt(iconArgs, k, icon[k].drawn)
    BY <1>1 DEF IconInv, AsMade
  <1>3. IconsReturned
    <2>1. \A k \in returned : icon[k].whole /\ (iconArgs.color => "currentColor" \notin icon[k].svg.paint)
      BY <1>1, <1>2, SvgIsFinished
    <2>2. iconStage = "ended" /\ iconArgs.mode = "batch" => \A k \in returned : 1..k \subseteq returned
      BY <1>1 DEF IconInv, InOrder
    <2>3. QED
      BY <2>1, <2>2 DEF IconsReturned
  <1>4. SizedUnlessStroked
    <2>1. SUFFICES ASSUME NEW k \in returned, iconArgs.mode # "batch"
                   PROVE  LET drawn == icon[k].drawn
                              svg == icon[k].svg
                              size == Pixels(iconArgs, k)
                              plain == drawn.stroke = 0 /\ drawn.child = 0
                          IN /\ svg.width = size <=> drawn.width # 0 \/ plain
                             /\ svg.stroke = drawn.stroke /\ svg.child = drawn.child /\ ~svg.twice <=>
                                  /\ {drawn.stroke, drawn.child} \subseteq {0, size}
                                  /\ drawn.width # 0 \/ drawn.height = 0 \/ ~plain
      BY DEF SizedUnlessStroked
    <2> DEFINE s == icon[k].drawn
               svg == icon[k].svg
               size == Pixels(iconArgs, k)
               Sub(n) == IF n = 0 THEN 0 ELSE size
               plain == s.stroke = 0 /\ s.child = 0
    <2>2. /\ size \in {24, 512}
          /\ svg.width = (IF s.width # 0 \/ plain THEN size ELSE 0)
          /\ svg.stroke = Sub(s.stroke) /\ svg.child = Sub(s.child)
          /\ svg.twice <=> s.width = 0 /\ plain /\ s.height # 0
      BY <1>1, <1>2, <2>1, SvgIsFinished
    <2> HIDE DEF s, svg, size
    <2>3. /\ svg.width = size <=> s.width # 0 \/ plain
          /\ svg.stroke = s.stroke <=> s.stroke \in {0, size}
          /\ svg.child = s.child <=> s.child \in {0, size}
      BY <2>2
    <2>4. /\ svg.width = size <=> s.width # 0 \/ plain
          /\ svg.stroke = s.stroke /\ svg.child = s.child /\ ~svg.twice <=>
               /\ {s.stroke, s.child} \subseteq {0, size}
               /\ s.width # 0 \/ s.height = 0 \/ ~plain
      BY <2>2, <2>3
    <2>5. QED
      BY <2>4 DEF s, svg, size
  <1>5. QED
    BY <1>3, <1>4

-----------------------------------------------------------------------------
(***************************************************************************)
(* Decks: the page of a deck is what the generator made of some slides,    *)
(* whatever else is written beside it.                                     *)
(***************************************************************************)

DecksInv ==
  \A f \in DOMAIN deckFile : f[2] # Index => \E slides \in DeckData : deckFile[f] = GenerateDeck(slides)

\* What the validator has against a generated page.
LEMMA RefusedDecks ==
  ASSUME NEW slides \in DeckData
  PROVE  ~ValidateHtml(GenerateDeck(slides)) <=>
           \E s \in Range(slides) : s.type = "solution" \/ (s.colorText = "styled" /\ s.type # "unknown")
  <1>1. \A s \in Range(slides) :
          (\E l \in SlideLiterals(s) : Hardcoded(l)) <=>
             s.type = "solution" \/ (s.colorText = "styled" /\ s.type # "unknown")
    <2>1. SUFFICES ASSUME NEW s \in Range(slides)
                   PROVE  (\E l \in SlideLiterals(s) : Hardcoded(l)) <=>
                            s.type = "solution" \/ (s.colorText = "styled" /\ s.type # "unknown")
      OBVIOUS
    <2>2. (\E l \in OwnLiterals(s.type) : Hardcoded(l)) <=> s.type = "solution"
      <3>1. CASE s.type = "solution"
        BY <3>1 DEF OwnLiterals, Hardcoded, Literal
      <3>2. CASE s.type = "cta"
        BY <3>2 DEF OwnLiterals, Hardcoded, Literal
      <3>3. CASE s.type # "solution" /\ s.type # "cta"
        BY <3>3 DEF OwnLiterals
      <3>4. QED
        BY <3>1, <3>2, <3>3
    <2>3. (\E l \in TextLiterals(s) : Hardcoded(l)) <=> s.colorText = "styled"
      <3>1. CASE s.colorText = "plain"
        BY <3>1 DEF TextLiterals, Hardcoded, Literal
      <3>2. CASE s.colorText = "styled"
        BY <3>2 DEF TextLiterals, Hardcoded, Literal
      <3>3. CASE s.colorText # "plain" /\ s.colorText # "styled"
        BY <3>3 DEF TextLiterals
      <3>4. QED
        BY <3>1, <3>2, <3>3
    <2>4. CASE s.type = "unknown"
      BY <2>4 DEF SlideLiterals
    <2>5. CASE s.type # "unknown"
      BY <2>2, <2>3, <2>5 DEF SlideLiterals
    <2>6. QED
      BY <2>4, <2>5
  <1>2. /\ GenerateDeck(slides).tokens = TRUE
        /\ GenerateDeck(slides).literals = UNION {SlideLiterals(s) : s \in Range(slides)}
    BY DEF GenerateDeck
  <1>3. QED
    BY <1>1, <1>2 DEF ValidateHtml

LEMMA DecksStep == DecksInv /\ [DecksNext]_deckVars => DecksInv'
  <1> SUFFICES ASSUME DecksInv, [DecksNext]_deckVars PROVE DecksInv'
    OBVIOUS
  <1>1. CASE deckFile' = deckFile
    BY <1>1 DEF DecksInv
  <1>2. ASSUME NEW slides \in DeckData, WriteDeck(slides) PROVE DecksInv'
    <2> DEFINE f == <<Home, <<"deck", minute>>>>
    <2>1. deckFile' = [g \in DOMAIN deckFile \cup {f} |-> IF g = f THEN GenerateDeck(slides) ELSE deckFile[g]]
      BY <1>2 DEF WriteDeck, Put
    <2> HIDE DEF f
    <2>2. QED
      BY <2>1 DEF DecksInv
  <1>3. ASSUME NEW place \in Place, NEW page, WritePage(place, page) PROVE DecksInv'
    <2> DEFINE f == <<place, Index>>
    <2>1. deckFile' = [g \in DOMAIN deckFile \cup {f} |-> IF g = f THEN page ELSE deckFile[g]]
      BY <1>3 DEF WritePage, Put
    <2>2. f[2] = Index
      OBVIOUS
    <2> HIDE DEF f
    <2>3. QED
      BY <2>1, <2>2 DEF DecksInv
  <1>4. QED
    BY <1>1, <1>2, <1>3 DEF DecksNext, Tick, SlideTokenValidator, Validate, deckVars

\* Only the validator gives verdicts, on the pages as they are.
LEMMA VerdictsGiven ==
  ASSUME [DecksNext]_deckVars, verdicts' # verdicts
  PROVE  \E place, override, type : Validate(place, override, type)
  BY DEF DecksNext, Tick, WriteDeck, WritePage, SlideTokenValidator, deckVars

LEMMA DecksAreRefused ==
  ASSUME DecksInv, [DecksNext]_deckVars, verdicts' # verdicts, NEW f \in verdicts'.looked, f[2] # Index
  PROVE  f \in verdicts'.refused <=>
           \E s \in Range(deckFile[f].slides) :
             s.type = "solution" \/ (s.colorText = "styled" /\ s.type # "unknown")
  <1>1. PICK place, override, type : Validate(place, override, type)
    BY VerdictsGiven
  <1>2. /\ verdicts'.looked = Directory(Root(place, override), type)
        /\ verdicts'.refused = {g \in verdicts'.looked : ~ValidateHtml(deckFile[g])}
    BY <1>1 DEF Validate
  <1>3. f \in DOMAIN deckFile
    BY <1>2 DEF Directory
  <1>4. PICK slides \in DeckData : deckFile[f] = GenerateDeck(slides)
    BY <1>3 DEF DecksInv
  <1>5. deckFile[f].slides = slides
    BY <1>4 DEF GenerateDeck
  <1>6. QED
    BY <1>2, <1>4, <1>5, RefusedDecks

LEMMA ZeroIsClean ==
  ASSUME [DecksNext]_deckVars, verdicts' # verdicts, verdicts'.exit = 0, verdicts'.type \in {"slides", "all"},
         NEW f \in DOMAIN deckFile, f[1] = verdicts'.place
  PROVE  ValidateHtml(deckFile[f])
  <1>1. PICK place, override, type : Validate(place, override, type)
    BY VerdictsGiven
  <1>2. /\ verdicts'.looked = Directory(Root(place, override), type)
        /\ verdicts'.refused = {g \in verdicts'.looked : ~ValidateHtml(deckFile[g])}
        /\ verdicts'.exit = ExitCode(verdicts'.looked, verdicts'.refused)
        /\ verdicts'.type = type /\ verdicts'.place = Root(place, override)
    BY <1>1 DEF Validate
  <1>3. f \in verdicts'.looked
    BY <1>2 DEF Directory
  <1>4. verdicts'.refused = {}
    BY <1>2 DEF ExitCode
  <1>5. QED
    BY <1>2, <1>3, <1>4

LEMMA DecksAlwaysJudged == DecksSpec => DeckRefused /\ ExitIsHonest
  <1>1. DecksInit => DecksInv
    BY DEF DecksInit, DecksInv
  <1>2. DecksInv /\ [DecksNext]_deckVars =>
          [verdicts' # verdicts =>
             \A f \in verdicts'.looked : f[2] # Index =>
               (f \in verdicts'.refused <=>
                  \E s \in Range(deckFile[f].slides) :
                    s.type = "solution" \/ (s.colorText = "styled" /\ s.type # "unknown"))]_deckVars
    BY DecksAreRefused
  <1>3. [DecksNext]_deckVars =>
          [verdicts' # verdicts /\ verdicts'.exit = 0 /\ verdicts'.type \in {"slides", "all"} =>
             \A f \in DOMAIN deckFile : f[1] = verdicts'.place => ValidateHtml(deckFile[f])]_deckVars
    BY ZeroIsClean
  <1>4. QED
    BY <1>1, <1>2, <1>3, DecksStep, PTL DEF DecksSpec, DeckRefused, ExitIsHonest

-----------------------------------------------------------------------------
(***************************************************************************)
(* SlideAdvice: which slides of a deck can be full-bleed, and which break  *)
(* the pattern, is settled by their positions and the emotions so far.     *)
(***************************************************************************)

AdviceTypes == total \in Nat /\ slide \in 0..total
BleedsPlaced == bleeds = {n \in 1..slide : FullBleed(n, total, emotions[n])}
EmotionBefore(n) == IF n = 1 THEN "none" ELSE emotions[n - 1]
BreaksMade == breaks = {n \in 1..slide : PatternBreak(n, total, EmotionBefore(n))}
OverlayMade ==
  overlay = NoOverlay \/
  \E tokens \in [Role -> Token], style \in {"gradient-dark", "gradient-brand", "gradient-accent", "blur-dark"} :
    overlay = [style |-> style, tokens |-> tokens,
               colors |-> {BrandColors(tokens)[x] : x \in OverlayRoles(style)}]
AdviceInv == AdviceTypes /\ BleedsPlaced /\ BreaksMade /\ OverlayMade

LEMMA AdviceKeeps == ASSUME AdviceInv, AdviseSlide PROVE AdviceInv'
  <1> DEFINE n == slide + 1
  <1>1. PICK row :
          /\ emotions' = [i \in 1..n |-> IF i = n THEN row.emotion ELSE emotions[i]]
          /\ bleeds' = IF FullBleed(n, total, row.emotion) THEN bleeds \cup {n} ELSE bleeds
          /\ breaks' = IF PatternBreak(n, total, Previous) THEN breaks \cup {n} ELSE breaks
    BY DEF AdviseSlide
  <1>2. slide < total /\ slide' = n /\ total' = total /\ overlay' = overlay /\ total \in Nat /\ slide \in Nat
    BY DEF AdviseSlide, AdviceInv, AdviceTypes
  <1>3. AdviceTypes'
    BY <1>2 DEF AdviceTypes
  <1>4. /\ 1..n = 1..slide \cup {n} /\ n \notin 1..slide /\ n \in Nat
        /\ \A k \in 1..slide : emotions'[k] = emotions[k]
        /\ emotions'[n] = row.emotion
    <2>1. 1..n = 1..slide \cup {n} /\ n \notin 1..slide /\ n \in 1..n /\ n \in Nat
      BY <1>2
    <2> HIDE DEF n
    <2>2. QED
      BY <1>1, <2>1
  <1>5. BleedsPlaced' /\ BreaksMade'
    <2>1. bleeds' = {k \in 1..n : FullBleed(k, total, emotions'[k])}
      <3> HIDE DEF n
      <3>1. QED
        BY <1>1, <1>4 DEF AdviceInv, BleedsPlaced
    <2> DEFINE Then(k) == IF k = 1 THEN "none" ELSE emotions'[k - 1]
    <2>2. Previous = Then(n)
      <3>1. CASE slide = 0
        BY <1>2, <3>1 DEF Previous
      <3>2. CASE slide # 0
        <4>1. slide \in 1..slide /\ n # 1 /\ n - 1 = slide
          BY <1>2, <3>2
        <4>2. QED
          BY <1>4, <3>2, <4>1 DEF Previous
      <3>3. QED
        BY <3>1, <3>2
    <2>3. ASSUME NEW k \in 1..slide PROVE Then(k) = EmotionBefore(k)
      <3>1. k # 1 => k - 1 \in 1..slide
        BY <1>2
      <3>2. QED
        BY <1>4, <3>1 DEF EmotionBefore
    <2>4. breaks' = {k \in 1..n : PatternBreak(k, total, Then(k))}
      <3> HIDE DEF n, Then
      <3>1. QED
        BY <1>1, <1>4, <2>2, <2>3 DEF AdviceInv, BreaksMade
    <2>5. QED
      BY <1>2, <2>1, <2>4 DEF BleedsPlaced, BreaksMade, EmotionBefore
  <1>6. OverlayMade'
    BY <1>2 DEF AdviceInv, OverlayMade
  <1>7. QED
    BY <1>3, <1>5, <1>6 DEF AdviceInv

LEMMA AdviceAlways == AdviceSpec => []AdviceInv
  <1>1. AdviceInit => AdviceInv
    <2>1. 1..0 = {}
      OBVIOUS
    <2>2. QED
      BY <2>1 DEF AdviceInit, AdviceInv, AdviceTypes, BleedsPlaced, BreaksMade, OverlayMade
  <1>2. ASSUME AdviceInv, [AdviceNext]_adviceVars PROVE AdviceInv'
    <2>1. CASE BeginDeck
      <3>1. total = 0 /\ slide = 0 /\ 1..slide = {} /\ overlay' = overlay
            /\ slide' = slide /\ bleeds' = bleeds /\ breaks' = breaks
        BY <1>2, <2>1 DEF BeginDeck, AdviceInv, AdviceTypes
      <3>2. total' \in Nat \ {0}
        BY <2>1, AdviceAssumption, Zenon DEF BeginDeck
      <3>3. bleeds = {} /\ breaks = {}
        BY <1>2, <3>1 DEF AdviceInv, BleedsPlaced, BreaksMade
      <3>4. BleedsPlaced' /\ BreaksMade'
        BY <3>1, <3>3 DEF BleedsPlaced, BreaksMade
      <3>5. QED
        BY <1>2, <3>1, <3>2, <3>4 DEF AdviceInv, AdviceTypes, OverlayMade
    <2>2. CASE FetchBackground
      <3>1. OverlayMade'
        BY <2>2 DEF FetchBackground, OverlayMade
      <3>2. AdviceTypes' /\ BleedsPlaced' /\ BreaksMade'
        BY <1>2, <2>2 DEF FetchBackground, AdviceInv, AdviceTypes, BleedsPlaced, BreaksMade, EmotionBefore
      <3>3. QED
        BY <3>1, <3>2 DEF AdviceInv
    <2>3. CASE UNCHANGED adviceVars
      BY <1>2, <2>3 DEF adviceVars, AdviceInv, AdviceTypes, BleedsPlaced, BreaksMade, EmotionBefore, OverlayMade
    <2>4. QED
      BY <1>2, <2>1, <2>2, <2>3, AdviceKeeps DEF AdviceNext
  <1>3. QED
    BY <1>1, <1>2, PTL DEF AdviceSpec

LEMMA OneMore ==
  ASSUME NEW S, IsFiniteSet(S), NEW n \in Nat, Cardinality(S) <= n, NEW x
  PROVE  IsFiniteSet(S \cup {x}) /\ Cardinality(S \cup {x}) <= n + 1
  <1>1. Cardinality(S) \in Nat
    BY FS_CardinalityType
  <1>2. CASE x \in S
    <2>1. IsFiniteSet(S \cup {x}) /\ Cardinality(S \cup {x}) = Cardinality(S)
      BY <1>2, FS_AddElement
    <2>2. QED
      BY <1>1, <2>1
  <1>3. CASE x \notin S
    <2>1. IsFiniteSet(S \cup {x}) /\ Cardinality(S \cup {x}) = Cardinality(S) + 1
      BY <1>3, FS_AddElement
    <2>2. QED
      BY <1>1, <2>1
  <1>4. QED
    BY <1>2, <1>3

LEMMA FourAtMost ==
  ASSUME NEW a, NEW b, NEW c, NEW d, NEW S, S \subseteq {a, b, c, d}
  PROVE  Cardinality(S) <= 4
  <1> DEFINE A == {a}
             B == A \cup {b}
             C == B \cup {c}
             D == C \cup {d}
  <1>1. IsFiniteSet(A) /\ Cardinality(A) <= 1
    BY FS_Singleton
  <1>2. IsFiniteSet(B) /\ Cardinality(B) <= 2
    <2> HIDE DEF A
    <2>1. QED
      BY <1>1, OneMore
  <1>3. IsFiniteSet(C) /\ Cardinality(C) <= 3
    <2> HIDE DEF B
    <2>1. QED
      BY <1>2, OneMore
  <1>4. IsFiniteSet(D) /\ Cardinality(D) <= 4
    <2> HIDE DEF C
    <2>1. QED
      BY <1>3, OneMore
  <1>5. S \subseteq D
    OBVIOUS
  <1> HIDE DEF D
  <1>6. IsFiniteSet(S) /\ Cardinality(S) <= Cardinality(D)
    BY <1>4, <1>5, FS_Subset
  <1>7. Cardinality(S) \in Nat /\ Cardinality(D) \in Nat
    BY <1>4, <1>6, FS_CardinalityType
  <1>8. QED
    BY <1>4, <1>6, <1>7

LEMMA FourDistinct ==
  ASSUME NEW a, NEW b, NEW c, NEW d, a # b, a # c, a # d, b # c, b # d, c # d
  PROVE  Cardinality({a, b, c, d}) = 4
  <1> DEFINE A == {a}
             B == A \cup {b}
             C == B \cup {c}
             D == C \cup {d}
  <1>1. IsFiniteSet(A) /\ Cardinality(A) = 1 /\ b \notin A
    BY FS_Singleton
  <1>2. IsFiniteSet(B) /\ Cardinality(B) = 2 /\ c \notin B
    <2>1. c \notin B
      OBVIOUS
    <2> HIDE DEF A
    <2>2. QED
      BY <1>1, <2>1, FS_AddElement
  <1>3. IsFiniteSet(C) /\ Cardinality(C) = 3 /\ d \notin C
    <2>1. d \notin C
      OBVIOUS
    <2> HIDE DEF B
    <2>2. QED
      BY <1>2, <2>1, FS_AddElement
  <1>4. D = {a, b, c, d}
    OBVIOUS
  <1> HIDE DEF C
  <1>5. Cardinality(D) = 4
    BY <1>3, FS_AddElement
  <1>6. QED
    BY <1>4, <1>5

\* Without a reference or a group among the tokens, all roles have colors.
LEMMA RolesAreColors ==
  ASSUME NEW tokens \in [Role -> Token], \A x \in Role : tokens[x] \notin {"toReference", "toGroup"}
  PROVE  \A x \in Role : BrandColors(tokens)[x] = "color"
  <1>1. \A x \in Role : ResolveToken(tokens[x]) \in {"none", "color"}
    <2>1. SUFFICES ASSUME NEW x \in Role PROVE ResolveToken(tokens[x]) \in {"none", "color"}
      OBVIOUS
    <2>2. tokens[x] \in {"missing", "toNothing", "color", "toColor"}
      BY DEF Token
    <2>3. CASE tokens[x] \in {"missing", "toNothing"}
      BY <2>3 DEF ResolveToken
    <2>4. CASE tokens[x] \in {"color", "toColor"}
      BY <2>4 DEF ResolveToken
    <2>5. QED
      BY <2>2, <2>3, <2>4
  <1> DEFINE r == [x \in Role |-> ResolveToken(tokens[x])]
  <1>2. \A x \in Role : r[x] \in {"none", "color"}
    BY <1>1
  <1>3. BrandColors(tokens) =
          IF "none" \in {r["primary"], r["secondary"]} THEN [x \in Role |-> "color"]
          ELSE [x \in Role |-> IF r[x] # "none" THEN r[x]
                               ELSE IF x = "accent" THEN r["primary"] ELSE "color"]
    BY DEF BrandColors
  <1>4. "primary" \in Role
    BY DEF Role
  <1> HIDE DEF r
  <1>5. QED
    BY <1>2, <1>3, <1>4

LEMMA AdviceInvSuffices == AdviceInv => FullBleedApart /\ ContrastBreaks /\ OverlayIsColor
  <1> SUFFICES ASSUME AdviceInv PROVE FullBleedApart /\ ContrastBreaks /\ OverlayIsColor
    OBVIOUS
  <1>1. total \in Nat /\ slide \in 0..total
    BY DEF AdviceInv, AdviceTypes
  <1> DEFINE P == Part(total)
  <1>2. /\ P \in Nat /\ 3 * P <= total
        /\ total < 3 * P + 3
    BY <1>1 DEF Part
  <1> HIDE DEF P
  <1>3. \A n : n \in bleeds <=> n \in 1..slide /\ emotions[n] \in Strong /\ total >= 3 /\ n \in {1, P, 2 * P, total - 1}
    BY DEF AdviceInv, BleedsPlaced, FullBleed, P
  <1>4. FullBleedApart
    <2>1. \A n \in bleeds : emotions[n] \in Strong /\ n < total
      BY <1>1, <1>2, <1>3
    <2>2. Cardinality(bleeds) <= 4
      <3>1. bleeds \subseteq {1, P, 2 * P, total - 1}
        BY <1>3
      <3>2. QED
        BY <3>1, FourAtMost
    <2>3. ASSUME NEW n \in bleeds, n + 1 \in bleeds PROVE total \in 3..8 /\ n \in {1, total - 2}
      <3>1. /\ n \in Nat /\ total >= 3 /\ n \in {1, P, 2 * P, total - 1}
            /\ n + 1 \in 1..slide /\ n + 1 \in {1, P, 2 * P, total - 1}
        BY <1>1, <1>3, <2>3
      <3>2. CASE total >= 9
        <4>1. P >= 3
          BY <1>1, <1>2, <3>2
        <4>2. QED
          BY <1>1, <1>2, <3>1, <3>2, <4>1
      <3>3. CASE total < 9
        <4>1. P = 1 \/ P = 2
          BY <1>1, <1>2, <3>1, <3>3
        <4>2. QED
          BY <1>1, <1>2, <3>1, <3>3, <4>1
      <3>4. QED
        BY <1>1, <3>2, <3>3
    <2>4. ASSUME slide = total, total >= 3, \A n \in 1..total : emotions[n] \in Strong
          PROVE  IF total <= 8 THEN {1, 2} \subseteq bleeds ELSE Cardinality(bleeds) = 4
      <3>1. \A n \in 1..total : n \in {1, P, 2 * P, total - 1} => n \in bleeds
        BY <1>3, <2>4
      <3>2. CASE total <= 8
        <4>1. P = 1 \/ P = 2
          BY <1>1, <1>2, <2>4, <3>2
        <4>2. 1 \in 1..total /\ 2 \in 1..total /\ 2 \in {P, 2 * P}
          BY <1>1, <2>4, <4>1
        <4>3. QED
          BY <3>1, <3>2, <4>2
      <3>3. CASE total >= 9
        <4>1. P >= 3 /\ P \in 1..total /\ 2 * P \in 1..total /\ total - 1 \in 1..total /\ 1 \in 1..total
          BY <1>1, <1>2, <3>3
        <4>2. 1 # P /\ 1 # 2 * P /\ 1 # total - 1 /\ P # 2 * P /\ P # total - 1 /\ 2 * P # total - 1
          BY <1>1, <1>2, <3>3, <4>1
        <4>3. bleeds = {1, P, 2 * P, total - 1}
          <5>1. bleeds \subseteq {1, P, 2 * P, total - 1}
            BY <1>3
          <5>2. 1 \in bleeds /\ P \in bleeds /\ 2 * P \in bleeds /\ total - 1 \in bleeds
            BY <3>1, <4>1
          <5>3. QED
            BY <5>1, <5>2
        <4>4. Cardinality(bleeds) = 4
          <5> DEFINE twice == 2 * P
                     penult == total - 1
          <5>1. bleeds = {1, P, twice, penult}
            BY <4>3
          <5>2. 1 # P /\ 1 # twice /\ 1 # penult /\ P # twice /\ P # penult /\ twice # penult
            BY <4>2
          <5> HIDE DEF twice, penult
          <5>3. \A p, q, r : 1 # p /\ 1 # q /\ 1 # r /\ p # q /\ p # r /\ q # r => Cardinality({1, p, q, r}) = 4
            <6> SUFFICES ASSUME NEW p, NEW q, NEW r, 1 # p, 1 # q, 1 # r, p # q, p # r, q # r
                         PROVE  Cardinality({1, p, q, r}) = 4
              OBVIOUS
            <6>1. QED
              BY FourDistinct
          <5>4. QED
            BY <5>1, <5>2, <5>3
        <4>5. QED
          BY <1>1, <3>3, <4>4
      <3>4. QED
        BY <1>1, <3>2, <3>3
    <2>5. QED
      BY <2>1, <2>2, <2>3, <2>4 DEF FullBleedApart
  <1>5. ContrastBreaks
    <2>1. SUFFICES ASSUME total >= 5, slide = total
                   PROVE  /\ \A n \in 2..total : emotions[n] \in Contrasting(emotions[n - 1]) => n \in breaks
                          /\ \E n \in breaks : n < total
                          /\ \A n \in breaks : \/ n \in {total \div 3, 2 * (total \div 3)}
                                               \/ n > 1 /\ emotions[n - 1] \in {"frustration", "hope", "fear"}
      BY DEF ContrastBreaks
    <2>2. \A n : n \in breaks <=> n \in 1..total /\ (n \in {P, 2 * P} \/ Contrasting(EmotionBefore(n)) # {})
      BY <2>1 DEF AdviceInv, BreaksMade, PatternBreak, P
    <2>3. \A e : Contrasting(e) # {} => e \in {"frustration", "hope", "fear"}
      BY DEF Contrasting
    <2>4. \A n \in 2..total : emotions[n] \in Contrasting(emotions[n - 1]) => n \in breaks
      <3>1. \A n \in 2..total : n \in 1..total /\ EmotionBefore(n) = emotions[n - 1]
        BY <1>1 DEF EmotionBefore
      <3>2. QED
        BY <2>2, <3>1
    <2>5. P \in breaks /\ P < total
      BY <1>1, <1>2, <2>1, <2>2
    <2>6. ASSUME NEW n \in breaks, n \notin {P, 2 * P}
          PROVE  n > 1 /\ emotions[n - 1] \in {"frustration", "hope", "fear"}
      <3>1. n \in 1..total /\ EmotionBefore(n) \in {"frustration", "hope", "fear"}
        BY <2>2, <2>3, <2>6
      <3>2. n # 1
        BY <3>1 DEF EmotionBefore
      <3>3. QED
        BY <1>1, <3>1, <3>2 DEF EmotionBefore
    <2>7. QED
      BY <2>4, <2>5, <2>6 DEF P, Part
  <1>6. OverlayIsColor
    <2>1. SUFFICES ASSUME overlay.colors # {}, overlay.colors # {"color"},
                          \A x \in Role : overlay.tokens[x] \notin {"toReference", "toGroup"}
                   PROVE  FALSE
      BY DEF OverlayIsColor
    <2>2. overlay # NoOverlay
      BY <2>1 DEF NoOverlay
    <2>3. PICK tokens \in [Role -> Token], style \in {"gradient-dark", "gradient-brand", "gradient-accent", "blur-dark"} :
            overlay = [style |-> style, tokens |-> tokens,
                       colors |-> {BrandColors(tokens)[x] : x \in OverlayRoles(style)}]
      BY <2>2 DEF AdviceInv, OverlayMade
    <2>4. OverlayRoles(style) \subseteq Role
      BY DEF OverlayRoles, Role
    <2>5. overlay.tokens = tokens /\ overlay.colors = {BrandColors(tokens)[x] : x \in OverlayRoles(style)}
      BY <2>3
    <2>6. \A x \in OverlayRoles(style) : BrandColors(tokens)[x] = "color"
      BY <2>1, <2>4, <2>5, RolesAreColors
    <2>7. overlay.colors \subseteq {"color"}
      BY <2>5, <2>6
    <2>8. QED
      BY <2>1, <2>7
  <1>7. QED
    BY <1>4, <1>5, <1>6

-----------------------------------------------------------------------------
(***************************************************************************)
(* PageOverrides: the type of a page and its file are those of the words   *)
(* and of the three searches it was made with.                             *)
(***************************************************************************)

FileOf(seen) ==
  [style |-> seen.style.found,
   layout |-> Layout(seen.style, seen.landing), spacing |-> Spacing(seen.style),
   colors |-> Colors(seen.landing), components |-> Avoids(seen.ux),
   recommendations |-> Recommendations(seen.style, seen.ux, seen.landing)]

OverridesInv ==
  /\ words \subseteq PageWord
  /\ \A h \in history : h[1] \subseteq PageWord /\ \E seen \in Searches : h[2] = PageType(h[1], seen.style)
  /\ history # {} => \E seen \in Searches : overrides = FileOf(seen)

LEMMA OverridesAlways == OverridesSpec => []OverridesInv
  <1>1. OverridesInit => OverridesInv
    BY DEF OverridesInit, OverridesInv
  <1>2. ASSUME OverridesInv, GeneratePage PROVE OverridesInv'
    <2>1. words' \subseteq PageWord
      BY <1>2 DEF OverridesInv, GeneratePage
    <2>2. PICK seen \in Searches : /\ history' = history \cup {<<words', PageType(words', seen.style)>>}
                                    /\ overrides' = FileOf(seen)
      BY <1>2 DEF GeneratePage, FileOf
    <2>3. QED
      BY <1>2, <2>1, <2>2 DEF OverridesInv
  <1>3. OverridesInv /\ UNCHANGED overrideVars => OverridesInv'
    BY DEF OverridesInv, overrideVars
  <1>4. QED
    BY <1>1, <1>2, <1>3, PTL DEF OverridesSpec, OverridesNext

\* The types that words decide.
Decided(W) == UNION {Hits[w] : w \in W}

\* The first type that words decide, or one behind all those.
LEMMA TypeOfWords ==
  ASSUME NEW W \in SUBSET PageWord, NEW seen \in Searches
  PROVE  /\ Decided(W) \subseteq 1..Patterns
         /\ Decided(W) # {} => /\ PageType(W, seen.style) \in Decided(W)
                              /\ \A n \in Decided(W) : PageType(W, seen.style) <= n
         /\ Decided(W) = {} => PageType(W, seen.style) > Patterns
  <1> DEFINE decided == Decided(W)
             type == PageType(W, seen.style)
  <1>1. decided \subseteq 1..Patterns /\ Patterns \in Nat
    BY OverridesAssumption DEF Decided
  <1>2. ASSUME decided # {} PROVE type \in decided /\ \A n \in decided : type <= n
    <2>1. type = Min(decided)
      BY <1>2 DEF PageType, Decided
    <2>2. decided \subseteq Nat
      BY <1>1
    <2> HIDE DEF decided, type
    <2>3. QED
      BY <1>2, <2>1, <2>2, LeastNumber
  <1>3. ASSUME decided = {} PROVE type > Patterns
    <2>1. type \in {Patterns + 1, Patterns + 2, Patterns + 3}
      BY <1>3 DEF PageType, Decided
    <2>2. QED
      BY <2>1, <1>1
  <1>4. QED
    BY <1>1, <1>2, <1>3

LEMMA OverridesInvSuffices == OverridesInv => TypeOnlyRises /\ NeverEmpty
  <1> SUFFICES ASSUME OverridesInv PROVE TypeOnlyRises /\ NeverEmpty
    OBVIOUS
  <1>1. ASSUME NEW h \in history, NEW k \in history, h[1] \subseteq k[1], h[2] <= Patterns
        PROVE  k[2] <= h[2]
    <2>1. h[1] \in SUBSET PageWord /\ k[1] \in SUBSET PageWord /\ Decided(h[1]) \subseteq Decided(k[1])
      BY <1>1 DEF OverridesInv, Decided
    <2>2. PICK f \in Searches : h[2] = PageType(h[1], f.style)
      BY DEF OverridesInv
    <2>3. PICK g \in Searches : k[2] = PageType(k[1], g.style)
      BY DEF OverridesInv
    <2>4. /\ Decided(h[1]) # {} => h[2] \in Decided(h[1])
          /\ Decided(h[1]) = {} => h[2] > Patterns
      BY <2>1, <2>2, TypeOfWords
    <2>5. Decided(k[1]) # {} => \A n \in Decided(k[1]) : k[2] <= n
      BY <2>1, <2>3, TypeOfWords
    <2>6. Decided(h[1]) \subseteq 1..Patterns
      BY <2>1, <2>2, TypeOfWords
    <2>7. Decided(h[1]) # {}
      <3>1. Decided(h[1]) = {} => PageType(h[1], f.style) \in {Patterns + 1, Patterns + 2, Patterns + 3}
        BY DEF PageType, Decided
      <3>2. QED
        BY <1>1, <2>2, <2>4, <3>1, OverridesAssumption
    <2>8. QED
      BY <2>1, <2>4, <2>5, <2>7
  <1>2. ASSUME history # {}
        PROVE  /\ overrides.layout # {} /\ overrides.recommendations # {}
               /\ ~overrides.style => overrides.spacing = {} /\ "grid" \notin overrides.layout
    <2>1. PICK seen \in Searches : overrides = FileOf(seen)
      BY <1>2 DEF OverridesInv
    <2>2. overrides.layout = Layout(seen.style, seen.landing) /\ overrides.spacing = Spacing(seen.style)
          /\ overrides.style = seen.style.found
          /\ overrides.recommendations = Recommendations(seen.style, seen.ux, seen.landing)
      BY <2>1 DEF FileOf
    <2>3. Layout(seen.style, seen.landing) # {}
      BY DEF Layout
    <2>4. Recommendations(seen.style, seen.ux, seen.landing) # {}
      BY DEF Recommendations
    <2>5. ~seen.style.found => Spacing(seen.style) = {} /\ "grid" \notin Layout(seen.style, seen.landing)
      BY DEF Spacing, Layout
    <2>6. QED
      BY <2>2, <2>3, <2>4, <2>5
  <1>3. QED
    BY <1>1, <1>2 DEF TypeOnlyRises, NeverEmpty

-----------------------------------------------------------------------------
(***************************************************************************)
(* Palettes: the palettes found were audited, and the one of the design is *)
(* chosen from them, or derived from one of them.                          *)
(***************************************************************************)

Audited == {p \in Palettes : ColorAudit(p)}

PalettesInv ==
  /\ paletteStep \in {"idle", "search", "select", "done"}
  /\ paletteStep # "idle" => request \in [mode: {"dark", "light"}, category: Product, avoid: SUBSET AntiPattern]
  /\ paletteStep \in {"select", "done"} => ranked \in Seq(Audited)
  /\ paletteStep = "done" =>
       /\ palette = SelectPalette(ranked, request.mode, request.category)
       /\ request.mode = "dark" => "no dark mode" \notin request.avoid

LEMMA PalettesAlways == PalettesSpec => []PalettesInv
  <1>1. PalettesInit => PalettesInv
    BY DEF PalettesInit, PalettesInv
  <1>2. ASSUME PalettesInv, RequestPalette PROVE PalettesInv'
    BY <1>2 DEF PalettesInv, RequestPalette
  <1>3. ASSUME PalettesInv, RankPalettes PROVE PalettesInv'
    <2>1. ranked' = <<>> \/ \E p, q \in Audited : ranked' = <<p>> \/ ranked' = <<p, q>>
      BY <1>3 DEF RankPalettes, Audited
    <2>2. ranked' \in Seq(Audited)
      <3> HIDE DEF Audited
      <3>1. \A S : <<>> \in Seq(S)
        OBVIOUS
      <3>2. \A p, q \in Audited : <<p>> \in Seq(Audited) /\ <<p, q>> \in Seq(Audited)
        OBVIOUS
      <3>3. QED
        BY <2>1, <3>1, <3>2
    <2>3. paletteStep = "search" /\ paletteStep' = "select" /\ UNCHANGED request
      BY <1>3 DEF RankPalettes
    <2>4. QED
      BY <1>3, <2>2, <2>3 DEF PalettesInv
  <1>4. ASSUME PalettesInv, ChoosePalette PROVE PalettesInv'
    <2>1. request'.mode = request.mode /\ request'.category = request.category
          /\ request'.avoid = AntiPatternsFor(request.avoid, request.mode)
          /\ request' \in [mode: {"dark", "light"}, category: Product, avoid: SUBSET AntiPattern]
      BY <1>4 DEF PalettesInv, ChoosePalette, AntiPatternsFor
    <2>2. UNCHANGED ranked /\ paletteStep = "select" /\ paletteStep' = "done"
          /\ palette' = SelectPalette(ranked, request.mode, request.category)
      BY <1>4 DEF ChoosePalette
    <2>3. request.mode = "dark" => "no dark mode" \notin request'.avoid
      BY <2>1 DEF AntiPatternsFor
    <2>4. QED
      BY <1>4, <2>1, <2>2, <2>3 DEF PalettesInv
  <1>5. PalettesInv /\ UNCHANGED paletteVars => PalettesInv'
    BY DEF PalettesInv, paletteVars
  <1>6. QED
    BY <1>1, <1>2, <1>3, <1>4, <1>5, PTL DEF PalettesSpec, PalettesNext

LEMMA FirstIsOne ==
  ASSUME NEW S, NEW ps \in Seq(S), NEW places, places \subseteq DOMAIN ps, places # {}
  PROVE  \E i \in places : First(ps, places) = ps[i] /\ ps[i] \in S
  <1>1. places \subseteq Nat
    OBVIOUS
  <1>2. Min(places) \in places
    BY <1>1, LeastNumber
  <1>3. QED
    BY <1>2 DEF First

\* The ring of a derived palette stands out from its background.
LEMMA DarkRingIsSeen ==
  ASSUME NEW c PROVE Contrast(DarkRing(c), DarkBackground, 30)
  <1> DEFINE candidates == <<c.ring, c.accent, c.primary>>
             visible == {i \in 1..3 : Contrast(candidates[i], DarkBackground, 30)}
  <1>1. CASE visible = {}
    <2>1. DarkRing(c) = 363
      BY <1>1 DEF DarkRing
    <2>2. NoColor \notin {363, 9}
      BY PalettesAssumption
    <2>3. QED
      BY <2>1, <2>2 DEF Contrast, Lighter, Darker, DarkBackground
  <1>2. CASE visible # {}
    <2>1. DarkRing(c) = candidates[Min(visible)]
      BY <1>2 DEF DarkRing
    <2>2. Min(visible) \in visible
      <3>1. visible \subseteq Nat
        OBVIOUS
      <3> HIDE DEF visible
      <3>2. QED
        BY <1>2, <3>1, LeastNumber
    <2>3. QED
      BY <2>1, <2>2
  <1>3. QED
    BY <1>1, <1>2

LEMMA Derived ==
  ASSUME NEW p \in Palettes
  PROVE  LET d == DeriveDark(p).color IN
         /\ d.primary = p.color.primary /\ d.onPrimary = p.color.onPrimary
         /\ d.accent = p.color.accent /\ d.onAccent = p.color.onAccent
         /\ d.background = 9 /\ d.foreground = 954 /\ d.card = 9 /\ d.cardForeground = 954
         /\ d.muted = 22 /\ d.mutedForeground = 657 /\ d.ring = DarkRing(p.color)
  <1>1. p \in [product: Product, color: [ColorField -> Luminance \cup {NoColor}]]
    BY PalettesAssumption DEF Palette
  <1> DEFINE c == p.color
             d == [c EXCEPT
                     !.background = DarkBackground, !.foreground = 954, !.card = 9, !.cardForeground = 954,
                     !.muted = 22, !.mutedForeground = 657, !.border = 51, !.ring = DarkRing(p.color)]
  <1>2. DeriveDark(p).color = d
    BY <1>1 DEF DeriveDark
  <1>3. DOMAIN c = ColorField
    BY <1>1
  <1>4. /\ d.primary = c.primary /\ d.onPrimary = c.onPrimary
        /\ d.accent = c.accent /\ d.onAccent = c.onAccent
        /\ d.background = 9 /\ d.foreground = 954 /\ d.card = 9 /\ d.cardForeground = 954
        /\ d.muted = 22 /\ d.mutedForeground = 657 /\ d.ring = DarkRing(p.color)
    BY <1>3 DEF ColorField, DarkBackground
  <1>5. QED
    BY <1>2, <1>4

LEMMA DerivedIsAudited ==
  ASSUME NEW p \in Audited PROVE ColorAudit(DeriveDark(p))
  <1> DEFINE c == p.color
             d == DeriveDark(p).color
  <1>1. p \in Palettes /\ ColorAudit(p)
    BY DEF Audited
  <1>2. Contrast(c.onPrimary, c.primary, 45) /\ Contrast(c.onAccent, c.accent, 45)
    BY <1>1 DEF ColorAudit, ContrastPairs
  <1>3. /\ d.primary = c.primary /\ d.onPrimary = c.onPrimary
        /\ d.accent = c.accent /\ d.onAccent = c.onAccent
        /\ d.background = 9 /\ d.foreground = 954 /\ d.card = 9 /\ d.cardForeground = 954
        /\ d.muted = 22 /\ d.mutedForeground = 657 /\ d.ring = DarkRing(c)
    BY <1>1, Derived
  <1>4. NoColor \notin {9, 22, 657, 954}
    BY PalettesAssumption
  <1> HIDE DEF c, d
  <1>5. Contrast(d.foreground, d.background, 45) /\ Contrast(d.cardForeground, d.card, 45)
        /\ Contrast(d.mutedForeground, d.muted, 45)
    BY <1>3, <1>4 DEF Contrast, Lighter, Darker
  <1>6. Contrast(d.ring, d.background, 30)
    BY <1>3, DarkRingIsSeen DEF DarkBackground
  <1>7. NoMoreContrast(d.mutedForeground, d.muted, d.foreground, d.background)
    BY <1>3 DEF NoMoreContrast, Lighter, Darker
  <1>8. Contrast(d.onPrimary, d.primary, 45) /\ Contrast(d.onAccent, d.accent, 45)
    BY <1>2, <1>3
  <1>9. \A pair \in ContrastPairs : Contrast(d[pair[1]], d[pair[2]], pair[3])
    BY <1>5, <1>6, <1>8 DEF ContrastPairs
  <1>10. QED
    BY <1>7, <1>9 DEF ColorAudit, d

\* The fallback can be read, fails the audit for its missing on-colors, and is light.
LEMMA FallbackFails ==
  /\ Contrast(Fallback.color.foreground, Fallback.color.background, 45)
  /\ ~ColorAudit(Fallback) /\ ~IsDark(Fallback)
  <1>1. /\ Fallback.color.foreground = 22 /\ Fallback.color.background = 954
        /\ Fallback.color["onPrimary"] = NoColor
    BY DEF Fallback, ColorField
  <1>2. NoColor \notin {22, 954}
    BY PalettesAssumption
  <1>3. Contrast(Fallback.color.foreground, Fallback.color.background, 45)
    BY <1>1, <1>2 DEF Contrast, Lighter, Darker
  <1>4. <<"onPrimary", "primary", 45>> \in ContrastPairs
    BY DEF ContrastPairs
  <1>5. ~Contrast(Fallback.color["onPrimary"], Fallback.color["primary"], 45)
    BY <1>1 DEF Contrast
  <1>6. ~ColorAudit(Fallback)
    BY <1>4, <1>5 DEF ColorAudit
  <1>7. ~IsDark(Fallback)
    BY <1>1 DEF IsDark
  <1>8. QED
    BY <1>3, <1>6, <1>7

LEMMA PalettesInvSuffices == PalettesInv => DerivedPasses /\ PaletteAgrees
  <1> SUFFICES ASSUME PalettesInv, paletteStep = "done"
               PROVE  DerivedPasses /\ PaletteAgrees
    BY DEF DerivedPasses, PaletteAgrees
  <1> DEFINE own == OfProduct(ranked, request.category)
             dark == Dark(ranked)
  <1>1. ranked \in Seq(Audited) /\ own \subseteq DOMAIN ranked /\ dark \subseteq DOMAIN ranked
    BY DEF PalettesInv, OfProduct, Dark
  <1>2. palette = SelectPalette(ranked, request.mode, request.category)
        /\ (request.mode = "dark" => "no dark mode" \notin request.avoid)
    BY DEF PalettesInv
  <1>3. \A p \in Audited : p \in Palettes /\ ColorAudit(p)
    BY DEF Audited
  <1>4. \A p : ColorAudit(p) => Contrast(p.color.foreground, p.color.background, 45)
    BY DEF ColorAudit, ContrastPairs
  <1>5. CASE ranked = <<>>
    <2>1. own = {} /\ dark = {}
      BY <1>5 DEF OfProduct, Dark
    <2>2. palette = Fallback
      BY <1>2, <1>5 DEF SelectPalette
    <2>3. QED
      BY <1>2, <1>5, <2>1, <2>2, FallbackFails DEF DerivedPasses, PaletteAgrees
  <1>6. CASE own # {}
    <2>0. ranked # <<>>
      BY <1>1, <1>6
    <2> DEFINE p == First(ranked, own)
    <2>1. p \in Audited
      BY <1>1, <1>6, FirstIsOne
    <2>2. palette = IF request.mode = "dark" /\ ~IsDark(p) THEN DeriveDark(p) ELSE p
      BY <1>2, <1>6, <2>0 DEF SelectPalette
    <2> HIDE DEF p
    <2>3. ColorAudit(palette)
      BY <1>3, <2>1, <2>2, DerivedIsAudited
    <2>4. \A f \in {"primary", "onPrimary", "accent", "onAccent"} : palette.color[f] = p.color[f]
      BY <1>3, <2>1, <2>2, Derived
    <2>5. request.mode = "dark" => IsDark(palette)
      <3>1. IsDark(DeriveDark(p))
        BY <1>3, <2>1, Derived, PalettesAssumption DEF IsDark
      <3>2. QED
        BY <2>2, <3>1
    <2>6. QED
      BY <1>2, <1>4, <1>6, <2>0, <2>3, <2>4, <2>5 DEF DerivedPasses, PaletteAgrees, p
  <1>7. CASE own = {} /\ ranked # <<>>
    <2>1. palette = IF request.mode = "dark" /\ dark # {} THEN First(ranked, dark) ELSE ranked[1]
      BY <1>2, <1>7 DEF SelectPalette
    <2>2. dark # {} => First(ranked, dark) \in Audited /\ IsDark(First(ranked, dark))
      <3>1. SUFFICES ASSUME dark # {} PROVE First(ranked, dark) \in Audited /\ IsDark(First(ranked, dark))
        OBVIOUS
      <3>2. PICK i \in dark : First(ranked, dark) = ranked[i] /\ ranked[i] \in Audited
        BY <1>1, <3>1, FirstIsOne
      <3>3. IsDark(ranked[i])
        BY DEF Dark
      <3>4. QED
        BY <3>2, <3>3
    <2>3. ranked[1] \in Audited /\ 1 \in DOMAIN ranked
      BY <1>1, <1>7
    <2>4. ColorAudit(palette)
      BY <1>3, <2>1, <2>2, <2>3
    <2>5. request.mode = "dark" => (IsDark(palette) <=> dark # {})
      <3>1. dark = {} => ~IsDark(ranked[1])
        BY <2>3 DEF Dark
      <3>2. QED
        BY <2>1, <2>2, <3>1
    <2>6. QED
      BY <1>2, <1>4, <1>7, <2>4, <2>5 DEF DerivedPasses, PaletteAgrees
  <1>8. QED
    BY <1>5, <1>6, <1>7

-----------------------------------------------------------------------------
(***************************************************************************)
(* StyleCatalogue: the tables passed their audits, and the design is made  *)
(* of them for the query that is recorded.                                 *)
(***************************************************************************)

Value == StyleId \cup Landing \cup {"dark", "light", "text"}
ReasoningRow == [priority: Seq(StyleId), rules: Seq(Rule), pattern: Landing \cup {NoId}]
DesignQuery == [signals: SUBSET Signal, dark: BOOLEAN, variance: Dial, product: BOOLEAN]

CatalogueInv ==
  /\ step \in {"styles", "rules", "query", "designed", "searched", "refused"}
  /\ reasoning \in ReasoningRow
  /\ step \in {"rules", "query", "designed", "searched"} =>
       /\ table \in [StyleId -> Row] /\ Len(reasoning.priority) = 1
       /\ StyleAudit(table, reasoning.priority)
  /\ step \in {"query", "designed"} => ReasoningAudit(reasoning.rules) /\ reasoning.pattern \in Landing
  /\ step = "designed" =>
       /\ query \in DesignQuery /\ design.results \subseteq RowsOf(table, "style")
       /\ design.style \in BestStyles(table, design.results, Priority(query))
       /\ design.landing \in BestLandings(query)
  /\ step = "searched" => query \in SearchQuery /\ answer \in Answers(table, query)

LEMMA CatalogueAlways == CatalogueSpec => []CatalogueInv
  <1>1. CatalogueInit => CatalogueInv
    <2>1. \A S : <<>> \in Seq(S)
      OBVIOUS
    <2>2. QED
      BY <2>1 DEF CatalogueInit, CatalogueInv, ReasoningRow
  <1>2. ASSUME CatalogueInv, AuditStyles PROVE CatalogueInv'
    <2>1. PICK s \in StyleId : reasoning' = [reasoning EXCEPT !.priority = <<s>>]
      BY <1>2 DEF AuditStyles
    <2>2. <<s>> \in Seq(StyleId) /\ Len(<<s>>) = 1
      OBVIOUS
    <2>3. reasoning' \in ReasoningRow /\ reasoning'.priority = <<s>>
      BY <1>2, <2>1, <2>2 DEF CatalogueInv, ReasoningRow
    <2>4. table' \in [StyleId -> Row]
      BY <1>2, CatalogueAssumption DEF AuditStyles
    <2>5. step' = IF StyleAudit(table', reasoning'.priority) THEN "rules" ELSE "refused"
      BY <1>2 DEF AuditStyles
    <2>6. QED
      BY <2>2, <2>3, <2>4, <2>5 DEF CatalogueInv
  <1>3. ASSUME CatalogueInv, AuditRules PROVE CatalogueInv'
    <2>1. PICK rules \in Rules, pattern \in Landing \cup {NoId} :
            /\ reasoning' = [reasoning EXCEPT !.rules = rules, !.pattern = pattern]
            /\ step' = IF ReasoningAudit(rules) /\ pattern \in Landing THEN "query" ELSE "refused"
      BY <1>3 DEF AuditRules
    <2>2. rules \in Seq(Rule)
      BY CatalogueAssumption
    <2>3. /\ reasoning' \in ReasoningRow /\ reasoning'.priority = reasoning.priority
          /\ reasoning'.rules = rules /\ reasoning'.pattern = pattern
      BY <1>3, <2>1, <2>2 DEF CatalogueInv, ReasoningRow
    <2>4. step = "rules" /\ UNCHANGED table
      BY <1>3 DEF AuditRules
    <2>5. QED
      BY <1>3, <2>1, <2>3, <2>4 DEF CatalogueInv
  <1>4. ASSUME CatalogueInv, GenerateDesign PROVE CatalogueInv'
    <2>1. PICK listed \in SUBSET RowsOf(table, "style"), l \in BestLandings(query') :
            \E s \in BestStyles(table, listed, Priority(query')) :
              design' = [style |-> s, results |-> listed, landing |-> l,
                         mode |-> ColorMode(Applied(query').mode, query'.dark, table, s)]
      BY <1>4 DEF GenerateDesign
    <2>2. step = "query" /\ step' = "designed" /\ UNCHANGED <<table, reasoning>> /\ query' \in DesignQuery
      BY <1>4 DEF GenerateDesign, DesignQuery
    <2>3. design'.results = listed /\ design'.landing = l /\ design'.style \in BestStyles(table, listed, Priority(query'))
      BY <2>1
    <2>4. Priority(query') = Priority(query)' /\ BestLandings(query') = BestLandings(query)'
      BY <2>2 DEF Priority, BestLandings, Applied, Pattern, Reasoning
    <2>5. QED
      BY <1>4, <2>2, <2>3, <2>4 DEF CatalogueInv
  <1>5. ASSUME CatalogueInv, SearchStyles PROVE CatalogueInv'
    BY <1>5 DEF CatalogueInv, SearchStyles
  <1>6. CatalogueInv /\ UNCHANGED catalogueVars => CatalogueInv'
    BY DEF CatalogueInv, catalogueVars, Priority, BestLandings, Applied, Pattern, Reasoning
  <1>7. QED
    BY <1>1, <1>2, <1>3, <1>4, <1>5, <1>6, PTL DEF CatalogueSpec, CatalogueNext

-----------------------------------------------------------------------------
(* The decision rules.                                                      *)

LEMMA ValuesFacts ==
  ASSUME NEW actions \in Seq(Action), NEW kind
  PROVE  /\ Values(actions, kind) \in Seq(Value)
         /\ Range(Values(actions, kind)) = {a.value : a \in {b \in Range(actions) : b.kind = kind}}
  <1> DEFINE ss == [i \in DOMAIN actions |-> IF actions[i].kind = kind THEN <<actions[i].value>> ELSE <<>>]
  <1>1. \A i \in DOMAIN actions : actions[i] \in Action /\ actions[i].value \in Value
    <2>1. \A S : \A x \in Seq(S) : \A i \in DOMAIN x : x[i] \in S
      OBVIOUS
    <2>2. \A a \in Action : a.value \in Value
      BY DEF Action, Value
    <2>3. QED
      BY <2>1, <2>2
  <1>2. \A i \in DOMAIN actions : ss[i] \in Seq(Value)
    <2>1. \A v \in Value : <<v>> \in Seq(Value)
      OBVIOUS
    <2>2. QED
      BY <1>1, <2>1
  <1>3. ss \in Seq(Seq(Value))
    <2>1. DOMAIN actions = 1..Len(actions) /\ Len(actions) \in Nat
      OBVIOUS
    <2>2. ss \in [1..Len(actions) -> Seq(Value)]
      BY <1>2, <2>1
    <2> HIDE DEF ss
    <2>3. QED
      BY <2>1, <2>2, SeqDef
  <1>4. Values(actions, kind) \in Seq(Value) /\ Range(Values(actions, kind)) = UNION {Range(ss[i]) : i \in DOMAIN ss}
    BY <1>3, FlattenFacts DEF Values
  <1>5. \A i \in DOMAIN actions : Range(ss[i]) = IF actions[i].kind = kind THEN {actions[i].value} ELSE {}
    BY DEF Range
  <1>6. UNION {Range(ss[i]) : i \in DOMAIN ss} = {a.value : a \in {b \in Range(actions) : b.kind = kind}}
    <2>1. \A v : v \in UNION {Range(ss[i]) : i \in DOMAIN ss} <=>
                   \E i \in DOMAIN actions : actions[i].kind = kind /\ v = actions[i].value
      <3>1. DOMAIN ss = DOMAIN actions
        OBVIOUS
      <3> HIDE DEF ss
      <3>2. \A v : v \in UNION {Range(ss[i]) : i \in DOMAIN ss} <=> \E i \in DOMAIN actions : v \in Range(ss[i])
        BY <3>1
      <3>3. \A i \in DOMAIN actions : \A v :
              v \in Range(ss[i]) <=> actions[i].kind = kind /\ v = actions[i].value
        BY <1>5
      <3>4. QED
        BY <3>2, <3>3, Zenon
    <2>2. \A v : v \in {a.value : a \in {b \in Range(actions) : b.kind = kind}} <=>
                   \E i \in DOMAIN actions : actions[i].kind = kind /\ v = actions[i].value
      BY DEF Range
    <2> HIDE DEF ss
    <2>3. QED
      BY <2>1, <2>2
  <1>7. QED
    BY <1>4, <1>6

LEMMA ActivatedFacts ==
  ASSUME NEW rules \in Seq(Rule), NEW signals
  PROVE  /\ Activated(rules, signals) \in Seq(Action)
         /\ Range(Activated(rules, signals)) =
              UNION {Range(rules[i].do) : i \in {j \in DOMAIN rules : rules[j].when \in signals \cup {"must_have"}}}
  <1> DEFINE Active == {j \in DOMAIN rules : rules[j].when \in signals \cup {"must_have"}}
             ss == [i \in DOMAIN rules |-> IF rules[i].when \in signals \cup {"must_have"} THEN rules[i].do ELSE <<>>]
  <1>1. \A i \in DOMAIN rules : rules[i].do \in Seq(Action)
    <2>1. \A S : \A x \in Seq(S) : \A i \in DOMAIN x : x[i] \in S
      OBVIOUS
    <2>2. \A x \in Rule : x.do \in Seq(Action)
      BY DEF Rule
    <2>3. QED
      BY <2>1, <2>2
  <1>2. \A i \in DOMAIN rules : ss[i] \in Seq(Action)
    BY <1>1
  <1>3. ss \in Seq(Seq(Action))
    <2>1. DOMAIN rules = 1..Len(rules) /\ Len(rules) \in Nat
      OBVIOUS
    <2>2. ss \in [1..Len(rules) -> Seq(Action)]
      BY <1>2, <2>1
    <2> HIDE DEF ss
    <2>3. QED
      BY <2>1, <2>2, SeqDef
  <1>4. /\ Activated(rules, signals) \in Seq(Action)
        /\ Range(Activated(rules, signals)) = UNION {Range(ss[i]) : i \in DOMAIN ss}
    BY <1>3, FlattenFacts DEF Activated
  <1>5. \A i \in DOMAIN rules : Range(ss[i]) = IF i \in Active THEN Range(rules[i].do) ELSE {}
    BY DEF Range
  <1>6. UNION {Range(ss[i]) : i \in DOMAIN ss} = UNION {Range(rules[i].do) : i \in Active}
    BY <1>5
  <1>7. QED
    BY <1>4, <1>6

\* Saying more activates more.
LEMMA SayingMore ==
  ASSUME NEW rules \in Seq(Rule), NEW more, NEW fewer \in SUBSET more
  PROVE  /\ Range(ApplyRules(rules, fewer).styles) \subseteq Range(ApplyRules(rules, more).styles)
         /\ ApplyRules(rules, fewer).constraints \subseteq ApplyRules(rules, more).constraints
  <1>1. Range(Activated(rules, fewer)) \subseteq Range(Activated(rules, more))
    BY ActivatedFacts
  <1>2. \A kind : Range(Values(Activated(rules, fewer), kind)) \subseteq Range(Values(Activated(rules, more), kind))
    <2> SUFFICES ASSUME NEW kind
                 PROVE  Range(Values(Activated(rules, fewer), kind)) \subseteq Range(Values(Activated(rules, more), kind))
      OBVIOUS
    <2>1. Activated(rules, fewer) \in Seq(Action) /\ Activated(rules, more) \in Seq(Action)
      BY ActivatedFacts
    <2>2. QED
      BY <1>1, <2>1, ValuesFacts
  <1>3. QED
    BY <1>2 DEF ApplyRules, StyleIds

LEMMA LastIsOne ==
  ASSUME NEW S, NEW s \in Seq(S), NEW other
  PROVE  LastOr(s, other) \in Range(s) \cup {other} /\ (s # <<>> => LastOr(s, other) \in Range(s))
  <1>1. s # <<>> => Len(s) \in DOMAIN s
    OBVIOUS
  <1>2. QED
    BY <1>1 DEF LastOr, Last, Range

\* Audited rules name styles and landing patterns that there are.
LEMMA RulesName ==
  ASSUME NEW rules \in Seq(Rule), ReasoningAudit(rules), NEW signals
  PROVE  /\ ApplyRules(rules, signals).styles \in Seq(StyleId)
         /\ ApplyRules(rules, signals).pattern \in Landing \cup {NoId}
  <1> DEFINE actions == Activated(rules, signals)
  <1>1. actions \in Seq(Action)
    BY ActivatedFacts
  <1>2. \A a \in Range(actions) : (a.kind = "style" => a.value \in StyleId) /\ (a.kind = "pattern" => a.value \in Landing)
    BY ActivatedFacts DEF ReasoningAudit
  <1> HIDE DEF actions
  <1>3. Values(actions, "style") \in Seq(StyleId)
    <2>1. Values(actions, "style") \in Seq(Value) /\ Range(Values(actions, "style")) \subseteq StyleId
      BY <1>1, <1>2, ValuesFacts
    <2>2. \A i \in DOMAIN Values(actions, "style") : Values(actions, "style")[i] \in StyleId
      BY <2>1 DEF Range
    <2>3. QED
      BY <2>1, <2>2
  <1>4. LastOr(Values(actions, "pattern"), NoId) \in Landing \cup {NoId}
    <2>1. Values(actions, "pattern") \in Seq(Value) /\ Range(Values(actions, "pattern")) \subseteq Landing
      BY <1>1, <1>2, ValuesFacts
    <2>2. QED
      BY <2>1, LastIsOne
  <1>5. QED
    BY <1>3, <1>4 DEF ApplyRules, StyleIds, actions

-----------------------------------------------------------------------------
(* The first style that resolves.                                           *)

LEMMA ResolvedIsLive ==
  ASSUME NEW t, NEW s, ResolveStyle(t, s) # NoId
  PROVE  t[ResolveStyle(t, s)].status # "deprecated"
  BY DEF ResolveStyle

\* A row that is not deprecated stands for itself.
LEMMA LiveResolves ==
  ASSUME NEW t, NEW s \in StyleId, t[s].status # "deprecated"
  PROVE  ResolveStyle(t, s) = s
  <1> DEFINE Up(x) == IF x # NoId /\ t[x].status = "deprecated" THEN t[x].parent ELSE x
             N == Cardinality(StyleId)
             Walk(g) == [n \in 0..N |-> IF n = 0 THEN s ELSE Up(g[n - 1])]
             walk == CHOOSE g : g = Walk(g)
  <1>1. N \in Nat
    BY CatalogueAssumption, FS_CardinalityType
  <1>2. [n \in 0..N |-> s] = Walk([n \in 0..N |-> s])
    <2>1. \A n \in 0..N : n # 0 => n - 1 \in 0..N
      BY <1>1
    <2>2. QED
      BY <2>1
  <1>3. walk = Walk(walk)
    <2> HIDE DEF Walk
    <2>1. QED
      BY <1>2
  <1> HIDE DEF walk
  <1> DEFINE Bad == {n \in 0..N : walk[n] # s}
  <1>4. ASSUME Bad # {} PROVE FALSE
    <2>1. Min(Bad) \in Bad /\ \A n \in Bad : Min(Bad) <= n
      <3>1. Bad \subseteq Nat
        BY <1>1
      <3> HIDE DEF Bad
      <3>2. QED
        BY <1>4, <3>1, LeastNumber
    <2> DEFINE m == Min(Bad)
    <2>2. m \in 0..N /\ walk[m] # s /\ \A n \in 0..N : n < m => walk[n] = s
      BY <1>1, <2>1
    <2> HIDE DEF m
    <2>3. walk[m] = IF m = 0 THEN s ELSE Up(walk[m - 1])
      BY <1>3, <2>2
    <2>4. m # 0 => walk[m - 1] = s
      BY <1>1, <2>2
    <2>5. QED
      BY <2>2, <2>3, <2>4
  <1>5. walk[N] = s
    BY <1>1, <1>4
  <1>6. ResolveStyle(t, s) = IF walk[N] # NoId /\ t[walk[N]].status = "deprecated" THEN NoId ELSE walk[N]
    BY DEF ResolveStyle, walk
  <1>7. QED
    BY <1>5, <1>6

LEMMA FirstResolves ==
  ASSUME NEW t, NEW S, NEW priority \in Seq(S), Resolving(t, priority) # {}
  PROVE  /\ Min(Resolving(t, priority)) \in Resolving(t, priority)
         /\ \A i \in Resolving(t, priority) : Min(Resolving(t, priority)) <= i
         /\ FirstStyle(t, priority) # NoId
         /\ t[FirstStyle(t, priority)].status # "deprecated"
  <1>1. Resolving(t, priority) \subseteq Nat
    BY DEF Resolving
  <1>2. /\ Min(Resolving(t, priority)) \in Resolving(t, priority)
        /\ \A i \in Resolving(t, priority) : Min(Resolving(t, priority)) <= i
    BY <1>1, LeastNumber
  <1>3. FirstStyle(t, priority) # NoId
    BY <1>2 DEF FirstStyle, Resolving
  <1>4. QED
    BY <1>2, <1>3, ResolvedIsLive DEF FirstStyle

\* What comes later does not matter once something resolves.
LEMMA FirstOfMore ==
  ASSUME NEW t, NEW S, NEW a \in Seq(S), NEW b \in Seq(S), Resolving(t, a) # {}
  PROVE  Resolving(t, a \o b) # {} /\ FirstStyle(t, a \o b) = FirstStyle(t, a)
  <1> DEFINE c == a \o b
             m == Min(Resolving(t, a))
             n == Min(Resolving(t, c))
  <1>1. c \in Seq(S) /\ DOMAIN a \subseteq DOMAIN c /\ \A i \in DOMAIN a : c[i] = a[i]
    OBVIOUS
  <1>2. m \in Resolving(t, a) /\ \A i \in Resolving(t, a) : m <= i
    BY FirstResolves
  <1> HIDE DEF c
  <1>3. Resolving(t, a) \subseteq Resolving(t, c)
    BY <1>1 DEF Resolving
  <1>4. Resolving(t, c) # {}
    BY <1>3
  <1>5. n \in Resolving(t, c) /\ \A i \in Resolving(t, c) : n <= i
    BY <1>1, <1>4, FirstResolves
  <1>6. m \in DOMAIN a /\ n \in DOMAIN c /\ n <= m
    BY <1>2, <1>3, <1>5 DEF Resolving
  <1>7. n \in DOMAIN a
    BY <1>1, <1>6
  <1>8. n \in Resolving(t, a)
    BY <1>1, <1>5, <1>7 DEF Resolving
  <1>9. m = n
    <2>1. m <= n /\ m \in Nat /\ n \in Nat
      BY <1>2, <1>7, <1>8, <1>6
    <2>2. QED
      BY <1>6, <2>1
  <1>10. QED
    BY <1>1, <1>4, <1>7, <1>9 DEF FirstStyle, c

\* The reasoning of a design is that of the product, or the default, which has no rules.
LEMMA ReasoningFacts ==
  ASSUME CatalogueInv, step = "designed"
  PROVE  /\ Reasoning(query).rules \in Seq(Rule) /\ ReasoningAudit(Reasoning(query).rules)
         /\ Reasoning(query).priority \in Seq(StyleId \cup {NoId})
         /\ query.product => /\ Reasoning(query) = reasoning /\ reasoning.pattern \in Landing
                             /\ reasoning.priority \in Seq(StyleId) /\ Len(reasoning.priority) = 1
         /\ ~query.product => Reasoning(query).pattern = DefaultPattern
  <1>1. /\ reasoning.rules \in Seq(Rule) /\ ReasoningAudit(reasoning.rules)
        /\ reasoning.priority \in Seq(StyleId) /\ Len(reasoning.priority) = 1 /\ reasoning.pattern \in Landing
    BY DEF CatalogueInv, ReasoningRow
  <1>2. /\ DefaultReasoning.rules \in Seq(Rule) /\ ReasoningAudit(DefaultReasoning.rules)
        /\ DefaultReasoning.priority \in Seq(StyleId \cup {NoId}) /\ DefaultReasoning.pattern = DefaultPattern
    <2>1. DefaultReasoning.rules = <<>> /\ DOMAIN DefaultReasoning.rules = {}
      BY DEF DefaultReasoning
    <2>2. ReasoningAudit(DefaultReasoning.rules)
      BY <2>1 DEF ReasoningAudit, ParseRules
    <2>3. QED
      BY <2>1, <2>2, CatalogueAssumption DEF DefaultReasoning
  <1>3. reasoning.priority \in Seq(StyleId \cup {NoId})
    BY <1>1
  <1>4. QED
    BY <1>1, <1>2, <1>3 DEF Reasoning

LEMMA PriorityParts ==
  ASSUME CatalogueInv, step = "designed"
  PROVE  \E dial \in Seq(StyleId) :
           /\ Priority(query) = (dial \o Applied(query).styles) \o Reasoning(query).priority
           /\ query.variance = 0 => dial = <<>>
           /\ Applied(query).styles \in Seq(StyleId)
  <1>1. Reasoning(query).rules \in Seq(Rule) /\ ReasoningAudit(Reasoning(query).rules)
    BY ReasoningFacts
  <1>2. Applied(query).styles \in Seq(StyleId)
    BY <1>1, RulesName DEF Applied
  <1>3. \A v : ResolveDial(v) \in {0, 1, 2, 3} /\ (v # 0 => ResolveDial(v) # 0)
    BY DEF ResolveDial, Tier
  <1>4. query.variance # 0 => DialStyles[ResolveDial(query.variance)] \in Seq(StyleId)
    <2>1. ResolveDial(query.variance) \in {0, 1, 2, 3} /\ (query.variance # 0 => ResolveDial(query.variance) # 0)
      BY <1>3
    <2>2. QED
      BY <2>1, CatalogueAssumption
  <1>5. <<>> \in Seq(StyleId)
    OBVIOUS
  <1>6. QED
    BY <1>1, <1>2, <1>4, <1>5 DEF Priority

-----------------------------------------------------------------------------
(* The properties of a design and of a search.                              *)

LEMMA DesignsAreLive == CatalogueInv => StyleIsLive
  <1> SUFFICES ASSUME CatalogueInv, step = "designed" PROVE StyleIsLive
    BY DEF StyleIsLive
  <1> DEFINE p == Priority(query)
             listed == design.results
  <1>1. /\ listed \subseteq {s \in StyleId : table[s].status = "active"}
        /\ design.style \in BestStyles(table, listed, p)
    BY DEF CatalogueInv, RowsOf
  <1>2. PICK dial \in Seq(StyleId) :
          /\ p = (dial \o Applied(query).styles) \o Reasoning(query).priority
          /\ Applied(query).styles \in Seq(StyleId)
    BY PriorityParts
  <1> DEFINE S == StyleId \cup {NoId}
  <1>3. p \in Seq(S)
    <2>1. dial \in Seq(S) /\ Applied(query).styles \in Seq(S) /\ Reasoning(query).priority \in Seq(S)
      BY <1>2, ReasoningFacts
    <2> HIDE DEF S
    <2>2. QED
      BY <1>2, <2>1
  <1>4. query.product /\ Len(p) = 1 => p[1] = reasoning.priority[1]
    <2>1. ASSUME NEW T, NEW a \in Seq(T), NEW b \in Seq(T), Len(b) = 1, Len(a \o b) = 1
          PROVE  (a \o b)[1] = b[1]
      <3>1. Len(a) = 0
        BY <2>1
      <3>2. a = <<>>
        BY <2>1, <3>1
      <3>3. <<>> \o b = b
        BY <2>1
      <3>4. QED
        BY <3>2, <3>3
    <2> DEFINE first == dial \o Applied(query).styles
    <2>2. first \in Seq(StyleId)
      BY <1>2
    <2>3. p = first \o Reasoning(query).priority
      BY <1>2
    <2> HIDE DEF p, first
    <2>4. QED
      BY <2>1, <2>2, <2>3, ReasoningFacts
  <1> HIDE DEF p, listed, S
  <1>5. listed # {} /\ Resolving(table, p) # {} => design.style = FirstStyle(table, p)
    BY <1>1 DEF BestStyles
  <1>6. listed # {} /\ Resolving(table, p) = {} => design.style \in listed
    BY <1>1 DEF BestStyles
  <1>7. listed = {} => design.style = NoId
    BY <1>1 DEF BestStyles
  <1>8. Resolving(table, p) # {} => FirstStyle(table, p) # NoId /\ table[FirstStyle(table, p)].status # "deprecated"
    BY <1>3, FirstResolves
  <1>9. \A s \in listed : s # NoId /\ table[s].status # "deprecated"
    BY <1>1, CatalogueAssumption
  <1>10. ASSUME query.product, Len(p) = 1, listed # {} PROVE design.style = reasoning.priority[1]
    <2> DEFINE s == reasoning.priority[1]
    <2>1. s \in StyleId /\ s \in Range(reasoning.priority)
      BY <1>10, ReasoningFacts DEF Range
    <2>2. table[s].status # "deprecated"
      BY <2>1 DEF CatalogueInv, StyleAudit
    <2>3. ResolveStyle(table, s) = s /\ s # NoId
      BY <2>1, <2>2, LiveResolves, CatalogueAssumption
    <2>4. p[1] = s
      BY <1>4, <1>10
    <2> HIDE DEF s
    <2>5. DOMAIN p = {1}
      BY <1>3, <1>10
    <2>6. Resolving(table, p) = {1}
      BY <2>3, <2>4, <2>5 DEF Resolving
    <2>7. Min(Resolving(table, p)) = 1
      BY <1>3, <2>6, FirstResolves
    <2>8. design.style = ResolveStyle(table, p[1])
      BY <1>5, <1>10, <2>6, <2>7 DEF FirstStyle
    <2>9. QED
      BY <2>3, <2>4, <2>8 DEF s
  <1>11. QED
    BY <1>5, <1>6, <1>7, <1>8, <1>9, <1>10 DEF StyleIsLive, p, listed

LEMMA QueriesAddUp == CatalogueInv => RulesAddUp
  <1> SUFFICES ASSUME CatalogueInv, step = "designed" PROVE RulesAddUp
    BY DEF RulesAddUp
  <1>1. Reasoning(query).rules \in Seq(Rule)
    BY ReasoningFacts
  <1>2. \A fewer \in SUBSET query.signals :
          /\ Range(ApplyRules(Reasoning(query).rules, fewer).styles) \subseteq Range(Applied(query).styles)
          /\ ApplyRules(Reasoning(query).rules, fewer).constraints \subseteq Applied(query).constraints
    BY <1>1, SayingMore DEF Applied
  <1>3. ASSUME query.variance = 0, design.results # {}, Resolving(table, Applied(query).styles) # {}
        PROVE  design.style = FirstStyle(table, Applied(query).styles)
    <2> DEFINE a == Applied(query).styles
               p == Priority(query)
               last == Reasoning(query).priority
               S == StyleId \cup {NoId}
    <2>1. a \in Seq(S) /\ p = (<<>> \o a) \o last /\ last \in Seq(S)
      <3>1. a \in Seq(StyleId) /\ p = (<<>> \o a) \o last
        BY <1>3, PriorityParts
      <3>2. last \in Seq(S)
        BY ReasoningFacts
      <3>3. a \in Seq(S)
        BY <3>1
      <3>4. QED
        BY <3>1, <3>2, <3>3
    <2>2. design.style \in BestStyles(table, design.results, p)
      BY DEF CatalogueInv
    <2>3. Resolving(table, a) # {}
      BY <1>3
    <2> HIDE DEF a, p, last, S
    <2>4. p = a \o last
      BY <2>1
    <2>5. Resolving(table, p) # {} /\ FirstStyle(table, p) = FirstStyle(table, a)
      BY <2>1, <2>3, <2>4, FirstOfMore
    <2>6. QED
      BY <1>3, <2>2, <2>5 DEF BestStyles, a
  <1>4. QED
    BY <1>2, <1>3 DEF RulesAddUp

LEMMA PatternsAreKept == CatalogueInv => PatternIsKept
  <1> SUFFICES ASSUME CatalogueInv, step = "designed", query.product \/ DefaultPattern \in Landing
               PROVE  design.landing = Pattern(query)
    BY DEF PatternIsKept
  <1>1. /\ Reasoning(query).rules \in Seq(Rule) /\ ReasoningAudit(Reasoning(query).rules)
        /\ Reasoning(query).pattern \in Landing /\ design.landing \in BestLandings(query)
    BY ReasoningFacts DEF CatalogueInv
  <1>2. Applied(query).pattern \in Landing \cup {NoId}
    BY <1>1, RulesName DEF Applied
  <1>3. Pattern(query) \in Landing
    BY <1>1, <1>2 DEF Pattern
  <1>4. LandingQuery(Pattern(query)) = Pattern(query) /\ Pattern(query) # NoId
    BY <1>3, CatalogueAssumption DEF LandingQuery
  <1>5. BestLandings(query) = UNION {IF Pattern(query) \in f THEN {Pattern(query)} ELSE IF f = {} THEN {NoId} ELSE f :
                                       f \in {{Pattern(query)}}}
    BY <1>4 DEF BestLandings
  <1>6. QED
    BY <1>1, <1>5

LEMMA NamesLead == CatalogueInv => NamedIsLed
  <1> SUFFICES ASSUME CatalogueInv, step = "searched", query.exact # NoId, query.domain # "landing", query.limit
               PROVE  LET r == table[query.exact]
                      IN \/ answer.how = "redirect" /\ answer.redirect \in Landing /\ r.status = "deprecated"
                         \/ /\ answer.how = "identity"
                            /\ \E s \in answer.rows : /\ r.status # "deprecated" => s = query.exact
                                                     /\ table[s].status = "deprecated" => r.domain = "style"
    BY DEF NamedIsLed
  <1> DEFINE e == query.exact
             r == table[e]
             to == Destination(table, e)
  <1>1. query \in SearchQuery /\ answer \in Answers(table, query) /\ table \in [StyleId -> Row]
        /\ \A s \in StyleId : ~RowProblem(table, s)
    BY DEF CatalogueInv, StyleAudit
  <1>2. e \in StyleId /\ query.domain \in {"auto", "style"}
    BY <1>1 DEF SearchQuery
  <1>3. r \in Row /\ ~RowProblem(table, e)
    BY <1>1, <1>2
  <1>4. StyleIdentity(query, FALSE) = e /\ StyleIdentity(query, TRUE) = e
    BY DEF StyleIdentity
  <1>5. DestinationOf(table, e) = to
    BY DEF DestinationOf
  <1>6. Route(table, query).to = to
    BY <1>2, <1>4, <1>5 DEF Route
  <1>7. /\ r.status # "deprecated" => to = [row |-> e, redirect |-> NoId]
        /\ r.status = "deprecated" /\ r.parent # NoId => to = [row |-> r.parent, redirect |-> NoId]
        /\ r.status = "deprecated" /\ r.parent = NoId /\ r.domain = "style" => to = [row |-> r.target, redirect |-> NoId]
        /\ r.status = "deprecated" /\ r.parent = NoId /\ r.domain # "style" => to = [row |-> NoId, redirect |-> r.target]
    BY DEF Destination
  <1>8. /\ r.parent # NoId => table[r.parent].status = "active"
        /\ r.status = "deprecated" /\ r.parent = NoId =>
             r.target # NoId /\ r.target \in (IF r.domain = "style" THEN StyleId ELSE Landing)
    BY <1>3 DEF RowProblem, ParentProblem, Redirects
  <1>9. to.row # NoId => answer = [rows |-> {to.row}, redirect |-> NoId, how |-> "identity"]
    BY <1>1, <1>6 DEF Answers
  <1>10. to.row = NoId /\ to.redirect # NoId => answer = [rows |-> {}, redirect |-> to.redirect, how |-> "redirect"]
    BY <1>1, <1>6 DEF Answers
  <1> HIDE DEF e, r, to
  <1>11. CASE r.status = "deprecated" /\ r.parent = NoId /\ r.domain # "style"
    <2>1. to.row = NoId /\ to.redirect = r.target /\ r.target # NoId /\ r.target \in Landing
      BY <1>7, <1>8, <1>11
    <2>2. answer.how = "redirect" /\ answer.redirect \in Landing
      BY <1>10, <2>1
    <2>3. QED
      BY <1>11, <2>2 DEF r, e
  <1>12. CASE r.status # "deprecated" \/ r.parent # NoId \/ r.domain = "style"
    <2>1. /\ to.row # NoId /\ (r.status # "deprecated" => to.row = e)
          /\ table[to.row].status = "deprecated" => r.domain = "style"
      <3>1. CASE r.status # "deprecated"
        BY <1>2, <1>7, <3>1, CatalogueAssumption DEF r
      <3>2. CASE r.status = "deprecated" /\ r.parent # NoId
        BY <1>7, <1>8, <3>2
      <3>3. CASE r.status = "deprecated" /\ r.parent = NoId /\ r.domain = "style"
        BY <1>7, <1>8, <3>3
      <3>4. QED
        BY <1>12, <3>1, <3>2, <3>3
    <2>2. answer.how = "identity" /\ to.row \in answer.rows
      BY <1>9, <2>1
    <2>3. QED
      BY <2>1, <2>2 DEF r, e
  <1>13. QED
    BY <1>11, <1>12

-----------------------------------------------------------------------------
(***************************************************************************)
(* Bm25: scores are sums of weights, and a weight is positive where its    *)
(* word occurs.                                                            *)
(***************************************************************************)

Tokenized == {c \in Seq(Seq(Word)) : Len(c) <= MaxRows}

\* The least number that is no less than a fraction.
LEMMA RoundedUpFacts ==
  ASSUME NEW a \in Nat, NEW b \in Nat \ {0}
  PROVE  /\ RoundedUp(a, b) \in Nat
         /\ RoundedUp(a, b) * b >= a
         /\ RoundedUp(a, b) > 0 <=> a > 0
         /\ \A k \in Nat : k * b >= a => RoundedUp(a, b) <= k
  <1> DEFINE q == (-a) \div b
             r == RoundedUp(a, b)
  <1>1. q \in Int /\ r = -q /\ r \in Int
    BY DEF RoundedUp
  <1>2. q * b <= -a /\ -a < q * b + b
    <2>1. -a \in Int
      OBVIOUS
    <2>2. ASSUME NEW x \in Int PROVE (x \div b) * b <= x /\ x < (x \div b) * b + b
      OBVIOUS
    <2>3. QED
      BY <2>1, <2>2
  <1> HIDE DEF q, r
  <1>3. q * b \in Int /\ r * b = -(q * b) /\ (r - 1) * b = r * b - b
    BY <1>1
  <1>4. r * b >= a /\ (r - 1) * b < a
    BY <1>1, <1>2, <1>3
  <1>5. ASSUME NEW k \in Int, k * b >= a PROVE r <= k
    <2>1. (r - 1) * b < k * b
      BY <1>1, <1>4, <1>5
    <2>2. ASSUME NEW x \in Int, NEW y \in Int, x >= y PROVE x * b >= y * b
      BY <2>2
    <2>3. r - 1 < k
      BY <1>1, <2>1, <2>2
    <2>4. QED
      BY <1>1, <2>3
  <1>6. r >= 0
    <2>1. CASE r <= -1
      <3>1. ASSUME NEW x \in Int, x <= -1 PROVE x * b < 0
        BY <3>1
      <3>2. QED
        BY <1>1, <1>4, <2>1, <3>1
    <2>2. QED
      BY <1>1, <2>1
  <1>7. r > 0 <=> a > 0
    <2>1. a = 0 => r <= 0
      BY <1>5
    <2>2. r = 0 => a = 0
      BY <1>4
    <2>3. QED
      BY <1>1, <1>6, <2>1, <2>2
  <1>8. QED
    BY <1>1, <1>4, <1>5, <1>6, <1>7 DEF r

LEMMA TermFreqFacts ==
  ASSUME NEW tokens \in Seq(Word), NEW w
  PROVE  /\ TermFreq(tokens, w) \in Nat
         /\ TermFreq(tokens, w) > 0 <=> w \in Range(tokens)
  <1> DEFINE K == {k \in DOMAIN tokens : tokens[k] = w}
  <1>1. IsFiniteSet(DOMAIN tokens)
    <2>1. DOMAIN tokens = 1..Len(tokens) /\ Len(tokens) \in Nat
      OBVIOUS
    <2>2. QED
      BY <2>1, FS_Interval
  <1>2. K \in SUBSET DOMAIN tokens
    OBVIOUS
  <1>3. IsFiniteSet(K)
    BY <1>1, <1>2, FS_Subset
  <1>4. Cardinality(K) \in Nat /\ (Cardinality(K) = 0 <=> K = {})
    BY <1>3, FS_CardinalityType, FS_EmptySet
  <1>5. K # {} <=> w \in Range(tokens)
    BY DEF Range
  <1>6. TermFreq(tokens, w) = Cardinality(K)
    BY DEF TermFreq
  <1> HIDE DEF K
  <1>7. QED
    BY <1>4, <1>5, <1>6

LEMMA CorpusFacts ==
  ASSUME NEW c \in Tokenized
  PROVE  /\ DOMAIN c = 1..Len(c) /\ Len(c) \in Nat /\ IsFiniteSet(DOMAIN c)
         /\ \A i \in DOMAIN c : c[i] \in Seq(Word) /\ Len(c[i]) \in Nat
         /\ TotalLength(c) \in Nat
         /\ \A w \in Vocabulary(c) : TotalLength(c) > 0 /\ Idf(Len(c), DocFreq(c, w)) \in Nat \ {0}
  <1>1. DOMAIN c = 1..Len(c) /\ Len(c) \in Nat /\ Len(c) <= MaxRows /\ \A i \in DOMAIN c : c[i] \in Seq(Word) /\ Len(c[i]) \in Nat
    BY DEF Tokenized
  <1>2. IsFiniteSet(DOMAIN c)
    BY <1>1, FS_Interval
  <1> DEFINE lengths == [i \in DOMAIN c |-> Len(c[i])]
  <1>3. lengths \in [DOMAIN c -> Nat]
    BY <1>1
  <1>4. TotalLength(c) = SumFunction(lengths)
    BY DEF TotalLength
  <1>5. TotalLength(c) \in Nat /\ (TotalLength(c) > 0 <=> \E i \in DOMAIN c : lengths[i] > 0)
    <2> HIDE DEF lengths
    <2>1. QED
      BY <1>2, <1>3, <1>4, SumIsPositive
  <1>6. ASSUME NEW w \in Vocabulary(c)
        PROVE  TotalLength(c) > 0 /\ Idf(Len(c), DocFreq(c, w)) \in Nat \ {0}
    <2>1. PICK i \in DOMAIN c : w \in Range(c[i])
      BY DEF Vocabulary
    <2>2. Len(c[i]) > 0
      BY <1>1, <2>1 DEF Range
    <2>3. lengths[i] > 0
      BY <2>2
    <2> DEFINE D == {j \in DOMAIN c : w \in Range(c[j])}
    <2>4. i \in D /\ D \in SUBSET DOMAIN c
      BY <2>1
    <2>5. IsFiniteSet(D) /\ Cardinality(D) <= Cardinality(DOMAIN c)
      BY <1>2, <2>4, FS_Subset
    <2>6. Cardinality(DOMAIN c) = Len(c)
      <3>1. ASSUME NEW n \in Nat PROVE Cardinality(1..n) = n
        BY FS_Interval
      <3>2. QED
        BY <1>1, <3>1, Zenon
    <2>7. Cardinality(D) \in Nat /\ Cardinality(D) # 0
      BY <2>4, <2>5, FS_CardinalityType, FS_EmptySet
    <2>8. DocFreq(c, w) = Cardinality(D)
      BY DEF DocFreq
    <2>9. DocFreq(c, w) \in 1..Len(c) /\ Len(c) \in 1..MaxRows
      BY <1>1, <2>5, <2>6, <2>7, <2>8, Bm25Assumption
    <2>10. QED
      BY <1>5, <2>3, <2>9, Bm25Assumption DEF Idf
  <1>7. QED
    BY <1>1, <1>2, <1>5, <1>6

\* A weight is that of a frequency t, for a word of the vocabulary and rows of one length.
Fraction(idf, sum, lengths, t) == RoundedUp(idf * t * 2500 * sum, 1000 * t * sum + 375 * sum + lengths)

LEMMA FractionFacts ==
  ASSUME NEW idf \in Nat \ {0}, NEW sum \in Nat \ {0}, NEW lengths \in Nat, NEW t \in Nat
  PROVE  /\ Fraction(idf, sum, lengths, t) \in Nat
         /\ Fraction(idf, sum, lengths, t) > 0 <=> t > 0
         /\ \A s \in Nat : s <= t => Fraction(idf, sum, lengths, s) <= Fraction(idf, sum, lengths, t)
  <1> DEFINE A == idf * 2500 * sum
             B == 1000 * sum
             C == 375 * sum + lengths
  <1>1. A \in Nat \ {0} /\ B \in Nat \ {0} /\ C \in Nat \ {0}
    <2>1. ASSUME NEW x \in Nat \ {0}, NEW y \in Nat \ {0} PROVE x * y \in Nat \ {0}
      OBVIOUS
    <2>2. idf * 2500 \in Nat \ {0} /\ 375 * sum \in Nat \ {0}
      OBVIOUS
    <2>3. QED
      BY <2>1, <2>2
  <1>2. ASSUME NEW s \in Nat
        PROVE  /\ Fraction(idf, sum, lengths, s) = RoundedUp(A * s, B * s + C)
               /\ A * s \in Nat /\ B * s + C \in Nat \ {0} /\ (A * s > 0 <=> s > 0)
    <2>1. idf * s * 2500 * sum = A * s /\ 1000 * s * sum + 375 * sum + lengths = B * s + C
      OBVIOUS
    <2> HIDE DEF A, B, C
    <2>2. A * s \in Nat /\ B * s \in Nat /\ (A * s > 0 <=> s > 0)
      BY <1>1
    <2>3. QED
      BY <1>1, <2>1, <2>2 DEF Fraction
  <1> HIDE DEF A, B, C
  <1>3. ASSUME NEW s \in Nat
        PROVE  Fraction(idf, sum, lengths, s) \in Nat /\ (Fraction(idf, sum, lengths, s) > 0 <=> s > 0)
    <2>1. /\ RoundedUp(A * s, B * s + C) \in Nat
          /\ RoundedUp(A * s, B * s + C) > 0 <=> A * s > 0
      BY <1>2, RoundedUpFacts
    <2>2. QED
      BY <1>2, <2>1
  <1>4. ASSUME NEW s \in Nat, s <= t
        PROVE  Fraction(idf, sum, lengths, s) <= Fraction(idf, sum, lengths, t)
    <2>1. CASE t = 0
      BY <1>3, <1>4, <2>1
    <2>2. CASE t # 0
      <3> DEFINE k == RoundedUp(A * t, B * t + C)
      <3>1. k \in Nat /\ k * (B * t + C) >= A * t
        BY <1>2, RoundedUpFacts
      <3> HIDE DEF k
      <3>2. (k * (B * t + C)) * s >= (A * t) * s
        <4>1. ASSUME NEW x \in Nat, NEW y \in Nat, x >= y PROVE x * s >= y * s
          BY <4>1
        <4>2. k * (B * t + C) \in Nat /\ A * t \in Nat
          BY <1>1, <1>2, <3>1
        <4>3. QED
          BY <3>1, <4>1, <4>2
      <3>3. (k * (B * s + C)) * t >= (k * (B * t + C)) * s
        <4>1. (k * (B * s + C)) * t = k * B * s * t + (k * C) * t
          BY <1>1, <3>1
        <4>2. (k * (B * t + C)) * s = k * B * s * t + (k * C) * s
          BY <1>1, <3>1
        <4>3. ASSUME NEW x \in Nat PROVE x * t >= x * s
          BY <1>4
        <4>4. k * C \in Nat /\ k * B * s * t \in Nat
          BY <1>1, <3>1
        <4>5. (k * C) * t >= (k * C) * s /\ (k * C) * t \in Int /\ (k * C) * s \in Int
          <5>1. (k * C) * t \in Int /\ (k * C) * s \in Int
            BY <4>4
          <5>2. QED
            BY <4>3, <4>4, <5>1
        <4>6. ASSUME NEW x \in Int, NEW y \in Int, NEW z \in Int, y >= z PROVE x + y >= x + z
          BY <4>6
        <4>7. k * B * s * t + (k * C) * t >= k * B * s * t + (k * C) * s
          BY <4>4, <4>5, <4>6
        <4>8. QED
          BY <4>1, <4>2, <4>7
      <3>4. k * (B * s + C) >= A * s
        <4>1. k * (B * s + C) \in Nat /\ A * s \in Nat
          BY <1>2, <3>1
        <4>2. (A * t) * s = (A * s) * t
          BY <1>1
        <4>3. (k * (B * s + C)) * t >= (A * s) * t
          <5>1. (k * (B * s + C)) * t \in Int /\ (k * (B * t + C)) * s \in Int /\ (A * s) * t \in Int
            BY <1>1, <1>2, <3>1
          <5>2. QED
            BY <3>2, <3>3, <4>2, <5>1
        <4>4. ASSUME NEW x \in Nat, NEW y \in Nat, x < y PROVE x * t < y * t
          BY <2>2, <4>4
        <4>5. QED
          BY <4>1, <4>3, <4>4
      <3>5. RoundedUp(A * s, B * s + C) <= k
        BY <1>2, <3>1, <3>4, RoundedUpFacts
      <3>6. QED
        BY <1>2, <3>5 DEF k
    <2>3. QED
      BY <2>1, <2>2
  <1>5. QED
    BY <1>3, <1>4

LEMMA WeightFacts ==
  ASSUME NEW c \in Tokenized, NEW i \in DOMAIN c, NEW w \in Vocabulary(c)
  PROVE  /\ Weight(c, i, w) = Fraction(Idf(Len(c), DocFreq(c, w)), TotalLength(c),
                                       1125 * Len(c[i]) * Len(c), TermFreq(c[i], w))
         /\ Weight(c, i, w) \in Nat
         /\ Weight(c, i, w) > 0 <=> w \in Range(c[i])
         /\ \A j \in DOMAIN c : Len(c[j]) = Len(c[i]) /\ TermFreq(c[j], w) <= TermFreq(c[i], w) =>
              Weight(c, j, w) <= Weight(c, i, w)
  <1> DEFINE idf == Idf(Len(c), DocFreq(c, w))
             sum == TotalLength(c)
             lengths(j) == 1125 * Len(c[j]) * Len(c)
             tf(j) == TermFreq(c[j], w)
  <1>1. idf \in Nat \ {0} /\ sum \in Nat \ {0} /\ Len(c) \in Nat /\ \A j \in DOMAIN c : c[j] \in Seq(Word) /\ Len(c[j]) \in Nat
    BY CorpusFacts
  <1>2. \A j \in DOMAIN c : tf(j) \in Nat /\ (tf(j) > 0 <=> w \in Range(c[j]))
    BY <1>1, TermFreqFacts
  <1>3. \A j \in DOMAIN c : lengths(j) \in Nat
    <2>1. ASSUME NEW a \in Nat, NEW b \in Nat PROVE 1125 * a * b \in Nat
      OBVIOUS
    <2>2. ASSUME NEW j \in DOMAIN c PROVE lengths(j) \in Nat
      <3>1. Len(c[j]) \in Nat /\ Len(c) \in Nat
        BY <1>1
      <3> HIDE DEF idf, sum, tf
      <3>2. QED
        BY <2>1, <3>1
    <2>3. QED
      BY <2>2
  <1>4. \A j \in DOMAIN c : Weight(c, j, w) = Fraction(idf, sum, lengths(j), tf(j))
    BY DEF Weight, Fraction
  <1>5. ASSUME NEW j \in DOMAIN c, Len(c[j]) = Len(c[i]) PROVE lengths(j) = lengths(i)
    BY <1>5
  <1> HIDE DEF idf, sum, lengths, tf
  <1>6. /\ Fraction(idf, sum, lengths(i), tf(i)) \in Nat
        /\ Fraction(idf, sum, lengths(i), tf(i)) > 0 <=> tf(i) > 0
        /\ \A s \in Nat : s <= tf(i) => Fraction(idf, sum, lengths(i), s) <= Fraction(idf, sum, lengths(i), tf(i))
    BY <1>1, <1>2, <1>3, FractionFacts
  <1>7. ASSUME NEW j \in DOMAIN c, Len(c[j]) = Len(c[i]), TermFreq(c[j], w) <= TermFreq(c[i], w)
        PROVE  Weight(c, j, w) <= Weight(c, i, w)
    <2>1. tf(j) <= tf(i)
      BY <1>7 DEF tf
    <2>2. Fraction(idf, sum, lengths(i), tf(j)) <= Fraction(idf, sum, lengths(i), tf(i))
      BY <1>2, <1>6, <2>1
    <2>3. QED
      BY <1>4, <1>5, <1>7, <2>2
  <1>8. Weight(c, i, w) = Fraction(Idf(Len(c), DocFreq(c, w)), TotalLength(c),
                                   1125 * Len(c[i]) * Len(c), TermFreq(c[i], w))
    BY <1>4 DEF idf, sum, lengths, tf
  <1>9. QED
    BY <1>2, <1>4, <1>6, <1>7, <1>8

\* Only rows that share a token with the query score.
LEMMA ScoreFacts ==
  ASSUME NEW c \in Tokenized, NEW i \in DOMAIN c, NEW tokens \in Seq(Word)
  PROVE  /\ Score(c, i, tokens) \in Nat
         /\ Score(c, i, tokens) > 0 <=> Range(tokens) \cap Range(c[i]) # {}
  <1> DEFINE K == Range(tokens) \cap Vocabulary(c)
             f == [w \in K |-> TermFreq(tokens, w) * Weight(c, i, w)]
  <1>1. IsFiniteSet(K)
    BY RangeIsFinite, FS_Subset
  <1>2. ASSUME NEW w \in K
        PROVE  f[w] \in Nat /\ (f[w] > 0 <=> w \in Range(c[i]))
    <2>1. TermFreq(tokens, w) \in Nat /\ TermFreq(tokens, w) > 0
      BY TermFreqFacts
    <2>2. Weight(c, i, w) \in Nat /\ (Weight(c, i, w) > 0 <=> w \in Range(c[i]))
      BY WeightFacts
    <2>3. ASSUME NEW x \in Nat, NEW y \in Nat, x > 0 PROVE x * y \in Nat /\ (x * y > 0 <=> y > 0)
      BY <2>3
    <2>4. QED
      BY <2>1, <2>2, <2>3
  <1>3. Range(c[i]) \subseteq Vocabulary(c)
    BY DEF Vocabulary
  <1>4. Score(c, i, tokens) = SumFunction(f)
    BY DEF Score
  <1>5. f \in [K -> Nat]
    BY <1>2
  <1>6. (\E w \in K : f[w] > 0) <=> Range(tokens) \cap Range(c[i]) # {}
    BY <1>2, <1>3
  <1> HIDE DEF K, f
  <1>7. QED
    BY <1>1, <1>4, <1>5, <1>6, SumIsPositive

\* The more often the tokens of the query occur in a row, the higher it scores.
LEMMA ScoreIsMonotone ==
  ASSUME NEW c \in Tokenized, NEW i \in DOMAIN c, NEW j \in DOMAIN c, NEW tokens \in Seq(Word),
         Len(c[i]) = Len(c[j]), \A w \in Range(tokens) : TermFreq(c[i], w) >= TermFreq(c[j], w)
  PROVE  Score(c, i, tokens) >= Score(c, j, tokens)
  <1> DEFINE K == Range(tokens) \cap Vocabulary(c)
             f(k) == [w \in K |-> TermFreq(tokens, w) * Weight(c, k, w)]
  <1>1. IsFiniteSet(K)
    BY RangeIsFinite, FS_Subset
  <1>2. ASSUME NEW w \in K PROVE f(j)[w] \in Int /\ f(i)[w] \in Int /\ f(j)[w] <= f(i)[w]
    <2>1. TermFreq(tokens, w) \in Nat
      BY TermFreqFacts
    <2>2. Weight(c, i, w) \in Nat /\ Weight(c, j, w) \in Nat
      BY WeightFacts
    <2>3. TermFreq(c[j], w) <= TermFreq(c[i], w)
      <3>1. TermFreq(c[j], w) \in Nat /\ TermFreq(c[i], w) \in Nat
        BY CorpusFacts, TermFreqFacts
      <3>2. QED
        BY <3>1
    <2>4. Weight(c, j, w) <= Weight(c, i, w)
      BY <2>3, WeightFacts
    <2>5. ASSUME NEW x \in Nat, NEW y \in Nat, NEW z \in Nat, y <= z
          PROVE x * y \in Int /\ x * z \in Int /\ x * y <= x * z
      BY <2>5
    <2>6. QED
      BY <2>1, <2>2, <2>4, <2>5
  <1>3. Score(c, i, tokens) = SumFunction(f(i)) /\ Score(c, j, tokens) = SumFunction(f(j))
    BY DEF Score
  <1>4. f(i) \in [K -> Int] /\ f(j) \in [K -> Int] /\ \A w \in K : f(j)[w] <= f(i)[w]
    BY <1>2
  <1> HIDE DEF K, f
  <1>5. SumFunction(f(j)) <= SumFunction(f(i))
    BY <1>1, <1>4, SumIsMonotone
  <1>6. Score(c, i, tokens) \in Nat /\ Score(c, j, tokens) \in Nat
    BY ScoreFacts
  <1>7. QED
    BY <1>3, <1>5, <1>6

(***************************************************************************)
(* Ranking: what an answer holds is what its search found, and a term that *)
(* is suggested is a word of the table, which is searched for as it is.    *)
(***************************************************************************)

\* Words of a text: what is kept of it, what it is normalized to, what it is split into.
LEMMA KeepFacts ==
  ASSUME NEW text \in Seq(Word), NEW kept
  PROVE  Keep(text, kept) \in Seq(Word) /\ Range(Keep(text, kept)) = Range(text) \cap kept
  <1> DEFINE ss == [k \in DOMAIN text |-> IF text[k] \in kept THEN <<text[k]>> ELSE <<>>]
  <1>1. ss \in Seq(Seq(Word)) /\ DOMAIN ss = DOMAIN text
    <2>1. \A k \in DOMAIN text : ss[k] \in Seq(Word)
      OBVIOUS
    <2>2. ss \in [1..Len(text) -> Seq(Word)] /\ DOMAIN text = 1..Len(text) /\ Len(text) \in Nat
      BY <2>1
    <2> HIDE DEF ss
    <2>3. ss \in Seq(Seq(Word))
      BY <2>2
    <2>4. QED
      BY <2>2, <2>3
  <1>2. Keep(text, kept) = FlattenSeq(ss)
    BY DEF Keep
  <1>3. UNION {Range(ss[k]) : k \in DOMAIN ss} = Range(text) \cap kept
    <2>1. \A k \in DOMAIN text : Range(ss[k]) = IF text[k] \in kept THEN {text[k]} ELSE {}
      BY DEF Range
    <2>2. QED
      BY <2>1 DEF Range
  <1> HIDE DEF ss
  <1>4. QED
    BY <1>1, <1>2, <1>3, FlattenFacts

LEMMA NormalizeFacts ==
  ASSUME NEW text \in Seq(Word)
  PROVE  /\ Normalize(text) \in Seq(Word)
         /\ Range(Normalize(text)) = UNION {Range(Synonym[text[k]]) : k \in DOMAIN text}
  <1> DEFINE ss == [k \in DOMAIN text |-> Synonym[text[k]]]
  <1>1. ss \in Seq(Seq(Word)) /\ DOMAIN ss = DOMAIN text
    BY RankingAssumption
  <1>2. Normalize(text) = FlattenSeq(ss)
    BY DEF Normalize
  <1>3. UNION {Range(ss[k]) : k \in DOMAIN ss} = UNION {Range(Synonym[text[k]]) : k \in DOMAIN text}
    OBVIOUS
  <1> HIDE DEF ss
  <1>4. QED
    BY <1>1, <1>2, <1>3, FlattenFacts

LEMMA TokensFacts ==
  ASSUME NEW text \in Seq(Word)
  PROVE  /\ UiTokens(text) \in Seq(Word)
         /\ Range(UiTokens(text)) = Range(Normalize(text)) \cap (Word \ (Single \cup Stopword))
         /\ LongTokens(text) \in Seq(Word)
  BY NormalizeFacts, KeepFacts DEF UiTokens, LongTokens

LEMMA TokensOfWord ==
  ASSUME NEW w \in Word, Synonym[w] = <<w>>
  PROVE  /\ <<w>> \in Seq(Word) /\ Range(Normalize(<<w>>)) = {w}
         /\ Range(UiTokens(<<w>>)) = {w} \cap (Word \ (Single \cup Stopword))
  <1>1. <<w>> \in Seq(Word) /\ DOMAIN <<w>> = {1} /\ <<w>>[1] = w
    OBVIOUS
  <1>2. Range(<<w>>) = {w}
    BY DEF Range
  <1>3. Range(Normalize(<<w>>)) = UNION {Range(Synonym[<<w>>[k]]) : k \in DOMAIN <<w>>}
    BY <1>1, NormalizeFacts
  <1>4. Range(Normalize(<<w>>)) = {w}
    BY <1>1, <1>2, <1>3
  <1>5. QED
    BY <1>1, <1>4, TokensFacts

LEMMA CorporaAreTokenized ==
  ASSUME NEW documents \in Seq(Seq(Word)), Len(documents) <= MaxRows
  PROVE  /\ UiCorpus(documents) \in Tokenized /\ DOMAIN UiCorpus(documents) = DOMAIN documents
         /\ LongCorpus(documents) \in Tokenized /\ DOMAIN LongCorpus(documents) = DOMAIN documents
         /\ \A i \in DOMAIN documents : /\ documents[i] \in Seq(Word)
                                        /\ UiCorpus(documents)[i] = UiTokens(documents[i])
                                        /\ LongCorpus(documents)[i] = LongTokens(documents[i])
  <1>1. \A i \in DOMAIN documents : documents[i] \in Seq(Word)
    OBVIOUS
  <1>2. \A i \in DOMAIN documents : UiTokens(documents[i]) \in Seq(Word) /\ LongTokens(documents[i]) \in Seq(Word)
    BY <1>1, TokensFacts
  <1>3. DOMAIN documents = 1..Len(documents) /\ Len(documents) \in Nat
    OBVIOUS
  <1>4. UiCorpus(documents) \in Seq(Seq(Word)) /\ LongCorpus(documents) \in Seq(Seq(Word))
        /\ Len(UiCorpus(documents)) = Len(documents) /\ Len(LongCorpus(documents)) = Len(documents)
    BY <1>2, <1>3 DEF UiCorpus, LongCorpus
  <1>5. QED
    BY <1>1, <1>3, <1>4 DEF UiCorpus, LongCorpus, Tokenized

\* The rows found are those that share a token with the query, up to the limit.
LEMMA FoundFacts ==
  ASSUME NEW c \in Tokenized, NEW tokens \in Seq(Word), NEW limit \in Nat
  PROVE  LET all == {i \in DOMAIN c : Range(tokens) \cap Range(c[i]) # {}}
         IN /\ FoundRows(c, tokens, limit) \subseteq all
            /\ IsFiniteSet(all)
            /\ Cardinality(FoundRows(c, tokens, limit)) =
                 IF Cardinality(all) < limit THEN Cardinality(all) ELSE limit
  <1> DEFINE D == DOMAIN c
             score == [i \in D |-> Score(c, i, tokens)]
             R == {p \in D \X D : Ahead(score, p[1], p[2])}
             all == {i \in D : Range(tokens) \cap Range(c[i]) # {}}
  <1>1. IsFiniteSet(D) /\ D \subseteq Nat /\ all \in SUBSET D
    BY CorpusFacts
  <1>2. \A i \in D : score[i] \in Nat /\ (score[i] > 0 <=> i \in all)
    BY ScoreFacts
  <1>3. \A i, j \in D : <<i, j>> \in R <=> Ahead(score, i, j)
    OBVIOUS
  <1>4. FoundRows(c, tokens, limit) =
          {i \in D : Positive(score[i]) /\ Cardinality({j \in D : Ahead(score, j, i)}) < limit}
    BY DEF FoundRows
  <1>5. IsFiniteSet(all)
    BY <1>1, FS_Subset
  <1>6. \A i \in D : Preceding(D, R, i) = {j \in D : Ahead(score, j, i)}
    BY <1>3 DEF Preceding
  <1> HIDE DEF D, score, R, all
  <1>7. StrictOrder(D, R)
    <2>1. \A i \in D : ~Ahead(score, i, i)
      BY <1>1, <1>2 DEF Ahead
    <2>2. \A i, j, k \in D : Ahead(score, i, j) /\ Ahead(score, j, k) => Ahead(score, i, k)
      BY <1>1, <1>2 DEF Ahead
    <2>3. \A i, j \in D : i # j => Ahead(score, i, j) \/ Ahead(score, j, i)
      BY <1>1, <1>2 DEF Ahead
    <2>4. QED
      BY <1>3, <2>1, <2>2, <2>3 DEF StrictOrder
  <1>8. \A i \in all : Preceding(D, R, i) \subseteq all
    <2>1. ASSUME NEW i \in all, NEW j \in D, Ahead(score, j, i) PROVE j \in all
      <3>1. score[i] \in Nat /\ score[i] > 0 /\ score[j] \in Nat
        BY <1>1, <1>2
      <3>2. score[j] > 0
        BY <2>1, <3>1 DEF Ahead
      <3>3. QED
        BY <1>2, <3>2
    <2>2. QED
      BY <1>1, <1>6, <2>1
  <1>9. FoundRows(c, tokens, limit) = Foremost(D, R, all, limit)
    BY <1>1, <1>2, <1>4, <1>6 DEF Foremost, Positive
  <1>10. Cardinality(Foremost(D, R, all, limit)) = IF Cardinality(all) < limit THEN Cardinality(all) ELSE limit
    BY <1>1, <1>7, <1>8, ForemostAreCounted
  <1>11. Foremost(D, R, all, limit) \subseteq all
    BY DEF Foremost
  <1>12. QED
    BY <1>5, <1>9, <1>10, <1>11 DEF all, D

LEMMA RewrittenIsText ==
  ASSUME NEW documents, NEW asked \in Seq(Word)
  PROVE  RewriteQuery(documents, asked) \in Seq(Word)
  <1> DEFINE unknown == {w \in Range(Normalize(asked)) :
                           Range(UiTokens(<<w>>)) \cap Vocabulary(UiCorpus(documents)) = {}}
             added == UNION {Rewrite[w] : w \in unknown}
  <1>1. unknown \subseteq Word
    BY NormalizeFacts, RangeIsFinite
  <1>2. added \in SUBSET UNION {Rewrite[w] : w \in Word} /\ added \subseteq Word
    BY <1>1, RankingAssumption
  <1>3. IsFiniteSet(added)
    BY <1>2, FS_Subset, RankingAssumption
  <1>4. SetToSeq(added) \in Seq(Word)
    <2>1. SetToSeq(added) \in Seq(added)
      BY <1>3, SetAsSequence
    <2> HIDE DEF added
    <2>2. QED
      BY <1>2, <2>1
  <1>5. QED
    BY <1>4 DEF RewriteQuery

\* A word of the table is not rewritten.
LEMMA KnownIsNotRewritten ==
  ASSUME NEW documents, NEW w \in Word, Synonym[w] = <<w>>, w \in Word \ (Single \cup Stopword),
         w \in Vocabulary(UiCorpus(documents))
  PROVE  RewriteQuery(documents, <<w>>) = <<w>>
  <1>1. {v \in Range(Normalize(<<w>>)) : Range(UiTokens(<<v>>)) \cap Vocabulary(UiCorpus(documents)) = {}} = {}
    BY TokensOfWord
  <1>2. UNION {Rewrite[v] : v \in {}} = {}
    OBVIOUS
  <1>3. RewriteQuery(documents, <<w>>) = <<w>> \o SetToSeq({})
    BY <1>1, <1>2 DEF RewriteQuery
  <1>4. QED
    BY <1>3, EmptySetAsSequence

\* A threshold of nothing is passed where any row shares a token with the query.
LEMMA PassesFacts ==
  ASSUME NEW documents \in Corpora, NEW asked \in Seq(Word), NEW t \in Thresholds
  PROVE  LET all == {i \in DOMAIN documents : Range(UiTokens(asked)) \cap Range(UiTokens(documents[i])) # {}}
         IN /\ PassesThreshold(documents, asked, t) => all # {}
            /\ t.score = 0 /\ t.num = 0 /\ all # {} => PassesThreshold(documents, asked, t)
  <1> DEFINE c == UiCorpus(documents)
             tokens == UiTokens(asked)
             all == {i \in DOMAIN documents : Range(tokens) \cap Range(UiTokens(documents[i])) # {}}
  <1>1. documents \in Seq(Seq(Word)) /\ Len(documents) <= MaxRows /\ t.score \in Nat /\ t.den \in Nat \ {0}
    BY RankingAssumption
  <1>2. c \in Tokenized /\ DOMAIN c = DOMAIN documents /\ \A i \in DOMAIN documents : c[i] = UiTokens(documents[i])
    BY <1>1, CorporaAreTokenized
  <1>3. tokens \in Seq(Word)
    BY TokensFacts
  <1>4. \A i \in DOMAIN documents : Score(c, i, tokens) \in Nat /\ (Score(c, i, tokens) > 0 <=> i \in all)
    <2>1. \A i \in DOMAIN documents : i \in all <=> Range(tokens) \cap Range(c[i]) # {}
      BY <1>2
    <2> HIDE DEF c, tokens, all
    <2>2. QED
      BY <1>2, <1>3, <2>1, ScoreFacts
  <1>5. ASSUME t.num = 0 PROVE Covers(documents, asked, t.num, t.den)
    <2> DEFINE known == Range(tokens) \cap Vocabulary(c)
    <2>1. IsFiniteSet(Range(tokens)) /\ known \in SUBSET Range(tokens)
      BY <1>3, RangeIsFinite
    <2>2. Cardinality(Range(tokens)) \in Nat /\ Cardinality(known) \in Nat
      BY <2>1, FS_Subset, FS_CardinalityType
    <2>3. t.den * Cardinality(known) >= t.num * Cardinality(Range(tokens))
      <3> HIDE DEF known, tokens
      <3>1. ASSUME NEW x \in Nat, NEW y \in Nat, NEW d \in Nat PROVE d * x >= 0 * y
        OBVIOUS
      <3>2. QED
        BY <1>1, <1>5, <2>2, <3>1
    <2>4. QED
      BY <1>5, <2>3 DEF Covers
  <1>6. PassesThreshold(documents, asked, t) <=>
          (\E i \in DOMAIN documents : Score(c, i, tokens) > t.score) /\ Covers(documents, asked, t.num, t.den)
    BY DEF PassesThreshold
  <1> HIDE DEF c, tokens, all
  <1>7. ASSUME PassesThreshold(documents, asked, t) PROVE all # {}
    <2>1. PICK i \in DOMAIN documents : Score(c, i, tokens) > t.score
      BY <1>6, <1>7
    <2>2. Score(c, i, tokens) > 0
      BY <1>1, <1>4, <2>1
    <2>3. QED
      BY <1>4, <2>2
  <1>8. ASSUME t.score = 0, t.num = 0, all # {} PROVE PassesThreshold(documents, asked, t)
    <2>1. PICK i \in DOMAIN documents : i \in all
      BY <1>8 DEF all
    <2>2. Score(c, i, tokens) > t.score
      BY <1>4, <1>8, <2>1
    <2>3. QED
      BY <1>5, <1>6, <1>8, <2>2
  <1>9. QED
    BY <1>7, <1>8 DEF all, tokens

\* A term that is suggested is searched for as it stands, and finds rows.
LEMMA SuggestionsLeadOn ==
  ASSUME NEW documents \in Corpora, NEW asked \in Seq(Word), NEW t \in Thresholds, NEW limit \in Limit,
         NEW w \in Suggestions(documents, asked, t)
  PROVE  SearchUi(documents, <<w>>, t, limit) # {}
  <1>1. documents \in Seq(Seq(Word)) /\ Len(documents) <= MaxRows /\ limit \in Nat \ {0}
    BY RankingAssumption DEF Limit
  <1>2. w \in Vocabulary(UiCorpus(documents)) /\ PassesThreshold(documents, <<w>>, t)
    BY DEF Suggestions
  <1>3. UiCorpus(documents) \in Tokenized /\ DOMAIN UiCorpus(documents) = DOMAIN documents
        /\ \A i \in DOMAIN documents : documents[i] \in Seq(Word) /\ UiCorpus(documents)[i] = UiTokens(documents[i])
    BY <1>1, CorporaAreTokenized
  <1>4. PICK i \in DOMAIN documents : w \in Range(UiTokens(documents[i]))
    BY <1>2, <1>3 DEF Vocabulary
  <1>5. w \in Range(Normalize(documents[i])) /\ w \in Word \ (Single \cup Stopword)
    BY <1>3, <1>4, TokensFacts
  <1>6. PICK k \in DOMAIN documents[i] : w \in Range(Synonym[documents[i][k]])
    BY <1>3, <1>5, NormalizeFacts
  <1>7. Synonym[w] = <<w>>
    <2>1. documents[i][k] \in Word
      BY <1>3, <1>6
    <2>2. QED
      BY <1>6, <2>1, RankingAssumption
  <1>8. RewriteQuery(documents, <<w>>) = <<w>>
    BY <1>2, <1>5, <1>7, KnownIsNotRewritten
  <1>9. SearchUi(documents, <<w>>, t, limit) = FoundRows(UiCorpus(documents), UiTokens(<<w>>), limit)
    BY <1>2, <1>8 DEF SearchUi
  <1> DEFINE all == {j \in DOMAIN UiCorpus(documents) : Range(UiTokens(<<w>>)) \cap Range(UiCorpus(documents)[j]) # {}}
  <1>10. <<w>> \in Seq(Word) /\ UiTokens(<<w>>) \in Seq(Word)
    <2>1. <<w>> \in Seq(Word)
      BY <1>5
    <2>2. QED
      BY <2>1, TokensFacts
  <1>11. all # {}
    <2>1. {j \in DOMAIN documents : Range(UiTokens(<<w>>)) \cap Range(UiTokens(documents[j])) # {}} # {}
      BY <1>2, <1>10, PassesFacts
    <2>2. QED
      BY <1>3, <2>1
  <1>12. /\ IsFiniteSet(all)
         /\ Cardinality(FoundRows(UiCorpus(documents), UiTokens(<<w>>), limit)) =
              IF Cardinality(all) < limit THEN Cardinality(all) ELSE limit
    BY <1>1, <1>3, <1>10, FoundFacts
  <1> HIDE DEF all
  <1>13. Cardinality(all) \in Nat \ {0}
    BY <1>11, <1>12, FS_CardinalityType, FS_EmptySet
  <1>14. Cardinality(FoundRows(UiCorpus(documents), UiTokens(<<w>>), limit)) # 0
    BY <1>1, <1>12, <1>13
  <1>15. QED
    BY <1>9, <1>14, FS_EmptySet

\* What an answer holds, until the caller retries.
Answered ==
  IF ask.tool = "ui"
  THEN /\ hits = SearchUi(corpus, ask.query, ask.threshold, ask.limit)
       /\ advice \subseteq Suggestions(corpus, ask.query, ask.threshold)
  ELSE /\ hits = FoundRows(LongCorpus(corpus), LongTokens(ask.query), ask.limit)
       /\ advice = {}

RankInv ==
  /\ rankStep \in {"idle", "search", "answered", "retried"}
  /\ rankStep # "idle" =>
       corpus \in Corpora /\ ask \in [tool: Tool, query: Queries, threshold: Thresholds, limit: Limit]
  /\ rankStep = "search" => advice = {}
  /\ rankStep = "idle" => advice = {}
  /\ rankStep = "answered" => Answered
  /\ rankStep = "retried" => hits # {}

LEMMA RankInvHolds == RankSpec => []RankInv
  <1>1. RankInit => RankInv
    BY DEF RankInit, RankInv
  <1>2. RankInv /\ [RankNext]_rankVars => RankInv'
    <2> SUFFICES ASSUME RankInv, [RankNext]_rankVars PROVE RankInv'
      OBVIOUS
    <2> USE DEF RankInv
    <2>1. CASE AskFor
      BY <2>1 DEF AskFor
    <2>2. CASE AnswerUi
      <3>1. Answered'
        <4>1. advice' \subseteq Suggestions(corpus, ask.query, ask.threshold)
          BY <2>2 DEF AnswerUi
        <4>2. QED
          BY <2>2, <4>1 DEF AnswerUi, Answered
      <3>2. QED
        BY <2>2, <3>1 DEF AnswerUi
    <2>3. ASSUME NEW t \in {"slides", "cip", "logo"}, AnswerPlain(t) PROVE RankInv'
      <3>1. Answered'
        BY <2>3 DEF AnswerPlain, Answered
      <3>2. QED
        BY <2>3, <3>1 DEF AnswerPlain
    <2>4. CASE Retry
      <3>1. PICK w \in advice : hits' = SearchUi(corpus, <<w>>, ask.threshold, ask.limit)
        BY <2>4 DEF Retry
      <3>2. ask.tool = "ui" /\ w \in Suggestions(corpus, ask.query, ask.threshold)
        BY <2>4, <3>1 DEF Retry, Answered
      <3>3. corpus \in Corpora /\ ask.query \in Seq(Word) /\ ask.threshold \in Thresholds /\ ask.limit \in Limit
        BY <2>4, RankingAssumption DEF Retry
      <3>4. hits' # {}
        BY <3>1, <3>2, <3>3, SuggestionsLeadOn
      <3>5. QED
        BY <2>4, <3>4 DEF Retry
    <2>5. CASE UNCHANGED rankVars
      BY <2>5 DEF rankVars, Answered
    <2>6. QED
      BY <2>1, <2>2, <2>3, <2>4, <2>5 DEF RankNext, AnswerSlides, AnswerCip, AnswerLogo
  <1>3. QED
    BY <1>1, <1>2, PTL DEF RankSpec

\* Searches in Bm25 and Ranking: for every table, query and threshold, a search
\* without a threshold finds the rows that share a token with the query, all of them
\* up to its limit, a row with more of every token scores no less, and a suggested
\* term finds rows when it is tried.
THEOREM SearchesAlwaysSound == RankSpec => []SearchSound
  <1>1. RankInv => SearchSound
    <2> SUFFICES ASSUME RankInv PROVE SearchSound
      OBVIOUS
    <2>1. RetryAnswers
      BY DEF RankInv, RetryAnswers
    <2>2. ASSUME rankStep = "answered"
          PROVE  /\ Answered /\ corpus \in Corpora /\ corpus \in Seq(Seq(Word)) /\ Len(corpus) <= MaxRows
                 /\ ask.tool \in Tool /\ ask.query \in Seq(Word) /\ ask.threshold \in Thresholds /\ ask.limit \in Nat \ {0}
      BY <2>2, RankingAssumption DEF RankInv, Limit
    <2>3. FindsTheMatching
      <3> SUFFICES ASSUME rankStep = "answered",
                          ask.tool # "ui" \/ (ask.threshold.score = 0 /\ ask.threshold.num = 0)
                   PROVE  LET asked == IF ask.tool = "ui" THEN RewriteQuery(corpus, ask.query) ELSE ask.query
                              all == Cardinality(Matching(asked))
                          IN /\ hits \subseteq Matching(asked)
                             /\ Cardinality(hits) = IF all < ask.limit THEN all ELSE ask.limit
        BY DEF FindsTheMatching
      <3>1. CASE ask.tool = "ui"
        <4> DEFINE asked == RewriteQuery(corpus, ask.query)
                   c == UiCorpus(corpus)
                   first == FoundRows(c, UiTokens(asked), ask.limit)
                   all == {i \in DOMAIN c : Range(UiTokens(asked)) \cap Range(c[i]) # {}}
        <4>1. asked \in Seq(Word) /\ UiTokens(asked) \in Seq(Word)
          BY <2>2, RewrittenIsText, TokensFacts
        <4>2. c \in Tokenized /\ DOMAIN c = DOMAIN corpus /\ \A i \in DOMAIN corpus : c[i] = UiTokens(corpus[i])
          BY <2>2, CorporaAreTokenized
        <4>3. first \subseteq all /\ IsFiniteSet(all)
              /\ Cardinality(first) = IF Cardinality(all) < ask.limit THEN Cardinality(all) ELSE ask.limit
          <5> HIDE DEF asked, c
          <5>1. QED
            BY <2>2, <4>1, <4>2, FoundFacts
        <4>4. Matching(asked) = all /\ all = {i \in DOMAIN corpus : Range(UiTokens(asked)) \cap Range(UiTokens(corpus[i])) # {}}
          BY <3>1, <4>2 DEF Matching, Tokens0
        <4>5. hits = IF PassesThreshold(corpus, asked, ask.threshold) THEN first ELSE {}
          BY <2>2, <3>1 DEF Answered, SearchUi
        <4>6. all # {} => PassesThreshold(corpus, asked, ask.threshold)
          <5> HIDE DEF asked, c, first
          <5>1. QED
            BY <2>2, <3>1, <4>1, <4>4, PassesFacts
        <4>7. CASE all = {}
          <5> HIDE DEF asked, c, first, all
          <5>1. hits = {} /\ Matching(asked) = {}
            BY <4>3, <4>4, <4>5, <4>7
          <5>2. hits \subseteq Matching(asked)
                /\ Cardinality(hits) = IF Cardinality(Matching(asked)) < ask.limit
                                       THEN Cardinality(Matching(asked)) ELSE ask.limit
            BY <2>2, <5>1, FS_EmptySet
          <5>3. QED
            BY <3>1, <5>2 DEF asked
        <4>8. CASE all # {}
          <5> HIDE DEF asked, c, first, all
          <5>1. hits = first /\ Matching(asked) = all
            BY <4>4, <4>5, <4>6, <4>8
          <5>2. hits \subseteq Matching(asked)
                /\ Cardinality(hits) = IF Cardinality(Matching(asked)) < ask.limit
                                       THEN Cardinality(Matching(asked)) ELSE ask.limit
            BY <4>3, <5>1
          <5>3. QED
            BY <3>1, <5>2 DEF asked
        <4>9. QED
          BY <4>7, <4>8
      <3>2. CASE ask.tool # "ui"
        <4> DEFINE c == LongCorpus(corpus)
                   all == {i \in DOMAIN c : Range(LongTokens(ask.query)) \cap Range(c[i]) # {}}
        <4>1. LongTokens(ask.query) \in Seq(Word)
          BY <2>2, TokensFacts
        <4>2. c \in Tokenized /\ DOMAIN c = DOMAIN corpus /\ \A i \in DOMAIN corpus : c[i] = LongTokens(corpus[i])
          BY <2>2, CorporaAreTokenized
        <4>3. hits = FoundRows(c, LongTokens(ask.query), ask.limit)
          BY <2>2, <3>2 DEF Answered
        <4>4. hits \subseteq all
              /\ Cardinality(hits) = IF Cardinality(all) < ask.limit THEN Cardinality(all) ELSE ask.limit
          <5> HIDE DEF c
          <5>1. QED
            BY <2>2, <4>1, <4>2, <4>3, FoundFacts
        <4>5. Matching(ask.query) = all
          BY <3>2, <4>2 DEF Matching, Tokens0
        <4>6. QED
          BY <3>2, <4>4, <4>5
      <3>3. QED
        BY <3>1, <3>2
    <2>4. MoreIsNoLess
      <3> SUFFICES ASSUME rankStep = "answered", NEW i \in DOMAIN corpus, NEW j \in DOMAIN corpus,
                          LET rows == UiCorpus(corpus)
                              tokens == UiTokens(RewriteQuery(corpus, ask.query))
                          IN /\ Len(rows[i]) = Len(rows[j])
                             /\ \A w \in Range(tokens) : TermFreq(rows[i], w) >= TermFreq(rows[j], w)
                   PROVE  LET rows == UiCorpus(corpus)
                              tokens == UiTokens(RewriteQuery(corpus, ask.query))
                          IN Score(rows, i, tokens) >= Score(rows, j, tokens)
        BY DEF MoreIsNoLess
      <3>1. UiTokens(RewriteQuery(corpus, ask.query)) \in Seq(Word)
        BY <2>2, RewrittenIsText, TokensFacts
      <3>2. UiCorpus(corpus) \in Tokenized /\ DOMAIN UiCorpus(corpus) = DOMAIN corpus
        BY <2>2, CorporaAreTokenized
      <3>3. QED
        BY <3>1, <3>2, ScoreIsMonotone
    <2>5. QED
      BY <2>1, <2>3, <2>4 DEF SearchSound
  <1>2. QED
    BY <1>1, RankInvHolds, PTL

(***************************************************************************)
(* The tools share no state, so that what each promises holds of all.      *)
(***************************************************************************)

\* Whatever is wrong with the tables, the audit accepts sound tables and no others, and
\* a fault missing from a finished report is in a file that is in it, or judged against
\* one that is; a single missing or unreadable file ends it with an exception exactly
\* if the summary of the catalogs reads that file.  Of an audited stack a search
\* answers in the generation asked for (validate_data.py, core.py).
THEOREM AuditAlwaysSound == AuditSpec /\ CatalogAuditSpec /\ StackSpec => []AuditSound
  <1>1. AuditInv /\ VerdictInv /\ StackInv => AuditSound
    BY EndIsRight, LossIsKnown, FontsAreHad, RecordsVouch, StackInvSuffices DEF AuditSound
  <1>2. QED
    BY <1>1, AuditAlways, VerdictAlways, StackAlways, PTL

\* Whatever audited tables, rules and words of a query, a product or none: a style that
\* a design takes from the table is live and its landing pattern the recommended one,
\* if there is a product or the table has the default; its palette passes the audit
\* again exactly if the search found any, and the fallback can only be read; a page
\* has its overrides, and who names a style is led to it (design_system.py, core.py).
THEOREM DesignsAlwaysSound == CatalogueSpec /\ PalettesSpec /\ OverridesSpec => []DesignSound
  <1>1. CatalogueInv /\ PalettesInv /\ OverridesInv => DesignSound
    BY DesignsAreLive, QueriesAddUp, PatternsAreKept, NamesLead, PalettesInvSuffices, OverridesInvSuffices
    DEF DesignSound
  <1>2. QED
    BY <1>1, CatalogueAlways, PalettesAlways, OverridesAlways, PTL

\* However the logo, the answers of the models and the directory change while the tools
\* run: a set of mockups is uniform and kept; a mockup differs from its brief's style,
\* is shown by another entry than its own, and an icon misses its size or is no longer
\* the drawing, in the cases that the three properties name and in no others
\* (cip/generate.py, icon/generate.py, render-html.py).
THEOREM ImagesAlwaysSound == MockupsSpec /\ BriefSpec /\ IconsSpec => []ImagesSound
  <1>1. MockupInv /\ BriefInv /\ IconInv => ImagesSound
    BY MockupInvSuffices, BriefInvSuffices, IconInvSuffices DEF ImagesSound
  <1>2. QED
    BY <1>1, MockupsAlways, BriefAlways, IconsAlways, PTL

\* Decks are refused for what is in their slides alone and no bad page is passed over.
\* Of any deck at most four slides are full-bleed, never the last, and two in a row
\* only in decks of three to eight slides at two places, where strong emotions
\* always lead to it; from five slides on a deck breaks at each switch to a contrasting
\* emotion, and elsewhere only at the thirds and after frustration, hope or fear
\* (html-token-validator.py, slide_search_core.py).
THEOREM SlidesAlwaysSound == DecksSpec /\ AdviceSpec => SlidesSound
  BY DecksAlwaysJudged, AdviceAlways, AdviceInvSuffices, PTL DEF SlidesSound
=============================================================================
