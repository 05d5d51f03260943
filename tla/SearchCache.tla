----------------------------- MODULE SearchCache -----------------------------
(***************************************************************************)
(* scripts/core.py of ui-ux-pro-max: the snapshot cache of the CSV tables, *)
(* the cache of BM25 indexes and that of the domain keywords, in a process *)
(* that searches while somebody else writes the tables.  A step is one     *)
(* stat, one read of half a table, or a computation on what was read.      *)
(***************************************************************************)
EXTENDS Naturals, FiniteSets

CONSTANTS
  Versions,    \* number of versions a table has in turn; a write makes the next
  StatusesIn,  \* StatusesIn[n]: the Status values of the rows of version n
  MaxSearches  \* bound: searches of the process

Version == 1..Versions
RowStatus == {"active", "unverified", "deprecated"}
ASSUME CacheAssumption ==
  /\ Versions \in Nat \ {0} /\ MaxSearches \in Nat
  /\ StatusesIn \in [Version -> SUBSET RowStatus]

Table == {"product", "stack"}
Attempts == 3

\* A version stands for its signature (modification time and size) too.
None == 0
Halves == Version \X Version     \* the versions of the two halves that were read
NoRows == <<1, 1>>

VARIABLES
  version,   \* version[f]: what is in the table now
  csv,       \* _csv_cache[f]: signature and rows
  index,     \* _bm25_cache[f, variant]: signature, and the rows it was fitted to
  keywords,  \* _DOMAIN_KEYWORDS_SIGNATURE, and the version the keywords are from
  search,    \* the locals of the search under way
  searches   \* searches so far

cacheVars == <<version, csv, index, keywords, search, searches>>

IndexVariant == {"", "legacy-only", "legacy-unavailable", "current-only", "non-legacy"}

\* since: what the table held when the search began.
Search(f, stage, legacy) ==
  [table |-> f, stage |-> stage, then |-> "variant", legacy |-> legacy, before |-> 1, half |-> 1,
   rows |-> NoRows, sig |-> None, tries |-> 0, variant |-> "", fitted |-> NoRows,
   answer |-> "none", since |-> version[f]]

CacheInit ==
  /\ version = [f \in Table |-> 1]
  /\ csv = [f \in Table |-> [sig |-> None, rows |-> NoRows]]
  /\ index = [k \in Table \X IndexVariant |-> [sig |-> None, rows |-> NoRows]]
  /\ keywords = [sig |-> None, from |-> None]
  /\ searches = 0
  /\ search = [Search("product", "idle", FALSE) EXCEPT !.since = 1]

WriteTable(f) ==
  /\ version[f] < Versions
  /\ version' = [version EXCEPT ![f] = @ + 1]
  /\ UNCHANGED <<csv, index, keywords, search, searches>>

\* search on the product domain; search_stack; detect_domain.
Begin(f, legacy, then) ==
  /\ search.stage = "idle" /\ searches < MaxSearches
  /\ searches' = searches + 1
  /\ search' = [Search(f, IF then = "keywords" THEN "detect" ELSE "stat", legacy)
                  EXCEPT !.then = then]
  /\ UNCHANGED <<version, csv, index, keywords>>

Set(s) == search' = s /\ UNCHANGED <<version, index, keywords, searches>>
f0 == search.table

CsvHit_Any(f) == csv[f].sig # None   \* mutant: whatever is cached
CsvHit(f) == csv[f].sig = version[f]

\* _load_csv_snapshot: the signature against that of the cached rows.
Stat ==
  /\ search.stage = "stat"
  /\ \/ /\ CsvHit(f0)
        /\ Set([search EXCEPT !.rows = csv[f0].rows, !.sig = csv[f0].sig, !.stage = search.then])
     \/ ~CsvHit(f0) /\ Set([search EXCEPT !.stage = "before", !.tries = 0])
  /\ UNCHANGED csv

\* What happens to an OSError: search and search_stack answer with an error.
\* detect_domain goes on with its built-in keywords.
ReadError ==
  Set(IF search.then = "keywords" THEN [search EXCEPT !.sig = None, !.stage = "keywords"]
      ELSE IF search.then = "variant" THEN [search EXCEPT !.stage = "variant", !.sig = None]
      ELSE [search EXCEPT !.stage = "idle", !.answer = "error"])

GivesUp_Never == FALSE   \* mutant: while True
GivesUp == search.tries = Attempts

Before ==
  /\ search.stage = "before"
  /\ \/ /\ ~GivesUp
        /\ Set([search EXCEPT !.before = version[f0], !.stage = "read", !.half = 1,
                              !.tries = @ + 1])
     \/ GivesUp /\ ReadError
  /\ UNCHANGED csv

ReadHalf ==
  /\ search.stage = "read"
  /\ \/ Set([search EXCEPT !.rows[search.half] = version[f0],
                           !.half = 2, !.stage = IF search.half = 1 THEN "read" ELSE "after"])
     \/ ReadError
  /\ UNCHANGED csv

Stable_Unchecked == TRUE   \* mutant: no second stat
Stable == search.before = version[f0]

\* The rows are cached under the second signature.
After ==
  /\ search.stage = "after"
  /\ \/ /\ Stable
        /\ csv' = [csv EXCEPT ![f0] = [sig |-> version[f0], rows |-> search.rows]]
        /\ Set([search EXCEPT !.sig = version[f0], !.stage = search.then])
     \/ ~Stable /\ Set([search EXCEPT !.stage = "before"]) /\ UNCHANGED csv

ReadStatuses == IF search.sig = None THEN {} ELSE StatusesIn[search.rows[1]] \cup StatusesIn[search.rows[2]]

\* _stack_row_filter for a stack with a current version.
VariantOf(statuses, legacy) ==
  IF legacy THEN IF "deprecated" \in statuses THEN "legacy-only" ELSE "legacy-unavailable"
  ELSE IF "active" \in statuses THEN "current-only" ELSE "non-legacy"

Filter_Open(statuses, variant) ==   \* mutant: everything where nothing is active
  CASE variant = "legacy-only" -> statuses \cap {"deprecated"}
    [] variant = "legacy-unavailable" -> {}
    [] variant = "current-only" -> statuses \cap {"active"}
    [] OTHER -> statuses
\* The rows of the variant.
Filter(statuses, variant) ==
  CASE variant = "" -> statuses
    [] variant = "legacy-only" -> statuses \cap {"deprecated"}
    [] variant = "legacy-unavailable" -> {}
    [] variant = "current-only" -> statuses \cap {"active"}
    [] OTHER -> statuses \ {"deprecated"}

\* search_stack picks the variant from one snapshot; the search takes another.
PickVariant ==
  /\ search.stage = "variant"
  /\ Set([search EXCEPT !.variant = IF f0 = "stack" THEN VariantOf(ReadStatuses, search.legacy) ELSE "",
                        !.stage = "stat", !.then = "fit"])
  /\ UNCHANGED csv

IndexHit_Any(f, v) == index[<<f, v>>].sig # None   \* mutant: the key without the signature
IndexHit(f, v) == index[<<f, v>>].sig = search.sig

Fit ==
  /\ search.stage = "fit"
  /\ \/ /\ Filter(ReadStatuses, search.variant) = {}
        /\ search' = [search EXCEPT !.stage = "idle", !.answer = "empty"]
        /\ UNCHANGED index
     \/ /\ Filter(ReadStatuses, search.variant) # {} /\ IndexHit(f0, search.variant)
        /\ search' = [search EXCEPT !.fitted = index[<<f0, search.variant>>].rows, !.stage = "rank"]
        /\ UNCHANGED index
     \/ /\ Filter(ReadStatuses, search.variant) # {} /\ ~IndexHit(f0, search.variant)
        /\ index' = [index EXCEPT ![<<f0, search.variant>>] = [sig |-> search.sig, rows |-> search.rows]]
        /\ search' = [search EXCEPT !.fitted = search.rows, !.stage = "rank"]
  /\ UNCHANGED <<version, csv, keywords, searches>>

\* The index ranks positions; the rows at them are the answer.
Rank ==
  /\ search.stage = "rank"
  /\ Set([search EXCEPT !.stage = "idle", !.answer = "rows"])
  /\ UNCHANGED csv

\* _domain_keywords compares the signature, then has the rows loaded.
Detect ==
  /\ search.stage = "detect"
  /\ \/ /\ keywords.sig = version[f0]
        /\ Set([search EXCEPT !.stage = "idle", !.answer = "keywords"])
     \/ /\ keywords.sig # version[f0]
        /\ Set([search EXCEPT !.fitted = <<version[f0], version[f0]>>, !.stage = "stat"])
  /\ UNCHANGED csv

\* The signature that was compared, not that of the rows.
KeywordSignature == search.fitted[1]

StoreKeywords ==
  /\ search.stage = "keywords"
  /\ keywords' = [sig |-> KeywordSignature,
                  from |-> IF search.sig = None THEN None ELSE search.rows[1]]
  /\ search' = [search EXCEPT !.stage = "idle", !.answer = "keywords"]
  /\ UNCHANGED <<version, csv, index, searches>>

SearchStep ==
  Stat \/ Before \/ ReadHalf \/ After \/ PickVariant \/ Fit \/ Rank \/ Detect \/ StoreKeywords

CacheNext ==
  \/ \E f \in Table : WriteTable(f)
  \/ \E legacy \in BOOLEAN : Begin("stack", legacy, "variant")
  \/ Begin("product", FALSE, "fit")
  \/ Begin("product", FALSE, "keywords")
  \/ SearchStep

CacheSpec == CacheInit /\ [][CacheNext]_cacheVars

-----------------------------------------------------------------------------
(* Properties                                                              *)

CacheTypeOK ==
  /\ version \in [Table -> Version]
  /\ csv \in [Table -> [sig: 0..Versions, rows: Halves]]
  /\ index \in [Table \X IndexVariant -> [sig: 0..Versions, rows: Halves]]
  /\ keywords \in [sig: 0..Versions, from: 0..Versions]
  /\ searches \in 0..MaxSearches
  /\ search.tries \in 0..Attempts

\* Cached rows are those of the version they are cached under, never halves of two
\* ("the verified signature of the bytes they came from", _load_csv_snapshot).
SnapshotIsReal ==
  \A f \in Table : csv[f].sig # None => csv[f].rows = <<csv[f].sig, csv[f].sig>>

\* The positions an index ranks are taken from the rows it was fitted to, under the
\* same filter (data[idx] in _search_csv_detailed).
IndexFits == search.stage = "rank" => search.fitted = search.rows

\* A search answers from a version the table had during the search, however long
\* the process has lived (the signatures of _csv_cache and _bm25_cache).
AnswerIsFresh ==
  /\ search.answer = "rows" => search.fitted[1] >= search.since
  /\ search.answer = "keywords" /\ keywords.from # None => keywords.from >= search.since

\* An older framework generation never mixes with the current one, even when the
\* table changes between the choice of the filter and the search
\* (_stack_row_filter, "Choose one coherent applicability generation").
OneGeneration ==
  search.answer = "rows" /\ search.table = "stack" =>
    LET shown == Filter(StatusesIn[search.rows[1]], search.variant)
    IN IF search.legacy THEN shown = {"deprecated"} ELSE "deprecated" \notin shown

\* No search answers from rows, an index or keywords that the table never was or is no more.
CacheSound == CacheTypeOK /\ SnapshotIsReal /\ IndexFits /\ AnswerIsFresh /\ OneGeneration
=============================================================================
