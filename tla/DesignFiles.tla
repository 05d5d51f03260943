----------------------------- MODULE DesignFiles -----------------------------
(***************************************************************************)
(* search.py --design-system --persist: agents that generate design        *)
(* systems into design-system/<project>/ of one working directory at the   *)
(* same time.  Each run is a process; a step is one call to the file       *)
(* system.  A run may fail in a write and be killed anywhere.              *)
(***************************************************************************)
EXTENDS Naturals, FiniteSets, FiniteSetsExt, Sequences, SequencesExt

CONSTANTS
  Agent,      \* whoever calls the tool
  Project,    \* project names, as sequences of characters
  Page,       \* page names
  NoPage,     \* a run without --page
  NoDoc,      \* no file
  MaxRuns     \* bound: runs of an agent

ASSUME FilesAssumption == MaxRuns \in Nat /\ NoPage \notin Page /\ Project # {}

-----------------------------------------------------------------------------
(* Names of files                                                          *)

Upper == <<"A", "B">>
Lower(c) == IF c \in Range(Upper) THEN <<"a", "b">>[CHOOSE i \in 1..2 : Upper[i] = c] ELSE c
SlugChars == {"a", "b", "0", "_", "-"}   \* of [a-z0-9_-], those the instances use

Dashes(s) == [i \in DOMAIN s |-> IF s[i] = "other" THEN "-" ELSE s[i]]

Strip(s) ==
  LET inner == {i \in DOMAIN s : s[i] # "-"}
  IN IF inner = {} THEN <<>> ELSE SubSeq(s, Min(inner), Max(inner))

\* Runs of characters outside SlugChars become one dash each; dashes are
\* stripped at both ends; nothing left, the fallback.
SafeSlug(name, fallback) ==
  LET marked == [i \in DOMAIN name |->
                   IF Lower(name[i]) \in SlugChars THEN Lower(name[i]) ELSE "other"]
      Collapse(s, c) == IF c = "other" /\ s # <<>> /\ Last(s) = c THEN s ELSE Append(s, c)
      slug == Strip(Dashes(FoldLeft(Collapse, <<>>, marked)))
  IN IF slug = <<>> THEN fallback ELSE slug

Master == <<"MASTER">>   \* MASTER.md, no slug: slugs have no capitals
MasterPath(project) == <<SafeSlug(project, <<"default">>), Master>>
PagePath(project, page) ==
  <<SafeSlug(project, <<"default">>), SafeSlug(page, <<"page">>)>>

Request == [project: Project, page: Page \cup {NoPage}, force: BOOLEAN]
MasterPaths == {MasterPath(p) : p \in Project}
PagePaths == {PagePath(p, g) : p \in Project, g \in Page}
Path == MasterPaths \cup PagePaths

RunId == Agent \X (1..MaxRuns)
\* A document: the run it comes from, which of its two, and whether all of it is there.
Doc == [run: RunId, force: BOOLEAN, whole: BOOLEAN]
ASSUME NoDocAssumption == NoDoc \notin Doc

-----------------------------------------------------------------------------
VARIABLES
  file,     \* file[p]: what a reader of the path p finds
  temp,     \* temporary files: <<path, document>>
  count,    \* count[a]: runs a has started
  run,      \* run[a]: the call a's run is about to make, and its locals
  reports,  \* what finished runs have printed
  killed    \* runs that were killed

filesVars == <<file, temp, count, run, reports, killed>>

\* doc: the document being written; outcome: how that goes; created: created_files.
Run(r) == [at |-> "open", req |-> r, doc |-> "master", outcome |-> "new", created |-> {}]
Idle == [Run(CHOOSE r \in Request : TRUE) EXCEPT !.at = "idle"]

FilesInit ==
  /\ file = [p \in Path |-> NoDoc]
  /\ temp = {} /\ reports = {} /\ killed = {}
  /\ count = [a \in Agent |-> 0]
  /\ run = [a \in Agent |-> Idle]

Becomes(a, r) == run' = [run EXCEPT ![a] = r]
RunOf(a) == <<a, count[a]>>
Target_PageFirst(a) ==   \* mutant: the page before the master
  IF run[a].doc = "page" \/ run[a].req.page = NoPage THEN MasterPath(run[a].req.project)
  ELSE PagePath(run[a].req.project, run[a].req.page)
Target_Raw(a) ==   \* mutant: the names as they were given
  <<run[a].req.project, IF run[a].doc = "master" THEN Master ELSE run[a].req.page>>
Target(a) == IF run[a].doc = "master" THEN MasterPath(run[a].req.project)
             ELSE PagePath(run[a].req.project, run[a].req.page)
Temp(a, whole) ==
  <<Target(a), [run |-> RunOf(a), force |-> run[a].req.force, whole |-> whole]>>

\* The directories are made with exist_ok, so they need no state.
StartRun(a, r) ==
  /\ run[a].at = "idle" /\ count[a] < MaxRuns
  /\ Becomes(a, Run(r))
  /\ count' = [count EXCEPT ![a] = @ + 1]
  /\ UNCHANGED <<file, temp, reports, killed>>

\* NamedTemporaryFile(delete=False): a name nobody else has.
OpenTemp(a) ==
  /\ run[a].at = "open"
  /\ temp' = temp \cup {Temp(a, FALSE)}
  /\ Becomes(a, [run[a] EXCEPT !.at = "write"])
  /\ UNCHANGED <<file, count, reports, killed>>

\* write, flush, fsync
WriteTemp(a) ==
  /\ run[a].at = "write"
  /\ temp' = (temp \ {Temp(a, FALSE)}) \cup {Temp(a, TRUE)}
  /\ Becomes(a, [run[a] EXCEPT !.at = "publish"])
  /\ UNCHANGED <<file, count, reports, killed>>

\* The disk is full, or the content cannot be encoded.
WriteFails(a) ==
  /\ run[a].at = "write"
  /\ Becomes(a, [run[a] EXCEPT !.at = "unlink", !.outcome = "failed"])
  /\ UNCHANGED <<file, temp, count, reports, killed>>

Report(a, status, files) ==
  /\ Becomes(a, Idle)
  /\ reports' = reports \cup {[run |-> RunOf(a), force |-> run[a].req.force,
                              status |-> status, created |-> files]}

\* _write_persisted_file returned, or raised FileExistsError: the page is next,
\* or the run ends.
Advance(a, files) ==
  \/ /\ run[a].doc = "master" /\ run[a].req.page # NoPage
     /\ Becomes(a, [Run(run[a].req) EXCEPT !.doc = "page", !.created = files])
     /\ UNCHANGED reports
  \/ /\ run[a].doc = "page" \/ run[a].req.page = NoPage
     /\ Report(a, IF files = {} THEN "skipped_exists" ELSE "success", files)

\* os.replace moves the temporary file.
Replace(a) ==
  /\ run[a].at = "publish" /\ run[a].req.force
  /\ \E t \in temp \cap {Temp(a, TRUE)} : /\ file' = [file EXCEPT ![t[1]] = t[2]]
                                        /\ temp' = temp \ {t}
  /\ Advance(a, run[a].created \cup {Target(a)})
  /\ UNCHANGED <<count, killed>>

Linkable_Any(p) == TRUE   \* mutant: os.replace in both branches
\* Whether os.link finds no destination.
Linkable(p) == file[p] = NoDoc

Link(a) ==
  /\ run[a].at = "publish" /\ ~run[a].req.force
  /\ \/ /\ Linkable(Target(a))
        /\ \E t \in temp \cap {Temp(a, TRUE)} : file' = [file EXCEPT ![t[1]] = t[2]]
        /\ Becomes(a, [run[a] EXCEPT !.at = "unlink"])
     \/ /\ ~Linkable(Target(a))
        /\ Becomes(a, [run[a] EXCEPT !.at = "unlink", !.outcome = "exists"])
        /\ UNCHANGED file
  /\ UNCHANGED <<temp, count, reports, killed>>

Leftover_Linked(a) ==   \* mutant: unlink after the link instead of in finally
  {t \in temp : t[1] = Target(a) /\ t[2].run = RunOf(a) /\ run[a].outcome = "new"}
Leftover(a) == {t \in temp : t[1] = Target(a) /\ t[2].run = RunOf(a)}

Gained_Always(a) == {Target(a)}   \* mutant: append before the write
Gained(a) == IF run[a].outcome = "new" THEN {Target(a)} ELSE {}

\* finally
Unlink(a) ==
  /\ run[a].at = "unlink"
  /\ temp' = temp \ Leftover(a)
  /\ \/ run[a].outcome # "failed" /\ Advance(a, run[a].created \cup Gained(a))
     \/ run[a].outcome = "failed" /\ Report(a, "error", {})
  /\ UNCHANGED <<file, count, killed>>

Kill(a) ==
  /\ run[a].at # "idle"
  /\ Becomes(a, Idle)
  /\ killed' = killed \cup {RunOf(a)}
  /\ UNCHANGED <<file, temp, count, reports>>

FilesStep(a) ==
  \/ \E r \in Request : StartRun(a, r)
  \/ OpenTemp(a) \/ WriteTemp(a) \/ WriteFails(a)
  \/ Replace(a) \/ Link(a) \/ Unlink(a) \/ Kill(a)

FilesNext == \E a \in Agent : FilesStep(a)
FilesSpec == FilesInit /\ [][FilesNext]_filesVars

-----------------------------------------------------------------------------
(* Properties                                                              *)

FilesTypeOK ==
  /\ file \in [Path -> Doc \cup {NoDoc}]
  /\ temp \subseteq Path \X Doc
  /\ count \in [Agent -> 0..MaxRuns]
  /\ run \in [Agent -> [at: {"idle", "open", "write", "publish", "unlink"}, req: Request,
                       doc: {"master", "page"}, outcome: {"new", "exists", "failed"},
                       created: SUBSET Path]]
  /\ reports \subseteq [run: RunId, force: BOOLEAN, created: SUBSET Path,
                       status: {"success", "skipped_exists", "error"}]
  /\ killed \subseteq RunId

\* Whatever runs meet in one directory, fail or are killed, a reader finds whole
\* documents only, and a document changes under a run with --force only
\* (_write_persisted_file).
Store == INSTANCE DocumentStore
  WITH document <- file, Document <- {d \in Doc : d.whole},
       Forced <- {d \in Doc : d.whole /\ d.force}
ImplementsStore == Store!StoreSpec

\* Of the runs without --force, at most one is told that it created a path, and
\* that path then holds its document or one that a run with --force put there
\* (the agents who read "created" from persist_design_system).
CreatedByOne ==
  \A r \in reports, p \in Path : p \in r.created =>
    /\ file[p] # NoDoc /\ (file[p].run = r.run \/ file[p].force)
    /\ \A s \in reports : p \in s.created => s.run = r.run \/ s.force \/ r.force

\* A page that overrides a master document has one: the page is written second,
\* and a failure or a kill before it leaves the master (persist_design_system).
PageUnderMaster ==
  \A p \in Path : p[2] # Master /\ file[p] # NoDoc => file[<<p[1], Master>>] # NoDoc

\* Temporary files belong to runs under way and to runs that were killed: no
\* refusal and no failed write leaves one (the finally of _write_persisted_file).
NoStrayTemp ==
  \A t \in temp : t[2].run \in killed \/ \E a \in Agent : run[a].at # "idle" /\ t[2].run = RunOf(a)

\* What concurrent runs in one project are told agrees with what they leave there.
FilesSound == FilesTypeOK /\ CreatedByOne /\ PageUnderMaster /\ NoStrayTemp
=============================================================================
