-------------------------- MODULE AgentToolsProofs --------------------------
(***************************************************************************)
(* The tools that agents run on a project, each for any agents and runs:   *)
(* the design systems kept in one directory (DesignFiles), the set-up of a *)
(* project's styling (UiSetup), and the batches of paid logos (ImageJobs). *)
(***************************************************************************)
EXTENDS DesignFiles, UiSetup, ImageJobs, TLAPS

(***************************************************************************)
(* DesignFiles: ImplementsStore and FilesSound, for any agents, projects   *)
(* and pages.                                                              *)
(***************************************************************************)

Local == [at: {"idle", "open", "write", "publish", "unlink"}, req: Request,
          doc: {"master", "page"}, outcome: {"new", "exists", "failed"},
          created: SUBSET Path]

\* A run under way has a number, and writes a page only if one was asked for.
UnderWay(a) == run[a].at # "idle" =>
  /\ count[a] >= 1
  /\ run[a].doc = "page" => run[a].req.page # NoPage

TypeInv == FilesTypeOK /\ \A a \in Agent : UnderWay(a)

LEMMA IdleType == Idle \in Local /\ Idle.at = "idle"
  <1>1. \E r \in Request : TRUE
    <2>1. PICK p \in Project : TRUE
      BY FilesAssumption
    <2>2. [project |-> p, page |-> NoPage, force |-> TRUE] \in Request
      BY DEF Request
    <2>3. QED
      BY <2>2
  <1>2. (CHOOSE r \in Request : TRUE) \in Request
    BY <1>1
  <1>3. \A r \in Request : [Run(r) EXCEPT !.at = "idle"] \in Local /\ [Run(r) EXCEPT !.at = "idle"].at = "idle"
    BY DEF Run, Local
  <1>4. QED
    BY <1>2, <1>3 DEF Idle

\* The path a run writes is a path.
LEMMA TargetType ==
  ASSUME TypeInv, NEW a \in Agent, run[a].at # "idle"
  PROVE  /\ Target(a) \in Path /\ RunOf(a) \in RunId
         /\ \A whole \in BOOLEAN : Temp(a, whole) \in Path \X Doc
  <1>1. run[a] \in Local /\ count[a] \in 1..MaxRuns /\ run[a].req \in Request
    BY FilesAssumption DEF TypeInv, FilesTypeOK, UnderWay, Local
  <1>2. run[a].req.project \in Project /\ run[a].req.force \in BOOLEAN
        /\ (run[a].doc # "master" => run[a].req.page \in Page)
    BY <1>1 DEF Local, Request, TypeInv, UnderWay
  <1>3. Target(a) \in Path
    BY <1>2 DEF Target, Path, MasterPaths, PagePaths
  <1>4. RunOf(a) \in RunId
    BY <1>1 DEF RunOf, RunId
  <1>5. QED
    BY <1>2, <1>3, <1>4 DEF Temp, Doc

LEMMA RunType ==
  ASSUME NEW r \in Request
  PROVE  /\ Run(r) \in Local
         /\ \A files \in SUBSET Path : [Run(r) EXCEPT !.doc = "page", !.created = files] \in Local
  BY DEF Run, Local

\* After a document the run goes on with the page, or ends and reports.
LEMMA AdvanceType ==
  ASSUME TypeInv, NEW a \in Agent, run[a].at # "idle", NEW files \in SUBSET Path,
         Advance(a, files), count' = count
  PROVE  run' \in [Agent -> Local] /\ (\A b \in Agent : UnderWay(b)')
         /\ reports' \subseteq [run: RunId, force: BOOLEAN, created: SUBSET Path,
                                status: {"success", "skipped_exists", "error"}]
  <1>1. run \in [Agent -> Local] /\ run[a].req \in Request
    BY DEF TypeInv, FilesTypeOK, Local
  <1>2. CASE /\ run[a].doc = "master" /\ run[a].req.page # NoPage
             /\ Becomes(a, [Run(run[a].req) EXCEPT !.doc = "page", !.created = files])
             /\ UNCHANGED reports
    <2>1. [Run(run[a].req) EXCEPT !.doc = "page", !.created = files].req = run[a].req
      BY DEF Run
    <2>2. run' \in [Agent -> Local]
      BY <1>1, <1>2, RunType DEF Becomes
    <2>3. \A b \in Agent : UnderWay(b)'
      BY <1>1, <1>2, <2>1 DEF Becomes, UnderWay, TypeInv
    <2>4. QED
      BY <1>2, <2>2, <2>3 DEF TypeInv, FilesTypeOK
  <1>3. ASSUME NEW status \in {"success", "skipped_exists"}, Report(a, status, files)
        PROVE  run' \in [Agent -> Local] /\ (\A b \in Agent : UnderWay(b)')
               /\ reports' \subseteq [run: RunId, force: BOOLEAN, created: SUBSET Path,
                                      status: {"success", "skipped_exists", "error"}]
    <2>1. run' \in [Agent -> Local] /\ (\A b \in Agent : UnderWay(b)')
      BY <1>1, <1>3, IdleType DEF Report, Becomes, UnderWay, TypeInv
    <2>2. RunOf(a) \in RunId /\ run[a].req.force \in BOOLEAN
      BY <1>1, TargetType DEF Request
    <2>3. QED
      BY <1>3, <2>1, <2>2 DEF Report, TypeInv, FilesTypeOK
  <1>4. QED
    BY <1>2, <1>3 DEF Advance

\* Types are kept.
LEMMA TypeStep ==
  ASSUME TypeInv, NEW a \in Agent, FilesStep(a)
  PROVE  TypeInv'
  <1>1. /\ run \in [Agent -> Local] /\ run[a] \in Local /\ file \in [Path -> Doc \cup {NoDoc}]
        /\ temp \subseteq Path \X Doc /\ count \in [Agent -> 0..MaxRuns] /\ killed \subseteq RunId
        /\ MaxRuns \in Nat /\ run[a].req \in Request
    BY FilesAssumption DEF TypeInv, FilesTypeOK, Local
  <1>2. ASSUME NEW r \in Request, StartRun(a, r) PROVE TypeInv'
    <2>1. run' \in [Agent -> Local] /\ count' \in [Agent -> 0..MaxRuns]
      <3>1. Run(r) \in Local
        BY RunType
      <3>2. count[a] \in 0..MaxRuns /\ count[a] + 1 \in 0..MaxRuns
        BY <1>1, <1>2 DEF StartRun
      <3>3. QED
        BY <1>1, <1>2, <3>1, <3>2 DEF StartRun, Becomes
    <2>2. \A b \in Agent : UnderWay(b)'
      <3>1. Run(r).doc = "master"
        BY DEF Run
      <3>2. QED
        BY <1>1, <1>2, <3>1 DEF StartRun, Becomes, UnderWay, TypeInv
    <2>3. QED
      BY <1>2, <2>1, <2>2 DEF StartRun, TypeInv, FilesTypeOK, Local
  <1>3. ASSUME NEW r \in Local, Becomes(a, r), r.at # "idle", run[a].at # "idle", r.req = run[a].req,
               r.doc = run[a].doc, UNCHANGED <<count, reports, killed>>,
               temp' \subseteq Path \X Doc, file' \in [Path -> Doc \cup {NoDoc}]
        PROVE  TypeInv'
    <2>1. \A b \in Agent : UnderWay(b)'
      BY <1>1, <1>3 DEF Becomes, UnderWay, TypeInv
    <2>2. run' \in [Agent -> Local]
      BY <1>1, <1>3 DEF Becomes
    <2>3. QED
      BY <1>3, <2>1, <2>2 DEF TypeInv, FilesTypeOK, Local
  <1>4. CASE OpenTemp(a)
    <2>1. [run[a] EXCEPT !.at = "write"] \in Local /\ Temp(a, FALSE) \in Path \X Doc
      BY <1>1, <1>4, TargetType DEF OpenTemp, Local
    <2>2. QED
      BY <1>1, <1>3, <1>4, <2>1 DEF OpenTemp, Local
  <1>5. CASE WriteTemp(a)
    <2>1. [run[a] EXCEPT !.at = "publish"] \in Local /\ Temp(a, TRUE) \in Path \X Doc
      BY <1>1, <1>5, TargetType DEF WriteTemp, Local
    <2>2. QED
      BY <1>1, <1>3, <1>5, <2>1 DEF WriteTemp, Local
  <1>6. CASE WriteFails(a)
    <2>1. [run[a] EXCEPT !.at = "unlink", !.outcome = "failed"] \in Local
      BY <1>1 DEF Local
    <2>2. QED
      BY <1>1, <1>3, <1>6, <2>1 DEF WriteFails, Local
  <1>7. CASE Link(a)
    <2>1. /\ [run[a] EXCEPT !.at = "unlink"] \in Local
          /\ [run[a] EXCEPT !.at = "unlink", !.outcome = "exists"] \in Local
      BY <1>1 DEF Local
    <2>2. file' \in [Path -> Doc \cup {NoDoc}]
      BY <1>1, <1>7 DEF Link
    <2>3. QED
      BY <1>1, <1>3, <1>7, <2>1, <2>2 DEF Link, Local
  <1>8. CASE Replace(a)
    <2>1. file' \in [Path -> Doc \cup {NoDoc}] /\ temp' \subseteq Path \X Doc
      BY <1>1, <1>8 DEF Replace
    <2>2. run[a].created \cup {Target(a)} \in SUBSET Path
      BY <1>1, <1>8, TargetType DEF Replace, Local
    <2>3. QED
      BY <1>1, <1>8, <2>1, <2>2, AdvanceType DEF Replace, TypeInv, FilesTypeOK, Local
  <1>9. CASE Unlink(a)
    <2>1. temp' \subseteq Path \X Doc /\ UNCHANGED <<file, count, killed>> /\ run[a].at # "idle"
      BY <1>1, <1>9 DEF Unlink
    <2>2. CASE Advance(a, run[a].created \cup Gained(a))
      <3>1. run[a].created \cup Gained(a) \in SUBSET Path
        BY <1>1, <2>1, TargetType DEF Gained, Local
      <3>2. QED
        BY <1>1, <2>1, <2>2, <3>1, AdvanceType DEF TypeInv, FilesTypeOK, Local
    <2>3. CASE Report(a, "error", {})
      <3>1. RunOf(a) \in RunId /\ run[a].req.force \in BOOLEAN
        BY <1>1, <2>1, TargetType DEF Request
      <3>2. run' \in [Agent -> Local] /\ (\A b \in Agent : UnderWay(b)')
        BY <1>1, <2>1, <2>3, IdleType DEF Report, Becomes, UnderWay, TypeInv
      <3>3. QED
        BY <2>1, <2>3, <3>1, <3>2 DEF Report, TypeInv, FilesTypeOK, Local
    <2>4. QED
      BY <1>9, <2>2, <2>3 DEF Unlink
  <1>10. CASE Kill(a)
    <2>1. RunOf(a) \in RunId
      BY <1>10, TargetType DEF Kill
    <2>2. run' \in [Agent -> Local] /\ (\A b \in Agent : UnderWay(b)')
      BY <1>1, <1>10, IdleType DEF Kill, Becomes, UnderWay, TypeInv
    <2>3. QED
      BY <1>1, <1>10, <2>1, <2>2 DEF Kill, TypeInv, FilesTypeOK, Local
  <1>11. QED
    BY <1>2, <1>4, <1>5, <1>6, <1>7, <1>8, <1>9, <1>10 DEF FilesStep

LEMMA TypeAlways == FilesSpec => []TypeInv
  <1>1. FilesInit => TypeInv
    <2> SUFFICES ASSUME FilesInit PROVE TypeInv
      OBVIOUS
    <2>1. run \in [Agent -> Local] /\ \A a \in Agent : UnderWay(a)
      BY IdleType DEF FilesInit, UnderWay
    <2>2. QED
      BY <2>1, FilesAssumption DEF FilesInit, TypeInv, FilesTypeOK, Local
  <1>2. TypeInv /\ [FilesNext]_filesVars => TypeInv'
    <2> SUFFICES ASSUME TypeInv, [FilesNext]_filesVars PROVE TypeInv'
      OBVIOUS
    <2>1. CASE UNCHANGED filesVars
      BY <2>1 DEF filesVars, TypeInv, FilesTypeOK, UnderWay
    <2>2. QED
      BY <2>1, TypeStep DEF FilesNext
  <1>3. QED
    BY <1>1, <1>2, PTL DEF FilesSpec

-----------------------------------------------------------------------------
(* The files of a project are a store.                                     *)

\* The step that publishes: a whole document of a's run, where nothing was
\* unless the run has --force.
Publishes(a) ==
  /\ run[a].at = "publish" /\ Temp(a, TRUE) \in temp
  /\ run[a].req.force \/ file[Target(a)] = NoDoc
  /\ file' = [file EXCEPT ![Target(a)] = Temp(a, TRUE)[2]]

LEMMA Publishing ==
  ASSUME NEW a \in Agent, FilesStep(a)
  PROVE  UNCHANGED file \/ (Publishes(a) /\ (Replace(a) \/ Link(a)))
  <1>1. Temp(a, TRUE)[1] = Target(a)
    BY DEF Temp
  <1>2. CASE Replace(a)
    BY <1>1, <1>2 DEF Replace, Publishes
  <1>3. CASE Link(a)
    BY <1>1, <1>3 DEF Link, Linkable, Publishes
  <1>4. QED
    BY <1>2, <1>3 DEF FilesStep, StartRun, OpenTemp, WriteTemp, WriteFails, Unlink, Kill

LEMMA WholeDocument ==
  ASSUME NEW id \in RunId, NEW force \in BOOLEAN
  PROVE  LET doc == [run |-> id, force |-> force, whole |-> TRUE]
         IN  doc \in Doc /\ doc.whole /\ (force => doc.force)
  BY DEF Doc

\* Runs that meet in one directory, fail and are killed implement a store of
\* whole documents that only a run with --force replaces.
THEOREM RunsImplementStore == FilesSpec => ImplementsStore
  <1>1. FilesInit => Store!StoreInit
    BY DEF FilesInit, Store!StoreInit
  <1>2. TypeInv /\ [FilesNext]_filesVars => [Store!StoreNext]_file
    <2> SUFFICES ASSUME TypeInv, FilesNext PROVE Store!StoreNext \/ UNCHANGED file
      BY DEF filesVars
    <2>1. PICK a \in Agent : FilesStep(a)
      BY DEF FilesNext
    <2>2. CASE Publishes(a)
      <3>1. /\ Target(a) \in Path /\ RunOf(a) \in RunId /\ run[a].req.force \in BOOLEAN
            /\ Temp(a, TRUE)[2] = [run |-> RunOf(a), force |-> run[a].req.force, whole |-> TRUE]
        BY <2>2, TargetType DEF Publishes, Temp, TypeInv, FilesTypeOK, Request
      <3>2. Temp(a, TRUE)[2] \in {d \in Doc : d.whole}
        BY <3>1, WholeDocument
      <3>3. run[a].req.force => Temp(a, TRUE)[2] \in {d \in Doc : d.whole /\ d.force}
        BY <3>1, WholeDocument
      <3>4. Store!Put(Target(a), Temp(a, TRUE)[2])
        BY <2>2, <3>3 DEF Publishes, Store!Put
      <3>5. QED
        BY <3>1, <3>2, <3>4 DEF Store!StoreNext
    <2>3. QED
      BY <2>1, <2>2, Publishing
  <1>3. QED
    BY <1>1, <1>2, TypeAlways, PTL DEF FilesSpec, ImplementsStore, Store!StoreSpec

-----------------------------------------------------------------------------
(* What runs leave and what they report                                    *)

\* The temporary files of a's run.
OwnTemp(a, t) ==
  \/ run[a].at = "write" /\ t = Temp(a, FALSE)
  \/ run[a].at = "publish" /\ t = Temp(a, TRUE)
  \/ run[a].at = "unlink" /\ t[1] = Target(a) /\ t[2].run = RunOf(a)

TempInv == \A t \in temp : t[2].run \in killed \/ \E a \in Agent : OwnTemp(a, t)

\* A step of a leaves the others where they are.
LEMMA OthersStay ==
  ASSUME TypeInv, NEW a \in Agent, FilesStep(a), NEW b \in Agent, b # a
  PROVE  run'[b] = run[b] /\ count'[b] = count[b]
  <1>1. run' = run \/ \E r : Becomes(a, r)
    BY DEF FilesStep, StartRun, OpenTemp, WriteTemp, WriteFails, Replace, Link, Unlink, Kill, Advance,
       Report
  <1>2. count' = count \/ count' = [count EXCEPT ![a] = @ + 1]
    BY DEF FilesStep, StartRun, OpenTemp, WriteTemp, WriteFails, Replace, Link, Unlink, Kill
  <1>3. QED
    BY <1>1, <1>2 DEF Becomes, TypeInv, FilesTypeOK

\* Until it ends, a run goes on with the document it is writing.
LEMMA SameDocument ==
  ASSUME TypeInv, NEW a \in Agent, OpenTemp(a) \/ WriteTemp(a) \/ WriteFails(a) \/ Link(a)
  PROVE  /\ run'[a].req = run[a].req /\ run'[a].doc = run[a].doc /\ run'[a].created = run[a].created
         /\ Target(a)' = Target(a) /\ RunOf(a)' = RunOf(a)
         /\ \A whole \in BOOLEAN : Temp(a, whole)' = Temp(a, whole)
  <1>1. run[a] \in Local /\ run \in [Agent -> Local]
    BY DEF TypeInv, FilesTypeOK, Local
  <1>2. /\ run'[a].req = run[a].req /\ run'[a].doc = run[a].doc /\ run'[a].created = run[a].created
        /\ count' = count
    <2>1. CASE OpenTemp(a)
      BY <1>1, <2>1 DEF OpenTemp, Becomes, Local
    <2>2. CASE WriteTemp(a)
      BY <1>1, <2>2 DEF WriteTemp, Becomes, Local
    <2>3. CASE WriteFails(a)
      BY <1>1, <2>3 DEF WriteFails, Becomes, Local
    <2>4. CASE Link(a)
      BY <1>1, <2>4 DEF Link, Becomes, Local
    <2>5. QED
      BY <2>1, <2>2, <2>3, <2>4
  <1>3. QED
    BY <1>2 DEF Target, RunOf, Temp

\* A temporary file belongs to a run under way or to one that was killed.
LEMMA TempStep ==
  ASSUME TypeInv, TempInv, NEW a \in Agent, FilesStep(a)
  PROVE  TempInv'
  <1>1. run[a] \in Local /\ run \in [Agent -> Local] /\ killed \subseteq killed'
    BY DEF TypeInv, FilesTypeOK, Local, FilesStep, StartRun, OpenTemp, WriteTemp, WriteFails, Replace,
       Link, Unlink, Kill
  <1>2. \A b \in Agent \ {a} : \A t : OwnTemp(b, t) => OwnTemp(b, t)'
    BY OthersStay DEF OwnTemp, Temp, Target, RunOf
  <1>3. SUFFICES ASSUME NEW t \in temp', t \in temp => OwnTemp(a, t)
                 PROVE  t[2].run \in killed' \/ OwnTemp(a, t)'
    BY <1>1, <1>2 DEF TempInv
  <1>4. \A whole : Temp(a, whole)[1] = Target(a) /\ Temp(a, whole)[2].run = RunOf(a)
    BY DEF Temp
  <1>5. ASSUME NEW r \in Request, StartRun(a, r) PROVE FALSE
    BY <1>3, <1>5 DEF StartRun, OwnTemp
  <1>6. CASE OpenTemp(a)
    <2>1. t = Temp(a, FALSE) /\ run'[a].at = "write"
      BY <1>1, <1>3, <1>6 DEF OpenTemp, OwnTemp, Becomes, Local
    <2>2. QED
      BY <1>6, <2>1, SameDocument DEF OwnTemp
  <1>7. CASE WriteTemp(a)
    <2>1. t = Temp(a, TRUE) /\ run'[a].at = "publish"
      BY <1>1, <1>3, <1>7 DEF WriteTemp, OwnTemp, Becomes, Local
    <2>2. QED
      BY <1>7, <2>1, SameDocument DEF OwnTemp
  <1>8. CASE WriteFails(a) \/ Link(a)
    <2>1. t[1] = Target(a) /\ t[2].run = RunOf(a) /\ run'[a].at = "unlink"
      <3>1. t \in temp /\ run'[a].at = "unlink"
        BY <1>1, <1>8 DEF WriteFails, Link, Becomes, Local
      <3>2. QED
        BY <1>3, <1>4, <3>1 DEF OwnTemp
    <2>2. QED
      BY <1>8, <2>1, SameDocument DEF OwnTemp
  <1>9. CASE Replace(a)
    BY <1>3, <1>9 DEF Replace, OwnTemp
  <1>10. CASE Unlink(a)
    BY <1>3, <1>10 DEF Unlink, OwnTemp, Leftover
  <1>11. CASE Kill(a)
    BY <1>3, <1>4, <1>11 DEF Kill, OwnTemp
  <1>12. QED
    BY <1>5, <1>6, <1>7, <1>8, <1>9, <1>10, <1>11 DEF FilesStep

\* Documents are not taken away.
LEMMA FilesStay ==
  ASSUME TypeInv, NEW a \in Agent, FilesStep(a), NEW p \in Path, file[p] # NoDoc
  PROVE  file'[p] # NoDoc
  <1>1. CASE Publishes(a)
    <2>1. Temp(a, TRUE) \in Path \X Doc
      BY <1>1, TargetType DEF Publishes
    <2>2. Temp(a, TRUE)[2] # NoDoc
      BY <2>1, NoDocAssumption
    <2>3. QED
      BY <1>1, <2>2 DEF Publishes, TypeInv, FilesTypeOK
  <1>2. QED
    BY <1>1, Publishing

\* A run that writes a page has left a master; one that is done with a document
\* without a failure has left it, or found one.
PageInv(a) ==
  /\ run[a].at # "idle" /\ run[a].doc = "page" => file[MasterPath(run[a].req.project)] # NoDoc
  /\ run[a].at = "unlink" /\ run[a].outcome # "failed" => file[Target(a)] # NoDoc

LEMMA PublishedIsThere ==
  ASSUME TypeInv, NEW a \in Agent, Publishes(a)
  PROVE  file'[Target(a)] = Temp(a, TRUE)[2] /\ Temp(a, TRUE)[2] \in Doc /\ file'[Target(a)] # NoDoc
         /\ \A p \in Path \ {Target(a)} : file'[p] = file[p]
  <1>1. Temp(a, TRUE) \in Path \X Doc /\ Target(a) \in Path
    BY TargetType DEF Publishes
  <1>2. Temp(a, TRUE)[2] \in Doc /\ Temp(a, TRUE)[2] # NoDoc
    BY <1>1, NoDocAssumption
  <1>3. QED
    BY <1>1, <1>2 DEF Publishes, TypeInv, FilesTypeOK

LEMMA PageStep ==
  ASSUME TypeInv, \A b \in Agent : PageInv(b), NEW a \in Agent, FilesStep(a)
  PROVE  \A b \in Agent : PageInv(b)'
  <1>1. run[a] \in Local /\ run \in [Agent -> Local] /\ \A b \in Agent : run[b].req.project \in Project
    BY DEF TypeInv, FilesTypeOK, Local, Request
  <1>2. \A p \in Project : MasterPath(p) \in Path
    BY DEF Path, MasterPaths
  <1>3. ASSUME NEW b \in Agent, b # a PROVE PageInv(b)'
    <2>1. run'[b] = run[b] /\ count'[b] = count[b] /\ Target(b)' = Target(b)
      BY <1>3, OthersStay DEF Target
    <2>2. run[b].at # "idle" => Target(b) \in Path
      BY TargetType
    <2>3. QED
      BY <1>1, <1>2, <2>1, <2>2, FilesStay DEF PageInv
  <1>4. ASSUME run'[a].at = "idle" PROVE PageInv(a)'
    BY <1>4 DEF PageInv
  <1>5. ASSUME OpenTemp(a) \/ WriteTemp(a) \/ WriteFails(a) \/ Link(a) PROVE PageInv(a)'
    <2>1. /\ run[a].at # "idle" /\ run'[a].doc = run[a].doc /\ run'[a].req = run[a].req
          /\ Target(a)' = Target(a)
      BY <1>5, SameDocument DEF OpenTemp, WriteTemp, WriteFails, Link
    <2>2. run'[a].at = "unlink" /\ run'[a].outcome # "failed" => Link(a)
      BY <1>1, <1>5 DEF OpenTemp, WriteTemp, WriteFails, Becomes, Local
    <2>3. Link(a) => file'[Target(a)] # NoDoc
      <3>1. Target(a) \in Path
        BY <2>1, TargetType
      <3>2. Link(a) => Publishes(a) \/ file[Target(a)] # NoDoc
        <4>1. Temp(a, TRUE)[1] = Target(a)
          BY DEF Temp
        <4>2. QED
          BY <4>1 DEF Link, Linkable, Publishes
      <3>3. QED
        BY <3>1, <3>2, FilesStay, PublishedIsThere
    <2>4. QED
      BY <1>1, <1>2, <2>1, <2>2, <2>3, FilesStay DEF PageInv
  <1>6. ASSUME NEW files, Advance(a, files), file'[Target(a)] # NoDoc PROVE PageInv(a)'
    <2>1. CASE run'[a].at = "idle"
      BY <2>1, <1>4
    <2>2. CASE /\ run[a].doc = "master"
               /\ Becomes(a, [Run(run[a].req) EXCEPT !.doc = "page", !.created = files])
      <3>1. run'[a].at = "open" /\ run'[a].req = run[a].req
        BY <1>1, <2>2 DEF Becomes, Run
      <3>2. Target(a) = MasterPath(run[a].req.project)
        BY <2>2 DEF Target
      <3>3. QED
        BY <1>6, <3>1, <3>2 DEF PageInv
    <2>3. QED
      BY <1>1, <1>6, <2>1, <2>2, IdleType DEF Advance, Report, Becomes
  <1>7. ASSUME Replace(a) PROVE PageInv(a)'
    <2>1. Publishes(a)
      <3>1. Temp(a, TRUE)[1] = Target(a)
        BY DEF Temp
      <3>2. QED
        BY <1>7, <3>1 DEF Replace, Publishes
    <2>2. QED
      BY <1>6, <1>7, <2>1, PublishedIsThere DEF Replace
  <1>8. ASSUME Unlink(a) PROVE PageInv(a)'
    <2>1. CASE run[a].outcome = "failed"
      BY <1>1, <1>4, <1>8, <2>1, IdleType DEF Unlink, Report, Becomes
    <2>2. CASE run[a].outcome # "failed"
      BY <1>6, <1>8, <2>2 DEF Unlink, PageInv
    <2>3. QED
      BY <2>1, <2>2
  <1>9. ASSUME Kill(a) PROVE PageInv(a)'
    BY <1>1, <1>4, <1>9, IdleType DEF Kill, Becomes
  <1>10. ASSUME NEW r \in Request, StartRun(a, r) PROVE PageInv(a)'
    <2>1. run'[a].at = "open" /\ run'[a].doc = "master"
      BY <1>1, <1>10 DEF StartRun, Becomes, Run
    <2>2. QED
      BY <2>1 DEF PageInv
  <1>11. QED
    BY <1>3, <1>5, <1>7, <1>8, <1>9, <1>10 DEF FilesStep

\* A page is published in a project that has its master.
LEMMA MasterStep ==
  ASSUME TypeInv, \A b \in Agent : PageInv(b), PageUnderMaster, NEW a \in Agent, FilesStep(a)
  PROVE  PageUnderMaster'
  <1> SUFFICES ASSUME NEW p \in Path, p[2] # Master, file'[p] # NoDoc
               PROVE  file'[<<p[1], Master>>] # NoDoc
    BY DEF PageUnderMaster
  <1>1. <<p[1], Master>> \in Path
    BY DEF Path, MasterPaths, PagePaths, MasterPath, PagePath
  <1>2. CASE file[p] # NoDoc
    BY <1>1, <1>2, FilesStay DEF PageUnderMaster
  <1>3. CASE file[p] = NoDoc
    <2>1. Publishes(a) /\ p = Target(a)
      BY <1>3, Publishing, PublishedIsThere
    <2>2. run[a].doc = "page" /\ <<p[1], Master>> = MasterPath(run[a].req.project)
      BY <2>1 DEF Target, MasterPath, PagePath, TypeInv, FilesTypeOK
    <2>3. file[<<p[1], Master>>] # NoDoc
      BY <2>1, <2>2 DEF PageInv, Publishes
    <2>4. QED
      BY <1>1, <2>3, FilesStay
  <1>4. QED
    BY <1>2, <1>3

\* What a run under way has created.
Held(a) == run[a].created \cup
             (IF run[a].at = "unlink" /\ run[a].outcome = "new" THEN {Target(a)} ELSE {})

\* The run id, with --force or without, has created p, or will say so.
Claims(id, force, p) ==
  \/ \E r \in reports : r.run = id /\ r.force = force /\ p \in r.created
  \/ \E a \in Agent : run[a].at # "idle" /\ RunOf(a) = id /\ run[a].req.force = force /\ p \in Held(a)

\* It is honored: its document is there, or one that was forced upon it; and
\* two claims of one path are of one run, or one of them is forced.
ClaimInv ==
  /\ \A id, force : \A p \in Path :
       Claims(id, force, p) => file[p] # NoDoc /\ (file[p].run = id \/ file[p].force)
  /\ \A id1, id2, f1, f2 : \A p \in Path :
       Claims(id1, f1, p) /\ Claims(id2, f2, p) => id1 = id2 \/ f1 \/ f2

\* A run that goes on or ends claims what it was given.
LEMMA AdvanceClaims ==
  ASSUME TypeInv, NEW a \in Agent, NEW files, Advance(a, files), NEW id, NEW force, NEW p,
         \/ p \in Held(a)' /\ run'[a].at # "idle" /\ RunOf(a)' = id /\ run'[a].req.force = force
         \/ \E r \in reports' \ reports : r.run = id /\ r.force = force /\ p \in r.created
  PROVE  p \in files /\ force = run[a].req.force /\ (count' = count => id = RunOf(a))
  <1>1. run[a] \in Local /\ run \in [Agent -> Local]
    BY DEF TypeInv, FilesTypeOK, Local
  <1>2. CASE /\ Becomes(a, [Run(run[a].req) EXCEPT !.doc = "page", !.created = files])
             /\ UNCHANGED reports
    <2>1. run'[a].at = "open" /\ run'[a].created = files /\ run'[a].req = run[a].req
      BY <1>1, <1>2 DEF Becomes, Run
    <2>2. QED
      BY <1>2, <2>1 DEF Held, RunOf
  <1>3. ASSUME NEW status, Report(a, status, files)
        PROVE  p \in files /\ force = run[a].req.force /\ (count' = count => id = RunOf(a))
    <2>1. run'[a].at = "idle"
      BY <1>1, <1>3, IdleType DEF Report, Becomes
    <2>2. QED
      BY <1>3, <2>1 DEF Report
  <1>4. QED
    BY <1>2, <1>3 DEF Advance

\* A claim is new only if its document is published in this step.
LEMMA NewClaims ==
  ASSUME TypeInv, NEW a \in Agent, FilesStep(a), NEW id, NEW force, NEW p \in Path,
         Claims(id, force, p)'
  PROVE  \/ Claims(id, force, p)
         \/ /\ Publishes(a) /\ p = Target(a) /\ id = RunOf(a) /\ force = run[a].req.force
  <1>1. run[a] \in Local /\ run \in [Agent -> Local]
    BY DEF TypeInv, FilesTypeOK, Local
  <1>2. \A b \in Agent \ {a} : /\ run'[b] = run[b] /\ RunOf(b)' = RunOf(b) /\ Held(b)' = Held(b)
    BY OthersStay DEF RunOf, Held, Target
  <1>3. SUFFICES ASSUME \/ p \in Held(a)' /\ run'[a].at # "idle" /\ RunOf(a)' = id
                             /\ run'[a].req.force = force
                        \/ \E r \in reports' \ reports : r.run = id /\ r.force = force /\ p \in r.created
                 PROVE  \/ /\ run[a].at # "idle" /\ RunOf(a) = id /\ run[a].req.force = force
                           /\ p \in Held(a)
                        \/ /\ Publishes(a) /\ p = Target(a) /\ id = RunOf(a)
                           /\ force = run[a].req.force
    BY <1>2 DEF Claims
  <1>4. ASSUME NEW r \in Request, StartRun(a, r) PROVE FALSE
    <2>1. run'[a].at = "open" /\ run'[a].created = {} /\ reports' = reports
      BY <1>1, <1>4 DEF StartRun, Becomes, Run
    <2>2. QED
      BY <1>3, <2>1 DEF Held
  <1>5. CASE OpenTemp(a) \/ WriteTemp(a) \/ WriteFails(a) \/ Link(a)
    <2>1. /\ run[a].at # "idle" /\ reports' = reports /\ run'[a].req = run[a].req
          /\ run'[a].created = run[a].created /\ RunOf(a)' = RunOf(a) /\ Target(a)' = Target(a)
      BY <1>5, SameDocument DEF OpenTemp, WriteTemp, WriteFails, Link
    <2>2. p \in run[a].created \/ (p = Target(a) /\ run'[a].at = "unlink" /\ run'[a].outcome = "new")
      BY <1>3, <2>1 DEF Held
    <2>3. run'[a].at = "unlink" /\ run'[a].outcome = "new" => Publishes(a)
      <3>1. Temp(a, TRUE)[1] = Target(a)
        BY DEF Temp
      <3>2. CASE Link(a)
        BY <1>1, <3>1, <3>2 DEF Link, Linkable, Publishes, Becomes, Local
      <3>3. CASE OpenTemp(a) \/ WriteTemp(a) \/ WriteFails(a)
        BY <1>1, <3>3 DEF OpenTemp, WriteTemp, WriteFails, Becomes, Local
      <3>4. QED
        BY <1>5, <3>2, <3>3
    <2>4. QED
      BY <1>3, <2>1, <2>2, <2>3 DEF Held
  <1>6. CASE Replace(a)
    <2>1. Publishes(a)
      <3>1. Temp(a, TRUE)[1] = Target(a)
        BY DEF Temp
      <3>2. QED
        BY <1>6, <3>1 DEF Replace, Publishes
    <2>2. /\ p \in run[a].created \cup {Target(a)} /\ force = run[a].req.force /\ id = RunOf(a)
          /\ run[a].at # "idle"
      <3>1. Advance(a, run[a].created \cup {Target(a)}) /\ count' = count /\ run[a].at = "publish"
        BY <1>6 DEF Replace
      <3>2. QED
        BY <1>3, <3>1, AdvanceClaims
    <2>3. QED
      BY <2>1, <2>2 DEF Held
  <1>7. CASE Unlink(a)
    <2>1. CASE Advance(a, run[a].created \cup Gained(a)) /\ run[a].outcome # "failed"
      <3>1. /\ p \in run[a].created \cup Gained(a) /\ force = run[a].req.force /\ id = RunOf(a)
            /\ run[a].at = "unlink"
        BY <1>3, <1>7, <2>1, AdvanceClaims DEF Unlink
      <3>2. QED
        BY <3>1 DEF Held, Gained
    <2>2. CASE Report(a, "error", {})
      <3>1. run'[a].at = "idle"
        BY <1>1, <2>2, IdleType DEF Report, Becomes
      <3>2. QED
        BY <1>3, <2>2, <3>1 DEF Report
    <2>3. QED
      BY <1>7, <2>1, <2>2 DEF Unlink
  <1>8. CASE Kill(a)
    <2>1. run'[a].at = "idle" /\ reports' = reports
      BY <1>1, <1>8, IdleType DEF Kill, Becomes
    <2>2. QED
      BY <1>3, <2>1
  <1>9. QED
    BY <1>4, <1>5, <1>6, <1>7, <1>8 DEF FilesStep

\* Claims are honored whatever runs do.
LEMMA ClaimStep ==
  ASSUME TypeInv, ClaimInv, NEW a \in Agent, FilesStep(a)
  PROVE  ClaimInv'
  <1>1. ASSUME Publishes(a)
        PROVE  /\ Target(a) \in Path /\ file'[Target(a)] # NoDoc
               /\ file'[Target(a)].run = RunOf(a)
               /\ file'[Target(a)].force = run[a].req.force
               /\ file[Target(a)] = NoDoc \/ run[a].req.force
               /\ \A p \in Path \ {Target(a)} : file'[p] = file[p]
    <2>1. /\ file'[Target(a)] = Temp(a, TRUE)[2] /\ file'[Target(a)] # NoDoc
          /\ \A p \in Path \ {Target(a)} : file'[p] = file[p]
      BY <1>1, PublishedIsThere
    <2>2. Temp(a, TRUE)[2].run = RunOf(a) /\ Temp(a, TRUE)[2].force = run[a].req.force
      BY DEF Temp
    <2>3. Target(a) \in Path
      BY <1>1, TargetType DEF Publishes
    <2>4. QED
      BY <1>1, <2>1, <2>2, <2>3 DEF Publishes
  <1>2. ASSUME NEW id, NEW force, NEW p \in Path, Claims(id, force, p)'
        PROVE  file'[p] # NoDoc /\ (file'[p].run = id \/ file'[p].force)
    <2>1. CASE Publishes(a) /\ p = Target(a)
      <3>1. CASE id = RunOf(a)
        BY <1>1, <2>1, <3>1
      <3>2. CASE id # RunOf(a)
        <4>1. Claims(id, force, p)
          BY <1>2, <3>2, NewClaims
        <4>2. file[p] # NoDoc
          BY <4>1 DEF ClaimInv
        <4>3. QED
          BY <1>1, <2>1, <4>2
      <3>3. QED
        BY <3>1, <3>2
    <2>2. CASE ~(Publishes(a) /\ p = Target(a))
      <3>1. Claims(id, force, p)
        BY <1>2, <2>2, NewClaims
      <3>2. file[p] # NoDoc /\ (file[p].run = id \/ file[p].force)
        BY <3>1 DEF ClaimInv
      <3>3. file'[p] = file[p]
        BY <1>1, <2>2, Publishing
      <3>4. QED
        BY <3>2, <3>3
    <2>3. QED
      BY <2>1, <2>2
  <1>3. ASSUME NEW id1, NEW id2, NEW f1, NEW f2, NEW p \in Path,
               Claims(id1, f1, p)', Claims(id2, f2, p)'
        PROVE  id1 = id2 \/ f1 \/ f2
    <2>1. Claims(id1, f1, p) /\ Claims(id2, f2, p) => id1 = id2 \/ f1 \/ f2
      BY DEF ClaimInv
    <2>2. Claims(id1, f1, p) \/ Claims(id2, f2, p) => file[p] # NoDoc
      BY DEF ClaimInv
    <2>3. Claims(id1, f1, p)
             \/ (Publishes(a) /\ p = Target(a) /\ id1 = RunOf(a) /\ f1 = run[a].req.force)
      BY <1>3, NewClaims
    <2>4. Claims(id2, f2, p)
             \/ (Publishes(a) /\ p = Target(a) /\ id2 = RunOf(a) /\ f2 = run[a].req.force)
      BY <1>3, NewClaims
    <2>5. QED
      BY <1>1, <2>1, <2>2, <2>3, <2>4
  <1>4. QED
    BY <1>2, <1>3 DEF ClaimInv

-----------------------------------------------------------------------------
(* What holds of every run                                                 *)

FilesInv == /\ TypeInv /\ TempInv /\ ClaimInv /\ PageUnderMaster
            /\ \A a \in Agent : PageInv(a)

LEMMA FilesInvAlways == FilesSpec => []FilesInv
  <1>1. FilesInit /\ TypeInv => FilesInv
    <2> SUFFICES ASSUME FilesInit, TypeInv PROVE FilesInv
      OBVIOUS
    <2>1. \A a \in Agent : run[a].at = "idle"
      BY IdleType DEF FilesInit
    <2>2. TempInv /\ \A a \in Agent : PageInv(a)
      BY <2>1 DEF FilesInit, TempInv, PageInv
    <2>3. PageUnderMaster
      BY DEF FilesInit, PageUnderMaster
    <2>4. \A id, force, p : ~Claims(id, force, p)
      BY <2>1 DEF FilesInit, Claims
    <2>5. ClaimInv
      BY <2>4 DEF ClaimInv
    <2>6. QED
      BY <2>2, <2>3, <2>5 DEF FilesInv
  <1>2. FilesInv /\ TypeInv' /\ [FilesNext]_filesVars => FilesInv'
    <2> SUFFICES ASSUME FilesInv, TypeInv', [FilesNext]_filesVars PROVE FilesInv'
      OBVIOUS
    <2>1. CASE UNCHANGED filesVars
      <3>1. TempInv' /\ PageUnderMaster' /\ \A a \in Agent : PageInv(a)'
        BY <2>1 DEF FilesInv, filesVars, TempInv, OwnTemp, Temp, Target, RunOf, PageUnderMaster, PageInv
      <3>2. \A id, force, p : Claims(id, force, p)' <=> Claims(id, force, p)
        BY <2>1 DEF filesVars, Claims, RunOf, Held, Target
      <3>3. ClaimInv'
        BY <2>1, <3>2 DEF filesVars, FilesInv, ClaimInv
      <3>4. QED
        BY <3>1, <3>3 DEF FilesInv
    <2>2. CASE FilesNext
      <3>1. PICK a \in Agent : FilesStep(a)
        BY <2>2 DEF FilesNext
      <3>2. QED
        BY <3>1, TempStep, PageStep, MasterStep, ClaimStep DEF FilesInv
    <2>3. QED
      BY <2>1, <2>2
  <1>3. QED
    BY <1>1, <1>2, TypeAlways, PTL DEF FilesSpec

\* What concurrent runs are told agrees with what they leave (FilesSound).
THEOREM RunsAreSound == FilesSpec => []FilesSound
  <1>1. FilesInv => FilesSound
    <2> SUFFICES ASSUME FilesInv PROVE FilesSound
      OBVIOUS
    <2>1. CreatedByOne
      <3> SUFFICES ASSUME NEW r \in reports, NEW p \in Path, p \in r.created
                   PROVE  /\ file[p] # NoDoc /\ (file[p].run = r.run \/ file[p].force)
                          /\ \A s \in reports : p \in s.created => s.run = r.run \/ s.force \/ r.force
        BY DEF CreatedByOne
      <3>1. Claims(r.run, r.force, p) /\ \A s \in reports : p \in s.created => Claims(s.run, s.force, p)
        BY DEF Claims
      <3>2. QED
        BY <3>1 DEF FilesInv, ClaimInv
    <2>2. NoStrayTemp
      <3>1. \A a \in Agent : \A t : OwnTemp(a, t) => run[a].at # "idle" /\ t[2].run = RunOf(a)
        BY DEF OwnTemp, Temp
      <3>2. QED
        BY <3>1 DEF FilesInv, TempInv, NoStrayTemp
    <2>3. QED
      BY <2>1, <2>2 DEF FilesInv, TypeInv, FilesSound
  <1>2. QED
    BY <1>1, FilesInvAlways, PTL

(***************************************************************************)
(* UiSetup: what was there when a run began is still there, as nobody      *)
(* removes a configuration or a component.                                 *)
(***************************************************************************)

Stages == {"idle", "start", "check", "write", "npx"}
Sessions == [stage: Stages, args: TailwindArgs \cup ShadcnArgs \cup {[tool |-> "none"]},
             foundConfigs: SUBSET ConfigNames, foundParts: SUBSET Component]

SetupTypes ==
  /\ config \in [OutputName -> {"none", "whole", "torn"}]
  /\ installed \subseteq Component
  /\ ready \in {"unknown", "none", "found", "elsewhere"}
  /\ session \in [Setup -> Sessions]

\* What the run of s knows of the project.
Knows(s) ==
  session[s].stage # "idle" =>
    /\ ready # "unknown" /\ session[s].args \in TailwindArgs \cup ShadcnArgs
    /\ session[s].foundConfigs \subseteq Configs /\ session[s].foundParts \subseteq installed
    /\ session[s].stage \in {"check", "write"} => session[s].args \in TailwindArgs
    /\ session[s].stage = "npx" => session[s].args \in ShadcnArgs

SetupInv == SetupTypes /\ SetupSound /\ \A s \in Setup : Knows(s)

LEMMA SetupStart == SetupInit => SetupInv
  <1> SUFFICES ASSUME SetupInit PROVE SetupInv
    OBVIOUS
  <1>1. NoSession \in Sessions
    BY DEF NoSession, Sessions, Stages
  <1>2. SetupTypes
    BY <1>1 DEF SetupInit, SetupTypes
  <1>3. \A s \in Setup : session[s].stage = "idle"
    BY DEF SetupInit, NoSession
  <1>4. QED
    BY <1>2, <1>3 DEF SetupInv, SetupSound, ConfigStays, NotReinstalled, Knows

\* A session that goes on to another stage, or ends, keeps what it knows.
LEMMA SessionMoves ==
  ASSUME SetupInv, NEW s \in Setup, NEW stage \in Stages,
         session' = [session EXCEPT ![s].stage = stage]
  PROVE  /\ session' \in [Setup -> Sessions]
         /\ \A r \in Setup : /\ session'[r].args = session[r].args
                             /\ session'[r].foundConfigs = session[r].foundConfigs
                             /\ session'[r].foundParts = session[r].foundParts
                             /\ session'[r].stage = IF r = s THEN stage ELSE session[r].stage
  BY DEF SetupInv, SetupTypes, Sessions

\* The project is only added to.
LEMMA ProjectGrows ==
  ASSUME SetupInv, ready' = ready, installed \subseteq installed', installed' \subseteq Component,
         config' \in [OutputName -> {"none", "whole", "torn"}], Configs \subseteq Configs',
         NEW s \in Setup, NEW stage \in Stages, session' = [session EXCEPT ![s].stage = stage],
         stage # "idle" =>
           /\ session[s].stage # "idle"
           /\ stage \in {"check", "write"} => session[s].args \in TailwindArgs
           /\ stage = "npx" => session[s].args \in ShadcnArgs,
         stage = "write" /\ ~session[s].args.force /\ session[s].args.out \in ConfigNames =>
           session[s].foundConfigs = {},
         stage = "npx" /\ session[s].args.tool = "add" /\ ~session[s].args.overwrite /\ ready = "found" =>
           session[s].args.parts \cap session[s].foundParts = {}
  PROVE  SetupInv'
  <1>1. SetupTypes'
    BY SessionMoves DEF SetupInv, SetupTypes
  <1>2. \A r \in Setup : Knows(r)'
    BY SessionMoves DEF SetupInv, Knows
  <1>3. ConfigStays'
    BY SessionMoves DEF SetupInv, SetupSound, ConfigStays
  <1>4. NotReinstalled'
    BY SessionMoves DEF SetupInv, SetupSound, NotReinstalled
  <1>5. QED
    BY <1>1, <1>2, <1>3, <1>4 DEF SetupInv, SetupSound

LEMMA SetupStep == SetupInv /\ [SetupNext]_setupVars => SetupInv'
  <1> SUFFICES ASSUME SetupInv, [SetupNext]_setupVars PROVE SetupInv'
    OBVIOUS
  <1>0. SetupTypes /\ SetupSound /\ \A s \in Setup : Knows(s)
    BY DEF SetupInv
  <1>1. CASE UNCHANGED setupVars
    BY <1>0, <1>1 DEF SetupInv, SetupTypes, SetupSound, ConfigStays, NotReinstalled, Knows, Configs, setupVars
  <1>2. CASE OpenProject
    <2>1. \A s \in Setup : session[s].stage = "idle" /\ session'[s].stage = "idle"
      BY <1>0, <1>2 DEF OpenProject, Knows
    <2>2. SetupTypes'
      BY <1>0, <1>2 DEF OpenProject, SetupTypes
    <2>3. QED
      BY <2>1, <2>2 DEF SetupInv, SetupSound, ConfigStays, NotReinstalled, Knows
  <1>3. ASSUME NEW s \in Setup, NEW args \in Wanted[s], BeginSetup(s, args) PROVE SetupInv'
    <2>1. args \in TailwindArgs \cup ShadcnArgs
      BY SetupAssumption
    <2>2. /\ UNCHANGED <<config, installed, ready>> /\ ready # "unknown"
          /\ session'[s] = [stage |-> "start", args |-> args, foundConfigs |-> Configs, foundParts |-> installed]
          /\ \A r \in Setup \ {s} : session'[r] = session[r]
      BY <1>0, <1>3 DEF BeginSetup, SetupTypes
    <2>3. SetupTypes'
      BY <1>0, <1>3, <2>1 DEF BeginSetup, SetupTypes, Sessions, Stages, Configs
    <2>4. Configs' = Configs
      BY <2>2 DEF Configs
    <2>5. QED
      BY <1>0, <2>1, <2>2, <2>3, <2>4 DEF SetupInv, SetupSound, ConfigStays, NotReinstalled, Knows
  <1>4. ASSUME NEW s \in Setup, NEW what, Exit(s, what), UNCHANGED <<config, installed, ready>> PROVE SetupInv'
    <2>1. "idle" \in Stages /\ Configs' = Configs
      BY <1>4 DEF Stages, Configs
    <2>2. QED
      BY <1>0, <1>4, <2>1, ProjectGrows DEF Exit, SetupTypes
  <1>5. ASSUME NEW s \in Setup, GenerateConfig(s) PROVE SetupInv'
    <2>1. session[s].args \in TailwindArgs
      BY <1>0, <1>5 DEF GenerateConfig, Knows, ShadcnArgs, TailwindArgs
    <2>2. CASE Enter(s, "check")
      <3>1. "check" \in Stages /\ Configs' = Configs
        BY <2>2 DEF Stages, Configs, Enter
      <3>2. QED
        BY <1>0, <1>5, <2>1, <2>2, <3>1, ProjectGrows DEF Enter, SetupTypes, GenerateConfig
    <2>3. QED
      BY <1>4, <1>5, <2>2 DEF GenerateConfig
  <1>6. ASSUME NEW s \in Setup, CheckConfig(s) PROVE SetupInv'
    <2>1. session[s].stage = "check" /\ session[s].args \in TailwindArgs /\ session[s].foundConfigs \subseteq Configs
      BY <1>0, <1>6 DEF CheckConfig, Knows
    <2>2. CASE ~\E what : Exit(s, what) /\ UNCHANGED <<config, installed, ready>>
      <3>1. Enter(s, "write") /\ (Competing(session[s].args.out) = {} \/ session[s].args.force)
        BY <1>6, <2>2 DEF CheckConfig
      <3>2. "write" \in Stages /\ Configs' = Configs
        BY <3>1 DEF Stages, Configs, Enter
      <3>3. ~session[s].args.force /\ session[s].args.out \in ConfigNames => session[s].foundConfigs = {}
        BY <2>1, <3>1 DEF Competing
      <3>4. QED
        BY <1>0, <2>1, <3>1, <3>2, <3>3, ProjectGrows DEF Enter, SetupTypes
    <2>3. QED
      BY <1>4, <2>2
  <1>7. ASSUME NEW s \in Setup, WriteConfig(s) PROVE SetupInv'
    <2>1. PICK content \in {"whole", "torn"} :
            /\ config' = [config EXCEPT ![session[s].args.out] = content]
            /\ Exit(s, IF content = "whole" THEN "written" ELSE "failed")
      BY <1>7 DEF WriteConfig
    <2>2. "idle" \in Stages /\ Configs \subseteq Configs' /\ config' \in [OutputName -> {"none", "whole", "torn"}]
      BY <1>0, <2>1 DEF Stages, Configs, SetupTypes, OutputName
    <2>3. QED
      BY <1>0, <1>7, <2>1, <2>2, ProjectGrows DEF Exit, SetupTypes, WriteConfig
  <1>8. ASSUME NEW s \in Setup, CheckComponents(s) PROVE SetupInv'
    <2>1. session[s].stage = "start" /\ session[s].args \in ShadcnArgs /\ session[s].foundParts \subseteq installed
      BY <1>0, <1>8 DEF CheckComponents, Knows, ShadcnArgs, TailwindArgs
    <2>2. CASE ~\E what : Exit(s, what) /\ UNCHANGED <<config, installed, ready>>
      <3>1. /\ Enter(s, "npx")
            /\ session[s].args.tool = "add" => ~(AlreadyThere(session[s].args.parts) /\ ~session[s].args.overwrite)
        BY <1>8, <2>2 DEF CheckComponents
      <3>2. "npx" \in Stages /\ Configs' = Configs
        BY <3>1 DEF Stages, Configs, Enter
      <3>3. session[s].args.tool = "add" /\ ~session[s].args.overwrite /\ ready = "found" =>
              session[s].args.parts \cap session[s].foundParts = {}
        BY <2>1, <3>1 DEF AlreadyThere, Visible
      <3>4. QED
        BY <1>0, <2>1, <3>1, <3>2, <3>3, ProjectGrows DEF Enter, SetupTypes
    <2>3. QED
      BY <1>4, <2>2
  <1>9. ASSUME NEW s \in Setup, RunNpx(s) PROVE SetupInv'
    <2>1. session[s].args \in ShadcnArgs
      BY <1>0, <1>9 DEF RunNpx, Knows
    <2>2. /\ installed \subseteq installed' /\ installed' \subseteq Component
          /\ session' = [session EXCEPT ![s].stage = "idle"]
      BY <1>0, <1>9, <2>1 DEF RunNpx, SetupTypes, ShadcnArgs, Exit
    <2>3. "idle" \in Stages /\ Configs' = Configs
      BY <1>9 DEF Stages, RunNpx, Configs
    <2>4. QED
      BY <1>0, <1>9, <2>2, <2>3, ProjectGrows DEF RunNpx, SetupTypes
  <1>10. QED
    BY <1>1, <1>2, <1>3, <1>5, <1>6, <1>7, <1>8, <1>9 DEF SetupNext

\* A Tailwind configuration or a component that was in the project when a run
\* began is replaced by that run only if it was forced to, whatever the other
\* agents write and install meanwhile.
THEOREM SetupAlwaysSound == SetupSpec => []SetupSound
  <1>1. SetupInv => SetupSound
    BY DEF SetupInv
  <1>2. QED
    BY <1>1, SetupStart, SetupStep, PTL DEF SetupSpec

(***************************************************************************)
(* ImageJobs: the variants before the current one are settled, it and those*)
(* after it are untried, and each stage knows what the earlier ones left.  *)
(***************************************************************************)

Settled(v) == outcome[v] # "untried"

BatchInv ==
  /\ at # "idle" =>
       /\ job.variant <= Variants
       /\ \A v \in Variant : Settled(v) <=> v < job.variant
       /\ \A v \in Variant : v > job.variant => posts[v] = 0
       /\ at = "post" => posts[job.variant] = 0
       /\ job.source = "public"
       /\ at = "poll" => job.polls < MaxPolls
       /\ at = "save" => image[job.variant] = [by |-> batches, whole |-> FALSE]
  /\ at = "idle" => job = NoJob

Promised == JobsTypeOK /\ OnePost /\ SavedIsThere /\ OnlyPublic
JobsInv == Promised /\ BatchInv

LEMMA JobsStart == JobsInit => JobsInv
  <1> SUFFICES ASSUME JobsInit PROVE JobsInv
    OBVIOUS
  <1>1. 1 \in Variant /\ 1 \in 1..MaxCount /\ 0 \in 0..MaxPolls /\ 0 \in 0..MaxBatches
    BY JobsAssumption DEF Variant
  <1>2. JobsTypeOK
    BY <1>1 DEF JobsInit, JobsTypeOK, NoJob, Job, Provider, Status, Url, Untried
  <1>3. QED
    BY <1>2 DEF JobsInit, JobsInv, Promised, OnePost, SavedIsThere, OnlyPublic, BatchInv, Untried

\* What holds of the current variant.
LEMMA Current ==
  ASSUME JobsInv
  PROVE  /\ job.variant \in Variant /\ job.variant \in Nat /\ job.count \in 1..MaxCount
         /\ job.provider \in Provider /\ job.polls \in 0..MaxPolls /\ Variants \in Variant
         /\ at # "idle" => ~Settled(job.variant)
  <1>1. job.variant \in Variant /\ job.count \in 1..MaxCount /\ job.provider \in Provider
        /\ job.polls \in 0..MaxPolls
    BY DEF JobsInv, Promised, JobsTypeOK
  <1>2. job.variant \in Nat /\ Variants \in Variant
    BY <1>1, JobsAssumption DEF Variants, Variant
  <1>3. QED
    BY <1>1, <1>2 DEF JobsInv, BatchInv

\* A variant is settled: the next one is posted, or the batch is over and every
\* variant asked for has been tried.
LEMMA SettleStep ==
  ASSUME JobsInv, at # "idle", NEW how \in {"saved", "failed", "timeout"}, Settle(how),
         UNCHANGED <<batches, remote>>, fetched' = fetched,
         posts' \in [Variant -> Nat], posts'[job.variant] <= 1,
         \A v \in Variant \ {job.variant} : posts'[v] = posts[v],
         image' \in [Variant -> [by: 0..MaxBatches, whole: BOOLEAN]],
         \A v \in Variant \ {job.variant} : image'[v] = image[v],
         how = "saved" => image'[job.variant] = [by |-> batches, whole |-> TRUE]
  PROVE  /\ JobsInv'
         /\ at' = "idle" => \A v \in Variant : outcome'[v] # "untried" <=> v <= job.count
  <1>1. JobsTypeOK /\ OnePost /\ SavedIsThere /\ OnlyPublic /\ BatchInv
    BY DEF JobsInv, Promised
  <1>2. /\ job.variant \in Variant /\ job.variant \in Nat /\ job.count \in 1..MaxCount
        /\ job.provider \in Provider /\ Variants \in Variant
    BY Current
  <1>3. /\ outcome' = [outcome EXCEPT ![job.variant] = how]
        /\ outcome'[job.variant] = how
        /\ \A v \in Variant \ {job.variant} : outcome'[v] = outcome[v]
        /\ outcome' \in [Variant -> {"untried", "saved", "failed", "timeout"}]
    BY <1>1, <1>2 DEF Settle, JobsTypeOK
  <1>4. OnePost' /\ SavedIsThere' /\ OnlyPublic'
    BY <1>1, <1>2, <1>3 DEF OnePost, SavedIsThere, OnlyPublic
  <1>5. \A v \in Variant : Settled(v)' <=> v < job.variant \/ v = job.variant
    BY <1>1, <1>2, <1>3 DEF BatchInv, Settled
  <1>6. CASE job.variant < Variants
    <2>1. at' = "post" /\ job' = Job(job.provider, job.count, job.variant + 1)
      BY <1>2, <1>6 DEF Settle, Variant
    <2>2. job.variant + 1 \in Variant
      BY <1>2, <1>6, JobsAssumption DEF Variant
    <2>3. JobsTypeOK'
      BY <1>1, <1>2, <1>3, <2>1, <2>2, JobsAssumption DEF JobsTypeOK, Job, Status, Url
    <2>4. job'.variant = job.variant + 1 /\ job'.source = "public" /\ Variants' = Variants
      BY <2>1 DEF Job, Variants
    <2>5. posts'[job'.variant] = 0 /\ \A v \in Variant : v > job'.variant => posts'[v] = 0
      BY <1>1, <1>2, <2>2, <2>4 DEF BatchInv, Variant
    <2>6. \A v \in Variant : Settled(v)' <=> v < job'.variant
      BY <1>2, <1>5, <2>4 DEF Variant
    <2>7. BatchInv'
      BY <1>2, <1>6, <2>1, <2>4, <2>5, <2>6 DEF BatchInv, Variant
    <2>8. QED
      BY <1>4, <2>1, <2>3, <2>7 DEF JobsInv, Promised
  <1>7. CASE ~(job.variant < Variants)
    <2>1. at' = "idle" /\ job' = NoJob
      BY <1>7 DEF Settle
    <2>2. NoJob \in [provider: Provider, count: 1..MaxCount, variant: Variant, answer: Status,
                     source: Url, polls: 0..MaxPolls]
      BY JobsAssumption DEF NoJob, Job, Provider, Variant, Status, Url
    <2>3. JobsTypeOK'
      BY <1>1, <1>3, <2>1, <2>2 DEF JobsTypeOK
    <2>4. \A v \in Variant : outcome'[v] # "untried" <=> v <= job.variant
      BY <1>2, <1>5 DEF Settled, Variant
    <2>5. job.variant = Variants
      BY <1>1, <1>2, <1>7 DEF BatchInv, Variant
    <2>6. \A v \in Variant : v <= Variants <=> v <= job.count
      BY <1>2, JobsAssumption DEF Variants, Variant
    <2>7. QED
      BY <1>4, <2>1, <2>3, <2>4, <2>5, <2>6 DEF JobsInv, Promised, BatchInv
  <1>8. QED
    BY <1>6, <1>7

\* What a step of the tool promises besides the invariant.
StepSound ==
  /\ JobsInv'
  /\ \A v \in Variant : outcome'[v] = "timeout" /\ outcome[v] # "timeout" =>
       job.polls = MaxPolls /\ job.answer \notin Terminal(job.provider)
  /\ at # "idle" /\ at' = "idle" /\ outcome' # Untried =>
       \A v \in Variant : outcome'[v] # "untried" <=> v <= job.count

\* generate_logo returns for the current variant.
LEMMA Returns ==
  ASSUME JobsInv, at # "idle", NEW how \in {"saved", "failed", "timeout"}, Settle(how),
         UNCHANGED <<batches, remote>>, fetched' = fetched,
         posts' \in [Variant -> Nat], posts'[job.variant] <= 1,
         \A v \in Variant \ {job.variant} : posts'[v] = posts[v],
         image' \in [Variant -> [by: 0..MaxBatches, whole: BOOLEAN]],
         \A v \in Variant \ {job.variant} : image'[v] = image[v],
         how = "saved" => image'[job.variant] = [by |-> batches, whole |-> TRUE],
         how = "timeout" => job.polls = MaxPolls /\ job.answer \notin Terminal(job.provider)
  PROVE  StepSound
  <1>1. /\ JobsInv'
        /\ at' = "idle" => \A v \in Variant : outcome'[v] # "untried" <=> v <= job.count
    BY SettleStep
  <1>2. \A v \in Variant : outcome'[v] \in {outcome[v], how}
    BY DEF Settle, JobsInv, Promised, JobsTypeOK
  <1>3. QED
    BY <1>1, <1>2 DEF StepSound

\* An exception in generate_logo.
LEMMA FailStep ==
  ASSUME JobsInv, at # "idle", Fail
  PROVE  StepSound
  <1>1. JobsTypeOK /\ OnePost /\ job.variant \in Variant
    BY Current DEF JobsInv, Promised
  <1>2. posts' = posts /\ image' = image /\ UNCHANGED <<batches, remote, fetched>> /\ Settle("failed")
    BY DEF Fail
  <1>3. posts'[job.variant] <= 1
    BY <1>1, <1>2 DEF OnePost
  <1>4. QED
    BY <1>1, <1>2, <1>3, Returns DEF JobsTypeOK

\* The tool goes on to another call for the same variant.
LEMMA GoesOn ==
  ASSUME JobsInv, at # "idle", UNCHANGED <<batches, outcome>>,
         at' \in {"look", "poll", "download", "open", "save"},
         job'.variant = job.variant, job'.count = job.count, job'.source = "public",
         job' \in [provider: Provider, count: 1..MaxCount, variant: Variant, answer: Status,
                   source: Url, polls: 0..MaxPolls],
         remote' \in Status, fetched' \subseteq {"public"},
         posts' \in [Variant -> Nat], posts'[job.variant] <= 1,
         \A v \in Variant \ {job.variant} : posts'[v] = posts[v],
         image' \in [Variant -> [by: 0..MaxBatches, whole: BOOLEAN]],
         \A v \in Variant \ {job.variant} : image'[v] = image[v],
         at' = "poll" => job'.polls < MaxPolls,
         at' = "save" => image'[job.variant] = [by |-> batches, whole |-> FALSE]
  PROVE  StepSound
  <1>1. JobsTypeOK /\ OnePost /\ SavedIsThere /\ BatchInv
    BY DEF JobsInv, Promised
  <1>2. job.variant \in Variant /\ job.variant \in Nat /\ ~Settled(job.variant)
    BY Current
  <1>3. JobsTypeOK'
    BY <1>1 DEF JobsTypeOK, Url
  <1>4. SavedIsThere' /\ OnePost' /\ OnlyPublic'
    BY <1>1, <1>2 DEF SavedIsThere, OnePost, OnlyPublic, Settled
  <1>5. BatchInv'
    <2>1. Variants' = Variants /\ \A v \in Variant : Settled(v)' <=> Settled(v)
      BY DEF Variants, Settled
    <2>2. \A v \in Variant : v > job.variant => posts'[v] = 0
      BY <1>1, <1>2 DEF BatchInv, Variant
    <2>3. QED
      BY <1>1, <2>1, <2>2 DEF BatchInv
  <1>6. QED
    BY <1>3, <1>4, <1>5 DEF StepSound, JobsInv, Promised

\* image.save completes the file that open() has truncated.
LEMMA Written ==
  ASSUME NEW f, NEW b, f = [by |-> b, whole |-> FALSE]
  PROVE  [f EXCEPT !.whole = TRUE] = [by |-> b, whole |-> TRUE]
  <1> DEFINE g == [i \in {"by", "whole"} |-> IF i = "whole" THEN TRUE ELSE f[i]]
             h == [by |-> b, whole |-> TRUE]
  <1>1. [f EXCEPT !.whole = TRUE] = g
    BY Zenon
  <1>2. g.by = b /\ g.whole = TRUE
    BY SMT
  <1>3. h.by = b /\ h.whole = TRUE
    BY SMT
  <1>4. DOMAIN g = {"by", "whole"} /\ DOMAIN h = {"by", "whole"}
    BY SMT
  <1>5. g = [i \in DOMAIN g |-> g[i]]
    BY Zenon
  <1>6. h = [i \in DOMAIN h |-> h[i]]
    BY SMT
  <1> HIDE DEF g, h
  <1>7. \A i \in {"by", "whole"} : g[i] = h[i]
    BY <1>2, <1>3
  <1>8. g = h
    BY <1>4, <1>5, <1>6, <1>7, Zenon
  <1>9. QED
    BY <1>1, <1>8, Zenon DEF h

LEMMA BatchStepSound == ASSUME JobsInv, BatchStep PROVE StepSound
  <1>1. JobsTypeOK /\ OnePost /\ OnlyPublic /\ BatchInv
    BY DEF JobsInv, Promised
  <1>2. job.variant \in Variant /\ job.variant \in Nat /\ ~(at # "idle" /\ Settled(job.variant))
        /\ job.polls \in 0..MaxPolls
    BY Current
  <1>3. at # "idle" => job.source = "public" /\ posts[job.variant] <= 1
    BY <1>1, <1>2 DEF BatchInv, OnePost
  <1>4. CASE AskGemini
    <2>1. CASE Goto("open") /\ UNCHANGED <<job, fetched>>
      BY <1>1, <1>2, <1>3, <1>4, <2>1, GoesOn DEF AskGemini, Goto, JobsTypeOK, OnlyPublic
    <2>2. QED
      BY <1>4, <2>1, FailStep DEF AskGemini
  <1>5. CASE Post
    <2>1. at = "post" /\ posts[job.variant] = 0 /\ posts' = [posts EXCEPT ![job.variant] = @ + 1]
      BY <1>1, <1>5 DEF Post, BatchInv
    <2>2. /\ posts' \in [Variant -> Nat] /\ posts'[job.variant] = 1
          /\ \A v \in Variant \ {job.variant} : posts'[v] = posts[v]
      BY <1>1, <1>2, <2>1 DEF JobsTypeOK
    <2>3. PICK s \in Status, u \in Url :
            \/ /\ job.provider = "muapi" => Public(u)
               /\ job' = [job EXCEPT !.answer = s, !.source = IF job.provider = "muapi" THEN u ELSE "public"]
               /\ remote' = s /\ at' = "look"
               /\ UNCHANGED outcome
            \/ Settle("failed") /\ UNCHANGED remote
      BY <1>5 DEF Post
    <2>4. CASE /\ job.provider = "muapi" => Public(u)
               /\ job' = [job EXCEPT !.answer = s, !.source = IF job.provider = "muapi" THEN u ELSE "public"]
               /\ remote' = s /\ at' = "look"
               /\ UNCHANGED outcome
      <3>1. job' \in [provider: Provider, count: 1..MaxCount, variant: Variant, answer: Status,
                      source: Url, polls: 0..MaxPolls]
            /\ job'.variant = job.variant /\ job'.count = job.count /\ job'.source = "public"
        BY <1>1, <2>4 DEF JobsTypeOK, Public, Url
      <3>2. QED
        BY <1>1, <1>5, <2>1, <2>2, <2>4, <3>1, GoesOn DEF Post, JobsTypeOK, OnlyPublic
    <2>5. CASE Settle("failed") /\ UNCHANGED remote
      BY <1>1, <1>5, <2>1, <2>2, <2>5, Returns DEF Post, JobsTypeOK
    <2>6. QED
      BY <2>3, <2>4, <2>5
  <1>6. CASE Look
    <2>1. CASE Goto("download") /\ UNCHANGED <<job, fetched>>
      BY <1>1, <1>2, <1>3, <1>6, <2>1, GoesOn DEF Look, Goto, JobsTypeOK, OnlyPublic
    <2>2. CASE job.answer \notin Terminal(job.provider) /\ OutOfPolls /\ TimeOut
      BY <1>1, <1>2, <1>3, <1>6, <2>2, Returns DEF Look, TimeOut, OutOfPolls, JobsTypeOK
    <2>3. CASE ~OutOfPolls /\ Goto("poll") /\ UNCHANGED <<job, fetched>>
      <3>1. job.polls < MaxPolls
        BY <1>2, <2>3, JobsAssumption DEF OutOfPolls
      <3>2. QED
        BY <1>1, <1>2, <1>3, <1>6, <2>3, <3>1, GoesOn DEF Look, Goto, JobsTypeOK, OnlyPublic
    <2>4. QED
      BY <1>6, <2>1, <2>2, <2>3, FailStep DEF Look
  <1>7. CASE Poll
    <2>1. CASE /\ job' = [job EXCEPT !.answer = remote, !.polls = Polled]
               /\ fetched' = fetched \cup {job.source}
               /\ Goto("look")
      <3>1. job.polls < MaxPolls
        BY <1>1, <1>7 DEF Poll, BatchInv
      <3>2. Polled \in 0..MaxPolls
        BY <1>2, <3>1, JobsAssumption DEF Polled
      <3>3. job' \in [provider: Provider, count: 1..MaxCount, variant: Variant, answer: Status,
                      source: Url, polls: 0..MaxPolls]
            /\ job'.variant = job.variant /\ job'.count = job.count /\ job'.source = job.source
        BY <1>1, <2>1, <3>2 DEF JobsTypeOK
      <3>4. QED
        BY <1>1, <1>2, <1>3, <1>7, <2>1, <3>3, GoesOn DEF Poll, Goto, JobsTypeOK, OnlyPublic
    <2>2. QED
      BY <1>7, <2>1, FailStep DEF Poll, PollFailed
  <1>8. CASE Download
    <2>1. ASSUME NEW u \in Url, Public(u), fetched' = fetched \cup {u}, Goto("open"), UNCHANGED job
          PROVE  StepSound
      BY <1>1, <1>2, <1>3, <1>8, <2>1, GoesOn DEF Download, Goto, JobsTypeOK, OnlyPublic, Public
    <2>2. QED
      BY <1>8, <2>1, FailStep DEF Download
  <1>9. CASE OpenImage
    <2>1. CASE /\ image' = [image EXCEPT ![job.variant] = [by |-> batches, whole |-> FALSE]]
               /\ at' = "save"
               /\ UNCHANGED <<batches, job, remote, posts, fetched, outcome>>
      <3>1. /\ image' \in [Variant -> [by: 0..MaxBatches, whole: BOOLEAN]]
            /\ image'[job.variant] = [by |-> batches, whole |-> FALSE]
            /\ \A v \in Variant \ {job.variant} : image'[v] = image[v]
        BY <1>1, <1>2, <2>1 DEF JobsTypeOK
      <3>2. QED
        BY <1>1, <1>2, <1>3, <1>9, <2>1, <3>1, GoesOn DEF OpenImage, JobsTypeOK, OnlyPublic
    <2>2. QED
      BY <1>9, <2>1, FailStep DEF OpenImage
  <1>10. CASE SaveImage
    <2>1. CASE /\ image' = [image EXCEPT ![job.variant].whole = TRUE]
               /\ Settle("saved")
               /\ UNCHANGED <<batches, remote, posts, fetched>>
      <3>1. image[job.variant] = [by |-> batches, whole |-> FALSE]
        BY <1>1, <1>10 DEF SaveImage, BatchInv
      <3>2. [image[job.variant] EXCEPT !.whole = TRUE] = [by |-> batches, whole |-> TRUE]
        BY <3>1, Written
      <3>3. image' = [image EXCEPT ![job.variant] = [by |-> batches, whole |-> TRUE]]
        BY <1>1, <1>2, <2>1, <3>2 DEF JobsTypeOK
      <3>4. /\ image' \in [Variant -> [by: 0..MaxBatches, whole: BOOLEAN]]
            /\ image'[job.variant] = [by |-> batches, whole |-> TRUE]
            /\ \A v \in Variant \ {job.variant} : image'[v] = image[v]
        BY <1>1, <1>2, <3>3 DEF JobsTypeOK
      <3>5. QED
        BY <1>1, <1>2, <1>3, <1>10, <2>1, <3>4, Returns DEF SaveImage, JobsTypeOK
    <2>2. QED
      BY <1>10, <2>1, FailStep DEF SaveImage, Unsaved
  <1>11. QED
    BY <1>4, <1>5, <1>6, <1>7, <1>8, <1>9, <1>10 DEF BatchStep

LEMMA JobsStep == JobsInv /\ [JobsNext]_jobsVars => JobsInv' /\ (UNCHANGED jobsVars \/ StepSound)
  <1> SUFFICES ASSUME JobsInv, [JobsNext]_jobsVars
               PROVE  JobsInv' /\ (UNCHANGED jobsVars \/ StepSound)
    OBVIOUS
  <1>0. JobsTypeOK /\ OnePost /\ SavedIsThere /\ OnlyPublic /\ BatchInv
    BY DEF JobsInv, Promised
  <1>1. CASE UNCHANGED jobsVars
    BY <1>0, <1>1 DEF JobsInv, Promised, JobsTypeOK, OnePost, SavedIsThere, OnlyPublic, BatchInv,
       Variants, Settled, jobsVars
  <1>2. ASSUME NEW p \in Provider, NEW n \in 1..MaxCount, StartBatch(p, n) PROVE StepSound
    <2>1. 1 \in Variant /\ batches + 1 \in 0..MaxBatches
      BY <1>0, <1>2, JobsAssumption DEF Variant, StartBatch, JobsTypeOK
    <2>2. JobsTypeOK'
      BY <1>0, <1>2, <2>1, JobsAssumption DEF StartBatch, JobsTypeOK, Job, Status, Url, Untried
    <2>3. job'.variant = 1 /\ job'.count = n /\ job'.source = "public"
      BY <1>2 DEF StartBatch, Job
    <2>4. 1 <= Variants'
      BY <2>3, JobsAssumption DEF Variants
    <2>5. \A v \in Variant : outcome'[v] = "untried" /\ posts'[v] = 0 /\ ~(v < 1)
      BY <1>2, JobsAssumption DEF StartBatch, Untried, Variant
    <2>6. JobsInv'
      BY <1>2, <2>1, <2>2, <2>3, <2>4, <2>5 DEF StartBatch, JobsInv, Promised, OnePost, SavedIsThere, OnlyPublic,
         BatchInv, Settled
    <2>7. QED
      BY <1>2, <2>5, <2>6 DEF StepSound, StartBatch
  <1>3. CASE Progress
    BY <1>0, <1>3 DEF Progress, StepSound, JobsInv, Promised, JobsTypeOK, OnePost, SavedIsThere, OnlyPublic,
       BatchInv, Variants, Settled
  <1>4. CASE KillBatch
    <2>1. NoJob \in [provider: Provider, count: 1..MaxCount, variant: Variant, answer: Status,
                     source: Url, polls: 0..MaxPolls]
      BY JobsAssumption DEF NoJob, Job, Provider, Variant, Status, Url
    <2>2. \A v \in Variant : outcome'[v] = "untried"
      BY <1>4 DEF KillBatch, Untried
    <2>3. JobsTypeOK'
      BY <1>0, <1>4, <2>1 DEF KillBatch, JobsTypeOK, Untried
    <2>4. QED
      BY <1>0, <1>4, <2>2, <2>3 DEF KillBatch, StepSound, JobsInv, Promised, OnePost, SavedIsThere, OnlyPublic,
         BatchInv
  <1>5. QED
    BY <1>1, <1>2, <1>3, <1>4, BatchStepSound DEF JobsNext, StepSound

\* A batch pays at most once for each variant, returns a path only to a whole image
\* of its own, requests checked URLs only, times out only after the last poll, and
\* has tried every variant when it ends, for any number of styles, polls and runs.
THEOREM JobsAlwaysSound == JobsSpec => JobsSound
  <1>1. JobsInv => Promised
    BY DEF JobsInv
  <1>2. JobsInv /\ [JobsNext]_jobsVars =>
          [\A v \in Variant : outcome'[v] = "timeout" /\ outcome[v] # "timeout" =>
             /\ job.polls = MaxPolls
             /\ job.answer \notin Terminal(job.provider)]_jobsVars
    BY JobsStep DEF StepSound
  <1>3. JobsInv /\ [JobsNext]_jobsVars =>
          [at # "idle" /\ at' = "idle" /\ outcome' # Untried =>
             \A v \in Variant : outcome'[v] # "untried" <=> v <= job.count]_jobsVars
    BY JobsStep DEF StepSound
  <1>4. JobsInv /\ [JobsNext]_jobsVars => JobsInv'
    BY JobsStep
  <1>5. QED
    BY <1>1, <1>2, <1>3, <1>4, JobsStart, PTL
       DEF JobsSpec, JobsSound, TimeOutIsLast, AllTried, Promised
=============================================================================
