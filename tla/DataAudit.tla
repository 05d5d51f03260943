------------------------------ MODULE DataAudit ------------------------------
(***************************************************************************)
(* validate_data.py: the audit of the tables as it runs.  Each phase reads *)
(* what it needs again or takes what an earlier phase loaded, so that one  *)
(* fault may hide another, or end the audit with an exception.             *)
(***************************************************************************)
EXTENDS Naturals, FiniteSets

\* Tables; guidance stands for charts, ux-guidelines and motion, platform for
\* react-performance and app-interface, stack for all stacks.
DomainTable == {"style", "landing", "product", "color", "typography", "fonts", "icons", "guidance", "platform"}
AuditTable == DomainTable \cup {"stack", "reasoning"}
Catalog == {"licenses", "phosphor", "summary"}

\* What can be wrong: with a file, with the rows of a table, with a JSON file, with
\* what a JSON file says.  "array": JSON, but no object; "source": not the pinned
\* one; "metadata": counts, weights or lists without which the entries are not judged;
\* "uncatalogued": a font or icon in use that its catalog lacks.
Fault ==
       [of: AuditTable, what: {"missing", "unreadable", "columns", "duplicate", "contract"}]
  \cup [of: Catalog \cup {"provenance"}, what: {"missing", "encoding", "invalid", "array", "contract"}]
  \cup [of: {"licenses", "phosphor"}, what: {"source", "metadata"}]
  \cup [of: {"typography", "icons"}, what: {"uncatalogued"}]
  \cup [of: {"style", "reasoning"}, what: {"numbering"}]
  \cup [of: {"refresh"}, what: {"incomplete"}]

VARIABLES
  faults,    \* what is wrong with the data
  loaded,    \* tables whose rows the audit holds
  parsed,    \* catalogs it holds
  problems,  \* the faults it has reported
  auditAt    \* the phase it is in; "crashed"; "exit0", "exit1"

auditVars == <<faults, loaded, parsed, problems, auditAt>>

Has(of, what) == [of |-> of, what |-> what] \in faults
Unread(t) == Has(t, "missing") \/ Has(t, "unreadable")
\* No file, no JSON, no object of schema version 1; reported and gone on without.
Unparsed(j) == \E what \in {"missing", "invalid", "array"} : Has(j, what)

AuditInit ==
  /\ faults = {} /\ loaded = {} /\ parsed = {} /\ problems = {} /\ auditAt = "data"

\* bound: at most two faults
GiveData ==
  /\ auditAt = "data"
  /\ \E f, g \in Fault : faults' \in {{}, {f}, {f, g}}
  /\ auditAt' = "domains"
  /\ UNCHANGED <<loaded, parsed, problems>>

Crash == auditAt' = "crashed" /\ UNCHANGED <<faults, loaded, parsed, problems>>
ToPhase(p) == auditAt' = p /\ UNCHANGED faults
Tell(S) == problems' = problems \cup S

\* mutant: a missing table is skipped
FileProblems_Skipped(t) ==
  {f \in faults : f.of = t /\ ~Has(t, "missing") /\ (IF Unread(t) THEN f.what = "unreadable"
                                                      ELSE f.what \in {"columns", "duplicate"})}
\* _check_file
FileProblems(t) ==
  {f \in faults : f.of = t /\ (IF Has(t, "missing") THEN f.what = "missing"
                               ELSE IF Has(t, "unreadable") THEN f.what = "unreadable"
                               ELSE f.what \in {"columns", "duplicate"})}
Readable(T) == {t \in T : ~Unread(t)}

CheckDomains ==
  /\ auditAt = "domains"
  /\ loaded' = Readable(DomainTable)
  /\ Tell(UNION {FileProblems(t) : t \in DomainTable})
  /\ ToPhase("stacks") /\ UNCHANGED parsed

\* mutant: contracts only of data without problems so far
RowProblems_First(T) == IF problems # {} THEN {} ELSE {f \in faults : f.of \in T /\ f.what = "contract"}
RowProblems(T) == {f \in faults : f.of \in T /\ f.what = "contract"}

\* A row may break a contract by a cell too few, which holds None, and a JSON file by
\* a value of another type: some of the checks raise an exception at it.
MayRaise(S) == S # {} /\ Crash

\* The rows of a stack are judged as soon as they are read.
CheckStacks ==
  /\ auditAt = "stacks"
  /\ \/ MayRaise(RowProblems(Readable({"stack"})))
     \/ /\ loaded' = loaded \cup Readable({"stack"})
        /\ Tell(FileProblems("stack") \cup RowProblems(Readable({"stack"})))
        /\ ToPhase("reasoning") /\ UNCHANGED parsed

CheckReasoning ==
  /\ auditAt = "reasoning"
  /\ loaded' = loaded \cup Readable({"reasoning"})
  /\ Tell(FileProblems("reasoning"))
  /\ ToPhase("contracts") /\ UNCHANGED parsed

\* The contracts of the tables, but for google-fonts.csv.
CheckContracts ==
  /\ auditAt = "contracts"
  /\ \/ MayRaise(RowProblems(loaded \ {"fonts"}))
     \/ /\ Tell(RowProblems(loaded \ {"fonts"}))
        /\ ToPhase("catalogs") /\ UNCHANGED <<loaded, parsed>>

\* The marker of an unfinished refresh, and the three JSON files.
\* What is not UTF-8 raises an exception that nobody catches.
LoadCatalogs ==
  /\ auditAt = "catalogs"
  /\ \/ (\E j \in Catalog : Has(j, "encoding") /\ ~Has(j, "missing")) /\ Crash
     \/ /\ \A j \in Catalog : Has(j, "encoding") => Has(j, "missing")
        /\ parsed' = {j \in Catalog : ~Unparsed(j)}
        /\ Tell({f \in faults : f.of \in Catalog \cup {"refresh"}
                   /\ \/ f.what \in {"missing", "incomplete"}
                      \/ f.what \in {"invalid", "array"} /\ ~Has(f.of, "missing")})
        /\ ToPhase("judge") /\ UNCHANGED loaded

SummaryNeeds_Loaded == {}   \* mutant: the rows that were loaded
\* Tables that _check_catalog_summary opens again.
SummaryNeeds == {"style", "product", "color", "reasoning", "typography", "fonts", "icons", "guidance", "stack"}

\* It digests the two JSON files as well.
SummaryCrashes == (\E t \in SummaryNeeds : Unread(t)) \/ \E j \in Catalog : Has(j, "missing")

\* _check_font_catalog, if the licenses were loaded: the rows of google-fonts.csv;
\* the entries and what pairings import only if the counts fit the rows.
FontProblems ==
  LET counted == ~Has("licenses", "metadata") /\ "fonts" \in loaded
  IN {f \in faults : /\ "licenses" \in parsed
                     /\ \/ f.of = "fonts" /\ f.what = "contract" /\ "fonts" \in loaded
                        \/ f.of = "licenses" /\ f.what \in {"source", "metadata"}
                        \/ f.of = "licenses" /\ f.what = "contract" /\ counted
                        \/ f.of = "typography" /\ f.what = "uncatalogued" /\ counted /\ "typography" \in loaded}

\* _check_phosphor_catalog, if the catalog of icons was loaded.
PhosphorProblems ==
  {f \in faults : /\ "phosphor" \in parsed
                  /\ \/ f.of = "phosphor" /\ f.what \in {"source", "metadata"}
                     \/ f.of = "phosphor" /\ f.what = "contract" /\ ~Has("phosphor", "metadata")
                     \/ f.of = "icons" /\ f.what = "uncatalogued" /\ ~Has("phosphor", "metadata") /\ "icons" \in loaded}

SummaryProblems == {f \in faults : "summary" \in parsed /\ f.of = "summary" /\ f.what = "contract"}

JudgeCatalogs ==
  /\ auditAt = "judge"
  /\ \/ MayRaise(FontProblems \cup PhosphorProblems)
     \/ /\ "summary" \in parsed /\ SummaryCrashes
        /\ Crash
     \/ /\ "summary" \notin parsed \/ ~SummaryCrashes
        /\ Tell(FontProblems \cup PhosphorProblems \cup SummaryProblems)
        /\ ToPhase("provenance") /\ UNCHANGED <<loaded, parsed>>

\* int(row["No"]) of the loaded reasoning rows and styles comes last.
BadNumber == \E t \in {"style", "reasoning"} \cap loaded : Has(t, "numbering")
\* row["Style ID"] of a table that lacks the column, or another one.
LacksColumn == \E t \in {"style", "reasoning"} \cap loaded : Has(t, "columns")
NotText == Has("provenance", "encoding") /\ ~Has("provenance", "missing")
\* A record on the catalog of icons asks an array for its iconCount.
CountsArray == Has("phosphor", "array") /\ ~Has("phosphor", "missing")
UnparsedProblems ==
  {f \in faults : f.of = "provenance" /\ (IF Has("provenance", "missing") THEN f.what = "missing"
                                          ELSE f.what \in {"invalid", "array"})}

CheckProvenance ==
  /\ auditAt = "provenance"
  /\ \/ /\ ~NotText /\ Unparsed("provenance")
        /\ Tell(UnparsedProblems)
        /\ ToPhase("report") /\ UNCHANGED <<loaded, parsed>>
     \/ (NotText \/ (~Unparsed("provenance") /\ (BadNumber \/ LacksColumn \/ CountsArray))) /\ Crash
     \/ ~Unparsed("provenance") /\ MayRaise({f \in faults : f.of = "provenance"})
     \/ /\ ~NotText /\ ~Unparsed("provenance") /\ ~BadNumber
        /\ Tell({f \in faults : f.of = "provenance"})
        /\ ToPhase("report") /\ UNCHANGED <<loaded, parsed>>

Exit ==
  /\ auditAt = "report"
  /\ auditAt' = IF problems = {} THEN "exit0" ELSE "exit1"
  /\ UNCHANGED <<faults, loaded, parsed, problems>>

AuditNext ==
  \/ GiveData \/ CheckDomains \/ CheckStacks \/ CheckReasoning \/ CheckContracts
  \/ LoadCatalogs \/ JudgeCatalogs \/ CheckProvenance \/ Exit
AuditSpec == AuditInit /\ [][AuditNext]_auditVars

-----------------------------------------------------------------------------
(* Properties                                                              *)

\* Whatever hides what, the audit accepts data only if nothing is wrong with them, and
\* refuses none that nothing is wrong with (validate, main).
AcceptsOnlySound == /\ auditAt = "exit0" => faults = {}
                    /\ auditAt \in {"exit1", "crashed"} => faults # {}

\* Reports that explain why another fault is not in the report.
Shadows(f) ==
  {g \in Fault :
     \/ g.of = f.of /\ g.what \in {"missing", "unreadable", "invalid", "array", "metadata"}
     \/ /\ f.what \in {"contract", "uncatalogued"} /\ f.of \in {"fonts", "typography"}
        /\ g.of = "licenses" /\ g.what \in {"missing", "invalid", "array"}
     \/ f.what = "uncatalogued" /\ f.of = "typography" /\ g.of = "licenses" /\ g.what = "metadata"
     \/ /\ f.what = "uncatalogued" /\ f.of = "icons"
        /\ g.of = "phosphor" /\ g.what \in {"missing", "invalid", "array", "metadata"}
     \/ /\ f.of = "licenses" \/ (f.of = "typography" /\ f.what = "uncatalogued")
        /\ g.of = "fonts" /\ g.what \in {"missing", "unreadable"}
     \/ f.what = "numbering" /\ g.of = "provenance" /\ g.what \in {"missing", "invalid", "array"}}

\* A fault that a finished audit does not report is in a file that another report is
\* about, or one of the fonts, icons and number columns that are judged against a
\* JSON file, or the other way round: nothing else hides a fault ("Return every
\* semantic data problem", validate; the early returns of _check_font_catalog,
\* _check_phosphor_catalog and _check_provenance).
HidesOnlyItsOwn == auditAt = "exit1" => \A f \in faults \ problems : Shadows(f) \cap problems # {}

\* The audit of data with one file missing or unreadable, and no other fault, ends in
\* an exception that nobody catches, and without its report, exactly if the summary
\* of the catalogs counts or digests that file, though the report already names it
\* ("without terminating the process", validate; _check_catalog_summary).
LosesReport ==
  \A f \in faults : faults = {f} /\ f.what \in {"missing", "unreadable"} /\ auditAt \in {"exit1", "crashed"} =>
    /\ f \in problems
    /\ auditAt = "crashed" <=> f.of \notin {"landing", "platform", "summary", "provenance"}
=============================================================================
