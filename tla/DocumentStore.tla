---------------------------- MODULE DocumentStore ----------------------------
(***************************************************************************)
(* What persisted design documents promise (SKILL.md of ui-ux-pro-max,     *)
(* "Persist Design System"): a reader finds a document whole or not at all,*)
(* and only a run with --force replaces one.                               *)
(***************************************************************************)
CONSTANTS
  Path,      \* files of the design-system/ directory
  Document,  \* whole documents
  Forced,    \* the documents of runs with --force
  NoDoc      \* no file

VARIABLE document

StoreInit == document = [p \in Path |-> NoDoc]

Put(p, d) ==
  /\ document[p] = NoDoc \/ d \in Forced
  /\ document' = [document EXCEPT ![p] = d]

StoreNext == \E p \in Path, d \in Document : Put(p, d)
StoreSpec == StoreInit /\ [][StoreNext]_document
=============================================================================
