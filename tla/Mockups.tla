------------------------------- MODULE Mockups -------------------------------
(***************************************************************************)
(* cip/generate.py: corporate identity mockups of one brand, one or a set. *)
(* The logo file may be replaced, broken or removed while the tool runs.   *)
(***************************************************************************)
EXTENDS Naturals, Sequences, SequencesExt

CONSTANTS
  Wish,        \* deliverables as they are asked for
  CatalogRow,  \* CatalogRow[w]: the row of deliverables.csv the search finds for w
  DefaultSet   \* the five deliverables of a set without --deliverables

ASSUME MockupsAssumption == DOMAIN CatalogRow = Wish /\ DefaultSet \in Seq(Wish)

VARIABLES
  logoFile,  \* what is at --logo: "image", or "broken" when it does not load
  stage,     \* what the tool is about to do
  args,      \* its arguments
  logoHeld,  \* the logo image it holds, if any
  queue,     \* deliverables of the set still to generate
  second,    \* the clock, as strftime shows it
  mockup,    \* the files: <<name, image>>
  results    \* the results of the set, in order

mockupVars == <<logoFile, stage, args, logoHeld, queue, second, mockup, results>>

\* wishes = <<>>: --set without --deliverables.
Args == [logo: BOOLEAN, single: BOOLEAN, promptOnly: BOOLEAN,
         wishes: {<<>>} \cup {<<w>> : w \in Wish} \cup (Wish \X Wish)]

NoArgs == [logo |-> FALSE, single |-> FALSE, promptOnly |-> FALSE, wishes |-> <<>>]
MockupsInit ==
  /\ logoFile = "image" /\ stage = "idle" /\ args = NoArgs
  /\ logoHeld = FALSE /\ queue = <<>> /\ second = 0 /\ mockup = {} /\ results = <<>>

\* bound: one run
StartTool ==
  /\ stage = "idle" /\ stage' = "start"
  /\ args' \in {a \in Args : a.single => Len(a.wishes) = 1}
  /\ UNCHANGED <<logoFile, logoHeld, queue, second, mockup, results>>

ReplaceLogo ==
  /\ stage # "ended"
  /\ logoFile' \in {"image", "broken"} \ {logoFile}
  /\ UNCHANGED <<stage, args, logoHeld, queue, second, mockup, results>>

ToStage(s) == stage' = s /\ UNCHANGED <<logoFile, args, second, mockup, results>>

\* load_logo_image returns None for a missing file, a broken one, no Pillow.
LoadLogo ==
  /\ stage = "start" /\ args.logo
  /\ logoHeld' = (logoFile = "image")
  /\ ToStage(IF logoHeld' THEN "begin" ELSE "ended")
  /\ UNCHANGED queue

\* Without a logo the user is asked: go on, make a logo first, or leave.
CheckLogoRequired ==
  /\ stage = "start" /\ ~args.logo
  /\ \/ ToStage("begin")
     \/ ~args.promptOnly /\ ToStage("ended")
  /\ UNCHANGED <<logoHeld, queue>>

ShowPrompts ==
  /\ stage = "begin" /\ args.promptOnly
  /\ ToStage("ended") /\ UNCHANGED <<logoHeld, queue>>

\* generate_cip_set loads the logo again; if that fails it goes on without.
BeginSet ==
  /\ stage = "begin" /\ ~args.promptOnly /\ ~args.single
  /\ logoHeld' = (args.logo /\ logoFile = "image")
  /\ queue' = IF args.wishes = <<>> THEN DefaultSet ELSE args.wishes
  /\ ToStage("generate")

BeginSingle ==
  /\ stage = "begin" /\ ~args.promptOnly /\ args.single
  /\ queue' = args.wishes
  /\ ToStage("generate") /\ UNCHANGED logoHeld

Prompt(w) == [deliverable |-> CatalogRow[w], useLogo |-> logoHeld]

Attached_Reloaded == args.logo /\ logoFile = "image"   \* mutant: loaded for each deliverable
\* The image that goes with the prompt.
Attached == logoHeld

FileName_Plain(p) == <<p.deliverable, 0>>   \* mutant: no timestamp
FileName(p) == <<p.deliverable, second>>

\* The model's answer takes at least a second.
Generate ==
  /\ stage = "generate" /\ queue # <<>>
  /\ second' = second + 1
  /\ \/ stage' = "save" /\ UNCHANGED queue
     \/ queue' = Tail(queue) /\ UNCHANGED stage     \* no image, or an exception
  /\ UNCHANGED <<logoFile, args, logoHeld, mockup, results>>

SaveMockup ==
  /\ stage = "save"
  /\ LET p == Prompt(Head(queue))
         shot == [of |-> Head(queue), prompt |-> p, logo |-> Attached]
     IN /\ mockup' = {m \in mockup : m[1] # FileName(p)} \cup {<<FileName(p), shot>>}
        /\ results' = Append(results, <<FileName(p), shot>>)
  /\ queue' = Tail(queue)
  /\ stage' = "generate"
  /\ UNCHANGED <<logoFile, args, logoHeld, second>>

SetDone ==
  /\ stage = "generate" /\ queue = <<>>
  /\ ToStage("ended") /\ UNCHANGED <<logoHeld, queue>>

MockupsNext ==
  \/ StartTool \/ ReplaceLogo \/ LoadLogo \/ CheckLogoRequired \/ ShowPrompts
  \/ BeginSet \/ BeginSingle \/ Generate \/ SaveMockup \/ SetDone

MockupsSpec == MockupsInit /\ [][MockupsNext]_mockupVars

-----------------------------------------------------------------------------
(* Properties                                                              *)

\* The mockups of one run show the logo all or none, and the prompt that says "use
\* the EXACT logo from the provided image" goes with an image, whatever becomes of
\* the file meanwhile (generate_cip_set, build_cip_prompt).
SetIsUniform ==
  \A i, j \in DOMAIN results :
    /\ results[i][2].logo = results[j][2].logo
    /\ results[i][2].logo = results[i][2].prompt.useLogo

\* Each reported mockup is in its file, though two wishes may find the same row of
\* the catalogue (the timestamp in generate_with_nano_banana).
MockupsKept == Range(results) \subseteq mockup
=============================================================================
