-------------------------------- MODULE Decks --------------------------------
(***************************************************************************)
(* The design-system tools that write slide decks (generate-slide.py) and  *)
(* check them (html-token-validator.py, slide-token-validator.py).  The    *)
(* generator writes beside its own directory, the validator looks below    *)
(* the project it is started in.                                           *)
(***************************************************************************)
EXTENDS Naturals, FiniteSets, Sequences, SequencesExt

CONSTANTS
  Place,      \* directories with a marker of a project: package.json, .git, tokens
  Home,       \* the one the generator writes to, whatever the working directory
  DeckData,   \* bound: the JSON files, sequences of slides
  MaxMinute   \* bound: minutes that pass

SlideType == {"title", "problem", "solution", "metrics", "chart", "testimonial", "cta"}
\* A slide of the JSON file: its type, and where in it there is a text that reads
\* like a color, as "#100 fans": nowhere, away from inline styles, within 100
\* characters of one.
Slide == {s \in [type: SlideType \cup {"unknown"}, colorText: {"none", "plain", "styled"}] :
            s.type = "title" => s.colorText # "styled"}   \* it has no inline style

ASSUME DecksAssumption == Home \in Place /\ MaxMinute \in Nat /\ DeckData \subseteq Seq(Slide)

-----------------------------------------------------------------------------
(* The generator                                                           *)

\* A match of FORBIDDEN_PATTERNS: its pattern, whether it is of ALLOWED_RGBA_PATTERNS,
\* where it is.
Literal(kind, brand, where) == [kind |-> kind, brand |-> brand, where |-> where]

\* The markup of a slide brings literals of its own; &#9670; reads like a color.
OwnLiterals(type) ==
  CASE type = "solution" -> {Literal("hex", FALSE, "inline"), Literal("hex", FALSE, "text")}
    [] type = "cta" -> {Literal("rgba", TRUE, "inline")}
    [] OTHER -> {}

TextLiterals(s) ==
  CASE s.colorText = "plain" -> {Literal("hex", FALSE, "text")}
    [] s.colorText = "styled" -> {Literal("hex", FALSE, "inline")}
    [] OTHER -> {}

\* A slide of unknown type is left out with a warning.
SlideLiterals(s) == IF s.type = "unknown" THEN {} ELSE OwnLiterals(s.type) \cup TextLiterals(s)

\* generate_deck: the template imports the tokens and names colors by them only.
\* slides: what the page was made of.
GenerateDeck(slides) ==
  [tokens |-> TRUE, slides |-> slides, literals |-> UNION {SlideLiterals(s) : s \in Range(slides)}]

-----------------------------------------------------------------------------
(* The validator                                                           *)

Hardcoded_AnyRgba(l) ==   \* mutant: no allowance for brand colors
  l.where \in {"inline", "styleBlock"}
\* What validate_html reports of a match.  (Scripts, external images and fallbacks of
\* var() are let pass.)
Hardcoded(l) == l.where \in {"inline", "styleBlock"} /\ ~(l.kind = "rgba" /\ l.brand)

ValidateHtml(page) == page.tokens /\ ~\E l \in page.literals : Hardcoded(l)

\* Pages that somebody wrote by hand.
Page(tokens, literals) == [tokens |-> tokens, slides |-> <<>>, literals |-> literals]
HandMade ==
  { Page(FALSE, {}), Page(TRUE, {Literal("hex", FALSE, "styleBlock")}),
    Page(TRUE, {Literal("hex", FALSE, "script"), Literal("hex", FALSE, "external")}) }

-----------------------------------------------------------------------------
VARIABLES
  minute,    \* the clock, as strftime shows it
  deckFile,  \* deckFile[place, name]: a page, below assets/designs/slides of the place
  verdicts   \* the run of the validator that ended last

deckVars == <<minute, deckFile, verdicts>>

\* Decks are named after the minute; this is the name of a page of somebody else.
Index == <<"index", 0>>
NoVerdict == [place |-> Home, looked |-> {}, refused |-> {}, exit |-> 0, type |-> "none"]

DecksInit ==
  /\ minute = 0
  /\ deckFile = [f \in {} |-> Page(FALSE, {})]
  /\ verdicts = NoVerdict

Tick == minute < MaxMinute /\ minute' = minute + 1 /\ UNCHANGED <<deckFile, verdicts>>

Put(f, page) == deckFile' = [g \in DOMAIN deckFile \cup {f} |-> IF g = f THEN page ELSE deckFile[g]]

\* main --json without --output: a second deck of the same minute replaces the first.
WriteDeck(slides) ==
  /\ Put(<<Home, <<"deck", minute>>>>, GenerateDeck(slides))
  /\ UNCHANGED <<minute, verdicts>>

WritePage(place, page) ==
  /\ Put(<<place, Index>>, page)
  /\ UNCHANGED <<minute, verdicts>>

\* _find_project_root: DESIGN_SYSTEM_PROJECT_ROOT, or the first marked directory
\* above the working directory.
Root(place, override) == IF override = "none" THEN place ELSE override

\* validate_directory takes what is there; a directory that is missing has nothing.
Directory(place, type) ==
  IF type \in {"slides", "all"} THEN {f \in DOMAIN deckFile : f[1] = place} ELSE {}

ExitCode_Last(looked, refused) ==   \* mutant: the verdict on the file that comes last
  IF \E f \in refused : f[2] = Index \/ \A g \in looked : g[2] # Index /\ f[2][2] >= g[2][2] THEN 1 ELSE 0
\* print_summary: 1 if there is an error, in a type that has files.
ExitCode(looked, refused) == IF refused = {} THEN 0 ELSE 1

Validate(place, override, type) ==
  LET looked == Directory(Root(place, override), type)
      refused == {f \in looked : ~ValidateHtml(deckFile[f])}
  IN /\ verdicts' = [place |-> Root(place, override), looked |-> looked, refused |-> refused,
                     exit |-> ExitCode(looked, refused), type |-> type]
     /\ UNCHANGED <<minute, deckFile>>

\* The wrapper asks for --type slides unless it is given files.
SlideTokenValidator(place, override) == Validate(place, override, "slides")

DecksNext ==
  \/ Tick
  \/ \E slides \in DeckData : WriteDeck(slides)
  \/ \E place \in Place, page \in HandMade : WritePage(place, page)
  \/ \E place \in Place, override \in Place \cup {"none"} :
       \/ SlideTokenValidator(place, override)
       \/ \E type \in {"infographics", "all"} : Validate(place, override, type)

DecksSpec == DecksInit /\ [][DecksNext]_deckVars

-----------------------------------------------------------------------------
(* Properties                                                              *)

\* A generated deck is refused exactly for a solution slide, whose diamond entity
\* reads like a color, or for a text that reads like one near an inline style, never
\* for what its other markup brings, whichever decks it lies between ("ALL styles
\* MUST use CSS variables", generate-slide.py, against validate_html).
DeckRefused ==
  [][verdicts' # verdicts =>
       \A f \in verdicts'.looked : f[2] # Index =>
         (f \in verdicts'.refused <=>
            \E s \in Range(deckFile[f].slides) :
              s.type = "solution" \/ (s.colorText = "styled" /\ s.type # "unknown"))]_deckVars

\* The validator says 0 only if every page it looked at passes, and of the pages in
\* its project it left none out unless it was asked for another type (print_summary
\* and main; a project without pages passes).
ExitIsHonest ==
  [][verdicts' # verdicts /\ verdicts'.exit = 0 /\ verdicts'.type \in {"slides", "all"} =>
       \A f \in DOMAIN deckFile : f[1] = verdicts'.place => ValidateHtml(deckFile[f])]_deckVars
=============================================================================
