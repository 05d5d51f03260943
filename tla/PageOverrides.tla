---------------------------- MODULE PageOverrides ----------------------------
(***************************************************************************)
(* design_system.py: what the file of a page says that differs from the    *)
(* master document.  It is made of three searches, each of which may find  *)
(* nothing, and of the words of the page's name and of the query.          *)
(***************************************************************************)
EXTENDS Naturals, FiniteSets, FiniteSetsExt

CONSTANTS
  PageWord,  \* words of page names and queries
  Patterns,  \* number of page types that words decide
  Hits,      \* Hits[w]: the types that have a keyword in w
  Searches   \* bound: what the three searches find

\* A style row by its density, its effects and what it is best for; no row.
StyleHit == [found: BOOLEAN, density: {"dense", "minimal", "other"}, effects: BOOLEAN,
             bestFor: {"data", "marketing", "other"}]
\* A UX row by its advice, a landing row by what it says.
UxHit == [does: BOOLEAN, donts: BOOLEAN]
LandingHit == [found: BOOLEAN, sections: BOOLEAN, cta: BOOLEAN, color: BOOLEAN]

ASSUME OverridesAssumption ==
  /\ Patterns \in Nat /\ Hits \in [PageWord -> SUBSET (1..Patterns)]
  /\ Searches \subseteq [style: StyleHit, ux: UxHit, landing: LandingHit]

-----------------------------------------------------------------------------
PageType_Last(words, style) ==   \* mutant: later patterns overwrite earlier ones
  LET hits == UNION {Hits[w] : w \in words}
  IN IF hits # {} THEN Max(hits) ELSE Patterns + 3
\* _detect_page_type: the first pattern, else by the style, else general.
PageType(words, style) ==
  LET hits == UNION {Hits[w] : w \in words}
  IN CASE hits # {} -> Min(hits)
       [] hits = {} /\ style.found /\ style.bestFor = "data" -> Patterns + 1
       [] hits = {} /\ style.found /\ style.bestFor = "marketing" -> Patterns + 2
       [] OTHER -> Patterns + 3

Layout(style, landing) ==
  LET own == (IF ~style.found THEN {}
              ELSE {"width"} \cup (IF style.density = "dense" THEN {"grid"} ELSE {"columns"}))
        \cup (IF landing.found /\ landing.sections THEN {"sections"} ELSE {})
  IN IF own = {} THEN {"width", "columns"} ELSE own

Spacing(style) == IF style.found /\ style.density # "other" THEN {"density"} ELSE {}
Colors(landing) == IF landing.found /\ landing.color THEN {"strategy"} ELSE {}
Avoids(ux) == IF ux.donts THEN {"avoid"} ELSE {}

Recommendations_Bare(style, ux, landing) ==   \* mutant: no default
     (IF style.found /\ style.effects THEN {"effects"} ELSE {})
  \cup (IF ux.does THEN {"do"} ELSE {}) \cup (IF landing.found /\ landing.cta THEN {"cta"} ELSE {})
Recommendations(style, ux, landing) ==
  LET own == (IF style.found /\ style.effects THEN {"effects"} ELSE {})
        \cup (IF ux.does THEN {"do"} ELSE {}) \cup (IF landing.found /\ landing.cta THEN {"cta"} ELSE {})
  IN IF own = {} THEN {"see the master"} ELSE own

-----------------------------------------------------------------------------
VARIABLES
  words,      \* words of the page's name and of the query
  overrides,  \* what the page's file says
  history     \* <<words, type>> of the files made for the page

overrideVars == <<words, overrides, history>>

NoFile == [style |-> FALSE, layout |-> {}, spacing |-> {}, colors |-> {}, components |-> {}, recommendations |-> {}]
OverridesInit == words = {} /\ history = {} /\ overrides = NoFile

\* A page is generated, or generated again with more to say.
GeneratePage ==
  /\ Cardinality(history) < 2        \* bound: two files
  /\ \E more \in SUBSET PageWord : words' = words \cup more
  /\ \E found \in Searches :
       /\ history' = history \cup {<<words', PageType(words', found.style)>>}
       /\ overrides' =
            [style |-> found.style.found,
             layout |-> Layout(found.style, found.landing), spacing |-> Spacing(found.style),
             colors |-> Colors(found.landing), components |-> Avoids(found.ux),
             recommendations |-> Recommendations(found.style, found.ux, found.landing)]

OverridesNext == GeneratePage
OverridesSpec == OverridesInit /\ [][OverridesNext]_overrideVars

-----------------------------------------------------------------------------
(* Properties                                                              *)

\* Saying more about a page moves it to an earlier type or to none, and once its words
\* decide, no style that the search comes up with does (_detect_page_type).
TypeOnlyRises ==
  \A h, k \in history : h[1] \subseteq k[1] /\ h[2] <= Patterns => k[2] <= h[2]

\* Whatever the three searches miss, the file of a page has a layout and advice, and
\* without a style neither spacing nor a style's layout ("Add page-type specific
\* defaults if no search results", _generate_intelligent_overrides).
NeverEmpty ==
  history # {} =>
    /\ overrides.layout # {} /\ overrides.recommendations # {}
    /\ ~overrides.style => overrides.spacing = {} /\ "grid" \notin overrides.layout
=============================================================================
