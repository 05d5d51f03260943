----------------------------- MODULE SlideAdvice -----------------------------
(***************************************************************************)
(* Advice on the slides of a deck (slide_search_core.py), and the colors   *)
(* laid over their backgrounds (fetch-background.py).  An agent walks      *)
(* through a deck and asks about each slide in turn.                       *)
(***************************************************************************)
EXTENDS Naturals, FiniteSets

CONSTANTS
  Totals,  \* bound: lengths of decks
  Goal,    \* goals that are inferred from a query
  Layouts  \* bound: the layout tables, [goal -> row]; a row is [emotion, image]

Emotion == {"hope", "urgency", "fear", "curiosity", "frustration", "relief", "clarity"}
Strong == {"hope", "urgency", "fear", "curiosity"}
LayoutRow == [emotion: Emotion, image: BOOLEAN]
\* What is said of a query's words.
GoalWord == {"problem", "solution", "cta", "hook", "traction"}

ASSUME AdviceAssumption ==
  /\ Totals \subseteq Nat \ {0} /\ "features" \in Goal /\ GoalWord \subseteq Goal
  /\ \A t \in Layouts : DOMAIN t \subseteq Goal /\ \A g \in DOMAIN t : t[g] \in LayoutRow

-----------------------------------------------------------------------------
(* Advice on one slide                                                     *)

\* search_with_context: the first of these words decides; other queries have the
\* goal that detect_domain gives, which no layout is listed under.
InferredGoal(words) ==
  CASE "problem" \in words -> "problem"
    [] "problem" \notin words /\ "solution" \in words -> "solution"
    [] words \cap {"problem", "solution"} = {} /\ "cta" \in words -> "cta"
    [] words \cap {"problem", "solution", "cta"} = {} /\ "hook" \in words -> "hook"
    [] words = {"traction"} -> "traction"
    [] OTHER -> "features"

\* get_layout_for_goal falls back to the row of "features"; without that there is no
\* layout, and the emotion is clarity.
LayoutFor(layouts, goal) ==
  IF goal \in DOMAIN layouts THEN layouts[goal]
  ELSE IF "features" \in DOMAIN layouts THEN layouts["features"]
  ELSE [emotion |-> "clarity", image |-> FALSE]

Part_Quarter(total) == total \div 4   \* mutant: quarters
Part(total) == total \div 3

FullBleed(position, total, emotion) ==
  /\ emotion \in Strong
  /\ total >= 3
  /\ position \in {1, Part(total), 2 * Part(total), total - 1}

\* contrasting_emotions: what a slide after one of these would contrast with.
Contrasting(emotion) ==
  CASE emotion = "frustration" -> {"hope", "relief"}
    [] emotion = "hope" -> {"frustration", "fear"}
    [] emotion = "fear" -> {"hope", "relief"}
    [] OTHER -> {}

\* previous: the emotion of the slide before, "none" at the first.  That of the slide
\* itself is not asked for.
PatternBreak_Position(position, total, previous) ==   \* mutant: without the emotions
  total >= 5 /\ position \in {Part(total), 2 * Part(total)}
PatternBreak(position, total, previous) ==
  /\ total >= 5
  /\ \/ position \in {Part(total), 2 * Part(total)}
     \/ Contrasting(previous) # {}

-----------------------------------------------------------------------------
(* Overlays                                                                *)

\* What a design token may hold: a color, a reference to a color, to another
\* reference, to a group of tokens, to nothing; or it is missing.
Token == {"missing", "color", "toColor", "toReference", "toGroup", "toNothing"}
Role == {"primary", "secondary", "accent", "background"}

ResolveToken_Verbatim(token) ==   \* mutant: a reference that leads nowhere stays as it is
  CASE token = "missing" -> "none"
    [] token \in {"color", "toColor"} -> "color"
    [] token \in {"toReference", "toNothing"} -> "reference"
    [] token = "toGroup" -> "group"
\* resolve_token_reference follows one reference.
ResolveToken(token) ==
  CASE token \in {"missing", "toNothing"} -> "none"
    [] token \in {"color", "toColor"} -> "color"
    [] token = "toReference" -> "reference"
    [] token = "toGroup" -> "group"

\* load_brand_colors: semantic tokens if there is a primary and a secondary color
\* among them, else colors of the primitive palettes, else the built-in ones.
BrandColors(tokens) ==
  LET r == [x \in Role |-> ResolveToken(tokens[x])]
  IN IF "none" \in {r["primary"], r["secondary"]} THEN [x \in Role |-> "color"]
     ELSE [x \in Role |-> IF r[x] # "none" THEN r[x]
                          ELSE IF x = "accent" THEN r["primary"] ELSE "color"]

\* get_overlay_css prints the colors of a style with two more digits.
OverlayRoles(style) == CASE style = "gradient-brand" -> {"primary", "secondary"}
                         [] style = "gradient-accent" -> {"accent"}
                         [] style \in {"blur-dark", "desaturate-dark"} -> {}
                         [] OTHER -> {"background"}

-----------------------------------------------------------------------------
VARIABLES
  layoutTable,  \* slide-layout-logic.csv
  total,        \* slides of the deck, 0 before it is begun
  slide,        \* the slide asked about last
  bleeds,       \* slides that are to have a full-bleed background
  breaks,       \* slides that are to break the pattern
  emotions,     \* emotions[n]: of the n-th slide
  overlay       \* [style, tokens, colors] of the background asked for last

adviceVars == <<layoutTable, total, slide, bleeds, breaks, emotions, overlay>>

NoOverlay == [style |-> "none", tokens |-> [x \in Role |-> "missing"], colors |-> {}]
AdviceInit ==
  /\ layoutTable = [g \in {} |-> 0]
  /\ total = 0 /\ slide = 0 /\ bleeds = {} /\ breaks = {}
  /\ emotions = <<>> /\ overlay = NoOverlay

BeginDeck ==
  /\ total = 0 /\ overlay = NoOverlay
  /\ total' \in Totals /\ layoutTable' \in Layouts
  /\ UNCHANGED <<slide, bleeds, breaks, emotions, overlay>>

Previous == IF slide = 0 THEN "none" ELSE emotions[slide]

\* search_with_context for the next slide, with the emotion of the last.
AdviseSlide ==
  /\ slide < total
  /\ \E words \in {{w} : w \in GoalWord} \cup {{}, {"problem", "solution"}} :
       LET row == LayoutFor(layoutTable, InferredGoal(words))
           n == slide + 1
       IN /\ emotions' = [i \in 1..n |-> IF i = n THEN row.emotion ELSE emotions[i]]
          /\ bleeds' = IF FullBleed(n, total, row.emotion) THEN bleeds \cup {n} ELSE bleeds
          /\ breaks' = IF PatternBreak(n, total, Previous) THEN breaks \cup {n} ELSE breaks
  /\ slide' = slide + 1
  /\ UNCHANGED <<layoutTable, total, overlay>>

FetchBackground ==
  /\ total = 0 /\ overlay = NoOverlay
  /\ \E tokens \in [Role -> Token], style \in {"gradient-dark", "gradient-brand", "gradient-accent", "blur-dark"} :
       overlay' = [style |-> style, tokens |-> tokens,
                   colors |-> {BrandColors(tokens)[x] : x \in OverlayRoles(style)}]
  /\ UNCHANGED <<layoutTable, total, slide, bleeds, breaks, emotions>>

AdviceNext == BeginDeck \/ AdviseSlide \/ FetchBackground
AdviceSpec == AdviceInit /\ [][AdviceNext]_adviceVars

-----------------------------------------------------------------------------
(* Properties                                                              *)

\* Full-bleed slides have strong emotions and are at most four, never the last.
\* "Never consecutive full-bleed" (should_use_full_bleed) fails only in decks of three
\* to eight slides, at the second or before the last but one; a deck of strong emotions
\* only has neighbours if it has so few, and else four of them, though "Premium
\* decks use 2-3".
FullBleedApart ==
  /\ \A n \in bleeds : emotions[n] \in Strong /\ n < total
  /\ Cardinality(bleeds) <= 4
  /\ \A n \in bleeds : n + 1 \in bleeds => total \in 3..8 /\ n \in {1, total - 2}
  /\ slide = total /\ total >= 3 /\ (\A n \in 1..total : emotions[n] \in Strong) =>
       IF total <= 8 THEN {1, 2} \subseteq bleeds ELSE Cardinality(bleeds) = 4

\* A deck of five slides and more breaks its pattern at each switch to a contrasting
\* emotion ("Break when switching between frustration and hope",
\* calculate_pattern_break), and before the last slide though it be calm.  It breaks
\* at no other place but the thirds and, beyond what that comment says, after
\* every frustration, hope or fear, which may go on.
ContrastBreaks ==
  total >= 5 /\ slide = total =>
    /\ \A n \in 2..total : emotions[n] \in Contrasting(emotions[n - 1]) => n \in breaks
    /\ \E n \in breaks : n < total
    /\ \A n \in breaks : \/ n \in {total \div 3, 2 * (total \div 3)}
                         \/ n > 1 /\ emotions[n - 1] \in {"frustration", "hope", "fear"}

\* The colors of an overlay are colors unless a token it needs leads to a reference
\* or to a group: what is missing or leads to nothing is made up for ("Resolves
\* semantic token references to actual hex values", load_brand_colors).
OverlayIsColor ==
  overlay.colors # {} =>
    (overlay.colors # {"color"} => \E x \in Role : overlay.tokens[x] \in {"toReference", "toGroup"})
=============================================================================
