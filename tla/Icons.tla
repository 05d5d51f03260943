-------------------------------- MODULE Icons --------------------------------
(***************************************************************************)
(* icon/generate.py: SVG icons from a text model, one, a batch from one     *)
(* answer, or one prompt in several sizes.                                 *)
(***************************************************************************)
EXTENDS Naturals, FiniteSets, Sequences, SequencesExt

CONSTANTS
  MaxAnswer,  \* bound: blocks in an answer
  MaxIcons,   \* bound: --batch, number of --sizes
  Drawn       \* the SVGs the model draws

-----------------------------------------------------------------------------
(* What is done to an SVG                                                  *)

\* An SVG by the attributes the tool touches: width and height of the <svg>, of its
\* child elements, as <rect>, and the width of its strokes; 0 is an absent attribute.
\* twice: the <svg> has two heights, which is not XML.
Svg == [width: {0, 24, 512}, height: {0, 24, 512}, child: {0, 6, 24, 512}, stroke: {0, 2, 24, 512},
        twice: BOOLEAN, paint: SUBSET {"currentColor", "other"}, accent: BOOLEAN]

ASSUME IconsAssumption ==
  MaxIcons \in Nat \ {0} /\ MaxAnswer \in Nat /\ Drawn \subseteq {s \in Svg : ~s.twice}

\* A block of an answer: how it is fenced and what is in it.  "wrapped": an <svg>
\* after something else.
Block == [fence: {"svg", "xml", "none"}, holds: {"svg", "wrapped", "prose"}]

Fenced(text, fence) == {i \in DOMAIN text : text[i].fence = fence}
HasSvg(b) == b.holds # "prose"

\* ```svg blocks; failing that ```xml blocks; failing that bare tags.  Blocks
\* without an <svg> are dropped.  The blocks by their places in the answer.
ExtractSvgs(text) ==
  {i \in IF Fenced(text, "svg") # {} THEN Fenced(text, "svg")
         ELSE IF Fenced(text, "xml") # {} THEN Fenced(text, "xml")
         ELSE DOMAIN text : HasSvg(text[i])}

ApplyColor_Added(svg, color) ==   \* mutant: the accent besides currentColor
  IF ~color THEN svg ELSE [svg EXCEPT !.accent = TRUE]
ApplyColor(svg, color) ==
  IF ~color THEN svg
  ELSE [svg EXCEPT !.accent = TRUE, !.paint = @ \ {"currentColor"}]

ApplyViewboxSize_Absent(svg, size) ==   \* mutant: sizes what has a size only
  IF size = 0 THEN svg
  ELSE [svg EXCEPT !.width = IF @ = 0 THEN 0 ELSE size, !.height = IF @ = 0 THEN 0 ELSE size,
                   !.child = IF @ = 0 THEN 0 ELSE size, !.stroke = IF @ = 0 THEN 0 ELSE size]
\* width="..." is found in the whole text: in child elements, and as the end of
\* stroke-width="...".  Only a text without any gets a width and a height.
ApplyViewboxSize(svg, size) ==
  LET Sub(n) == IF n = 0 THEN 0 ELSE size
      sized == [svg EXCEPT !.width = Sub(@), !.height = Sub(@), !.child = Sub(@), !.stroke = Sub(@)]
  IN IF size = 0 THEN svg
     ELSE IF svg.width = 0 /\ svg.child = 0 /\ svg.stroke = 0
          THEN [sized EXCEPT !.width = size, !.height = size, !.twice = svg.height # 0]
     ELSE sized
-----------------------------------------------------------------------------
VARIABLES
  iconStage,  \* what the tool is about to do
  iconArgs,   \* its arguments
  turn,       \* the icon it is at
  found,      \* how many SVGs of the answer are still to be saved
  icon,       \* icon[k]: the k-th file, if this run has opened it
  returned    \* the files it reports

iconVars == <<iconStage, iconArgs, turn, found, icon, returned>>

\* one: generate_icon; batch: several from one answer; sizes: one call for each.
IconArgs == [mode: {"one", "batch", "sizes"}, count: 1..MaxIcons, color: BOOLEAN]
Pixels(a, k) == IF a.mode = "sizes" THEN <<512, 24>>[1 + (k % 2)] ELSE 24
NoIcon == [drawn |-> CHOOSE s \in Svg : TRUE, svg |-> CHOOSE s \in Svg : TRUE, whole |-> FALSE]

IconsInit ==
  /\ iconStage = "idle" /\ turn = 1 /\ found = 0 /\ returned = {}
  /\ iconArgs = [mode |-> "one", count |-> 1, color |-> FALSE]
  /\ icon = [k \in 1..MaxIcons |-> NoIcon]

\* bound: one run
StartIcons ==
  /\ iconStage = "idle" /\ iconStage' = "ask"
  /\ iconArgs' \in {a \in IconArgs : a.mode = "one" => a.count = 1}
  /\ UNCHANGED <<turn, found, icon, returned>>

\* generate_icon returned: the next size, or the end.
NextIcon ==
  IF iconArgs.mode = "sizes" /\ turn < iconArgs.count
  THEN iconStage' = "ask" /\ turn' = turn + 1 ELSE iconStage' = "ended" /\ UNCHANGED turn

\* generate_batch returns [], generate_icon None: what was returned before stays.
NoResult ==
  /\ NextIcon
  /\ returned' = IF iconArgs.mode = "batch" THEN {} ELSE returned
  /\ found' = 0 /\ UNCHANGED <<iconArgs, icon>>

\* The answer, if there is one, and its SVGs; a batch takes at most count.
AskModel ==
  /\ iconStage = "ask"
  /\ \/ NoResult
     \/ \E text \in BoundedSeq(Block, MaxAnswer) :
          LET n == Cardinality(ExtractSvgs(text))
          IN \/ n = 0 /\ NoResult
             \/ /\ n > 0
                /\ found' = IF iconArgs.mode # "batch" THEN 1
                            ELSE IF n < iconArgs.count THEN n ELSE iconArgs.count
                /\ iconStage' = "save"
                /\ UNCHANGED <<iconArgs, turn, icon, returned>>

\* generate_batch does not size its icons.
Finished(svg) ==
  LET colored == ApplyColor(svg, iconArgs.color)
  IN IF iconArgs.mode = "batch" THEN colored
     ELSE ApplyViewboxSize(colored, Pixels(iconArgs, turn))

\* The file is emptied, then written; either may fail.
SaveIcon ==
  /\ iconStage = "save"
  /\ \E svg \in Drawn, whole \in BOOLEAN :
       /\ icon' = [icon EXCEPT ![turn] = [drawn |-> svg, svg |-> Finished(svg), whole |-> whole]]
       /\ \/ /\ whole /\ found = 1
             /\ returned' = returned \cup {turn}
             /\ found' = 0 /\ NextIcon
          \/ /\ whole /\ found > 1
             /\ returned' = returned \cup {turn}
             /\ found' = found - 1 /\ turn' = turn + 1 /\ UNCHANGED iconStage
          \/ /\ ~whole
             /\ NextIcon /\ found' = 0
             /\ returned' = IF iconArgs.mode = "batch" THEN {} ELSE returned
  /\ UNCHANGED iconArgs

IconsNext == StartIcons \/ AskModel \/ SaveIcon
IconsSpec == IconsInit /\ [][IconsNext]_iconVars

-----------------------------------------------------------------------------
(* Properties                                                              *)

\* Every file the tool reports is there, whole, and free of currentColor if a color
\* was asked for; a batch reports its first files without a gap (generate_icon,
\* generate_batch, apply_color).
IconsReturned ==
  /\ \A k \in returned : icon[k].whole /\ (iconArgs.color => "currentColor" \notin icon[k].svg.paint)
  /\ iconStage = "ended" /\ iconArgs.mode = "batch" => \A k \in returned : 1..k \subseteq returned

\* "--size | Display size in px" (icon-design.md): a returned icon has the size it was
\* asked for exactly if it was drawn with a width, or without strokes and shapes
\* that have one; it still is the drawing, and XML, exactly if it has none of these
\* to be rewritten, or has them at that size, and no height alone (apply_viewbox_size).
SizedUnlessStroked ==
  \A k \in returned : iconArgs.mode # "batch" =>
    LET drawn == icon[k].drawn
        svg == icon[k].svg
        size == Pixels(iconArgs, k)
        plain == drawn.stroke = 0 /\ drawn.child = 0
    IN /\ svg.width = size <=> drawn.width # 0 \/ plain
       /\ svg.stroke = drawn.stroke /\ svg.child = drawn.child /\ ~svg.twice <=>
            /\ {drawn.stroke, drawn.child} \subseteq {0, size}
            /\ drawn.width # 0 \/ drawn.height = 0 \/ ~plain
=============================================================================
