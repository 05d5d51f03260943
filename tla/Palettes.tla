------------------------------ MODULE Palettes ------------------------------
(***************************************************************************)
(* ui-ux-pro-max: the palette of a design (design_system.py) and the audit *)
(* that every palette of colors.csv passes (validate_data.py).  A color is *)
(* its relative luminance in thousandths.                                  *)
(***************************************************************************)
EXTENDS Naturals, Sequences, FiniteSetsExt

CONSTANTS
  Luminance,  \* bound: the luminances of colors in the tables
  Product,    \* product types
  NoProduct,  \* what the fallback is made for
  NoColor,    \* a cell that is not #RRGGBB
  Palettes    \* the palettes the instances draw from

-----------------------------------------------------------------------------
(* Contrast                                                                *)

Lighter(a, b) == IF a > b THEN a ELSE b
Darker(a, b) == IF a > b THEN b ELSE a

\* contrast_ratio(a, b) >= tenths / 10
Contrast(a, b, tenths) ==
  /\ NoColor \notin {a, b}
  /\ 10 * (Lighter(a, b) + 50) >= tenths * (Darker(a, b) + 50)

\* contrast_ratio(a, b) <= contrast_ratio(c, d)
NoMoreContrast(a, b, c, d) ==
  (Lighter(a, b) + 50) * (Darker(c, d) + 50) <= (Lighter(c, d) + 50) * (Darker(a, b) + 50)

\* COLOR_CONTRAST_PAIRS; secondary and destructive fare like primary.
ContrastPairs ==
  { <<"onPrimary", "primary", 45>>, <<"onAccent", "accent", 45>>,
    <<"foreground", "background", 45>>, <<"cardForeground", "card", 45>>,
    <<"mutedForeground", "muted", 45>>, <<"ring", "background", 30>> }

ColorField == {"primary", "onPrimary", "accent", "onAccent", "background", "foreground",
               "card", "cardForeground", "muted", "mutedForeground", "border", "ring"}
Palette == [product: Product, color: [ColorField -> Luminance \cup {NoColor}]]
ASSUME PalettesAssumption ==
  /\ Palettes \subseteq Palette /\ Luminance \subseteq Nat /\ NoColor \notin Nat
  /\ NoProduct \notin Product

\* _check_color_contract
ColorAudit(p) ==
  LET c == p.color
  IN /\ \A pair \in ContrastPairs : Contrast(c[pair[1]], c[pair[2]], pair[3])
     /\ NoMoreContrast(c.mutedForeground, c.muted, c.foreground, c.background)

-----------------------------------------------------------------------------
(* The palette of a mode                                                   *)

IsDark(p) == p.color.background # NoColor /\ p.color.background < 180

\* #0F172A, and #60A5FA for want of a ring that stands out from it.
DarkBackground == 9
DarkRing_Own(c) == c.ring   \* mutant: the palette's own ring
DarkRing(c) ==
  LET candidates == <<c.ring, c.accent, c.primary>>
      visible == {i \in 1..3 : Contrast(candidates[i], DarkBackground, 30)}
  IN IF visible = {} THEN 363 ELSE candidates[Min(visible)]

DeriveDark(p) ==
  [p EXCEPT !.color = [@ EXCEPT
     !.background = DarkBackground, !.foreground = 954, !.card = 9, !.cardForeground = 954,
     !.muted = 22, !.mutedForeground = 657, !.border = 51, !.ring = DarkRing(p.color)]]

Dark(ps) == {i \in DOMAIN ps : IsDark(ps[i])}
OfProduct(ps, category) == {i \in DOMAIN ps : ps[i].product = category}
First(ps, places) == ps[Min(places)]

\* #2563EB, #F97316, #F8FAFC and #1E293B, which generate() puts in where it has no
\* palette; without on-colors, cards or a ring.
Fallback ==
  [product |-> NoProduct,
   color |-> [f \in ColorField |-> CASE f = "primary" -> 153 [] f = "accent" -> 325
                                     [] f = "background" -> 954 [] f = "foreground" -> 22
                                     [] OTHER -> NoColor]]

SelectPalette_Dark(ps, mode, category) ==   \* mutant: dark palettes before the category's own
  IF ps = <<>> THEN Fallback
  ELSE IF mode = "dark" /\ Dark(ps) # {} THEN First(ps, Dark(ps))
  ELSE IF OfProduct(ps, category) # {} THEN First(ps, OfProduct(ps, category)) ELSE ps[1]
\* _select_palette_for_mode, which of no search results selects nothing, and generate().
SelectPalette(ps, mode, category) ==
  LET places == OfProduct(ps, category)
      own == First(ps, places)
  IN IF ps = <<>> THEN Fallback
     ELSE IF places # {} THEN IF mode = "dark" /\ ~IsDark(own) THEN DeriveDark(own) ELSE own
     ELSE IF mode = "dark" /\ Dark(ps) # {} THEN First(ps, Dark(ps)) ELSE ps[1]

AntiPattern == {"no dark mode", "no dark palette", "no autoplay"}
\* _filter_anti_patterns_for_mode: clauses that say "dark mode" or "dark theme".
AntiPatternsFor(clauses, mode) == IF mode = "dark" THEN clauses \ {"no dark mode"} ELSE clauses

-----------------------------------------------------------------------------
VARIABLES
  ranked,      \* the palettes the color search found, best first
  request,     \* the mode, the category and the anti-patterns of the design
  palette,     \* what the design gets
  paletteStep  \* "search", "select", "done"

paletteVars == <<ranked, request, palette, paletteStep>>

PalettesInit ==
  /\ ranked = <<>> /\ palette = CHOOSE p \in Palettes : TRUE
  /\ request = [mode |-> "light", category |-> CHOOSE p \in Product : TRUE, avoid |-> {}]
  /\ paletteStep = "idle"

RequestPalette ==
  /\ paletteStep = "idle" /\ paletteStep' = "search"
  /\ request' \in [mode: {"dark", "light"}, category: Product, avoid: SUBSET AntiPattern]
  /\ UNCHANGED <<ranked, palette>>

\* The search ranks rows of a table that was audited, or finds none; products are
\* unique in it.
RankPalettes ==
  /\ paletteStep = "search"
  /\ \/ ranked' = <<>>
     \/ \E p, q \in {x \in Palettes : ColorAudit(x)} :
          \/ ranked' = <<p>>
          \/ p.product # q.product /\ ranked' = <<p, q>>
  /\ paletteStep' = "select" /\ UNCHANGED <<request, palette>>

ChoosePalette ==
  /\ paletteStep = "select"
  /\ palette' = SelectPalette(ranked, request.mode, request.category)
  /\ request' = [request EXCEPT !.avoid = AntiPatternsFor(@, request.mode)]
  /\ paletteStep' = "done" /\ UNCHANGED ranked

PalettesNext == RequestPalette \/ RankPalettes \/ ChoosePalette
PalettesSpec == PalettesInit /\ [][PalettesNext]_paletteVars

-----------------------------------------------------------------------------
(* Properties                                                              *)

\* The palette a design gets passes the audit of the table it was derived from, the
\* derived ones too, whatever ring and accent the product has ("deriving accessible
\* dark surfaces", _derive_dark_palette against COLOR_CONTRAST_PAIRS); only the
\* fallback does not, of which the text can be read and nothing more is known.
DerivedPasses ==
  paletteStep = "done" =>
    /\ Contrast(palette.color.foreground, palette.color.background, 45)
    /\ ColorAudit(palette) <=> ranked # <<>>

\* If the search found the palette of the category, the design has its brand colors.
\* In dark mode it has a dark background exactly if that palette or a dark one was
\* found: a fallback is light, as is the best hit among light ones ("what let a
\* dark-primary style ship with a light background", generate), and nothing
\* then advises against dark mode.
PaletteAgrees ==
  LET own == OfProduct(ranked, request.category)
  IN paletteStep = "done" =>
       /\ own # {} => \A f \in {"primary", "onPrimary", "accent", "onAccent"} :
                        palette.color[f] = First(ranked, own).color[f]
       /\ request.mode = "dark" => /\ IsDark(palette) <=> own # {} \/ Dark(ranked) # {}
                                  /\ "no dark mode" \notin request.avoid
=============================================================================
