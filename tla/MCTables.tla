------------------------------ MODULE MCTables ------------------------------
(***************************************************************************)
(* The tools of the vendored design skills that search, audit and compute  *)
(* from tables, on small tables.  Each behaviour runs one of them.         *)
(***************************************************************************)
EXTENDS Skills, SearchCache, Ranking, TLC

CONSTANTS s1, s2, s3, l1, l2, a1, a2, w1, w2, w3, ui, the, syn, f1, f2, n1

-----------------------------------------------------------------------------
(* StyleCatalogue: rows that pass and, for each rule of the audit, one that *)
(* does not.                                                               *)
Live == [status |-> "active", parent |-> NoId, domain |-> "none", target |-> NoId,
         mode |-> "auto", wording |-> "plain"]
Old == [Live EXCEPT !.status = "deprecated"]
MCRows ==
  { Live, [Live EXCEPT !.mode = "dark-first"], [Live EXCEPT !.wording = "claims"],
    [Live EXCEPT !.status = "supplemental", !.parent = s1], [Live EXCEPT !.status = "supplemental"],
    [Old EXCEPT !.parent = s1], [Old EXCEPT !.parent = s2],
    [Old EXCEPT !.domain = "style", !.target = s1], [Old EXCEPT !.domain = "landing", !.target = l1],
    [Old EXCEPT !.domain = "landing", !.target = s2] }

Do(k, v) == [kind |-> k, value |-> v]
On(condition, actions) == [when |-> condition, do |-> actions]
MCRules ==
  { <<>>,
    <<On("must_have", <<Do("style", s2), Do("mode", "dark")>>),
      On("g1", <<Do("style", s1), Do("constraint", "text"), Do("pattern", l2)>>)>>,
    <<On("g1", <<Do("style", s3)>>), On("g1", <<Do("mode", "light")>>)>>,
    <<On("unknown", <<Do("style", s3)>>)>>,
    <<On("g1", <<Do("unknown", s3)>>)>> }
MCDial == {0, 3, 11}
MCDialStyles == <<<<s1>>, <<>>, <<s3>>>>
MCDefaultPriority == <<NoId, s2, s1>>

-----------------------------------------------------------------------------
(* Palettes                                                                *)
Light == [primary |-> 100, onPrimary |-> 1000, accent |-> 100, onAccent |-> 1000, background |-> 954,
          foreground |-> 22, card |-> 1000, cardForeground |-> 22, muted |-> 900,
          mutedForeground |-> 60, border |-> 700, ring |-> 100]
MCLuminance == {9, 22, 51, 60, 100, 153, 300, 325, 363, 400, 657, 700, 900, 954, 1000}
MCPalettes ==
  {[product |-> p, color |-> [Light EXCEPT !.primary = x[1], !.onPrimary = x[2], !.accent = y[1],
      !.onAccent = y[2], !.background = z[1], !.foreground = z[2], !.mutedForeground = m, !.ring = r]] :
     p \in {a1, a2}, x \in {<<22, 1000>>, <<300, 9>>}, y \in {<<22, 1000>>, <<400, 9>>},
     z \in {<<954, 22>>, <<22, 954>>, <<400, 9>>}, m \in {60, 9}, r \in {22, 300, NoColor}}

-----------------------------------------------------------------------------
(* Ranking: a stop word, a synonym of two words, a routing keyword.        *)
MCWord == {w1, w2, w3, ui, the, syn}
MCSynonym == [w \in MCWord |-> IF w = syn THEN <<w1, w2>> ELSE <<w>>]
MCRewrite == [w \in MCWord |-> IF w = w3 THEN {w1} ELSE {}]
MCSimilar == {<<w3, w1>>, <<w1, w2>>, <<w2, w1>>, <<ui, w2>>, <<w2, ui>>}
MCCorpora ==
     {<<a, b>> : a \in {<<w1>>, <<w1, w2>>, <<ui, the>>, <<w3, w3>>},
                 b \in {<<w1, w1>>, <<w2, w1>>, <<syn>>, <<>>, <<ui>>}}
  \cup {<<a, b, c>> : a \in {<<w1>>, <<w1, w2>>, <<ui, the>>}, b \in {<<w1, w3>>, <<w2>>, <<w1, w1>>},
                      c \in {<<w1, w2>>, <<w1>>, <<w3, w1>>}}
MCQueries == {<<w>> : w \in MCWord} \cup {<<w1, w2>>, <<w3, w1>>, <<w2, w3>>, <<ui, the>>, <<w3, w3>>}
MCThresholds == {[score |-> 0, num |-> 0, den |-> 1], [score |-> 0, num |-> 1, den |-> 2],
                 [score |-> 200, num |-> 1, den |-> 3], [score |-> 900, num |-> 0, den |-> 1]}

\* The ratios whose logarithms up to three rows need.
MCLn ==   (<<4, 3>> :> 288)
       @@ (<<6, 3>> :> 694) @@ (<<6, 5>> :> 183)
       @@ (<<8, 3>> :> 981) @@ (<<8, 5>> :> 471) @@ (<<8, 7>> :> 134)
       @@ (<<1, 3>> :> -1098) @@ (<<3, 3>> :> 0) @@ (<<1, 5>> :> -1609)
       @@ (<<5, 3>> :> 511) @@ (<<3, 5>> :> -510) @@ (<<1, 7>> :> -1945)

-----------------------------------------------------------------------------
(* StackSearch                                                             *)
Cur == [status |-> "active", target |-> "current", bases |-> {"base"}, weighty |-> TRUE,
        official |-> TRUE, verified |-> TRUE, names |-> {}, successor |-> FALSE]
Leg == [Cur EXCEPT !.status = "deprecated", !.target = "legacy"]
MCRowKinds ==
  { Cur, [Cur EXCEPT !.official = FALSE], [Cur EXCEPT !.names = {"api"}, !.bases = {"radix", "aria"}],
    [Cur EXCEPT !.target = "legacy"], [Cur EXCEPT !.status = "unverified"],
    Leg, [Leg EXCEPT !.names = {"api"}], [Leg EXCEPT !.successor = TRUE], [Leg EXCEPT !.target = "current"] }

-----------------------------------------------------------------------------
(* CatalogAudit                                                            *)
MCDeclarations == {{<<f1, {}>>}, {<<f1, {400, 700}>>, <<f2, {400}>>}, {<<f1, {700}>>, <<f2, {}>>}}
MCPairings == {[heading |-> f1, body |-> b, url |-> u, css |-> c, valid |-> v, configured |-> {f1, f2}, notes |-> n] :
                 b \in {f1, f2}, u \in MCDeclarations, c \in MCDeclarations, v \in BOOLEAN, n \in {{}, {700}}}
MCCatalogs == {[f \in S |-> w] : S \in {{f1}, {f1, f2}, {}}, w \in {{400, 700}, {400}, {}}}
MCLicenses == {[count |-> c, active |-> a, invalid |-> i, excluded |-> e] :
                 c \in 1..2, a \in {{f1}, {f1, f2}}, i \in {{}, {f2}}, e \in {{}, {f2}}}
Record(of, sla, official, derived, rows) ==
  [of |-> of, sla |-> sla, official |-> official, derived |-> derived, rows |-> rows, sound |-> TRUE]
MCRecords ==
     {Record("colors", s, o, d, r) : s \in {"manual-verified", "needs-review"},
        o \in {"none", "approved", "other"}, d \in {"none", "local"}, r \in BOOLEAN}
  \cup {Record(n1, s, o, d, FALSE) : s \in {"manual-verified", "needs-review"},
          o \in {"none", "approved"}, d \in {"none", "local", "url"}}
  \cup {[Record("colors", "needs-review", "approved", "none", TRUE) EXCEPT !.sound = FALSE]}

-----------------------------------------------------------------------------
(* Decks, SlideAdvice                                                      *)
On1(type, text) == [type |-> type, colorText |-> text]
MCDeckData ==
  { <<>>, <<On1("title", "plain"), On1("unknown", "styled")>>, <<On1("problem", "styled")>>,
    <<On1("metrics", "none"), On1("chart", "plain")>>, <<On1("testimonial", "none"), On1("cta", "none")>>,
    <<On1("cta", "styled")>>, <<On1("title", "none"), On1("solution", "none")>> }

MCGoal == {"problem", "solution", "cta", "hook", "traction", "features"}
Feel(e, image) == [emotion |-> e, image |-> image]
MCLayouts ==
  { [g \in {} |-> Feel("hope", TRUE)], [g \in {"features"} |-> Feel("hope", TRUE)],
    [g \in {"features", "problem", "solution", "hook"} |->
       CASE g = "features" -> Feel("clarity", FALSE)
         [] g = "problem" -> Feel("frustration", TRUE)
         [] g = "solution" -> Feel("hope", TRUE)
         [] OTHER -> Feel("relief", TRUE)] }

-----------------------------------------------------------------------------
(* IdentityBrief: rows of the tables that are shipped, and names that      *)
(* contain an entry by chance.                                             *)
MCStyles == {"Modern Tech", "Corporate Minimal", "Minimal"}
MCDeliverables == {"Business Card", "Access Card", "Document Template", "Van"}
MCBrand == {"TopGroup", "Vanguard"}
MCQuery == {"zzz", "tech", "letterhead", "corporate minimal", "Modern Tech Geometric", "cards", "Business"}
           \cup MCStyles \cup MCDeliverables
MCIndustry == [i \in {"Technology"} |->
                [style |-> "Modern Tech Geometric", words |-> <<"Business", "cards", "letterhead">>]]
Hit(f) == [q \in MCQuery |-> IF q \in DOMAIN f THEN f[q] ELSE NoRow]
Same(S) == [q \in S |-> q]
MCFinds ==
  [deliverable |-> Hit(("cards" :> "Access Card") @@ ("letterhead" :> "Document Template") @@ Same(MCDeliverables)),
   style |-> Hit(("corporate minimal" :> "Corporate Minimal") @@ ("Modern Tech Geometric" :> "Modern Tech")
                 @@ ("tech" :> "Modern Tech") @@ ("Minimal" :> "Corporate Minimal")
                 @@ ("cards" :> "Minimal") @@ Same(MCStyles)),
   industry |-> Hit(("tech" :> "Technology") @@ ("Modern Tech" :> "Technology")),
   mockup |-> Hit(Same({}))]
MCKeywords ==
  [deliverable |-> [q \in MCQuery |-> IF q \in {"cards", "letterhead"} \cup MCDeliverables THEN 1 ELSE 0],
   style |-> [q \in MCQuery |-> IF q \in {"corporate minimal"} \cup MCStyles THEN 1 ELSE 0],
   industry |-> [q \in MCQuery |-> IF q \in {"tech", "Modern Tech", "Modern Tech Geometric"} THEN 1 ELSE 0],
   mockup |-> [q \in MCQuery |-> 0]]
MCEntries == <<"business card", "document template", "van", "car">>
MCInside == [q \in MCQuery \cup MCBrand |->
              CASE q = "Business Card" -> {"business card", "car"}
                [] q \in {"Access Card", "cards"} -> {"car"}
                [] q = "Document Template" -> {"document template"}
                [] q \in {"Van", "Vanguard"} -> {"van"}
                [] OTHER -> {}]
MCOwnEntry == [q \in MCQuery |-> CASE q = "Business Card" -> "business card"
                                   [] q = "Document Template" -> "document template"
                                   [] q = "Van" -> "van"
                                   [] OTHER -> NoRow]

-----------------------------------------------------------------------------
(* PageOverrides                                                           *)
MCHits == ("checkout" :> {2}) @@ ("data" :> {1}) @@ ("author" :> {3}) @@ ("team" :> {})
LandingRow(hit, sections, cta, color) == [found |-> hit, sections |-> sections, cta |-> cta, color |-> color]
MCSearches ==
  {[style |-> [found |-> f, density |-> d, effects |-> e, bestFor |-> b], ux |-> [does |-> a, donts |-> a], landing |-> l] :
     f \in BOOLEAN, d \in {"dense", "other"}, e \in BOOLEAN, b \in {"data", "other"}, a \in BOOLEAN,
     l \in {LandingRow(FALSE, FALSE, FALSE, FALSE), LandingRow(TRUE, TRUE, FALSE, TRUE), LandingRow(TRUE, FALSE, TRUE, FALSE)}}

-----------------------------------------------------------------------------
(* SearchCache                                                             *)
\* The rows of the versions of a table, by their status.
MCStatusesIn == <<{"unverified", "deprecated"}, {"active", "deprecated"}, {"active", "unverified"},
                  {"deprecated"}>>
\* bound: three writes, enough for one search to give up
CacheBound == version["product"] + version["stack"] <= 5

-----------------------------------------------------------------------------
(* Mockups, Icons                                                          *)
\* Two wishes find one row of the catalogue.
MCCatalogRow == (w1 :> "letterhead") @@ (w2 :> "document template") @@ (w3 :> "letterhead")
MCDefaultSet == <<w1, w2, w3>>

\* SVGs with and without a size, a height alone, a child that has one, strokes, colors.
MCDrawn == {[width |-> w[1], height |-> w[2], child |-> x[1], stroke |-> x[2], twice |-> FALSE,
             paint |-> p, accent |-> FALSE] :
              w \in {<<0, 0>>, <<0, 24>>, <<24, 24>>}, x \in {<<0, 0>>, <<6, 0>>, <<0, 24>>},
              p \in {{"currentColor"}, {"other"}}}

-----------------------------------------------------------------------------
VARIABLE tool   \* the tool that runs; they share no state

MCInit ==
  /\ tool \in {"catalogue", "palettes", "ranking", "stacks", "audit", "catalogAudit", "decks", "advice",
               "brief", "overrides", "cache", "mockups", "icons"}
  /\ CatalogueInit /\ PalettesInit /\ RankInit /\ StackInit /\ AuditInit /\ CatalogAuditInit
  /\ DecksInit /\ AdviceInit /\ BriefInit /\ OverridesInit /\ CacheInit /\ MockupsInit /\ IconsInit

Frame ==
  /\ tool # "catalogue" => UNCHANGED catalogueVars
  /\ tool # "palettes" => UNCHANGED paletteVars
  /\ tool # "ranking" => UNCHANGED rankVars
  /\ tool # "stacks" => UNCHANGED stackVars
  /\ tool # "audit" => UNCHANGED auditVars
  /\ tool # "catalogAudit" => UNCHANGED catalogAuditVars
  /\ tool # "decks" => UNCHANGED deckVars
  /\ tool # "advice" => UNCHANGED adviceVars
  /\ tool # "brief" => UNCHANGED briefVars
  /\ tool # "overrides" => UNCHANGED overrideVars
  /\ tool # "cache" => UNCHANGED cacheVars
  /\ tool # "mockups" => UNCHANGED mockupVars
  /\ tool # "icons" => UNCHANGED iconVars

toolVars == <<catalogueVars, paletteVars, rankVars, stackVars, auditVars, catalogAuditVars,
              deckVars, adviceVars, briefVars, overrideVars, cacheVars, mockupVars, iconVars>>

MCNext ==
  /\ UNCHANGED tool
  /\ \/ tool = "catalogue" /\ CatalogueNext
     \/ tool = "palettes" /\ PalettesNext
     \/ tool = "ranking" /\ RankNext
     \/ tool = "stacks" /\ StackNext
     \/ tool = "audit" /\ AuditNext
     \/ tool = "catalogAudit" /\ CatalogAuditNext
     \/ tool = "decks" /\ DecksNext
     \/ tool = "advice" /\ AdviceNext
     \/ tool = "brief" /\ BriefNext
     \/ tool = "overrides" /\ OverridesNext
     \/ tool = "cache" /\ CacheNext /\ CacheBound'
     \/ tool = "mockups" /\ MockupsNext
     \/ tool = "icons" /\ IconsNext
  /\ Frame

MCSpec == MCInit /\ [][MCNext]_<<tool, toolVars>>

=============================================================================
