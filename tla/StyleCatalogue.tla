--------------------------- MODULE StyleCatalogue ---------------------------
(***************************************************************************)
(* ui-ux-pro-max: the style table and the decision rules, the audit that   *)
(* accepts them (validate_data.py, reasoning_contract.py), and what the    *)
(* search and the design system generator make of an accepted table        *)
(* (core.py, design_system.py).                                            *)
(***************************************************************************)
EXTENDS Integers, FiniteSets, Sequences, SequencesExt

CONSTANTS
  StyleId,   \* identities of the style table
  Landing,   \* identities of the landing table
  NoId,      \* an empty cell
  Rows,      \* the rows the instances draw from
  Rules,     \* the decision rules the instances draw from
  Signal,    \* the words of a query that activate a condition
  Dial,      \* bound: values of the variance dial, 0 for none
  DialStyles,\* DialStyles[tier]: the styles of a tier's keywords
  DefaultPriority, \* "Minimalism", "Flat Design", if the table has them
  DefaultPattern   \* "Hero + Features + CTA", if the table has it

Row == [status: {"active", "supplemental", "deprecated"}, parent: StyleId \cup {NoId},
        domain: {"none", "style", "landing"}, target: StyleId \cup Landing \cup {NoId},
        mode: {"auto", "dark-first", "light", "dark"}, wording: {"plain", "claims"}]
Action == [kind: {"style", "constraint", "pattern", "mode", "unknown"},
           value: StyleId \cup Landing \cup {"dark", "light", "text"}]
\* A decision rule: a condition and the actions it maps to.
Rule == [when: Signal \cup {"must_have", "unknown"}, do: Seq(Action)]

ASSUME CatalogueAssumption ==
  /\ Rows \subseteq Row /\ Rules \subseteq Seq(Rule)
  /\ IsFiniteSet(StyleId) /\ NoId \notin StyleId \cup Landing
  /\ DialStyles \in [1..3 -> Seq(StyleId)]
  /\ DefaultPriority \in Seq(StyleId \cup {NoId}) /\ DefaultPattern \in Landing \cup {NoId}

-----------------------------------------------------------------------------
(* The audit                                                               *)

Redirects(r) == r.domain # "none" /\ r.target # NoId

\* mutant: a parent of any status will do
ParentProblem_Any(t, s) == t[s].parent # NoId /\ t[s].parent = s
\* A parent is another row, and active.  (So no chain of parents is a cycle.)
ParentProblem(t, s) ==
  t[s].parent # NoId /\ (t[s].parent = s \/ t[t[s].parent].status # "active")

RowProblem(t, s) ==
  LET r == t[s]
  IN \/ r.status = "supplemental" /\ r.parent = NoId
     \/ r.status = "deprecated" /\ ((r.parent # NoId) <=> Redirects(r))
     \/ r.status = "deprecated" /\ Redirects(r)
          /\ r.target \notin (IF r.domain = "style" THEN StyleId ELSE Landing)
     \/ r.status # "deprecated" /\ (r.domain # "none" \/ r.target # NoId)
     \/ r.wording = "claims"      \* vocabulary, conformance claims, prompt length
     \/ ParentProblem(t, s)

\* priority: the styles that products and reasoning rules name.
StyleAudit(t, priority) ==
  /\ \A s \in StyleId : ~RowProblem(t, s)
  /\ \A s \in Range(priority) : t[s].status # "deprecated"

ActionProblem(a) ==
  \/ a.kind = "unknown"
  \/ a.kind = "mode" /\ a.value \notin {"dark", "light"}

\* parse_decision_rules: known conditions, once each, with known actions, once each.
ParseRules(rules) ==
  /\ \A i \in DOMAIN rules :
       /\ rules[i].when # "unknown" /\ rules[i].do # <<>> /\ IsInjective(rules[i].do)
       /\ \A a \in Range(rules[i].do) : ~ActionProblem(a)
  /\ \A i, j \in DOMAIN rules : rules[i].when = rules[j].when => i = j

\* _check_reasoning_contract: style and pattern actions name rows.
ReasoningAudit(rules) ==
  /\ ParseRules(rules)
  /\ \A i \in DOMAIN rules : \A a \in Range(rules[i].do) :
       /\ a.kind = "style" => a.value \in StyleId
       /\ a.kind = "pattern" => a.value \in Landing

-----------------------------------------------------------------------------
(* The program                                                             *)

Activated(rules, signals) ==
  FlattenSeq([i \in DOMAIN rules |->
    IF rules[i].when \in signals \cup {"must_have"} THEN rules[i].do ELSE <<>>])

\* The values of the actions of a kind, in their order.
Values(actions, kind) ==
  FlattenSeq([i \in DOMAIN actions |-> IF actions[i].kind = kind THEN <<actions[i].value>> ELSE <<>>])
LastOr(seq, other) == IF seq = <<>> THEN other ELSE Last(seq)

\* mutant: a rule replaces the styles of those before it
StyleIds_Last(actions) == LET all == Values(actions, "style")
                          IN IF all = <<>> THEN all ELSE <<Last(all)>>
StyleIds(actions) == Values(actions, "style")

\* apply_decision_rules: styles add up, of patterns and modes the last one counts.
ApplyRules(rules, signals) ==
  LET actions == Activated(rules, signals)
  IN [styles |-> StyleIds(actions),
      constraints |-> Range(Values(actions, "constraint")),
      pattern |-> LastOr(Values(actions, "pattern"), NoId),
      mode |-> LastOr(Values(actions, "mode"), "none")]

\* _resolve_style: deprecated rows lead to their parents, those without to nothing.
ResolveStyle(t, s) ==
  LET Up(x) == IF x # NoId /\ t[x].status = "deprecated" THEN t[x].parent ELSE x
      walk[n \in 0..Cardinality(StyleId)] == IF n = 0 THEN s ELSE Up(walk[n - 1])
      end == walk[Cardinality(StyleId)]
  IN IF end # NoId /\ t[end].status = "deprecated" THEN NoId ELSE end

Resolving(t, priority) == {i \in DOMAIN priority : ResolveStyle(t, priority[i]) # NoId}

\* mutant: a replacement is used as it is named
FirstStyle_Raw(t, priority) == priority[Min(Resolving(t, priority))]
FirstStyle(t, priority) == ResolveStyle(t, priority[Min(Resolving(t, priority))])

\* _select_best_match: nothing without search results; else the first priority that
\* resolves; else one of the results.
BestStyles(t, results, priority) ==
  IF results = {} THEN {NoId}
  ELSE IF Resolving(t, priority) # {} THEN {FirstStyle(t, priority)} ELSE results

DarkPrimary(t, s) == s # NoId /\ t[s].mode \in {"dark", "dark-first"}

\* The mode of a rule, else that of the query and the style.
ColorMode(preferred, wantsDark, t, s) ==
  IF preferred # "none" THEN preferred
  ELSE IF wantsDark \/ DarkPrimary(t, s) THEN "dark" ELSE "light"

\* _style_search_destination for a row that a query names.
Destination(t, s) ==
  LET r == t[s]
  IN IF r.status # "deprecated" THEN [row |-> s, redirect |-> NoId]
     ELSE IF r.parent # NoId THEN [row |-> r.parent, redirect |-> NoId]
     ELSE IF r.domain = "style" THEN [row |-> r.target, redirect |-> NoId]
     ELSE [row |-> NoId, redirect |-> r.target]

\* Names a query may hold: the whole of it (exact), or words of it (inside).
SearchQuery == [domain: {"auto", "style", "landing"}, exact: StyleId \cup {NoId},
                inside: SUBSET StyleId, detected: {"style", "landing", "product"},
                pattern: Landing \cup {NoId}, limit: BOOLEAN]

\* _style_identity: inside holds the rows of the best contained name; one counts.
StyleIdentity(q, allowContained) ==
  IF q.exact # NoId THEN q.exact
  ELSE IF allowContained /\ Cardinality(q.inside) = 1 THEN CHOOSE s \in q.inside : TRUE ELSE NoId

NoDestination == [row |-> NoId, redirect |-> NoId]
DestinationOf(t, s) == IF s = NoId THEN NoDestination ELSE Destination(t, s)

\* search: the domain, and where the identity in the query leads.
Route(t, q) ==
  LET named == DestinationOf(t, StyleIdentity(q, FALSE))
      domain == IF q.domain # "auto" THEN q.domain
                ELSE IF StyleIdentity(q, FALSE) # NoId THEN "style" ELSE q.detected
  IN CASE domain = "style" ->
            [domain |-> domain,
             to |-> IF q.domain = "auto" /\ named # NoDestination THEN named
                    ELSE DestinationOf(t, StyleIdentity(q, TRUE))]
       [] domain = "landing" -> [domain |-> domain, to |-> [row |-> q.pattern, redirect |-> NoId]]
       [] OTHER -> [domain |-> domain, to |-> NoDestination]

RowsOf(t, domain) == CASE domain = "style" -> {s \in StyleId : t[s].status = "active"}
                       [] domain = "landing" -> Landing
                       [] OTHER -> {}   \* rows of other tables are not modelled

\* What search may answer; ranked rows are any of the table.
Answers(t, q) ==
  LET r == Route(t, q)
      One(rows, redirect, how) == {[rows |-> rows, redirect |-> redirect, how |-> how]}
  IN IF ~q.limit THEN One({}, NoId, "error")
     ELSE IF r.to.row # NoId THEN One({r.to.row}, NoId, "identity")
     ELSE IF r.to.redirect # NoId THEN One({}, r.to.redirect, "redirect")
     ELSE {[rows |-> rows, redirect |-> NoId, how |-> "ranked"] : rows \in SUBSET RowsOf(t, r.domain)}

\* _multi_domain_search asks for the pattern alone if it names a landing row.
LandingQuery_Mixed(pattern) == NoId   \* mutant: the prompt is mixed in
LandingQuery(pattern) == IF pattern \in Landing THEN pattern ELSE NoId

-----------------------------------------------------------------------------
(* The design dials                                                        *)

Tier(v) == IF v <= 3 THEN 1 ELSE IF v <= 7 THEN 2 ELSE 3
\* _resolve_dial: 0 is an absent dial.
ResolveDial(v) == IF v = 0 THEN 0 ELSE Tier(IF v > 10 THEN 10 ELSE v)

-----------------------------------------------------------------------------
VARIABLES
  table,     \* styles.csv
  reasoning, \* the rule of the product: its priority, decision rules and pattern
  query,     \* what the caller asks for
  design,    \* the generated style, mode and landing pattern
  answer,    \* what a search answers
  step       \* "styles", "rules", "query", "designed", "searched", "refused"

catalogueVars == <<table, reasoning, query, design, answer, step>>

NoQuery == [signals |-> {}, dark |-> FALSE, variance |-> 0, product |-> TRUE]
CatalogueInit ==
  /\ table = [s \in StyleId |-> CHOOSE r \in Rows : TRUE]
  /\ reasoning = [priority |-> <<>>, rules |-> <<>>, pattern |-> NoId]
  /\ query = NoQuery
  /\ design = [style |-> NoId, mode |-> "none", results |-> {}, landing |-> NoId]
  /\ answer = [rows |-> {}, redirect |-> NoId, how |-> "none"]
  /\ step = "styles"

\* The audit of a style table and of the styles that the products name.
AuditStyles ==
  /\ step = "styles"
  /\ table' \in [StyleId -> Rows]
  /\ \E s \in StyleId : reasoning' = [reasoning EXCEPT !.priority = <<s>>]
  /\ step' = IF StyleAudit(table', reasoning'.priority) THEN "rules" ELSE "refused"
  /\ UNCHANGED <<query, design, answer>>

\* The audit of the decision rules and the recommended pattern.
AuditRules ==
  /\ step = "rules"
  /\ \E rules \in Rules, pattern \in Landing \cup {NoId} :
       /\ reasoning' = [reasoning EXCEPT !.rules = rules, !.pattern = pattern]
       /\ step' = IF ReasoningAudit(rules) /\ pattern \in Landing THEN "query" ELSE "refused"
  /\ UNCHANGED <<table, query, design, answer>>

\* _apply_reasoning: the rule of the product; the default if the query finds no
\* product, whose category "General" has no rule.  (In an audited table every product
\* has one.)
DefaultReasoning == [priority |-> DefaultPriority, rules |-> <<>>, pattern |-> DefaultPattern]
Reasoning(q) == IF q.product THEN reasoning ELSE DefaultReasoning

Applied(q) == ApplyRules(Reasoning(q).rules, q.signals)
Pattern(q) == IF Applied(q).pattern # NoId THEN Applied(q).pattern ELSE Reasoning(q).pattern

\* The dial puts its styles first, then those of the rules, then those of the product.
Priority(q) ==
  (IF q.variance = 0 THEN <<>> ELSE DialStyles[ResolveDial(q.variance)])
  \o Applied(q).styles \o Reasoning(q).priority

\* A landing query that is no exact name may find any row; of those found, one
\* named like the pattern comes first.  NoId: the sections that generate() writes out.
BestLandings(q) ==
  LET named == LandingQuery(Pattern(q))
      found == IF named # NoId THEN {{named}} ELSE SUBSET Landing
  IN UNION {IF Pattern(q) \in f THEN {Pattern(q)} ELSE IF f = {} THEN {NoId} ELSE f : f \in found}

GenerateDesign ==
  /\ step = "query"
  /\ query' \in [signals: SUBSET Signal, dark: BOOLEAN, variance: Dial, product: BOOLEAN]
  /\ \E results \in SUBSET RowsOf(table, "style"), l \in BestLandings(query') :
       \E s \in BestStyles(table, results, Priority(query')) :
         design' = [style |-> s, results |-> results, landing |-> l,
                    mode |-> ColorMode(Applied(query').mode, query'.dark, table, s)]
  /\ step' = "designed"
  /\ UNCHANGED <<table, reasoning, answer>>

\* A search does not look at the rules.
SearchStyles ==
  /\ step = "rules"
  /\ query' \in SearchQuery
  /\ answer' \in Answers(table, query')
  /\ step' = "searched"
  /\ UNCHANGED <<table, reasoning, design>>

CatalogueNext == AuditStyles \/ AuditRules \/ GenerateDesign \/ SearchStyles
CatalogueSpec == CatalogueInit /\ [][CatalogueNext]_catalogueVars

-----------------------------------------------------------------------------
(* Properties                                                              *)

\* With an audited table, a design never gets a deprecated style, the default ones
\* included, which no audit looks at; it gets the one its product names unless a rule
\* or the dial names another or the search found nothing (StyleAudit against
\* _resolve_style and _select_best_match).  NoId: the style that generate() writes out.
StyleIsLive ==
  step = "designed" =>
    /\ design.style # NoId => table[design.style].status # "deprecated"
    /\ design.style = NoId <=> design.results = {}
    /\ query.product /\ Len(Priority(query)) = 1 /\ design.results # {} =>
         design.style = reasoning.priority[1]

\* A style that the rules of the query name beats that of the product, and saying
\* more in a query takes no style and no constraint away (apply_decision_rules).
RulesAddUp ==
  step = "designed" =>
    /\ \A fewer \in SUBSET query.signals :
         LET less == ApplyRules(Reasoning(query).rules, fewer)
         IN /\ Range(less.styles) \subseteq Range(Applied(query).styles)
            /\ less.constraints \subseteq Applied(query).constraints
    /\ query.variance = 0 /\ design.results # {} /\ Resolving(table, Applied(query).styles) # {} =>
         design.style = FirstStyle(table, Applied(query).styles)

\* The design has the landing pattern that the rules of the query, or its product,
\* recommend, whatever the query adds ("Mixing the product prompt into it can push
\* token coverage below the abstention threshold", _multi_domain_search); without a
\* product the default one, if the landing table has it.
PatternIsKept ==
  step = "designed" /\ (query.product \/ DefaultPattern \in Landing) => design.landing = Pattern(query)

\* With an audited table, who searches for a style by its name is answered with
\* that row, the live row that took its place, or a redirect to a landing row and
\* nothing else; rows are ranked for him only if he names none (search,
\* _style_search_destination).  A table may send him on to a deprecated row.
NamedIsLed ==
  step = "searched" /\ query.exact # NoId /\ query.domain # "landing" /\ query.limit =>
    LET r == table[query.exact]
    IN \/ answer.how = "redirect" /\ answer.redirect \in Landing /\ r.status = "deprecated"
       \/ /\ answer.how = "identity"
          /\ \E s \in answer.rows : /\ r.status # "deprecated" => s = query.exact
                                   /\ table[s].status = "deprecated" => r.domain = "style"
=============================================================================
