---------------------------- MODULE IdentityBrief ----------------------------
(***************************************************************************)
(* Briefs, prompts and presentations of corporate identities and logos     *)
(* (design/scripts/cip and logo): one query finds an industry, its style   *)
(* and deliverables, the style's name is searched for again in each        *)
(* prompt, and the presentation tells from a file's name what it shows.    *)
(***************************************************************************)
EXTENDS Naturals, FiniteSets, Sequences, SequencesExt

CONSTANTS
  Query,        \* texts that are searched for, names of rows among them
  NoRow,        \* nothing found; no query
  Industry,     \* Industry[row]: [style: its CIP Style, words: of Key Deliverables]
  StyleRow,     \* rows of styles.csv
  Deliverable,  \* rows of deliverables.csv
  Finds,        \* Finds[domain][query]: the row that BM25 ranks first, or NoRow
  Keywords,     \* Keywords[domain][query]: how many keywords of the domain it contains
  Entries,      \* the entries of DELIVERABLE_INFO, in its order
  Inside,       \* Inside[name]: the entries a deliverable or brand has in its name
  OwnEntry,     \* OwnEntry[name]: the entry that is written for a deliverable, or NoRow
  Brand         \* brand names

Domain == <<"deliverable", "style", "industry", "mockup">>

\* Rows bear names, and what an entry is written for has it in its name.
ASSUME BriefAssumption ==
  /\ DOMAIN OwnEntry = Query /\ Query \cup Brand \subseteq DOMAIN Inside
  /\ StyleRow \cup Deliverable \subseteq Query /\ NoRow \notin Query
  /\ Finds["style"] \in [Query -> StyleRow \cup {NoRow}]
  /\ Finds["deliverable"] \in [Query -> Deliverable \cup {NoRow}]
  /\ Finds["industry"] \in [Query -> DOMAIN Industry \cup {NoRow}]
  /\ "corporate minimal" \in Query /\ \A i \in DOMAIN Industry : Industry[i].style \in Query
  /\ Entries \in Seq(Range(Entries)) /\ IsInjective(Entries)
  /\ \A d \in Query : OwnEntry[d] # NoRow => OwnEntry[d] \in Range(Entries) \cap Inside[d]

-----------------------------------------------------------------------------
(* Searches                                                                *)

\* detect_domain: the domain of most keywords, the first of equals; none, the first.
DetectDomain(q) ==
  LET n(i) == Keywords[Domain[i]][q]
      best == CHOOSE i \in DOMAIN Domain :
                /\ \A j \in DOMAIN Domain : n(j) <= n(i)
                /\ \A j \in DOMAIN Domain : j < i => n(j) < n(i)
  IN Domain[best]

Found(domain, q) == IF q = NoRow THEN NoRow ELSE Finds[domain][q]

SearchOne(q, domain) ==
  LET d == IF domain = "auto" THEN DetectDomain(q) ELSE domain IN [at |-> d, row |-> Found(d, q)]

\* search_all leaves out domains in which nothing is found.
SearchAll(q) == {[at |-> d, row |-> Found(d, q)] : d \in {x \in Range(Domain) : Found(x, q) # NoRow}}

\* get_cip_brief: without --style the industry's, without an industry "corporate minimal".
StyleQuery(industry, style) ==
  IF style # NoRow THEN style
  ELSE IF industry # NoRow THEN Industry[industry].style ELSE "corporate minimal"

\* The first five words of the industry's deliverables, one search each.
Recommended(industry) ==
  LET words == IF industry = NoRow THEN <<>> ELSE Industry[industry].words
      first == SubSeq(words, 1, IF Len(words) > 5 THEN 5 ELSE Len(words))
  IN SelectSeq([i \in DOMAIN first |-> Found("deliverable", first[i])], LAMBDA d : d # NoRow)

CipBrief(q, style) ==
  LET industry == Found("industry", q)
  IN [industry |-> industry, style |-> Found("style", StyleQuery(industry, style)),
      recommended |-> Recommended(industry)]

\* build_cip_prompt searches for the style it is given, which otherwise goes into the
\* prompt as it is; without one the prompt has none.
StyleOf(text) == IF Found("style", text) = NoRow THEN text ELSE Found("style", text)

PromptStyle_Asked(brief, asked) == StyleOf(asked)   \* mutant: the --style argument
\* generate_cip_set gives it the name of the brief's style.
PromptStyle(brief, asked) == StyleOf(brief.style)

\* mutant: short entries first, as in a table sorted by name length
InfoOf_Short(brand, row) ==
  LET inside == {i \in DOMAIN Entries : Entries[i] \in Inside[row] \cup Inside[brand]}
  IN IF inside = {} THEN NoRow ELSE Entries[CHOOSE i \in inside : \A j \in inside : j <= i]
\* get_deliverable_info: the first entry in the file's name, brand-deliverable-time.
InfoOf(brand, row) ==
  LET inside == {i \in DOMAIN Entries : Entries[i] \in Inside[row] \cup Inside[brand]}
  IN IF inside = {} THEN NoRow ELSE Entries[CHOOSE i \in inside : \A j \in inside : i <= j]

-----------------------------------------------------------------------------
VARIABLES
  lookups,   \* what the last search printed
  identity,  \* [brand, asked, brief] of the set under way
  made,      \* images in the directory: [brand, row, style, way]
  shown,     \* <<image, entry>> of the last presentation
  briefAt    \* "idle", "set", "made", "shown"

briefVars == <<lookups, identity, made, shown, briefAt>>

NoIdentity == [brand |-> NoRow, asked |-> NoRow,
               brief |-> [industry |-> NoRow, style |-> NoRow, recommended |-> <<>>]]
BriefInit ==
  /\ lookups = {} /\ identity = NoIdentity /\ made = {} /\ shown = {} /\ briefAt = "idle"

\* search.py of cip and logo: one domain, all of them, or a brief.
SearchGuidelines ==
  /\ briefAt = "idle"
  /\ \E q \in Query :
       lookups' \in {{SearchOne(q, d)} : d \in Range(Domain) \cup {"auto"}} \cup {SearchAll(q)}
  /\ UNCHANGED <<identity, made, shown, briefAt>>

BeginIdentity ==
  /\ briefAt = "idle" /\ lookups = {}
  /\ \E b \in Brand, q \in Query, asked \in Query \cup {NoRow} :
       identity' = [brand |-> b, asked |-> asked, brief |-> CipBrief(q, asked)]
  /\ briefAt' = "set" /\ UNCHANGED <<lookups, made, shown>>

\* A mockup is named after the row found for the wish, or after the wish.
ImageName(wish) == IF Found("deliverable", wish) # NoRow THEN Found("deliverable", wish) ELSE wish

Make(wish, style, way) ==
  /\ briefAt = "set" /\ Cardinality(made) < 2     \* bound: two images
  /\ made' = made \cup {[brand |-> identity.brand, row |-> ImageName(wish), style |-> style, way |-> way]}
  /\ UNCHANGED <<lookups, identity, shown, briefAt>>

\* generate_cip_set: one of --set or --deliverables.
MakeImage == \E wish \in Query : Make(wish, PromptStyle(identity.brief, identity.asked), "set")

\* One --deliverable with the same arguments, without a brief.
MakeSingle == \E wish \in Query : Make(wish, StyleOf(identity.asked), "single")

\* render-html.py: every .png file of the directory, with the brief made again.
Present ==
  /\ briefAt = "set" /\ made # {}
  /\ shown' = {<<m, InfoOf(m.brand, m.row)>> : m \in made}
  /\ briefAt' = "shown" /\ UNCHANGED <<lookups, identity, made>>

BriefNext == SearchGuidelines \/ BeginIdentity \/ MakeImage \/ MakeSingle \/ Present
BriefSpec == BriefInit /\ [][BriefNext]_briefVars

-----------------------------------------------------------------------------
(* Properties                                                              *)

\* Images that are made in the same way share one style, and it is the one that the
\* presentation's brief shows, but for two cases: a search for the name of that style
\* ranks another row first, for each prompt of a set searches for it again; a mockup
\* made alone looks at no brief, so without --style it has none, and a --style that
\* finds nothing stands in its prompt as it is (generate_cip_set, main).
OneStyle ==
  LET style == identity.brief.style
  IN \A m \in made :
       /\ \A n \in made : n.way = m.way => n.style = m.style
       /\ m.way = "set" /\ m.style # style => Finds["style"][style] \notin {style, NoRow}
       /\ m.way = "single" /\ m.style # style =>
            identity.asked = NoRow \/ Finds["style"][identity.asked] = NoRow

\* A presentation that describes an image by another entry than the one written for
\* what it shows has found one in the file's name, or in the brand's, that is listed
\* earlier: a later one never does, however short, and no image with an entry of its
\* own gets the default text (get_deliverable_info).  An image without one may
\* get any that hides in its name, as an Access Card is shown as a car.
ShownAsMade ==
  \A s \in shown :
    LET own == OwnEntry[s[1].row]
    IN own \notin {NoRow, s[2]} =>
         \E i, j \in DOMAIN Entries : /\ i < j /\ Entries[i] = s[2] /\ Entries[j] = own
                                     /\ s[2] \in Inside[s[1].row] \cup Inside[s[1].brand]
=============================================================================
