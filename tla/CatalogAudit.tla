----------------------------- MODULE CatalogAudit -----------------------------
(***************************************************************************)
(* validate_data.py: the two audits that follow references from one file   *)
(* to another: font pairings into the font catalog and its licenses, and   *)
(* provenance records into the tables they vouch for.                      *)
(***************************************************************************)
EXTENDS Naturals, FiniteSets

CONSTANTS
  Family,    \* font families
  FontWeight, \* font weights; 400 is imported when a declaration names none
  CoreFile,  \* the tables that need an official record
  NewRow,    \* reasoning rows and styles that need a record
  Pairings,  \* bound: the font pairings the instances draw from
  Catalogs,  \* bound: the font catalogs
  Licenses,  \* bound: the license files
  Records    \* bound: the provenance records

\* url, css: declarations of the Google Fonts URL and of the CSS import; a weight set
\* of {} names none.  configured: the Tailwind configuration; notes: weights that the
\* notes recommend.
Declaration == Family \X SUBSET FontWeight
PairingType == [heading: Family, body: Family, url: SUBSET Declaration, css: SUBSET Declaration,
                valid: BOOLEAN, configured: SUBSET Family, notes: SUBSET FontWeight]
\* The catalog: the weights of each family that has a row.
CatalogType == UNION {[S -> SUBSET FontWeight] : S \in SUBSET Family}
\* The license file: its count, active entries, entries of a bad license or date,
\* families that wait for a review.
LicenseType == [count: Nat, active: SUBSET Family, invalid: SUBSET Family, excluded: SUBSET Family]
\* A provenance record: what it is about, what it says of itself, what it cites.
\* rows: whether its scope names rows and a column that are there.
RecordType == [of: CoreFile \cup NewRow, sla: {"manual-verified", "needs-review"},
               official: {"none", "approved", "other"}, derived: {"none", "local", "url"},
               rows: BOOLEAN, sound: BOOLEAN]

ASSUME CatalogAuditAssumption ==
  /\ Pairings \subseteq PairingType /\ Catalogs \subseteq CatalogType
  /\ Licenses \subseteq LicenseType /\ Records \subseteq RecordType /\ CoreFile \cap NewRow = {}

-----------------------------------------------------------------------------
(* Fonts                                                                   *)

Names(declarations) == {d[1] : d \in declarations}
Imported(declarations) == UNION {d[2] : d \in declarations}

\* _check_typography_contract: without a valid import the weights are not looked at.
TypographyAudit(p) ==
  /\ {p.heading, p.body} \subseteq Names(p.url) \cap p.configured
  /\ p.valid /\ p.url = p.css
  /\ p.notes \subseteq Imported(p.url)

\* mutant: every catalog family needs a license, licensed ones need no catalog row
SameFamilies_Within(catalog, l) == l.active \subseteq DOMAIN catalog
SameFamilies(catalog, l) == l.active \cup l.invalid = DOMAIN catalog

\* _check_font_catalog
FontCatalogAudit(catalog, l, p) ==
  /\ DOMAIN catalog # {} /\ \A f \in DOMAIN catalog : catalog[f] # {}
  /\ l.count = Cardinality(DOMAIN catalog)      \* else the entries are not looked at
  /\ l.invalid = {} /\ SameFamilies(catalog, l)
  /\ l.excluded \cap DOMAIN catalog = {}
  /\ \A d \in p.url : /\ d[1] \in DOMAIN catalog
                      /\ (IF d[2] = {} THEN {400} ELSE d[2]) \subseteq catalog[d[1]]

-----------------------------------------------------------------------------
(* Provenance                                                              *)

\* A source is an official page of an approved host or a local file.
Sources(r) == (IF r.official = "none" THEN {} ELSE {"official"})
         \cup (IF r.derived = "none" THEN {} ELSE {"derived"})
ValidSources(r) == (IF r.official = "approved" THEN {"official"} ELSE {})
              \cup (IF r.derived = "local" THEN {"derived"} ELSE {})

RecordAudit(r) ==
  /\ r.sound /\ Sources(r) # {} /\ ValidSources(r) = Sources(r)
  /\ r.sla = "manual-verified" => ~(ValidSources(r) \subseteq {"derived"})
  /\ r.of \in CoreFile => r.rows

\* mutant: a record of the right name will do
Vouches_Named(r) == TRUE
\* A record that counts for its table.
Vouches(r) == ValidSources(r) # {} /\ r.rows /\ "official" \in Sources(r)

\* _check_provenance
ProvenanceAudit(records) ==
  /\ \A r \in records : RecordAudit(r)
  /\ \A r, s \in records : r.of = s.of => r = s
  /\ NewRow \subseteq {r.of : r \in records}
  /\ CoreFile \subseteq {r.of : r \in {x \in records : x.of \in CoreFile /\ Vouches(x)}}

-----------------------------------------------------------------------------
VARIABLES pairing, fontCatalog, license, records, verdict
catalogAuditVars == <<pairing, fontCatalog, license, records, verdict>>

CatalogAuditInit ==
  /\ pairing = CHOOSE p \in Pairings : TRUE
  /\ fontCatalog = CHOOSE c \in Catalogs : TRUE
  /\ license = CHOOSE l \in Licenses : TRUE
  /\ records = {} /\ verdict = "none"

AuditFonts ==
  /\ verdict = "none"
  /\ pairing' \in Pairings /\ fontCatalog' \in Catalogs /\ license' \in Licenses
  /\ verdict' = IF TypographyAudit(pairing') /\ FontCatalogAudit(fontCatalog', license', pairing')
                THEN "fonts" ELSE "refused"
  /\ UNCHANGED records

AuditProvenance ==
  /\ verdict = "none"
  /\ \E r, s, t \in Records : records' \in {{r}, {r, s}, {r, s, t}}
  /\ verdict' = IF ProvenanceAudit(records') THEN "provenance" ELSE "refused"
  /\ UNCHANGED <<pairing, fontCatalog, license>>

CatalogAuditNext == AuditFonts \/ AuditProvenance
CatalogAuditSpec == CatalogAuditInit /\ [][CatalogAuditNext]_catalogAuditVars

-----------------------------------------------------------------------------
(* Properties                                                              *)

\* What the generated CSS imports can be had: heading and body fonts are imported,
\* in the catalog, under a valid license and not waiting for a review, with each
\* weight that is imported or recommended (_check_typography_contract and
\* _check_font_catalog together).
FontsCanBeHad ==
  verdict = "fonts" =>
    \A f \in {pairing.heading, pairing.body} :
      /\ \E d \in pairing.css : d[1] = f /\ d[2] \subseteq fontCatalog[f]
      /\ f \in license.active \ license.excluded
      /\ pairing.notes \subseteq UNION {fontCatalog[g] : g \in DOMAIN fontCatalog}

\* Every core table is vouched for by a record that names rows of it and an official
\* page, every new row has its record, and what calls itself manually verified rests
\* on an official page (_check_provenance).
ProvenanceBinds ==
  verdict = "provenance" =>
    /\ \A f \in CoreFile : \E r \in records : r.of = f /\ r.rows /\ r.official = "approved"
    /\ \A n \in NewRow : \E r \in records : r.of = n /\ (r.sla = "manual-verified" => r.official = "approved")
=============================================================================
