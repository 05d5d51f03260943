------------------------------- MODULE Skills -------------------------------
(***************************************************************************)
(* What the tools of three skills promise together: ui-ux-pro-max's audit  *)
(* of its tables with the stack search and the designs that rely on it,    *)
(* the images that the design skill makes and presents, and the slides of  *)
(* design-system.  The tools share no state.                               *)
(***************************************************************************)
EXTENDS DataAudit, CatalogAudit, StackSearch, StyleCatalogue, Palettes, PageOverrides,
        Mockups, Icons, IdentityBrief, Decks, SlideAdvice

\* ui-ux-pro-max, validate_data.py: the audit accepts sound data and no others, and
\* says what is wrong with them; nobody who asks an audited stack for the current
\* generation is shown the older one, or nothing.
AuditSound ==
  /\ AcceptsOnlySound /\ HidesOnlyItsOwn /\ LosesReport
  /\ FontsCanBeHad /\ ProvenanceBinds
  /\ ModernNeverOlder /\ AuditedIsServed

\* ui-ux-pro-max, --design-system: with audited tables, a design has the live style,
\* pattern and readable palette that its product and its rules call for, a page its
\* overrides.
DesignSound ==
  /\ StyleIsLive /\ RulesAddUp /\ PatternIsKept /\ NamedIsLed
  /\ DerivedPasses /\ PaletteAgrees
  /\ TypeOnlyRises /\ NeverEmpty

\* design: images are those that were asked for, and shown as what they are.
ImagesSound ==
  /\ SetIsUniform /\ MockupsKept /\ OneStyle /\ ShownAsMade
  /\ IconsReturned /\ SizedUnlessStroked

\* design-system: decks that are generated, judged and advised on.
SlidesSound == [](FullBleedApart /\ ContrastBreaks /\ OverlayIsColor) /\ DeckRefused /\ ExitIsHonest
=============================================================================
