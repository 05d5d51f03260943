SPECIFICATION MCSpec
CONSTANTS
  s1 = s1
  s2 = s2
  s3 = s3
  l1 = l1
  l2 = l2
  StyleId = {s1, s2, s3}
  Landing = {l1, l2}
  NoId = NoId
  Rows <- MCRows
  Rules <- MCRules
  Signal = {"g1"}
  Dial <- MCDial
  DialStyles <- MCDialStyles
  DefaultPriority <- MCDefaultPriority
  DefaultPattern = l1
  a1 = a1
  a2 = a2
  Product = {a1, a2}
  NoProduct = NoProduct
  NoColor = NoColor
  Luminance <- MCLuminance
  Palettes <- MCPalettes
  w1 = w1
  w2 = w2
  w3 = w3
  ui = ui
  the = the
  syn = syn
  MaxRows = 3
  Ln <- MCLn
  Word <- MCWord
  Long = {w1, w2, w3, the, syn}
  Single = {}
  Stopword = {the}
  Synonym <- MCSynonym
  Rewrite <- MCRewrite
  Similar <- MCSimilar
  Corpora <- MCCorpora
  Queries <- MCQueries
  Thresholds <- MCThresholds
  StackRow = {1, 2}
  RowKinds <- MCRowKinds
  f1 = f1
  f2 = f2
  n1 = n1
  Family = {f1, f2}
  FontWeight = {400, 700}
  CoreFile = {"colors"}
  NewRow = {n1}
  Pairings <- MCPairings
  Catalogs <- MCCatalogs
  Licenses <- MCLicenses
  Records <- MCRecords
  Place = {"web", "repository"}
  Home = "web"
  DeckData <- MCDeckData
  MaxMinute = 1
  Totals = {2, 3, 4, 5, 8, 9}
  Goal <- MCGoal
  Layouts <- MCLayouts
  Query <- MCQuery
  NoRow = "no row"
  Industry <- MCIndustry
  StyleRow <- MCStyles
  Deliverable <- MCDeliverables
  Finds <- MCFinds
  Keywords <- MCKeywords
  Entries <- MCEntries
  Inside <- MCInside
  OwnEntry <- MCOwnEntry
  Brand <- MCBrand
  PageWord = {"checkout", "data", "author", "team"}
  Patterns = 3
  Hits <- MCHits
  Searches <- MCSearches
  Versions = 4
  StatusesIn <- MCStatusesIn
  MaxSearches = 3
  MaxAnswer = 3
  MaxIcons = 2
  Drawn <- MCDrawn
  Wish = {w1, w2, w3}
  CatalogRow <- MCCatalogRow
  DefaultSet <- MCDefaultSet
INVARIANTS
  CacheSound SearchSound  AuditSound ImagesSound
PROPERTY
  SlidesSound
CHECK_DEADLOCK FALSE
