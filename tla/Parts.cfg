SPECIFICATION MCSpec
CONSTANTS
  t1 = t1
  t2 = t2
  a1 = a1
  a2 = a2
  Tab = {t1, t2}
  NoTab = NoTab
  Exchange = {x1, x2}
  NoExchange = NoExchange
  Ask = {a1, a2}
  MaxLogins = 2
  MaxHash = 3
  Reader = {r1, r2}
  MaxClears = 1
  MaxChanges = 2
  p1 = p1
  p2 = p2
  p3 = p3
  Update = {p1, p2, p3}
  RowOf <- MCRowOf
  MaxConnections = 2
  g1 = g1
  g2 = g2
  Agent = {g1, g2}
  Project <- MCProjects
  Page <- MCPages
  NoPage = NoPage
  NoDoc = NoDoc
  MaxRuns = 2
  u1 = u1
  u2 = u2
  c1 = c1
  c2 = c2
  Setup = {u1, u2}
  Component = {c1, c2}
  Wanted <- MCWanted
  BatchStyles = 2
  MaxCount = 3
  MaxPolls = 2
  MaxBatches = 2
INVARIANTS
  LogoutStays JarKeepsUp OneRefresh ClearIsFinal
  FilesSound SetupSound
PROPERTIES
  AskEnds WaitsEnd
  ImplementsStore JobsSound
CHECK_DEADLOCK FALSE
