SPECIFICATION FairSpec
CONSTANTS
  chat = chat
  build1 = build1
  build2 = build2
  mapped = mapped
  other = other
  n1 = n1
  n2 = n2
  n3 = n3
  u1 = u1
  u2 = u2
  m1 = m1
  m2 = m2
  mod = mod
  new = new
  ign = ign
  None = None
  Absent = Absent
  Outside = Outside
  Kind <- MCKind
  Chat <- MCChat
  BuildName <- MCBuildName
  KindTable <- MCKindTable
  Name = {n1, n2, n3}
  Url = {u1, u2}
  HomeAliases <- MCAliases
  NodeAliases <- MCAliases
  Memory = {m1, m2}
  Weight <- MCWeight
  MaxRefs = 2
  MaxBytes = 3
  Config <- MCConfig
  MaxFound = 2
  Routes <- MCRoutes
  Backends = 2
  Retries = 1
  File = {mod, new, ign}
  Ignored = {ign}
  HeadTree <- MCHeadTree
  Offered <- MCOffered
INVARIANTS
  TypeOK
  OffloadedResolves
  ContextFits
  ContextComplete
  CommitGuarded
  FeedbackTrue
  OnlyOwnFailures
PROPERTY JobEnds
