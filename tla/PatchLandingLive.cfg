SPECIFICATION FairSpec
CONSTANTS
  r1 = r1
  r2 = r2
  h1 = h1
  h2 = h2
  s1 = s1
  s2 = s2
  Reconciler = {r1}
  Host = {h1}
  On <- OneHost
  Sha <- MCSha
  None = None
PROPERTY ClosedOut
CHECK_DEADLOCK FALSE
