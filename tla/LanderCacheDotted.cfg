SPECIFICATION Spec
CONSTANTS
  p1 = p1
  p2 = p2
  r1 = r1
  r2 = r2
  r3 = r3
  s1 = s1
  s2 = s2
  Reconciler <- TwoReconcilers
  Repo <- TwoRepos
  Dotted <- TwoRepos
  Stem <- OwnStem
  Name <- Stems
  Size <- UnitSize
  Cap = 1
  None = None
  MaxFaults = 0
INVARIANT RepoExclusive
