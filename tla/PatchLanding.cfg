SPECIFICATION Spec
CONSTANTS
  r1 = r1
  r2 = r2
  h1 = h1
  h2 = h2
  s1 = s1
  s2 = s2
  Reconciler <- MCReconciler
  Host = {h1}
  On <- OneHost
  Sha <- MCSha
  None = None
INVARIANTS
  TypeOK
  ReportedCommitLanded
  ReviewStaysReview
PROPERTY ClosesOut
CHECK_DEADLOCK FALSE
