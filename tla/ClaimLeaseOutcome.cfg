SPECIFICATION Spec
CONSTANTS
  w1 = w1
  w2 = w2
  s1 = s1
  Worker <- MCWorker
  None = None
  Lease = 2
  MaxSkew = 1
  Skew <- MCSkew
  MaxTime = 3
  MaxTroubles = 1
  Renewer = {w1}
  Slot = {s1}
  Payload = {"job"}
INVARIANT OneOutcomePerJob
CHECK_DEADLOCK FALSE
