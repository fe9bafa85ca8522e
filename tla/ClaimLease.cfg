SPECIFICATION Spec
CONSTANTS
  w1 = w1
  w2 = w2
  s1 = s1
  Worker <- MCWorker
  None = None
  Lease = 2
  MaxSkew = 1
  Skew <- MCSkew
  MaxTime = 2
  MaxTroubles = 2
  Renewer = {w1}
  Slot = {s1}
  Payload = {"job", "corrupt"}
INVARIANTS
  TypeOK
  LeaseHolder
  ActivityBeforeExecution
  PurgeRetriable
PROPERTIES
  RecordStands
  LeaseImplementation
VIEW MCView
CHECK_DEADLOCK FALSE
