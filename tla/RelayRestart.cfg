SPECIFICATION FairSpec
CONSTANTS
  w1 = w1
  w2 = w2
  Worker <- OnePoller
  None = None
  MaxFaults = 1
  MaxRestarts = 1
PROPERTY JobResolves
CHECK_DEADLOCK FALSE
