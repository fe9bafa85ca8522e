SPECIFICATION FairSpec
CONSTANTS
  w1 = w1
  w2 = w2
  Worker <- TwoPollers
  None = None
  MaxFaults = 2
  MaxRestarts = 1
INVARIANTS
  TypeOK
  ReportWelcome
PROPERTIES
  EvidenceKept
  ResultRecorded
  LeaseKept
  ResolvesUnrestarted
CHECK_DEADLOCK FALSE
