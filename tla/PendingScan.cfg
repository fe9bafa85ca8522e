SPECIFICATION FairSpec
CONSTANTS
  MaxKey = 4
  MaxItems = 3
  MaxPerSweep = 1
  MaxPuts = 1
  MaxFaults = 1
INVARIANTS
  TypeOK
  SweepComplete
  ItemBound
PROPERTIES
  NoneTwice
  Served
