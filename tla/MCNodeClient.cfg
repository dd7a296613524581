SPECIFICATION FairSpec
CONSTANTS
  Endpoints = 2
  ReorgDepth = 1
  Burst = 1
  MinConf = 3
  MaxHeight = 4
INVARIANTS TypeOK ConfirmedStays FailsOnlyAfterAll
PROPERTY LookupEnds
