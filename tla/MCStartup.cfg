SPECIFICATION FairSpec
CONSTANTS
  t1 = t1  t2 = t2
  Unset = Unset
  Empty = Empty
  Credential = Credential
  Placeholder <- Example
  Starts <- Neighbours
  MaxAsks = 3
  CustomDir = "etc"
  MaxLaunches = 2
  AnswerSets <- Typed
  Decimals = 2
  MaxU64 = 9000
INVARIANTS TypeOK TokenPrivate SetupWhole AnswersTakeEffect FirstRunThenSame
PROPERTIES NeverClobbers StartupSettles
CHECK_DEADLOCK FALSE
