SPECIFICATION Spec
CONSTANTS
  t1 = t1  t2 = t2
  Unset = Unset
  Empty = Empty
  Credential = Credential
  Placeholder <- Example
  Starts <- TwoSetups
  MaxAsks = 3
  CustomDir = "cwd"
  MaxLaunches = 3
  AnswerSets <- Typed
  Decimals = 2
  MaxU64 = 9000
PROPERTY SetupsApart
CHECK_DEADLOCK FALSE
