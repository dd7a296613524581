SPECIFICATION Spec
CONSTANTS
  t1 = t1  t2 = t2
  Unset = Unset
  Empty = Empty
  Credential = Credential
  Placeholder <- Example
  Starts <- Hollow
  MaxAsks = 3
  CustomDir = "cwd"
  MaxLaunches = 2
  AnswerSets <- Typed
  Decimals = 2
  MaxU64 = 9000
PROPERTY NeverClobbers
CHECK_DEADLOCK FALSE
