SPECIFICATION Spec
CONSTANTS
  t1 = t1  t2 = t2
  Unset = Unset
  Empty = Empty
  Credential = Credential
  Placeholder <- Example
  Starts <- Hands
  MaxAsks = 3
  CustomDir = "cwd"
  MaxLaunches = 3
  AnswerSets <- Mistyped
  Decimals = 2
  MaxU64 = 9000
INVARIANT WizardValidates
CHECK_DEADLOCK FALSE
