SPECIFICATION Spec
CONSTANTS
  Endpoints = 2
  ReorgDepth = 1
  Burst = 1
  MinConf = 2
  MaxHeight = 4
INVARIANT ConfirmedStays
