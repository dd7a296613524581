SPECIFICATION Spec
CONSTANTS
  Endpoints = 2
  ReorgDepth = 1
  Burst = 1
  MinConf = 3
  MaxHeight = 4

PROPERTY TipsNeverFall
