CONSTANTS
  NodesSize = 3
  MODE_TYPE = 0
  MasterOf <- TwoMasters
  Values = {v1, v2}
  NULL = NULL
  MaxRound = 2
  MaxCrash = 0
  Preset = FALSE
SPECIFICATION Spec
PROPERTY RestartsOnMajorityNo
CHECK_DEADLOCK FALSE
