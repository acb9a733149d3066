CONSTANTS
  NodesSize = 4
  MODE_TYPE = 1
  MasterOf <- TwoMasters
  Values = {v1, v2}
  NULL = NULL
  MaxRound = 2
  MaxCrash = 1
  Preset = FALSE
SPECIFICATION Spec
INVARIANTS Agreement ChosenHeld  QuiescentDone
CHECK_DEADLOCK FALSE
