CONSTANTS
  NodesSize = 6
  MODE_TYPE = 3
  MasterOf <- MasterIsLast
  Values = {v1}
  NULL = NULL
  MaxRound = 1
  MaxCrash = 0
  Preset = FALSE
SPECIFICATION LiveSpec
PROPERTY EventuallyLearned
CHECK_DEADLOCK FALSE
