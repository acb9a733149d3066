CONSTANTS
  NodesSize = 7
  MODE_TYPE = 2
  MasterOf <- MasterIsLast
  Values = {v1}
  NULL = NULL
  MaxRound = 1
  MaxCrash = 0
  Preset = TRUE
SPECIFICATION LiveSpec
PROPERTY EventuallyLearned
CHECK_DEADLOCK FALSE
