CONSTANTS
  NodesSize = 4
  MODE_TYPE = 0
  MasterOf <- MasterIs0
  Values = {v1}
  NULL = NULL
  MaxRound = 1
  MaxCrash = 1
  Preset = FALSE
SPECIFICATION LiveSpec
PROPERTY EventuallyLearned
CHECK_DEADLOCK FALSE
