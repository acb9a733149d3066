CONSTANTS
  NodesSize = 3
  MODE_TYPE = 0
  MasterOf <- MasterIs0
  Values = {}
  NULL = NULL
SPECIFICATION LiveSpec
PROPERTY WaitEnds
CHECK_DEADLOCK FALSE
