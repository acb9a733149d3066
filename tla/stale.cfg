CONSTANTS
  NodesSize = 5
  MODE_TYPE = 0
  MasterOf <- TwoMasters
  Values = {v1, v2}
  NULL = NULL
  MaxRound = 2
  MaxCrash = 0
  Preset = FALSE
SPECIFICATION Spec
INVARIANT PhaseTwoRespectsChosen
CHECK_DEADLOCK FALSE
SYMMETRY ValueSymmetry
CONSTRAINT StaleBounds
