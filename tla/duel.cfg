CONSTANTS
  NodesSize = 4
  MODE_TYPE = 0
  MasterOf <- TwoMasters
  Values = {v1, v2}
  NULL = NULL
  MaxRound = 2
  MaxCrash = 1
  Preset = FALSE
SPECIFICATION Spec
INVARIANTS TypeOK IInv Agreement LearnedIsChosen ChosenHeld QuiescentDone QuiescentLearned ProgressInv
PROPERTY ImplementsConsensus
CHECK_DEADLOCK FALSE
