CONSTANTS
  NodesSize = 3
  MODE_TYPE = 0
  MasterOf <- TwoMasters
  Values = {v1, v2, v3}
  Clients = {v1, v2}
  NULL = NULL
  DataName = DataName
  WindowSize <- Windows
  Threads = 2
  MaxSlot = 3
  MayCrash = {1}
SPECIFICATION LiveSpec
INVARIANTS TypeOK WindowRespected QueueInOrder ChosenOnce NothingForgotten CallbacksInOrder AnswersTrue
PROPERTIES ImplementsLog SlotsAreConsensus AlwaysSettles
CHECK_DEADLOCK FALSE
