CONSTANTS
  Sizes = {4}
  Bytes = {7, 200}
  BlockSizes = {1}
  MaxRounds = 2
SPECIFICATION Spec
INVARIANT EnoughBlocksReconstruct
CHECK_DEADLOCK FALSE
