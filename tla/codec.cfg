CONSTANTS
  Sizes = {1, 2, 3, 4, 5, 6}
  Bytes = {7, 200}
  BlockSizes = {1}
  MaxRounds = 2
SPECIFICATION Spec
INVARIANTS TypeOK RSInv AdoptedIsValue OwnBlocksAgree RivalBlocksAgree
CHECK_DEADLOCK FALSE
