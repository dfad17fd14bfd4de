CONSTANTS
  NumBlocks <- MCNumBlocks
  PredSets <- MCPredSets
SPECIFICATION Spec
INVARIANTS
  TypeOK
  HotCodeIsInnerLoops
