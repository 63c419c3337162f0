SPECIFICATION FairOptimizerSpec
CONSTANTS
  LastBlock = 7
  NoVariable = 0
  Variables <- Numbers
  Functions <- AllFunctions
  IterationLimit = 20
  MaxJumps = 80
INVARIANTS
  OptimizerTypeOK
  EdgesMatchCode
  EdgesLeadToBlocks
  StopsAtFixpoint
  SameBehaviour
PROPERTIES
  OptimizerEnds
