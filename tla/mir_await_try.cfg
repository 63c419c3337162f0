SPECIFICATION OptimizerSpec
CONSTANTS
  LastBlock = 5
  NoVariable = 0
  Variables <- Numbers
  Functions <- AwaitFunctions
  IterationLimit = 20
  MaxJumps = 40
INVARIANTS
  ExceptHandlesException
