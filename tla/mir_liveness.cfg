SPECIFICATION FairSpec
CONSTANTS
  LastBlock = 3
  Variables = {"x", "y"}
  NoVariable = "none"
  Functions <- SmallFunctions
INVARIANTS
  TypeOK
  NeverOverestimates
  SolvesEquations
  LiveAlongPaths
PROPERTIES
  AnalysisEnds
