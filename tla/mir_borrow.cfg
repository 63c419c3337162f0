SPECIFICATION BorrowSpec
CONSTANTS
  LastBlock = 7
  NoVariable = 0
  Variables <- Numbers
  Functions <- AllFunctions
  ParameterVariables <- FirstParameter
INVARIANTS
  BorrowTypeOK
  ReportsStand
  EndsAtFixpoint
  UsesAfterMoveAreReported
  LoweredCodeIsClean
PROPERTIES
  StatesOnlyRise
