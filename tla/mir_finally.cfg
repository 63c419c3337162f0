CONSTANTS
  NoVariable = 0
  MaxJumps = 150
  MaxInputs = 3
SPECIFICATION Spec
CHECK_DEADLOCK FALSE
INVARIANT FinallyAlwaysRuns
