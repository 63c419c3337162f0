SPECIFICATION Spec
CONSTANTS
  a = a
  b = b
  Here = Here
  NoName = NoName
  Names <- MCNames
  Moving <- MCMoving
  Outer <- MCOuter
  Parameters <- MCParameters
  MaxStatements = 4
  MaxDepth = 3
  MaxFunctions = 1
INVARIANTS
  TypeOK
  
  
  
CHECK_DEADLOCK FALSE
