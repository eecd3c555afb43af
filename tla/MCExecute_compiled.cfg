SPECIFICATION Spec
CONSTANTS
  MaxStackSize = 9
  MaxVars = 6
  RKMax = 2
  FieldsPerFlush = 2
  MaxC = 2
  StackLen = 16
  MaxDepth = 5
  Cases <- MCCases
INVARIANTS
  
  CodeChecks
  ComputesSource
  StackInBounds
CHECK_DEADLOCK FALSE
