SPECIFICATION Spec
CONSTANTS
  Inputs <- MCInputs
  Keywords <- MCKeywords
  CheckNextBug = TRUE
  MaxLines = 5
  MaxElement = 7
INVARIANTS
  SameTokens
  SameStrings
PROPERTIES
  LexingEnds
CHECK_DEADLOCK FALSE
