SPECIFICATION Spec
CONSTANTS
  MAXSTACK = 20
  MAXINDEXRK = 3
  LFIELDS_PER_FLUSH = 2
  MAXARG_C = 3
  MAXARG_sBx = 60
  LUAI_MAXVARS = 8
  LUAI_MAXUPVALUES = 3
  LUAI_MAXCCALLS = 12
  StackSize = 90
  LUAI_MAXCALLS = 12
  BASIC_CI_SIZE = 3
  MAXTAGLOOP = 3
  MaxCalls = 6
  Chunks <- MCChunks
INVARIANTS
  AssertionsHold
  OpenUpvaluesActive
  FlagsTrue
PROPERTIES
  ComputesSource
CHECK_DEADLOCK FALSE
