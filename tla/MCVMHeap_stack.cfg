SPECIFICATION VMSpec
CONSTANTS
  Globals = Globals
  Registry = Registry
  MainThread = MainThread
  t = t
  s1 = s1
  s2 = s2
  s3 = s3
  Nil = Nil
  Objects <- MCObjects
  Kind <- MCKind
  Size <- MCSize
  MinThreshold = 3
  MaxRefs = 0
  MaxCollect = 0
  Texts <- OneText
  Hash <- OneHash
  StackSize = 2
INVARIANTS
  StackValuesLive
CHECK_DEADLOCK FALSE
