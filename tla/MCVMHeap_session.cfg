SPECIFICATION VMSpec
CONSTANTS
  Globals = Globals
  Registry = Registry
  MainThread = MainThread
  t = t
  s1 = s1
  s2 = s2
  s3 = s3
  Nil = Nil
  Objects <- FewerObjects
  Kind <- MCKind
  Size <- MCSize
  MinThreshold = 4
  MaxRefs = 0
  MaxCollect = 2
  Texts <- MCTexts
  Hash <- Colliding
  StackSize = 2
INVARIANTS
  QuietSession
PROPERTIES
  NamesKeptApart
  ReachableNeverFreed
CHECK_DEADLOCK FALSE
