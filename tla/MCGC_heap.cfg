SPECIFICATION Spec
CONSTANTS
  g = g
  r = r
  th = th
  c = c
  p = p
  u = u
  Objects <- MCObjects
  Kind <- MCKinds
  Size <- MCSizes
  MinThreshold = 3
  MaxRefs = 1
  MaxCollect = 2
INVARIANTS
  CollectExact
  NoDanglingRefs
PROPERTIES
  ReachableNeverFreed
  CollectionTerminates
CHECK_DEADLOCK FALSE
