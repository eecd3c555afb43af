SPECIFICATION Spec
CONSTANTS
  x = x
  Nil = Nil
  ArraySizes <- MCSizes
  IntKeys <- MCIntKeys
  OtherKeys <- NoKeys
  Vals = {v}
  MaxInt = 5
INVARIANTS
  GetnBorder
  IntegerTraversal
PROPERTIES
  Terminates
