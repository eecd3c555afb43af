SPECIFICATION Spec
CONSTANTS
  x = x
  y = y
  Nil = Nil
  ArrayLimit = 2
  IntKeys <- MCIntKeys
  OtherKeys <- MCOtherKeys
  Vals = {v, w}
INVARIANTS
  LengthBorderInArray
  TraversalOnce
PROPERTIES
  ImplementsMap
