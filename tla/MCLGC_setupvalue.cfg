SPECIFICATION Spec
CONSTANTS
  a = a
  b = b
  c = c
  d = d
  m = m
  reg = reg
  s1 = s1
  s2 = s2
  Nil = Nil
  Main = m
  Registry = reg
  Id <- MCId
  Slot <- MCSlots
  Shapes <- SetUpvalues
  MaxNest = 2
INVARIANT
  NoDangling
CHECK_DEADLOCK FALSE
SYMMETRY SlotSymmetry
