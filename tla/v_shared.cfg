SPECIFICATION Spec
CONSTANTS
  a1 = a1
  a2 = a2
  a3 = a3
  a4 = a4
  Call <- Three
  Key = {k1}
  Disk = {}
  MaxSize = 1
  Faults = 1
SYMMETRY Symmetry
INVARIANTS ResultIsShared
CHECK_DEADLOCK FALSE
