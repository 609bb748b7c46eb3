SPECIFICATION Spec
CONSTANTS
  a1 = a1
  a2 = a2
  a3 = a3
  a4 = a4
  Call <- Three
  Key = {k1}
  Disk = {k1}
  MaxSize = 1
  Faults = 0
SYMMETRY Symmetry
INVARIANTS NoStaleMissOnDisk
CHECK_DEADLOCK FALSE
