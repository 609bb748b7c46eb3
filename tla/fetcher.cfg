SPECIFICATION Spec
CONSTANTS
  a1 = a1
  a2 = a2
  a3 = a3
  a4 = a4
  Call <- Four
  Key = {k1, k2, k3}
  Disk = {k3}
  MaxSize = 2
  Faults = 2
SYMMETRY Symmetry
INVARIANTS TypeOK SingleFlight AnswerIsOfKey LeastRecentlyUsed NoOrphan NoStaleMiss
CHECK_DEADLOCK FALSE
