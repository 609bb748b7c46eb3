SPECIFICATION Spec
CONSTANTS
  Width = 2
  Query <- Queries
  Writes = 2
  Faults = 1
INVARIANTS PinnedIsExact AgreesWithSync Increasing NothingSkipped
PROPERTIES IterationEnds
CHECK_DEADLOCK FALSE
