SPECIFICATION Spec
CONSTANTS
  t1 = t1
  t2 = t2
  caller = caller
  Task <- Two
  Caller = caller
  Block <- Blocks
  Reads = 3
  Faults = 1
INVARIANTS SequentialReadsAgree TrueIsSuccess
PROPERTIES VerdictStands
CHECK_DEADLOCK FALSE
