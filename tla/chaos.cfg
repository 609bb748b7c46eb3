SPECIFICATION Spec
CONSTANTS
  c1 = c1
  c2 = c2
  c3 = c3
  Call <- Two
  Watch = {c1}
  Batch = 2
  MaxSubs = 2
  AutoShutdown = TRUE
  Budget <- AllFaults
INVARIANTS TypeOK OneCopy NoSecondAnswer OneDialer PermitLimit WaitingCovers
PROPERTIES AnswerKept TimerRespectsCalls ImplementsService
CHECK_DEADLOCK FALSE
