SPECIFICATION Spec
CONSTANTS
  c1 = c1
  c2 = c2
  c3 = c3
  Call <- Two
  Watch = {}
  Batch = 1
  MaxSubs = 2
  AutoShutdown = TRUE
  Budget <- Quiet
PROPERTIES TimerSparesCalls
CHECK_DEADLOCK FALSE
