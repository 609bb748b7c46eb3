SPECIFICATION FairSpec
CONSTANTS
  c1 = c1
  c2 = c2
  c3 = c3
  Call <- Two
  Watch = {}
  Batch = 2
  MaxSubs = 2
  AutoShutdown = FALSE
  Budget <- Quiet
PROPERTIES CallsSettle
CHECK_DEADLOCK FALSE
