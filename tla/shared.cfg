SPECIFICATION FairSpec
CONSTANTS
  c1 = c1
  c2 = c2
  c3 = c3
  Call <- Three
  Watch = {}
  Batch = 2
  MaxSubs = 4
  AutoShutdown = FALSE
  Budget <- DialFails
PROPERTIES CallsSettle
CHECK_DEADLOCK FALSE
