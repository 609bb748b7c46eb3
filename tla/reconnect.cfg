SPECIFICATION FairSpec
CONSTANTS
  c1 = c1
  c2 = c2
  c3 = c3
  Call = {c1}
  Watch = {}
  Batch = 2
  MaxSubs = 2
  AutoShutdown = TRUE
  Budget <- Reconnects
INVARIANTS NothingLost
PROPERTIES CallsSettle
CHECK_DEADLOCK FALSE
