SPECIFICATION SilentSpec
CONSTANTS
  c1 = c1
  c2 = c2
  c3 = c3
  Call = {c1}
  Watch = {}
  Batch = 1
  MaxSubs = 2
  AutoShutdown = TRUE
  Budget <- Quiet
PROPERTIES CallsSettle
CHECK_DEADLOCK FALSE
