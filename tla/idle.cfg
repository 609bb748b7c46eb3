SPECIFICATION FairSpec
CONSTANTS
  c1 = c1
  c2 = c2
  c3 = c3
  Call <- Three
  Watch = {}
  Batch = 1
  MaxSubs = 2
  AutoShutdown = TRUE
  Budget <- DialFails
PROPERTIES AnsweredCloses
CHECK_DEADLOCK FALSE
