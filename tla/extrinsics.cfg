SPECIFICATION Spec
CONSTANTS
  Task = {t1, t2}
  Plans <- FourPlans
  LookedUp = {3}
  Period = 3
  Height = 4
  Calls = 2
  Troubles = 1
CHECK_DEADLOCK FALSE
INVARIANTS CachedNoncesFollow SignatureStands ReceiptIsTrue
PROPERTIES SubmissionEnds
