SPECIFICATION Spec
CONSTANTS
  main = main
  backup = backup
  second = second
  pastnode = pastnode
  Task = {t1, t2}
  Main = caller
  Url = main
  Fallbacks <- TwoFallbacks
  Archives <- OneArchive
  Depth = 2
  MaxRetries = 2
  Stack = 14
  Flips = 1
  Calls = 2
CHECK_DEADLOCK FALSE
INVARIANTS EveryChainTried RequestGoesToUrl BoundedRetries
PROPERTIES CallEnds
