SPECIFICATION Spec
CONSTANTS
  None = None
  Startup = Startup
  t1 = t1
  t2 = t2
  g = g
  a1 = a1
  a2 = a2
  b1 = b1
  Task <- Two
  Block <- Few
  Genesis = g
  Parent <- FewParents
  Number <- FewNumbers
  SpecVersion <- FewSpecs
  Chain <- FewChains
  Known <- NoTable
  Methods = 2
  Runtimes = 1
  Disk = FALSE
  Local = FALSE
  Calls = 3
  Faults = 1
  Restarts = 0
PROPERTIES CallsEnd
CHECK_DEADLOCK FALSE
