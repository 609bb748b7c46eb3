SPECIFICATION Spec
CONSTANTS
  None = None
  Startup = Startup
  t1 = t1
  t2 = t2
  g = g
  a1 = a1
  a2 = a2
  b1 = b1
  Task <- One
  Block <- Blocks
  Genesis = g
  Parent <- Parents
  Number <- Numbers
  SpecVersion <- Specs
  Chain <- ChainTo
  Known <- Table
  Methods = 2
  Runtimes = 1
  Disk = FALSE
  Local = FALSE
  Calls = 2
  Faults = 0
  Restarts = 0
INVARIANTS LastKnownIgnored
CHECK_DEADLOCK FALSE
