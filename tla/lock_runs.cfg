CONSTANTS
  p1 = p1
  p2 = p2
  p3 = p3
  here = here
  there = there
  None = None
  Procs <- MCProcs
  Hosts <- MCHosts
  HostOf <- MCHostOf
  Pids <- MCPids
  Skew <- MCSkew
  StaleAfter = 3
  MaxAttempts = 2
  MaxDelay = 1
  MaxGap = 1
  Prompt = FALSE
  MaxTime = 4
SYMMETRY MCSymmetry
SPECIFICATION Spec
INVARIANTS
  TypeOK
  Mutex
PROPERTIES
  LockKept
  SingleFencedWriter
CHECK_DEADLOCK FALSE
