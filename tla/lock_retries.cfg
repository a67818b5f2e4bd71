CONSTANTS
  p1 = p1
  p2 = p2
  p3 = p3
  here = here
  there = there
  None = None
  Procs <- MCProcs
  Hosts <- MCHosts
  HostOf <- MCHostOf
  Pids <- MCPids
  Skew <- MCNoSkew
  StaleAfter = 3
  MaxAttempts = 3
  MaxDelay = 1
  MaxGap = 1
  Prompt = TRUE
  MaxTime = 5
SPECIFICATION Spec
PROPERTIES
  OnlyHolderWrites
CHECK_DEADLOCK FALSE
