CONSTANTS
  p1 = p1
  p2 = p2
  here = here
  there = there
  None = None
  Procs <- MCProcs
  Hosts <- MCHosts
  HostOf <- MCHostOf
  CheckHost = here
  Endpoints <- MCEndpoints
  Requests <- MCRequests
  MaxFaults = 2
  MaxManual = 0
SPECIFICATION HealthSpec
INVARIANTS
  SecondSignalIgnored
