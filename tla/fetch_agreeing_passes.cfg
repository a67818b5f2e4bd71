CONSTANTS
  None = None
  Ids <- MCIds
  RunIds <- MCRunIds
  Limit = 1
  LookupBatch = 2
  MaxPasses = 3
  RunawayFactor = 1
  RunawayPages = 1
  Overlap = 1
  Lag = 1
  Starts <- MCSynced
  MaxTime = 3
  MaxRev = 5
  MaxShifts = 2
  MaxFirstShifts = 2
  MaxStops = 0
  MaxStepBacks = 0
SPECIFICATION Spec
INVARIANTS
  ProvenIsComplete
