CONSTANTS
  None = None
  Ids <- MCIds
  RunIds <- MCRunIds
  Limit = 1
  LookupBatch = 2
  MaxPasses = 2
  RunawayFactor = 1
  RunawayPages = 1
  Overlap = 1
  Lag = 1
  Starts <- MCBoth
  MaxTime = 3
  MaxRev = 5
  MaxShifts = 1
  MaxFirstShifts = 0
  MaxStops = 0
  MaxStepBacks = 0
SPECIFICATION Spec
INVARIANTS
  TypeOK
  CursorSound
  ProvenIsComplete
PROPERTIES
  DeletesConfirmed
  QuietWindowMirrors
