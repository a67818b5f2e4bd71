CONSTANTS
  None = None
  Ids <- MCTwoIds
  RunIds <- MCFiveRunIds
  Limit = 1
  LookupBatch = 2
  MaxPasses = 2
  RunawayFactor = 1
  RunawayPages = 1
  Overlap = 2
  Lag = 2
  Starts <- MCSynced
  MaxTime = 3
  MaxRev = 3
  MaxShifts = 1
  MaxFirstShifts = 1
  MaxStops = 0
  MaxStepBacks = 0
SPECIFICATION TakeOverSpec
INVARIANTS
  TakeOverTypeOK
  CursorSound
  ProvenIsComplete
PROPERTIES
  DeletesConfirmed
  QuietWindowMirrors
