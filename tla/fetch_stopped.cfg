CONSTANTS
  None = None
  Ids <- MCTwoIds
  RunIds <- MCFourRunIds
  Limit = 1
  LookupBatch = 2
  MaxPasses = 3
  RunawayFactor = 1
  RunawayPages = 1
  Overlap = 1
  Lag = 1
  Starts <- MCBoth
  MaxTime = 3
  MaxRev = 3
  MaxShifts = 1
  MaxFirstShifts = 0
  MaxStops = 1
  MaxStepBacks = 1
SPECIFICATION FairSpec
INVARIANTS
  CursorSound
  ProvenIsComplete
PROPERTIES
  QuietWindowMirrors
  EventuallyMirrored
