CONSTANTS
  e1 = e1
  e2 = e2
  r1 = r1
  r2 = r2
  None = None
  Endpoints <- MCEndpoints
  Ids <- MCIds
  RunIds <- MCRunIds
  Versions <- MCVersions
  MaxSeq = 2
  Orders <- MCReaderOnly
SYMMETRY MCSymmetry
SPECIFICATION Spec
INVARIANTS
  NoMissedChange
