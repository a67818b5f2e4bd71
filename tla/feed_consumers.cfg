CONSTANTS
  e1 = e1
  e2 = e2
  r1 = r1
  r2 = r2
  None = None
  Endpoints <- MCEndpoints
  Ids <- MCIds
  RunIds <- MCRunIds
  Versions <- MCVersions
  MaxSeq = 3
  Orders <- MCBoth
SYMMETRY MCSymmetry
SPECIFICATION Spec
INVARIANTS
  TypeOK
  MissesOnlyOvertaken
PROPERTIES
  NeverRolledBack
  ChangesAreStamped
