CONSTANTS
  None = None
  Endpoints <- MCEndpoints
  Endpoint = "styles"
  Ids <- MCIds
  RunIds <- MCRunIds
  Versions <- MCFloats
  Fields <- MCFields
  Content <- MCFloatContent
  Plans <- MCPlans
  MaxSeq = 1
  BatchSize = 2
  MaxRebuilds = 2
  MaxCrashes = 0
SPECIFICATION FairSpec
PROPERTIES
  EventuallySynced
