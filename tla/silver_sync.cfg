CONSTANTS
  None = None
  Endpoints <- MCEndpoints
  Endpoint = "styles"
  Ids <- MCIds
  RunIds <- MCRunIds
  Versions <- MCVersions
  Fields <- MCFields
  Content <- MCContent
  Plans <- MCPlans
  MaxSeq = 3
  BatchSize = 1
  MaxRebuilds = 2
  MaxCrashes = 1
SPECIFICATION FairSpec
INVARIANTS
  TypeOK
  SyncedUpToSeq
  TablesTakeTheirValues
PROPERTIES
  FieldsOnlyWiden
  SyncedUnlessBlocked
