SPECIFICATION CodecsSpec
CONSTANTS
  Deployments <- MCDeployments
  Names <- MCNames
  NameBytes = {97, 98}
  MaxName = 4
  MaxSegment = 3
  Symbols = {0, 17, 64, 65}
  MaxEdits = 2
  MaxLogical = 2
  MaxKey = 7
  MaxManifest = 8
  MaxLength = 3
  MaxInt = 1
  MaxBody = 9
INVARIANTS
  DeploymentsIsolated
  RowsReadBack
  DecodingCanonical
  PayloadBound
  PublishedReadsBack
  AcceptedIsCanonical
  ScanIsExact
