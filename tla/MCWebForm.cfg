SPECIFICATION FairSpec
CONSTANTS
  Boundary <- MCBoundary
  Query <- MCQuery
  Bytes <- MCBytes
  BufLen = 2
  ARGS = 1
  MaxFile = 5
  MaxParts = 2
INVARIANTS
  UploadExact
  GivenIsPrefix
  FieldsCollected
PROPERTY
  UploadReported
