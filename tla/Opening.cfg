SPECIFICATION Spec
CONSTANTS
  MinMultipart = 5
  MaxMultipart = 5120
  DefaultThreshold = 64
  DefaultPartSize = 16
  DefaultConcurrency = 3
  MaxConcurrency = 64
  DefaultTransfers = 4
  MaxTransfers = 32
  MemoryBudget = 512
  MaxUploadParts = 10000
  Requests <- Fields
  BucketDefault <- PlainBucket
  Callers = {c1, c2, c3}
SYMMETRY Symmetric
INVARIANTS
  StoredAsConfigured
  AccountedWithinBudget
  KeysFit
