SPECIFICATION Spec
CONSTANTS
  Clients = {c1, c2}
  Keys = {k1}
  LongKeys = {k1}
  BadKeys = {k1}
  Contents = {a, b}
  Oversized = {}
  Payloads = {p1, p2, p3}
  MaxTransfers = 2
  MaxAttempts = 2
  LostAcks = TRUE
  Legacy400 = FALSE
  NoKey = NoKey
  NoData = NoData
  Garbage = Garbage
  NoPayload = NoPayload
SYMMETRY Symmetry
INVARIANTS
  TypeOK
  CleanupSafe
  CleanupInv
  PayloadNeverWrong
  ResultsTruthful
PROPERTIES
  Immutable
  ImplementsBlobs
