SPECIFICATION LateSpec
CONSTANTS
  Clients = {c1, c2}
  Keys = {k1}
  LongKeys = {}
  BadKeys = {}
  Contents = {a, b}
  Oversized = {}
  Payloads = {p1, p2}
  MaxTransfers = 2
  MaxAttempts = 1
  LostAcks = FALSE
  Legacy400 = FALSE
  NoKey = NoKey
  NoData = NoData
  Garbage = Garbage
  NoPayload = NoPayload
  MaxLate = 1
SYMMETRY Symmetry
INVARIANTS
  CleanupFinal
