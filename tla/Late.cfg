SPECIFICATION LateSpec
CONSTANTS
  Clients = {c1, c2}
  Keys = {k1}
  LongKeys = {k1}
  BadKeys = {k1}
  Contents = {a, b}
  Oversized = {}
  Payloads = {p1, p2}
  MaxTransfers = 2
  MaxAttempts = 1
  LostAcks = TRUE
  Legacy400 = FALSE
  NoKey = NoKey
  NoData = NoData
  Garbage = Garbage
  NoPayload = NoPayload
  MaxLate = 2
SYMMETRY Symmetry
VIEW LateView
INVARIANTS
  NoDanglingUnlessHasty
PROPERTY
  LateImmutable
