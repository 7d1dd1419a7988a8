SPECIFICATION Spec
CONSTANTS
  Clients = {c1, c2}
  Keys = {k1}
  LongKeys = {}
  BadKeys = {}
  Contents = {a}
  Oversized = {}
  Payloads = {p1}
  MaxTransfers = 2
  MaxAttempts = 2
  LostAcks = TRUE
  Legacy400 = FALSE
  NoKey = NoKey
  NoData = NoData
  Garbage = Garbage
  NoPayload = NoPayload
INVARIANTS
  NoDangling
