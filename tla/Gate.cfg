SPECIFICATION FairSpec
CONSTANTS
  Clients = {c1, c2}
  Keys = {k1, k2}
  LongKeys = {k1}
  BadKeys = {k1}
  Contents = {a, big}
  Oversized = {big}
  Payloads = {p1}
  MaxTransfers = 1
  MaxAttempts = 2
  LostAcks = TRUE
  Legacy400 = TRUE
  NoKey = NoKey
  NoData = NoData
  Garbage = Garbage
  NoPayload = NoPayload
INVARIANTS
  SlotsBalanced
PROPERTIES
  CallsEnd
  SlotsReturn
