SPECIFICATION Spec
CONSTANTS
  Closers = {x, y}
  Size = 3
  MaxBuffer = 2
INVARIANTS
  NothingAfterClose
  EofIsVerified
  SlotReleasedOnce
PROPERTIES
  CloseReturns
  CloseUnblocksRead
