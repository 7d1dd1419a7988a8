SPECIFICATION FairSpec
CONSTANTS
  Maximum = 7
  Threshold = 3
  PartSize = 2
  Workers = 2
  MaxAttempts = 3
  LostAcks = TRUE
  MaxSource = 8
CHECK_DEADLOCK FALSE
INVARIANTS
  ObjectWhole
  OutcomeTrue
  NothingLeftBehind
PROPERTY
  UploadEnds
