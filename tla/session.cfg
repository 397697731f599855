SPECIFICATION FairSpec
CONSTANTS
  Digits = {"7", "8"}
  Ids <- SomeIds
  RowRead = 4
  ShutdownTries = 3
CHECK_DEADLOCK FALSE
INVARIANTS TypeOK NothingHeld ChunksFromStart ServedIsAuthorised
PROPERTIES Reconnects AnswerEnds
