SPECIFICATION FairSpec
CONSTANTS
  LoaderLen = 2
  MaxQueued = 2
  MaxTries = 3
  TextWords = 30
  DoneLimit = 8
CHECK_DEADLOCK FALSE
INVARIANTS TypeOK ChunkAnswersRequest
PROPERTY SkipSound HandshakeReturns
