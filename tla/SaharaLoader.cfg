SPECIFICATION Spec
CONSTANTS
  LoaderLen = 2
  MaxQueued = 2
  MaxTries = 1
  TextWords = 30
  DoneLimit = 8
CHECK_DEADLOCK FALSE
INVARIANT LoaderGuaranteed
