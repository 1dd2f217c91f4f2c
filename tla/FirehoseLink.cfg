SPECIFICATION Spec
CONSTANTS
  a = a
  b = b
  Zero = Zero
  Junk = Junk
  Vals <- MCOneVal
  NSectors = 2
  MaxN = 2
  MaxCalls = 3
  MaxUnclean = 1
  Styles <- MCAllStyles
  InitDisks <- MCInitDisks
  MaxEmpty = 1
  MaxAttempts = 2
  MaxBuf = 6
  SplitClose = FALSE
INVARIANTS TypeOK Drained AnswersOwn DiskUnspoiled ReadLength
PROPERTY ImplementsService
CHECK_DEADLOCK FALSE
