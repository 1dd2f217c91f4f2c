SPECIFICATION Spec
CONSTANTS
  a = a
  b = b
  Zero = Zero
  Junk = Junk
  Vals <- MCOneVal
  NSectors = 2
  MaxN = 2
  MaxCalls = 1
  MaxUnclean = 1
  Styles <- MCAllStyles
  InitDisks <- MCInitDisks
  MaxEmpty = 1
  MaxAttempts = 2
  MaxBuf = 6
  SplitClose = TRUE
CHECK_DEADLOCK FALSE
INVARIANT ReadExact
