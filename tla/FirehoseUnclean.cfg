SPECIFICATION HostFairSpec
CONSTANTS
  a = a
  b = b
  Zero = Zero
  Junk = Junk
  Vals <- MCOneVal
  NSectors = 1
  MaxN = 1
  MaxCalls = 2
  MaxUnclean = 2
  Styles <- MCTwoStyles
  InitDisks <- MCInitDisks
  MaxEmpty = 0
  MaxAttempts = 1
  MaxBuf = 6
  SplitClose = FALSE
CHECK_DEADLOCK FALSE
PROPERTY CallEnds
