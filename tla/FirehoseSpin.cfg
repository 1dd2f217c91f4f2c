SPECIFICATION HostFairSpec
CONSTANTS
  a = a
  b = b
  Zero = Zero
  Junk = Junk
  Vals <- MCOneVal
  NSectors = 1
  MaxN = 1
  MaxCalls = 1
  MaxUnclean = 1
  Styles <- MCOneStyle
  InitDisks <- MCInitDisks
  MaxEmpty = 0
  MaxAttempts = 1
  MaxBuf = 6
  SplitClose = FALSE
CHECK_DEADLOCK FALSE
PROPERTY CallReturns
