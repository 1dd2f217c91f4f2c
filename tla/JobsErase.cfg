SPECIFICATION Spec
CONSTANTS
  SectorBytes = 2
  NSectors = 5
  First = 1
  Last = 3
  Payloads <- MCPayload8
  ZeroBuf = 4
  Images <- MCNoImages
  InitDisks <- MCInitDisks
  MaxJobs = 1
  TornWrites = FALSE
CHECK_DEADLOCK FALSE
INVARIANT EraseDoesNotPanic
