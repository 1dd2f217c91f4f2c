SPECIFICATION Spec
CONSTANTS
  SectorBytes = 2
  NSectors = 5
  First = 1
  Last = 3
  Payloads <- MCPayload2
  ZeroBuf = 4
  Images <- MCNoImages
  InitDisks <- MCInitDisks
  MaxJobs = 2
  TornWrites = TRUE
CHECK_DEADLOCK FALSE
INVARIANT DumpExact
