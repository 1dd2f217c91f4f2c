SPECIFICATION FlashSpec
CONSTANTS
  SectorBytes = 2
  NSectors = 5
  First = 1
  Last = 3
  Payloads <- MCPayloads
  ZeroBuf = 4
  Images <- MCImages
  InitDisks <- MCInitDisks
  MaxJobs = 3
  TornWrites = FALSE
  Plans <- MCPlans
CHECK_DEADLOCK FALSE
INVARIANTS TypeOK DumpExact WriteExact EraseExact FlashExact
PROPERTIES OutsideUntouched FlashContained JobReturns
