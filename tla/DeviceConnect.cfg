SPECIFICATION Spec
CONSTANTS
  None = None
  Devices = {1, 2}
  Ports = {1, 2, 3, 4}
  Kinds <- MCKinds
  Layouts <- MCLayouts
  Settings <- MCSettings
  MaxPolls = 2
  MaxPlugs = 1
INVARIANTS TypeOK FrameRoundTrip FoundIsMeant ConnectsToFound SessionIsTrue
PROPERTIES ConnectReturns WaitEnds
CHECK_DEADLOCK FALSE
