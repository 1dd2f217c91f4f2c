SPECIFICATION Spec
CONSTANTS
  None = None
  Ports = {1, 2}
  Phones = {"emmc", "ufs"}
  Hardware <- MCHardware
  Layouts <- MCLayouts
  Settings <- MCSettings
  Names <- MCNames
  MaxCalls = 3
  MaxPlugs = 2
INVARIANTS FindFresh
CHECK_DEADLOCK FALSE
