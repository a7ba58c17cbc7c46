CONSTANTS
  File = {f, g}
  None = None
  MaxFails = 2
  MaxCrashes = 1
SPECIFICATION Spec
INVARIANTS
  NothingLost
  SettingHasModels
PROPERTIES
  DialogEnds
CHECK_DEADLOCK FALSE
