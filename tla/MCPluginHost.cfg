CONSTANTS
  wa = wa
  wb = wb
  pa = pa
  pb = pb
  NoWindow = noWindow
  NoPackage = noPackage
  Window <- MCWindow
  Package <- MCPackage
  MaxLoads = 3
  MaxDialogs = 1
  MaxDeaths = 1
  MaxRuns = 2
SPECIFICATION MCSpec
INVARIANTS
  ShutdownReachesHelpers
  RestoreWins
PROPERTIES
  RecoveryNeverReplaces
  PollIsTruthful
  ScanKeepsIdentified
SYMMETRY Symmetry
CHECK_DEADLOCK FALSE
