SPECIFICATION Spec

CONSTANTS
  MaxFails = 3
  MaxKills = 2

INVARIANTS
  VersionKept
  ReportIsTrue
  OneInstance

PROPERTIES
  UpdateEnds

\* The update ends, and the application that the user keeps running does nothing more.
CHECK_DEADLOCK FALSE
