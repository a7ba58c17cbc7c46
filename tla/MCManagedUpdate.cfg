CONSTANTS
  Apply = apply
  Recoverer = {recover1, recover2}
  Instance = {first, second}
  First = first
  Nobody = Nobody
  Had = {"python", "exe"}
  Archives = {{"python", "exe"}, {"python", "bin", "exe"}}
  MaxFailures = 3
  MaxCrashes = 2
  MaxEarly = 1
SPECIFICATION FairSpec
INVARIANTS
  OriginalKept
  WholeUnlessMarked
PROPERTIES
  Recovers
  UpdateSucceeds
CHECK_DEADLOCK FALSE
