CONSTANTS
  Apply = apply
  Recoverer = {recover1}
  Instance = {first, second}
  First = first
  Nobody = Nobody
  Had = {"python", "exe"}
  Archives = {{"python", "exe"}, {"python", "bin", "exe"}}
  MaxFailures = 1
  MaxCrashes = 1
  MaxEarly = 0
SPECIFICATION Spec
INVARIANT InterruptedBoots
CHECK_DEADLOCK FALSE
