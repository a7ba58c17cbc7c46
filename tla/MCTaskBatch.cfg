CONSTANTS
  a1 = a1
  a2 = a2
  b1 = b1
  Task <- MCTask
  Job <- MCJob
  JobOf <- MCJobOf
  Workflow = {1, 2}
  Graph = {1, 2}
  Invalid = {2}
  Cancellable = {a1, a2}
  MaxLimit = 2
  MaxRestarts = 0
SPECIFICATION Spec
SYMMETRY Symmetry
INVARIANTS
  NoSlotLeak
  CancelledIsDead
CHECK_DEADLOCK FALSE
