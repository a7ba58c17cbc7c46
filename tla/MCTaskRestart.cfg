CONSTANTS
  a1 = a1
  b1 = b1
  c1 = c1
  Task <- MCTask
  Job <- MCJob
  JobOf <- MCJobOf
  Workflow = {2, 3}
  Graph = {2}
  Invalid = {2, 3}
  Cancellable = {a1}
  MaxLimit = 1
  MaxRestarts = 1
SPECIFICATION FairSpec
INVARIANTS
  OutcomeIsDurable
PROPERTY EveryTaskEnds
CHECK_DEADLOCK FALSE
