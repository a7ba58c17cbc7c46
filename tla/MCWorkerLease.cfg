CONSTANTS
  plugin = plugin
  operation = operation
  tp = tp
  to = to
  NoWorker = NoWorker
  Worker = {plugin, operation}
  Task = {tp, to}
  CommandOf <- MCCommandOf
  IdsOf <- MCIdsOf
  Updater = {update}
  Canceller = {c1}
  MaxLines = 1
SPECIFICATION EndingSpec
INVARIANTS
  RuntimeExclusion
PROPERTIES
  EveryCallAnswered
CHECK_DEADLOCK FALSE
