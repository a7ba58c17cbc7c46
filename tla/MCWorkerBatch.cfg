CONSTANTS
  batch = batch
  export = export
  te = te
  c1 = c1
  c2 = c2
  cx = cx
  Export = export
  ExportTask = te
  Stop = cx
  t1 = t1
  t2 = t2
  NoWorker = NoWorker
  Worker = {batch, export}
  Task = {t1, t2, te}
  CommandOf <- MCCommandOf
  IdsOf <- MCIdsOf
  Updater = {}
  Canceller = {c1, c2, cx}
  MaxLines = 2
SPECIFICATION MCSpec
INVARIANTS
  RegistryIsLive
  OutcomeNotLost
  CancelTakesWholeBatch
  WindowTellsTruth
  NothingLeftBehind
PROPERTIES
  CancelFreesRuntime
  CancelEndsExport
CHECK_DEADLOCK FALSE
