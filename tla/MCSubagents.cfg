SPECIFICATION FairSpec
CONSTANTS
  u = u
  v = v
  Id <- MCId
  Workers = {u, v}
  Hanging = {v}
  Cancellable = {u}
  Limit = 2
  MaxAwaits = 1
  NoWorker = NoWorker
CHECK_DEADLOCK FALSE
INVARIANTS
  UsageCountedOnce
  FileCatchesUp
  TurnAccountsForWorkers
PROPERTIES
  RecordOnlyAdvances
  BarrierEnds
