SPECIFICATION MCSpec
CHECK_DEADLOCK FALSE
CONSTANTS
  Files = {app}
  Mounts = {space}
  Services = {auth}
  Budgets <- MCBudgets
  Fetches = {c1, c2}
  Pinned = {c1}
  FetchRetries = 1
  FetchFaults = 2
  Transforms = {t1, t2}
INVARIANTS
  MemoInSync
  HostStateInSync
  LiveWorker
  NoFalseRefusal
PROPERTIES
  EveryDocumentIsServed
  RequestsSettle
