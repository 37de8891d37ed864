SPECIFICATION Spec
CONSTANTS
  Entry = app
  Deps = {answer}
  Pkg = pkg
  Html = html
  Vendored = {}
  Hot = {app, answer}
  Kinds <- CodeKinds
  FirstKind <- PlainApp
  Rewrites = TRUE
  MaxEdits = 2
  MaxFaults = 1
INVARIANTS CacheCoherent StaleIsExplained OkMeansEvaluated Convergence
PROPERTIES NoTerminalWhileReloading Settles
CHECK_DEADLOCK FALSE
