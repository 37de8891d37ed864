SPECIFICATION Spec
CONSTANTS
  Entry = app
  Deps = {answer}
  Pkg = pkg
  Html = html
  Vendored = {vendored}
  Hot = {app, answer}
  Kinds <- CodeKinds
  FirstKind <- PlainApp
  Rewrites = TRUE
  MaxEdits = 2
  MaxFaults = 0
INVARIANT OkMeansEvaluated
CHECK_DEADLOCK FALSE
