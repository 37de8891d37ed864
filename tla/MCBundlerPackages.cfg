SPECIFICATION Spec
CONSTANTS
  Entry = app
  Deps = {answer}
  Pkg = pkg
  Html = html
  Vendored = {vendored}
  Hot = {}
  Kinds <- PkgKinds
  FirstKind <- PlainApp
  Rewrites = TRUE
  MaxEdits = 2
  MaxFaults = 1
INVARIANT Convergence
PROPERTY Settles
CHECK_DEADLOCK FALSE
