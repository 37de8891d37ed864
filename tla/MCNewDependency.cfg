SPECIFICATION Spec
CONSTANTS
  Entry = app
  Deps = {answer}
  Pkg = pkg
  Html = html
  Vendored = {}
  Hot = {app, answer}
  Kinds <- PkgKinds
  FirstKind <- PlainApp
  Rewrites = TRUE
  MaxEdits = 2
  MaxFaults = 0
INVARIANT NewDependencyAdopted
CHECK_DEADLOCK FALSE
