SPECIFICATION Spec
CONSTANTS
  ui = ui
  core = core
  helpers = helpers
  v1 = v1
  Packages = {ui, core, helpers}
  Ranges = {v1, v2}
  None = None
  Needs <- UiNeedsCore
  Used <- CoreUsesHelpers
  Booted = {}
  FirstDeclared <- UiAndCore
  Importers = {a, b}
  MaxImports = 3
  MaxEdits = 1
  MaxFaults = 1
INVARIANT InstalledAsDeclared
CHECK_DEADLOCK FALSE
