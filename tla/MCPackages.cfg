SPECIFICATION PackagesSpec
CONSTANTS
  ui = ui
  core = core
  helpers = helpers
  v1 = v1
  Packages = {ui, core, helpers}
  Ranges = {v1, v2}
  None = None
  Needs <- UiNeedsCore
  Used <- CoreUsesHelpers
  Booted = {}
  FirstDeclared <- UiAndCore
  Importers = {a, b}
  MaxImports = 3
  MaxEdits = 1
  MaxFaults = 1
  SupPackages = {"ui", "core", "dep"}
  SupDeclared = {"ui", "core"}
  SupImported = {"ui", "core", "dep"}
  SupNeeds <- MCSupNeeds
  SupTop = 3
  SupRanges = {{1}, {2, 3}}
  SupNpm <- MCSupNpm
  SupMirror <- MCSupMirror
  SupShape <- MCSupShape
  SupSidecars <- MCSupSidecars
  SupLoads = 2
  SupPublishes = 1
  SupEdits = 1
  SupFaults = 1
INVARIANTS NoTrace EnsuredIsUsable NoStaleFailure SupplyIsAsDeclared OneReleaseOfEach
PROPERTIES InstallsAreAtomic EveryImportSettles
CHECK_DEADLOCK FALSE
