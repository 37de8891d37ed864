SPECIFICATION Spec
CHECK_DEADLOCK FALSE
CONSTANTS
  x = x
  y = y
  z = z
  ArtPaths = {x, y}
  ArtMaxEdits = 2
  ArtSetups <- MCArtSetups
  ManRequests = {x, y}
  ManRevisions = 3
  ManEmpty = {2}
  ManFaults = 1
  HostPaths = {p}
  HostCallers = {x, y}
  HostListeners = {l1}
  HostCalls = 3
  HostRemotes = 1
  HostSetups <- MCHostSetups
  PkgImporters = {x, y, z}
  PkgKey <- MCPkgKey
  PkgReleases = {1, 2}
  PkgMain <- MCPkgMain
  PkgListed = {2}
  PkgImports = 3
  PkgFaults = 1
  LayPackages <- MCLayPackages
  LayEntries <- MCLayEntries
  HotOrder <- MCHotOrder
  HotScripts <- MCHotScripts
  HotEdits = 2
  ScanFiles = {"rt", "app", "page", "lib", "style", "main"}
  ScanStyles = {"style"}
  ScanRuntimes <- MCScanRuntimes
  ScanEntries <- MCScanEntries
  ScanShims <- MCScanShims
  ScanPackages = {"p", "q", "r"}
  ScanDeclared = {"p", "q"}
  ScanSources <- MCScanSources
  ScanFirst <- MCScanFirst
  ScanLimit = 4
  ScanEdits = 1
  ScanFaults = 1
  SelfShims = {"fs", "path"}
  SelfFiles = {"index", "core", "json"}
  SelfScripts = {"index", "core"}
  SelfReleases <- MCSelfReleases
  SelfDefault = 3
  SelfFloor = 2
  SelfSays <- MCSelfSays
  SelfHosts <- MCSelfHosts
  SelfLoads = 2
  SelfEdits = 1
  SelfFaults = 1
  SheetFiles = {"app", "theme", "kit", "deep"}
  SheetOwner <- MCSheetOwner
  SheetReleases = {"p"}
  SheetStyles <- MCSheetStyles
  SheetDefaults <- MCSheetDefaults
  SheetSetups <- MCSheetSetups
SYMMETRY MCSymmetry
INVARIANTS
  ServedIsCurrent
  TagsFollowNpm
  HostFilesInSync
  ImportsSeeTheRelease
  ClosuresAreComplete
  FastPathAgrees
  UpdatesLand
  BootServesCompile
  RunsTheRelease
  StylesAreWhole
