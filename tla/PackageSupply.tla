---------------------------- MODULE PackageSupply ----------------------------
(***************************************************************************)
(* Where the packages of a first compile come from (module-registry): the  *)
(* tree of a sidecar lockset or of /dep_tree, and of each package of it    *)
(* the files in the cache zip, at the CDN, or, for a release the CDN does  *)
(* not have, at esm.sh.  Releases are published meanwhile, package.json is *)
(* edited, and a first compile that fails starts over with the registry of *)
(* the failed one, whose downloads may still be under way.                 *)
(*                                                                         *)
(* Later installs are InstallBatches' subject, what to request BootScan's. *)
(***************************************************************************)
EXTENDS Naturals, FiniteSets, FiniteSetsExt

CONSTANTS
  SupPackages,
  SupDeclared,    \* those package.json declares
  SupImported,    \* those the scan finds
  SupNeeds,       \* SupNeeds[p]: what p imports, leaves of the tree
  SupTop,         \* releases are 1..SupTop
  SupRanges,      \* ranges package.json may name: sets of releases
  SupNpm,         \* the newest release npm has of each package at first
  SupMirror,      \* and the CDN's mirror of npm
  SupShape,       \* SupShape[p]: what esm.sh makes of p
  SupSidecars,    \* a lockset and the packages of the cache zip
  SupLoads,       \* bound on first compiles
  SupPublishes,   \* bound on releases published or mirrored
  SupEdits,       \* bound on edits of package.json
  SupFaults       \* bound on fetches that fail

Releases == 1..SupTop
VersionSets == SUBSET Releases

\* A range or, as a set of one, a release. Of a tree's entry, the depth too.
Entry == [n : SupPackages, v : VersionSets, d : {0, 1}]

\* At esm.sh a package is a stub that leads to a build, or one that leads elsewhere or too
\* far; a module; or several chunks.
Shapes == {"stub", "elsewhere", "far", "module", "chunks"}

DepMap == UNION {[names -> VersionSets] : names \in SUBSET SupPackages}
Lockset == [sound : BOOLEAN, dependencies : DepMap, requested : DepMap, resolved : SUBSET Entry]

ASSUME SupAssumption ==
  /\ SupImported \subseteq SupPackages /\ SupDeclared \subseteq SupPackages
  /\ SupNeeds \in [SupPackages -> SUBSET SupPackages]
  /\ \A p \in SupPackages : \A q \in SupNeeds[p] : SupNeeds[q] = {}
  /\ SupRanges \subseteq VersionSets \ {{}}
  /\ SupNpm \in [SupPackages -> Releases]
  /\ SupMirror \in [SupPackages -> 0..SupTop] /\ \A p \in SupPackages : SupMirror[p] <= SupNpm[p]
  /\ SupShape \in [SupPackages -> Shapes]
  /\ \A sidecar \in SupSidecars :
       /\ sidecar.lockset \in Lockset
       /\ sidecar.zip \in [SupPackages \X Releases -> {"none", "whole", "broken"}]
  /\ {SupTop, SupLoads, SupPublishes, SupEdits, SupFaults} \subseteq Nat

VARIABLES
  supSidecar,
  supWorld,      \* the newest release at npm and at the mirror
  supJson,       \* the declared map of package.json
  supLoad,       \* what the compile is at
  supRegistry,   \* declared, manifest, fallbacks and modules of the registry
  supFetches,    \* its downloads under way
  supLinked,     \* the release of each package's linked modules
  supPast,       \* history: what failed compiles left, and whether a lockset was trusted
  supLeft        \* the bounds

supVars ==
  <<supSidecar, supWorld, supJson, supLoad, supRegistry, supFetches, supLinked, supPast, supLeft>>

NoRelease == 0
NotInstalled == [code |-> NoRelease, release |-> NoRelease, from |-> "none"]
NoRanges == [p \in SupPackages |-> {}]

\* computeRequestDepMap: what is imported and not declared has no version, and is not requested.
RequestDepMap(declared) == [p \in SupImported \cap DOMAIN declared |-> declared[p]]

SupInit ==
  /\ supSidecar \in SupSidecars
  /\ supWorld = [npm |-> SupNpm, mirror |-> SupMirror]
  /\ supJson \in [SupDeclared -> SupRanges]
  /\ supLoad = [at |-> "idle", request |-> RequestDepMap(supJson), awaits |-> {}]
  /\ supRegistry = [declared |-> NoRanges, manifest |-> {}, fallbacks |-> NoRanges,
                    modules |-> [p \in SupPackages |-> NotInstalled]]
  /\ supFetches = {}
  /\ supLinked = [p \in SupPackages |-> NoRelease]
  /\ supPast = [edited |-> {}, overtaken |-> {}, redeclared |-> FALSE, trusted |-> FALSE]
  /\ supLeft = [loads |-> SupLoads, publishes |-> SupPublishes, edits |-> SupEdits, faults |-> SupFaults]

Registered == {p \in SupPackages : supRegistry.modules[p] # NotInstalled}
Newest(range, newest) == IF range \cap 1..newest = {} THEN NoRelease ELSE Max(range \cap 1..newest)
----------------------------------------------------------------------------
(* npm, its mirror and package.json. *)

Publish(p) ==
  /\ supLeft.publishes > 0 /\ supWorld.npm[p] < SupTop
  /\ supWorld' = [supWorld EXCEPT !.npm[p] = @ + 1]
  /\ supLeft' = [supLeft EXCEPT !.publishes = @ - 1]
  /\ UNCHANGED <<supSidecar, supJson, supLoad, supRegistry, supFetches, supLinked, supPast>>

Mirrored(p) ==
  /\ supLeft.publishes > 0 /\ supWorld.mirror[p] < supWorld.npm[p]
  /\ supWorld' = [supWorld EXCEPT !.mirror[p] = supWorld.npm[p]]
  /\ supLeft' = [supLeft EXCEPT !.publishes = @ - 1]
  /\ UNCHANGED <<supSidecar, supJson, supLoad, supRegistry, supFetches, supLinked, supPast>>

SupEdit(p, range) ==
  /\ supLeft.edits > 0 /\ range # supJson[p]
  /\ supJson' = [supJson EXCEPT ![p] = range]
  /\ supLeft' = [supLeft EXCEPT !.edits = @ - 1]
  /\ UNCHANGED <<supSidecar, supWorld, supLoad, supRegistry, supFetches, supLinked, supPast>>

FetchFault == supLeft.faults > 0 /\ supLeft' = [supLeft EXCEPT !.faults = @ - 1]
----------------------------------------------------------------------------
(* The tree: lockset.ts, fetchManifest. *)

Unnamed(lockset) == {e \in lockset.resolved : e.d = 0 /\ e.n \notin DOMAIN lockset.requested}

LocksetClosureValid(lockset) ==
  /\ \A n \in DOMAIN lockset.requested :
       n \in DOMAIN lockset.dependencies /\ lockset.dependencies[n] = lockset.requested[n]
  /\ Unnamed(lockset) = {}

\* Seeded fault: the lockset of another package.json.
Applies_Foreign(lockset, declared) == lockset.sound /\ LocksetClosureValid(lockset)

\* A lockset is used if it has its shape and protocol, was resolved for the declared map, and
\* requests and brings nothing at the top that is not in it. The releases it resolved the map to
\* are taken as they are.
Applies(lockset, declared) ==
  lockset.sound /\ lockset.dependencies = declared /\ LocksetClosureValid(lockset)

\* An installed package is pinned to its release, except one from esm.sh.
PinOf(p) ==
  IF supRegistry.modules[p].release # NoRelease /\ supRegistry.fallbacks[p] = {}
    THEN {supRegistry.modules[p].release} ELSE {}
PinnedTo(p, declared) ==
  IF PinOf(p) # {} THEN PinOf(p) ELSE IF p \in DOMAIN declared THEN declared[p] ELSE Releases

\* /dep_tree: a package the mirror has no release of is left out.
Resolved(names, depth, declared) ==
  {[n |-> p, v |-> {Newest(PinnedTo(p, declared), supWorld.mirror[p])}, d |-> depth] :
     p \in {q \in names : Newest(PinnedTo(q, declared), supWorld.mirror[q]) # NoRelease}}
DependencyTree(request, declared) ==
  LET roots == Resolved(request, 0, declared)
      needs == (UNION {SupNeeds[e.n] : e \in roots}) \ request
  IN roots \cup Resolved(needs, 1, declared)

\* registerEsmFallbacks: what was requested and is not in the tree is asked of esm.sh.
NamesOf(tree) == {e.n : e \in tree}
Dropped(requested, tree) == DOMAIN requested \ NamesOf(tree)
WithFallbacks(requested, tree) ==
  [supRegistry EXCEPT
     !.manifest = tree \cup {[n |-> p, v |-> requested[p], d |-> 0] : p \in Dropped(requested, tree)},
     !.fallbacks = [p \in SupPackages |-> IF p \in Dropped(requested, tree) THEN requested[p] ELSE @[p]]]

\* What was left of packages whose range has been edited since: by a compile that failed.
Held(p) == p \in Registered \/ supRegistry.fallbacks[p] # {} \/ \E f \in supFetches : f.n = p
Edited(declared) ==
  {p \in SupDeclared : Held(p) /\ supRegistry.declared[p] # declared[p]}
Redeclared == supLoad.at # "idle" /\ supRegistry.declared # supJson

\* The first compile reads package.json and the sidecar. It begins without modules, but with
\* the registry there is.
LoadBegins ==
  /\ supLoad.at \in {"idle", "failed"} /\ supLeft.loads > 0
  /\ LET lockset == supSidecar.lockset IN
     /\ supPast' = [supPast EXCEPT !.edited = @ \cup Edited(supJson), !.redeclared = @ \/ Redeclared,
                                   !.trusted = @ \/ Applies(lockset, supJson)]
     /\ IF Applies(lockset, supJson)
          THEN /\ supLoad' = [at |-> "tree", request |-> lockset.requested, awaits |-> {}]
               /\ supRegistry' = [WithFallbacks(lockset.requested, lockset.resolved)
                                    EXCEPT !.declared = supJson]
          ELSE /\ supLoad' = [at |-> "asked", request |-> RequestDepMap(supJson), awaits |-> {}]
               /\ supRegistry' = [supRegistry EXCEPT !.declared = supJson]
  /\ supLinked' = [p \in SupPackages |-> NoRelease]
  /\ supLeft' = [supLeft EXCEPT !.loads = @ - 1]
  /\ UNCHANGED <<supSidecar, supWorld, supJson, supFetches>>

ManifestArrives ==
  /\ supLoad.at = "asked"
  /\ LET tree == DependencyTree(DOMAIN supLoad.request, supRegistry.declared) IN
     supRegistry' = WithFallbacks(supLoad.request, tree)
  /\ supLoad' = [supLoad EXCEPT !.at = "tree"]
  /\ UNCHANGED <<supSidecar, supWorld, supJson, supFetches, supLinked, supPast, supLeft>>

ManifestFails ==
  /\ supLoad.at = "asked" /\ FetchFault
  /\ supLoad' = [supLoad EXCEPT !.at = "failed"]
  /\ UNCHANGED <<supSidecar, supWorld, supJson, supRegistry, supFetches, supLinked, supPast>>
----------------------------------------------------------------------------
(* The packages: fetchNodeModule, bundledPackages.ts, esm-fallback.ts. *)

\* The index of the zip has release v of p; a package that cannot be read is fetched.
InZip(p, v) == supSidecar.zip[p, v] = "whole"

\* A package is downloaded under the release or range of its entry, as the fallback it is
\* registered as, if it is.
Download(e, registry) ==
  [n |-> e.n, v |-> e.v, range |-> registry.fallbacks[e.n],
   step |-> IF registry.fallbacks[e.n] # {} THEN "entry"
            ELSE IF \A r \in e.v : InZip(e.n, r) THEN "zip" ELSE "cdn",
   externals |-> NamesOf(registry.manifest) \ {e.n}, build |-> NoRelease]

\* Those that are installed are found, those under way joined.
PreloadAll ==
  /\ supLoad.at = "tree"
  /\ LET wanted == {e \in supRegistry.manifest : e.n \notin Registered}
         joined(e) == \E f \in supFetches : f.n = e.n /\ f.v = e.v IN
     /\ supLoad' = [supLoad EXCEPT !.at = "preload", !.awaits = {<<e.n, e.v>> : e \in wanted}]
     /\ supFetches' = supFetches \cup
          {Download(e, supRegistry) : e \in {w \in wanted : ~joined(w)}}
     /\ supPast' = [supPast EXCEPT !.overtaken =
          {f.n : f \in {g \in supFetches : \A e \in wanted : e.n # g.n \/ e.v # g.v}}]
  /\ UNCHANGED <<supSidecar, supWorld, supJson, supRegistry, supLinked, supLeft>>

Awaited(f) == supLoad.at = "preload" /\ <<f.n, f.v>> \in supLoad.awaits

Registers(f, module) ==
  /\ supRegistry' = [supRegistry EXCEPT !.modules[f.n] = module]
  /\ supFetches' = supFetches \ {f}
  /\ supLoad' = [supLoad EXCEPT !.awaits = @ \ {<<f.n, f.v>>}]
  /\ UNCHANGED <<supSidecar, supWorld, supJson, supLinked, supPast>>

\* Of the zip or of the CDN, the files are those of the release.
FilesArrive(f) ==
  /\ f.step \in {"zip", "cdn"}
  /\ \E r \in f.v : Registers(f, [code |-> r, release |-> r, from |-> f.step])
  /\ UNCHANGED supLeft

\* A download that fails fails the compile that waits for it; nothing else is undone.
FetchEnds(f) ==
  /\ supFetches' = supFetches \ {f}
  /\ supLoad' = IF Awaited(f) THEN [supLoad EXCEPT !.at = "failed"] ELSE supLoad
  /\ UNCHANGED <<supSidecar, supWorld, supJson, supRegistry, supLinked, supPast>>

FilesFail(f) == f.step = "cdn" /\ FetchFault /\ FetchEnds(f)

Continues(f, g) ==
  /\ supFetches' = (supFetches \ {f}) \cup {g}
  /\ UNCHANGED <<supSidecar, supWorld, supJson, supLoad, supRegistry, supLinked, supPast, supLeft>>

FromEsm(r, release) == [code |-> r, release |-> release, from |-> "esm"]

\* A module may import only what it was told is installed: it has no chunks of its own, and
\* no packages the tree does not have.
SelfContained(f) == SupShape[f.n] \notin {"far", "chunks"} /\ SupNeeds[f.n] \subseteq f.externals

\* esm.sh answers for a range with the newest release npm has of it: its module, or a stub
\* for the build of this release.
EntryArrives(f) ==
  /\ f.step = "entry"
  /\ LET r == Newest(f.range, supWorld.npm[f.n]) IN
     IF r = NoRelease THEN FetchEnds(f) /\ UNCHANGED supLeft
     ELSE IF SupShape[f.n] \in {"module", "chunks"}
       THEN /\ IF SelfContained(f) THEN Registers(f, FromEsm(r, NoRelease)) ELSE FetchEnds(f)
            /\ UNCHANGED supLeft
       ELSE Continues(f, [f EXCEPT !.step = "build", !.build = r])

\* Seeded fault: the release is the newest of the range.
EsmBuildVersion_Range(f) == Newest(f.range, supWorld.npm[f.n])

\* esmBuildVersion: the path of a build names its release.
EsmBuildVersion(f) == IF SupShape[f.n] = "stub" THEN f.build ELSE NoRelease

\* fetchEsmFallback follows the stub.
BuildArrives(f) ==
  /\ f.step = "build"
  /\ IF ~SelfContained(f) THEN FetchEnds(f) /\ UNCHANGED supLeft
     ELSE IF EsmBuildVersion(f) = NoRelease
       THEN Registers(f, FromEsm(f.build, NoRelease)) /\ UNCHANGED supLeft
     ELSE Continues(f, [f EXCEPT !.step = "release"])

\* The entry or the build cannot be fetched or transpiled.
EsmFails(f) == f.step \in {"entry", "build"} /\ FetchFault /\ FetchEnds(f)

\* fetchEsmFallbackRelease: the listing must be that of the release.
ReleaseArrives(f) ==
  /\ f.step = "release"
  /\ \/ Registers(f, FromEsm(f.build, EsmBuildVersion(f))) /\ UNCHANGED supLeft
     \/ FetchFault /\ Registers(f, FromEsm(f.build, NoRelease))
----------------------------------------------------------------------------
(* The rest of the compile. *)

\* loadModuleDependencies: the modules of all the packages in the registry are linked.
Link ==
  /\ supLoad.at = "preload" /\ supLoad.awaits = {}
  /\ supLinked' = [p \in SupPackages |-> supRegistry.modules[p].code]
  /\ supLoad' = [supLoad EXCEPT !.at = "linked"]
  /\ UNCHANGED <<supSidecar, supWorld, supJson, supRegistry, supFetches, supPast, supLeft>>

\* The code of the app compiles and runs, or not.
AppRuns ==
  /\ supLoad.at = "linked"
  /\ supLoad' = [supLoad EXCEPT !.at = "loaded"]
  /\ UNCHANGED <<supSidecar, supWorld, supJson, supRegistry, supFetches, supLinked, supPast, supLeft>>

AppFails ==
  /\ supLoad.at = "linked" /\ FetchFault
  /\ supLoad' = [supLoad EXCEPT !.at = "failed"]
  /\ UNCHANGED <<supSidecar, supWorld, supJson, supRegistry, supFetches, supLinked, supPast>>

\* An edit of package.json after it: installedDependencyChanged.
NeedsReload(declared) ==
  \E p \in Registered \cap SupDeclared : supRegistry.declared[p] # declared[p]

Adopt ==
  /\ supLoad.at = "loaded" /\ supJson # supRegistry.declared
  /\ IF NeedsReload(supJson)
       THEN supLoad' = [supLoad EXCEPT !.at = "reloading"] /\ UNCHANGED <<supRegistry, supPast>>
       ELSE /\ supRegistry' = [supRegistry EXCEPT !.declared = supJson]
            /\ supPast' = [supPast EXCEPT !.edited = @ \cup Edited(supJson)] /\ UNCHANGED supLoad
  /\ UNCHANGED <<supSidecar, supWorld, supJson, supFetches, supLinked, supLeft>>

SupNext ==
  \/ LoadBegins \/ ManifestArrives \/ ManifestFails \/ PreloadAll \/ Link \/ AppRuns \/ AppFails \/ Adopt
  \/ \E p \in SupPackages : Publish(p) \/ Mirrored(p)
  \/ \E p \in SupDeclared, range \in SupRanges : SupEdit(p, range)
  \/ \E f \in supFetches :
       \/ FilesArrive(f) \/ FilesFail(f)
       \/ EntryArrives(f) \/ BuildArrives(f) \/ EsmFails(f) \/ ReleaseArrives(f)

SupSpec == SupInit /\ [][SupNext]_supVars
----------------------------------------------------------------------------
(* Properties. *)

\* The releases outside the range it was resolved for that a lockset names for a package.
Misresolved(lockset, p) ==
  UNION {e.v : e \in {d \in lockset.resolved :
                        /\ d.n = p /\ p \in DOMAIN lockset.dependencies
                        /\ ~(d.v \subseteq lockset.dependencies[p])}}

\* What may be installed of a package: its declared range and, once the document has taken its
\* sidecar's lockset, what that resolved out of the range.
Trusted(p) == IF supPast.trusted THEN Misresolved(supSidecar.lockset, p) ELSE {}
Permitted(p) == supRegistry.declared[p] \cup Trusted(p)

\* After the first compile, whatever was published and failed meanwhile, a package installed
\* is of a release in its declared range, wherever its files come from, unless a compile that
\* failed had begun to install it for another range, or the lockset of the app's own map
\* resolved it out of its range (no lockset of another map is ever to blame). Every package of
\* the tree is installed, the top of the tree is declared, and, unless package.json was edited
\* between two first compiles, what comes from esm.sh imports only what is installed.
SupplyIsAsDeclared ==
  supLoad.at = "loaded" =>
    /\ NamesOf(supRegistry.manifest) \subseteq Registered
    /\ \A e \in supRegistry.manifest : e.d = 0 => e.n \in SupDeclared
    /\ \A p \in Registered :
         /\ p \in SupDeclared \ supPast.edited => supRegistry.modules[p].code \in Permitted(p)
         /\ supRegistry.modules[p].from = "esm" /\ ~supPast.redeclared => SupNeeds[p] \subseteq Registered

\* A package is of one release: the modules that are linked, those that will be read, and the
\* files listed, if the release is known, are of the same, unless a compile that failed left
\* a download under way.
OneReleaseOfEach ==
  \A p \in Registered :
    /\ supRegistry.modules[p].release \in {NoRelease, supRegistry.modules[p].code}
    /\ supLoad.at \in {"linked", "loaded"} /\ p \notin supPast.overtaken =>
         supLinked[p] = supRegistry.modules[p].code
=============================================================================
