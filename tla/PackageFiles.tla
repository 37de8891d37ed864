---------------------------- MODULE PackageFiles ----------------------------
(***************************************************************************)
(* One on-demand package as its importers read it: resolveInstalled with   *)
(* its memo of resolutions (bundler.ts), the resolver's memo of            *)
(* package.json files (resolver.ts), CachedFS with its memo of contents    *)
(* and absences and its shared reads, and RegistryFS, which answers from   *)
(* the release registered now and keeps what it read or fetched.           *)
(*                                                                         *)
(* InstallBatches has the batches and what they install; here one install  *)
(* registers the package, links it, and succeeds or is rolled back, while  *)
(* importers are between two reads.  One compile is modelled: a new one    *)
(* starts from empty memos.                                                *)
(***************************************************************************)
EXTENDS Integers, FiniteSets

CONSTANTS
  PkgImporters,
  PkgKey,        \* PkgKey[i]: the directory i imports from: equal ones share resolutions
  PkgReleases,   \* releases an install may bring
  PkgMain,       \* PkgMain[r]: the file package.json of release r points to
  PkgListed,     \* releases whose main file is listed, not inlined
  PkgImports,    \* bound on imports
  PkgFaults      \* bound on failed installs and fetches

Keys == {PkgKey[i] : i \in PkgImporters}
Json == "package.json"
Mains == {PkgMain[r] : r \in PkgReleases}
Files == {Json} \cup Mains

ASSUME PkgAssumption ==
  /\ PkgReleases \subseteq Nat \ {0} /\ PkgListed \subseteq PkgReleases
  /\ Mains \cap {Json, "none", "pending"} = {}
  /\ PkgImports \in Nat /\ PkgFaults \in Nat

Nothing == 0     \* not known, or not registered
Gone == -1       \* known to be absent
Failing == -2    \* a read that fails for another reason

VARIABLES
  pkgModule,      \* ModuleRegistry.modules: the release registered
  pkgInstall,     \* the batch: idle, open or linked
  pkgContent,     \* RegistryFS.contentCache: the release a content is of
  pkgMemo,        \* CachedFS: the content of a file, and whether it is one
  pkgReads,       \* CachedFS.readInflight: what the read is bringing
  pkgJson,        \* resolverCache: package.json
  pkgResolved,    \* resolutionCache: none, pending, or a path
  pkgImporters,   \* the importers
  pkgHistory      \* observations and counters

pkgCaches == <<pkgContent, pkgMemo, pkgReads, pkgJson>>
pkgVars == <<pkgModule, pkgInstall, pkgCaches, pkgResolved, pkgImporters, pkgHistory>>

NoImport == [at |-> "none", file |-> Json, got |-> Nothing, again |-> FALSE, sure |-> FALSE]
Forgotten == [content |-> Nothing, isFile |-> Nothing]

PkgInit ==
  /\ pkgModule = Nothing /\ pkgInstall = "idle"
  /\ pkgContent = [f \in Files |-> Nothing]
  /\ pkgMemo = [f \in Files |-> Forgotten]
  /\ pkgReads = [f \in Files |-> Nothing]
  /\ pkgJson = Nothing
  /\ pkgResolved = [k \in Keys |-> "none"]
  /\ pkgImporters = [i \in PkgImporters |-> NoImport]
  /\ pkgHistory = [imports |-> 0, faults |-> 0, shown |-> {}, late |-> FALSE]

Has(f) == pkgModule # Nothing /\ f \in {Json, PkgMain[pkgModule]}
Listed(f) == f # Json /\ pkgModule \in PkgListed
----------------------------------------------------------------------------
(* RegistryFS and CachedFS. *)

\* RegistryFS.classify and getContent: what is registered decides whether a file is there,
\* what was read before decides its content.
Lookup(f) ==
  CASE ~Has(f) -> Gone
    [] Has(f) /\ pkgContent[f] # Nothing -> pkgContent[f]
    [] OTHER -> pkgModule

\* Inlined content is kept when it is looked up, fetched content when it has come.
Kept(f) ==
  IF Has(f) /\ pkgContent[f] = Nothing /\ ~Listed(f)
    THEN [pkgContent EXCEPT ![f] = pkgModule] ELSE pkgContent

\* A read of f that no memo answers joins the one in flight or starts one.
ReadOf(f) ==
  IF pkgReads[f] # Nothing THEN UNCHANGED <<pkgReads, pkgContent>>
  ELSE pkgReads' = [pkgReads EXCEPT ![f] = Lookup(f)] /\ pkgContent' = Kept(f)

Waits(i, f) == pkgImporters[i].at \in {"jsonRead", "loadRead"} /\ pkgImporters[i].file = f

\* What follows in an importer whose read of package.json, probe or load was answered.
After(importer, answer) ==
  CASE importer.at = "jsonRead" /\ answer > 0 ->
         [importer EXCEPT !.at = "isFile", !.file = PkgMain[answer]]
    [] importer.at = "isFileRead" /\ answer > 0 -> [importer EXCEPT !.at = "resolved"]
    [] importer.at = "loadRead" /\ answer > 0 -> [importer EXCEPT !.at = "linked", !.got = answer]
    [] importer.at = "loadRead" /\ ~(answer > 0) -> [importer EXCEPT !.at = "failed", !.got = answer]
    [] OTHER -> [importer EXCEPT !.at = "missed", !.got = answer]

\* A read ends: its outcome is memoized, an absence too, however long ago it was looked up.
ReadEnds(f) ==
  /\ pkgReads[f] # Nothing
  /\ LET answer == pkgReads[f] IN
     /\ pkgMemo' = [pkgMemo EXCEPT ![f] =
          IF answer = Gone THEN [@ EXCEPT !.isFile = Gone] ELSE [content |-> answer, isFile |-> 1]]
     /\ pkgContent' = IF answer > 0 THEN [pkgContent EXCEPT ![f] = answer] ELSE pkgContent
     /\ pkgJson' = IF \E i \in PkgImporters : pkgImporters[i].at = "jsonRead" /\ Waits(i, f)
                     THEN answer ELSE pkgJson
     /\ pkgImporters' = [i \in PkgImporters |->
          IF Waits(i, f) THEN After(pkgImporters[i], answer) ELSE pkgImporters[i]]
     /\ pkgHistory' = [pkgHistory EXCEPT !.late = @ \/ (answer = Gone /\ Has(f))]
  /\ pkgReads' = [pkgReads EXCEPT ![f] = Nothing]
  /\ UNCHANGED <<pkgModule, pkgInstall, pkgResolved>>

\* The fetch of a listed file fails: nothing is memoized.
ReadFails(f) ==
  /\ pkgReads[f] > 0 /\ pkgReads[f] \in PkgListed /\ f # Json
  /\ pkgHistory.faults < PkgFaults
  /\ pkgReads' = [pkgReads EXCEPT ![f] = Nothing]
  /\ pkgImporters' = [i \in PkgImporters |->
       IF Waits(i, f) THEN After(pkgImporters[i], Failing) ELSE pkgImporters[i]]
  /\ pkgHistory' = [pkgHistory EXCEPT !.faults = @ + 1]
  /\ UNCHANGED <<pkgModule, pkgInstall, pkgContent, pkgMemo, pkgJson, pkgResolved>>

\* Seeded fault: absences are forgotten by the resolver, and kept by CachedFS.
ForgetMissing_ResolverOnly ==
  pkgJson' = (IF pkgJson = Gone THEN Nothing ELSE pkgJson) /\ UNCHANGED pkgMemo

\* forgetMissingNodeModules.
ForgetMissing ==
  /\ pkgJson' = IF pkgJson = Gone THEN Nothing ELSE pkgJson
  /\ pkgMemo' = [f \in Files |-> IF pkgMemo[f].isFile = Gone THEN Forgotten ELSE pkgMemo[f]]
----------------------------------------------------------------------------
(* Bundler.resolveAsync and the load of what it found. *)

PkgGoes(i, at) == pkgImporters' = [pkgImporters EXCEPT ![i].at = at]
Sure == pkgModule # Nothing /\ pkgInstall = "idle"

\* whenIdle.
PkgImport(i) ==
  /\ pkgImporters[i].at \in {"none", "linked", "failed"}
  /\ pkgHistory.imports < PkgImports
  /\ pkgHistory' = [pkgHistory EXCEPT !.imports = @ + 1]
  /\ pkgImporters' = [pkgImporters EXCEPT ![i] = [NoImport EXCEPT
       !.at = IF pkgInstall = "idle" THEN "resolve" ELSE "waiting", !.sure = Sure]]
  /\ UNCHANGED <<pkgModule, pkgInstall, pkgCaches, pkgResolved>>

\* The registry is idle again.
PkgIdle(i) ==
  /\ pkgImporters[i].at = "waiting" /\ pkgInstall = "idle"
  /\ pkgImporters' = [pkgImporters EXCEPT ![i].at = "resolve", ![i].sure = Sure]
  /\ ForgetMissing
  /\ UNCHANGED <<pkgModule, pkgInstall, pkgContent, pkgReads, pkgResolved, pkgHistory>>

\* A run of the resolver for the directory of i, from its start to its outcome.
RunFor(i) ==
  {j \in PkgImporters : /\ PkgKey[j] = PkgKey[i]
                        /\ pkgImporters[j].at \in {"json", "jsonRead", "isFile", "isFileRead",
                                                   "resolved", "missed"}}

\* An importer that joins a run is no surer than the run.
SureWithRun(i) == pkgImporters[i].sure /\ \A j \in RunFor(i) : pkgImporters[j].sure

\* resolveInstalled: the memo, a run that somebody else started, or a run of its own.
ResolveMemo(i) ==
  /\ pkgImporters[i].at = "resolve"
  /\ LET known == pkgResolved[PkgKey[i]] IN
       IF known = "none"
         THEN PkgGoes(i, "json") /\ pkgResolved' = [pkgResolved EXCEPT ![PkgKey[i]] = "pending"]
         ELSE /\ pkgImporters' = [pkgImporters EXCEPT
                   ![i] = IF known = "pending"
                            THEN [@ EXCEPT !.at = "joined", !.sure = SureWithRun(i)]
                            ELSE [@ EXCEPT !.at = "load", !.file = known]]
              /\ UNCHANGED pkgResolved
  /\ UNCHANGED <<pkgModule, pkgInstall, pkgCaches, pkgHistory>>

\* loadPackageJSON: the resolver's memo, then CachedFS.
LoadPackageJson(i) ==
  LET known == IF pkgJson # Nothing THEN pkgJson
               ELSE IF pkgMemo[Json].content # Nothing THEN pkgMemo[Json].content
               ELSE pkgMemo[Json].isFile
  IN
  /\ pkgImporters[i].at = "json"
  /\ pkgImporters' = [pkgImporters EXCEPT
       ![i] = IF known = Nothing THEN [@ EXCEPT !.at = "jsonRead", !.file = Json]
              ELSE After([@ EXCEPT !.at = "jsonRead"], known)]
  /\ pkgJson' = known
  /\ IF known = Nothing THEN ReadOf(Json) ELSE UNCHANGED <<pkgReads, pkgContent>>
  /\ UNCHANGED <<pkgModule, pkgInstall, pkgMemo, pkgResolved, pkgHistory>>

\* expandFile probes the file package.json names; what no memo knows is looked up at once
\* and answered later.
ProbeMain(i) ==
  LET f == pkgImporters[i].file
      known == IF pkgMemo[f].content # Nothing THEN 1 ELSE pkgMemo[f].isFile
  IN
  /\ pkgImporters[i].at = "isFile"
  /\ pkgImporters' = [pkgImporters EXCEPT
       ![i] = IF known = Nothing THEN [@ EXCEPT !.at = "isFileRead", !.got = Lookup(f)]
              ELSE After([@ EXCEPT !.at = "isFileRead"], known)]
  /\ pkgContent' = IF known = Nothing THEN Kept(f) ELSE pkgContent
  /\ UNCHANGED <<pkgModule, pkgInstall, pkgMemo, pkgReads, pkgJson, pkgResolved, pkgHistory>>

\* RegistryFS.stat has read or fetched the content it reports the size of.
ProbeEnds(i) ==
  LET f == pkgImporters[i].file
      answer == pkgImporters[i].got
  IN
  /\ pkgImporters[i].at = "isFileRead"
  /\ pkgMemo' = [pkgMemo EXCEPT ![f].isFile = IF answer = Gone THEN Gone ELSE 1]
  /\ pkgContent' = IF answer > 0 THEN [pkgContent EXCEPT ![f] = answer] ELSE pkgContent
  /\ pkgImporters' = [pkgImporters EXCEPT ![i] = After(@, answer)]
  /\ pkgHistory' = [pkgHistory EXCEPT !.late = @ \/ (answer = Gone /\ Has(f))]
  /\ UNCHANGED <<pkgModule, pkgInstall, pkgReads, pkgJson, pkgResolved>>

\* The fetch fails: the file counts as absent this once.
ProbeFails(i) ==
  /\ pkgImporters[i].at = "isFileRead" /\ pkgImporters[i].got \in PkgListed
  /\ pkgHistory.faults < PkgFaults
  /\ pkgImporters' = [pkgImporters EXCEPT ![i] = After(@, Failing)]
  /\ pkgHistory' = [pkgHistory EXCEPT !.faults = @ + 1]
  /\ UNCHANGED <<pkgModule, pkgInstall, pkgCaches, pkgResolved>>

\* The run ends: those that joined it share its path, or its failure, which is not memoized.
RunEnds(i) ==
  LET path == IF pkgImporters[i].at = "resolved" THEN pkgImporters[i].file ELSE "none"
      mine == {j \in PkgImporters : PkgKey[j] = PkgKey[i] /\ pkgImporters[j].at = "joined"}
  IN
  /\ pkgImporters[i].at \in {"resolved", "missed"}
  /\ pkgResolved' = [pkgResolved EXCEPT ![PkgKey[i]] = path]
  /\ pkgImporters' = [j \in PkgImporters |->
       IF j \in mine \cup {i}
         THEN IF path = "none"
              THEN [pkgImporters[j] EXCEPT !.at = "install", !.got = pkgImporters[i].got]
              ELSE [pkgImporters[j] EXCEPT !.at = "load", !.file = path]
         ELSE pkgImporters[j]]
  /\ UNCHANGED <<pkgModule, pkgInstall, pkgCaches, pkgHistory>>

\* installableImport, ensureEntries: a second failure, or one of a package that is there
\* after all, is final.
Install(i) ==
  /\ pkgImporters[i].at = "install"
  /\ IF pkgModule # Nothing \/ pkgImporters[i].again
       THEN PkgGoes(i, "failed") /\ UNCHANGED pkgInstall
       ELSE PkgGoes(i, "installing") /\ pkgInstall' = IF pkgInstall = "idle" THEN "open" ELSE pkgInstall
  /\ UNCHANGED <<pkgModule, pkgCaches, pkgResolved, pkgHistory>>

\* ensureEntries is done.
InstalledFor(i) ==
  /\ pkgImporters[i].at = "installed"
  /\ pkgImporters' = [pkgImporters EXCEPT ![i].at = "resolve", ![i].again = TRUE, ![i].sure = Sure]
  /\ ForgetMissing
  /\ UNCHANGED <<pkgModule, pkgInstall, pkgContent, pkgReads, pkgResolved, pkgHistory>>

\* The module is read where the resolution points to.
LoadModule(i) ==
  LET f == pkgImporters[i].file IN
  /\ pkgImporters[i].at = "load"
  /\ IF pkgMemo[f].content # Nothing \/ pkgMemo[f].isFile = Gone
       THEN pkgImporters' = [pkgImporters EXCEPT
              ![i] = After([@ EXCEPT !.at = "loadRead"], pkgMemo[f].content)]
            /\ UNCHANGED <<pkgContent, pkgReads>>
       ELSE PkgGoes(i, "loadRead") /\ ReadOf(f)
  /\ UNCHANGED <<pkgModule, pkgInstall, pkgMemo, pkgJson, pkgResolved, pkgHistory>>
----------------------------------------------------------------------------
(* The install. *)

\* fetchNodeModule registers the package: importers that are past whenIdle see it.
Register(r) ==
  /\ pkgInstall = "open" /\ pkgModule = Nothing
  /\ pkgModule' = r
  /\ pkgHistory' = [pkgHistory EXCEPT !.shown = @ \cup {r}]
  /\ UNCHANGED <<pkgInstall, pkgCaches, pkgResolved, pkgImporters>>

\* loadModuleDependencies forgets absences, then links the package's own files, whose
\* resolutions read its package.json.
Links ==
  /\ pkgInstall = "open" /\ pkgModule # Nothing
  /\ pkgInstall' = "linked"
  /\ ForgetMissing
  /\ UNCHANGED <<pkgModule, pkgContent, pkgReads, pkgResolved, pkgImporters, pkgHistory>>

LinkReads ==
  /\ pkgInstall = "linked" /\ pkgReads[Json] = Nothing /\ pkgMemo[Json] = Forgotten
  /\ ReadOf(Json)
  /\ UNCHANGED <<pkgModule, pkgInstall, pkgMemo, pkgJson, pkgResolved, pkgImporters, pkgHistory>>

Settled(at) ==
  [i \in PkgImporters |-> IF pkgImporters[i].at = "installing"
                          THEN [pkgImporters[i] EXCEPT !.at = at] ELSE pkgImporters[i]]

InstallSucceeds ==
  /\ pkgInstall = "linked"
  /\ pkgInstall' = "idle"
  /\ pkgImporters' = Settled("installed")
  /\ UNCHANGED <<pkgModule, pkgCaches, pkgResolved, pkgHistory>>

\* forgetNodeModule: package.json, contents and probes go; resolutions, reads in flight and
\* what RegistryFS keeps stay.
Forget == pkgJson' = Nothing /\ pkgMemo' = [f \in Files |-> Forgotten]

InstallFails ==
  /\ pkgInstall \in {"open", "linked"} /\ pkgHistory.faults < PkgFaults
  /\ pkgInstall' = "idle"
  /\ IF pkgModule = Nothing THEN UNCHANGED <<pkgJson, pkgMemo>> ELSE Forget
  /\ pkgModule' = Nothing
  /\ pkgImporters' = Settled("failed")
  /\ pkgHistory' = [pkgHistory EXCEPT !.faults = @ + 1]
  /\ UNCHANGED <<pkgContent, pkgReads, pkgResolved>>

PkgNext ==
  \/ Links \/ LinkReads \/ InstallSucceeds \/ InstallFails
  \/ \E r \in PkgReleases : Register(r)
  \/ \E f \in Files : ReadEnds(f) \/ ReadFails(f)
  \/ \E i \in PkgImporters :
       \/ PkgImport(i) \/ PkgIdle(i) \/ ResolveMemo(i) \/ LoadPackageJson(i) \/ ProbeMain(i)
       \/ ProbeEnds(i) \/ ProbeFails(i) \/ RunEnds(i) \/ Install(i) \/ InstalledFor(i) \/ LoadModule(i)

PkgSpec == PkgInit /\ [][PkgNext]_pkgVars
----------------------------------------------------------------------------
(* Properties. *)

\* An importer links the main file of the release that is installed, and one that starts
\* when the package is there and nothing is being installed only fails if a fetch does.
\* The exceptions: a release that was visible before a rollback leaves its contents in
\* RegistryFS and its path in the resolutions (bundler.ts:618), an absence looked up
\* before the package was registered is memoized after the install forgot absences
\* (bundler.ts:651), and a run that another importer began before the install is shared
\* by those that retry after it, its failure too (bundler.ts:697).
ImportsSeeTheRelease ==
  \A i \in PkgImporters :
    LET importer == pkgImporters[i] IN
    /\ importer.at = "linked" /\ pkgModule # Nothing /\ Cardinality(pkgHistory.shown) = 1
         => importer.got = pkgModule /\ importer.file = PkgMain[pkgModule]
    /\ importer.at = "failed" /\ importer.sure
         => importer.got = Failing \/ pkgHistory.late \/ Cardinality(pkgHistory.shown) > 1
============================================================================
