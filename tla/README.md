# Verification of the sandpack stack

TLA+ models of the in-browser sandbox bundler of this repository, TLC runs on
small instances, and TLAPS proofs. All paths below are relative to the
repository; `bundler/` abbreviates `packages/sandpack-bundler/src/bundler/`.

To check a run: `tlc -config MCBundlerEdits.cfg MCBundlerCycle.tla`. To check
the proofs: `tlapm BundlerCycleProofs.tla`, and so on for every `*Proofs.tla`.

## 1. The system

A host page embeds an iframe. The host owns the files and hands the iframe a
MessagePort to its filesystem; the iframe's bundler reads sources through it,
transforms them in a worker, downloads npm packages from a self-hosted CDN and
evaluates the app. Edits reach the iframe only as `fs-change` messages naming
paths. Everything inside the iframe runs in one thread: what interleaves is what
runs between two awaits.

| Component | State | Operations | Hard part |
|---|---|---|---|
| Compile / evaluate / HMR cycle (`bundler/bundler.ts`, `bundler/module/*`, `index.ts`) | modules map (code, evaluation, error, hot, dirty), transform queue, first load, HMR, reload flags, last HTML, debounce timer | fs-change, runCompile, compile, transform, evaluate, requestReload | edits land at any await; a compile shares transforms with earlier ones; page reloads instead of hot updates; the truth of `done` |
| On-demand installs (`bundler/module-registry/`) | registered packages, manifest, fallbacks, promise per import, window, chain, downloads, cancelled downloads, declared ranges | ensureEntries, whenIdle, installBatch, rollback, setDeclared | overlapping batches, all-or-nothing, late downloads, edits of package.json during an install, a batch that itself imports |
| Cached filesystem (`FileSystem/CachedFS.ts`, `RegistryFS.ts`) | read memos, in-flight reads, pending changes | readFile, isFile, markChanged, drain, forget, hydrate | an answer overtaken by a change; cached absences |
| Artifact store (`bundler/artifacts/`) | artifacts, dirty paths, distrust mark | seed, consult, write through, invalidate, spot-verify, discard | edit races look like tampering |
| Module graph and `module.hot` (`bundler/module/`, `packages/transpiler/src/react-refresh/`) | evaluations, hot flags, dispose handlers and data, evaluation stack, importers | reset, sweep, evaluate, require, accept, decline, dispose, invalidate | code that runs in the middle of the sweep resets, accepts, throws and requires in circles |
| SandpackFS (`packages/sandpack-client/src/fs/`) | files, metadata in memory and in the sidecar, subscribers, mount | writes, deletes, metadata calls, relay of the preview's writes, dispose | overlapping calls persist each other's metadata; writes fail |
| Handshake and refresh (`protocol/iframe.ts`, `sandpack-client/.../runtime/`) | expected initializations, pending port, snapshot | initialized, register-frame, request-refresh, destroy | stale documents, snapshot vs. edits |
| Fetch cache and parent bridge (`utils/fetch.ts`) | cached responses, bridge enabled | fetch, retry | a timeout racing a late answer |
| Worker message bus (`utils/WorkerMessageBus.ts`) | pending requests | request, answer, time out | late answers |
| Dynamic mounts (`mounts/`, `bundler/mountLifecycle.ts`) | mount table | add, remove, repo mount | handlers interleave at awaits |
| Pushed state services (auth, theme, editor, catalog, form factor) | last value, listeners | push, subscribe | none beyond delivery |
| Boot scan and its compile (`importScan.ts`, `sideEffectImports.ts`) | scanned files, transforms kept for the compile, packages found | walk, hold, adopt, install on demand | files change during the walk; a limit; failures that leave parts unseen |
| First install (`module-registry/lockset.ts`, `bundledPackages.ts`, `esm-fallback.ts`) | manifest, modules, fallbacks, declared ranges, left by failed compiles too | lockset or dep_tree, download, fall back, link | releases published meanwhile; a compile that starts over |
| Vendored modules (`registryResolvedModules.ts`, `sdkIntegrity.ts`) | files under /node_modules, registered modules | decide, fetch, verify, write | another release's files left on disk; pinned or not |
| Stylesheets (`transforms/css/`, `transforms/style/`, `transpiler/src/css.ts`) | markers of an analysis | analyze, bundle, restore, insert | an engine that merges sheets it must not understand |
| Resolver | none | resolve | `exports` conditions; agreement with the CDN, which resolves the same imports apart |
| CDN: package cache (`crates/sandpack-cdn/src/cached.rs`, `package/`) | moka cache of `Cached` objects, last value and in-flight load of each, transform cache on disk | get, get_cached, load, store | requests share loads, loads fail or panic, values age, get and insert are two steps, two stores share a temporary file, restarts |
| CDN: dependency tree (`collect_dep_tree.rs`) | release and entries per name, tasks and their handles, first error | add requests, resolve, expand, join, answer | tasks on several threads add to each other's names; imports in circles; tasks spawned while others are joined |
| CDN: package processing and entries (`package/process.rs`, `entries.rs`, `resolver.rs`) | transformed files of a package | transform, closure of an entry | which files and packages an entry needs, before anybody loads it |
| CDN: replicator (`npm_replicator/`) | rows of manifests, LRU, last refreshes | write, get, refresh | stale LRU, rate limit |
| Other transformers, error overlay, console, scripts, node and static clients, CDN router | none of their own | text to text, presentation, forwarding | not modelled |

How they interact: `fs-change` clears the memo and arms the debounced
`runCompile`, which drives `Bundler.compile`; compile's transforms read through
the memo and resolve imports through `resolveAsync`, which may start an install
and must wait for running ones; an install writes files the resolver reads and
links modules through the same resolver; an edited package.json is compared with
the registered packages and either reloads the page or replaces the declared
ranges; a reload is asked of the host, which navigates, so that bootstrap and
the handshake run again.

### What makes each component correct

- Cycle: `done(ok)` is truthful; nothing terminal is said once a reload is
  requested; a change is never forgotten; at rest the preview shows the disk; it
  comes to rest.
- Installs: all or nothing, no late registration, a promise kept to those who
  waited, no remembered failure after an edit, every import answered, no
  deadlock between linking and waiting.
- Filesystem: a memoized value that differs from the disk has a notice on its way.
- Artifact store: code served is code of the current source; an honest store is
  never discarded.
- Module graph: an update reported as applied has reached every module; every
  evaluation is disposed of once.
- Handshake: every document the host asked for is served by a live worker, and
  remembers nothing a change has overtaken.
- Fetch cache, message bus: one settlement per request, and no cache passes on what
  a broken upstream left in it.
- Mounts, pushed state: table, filesystems and services agree with the host at rest.
- SandpackFS: memory, sidecar, files and what subscribers have seen agree at rest.
- Boot scan: the one request of the first install is what the compile needs, and
  nothing the scan keeps outlives the source it was made from.
- First install: one release of each package, in the range declared, wherever its
  files come from.
- Vendored modules: all files of one release, the pinned one where one is pinned.
- Stylesheets: every statement of every sheet reached, once, in its conditions.
- Resolution: every package a file asks for was announced by the CDN, and the
  bundler's shortcut finds what its resolver finds.
- CDN: one load per `Cached`, no waiter left behind, an answered package on disk
  for the next process, no stale value after a write; the tree is the closure of
  the query: complete, and nothing besides.

## 2. Modules

**BundlerCycle** - one preview document, from the host's edit to `done`.
State and code: `disk`, `notices` are the host; `cache`, `inflight`, `pending`
are `CachedFS.fileCache`, `readInflight` and `pendingChanges`; `mods` is
`Bundler.modules` with the fields of `Module`; `tasks` is the
`transformationQueue`, each with the stage `_transformModule` is suspended in, and
with what it found in `modules` before it read (a retried first load empties the map);
`pc`, `batch`, `awaiting`, `walked`, `got`, `noop` are the locals of the
suspended `runCompile`/`compile`; `out` is the last of the messages start and
done. `lost` is history: the files one of whose changes the code may not act on
again (a read overtaken by a change, a change drained as watcher noise, a failed
read); every promise about freshness is stated outside it, and the finding below
shows it is not empty without cause. Actions are the code between two awaits:
`DeliverChange`, `PortAnswer`/`ReadDone` (the two halves of a Port exchange),
`TaskRead`/`TaskTranspiled`/`TaskDone`, `StartFirstLoad`/`StartUpdate` and the
phases of compile, `Evaluate`, `EvaluateThrows`, `HostReload`, and the faults
`ReadFails` and `TaskTimesOut`.
File contents are abstracted to a revision and the kind the bundler reacts to
(good, syntax error, throws, needs the package; package.json lists the package,
at one range or another, or does not). The import graph is the entry and its
direct imports. A package.json dependency is installed successfully at once here.

**InstallBatches** - imports, batches and package.json edits after boot.
`declared`, `modules`, `manifest`, `fallbacks`, `installs`, `pendingBatches`,
`late` are the fields of `ModuleRegistry` (`cancelledDownloads` is `late`);
`nextBatch`, `chain` and `batch` are the open window, `installChain` and the
locals of the running `installBatch`; `absent` is the resolver's cached misses;
`imports` are the suspended `resolveAsync` calls; `asked` is history. A release
stands for the range it was resolved from, and every package has one entry.
`EditPackageJson` stands for the compile that adopts the edit, in one step: that
compile does not await between its comparison and `setDeclared`.

**AtomicInstalls** - the promise of the install queue: the set of usable packages
only grows, and grows by packages whose dependencies are usable too.
InstallBatches implements it under the mapping `Usable`, which is what code that
waits for installs can see.

**DepTree** - one `/dep_tree` request of the CDN (`collect_dep_tree.rs`).
`states` is the collector's map (`known` is presence in it, `release` is
`resolved`), `tasks` are the spawned tokio tasks in the order of their handles,
each with what it is about to do (resolve, load to expand, add the requests in
`todo`) and what it expands, `rest` the query's requests `try_collect` has not
added yet, `joined` the handles it has awaited. Tasks run on several threads; an
action is what runs under one lock of `states`: `AddRoot` and `TaskAdds` are one
turn of `add_dep_requests` (pin, known name, skip, spawn), `Resolve` fixes a
release and reads the entries recorded so far, `Expand` and `Fail` are the other
ends of a task, `Join` and `Return` are `try_collect`. `dependencies` grows
exactly when a name gets its release and is read when no task is left, so it is
not a variable of its own. What the registry resolves a range to is the constant
`Offers`, what the files of an entry import is `Imports`. A tree cut by the limit
of 500 names is answered as a success; Complete says so (`Followed`). A task that
panics is only logged (`collect_dep_tree.rs:406`); tasks of the model do not
panic, they fail. `ExactTree` is what the answer promises: `Complete`, it is closed
under what it imports, and `NothingUnneeded`, it is within the closure of the query.

**PackageCache** - one release in the CDN (`cached.rs`, `package/cached.rs`,
`package/disk_cache.rs`). `held` is what the moka cache has under the key,
`cacheds` are the `Cached` objects made so far (several when calls miss together
or after an eviction; calls and loads keep theirs alive), each with the age of
`last_fetched` and its `inflight` reference; `calls` are the suspended
`CachedPackageProcessor::get`s and `loads` the spawned tasks. The weak `inflight`
is upgradable exactly while its task runs (`Joinable`). `GetCached` and
`LoadAnswers` are the two blocks under the lock; between them a load goes through
`disk_cache::load`, the transform and `disk_cache::store` in the steps another
thread or a crash can come between: read, remove, create or truncate the
temporary file, write, rename. `inodes`, `file` and `tmp` are the directory: a
name stands for an inode, and a task goes on writing to the one it opened
whatever its name has become. `overlap` is history: two loads of the release ran
at once. `Expire` and `Evict` are time and other keys, `Restart` the process. A
release is immutable, so that every whole file is as good as any other; a file
another format or a crash left is `partial`. Writing into a file is one step that
starts where the truncation has left it.

**HotModules** - the module graph of one document while updates are applied in
place. BundlerCycle has how a change reaches a compile, over a flat graph;
HotModules has what the code of a deep graph does while it runs. `hotMods` is
`Bundler.modules` (compiled, evaluation, `hot.hmrConfig`), `hotImporters` the
initiators, `hotStack` the `evaluationStack`, each module with the calls its code
has still to make, `hotLater` the promises of `accept(path)` and `decline(path)`.
An action is one call of running code: `Require` (an evaluation there is, a new
one, or the throw of `detectCycle`), `AcceptSelf`, `Dispose`, `DeclineSelf`,
`OtherModule`, `Throw`, and the react-refresh postlude, which accepts or
invalidates by comparing export signatures. `SweepOn` is one turn of the loop over
dirty modules; other code runs only where `Yields` says the loop is suspended.

**PackageFiles** - one on-demand package as its importers read it, between the
awaits of `resolveAsync`: the shared run of a resolution (`pkgResolved`), the
resolver's package.json (`pkgJson`), `CachedFS` with its absences and shared reads
(`pkgMemo`, `pkgReads`), `RegistryFS` with `contentCache` (`pkgContent`), while an
install registers a release, links it, and succeeds or rolls back.

**Session** - the host's client and the documents of its frame: `guard` is the
InitializationGuard, `version` and `connecting` the suspended handlers of
`initialized`, `doc` the document with its stage, memo, mounts, services and
registrations, `toHost`/`toDoc` the messages on their way, `loading` the
navigation the browser has yet to commit. Faults and alternatives of the
environment are bounded by `budget`. Actions are the handlers of
`runtime/index.ts` between awaits (`HearInitialized`, `PortConnected`,
`Register`, `HearRequestRefresh`, `HostRefresh`, `Destroy`), the bootstrap of the
document (`Boot`, `PortArrives`, `MountApp`, `BecomeReady`), its message handlers
(`Receive`, with the gate that holds messages back until it is ready) and the two
halves of mounting and unmounting. What the host page does around the client and
when the browser replaces a document is external and left open.

**Transport** - `retryFetch` with the immutable cache, the bridge to the parent and
its permanent disabling by one timeout (`fetchBridge`), the parent's handler
(`fetchParent`), and the WorkerMessageBus with a worker that may die.

**ArtifactStore** - the index of the cache zip (`artSetup`), `/transpiled`
(`artEntries`), the store's fields (`artStore`), the modules it feeds, the
transform tasks that consult it and write through, the idle spot verification.
Code is known by the revision of the source it is made from.

**HostFiles** - SandpackFS: `hostMeta` is the metadata in memory, `hostSidecar` the
file, `hostCalls` the calls suspended between awaits, `hostWrites` the sidecar
writes under way, `hostRelay` the preview's writes to be relayed. It assumes of
the filesystem below, which is external, that it finishes the writes of one file
in the order they were made.

**Manifests** - the npm manifests of the CDN: row, LRU and refresh times under a
lock each, and the requests between locks and awaits. A request is for a tag or a
range, whose steps an exact version takes too; only for a tag is the row's age looked
at. A first download (`fetch`) that fails is the caller's error, whatever another request
has stored meanwhile; a failed refresh (`refetch`) is not.

**PackagePaths**, **Resolver**, **PackageEntries**, **PackageLayout** - what the
imports of an installed package lead to. Resolver is the bundler's resolver and
the shortcut of `cdnLayoutResolve.ts`, PackageEntries the CDN's closure of an
entry; both are operators over the same package records. In PackageLayout an app
imports entries of one package, the package's files import each other, and what
both sides make of it is compared.

**BootScan** - the first compile of a document around its one install. `bootDoc` is
the document (stage, roots to compile, packages installed and demanded), `scanWalk` and
`scanTasks` the scan's queue, findings and concurrent walks, `scanKept` the transforms it
leaves for the compile, `bootMods` and `bootTasks` the modules and their transforms.
`ScanRoots` to `BootInstall` are `importScan.ts`: runtimes and entry points, then
what the scanned modules import, batch by batch up to `MAX_SCANNED_FILES`. The compile
reads each module, adopts what was kept of the same source or transforms it, and
demands what is missing (`BootLink`); an import that cannot be resolved is the module's
error, and what was linked by then is compiled all the same (`LinkFails`). A source is its set of import clauses, because
an import of types alone is no dependency, and the shim's imports for their effects
are compiled apart.

**PackageSupply** - that one install: `supSidecar` and `supJson` are what the app
brings, `supWorld` what npm and its mirror have, `supRegistry` the `ModuleRegistry` (it survives
a failed compile), `supFetches` the downloads, `supLinked` the modules. `LoadBegins`
takes the lockset if it applies, else `/dep_tree` is asked; packages come from the
zip, the CDN or, where the tree lacks them, from esm.sh, whose stub leads to a
build. A lockset that applies is taken as it is, the releases it resolved included
(`lockset.ts:88-96` compares its names and ranges with package.json), so that a sidecar
may say anything; `supPast` records that one was taken. `InstallBatches` takes over after the first compile.

**SelfHost** - the modules that come from an origin of their own: `selfHost` is the
page's pins, `selfLoad` the load under way, `selfMods` what is registered, `selfDisk`
what is written under /node_modules, which a failed load leaves behind.

**Stylesheets** - one stylesheet module from source to `<style>`. `CSSTransform` takes out
what only the Tailwind compiler understands and puts a marker for each of its imports
(`ResolverCss`), `ReadSheet` follows the imports, `Bundle` has the engine (external) merge
the graph and restores what the markers stand for, `Style` inserts the sheet.

**MCBundlerCycle**, **MCInstallBatches**, **MCDepTree**, **MCPackageCache** - constant values for TLC.
**MCCdn** puts the CDN's two state machines side by side.
**MCSession** adds to Session one of Transport's two halves, which a document uses
once it is at rest. **MCServices** puts the modules of `services` side by side:
they share no state, so one of them runs in a behaviour. **MCPackages** does the same
with PackageSupply and InstallBatches.
**BundlerCycleProofs**, **InstallBatchesProofs**, **ArtifactStoreProofs**,
**DepTreeProofs**, **PackageCacheProofs**, **ManifestsProofs**, **SessionProofs** -
theorems about the module of that name; BundlerCycleProofs also about BootScan,
ManifestsProofs also about PackageSupply.
**ServicesProofs** - theorems about HostFiles, PackageFiles, HotModules and SelfHost, one
part of the module for each.

Some definitions are accompanied by a seeded fault, an operator with a suffix
(`DeliverChange_KeepsMemo`, ...) that no specification uses: it is the code with
a plausible bug, kept so that each property can be seen to fail when the action
is replaced by it. PROJECT.json says which fault breaks which property.

## 3. Runs

| Run | Instance | Shows |
|---|---|---|
| `bundler_edits` | entry and one import, both hot; sources of every kind, package.json with or without the package, another page; 2 edits, 1 failed read or transform (1,249,941 states) | caches explained, messages truthful, convergence and termination of an app with HMR |
| `bundler_packages` | no module hot, so that every edit of a module and every package.json reloads the page; imports of the package, three package.json kinds, rewritten by every handshake; an ignored node_modules path; 2 edits, 1 failure (826,138 states) | reloads converge (`Convergence`) and do not cause each other: the document comes to rest (`Settles`) |
| `install_batches` | 3 packages (one needs another, which is compiled against a third, undeclared one), 2 importers, 3 imports, 1 edit, 1 failure; and the first install: 3 packages of up to 3 releases, 6 sidecars of which one resolves a package out of its range, 2 compiles, 1 release published meanwhile, 1 edit, 1 failure (391,091 states in all) | the registry's promises, and the refinement; a first install keeps to the declared ranges, or to the lockset, and to one release of each |
| `cdn` | a `/dep_tree` request: 4 packages, two of them importing each other, one importing itself, one pinned; limit 2, so that two names compete for the last place; 1 failure. Or 2 calls for one release, on no file, a whole or a useless one, or on a value long served; 2 failures (load, write, panic), 2 expiries or evictions, 1 restart (66,882 states in all) | the answered tree is the closure of the query, no work is done twice, the answer waits for every task and comes; loads are shared, nobody waits for a dead one, failures hide behind old values, what was answered is on disk unless loads overlapped |
| `session` | 1 file, 1 mount, 1 service; seven alternatives of trouble (up to 2 edits with a snapshot and a refresh; 2 reload requests with a failed connection; 2 refreshes, a reload request and a stray navigation; 3 mountings; 2 pushes; and mixtures), or none and then 2 fetches (one pinned, 1 retry, 2 faults, four kinds of parent) or 2 transforms | documents stay in step with the host, are served or replaced; no request hangs |
| `services` | artifacts: 2 paths, 2 edits, 5 zips (3 up to symmetry); manifests: 2 requests for a tag, a range or a version, 3 revisions of which one is empty, 1 failed download; host files: 1 path, 2 callers, 3 calls, 1 relayed or failed write, 4 ways to make the handle; package: 3 importers of which two share resolutions, 2 releases, 3 imports, 1 failure; modules: 3 in a graph that may have circles, 3 to 6 scripts each, 2 edits; 13 package layouts with 4 entries; boot scan: 6 files, 3 packages, limit 4, with an entry or without, 1 edit, 1 failure; vendored module: 3 files, 3 releases, 2 loads, 1 edit, 1 fault; stylesheets: 4 sheets, one of a package (1,092,055 states in all) | what the preview is served from is current, each part under its own races |
| `stale_recompile`, `new_dependency`, `ignored_change`, `range_in_flight`, `partial_file`, `stale_range` | as above | the findings below, each as a counterexample |

Why the bounds suffice for what they are for: two edits give every order of two
changes of one file and of two files relative to one compile's awaits, which is
what a stale read, a joined transform, a drained change and a second compile
need; a document reloads at most as often as edits and rewrites ask for it. One
entry and one import give the two shapes the code distinguishes (the module the
closure runs and a module it requires). Two importers and three imports give a
batch running, one queued and one window open, and a request after a failure.
In `cdn` four names suffice for a name asked for at two depths while it
resolves, entries that arrive late, a cycle and the limit; two entries tell a
package's root from the rest, and two releases tell the order of resolutions.
There, too, two calls miss together, wait for the same load, or take the
value of the call before; the initial state with a value stands for calls answered
earlier, so that both calls can find it stale. The restart may follow either.
In `session` one document at a time is in the frame, and two navigations make the
superseded, the overtaken and the refused boot; the alternatives of trouble are run
apart because they meet in the handshake, not in each other. In `services` two
edits, callers or requests give every order of two operations around the awaits of
one; the modules run needs three modules for a chain, a circle and a shared
dependency. Paths, callers and requests named x and y are alike, and only
invariants are checked there, so that the symmetry is sound.
`MaxEdits`, `MaxFaults`, `MaxImports`, `MaxLapses`, `MaxCrashes`, the fields of
Session's `Budgets`, `FetchRetries` (a parameter of the code), `FetchFaults`,
`ArtMaxEdits`, `ManRevisions`, `ManFaults`, `HostCalls`, `HostRemotes`,
`PkgImports`, `PkgFaults`, `HotEdits`, `ScanEdits`, `ScanFaults`, `SelfLoads`,
`SelfEdits`, `SelfFaults`, `SupLoads`, `SupPublishes`, `SupEdits` and `SupFaults` are the only bounds, and they bound the
environment, not the program. Deadlock checking is off: a document at rest with
no edit left has nothing to do, and an answered request is over.

Fairness is weak fairness on everything the program and its promises to the
program do: the event loop runs the tasks it holds, timers fire, requests settle
one way or another (`retryFetch` gives up after five retries, the worker bus
times out), the host navigates when asked. No edit and no failure is fair. One
weak fairness condition on the disjunction is enough because none of these steps
can be repeated for ever without another being taken. In DepTree a task's
registry request may fail at any time, so that `Fail` is among the fair steps. In
PackageCache the runtime's threads run every task; a download ends because the
HTTP client times out, with a result or as a failed load. In Session the browser
commits navigations and delivers messages, promises settle and the host page
answers (`System`); no refresh, edit, mount or stray navigation is fair. In
Transport every call makes steps until it settles: the timers of the bridge and of
the bus are among those steps, an answer of the parent or the worker is not owed.

The type invariants of BundlerCycle, DepTree and PackageCache are proved
(`TypeCorrect`) and not checked again, nor are `NoTaskLeft` and `OneLoad`, which are
theorems too. `Settles` is checked in both bundler runs: with HMR a failed module, a
debounced compile or an unfinished transform could keep a document from rest, without
HMR a reload that causes the next: package.json is written on every handshake
(`Rewrites`), and a change of package.json reloads an app without HMR
(`bundler.ts:1225-1226`), unless it is a first load's or the content is the same. The modules of `session` and `services` have no type invariant in the
runs, as their invariants already read every field.

## 4. Findings

1. `stale_recompile`. `CachedFS.readFileAsync` memoizes whatever an in-flight
   read answers (`FileSystem/CachedFS.ts:216-222`), although `markChanged` dropped
   the path meanwhile. The recompile then uses superseded bytes, against
   `bundler/testHarness/bundlerHarness.hmr.test.ts:68-70`.
2. `new_dependency`. Changed sources are transformed before package.json is
   adopted (`bundler/bundler.ts:1247-1297`) and a refused module keeps its error
   (`bundler/module/Module.ts:65`), against `bundler/bundler.ts:579-583`.
3. `ignored_change`. A change of node_modules paths alone makes the next compile
   a no-op that reports success after a failed one (`bundler/bundler.ts:1211-1214`),
   against `index.ts:560-563`.
4. `range_in_flight`. A range bumped while its package is being installed is
   adopted without a reload (`bundler/bundler.ts:584-589`), against
   `bundler/module-registry/index.ts:226-230`.

5. `partial_file`. The temporary file of the transform cache is named after the
   release alone (`crates/sandpack-cdn/src/package/disk_cache.rs:118`), and two
   calls that miss together load and store the release at the same time
   (`package/cached.rs:121-134`): one truncates the file the other is about to
   rename, against `disk_cache.rs:117`. The harm is bounded: a partial file is
   removed by the load that meets it. Without overlapping loads the comment holds
   (`WholeWithoutOverlap`).
6. `stale_range`. A range is resolved in a manifest of any age: `resolve_dep` asks for a
   fresh one for a tag only (`crates/sandpack-cdn/src/package/collect_dep_tree.rs:202`,
   `ensure_package`), against `npm_replicator/database.rs:31-32` and `:240-241` and
   `collect_dep_tree.rs:194`, which say that ranges follow npm as tags do. As long as one
   stored version satisfies a range, newer ones are not seen. What holds is stated for
   tags (`TagsFollowNpm`).

### Weaknesses the invariants name as exceptions

Some promises hold only outside situations the code does not handle. Each is a
history variable of the model, named at its property; without the exception the
run has a counterexample.

- Handshake. A navigation superseded before its document ran leaves a credit, and
  `request-refresh` is then ignored for ever (`runtime/index.ts:266`; `superseded`).
  A document whose `initialized` is overtaken, or that navigates itself, can be
  registered twice or refused (`runtime/index.ts:504`; `overtaken`, `stray`). Files
  changed between the snapshot and the registration are never announced
  (`CachedFS.ts:189`, `runtime/index.ts:649`; `missed`). A removal that meets an
  unfinished handler of the same mount drops the newer descriptor
  (`index.ts:457`; `crossed`).
- Artifacts. A change no loaded module took is forgotten by the store
  (`bundler.ts:1239`; `unnoticed`). The spot check condemns an edited entry
  (`artifactStore.ts:245`; `edited`), and an entry condemned while it is consulted
  gives code without its imports (`artifactStore.ts:166`; `raced`).
- Manifests. A reader puts an overtaken row into the LRU (`database.rs:142`), an
  older download is written last (`database.rs:178`; both `spoiled`), and a failed
  refresh counts for a minute (`database.rs:228`; `held`). Both cases of the
  hazard are excused so; what is shown is that there is no third.
- SandpackFS. After a failed sidecar write memory and sidecar differ, and a removal
  may go unannounced (`SandpackFS.ts:634`, `:426`; `lost`, `untold`); a policy that
  was there first refuses the sidecar (`:214`).
- Packages. A rolled-back release stays in RegistryFS's contents and in the
  resolutions (`bundler.ts:618`; `shown`); an absence looked up before registration
  is memoized after absences were forgotten (`bundler.ts:651`), and a run begun
  before the install is shared by those who retry after it (`bundler.ts:697`; both
  `late`).
- First installs. A first compile that failed is tried again with the same registry,
  and without the rollback an on-demand batch gets (`index.ts:299-304`, `:332-342`). After
  an edit of a range the retry keeps the release that is already installed, pinned
  over the new range, or stays on the esm.sh fallback for the old range although
  `/dep_tree` resolves the new one (`edited`); `depmap.ts:47-48` advises just such an
  edit. A late download of the failed attempt may register another release over the
  linked one (`overtaken`). The releases of a lockset whose map is the app's are not
  compared with the ranges they were resolved for: a package is installed as such a
  lockset says (`Trusted`), and this is all a sidecar can do about it.
- Hot updates. `module.hot.invalidate` is never processed: the loop at
  `bundler.ts:1453` takes `Object.values` of a Map. Importers it reset wait for the
  next update, and importers a throw cut short are not dirty any more. A module
  reset while it runs, by the component it exports, has no code until its next
  change is drained: `resetCompilation` then returns before it drops the evaluation
  (`Module.ts:129`), and the update ends with the old one (all three `left`). A failed first load that is tried again forgets its dispose handlers
  (`index.ts:547`; `retried`).

Seen while modelling, and in the models as the code has it: the boot scan does not see
packages the shim imports for their effects, which are then installed on demand; a
vendored module that is loaded again leaves files of its earlier release on disk, and an
edit of its version after the boot is not noticed; a package's sheet that is not
bundled keeps the bare strings of `image-set()` unrebased; `css/import-loader/` has no
caller; one timeout of the
parent bridge disables it for the document; `module.hot.decline()` resets the
running module and reloads every document again; callbacks given to
`accept(path, cb)` never run, and the accepted module is hot only until its next
evaluation; a require cycle through an evaluated module passes as an update and is
refused by a fresh document. CDN and bundler disagree on some layouts, and
PackageLayout's properties leave these out by name: a relative import of the package
root (nothing at the CDN; `index.js`, not the main file, on the bundler's shortcut;
the main file in its resolver), an importer's own extension (first at the CDN only),
`alias` and nested package.json files (not read by the CDN), `*` in `exports` (any
depth and longest prefix at the CDN, one path part and first match in the bundler),
and files that were never transformed (imports not announced).

## 5. Proofs

In BundlerCycleProofs, for all constants that meet the named assumptions:

- `TypeCorrect`: `Spec => []TypeOK`. TypeOK also says that a compile that ended
  holds nothing, which makes it inductive as it stands; `StepType` has one step
  per action.
- `MemoCoherent`: `Spec => []CacheCoherent`. CacheCoherent alone is not inductive:
  a stale answer in flight would be memoized. The inductive invariant adds that an
  answered read that differs from the disk has its notice on the way (or is in
  `lost`), from which the memo's coherence follows when the answer is delivered.
- `NoStaleCode`: `Spec => []StaleIsExplained`. It needs the memo's coherence, and
  `TasksExplained`: the transform under way is of the disk's content, or of
  superseded content whose change is on its way or pending for its module.
- `NoFalseTerminal`: `Spec => NoTerminalWhileReloading`, by cases on the steps that
  write `out`; the invariant it needs is that a compile that waits after the reload
  request does not exist.
- `OkIsTrue`: `Vendored = {} => (Spec => []OkMeansEvaluated)`. The invariant has two
  layers. `EvalInv` is about modules: one that ran holds the code it ran
  (`RanIsCurrent`), the walk passes modules that stay finished for as long as the
  compile lasts (`WalkedIsFinished`), and one that has not run is dirty or needs code
  that threw and that nothing has touched since (`BehindIsExplained`). `OkInv` is about
  the message: while it says ok, or a compile with nothing to do is about to repeat it,
  everything is settled, and a compile that finds no change follows one that said ok. The hypothesis says that the host writes
  nothing under node_modules. It is needed: the run `ignored_change` (a finding) has the
  document report ok after such a write, without having looked at it.
- `PreviewConverges`: `Spec => []Convergence`, without a hypothesis. It adds to the above
  what a document at rest relies on, each part for any moment and not only at rest:
  `LinkInv` (a transform leaves code, an error, or the file is among the lost;
  the entry has started every import it has; an error is that of what is on the disk, or
  an update is owed), `DoneInv` (whatever is not ok has a reason: a failed module, a
  timer, a compile under way, a reload; a change pending will be
  drained: the timer is armed, a reload is asked for, a first load is about to drain it,
  or a file is among the lost) and `PageInv` (the page and the declared range are the disk's, or an
  update is owed). `RestShowsDisk` puts them together.
- `NothingHangs`: `Spec => []NeverStuck`, the half of `Settles` that needs no fairness:
  until a document is at rest there is a step it, or the host that owes it a reload, can
  take. The invariant is `Underway`: a transform that reads has a read on its way, and
  what compile awaits is a transform that runs. `Runnable` lists the guards of the steps,
  since ENABLED is out of the proof system's reach.

In BundlerCycleProofs, about BootScan, for any disk, sources, roots, styles and packages,
`FirstCompileIsServed` (BootServesCompile). A module has the code of the source it read
because of `CodeFollows`, whatever the scan kept. The two halves of RequestIsExact take
two more layers:

- while the scan has not lost track, what was seen has been followed or will be
  (`WalkFollows`), and nothing was seen or found in vain: it is in every set of modules
  that contains the roots and is closed under imports (`WalkFinds`; the reachable modules
  are the least such set, which needs no recursion). Compile comes only to modules the
  scan saw, from roots the scan started at (`Reached`, `Rooted`), so the package of an
  import it resolves is installed by then: nothing is demanded but for the shim (`Asked`);
- while also nothing has failed, what a compiled module imports is compiled or under way
  (`Begun`), and the graph of each root that compile has left behind is compiled
  (`Owes`). At the end the compiled modules contain the roots and are closed under imports, so
  by `WalkFinds` the scan saw no others: what it asked for is imported by a module that
  has code.

The attempt to prove it found a mistake of the model: without an entry point
`scanEntryImports` (`bundler.ts`) ends before it scans, and packages are then installed
on demand. The property had to say so, and the instance did not have such a disk.

In InstallBatchesProofs, for any packages, importers, failures and edits:

- `NothingIsLeft` (NoTrace) from `Books`: between batches manifest and fallbacks are
  those of the installed packages and closed under needs; while a batch brings
  packages in, its books of before are in order, what was installed then is
  untouched, and the manifest is ahead of the installed by the downloads alone.
  That is what makes a rollback exact.
- `AllOrNothing`: `Spec => InstallsAreAtomic`, the refinement of AtomicInstalls. What
  can be relied on is the books of before while a batch is bringing packages in,
  and the modules otherwise; each step keeps it or adds whole packages to it.
- `InstallsAreKept` (EnsuredIsUsable) from `Promised`, with Books.
- `FailuresAreFresh` and `BatchesAreCounted` from `Queued`, `Fresh` and `Counted`: a
  package waits in one place, so that only its own batch settles it.
- `EveryWaitHasAnEnd` from `Awaited`, with Counted: a pending install is in the open
  window, in the chain or in the batch that runs, and who waits for an install waits for
  a pending one. So nobody waits for what nobody is about to do; that it is done is what
  fairness adds in EveryImportSettles.

In ArtifactStoreProofs, for any paths, edits and cache zips, `ServedStaysCurrent`
(ServedIsCurrent). The invariant is about one path at a time: `Current` (code in work
and entries are of the source too, unless the module stays), `Recorded` (the record
of imports is the entry's until its deletion begins), `Orderly`, and `Just` (without
an edit nothing that is compared differs but by tampering).

In DepTreeProofs, for every registry, query, set of pins and limit, every safety
property of the run. The steps are first reduced to what they do to names and
tasks (`AddStep`, `Follows`, `Fails`, with `StepCases` as the case distinction of
Next), so that no later proof looks into the sequence of tasks. Then:

- `Core` (TypeOK, `Shape`, `Alone`) is inductive: a task's name is known and
  records what the task expands, a resolving task's name has no release, and a
  name without release has one task only. TypeOK needs it, because an expansion
  goes on with its name's release, which must exist. `TypeCorrect` includes the
  limit on the number of names.
- `NoWorkRepeated` (NoWorkTwice) is inductive with Core: what a request adds is
  what its name does not record, and tasks expand recorded entries only; a
  resolution takes over all of a name's entries, but is alone (`Alone`).
- `NoTaskLeftBehind` from `Joining`: joined tasks are done and stay so.
- `PinsAlwaysWin` from `Pinned`: resolving tasks of a pinned name have its range.
- `TreeIsExact` (ExactTree), in two halves. `NothingElse` from `AllNeeded`, which adds to
  NothingUnneeded the requests tasks have yet to add. `CompleteTree` from `Cover`: whatever the tree lacks, someone still has to see to
  it - a root request not added, the resolution of a name without release, the
  task that expands an entry, a request a task has yet to add - or an error is
  recorded. It needs that a name refused once is never taken (the known names
  only grow) and, with `Joining`, that nothing fails after the answer.
- `CollectionMovesOn`, what `TreeIsAnswered` needs beside fairness: until the answer there is a
  next step (`GoesOn`), and none undoes another (`MovesOn`) - a name keeps its release
  and its entries, a task goes to a later phase or has fewer requests to add, and a new
  task has a name or entries the tree did not have. With names and entries finite, the
  collection therefore ends, import cycles included.

In PackageCacheProofs, for any number of calls, faults, lapses and restarts, every
safety property of the run. The lemmas first reduce each step to what it does to
one call, one object, one load (`AskDoes`, `LoadMoves`, `Created`, ...), so that
the invariants are proved without sequences. Then:

- `Typed` adds to TypeOK that a call past its look-up has an object and that a
  writing load has a file open, without which TypeOK is not inductive.
- `NoOneIsForgotten`, `LoadsAreShared` and `FailuresAreHidden` from `Coalesced`: a
  running load is the one its object's `inflight` names, and a waiting call waits
  for a running load of its object, which has no value. The second part needs the
  first: an answer that gives the object a value reaches all who wait, because
  all wait for the same load.
- `AnswersSurvive` and `StoresAreAtomic` from `Tidy`: without overlap one load runs
  at a time, the temporary file is its own, and whoever has a value has it on disk,
  so that no load is about to remove a file that is stored.

In ManifestsProofs, for any number of requests, `TagsFollow` (TagsFollowNpm): a tag
whose row is old is chosen in what npm had; of every request, ranges included, that its
manifest is no older than the row it found. That a range keeps up with npm is not
claimed; it does not.
`Bounded` orders the revisions: a download on its way is no older than what was the
oldest when any request came. `InStep` keeps row and LRU together unless a writer has
still to evict; `Follows` says what each stage of a request may rely on.

In ManifestsProofs, about PackageSupply, for all packages, needs, ranges, releases,
shapes at esm.sh and sidecars, and any number of compiles, edits, publications and
failures. Nothing is assumed of what a sidecar's lockset resolved. The invariant
`SupInv` has one part for each reason:

- `ReleasesAgree` (OneReleaseOfEach) from `Waited`: there is one download of a package
  under a version, and once the compile links, every download still under way is one
  that a failed compile began, so nothing else is registered over what was linked.
- `SupplyIsDeclared` (SupplyIsAsDeclared) from `Covered` (the manifest is installed or
  awaited), `Ranged` (of a package whose range was not edited, the module, the fallback,
  every download and every entry of the tree are of a release that is `Permitted`: of its
  range or, once the document has taken its sidecar's lockset, of what that resolved out
  of it - which includes the package that an attempt without the lockset, or after an edit
  back, finds installed and pins), and `Told` with `Repeats`:
  a download from esm.sh is told what is installed when it begins, and may end in a later
  compile, with another manifest. As long as package.json is the same, that manifest has
  the earlier names: a lockset applies again or not again, and a tree is
  `TreeNames`, a set that grows with the mirror because what is pinned can be
  resolved again.

The proof corrected the property, whose exceptions were too few: an edit that is adopted
after the first compile counts as well, because the download of a package nobody
imports may still be under way; and the imports of what esm.sh serves may be
uninstalled after an edit between two first compiles even if nothing was left of the
package edited. An instance with two edits shows the first.

In SessionProofs, for any files, mounts, services and bounds. The steps are first
reduced to what they do to the messages and the guard (`NextCases`). The sets of
mounts and services are assumed finite (`FiniteAssumption`), because the host sends
one message for each.

- `NoDocumentRefused` (NoFalseRefusal) from `Expected`, a counting argument: the guard
  expects at least as many boots as there are `initialized` messages unheard,
  documents that have yet to send one, and navigations under way.
- `WorkerIsLive` (LiveWorker) from `OneWorker`: unless a boot was overtaken, one boot at
  most is unheard, and there is no worker until its handler has made one.
- `MemoStaysInSync` (MemoInSync) from `InSync` and `Heeds`: snapshots on their way and the
  configuration waiting to be taken over are followed by the notice of every
  change they miss, because both go through one ordered channel and the messages
  that wait for `readyPromise` are applied after the hydration.

- `HostStateStaysInSync` (HostStateInSync) from `Informed`. `Knows` is its heart: of every
  service and every mount the last word of the host is what the document holds, or
  is on its way, or waits at the gate, or is in the hands of a handler that has not
  ended, or will be asked for; the channel's order makes it the last of its kind.
  The other parts say why a handler cannot undo it: `Early` (no handler starts before
  the document is ready), `OneAtATime` (a mount has one handler at a time unless its
  messages crossed), `Described` (the table has what is mounted, or a handler is about
  to put it right), `Real`, `KnowsRepo` and `AllTold` (listeners).
- `NobodyIsStranded`, what `EveryDocumentIsServed` needs beside fairness, from `UnderWay`.
  A document that waits for its port has its `initialized` unheard, a handler of it in
  force, or its registration on the way. A request for another page is behind every
  `initialized` in the queue, and no more boots are expected than are unheard or under
  way, so that it is not ignored when its turn comes. The latter is the converse of
  `Expected` and fails once a navigation was superseded, which is the case that
  `DocumentServed` leaves out. `GoesOn` lists the guards of the steps.

In SessionProofs, about Transport, for any fetches, pins, transforms and retries, each
transport by itself (`FetchSpec`, `BusSpec`: in the run a document uses one at a time),
what `RequestsSettle` rests on beside fairness:

- `CachesAnswerThePin` from `Checked`: the parent answers "cached" only what it compared
  with the pin. `FetchesAreFinite`: every step of a call takes it to a later stage or
  counts an attempt, so a call that does not stop moving ends.
- `TransformsHaveAnEnd` and `TransformsSettleOnce` from `Timed`: a request has its entry, and
  so its timer, until it is told something; the timer takes the entry with it, which a
  late answer then does not find.

In ServicesProofs, about HostFiles, for any paths, callers, listeners and ways to
make the handle, `HostStaysInSync` (HostFilesInSync):

- `Orderly`: each sidecar write on its way belongs to one call that waits for it.
- `SidecarFollows`: someone has still to write what the handle holds, or the last
  sidecar write on its way says it, or none is and the sidecar says it. The
  interesting step is `unlink`, which looks at the metadata a second time.
- `SubscribersFollow`: a file not seen as it is will be told by a landed write or a
  relay, or is gone unannounced. `DeclaredFollows`: undeclared writes have landed.

In ServicesProofs, about PackageFiles, for any importers, directories and releases,
`ImportersSeeTheRelease` (ImportsSeeTheRelease) from `Following`:

- `Registered`, `Followed`: whatever a memo, a read in flight or an importer holds is of
  a release that was registered once. With one such release, it is that one.
- `Forgets`: once the install has linked the package no memo says a file of it is
  absent, unless an absence looked up before came late. `Serves`: so no importer that
  is sure of the package meets an absence; a failure it meets is a fetch's.
- `OneRun`: a directory has one run of the resolver at a time, and whoever joined it is
  no surer than it is; without it a sure importer could share the failure of a run
  begun before the install.

In ServicesProofs, about HotModules, for every graph in which the entry reaches the
other modules whatever versions they are in (`HotAssumption`: edits that drop the last
import of a module are out of the model's scope, because the document keeps such a
module without running it) and all scripts their code may have, `UpdatesAlwaysLand` (UpdatesLand), the conjunction of two
things:

- `Reaching`: as long as no reload is asked for, a module that is not evaluated has its
  turn before it in the sweep, or runs, or was left (`Due`); what has no code is being
  transformed (`Recompiles`); code and evaluation are of the source but for changes no
  compile has seen (`Current`); a module is on the stack once (`OnceEach`) and runs what
  its source says (`CurrentRuns`). On a first load the sweep does not help:
  there `Closed` says that a module that ran has had run what it requires, except
  what a module on the stack has yet to require, so that at the end, with an empty
  stack, the modules that ran are closed under requires and contain the entry: by
  the assumption they are all.
- `Owing`: dispose handlers owed are those registered, plus those a retried first load
  forgot.

In ServicesProofs, about SelfHost, for any releases, pins and scripts,
`TheReleaseIsRun` (RunsTheRelease):

- `Decided`: from the manifest on, the version is the one package.json asks for, not
  below the floor and, if the page pins, pinned.
- `Fetched`: what has been fetched is of that version, and nothing the manifest does not
  list. `Checked`: what is being written has been verified as a whole, so under pins it
  is what was published (`VerifiedIsGenuine`).
- `Stored`: while a load writes, the files written are on the disk and the scripts among
  them are modules; a module is never there without its file. `Pinned` is about all
  loads: under pins nothing else was ever written.

Only model-checked: the liveness properties (`Settles`, `EveryImportSettles`,
`TreeIsAnswered`, `CallsAreAnswered`, `EveryDocumentIsServed`, `RequestsSettle`:
fairness is out of the proof system's reach; what they need beside it is proved for
each of them: `NothingHangs`, `EveryWaitHasAnEnd`, `CollectionMovesOn`, `NoOneIsForgotten`,
`NobodyIsStranded`, `FetchesAreFinite` and `TransformsHaveAnEnd`), and of `services` what
PackageLayout says (`ClosuresAreComplete`, `FastPathAgrees`). Resolver, PackageEntries and
PackageLayout use recursive operators, and what those compute for every package is a
matter of induction over data, which the installed provers cannot do; Stylesheets,
with `StylesAreWhole`, is the same. Every other property of a passing run is a theorem.

## 6. Not modelled

- Transformers but for stylesheets, and parsers: text to text, without state. The
  modules have their outcome, code with imports or an error.
- The error overlay, the console hook and the gesture gate: presentation. When the
  overlay is shown and cleared follows from the messages of BundlerCycle.
- The node and static clients: drivers of external programs that keep the state.
- The CDN's router, and the transpiler's and deployment's scripts: decoding,
  encoding and offline work.
- Of modelled components: presets and resource mode of the
  bundler (they add entries to the graph BundlerCycle walks); the specifiers the artifact
  store records for the boot scan; what of a version's text counts as one
  (`concreteVersion`'s pattern is not anchored, and takes the first version of a range of
  several, which the comment at `registryResolvedModules.ts:65-69` says is refused);
  conditions merged for a sheet that is imported twice; repository mounts; tsconfig paths;
  resizing, screenshots and other requests to the document that keep no state;
  the extraction of tarballs. The listing operations of the filesystems read what
  the models have and change nothing.
