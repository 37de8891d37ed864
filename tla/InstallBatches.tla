--------------------------- MODULE InstallBatches ---------------------------
(***************************************************************************)
(* On-demand package installs after boot: Bundler.resolveAsync of the      *)
(* modules being compiled (and of dynamic imports), ModuleRegistry's       *)
(* batching window, serial chain of batches with their downloads, closure  *)
(* and rollback, and the adoption of an edited package.json meanwhile.     *)
(*                                                                         *)
(* An action is what runs between two awaits.  A package is installed      *)
(* through one entry (expansions by further entries are left out), and a   *)
(* release stands for the declared range it was resolved from.             *)
(***************************************************************************)
EXTENDS Naturals, Sequences, FiniteSets

CONSTANTS
  Packages,    \* package names
  Ranges,      \* version ranges package.json may declare
  None,        \* no range
  Needs,       \* Needs[p]: what /dep_tree returns along with p, transitively
  Used,        \* Used[p]: the used modules (ICDNModule.m) /dep_tree omits
  Booted,      \* packages the boot install brought
  FirstDeclared, \* the declared map at boot
  Importers,   \* resolutions the compiling modules and dynamic imports perform
  MaxImports,  \* bound on imports
  MaxEdits,    \* bound on package.json edits
  MaxFaults    \* bound on failed requests and packages dropped by the CDN

ASSUME PackagesAssumption ==
  /\ None \notin Ranges
  /\ Needs \in [Packages -> SUBSET Packages] /\ Used \in [Packages -> SUBSET Packages]
  /\ \A p \in Packages : \A q \in Needs[p] : Needs[q] \subseteq Needs[p]
  /\ FirstDeclared \in [Packages -> Ranges \cup {None}]
  /\ Booted \subseteq Packages /\ \A p \in Booted : Needs[p] \subseteq Booted
ASSUME BoundsAssumption == MaxImports \in Nat /\ MaxEdits \in Nat /\ MaxFaults \in Nat

VARIABLES
  \* ---- ModuleRegistry
  declared,
  modules,     \* modules[p]: where p came from and the range it was resolved for
  manifest, fallbacks,
  installs,    \* the promise per package: none, pending, ok or failed
  doomed,      \* promises whose failure a later setDeclared forgets
  nextBatch,   \* imports the open window collects; {} when none is open
  pendingBatches,
  chain,       \* batches waiting for their turn
  batch,       \* the batch that is running
  downloads,   \* downloads that will register their package
  late,        \* cancelledDownloads
  \* ---- Bundler
  absent,      \* packages the resolver has cached as missing
  imports,     \* imports[i]: what resolution i is doing, and for which package
  reloading,
  \* ---- counters and history
  asked,       \* asked[p]: edits made when the install of p was last enqueued
  asks, edits, faults

contentVars == <<declared, modules, manifest, fallbacks>>
promiseVars == <<installs, doomed>>
queueVars   == <<nextBatch, pendingBatches, chain>>
fetchVars   == <<downloads, late>>
bundlerVars == <<absent, imports, reloading>>
history     == <<asked, asks, edits, faults>>
registryVars == <<contentVars, promiseVars, queueVars, batch, fetchVars>>
vars == <<registryVars, bundlerVars, history>>

Range0   == Ranges \cup {None}
\* A release comes from "none", the "cdn" or "esm".
Missing  == [source |-> "none", range |-> None]
Installed(releases) == {p \in Packages : releases[p].source # "none"}

NoBatch == [phase |-> "none", wants |-> {}, request |-> {}, pins |-> [p \in Packages |-> None],
            before |-> [p \in Packages |-> Missing], manifest |-> {}, fallbacks |-> {},
            todo |-> {}, tried |-> {}]
\* An import is "idle", "waiting" for the installs under way, "resolving", "missed",
\* "installing", "installed", "linked" or "failed"; a batch is in the phase "tree",
\* "download", "used" or "link".
Idle == pendingBatches = 0

Init ==
  /\ declared = FirstDeclared
  /\ modules = [p \in Packages |-> IF p \in Booted
                   THEN [source |-> "cdn", range |-> FirstDeclared[p]] ELSE Missing]
  /\ manifest = Booted /\ fallbacks = {}
  /\ installs = [p \in Packages |-> "none"] /\ doomed = {}
  /\ nextBatch = {} /\ pendingBatches = 0 /\ chain = <<>> /\ batch = NoBatch
  /\ downloads = {} /\ late = {}
  /\ absent = {}
  /\ imports = [i \in Importers |-> [state |-> "idle", name |-> CHOOSE p \in Packages : TRUE]]
  /\ reloading = FALSE
  /\ asked = [p \in Packages |-> 0] /\ asks = 0 /\ edits = 0 /\ faults = 0

-----------------------------------------------------------------------------
(* Resolving an import: Bundler.resolveAsync *)

Becomes(i, state) == imports' = [imports EXCEPT ![i].state = state]

\* whenIdle: wait while a batch is queued or running.
Import(i, p) ==
  /\ asks < MaxImports /\ asks' = asks + 1
  /\ imports[i].state \in {"idle", "linked", "failed"}
  /\ imports' = [imports EXCEPT ![i] =
                   [state |-> IF Idle THEN "resolving" ELSE "waiting", name |-> p]]
  /\ UNCHANGED <<registryVars, absent, reloading, asked, edits, faults>>

IdleAtLast(i) ==
  /\ imports[i].state = "waiting" /\ Idle
  /\ Becomes(i, "resolving")
  /\ absent' = {}
  /\ UNCHANGED <<registryVars, reloading, history>>

\* resolveInstalled looks into /node_modules, some reads later, through the
\* cached absences.
Found(p) == p \in Installed(modules) /\ p \notin absent

Resolve(i) ==
  /\ imports[i].state = "resolving"
  /\ LET p == imports[i].name IN
       IF Found(p) THEN Becomes(i, "linked") /\ UNCHANGED absent
       ELSE Becomes(i, "missed") /\ absent' = absent \cup {p}
  /\ UNCHANGED <<registryVars, reloading, history>>

\* A miss installs nothing when the package is there after all, or undeclared.
MissIsFinal(i) ==
  /\ imports[i].state = "missed"
  /\ imports[i].name \in Installed(modules) \/ declared[imports[i].name] = None
  /\ Becomes(i, "failed")
  /\ UNCHANGED <<registryVars, absent, reloading, history>>

\* ensureEntries: join the package's install, or enqueue it in the open window.
EnsureEntries(i) ==
  /\ imports[i].state = "missed"
  /\ LET p == imports[i].name IN
       /\ p \notin Installed(modules) /\ declared[p] # None
       /\ IF installs[p] = "none"
          THEN /\ installs' = [installs EXCEPT ![p] = "pending"]
               /\ pendingBatches' = IF nextBatch = {} THEN pendingBatches + 1 ELSE pendingBatches
               /\ nextBatch' = nextBatch \cup {p}
               /\ asked' = [asked EXCEPT ![p] = edits]
          ELSE UNCHANGED <<installs, pendingBatches, nextBatch, asked>>
       /\ Becomes(i, CASE installs[p] = "failed" -> "failed" [] installs[p] = "ok" -> "installed"
                        [] OTHER -> "installing")
  /\ UNCHANGED <<contentVars, doomed, chain, batch, fetchVars, absent, reloading, asks, edits, faults>>

\* The install is done: forgetMissingNodeModules, then resolve once more.
ResolveAgain(i) ==
  /\ imports[i].state = "installed"
  /\ absent' = {}
  /\ Becomes(i, IF imports[i].name \in Installed(modules) THEN "linked" ELSE "failed")
  /\ UNCHANGED <<registryVars, reloading, history>>

-----------------------------------------------------------------------------
(* The queue: ModuleRegistry.enqueueInstall and installBatch *)

WindowCloses ==
  /\ nextBatch # {}
  /\ chain' = Append(chain, nextBatch) /\ nextBatch' = {}
  /\ UNCHANGED <<contentVars, promiseVars, pendingBatches, batch, fetchVars, bundlerVars, history>>

\* The promise of every import of the batch settles, and so do its importers.
\* A failure setDeclared was told about is forgotten at once.
Settle(wants, ok) ==
  /\ pendingBatches' = pendingBatches - 1
  /\ installs' = [p \in Packages |-> IF p \notin wants THEN installs[p]
                                     ELSE IF ok THEN "ok"
                                     ELSE IF p \in doomed THEN "none" ELSE "failed"]
  /\ doomed' = doomed \ wants
  /\ imports' = [i \in Importers |->
                  IF imports[i].state = "installing" /\ imports[i].name \in wants
                  THEN [imports[i] EXCEPT !.state = IF ok THEN "installed" ELSE "failed"]
                  ELSE imports[i]]

\* The request is what is still missing; its ranges and pins are read now.
StartBatch ==
  /\ batch.phase = "none" /\ chain # <<>>
  /\ chain' = Tail(chain)
  /\ LET wants == Head(chain)
         request == wants \ Installed(modules) IN
       IF request = {}
       THEN Settle(wants, TRUE) /\ UNCHANGED batch
       ELSE /\ batch' = [NoBatch EXCEPT !.phase = "tree", !.wants = wants,
                                        !.request = request, !.pins = declared]
            /\ UNCHANGED <<promiseVars, pendingBatches, imports>>
  /\ UNCHANGED <<contentVars, nextBatch, fetchVars, absent, reloading, history>>

Tree(names) == names \cup UNION {Needs[p] : p \in names}

\* Seeded fault: packages that go through esm.sh are declared but not downloaded.
TreeArrives_NoFallback ==
  /\ batch.phase = "tree"
  /\ \E dropped \in SUBSET batch.request :
       LET resolved == Tree(batch.request \ dropped) IN
         /\ faults + Cardinality(dropped) <= MaxFaults
         /\ faults' = faults + Cardinality(dropped)
         /\ batch' = [batch EXCEPT !.phase = "download", !.before = modules,
                         !.manifest = manifest, !.fallbacks = fallbacks,
                         !.todo = resolved \ Installed(modules)]
         /\ manifest' = manifest \cup resolved \cup batch.request
         /\ fallbacks' = fallbacks \cup (batch.request \ (manifest \cup resolved))
         /\ downloads' = batch'.todo
  /\ UNCHANGED <<declared, modules, promiseVars, queueVars, late, bundlerVars, asked, asks, edits>>

\* /dep_tree answers, but for the requested packages the CDN dropped, which go
\* through the esm.sh fallback.  A request whose range is gone names no version:
\* it is never in the answer.
TreeArrives ==
  /\ batch.phase = "tree"
  /\ \E dropped \in SUBSET batch.request :
       /\ \A p \in batch.request : batch.pins[p] = None => p \in dropped
       /\ LET faulty == {p \in dropped : batch.pins[p] # None}
              resolved == Tree(batch.request \ dropped)
              fallback == batch.request \ (manifest \cup resolved) IN
            /\ faults + Cardinality(faulty) <= MaxFaults
            /\ faults' = faults + Cardinality(faulty)
            /\ batch' = [batch EXCEPT !.phase = "download", !.before = modules,
                            !.manifest = manifest, !.fallbacks = fallbacks,
                            !.todo = (resolved \cup fallback) \ Installed(modules)]
            /\ manifest' = manifest \cup resolved \cup fallback
            /\ fallbacks' = fallbacks \cup fallback
            /\ downloads' = batch'.todo
  /\ UNCHANGED <<declared, modules, promiseVars, queueVars, late, bundlerVars, asked, asks, edits>>

TreeFails ==
  /\ batch.phase = "tree" /\ faults < MaxFaults
  /\ faults' = faults + 1
  /\ batch' = NoBatch
  /\ Settle(batch.wants, FALSE)
  /\ UNCHANGED <<contentVars, nextBatch, chain, fetchVars, absent, reloading, asked, asks, edits>>

\* Without a range there is no fallback to ask esm.sh for (_fetchModule): the package is
\* fetched from the CDN, which has no release of it.
Unversioned(p) == p \in fallbacks /\ batch.pins[p] = None

\* A download registers its package as it finishes, before its closure is there.
DownloadDone(p) ==
  /\ p \in downloads /\ ~Unversioned(p)
  /\ downloads' = downloads \ {p}
  /\ modules' = [modules EXCEPT ![p] = [source |-> IF p \in fallbacks THEN "esm" ELSE "cdn",
                                        range |-> batch.pins[p]]]
  /\ UNCHANGED <<declared, manifest, fallbacks, promiseVars, queueVars, batch, late, bundlerVars, history>>

\* Seeded fault: the rollback forgets the packages but not the manifest entries.
DownloadFails_KeepsManifest(p) ==
  /\ p \in downloads /\ faults < MaxFaults /\ faults' = faults + 1
  /\ late' = late \cup (downloads \ {p}) /\ downloads' = {}
  /\ modules' = batch.before /\ fallbacks' = batch.fallbacks
  /\ batch' = NoBatch
  /\ Settle(batch.wants, FALSE)
  /\ UNCHANGED <<declared, manifest, nextBatch, chain, absent, reloading, asked, asks, edits>>

\* One failure rolls the batch back: downloads under way are cancelled and will
\* not register, what the batch brought is forgotten.
DownloadFails(p) ==
  /\ p \in downloads
  /\ IF Unversioned(p) THEN UNCHANGED faults
     ELSE faults < MaxFaults /\ faults' = faults + 1
  /\ late' = late \cup (downloads \ {p}) /\ downloads' = {}
  /\ manifest' = batch.manifest /\ fallbacks' = batch.fallbacks
  /\ modules' = batch.before
  /\ absent' = absent \ (Installed(modules) \ Installed(batch.before))
  /\ batch' = NoBatch
  /\ Settle(batch.wants, FALSE)
  /\ UNCHANGED <<declared, nextBatch, chain, reloading, asked, asks, edits>>

\* Seeded fault: a cancelled download registers its package.
LateDone_Registers(p) ==
  /\ p \in late
  /\ late' = late \ {p}
  /\ modules' = [modules EXCEPT ![p] = [source |-> "cdn", range |-> declared[p]]]
  /\ UNCHANGED <<declared, manifest, fallbacks, promiseVars, queueVars, batch, downloads,
                 bundlerVars, history>>

LateDone(p) ==
  /\ p \in late
  /\ late' = late \ {p}
  /\ UNCHANGED <<contentVars, promiseVars, queueVars, batch, downloads, bundlerVars, history>>

\* fetchUsedModuleClosure, between two downloads: used modules nobody has asked
\* for yet; with none, link.
Unmet == (UNION {Used[p] : p \in Installed(modules)}) \ (Installed(modules) \cup batch.tried)

Downloaded ==
  /\ batch.phase = "download" /\ downloads = {}
  /\ batch' = IF Unmet = {} THEN [batch EXCEPT !.phase = "link"]
              ELSE [batch EXCEPT !.phase = "used", !.todo = Unmet, !.tried = @ \cup Unmet,
                                 !.pins = [p \in Packages |-> IF p \in Tree(Unmet) THEN declared[p]
                                                              ELSE batch.pins[p]]]
  /\ absent' = IF Unmet = {} THEN {} ELSE absent
  /\ UNCHANGED <<contentVars, promiseVars, queueVars, fetchVars, imports, reloading, history>>

UsedArrive ==
  /\ batch.phase = "used"
  /\ LET extra == Tree(batch.todo) IN
       /\ manifest' = manifest \cup extra
       /\ downloads' = extra \ Installed(modules)
       /\ batch' = [batch EXCEPT !.phase = "download", !.todo = downloads']
  /\ UNCHANGED <<declared, modules, fallbacks, promiseVars, queueVars, late, bundlerVars, history>>

\* The closure request failing or resolving empty is only logged.
UsedFail ==
  /\ batch.phase = "used" /\ faults < MaxFaults
  /\ faults' = faults + 1
  /\ batch' = [batch EXCEPT !.phase = "link"]
  /\ absent' = {}
  /\ UNCHANGED <<contentVars, promiseVars, queueVars, fetchVars, imports, reloading, asked, asks, edits>>

\* Seeded fault: linking waits, as an app's imports do, until no batch is running.
Linked_WhenIdle ==
  /\ batch.phase = "link" /\ Idle
  /\ batch' = NoBatch
  /\ Settle(batch.wants, TRUE)
  /\ UNCHANGED <<contentVars, nextBatch, chain, fetchVars, absent, reloading, history>>

\* loadModuleDependencies links the new modules with plain resolutions, which
\* wait for nothing.
Linked ==
  /\ batch.phase = "link"
  /\ batch' = NoBatch
  /\ Settle(batch.wants, TRUE)
  /\ UNCHANGED <<contentVars, nextBatch, chain, fetchVars, absent, reloading, history>>

-----------------------------------------------------------------------------
(* package.json: Bundler.compile's dependency check, ModuleRegistry.setDeclared *)

InstalledDependencyChanged(edited) ==
  \E p \in Installed(modules) : declared[p] # edited[p]

\* Seeded fault: only the installs that have failed by now are forgotten.
EditPackageJson_ForgetsFailed(p, range) ==
  /\ ~reloading /\ edits < MaxEdits /\ edits' = edits + 1
  /\ range # declared[p]
  /\ LET edited == [declared EXCEPT ![p] = range] IN
       IF InstalledDependencyChanged(edited)
       THEN reloading' = TRUE /\ UNCHANGED <<declared, installs>>
       ELSE /\ declared' = edited
            /\ installs' = [q \in Packages |->
                              IF installs[q] = "failed" THEN "none" ELSE installs[q]]
            /\ UNCHANGED reloading
  /\ UNCHANGED <<modules, manifest, fallbacks, doomed, queueVars, batch, fetchVars,
                 absent, imports, asked, asks, faults>>

\* A compile that finds a reload requested reads nothing any more.
EditPackageJson(p, range) ==
  /\ ~reloading /\ edits < MaxEdits /\ edits' = edits + 1
  /\ range # declared[p]
  /\ LET edited == [declared EXCEPT ![p] = range] IN
       IF InstalledDependencyChanged(edited)
       THEN reloading' = TRUE /\ UNCHANGED <<declared, promiseVars>>
       ELSE /\ declared' = edited
            /\ installs' = [q \in Packages |->
                              IF installs[q] = "failed" THEN "none" ELSE installs[q]]
            /\ doomed' = {q \in Packages : installs[q] = "pending"}
            /\ UNCHANGED reloading
  /\ UNCHANGED <<modules, manifest, fallbacks, queueVars, batch, fetchVars, absent, imports, asked, asks, faults>>

-----------------------------------------------------------------------------
Progress ==
  \/ \E i \in Importers : \/ IdleAtLast(i) \/ Resolve(i) \/ MissIsFinal(i)
                          \/ EnsureEntries(i) \/ ResolveAgain(i)
  \/ WindowCloses \/ StartBatch \/ TreeArrives \/ Downloaded \/ UsedArrive \/ Linked
  \/ \E p \in Packages : DownloadDone(p) \/ DownloadFails(p) \/ LateDone(p)

Next ==
  \/ Progress
  \/ TreeFails \/ UsedFail
  \/ \E i \in Importers, p \in Packages : Import(i, p)
  \/ \E p \in Packages, range \in Range0 : EditPackageJson(p, range)

\* Timers fire and requests are answered, in the end, one way or another
\* (retryFetch gives up after five retries).
Spec == Init /\ [][Next]_vars /\ WF_vars(Progress)

-----------------------------------------------------------------------------
(* Properties *)

\* What code that waits for installs (whenIdle, ensureEntries) can rely on:
\* while a batch brings packages in, what was there before it.
Usable == [p \in Packages |->
             (IF batch.phase \in {"download", "used", "link"} THEN batch.before ELSE modules)[p].source]

\* installBatch is all or nothing (module-registry/index.ts:299-305): the
\* packages its users rely on change by whole closures, at the end of a batch,
\* and no download of a rolled back batch registers later.
Atomic == INSTANCE AtomicInstalls WITH usable <- Usable
InstallsAreAtomic == Atomic!Spec

\* A batch that ended, however it ended, has left the manifest (what later
\* batches pin and fetch) and the fallbacks exactly the installed packages.
NoTrace ==
  batch.phase \in {"none", "tree"} =>
    /\ manifest = Installed(modules)
    /\ fallbacks = {p \in Packages : modules[p].source = "esm"}
    /\ downloads = {}

\* The install an import waited for really brought the package, and nothing that
\* happened since took it away.
EnsuredIsUsable ==
  \A i \in Importers : imports[i].state = "installed" => Usable[imports[i].name] # "none"

\* No import fails with a failure older than package.json: an install that was
\* asked for under earlier declarations is tried again, even when it was still
\* running as the edit was adopted (setDeclared, module-registry/index.ts:233).
NoStaleFailure ==
  \A p \in Packages : installs[p] = "failed" /\ ~reloading => asked[p] = edits

\* Every import is resolved or refused: no batch waits for an import that waits
\* for a batch (module-registry/index.ts:590), no importer waits for a queue
\* that never drains.
EveryImportSettles ==
  \A i \in Importers :
    imports[i].state \notin {"idle", "linked", "failed"}
      ~> imports[i].state \in {"linked", "failed"}

\* "packages already installed keep their versions (the bundler reloads when one
\* of theirs changes)" (module-registry/index.ts:227): between batches every
\* installed package is there at its declared range.  The code does not provide
\* it (see README, findings).
InstalledAsDeclared ==
  batch.phase = "none" /\ ~reloading =>
    \A p \in Installed(modules) : modules[p].range = declared[p]

=============================================================================
