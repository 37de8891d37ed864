------------------------------ MODULE BootScan ------------------------------
(***************************************************************************)
(* The first compile of a preview document, from the scan that decides     *)
(* which packages its one boot install asks for (loadNodeModules,          *)
(* importScan.ts) to the compiled module graph: the walk over the local    *)
(* modules in concurrent batches, the transforms it keeps for the compile, *)
(* the side-effect imports of the src/main shim (sideEffectImports.ts),    *)
(* and the compile that adopts the kept transforms and installs what the   *)
(* scan did not see.                                                       *)
(*                                                                         *)
(* A source is what it imports, and how.  A file changes when the document *)
(* is told (markChanged), whatever it is at; a read is one step.  The read *)
(* memo and the retry of a first load that failed are BundlerCycle's       *)
(* subject, the install of a package InstallBatches': here it succeeds.    *)
(***************************************************************************)
EXTENDS Naturals, Sequences, FiniteSets, SequencesExt

CONSTANTS
  ScanFiles,      \* the local modules, and what the bundler owns in node_modules
  ScanStyles,     \* those that are stylesheets
  ScanRuntimes,   \* the runtimes the preset registered, in order
  ScanEntries,    \* potential entry points: package.json's, then the preset's
  ScanShims,      \* the files of LOCAL_ENTRY_CANDIDATES
  ScanPackages,   \* packages they may import
  ScanDeclared,   \* those package.json declares
  ScanSources,    \* ScanSources[f]: what f may hold
  ScanFirst,      \* the sets of files a document may boot with
  ScanLimit,      \* MAX_SCANNED_FILES
  ScanEdits,      \* bound on edits
  ScanFaults      \* bound on reads and transforms that fail

\* An import for its side effects only, one with bindings, or one whose bindings are only
\* used as types.
ImportClause == [kind : {"effect", "binding", "type"}, of : ScanFiles \cup ScanPackages]
ScanSource == [there : BOOLEAN, imports : SUBSET ImportClause]
NoSource == [there |-> FALSE, imports |-> {}]

ASSUME ScanAssumption ==
  /\ IsFiniteSet(ScanFiles)
  /\ ScanStyles \subseteq ScanFiles /\ ScanFiles \cap ScanPackages = {}
  /\ {ScanRuntimes, ScanEntries, ScanShims} \subseteq Seq(ScanFiles)
  /\ ScanDeclared \subseteq ScanPackages
  /\ \A f \in ScanFiles : ScanSources[f] \subseteq ScanSource
  /\ \A first \in ScanFirst : /\ first \in [ScanFiles -> ScanSource]
                               /\ \A f \in ScanFiles : first[f] \in ScanSources[f]
  /\ {ScanLimit, ScanEdits, ScanFaults} \subseteq Nat

VARIABLES
  scanDisk,     \* what a read gives
  scanWalk,     \* seen, queue and external of scanLocalImports
  scanTasks,    \* the modules of the batch under way
  scanKept,     \* bootTranspiles
  bootMods,     \* Bundler.modules
  bootTasks,    \* the transform queue
  bootDoc       \* what compile is at, the packages and the bounds

scanVars == <<scanDisk, scanWalk, scanTasks, scanKept, bootMods, bootTasks, bootDoc>>

Resting == [at |-> "none", source |-> NoSource, todo |-> {}]
NotKept == [source |-> NoSource, ok |-> FALSE]
Unloaded == [source |-> NoSource, code |-> NoSource, error |-> FALSE]

ScanInit ==
  /\ scanDisk \in ScanFirst
  /\ scanWalk = [seen |-> {}, queue |-> {}, external |-> {}]
  /\ scanTasks = [f \in ScanFiles |-> Resting]
  /\ scanKept = [f \in ScanFiles |-> NotKept]
  /\ bootMods = [f \in ScanFiles |-> Unloaded]
  /\ bootTasks = [f \in ScanFiles |-> Resting]
  /\ bootDoc = [at |-> "roots", entry |-> {}, roots |-> <<>>, installed |-> {}, demanded |-> {},
                lost |-> FALSE, effects |-> {}, edits |-> 0, faults |-> 0]

Resolves(f) == scanDisk[f].there
\* The first of a sequence of files that resolves, if one does.
FirstThere(files) ==
  {files[i] : i \in {j \in DOMAIN files : Resolves(files[j]) /\ \A k \in 1..j-1 : ~Resolves(files[k])}}

\* What a transform reports: the imports Babel did not erase.
DependenciesOf(source) == {i.of : i \in {j \in source.imports : j.kind # "type"}}
\* extractSideEffectImports.
SideEffects(source) == {i.of : i \in {j \in source.imports : j.kind = "effect"}}

\* The side-effect imports of the shim, unless it is the entry, and the modules among them.
ShimImports(entry) == UNION {SideEffects(scanDisk[f]) : f \in FirstThere(ScanShims) \ entry}
ShimModules(entry) == {f \in ShimImports(entry) \cap ScanFiles : Resolves(f)} \ entry

\* A file is written or removed, and the document is told.
ScanEdit(f, source) ==
  /\ bootDoc.edits < ScanEdits /\ source # scanDisk[f] /\ bootDoc.at # "done"
  /\ scanDisk' = [scanDisk EXCEPT ![f] = source]
  /\ bootDoc' = [bootDoc EXCEPT !.edits = @ + 1, !.lost = TRUE]
  /\ UNCHANGED <<scanWalk, scanTasks, scanKept, bootMods, bootTasks>>

MayFail == bootDoc.faults < ScanFaults
Fault == [bootDoc EXCEPT !.faults = @ + 1]
ScanFault == [Fault EXCEPT !.lost = TRUE]
----------------------------------------------------------------------------
(* scanEntryImports and scanLocalImports. *)

\* The roots compile starts at. Nothing is installed: a package the shim imports for its
\* side effects does not resolve, and is not one of them. Without an entry there is nothing
\* to scan: compile will report it.
ScanRoots ==
  /\ bootDoc.at = "roots"
  /\ \E unread \in BOOLEAN :
       LET entry == FirstThere(ScanEntries)
           roots == Range(ScanRuntimes) \cup entry \cup (IF unread THEN {} ELSE ShimModules(entry))
       IN
       /\ unread => MayFail
       /\ scanWalk' = IF entry = {} THEN scanWalk
                      ELSE [scanWalk EXCEPT !.seen = roots, !.queue = roots]
       /\ bootDoc' = [(IF unread THEN ScanFault ELSE bootDoc) EXCEPT !.at = "scan",
                                                                     !.lost = @ \/ entry = {}]
  /\ UNCHANGED <<scanDisk, scanTasks, scanKept, bootMods, bootTasks>>

NotScanning(tasks) == \A f \in ScanFiles : tasks[f].at = "none"

\* The queue becomes the next batch when the one before has been followed.
NextBatch ==
  /\ bootDoc.at = "scan" /\ NotScanning(scanTasks) /\ scanWalk.queue # {}
  /\ scanTasks' = [f \in ScanFiles |-> IF f \in scanWalk.queue THEN [Resting EXCEPT !.at = "reading"]
                                       ELSE Resting]
  /\ scanWalk' = [scanWalk EXCEPT !.queue = {}]
  /\ UNCHANGED <<scanDisk, scanKept, bootMods, bootTasks, bootDoc>>

\* scanModuleSpecifiers. A stylesheet's imports are read off its source: its own transform
\* would resolve them.
ScanRead(f) ==
  /\ scanTasks[f].at = "reading" /\ Resolves(f)
  /\ scanTasks' = [scanTasks EXCEPT ![f] =
       [at |-> IF f \in ScanStyles THEN "following" ELSE "transforming", source |-> scanDisk[f],
        todo |-> IF f \in ScanStyles THEN DependenciesOf(scanDisk[f]) ELSE {}]]
  /\ UNCHANGED <<scanDisk, scanWalk, scanKept, bootMods, bootTasks, bootDoc>>

ScanTransforms(f) ==
  /\ scanTasks[f].at = "transforming"
  /\ scanKept' = [scanKept EXCEPT ![f] = [source |-> scanTasks[f].source, ok |-> TRUE]]
  /\ scanTasks' = [scanTasks EXCEPT ![f].at = "following",
                                      ![f].todo = DependenciesOf(scanTasks[f].source)]
  /\ UNCHANGED <<scanDisk, scanWalk, bootMods, bootTasks, bootDoc>>

\* An unreadable module is passed over; a transform that fails is kept with its error.
ScanFails(f) ==
  /\ \/ /\ scanTasks[f].at = "reading" /\ ~Resolves(f)
        /\ UNCHANGED <<scanKept, bootDoc>>
     \/ /\ scanTasks[f].at = "reading" /\ MayFail
        /\ bootDoc' = ScanFault /\ UNCHANGED scanKept
     \/ /\ scanTasks[f].at = "transforming" /\ MayFail
        /\ bootDoc' = ScanFault
        /\ scanKept' = [scanKept EXCEPT ![f] = [source |-> scanTasks[f].source, ok |-> FALSE]]
  /\ scanTasks' = [scanTasks EXCEPT ![f] = Resting]
  /\ UNCHANGED <<scanDisk, scanWalk, bootMods, bootTasks>>

\* follow: what does not resolve is a package to install, or an error compile will report.
Followed(walk, s) ==
  IF s \in ScanPackages \/ ~Resolves(s) THEN [walk EXCEPT !.external = @ \cup {s}]
  ELSE IF s \in walk.seen \/ Cardinality(walk.seen) >= ScanLimit THEN walk
  ELSE [walk EXCEPT !.seen = @ \cup {s}, !.queue = @ \cup {s}]

Follow(f, s) ==
  /\ scanTasks[f].at = "following" /\ s \in scanTasks[f].todo
  /\ scanWalk' = Followed(scanWalk, s)
  /\ bootDoc' = [bootDoc EXCEPT !.lost = @ \/
       (s \in ScanFiles /\ Resolves(s) /\ s \notin scanWalk'.seen)]
  /\ scanTasks' = [scanTasks EXCEPT ![f].todo = @ \ {s}]
  /\ UNCHANGED <<scanDisk, scanKept, bootMods, bootTasks>>

AllFollowed(f) ==
  /\ scanTasks[f].at = "following" /\ scanTasks[f].todo = {}
  /\ scanTasks' = [scanTasks EXCEPT ![f] = Resting]
  /\ UNCHANGED <<scanDisk, scanWalk, scanKept, bootMods, bootTasks, bootDoc>>

\* Seeded fault: the walk ends with the queue.
WalkEnds_Unawaited == scanWalk.queue = {}

\* The walk ends with the last batch.
WalkEnds == NotScanning(scanTasks) /\ scanWalk.queue = {}

\* The boot install: the declared packages among what the walk found.
BootInstall ==
  /\ bootDoc.at = "scan" /\ WalkEnds
  /\ bootDoc' = [bootDoc EXCEPT !.at = "runtimes", !.roots = ScanRuntimes,
                                !.installed = scanWalk.external \cap ScanDeclared]
  /\ UNCHANGED <<scanDisk, scanWalk, scanTasks, scanKept, bootMods, bootTasks>>
----------------------------------------------------------------------------
(* The compile. *)

\* transformModule: a module that is compiled is not transformed, and one in the queue
\* not twice.
Enqueued(tasks, files) ==
  [f \in ScanFiles |-> IF f \in files /\ tasks[f].at = "none" /\ bootMods[f].code = NoSource
                         THEN [Resting EXCEPT !.at = "reading"] ELSE tasks[f]]

\* The next root is transformed, once the one before has passed moduleFinishedPromise.
NextRoot ==
  /\ bootDoc.at \in {"runtimes", "entry", "effects"} /\ bootDoc.roots # <<>>
  /\ bootTasks' = Enqueued(bootTasks, {Head(bootDoc.roots)})
  /\ bootDoc' = [bootDoc EXCEPT
                   !.at = [runtimes |-> "runtime", entry |-> "app", effects |-> "effect"][@]]
  /\ UNCHANGED <<scanDisk, scanWalk, scanTasks, scanKept, bootMods>>

\* A kept transform is adopted once, if it is of the source just read.
Adopts(f, source) == scanKept[f] # NotKept /\ scanKept[f].source = source

Linking(source) == [at |-> "linking", source |-> source, todo |-> DependenciesOf(source)]

\* _transformModule reads the source; a module with an error is not compiled again.
BootRead(f) ==
  /\ bootTasks[f].at = "reading" /\ Resolves(f)
  /\ LET source == scanDisk[f] IN
       IF bootMods[f].error THEN
         /\ bootTasks' = [bootTasks EXCEPT ![f] = Resting]
         /\ bootMods' = [bootMods EXCEPT ![f].source = source]
       ELSE IF Adopts(f, source) /\ ~scanKept[f].ok THEN
         /\ bootTasks' = [bootTasks EXCEPT ![f] = Resting]
         /\ bootMods' = [bootMods EXCEPT ![f] = [Unloaded EXCEPT !.source = source, !.error = TRUE]]
       ELSE
         /\ bootTasks' = [bootTasks EXCEPT ![f] =
              IF Adopts(f, source) THEN Linking(scanKept[f].source)
              ELSE [at |-> "transforming", source |-> source, todo |-> {}]]
         /\ bootMods' = [bootMods EXCEPT ![f].source = source]
  /\ scanKept' = [scanKept EXCEPT ![f] = NotKept]
  /\ UNCHANGED <<scanDisk, scanWalk, scanTasks, bootDoc>>

BootTransforms(f) ==
  /\ bootTasks[f].at = "transforming"
  /\ bootTasks' = [bootTasks EXCEPT ![f] = Linking(@.source)]
  /\ UNCHANGED <<scanDisk, scanWalk, scanTasks, scanKept, bootMods, bootDoc>>

\* A read that fails leaves no module, a transform one with an error.
BootFails(f) ==
  /\ \/ bootTasks[f].at = "reading" /\ ~Resolves(f) /\ UNCHANGED <<bootMods, bootDoc>>
     \/ bootTasks[f].at = "reading" /\ MayFail /\ bootDoc' = Fault /\ UNCHANGED bootMods
     \/ /\ bootTasks[f].at = "transforming" /\ MayFail /\ bootDoc' = Fault
        /\ bootMods' = [bootMods EXCEPT ![f].error = TRUE]
  /\ bootTasks' = [bootTasks EXCEPT ![f] = Resting]
  /\ UNCHANGED <<scanDisk, scanWalk, scanTasks, scanKept>>

\* resolveAsync of packages: one that is declared and not there is installed.
Demand(doc, packages) ==
  [doc EXCEPT !.installed = @ \cup (packages \cap ScanDeclared),
              !.demanded = @ \cup ((packages \cap ScanDeclared) \ doc.installed)]

\* addDependency.
Available(s) == s \in ScanDeclared \/ (s \in ScanFiles /\ Resolves(s))

BootLink(f, s) ==
  /\ bootTasks[f].at = "linking" /\ s \in bootTasks[f].todo /\ Available(s)
  /\ bootTasks' = [bootTasks EXCEPT ![f].todo = @ \ {s}]
  /\ bootDoc' = Demand(bootDoc, {s} \cap ScanPackages)
  /\ UNCHANGED <<scanDisk, scanWalk, scanTasks, scanKept, bootMods>>

\* An import that resolves to nothing is the module's error.  The others go on resolving:
\* those added by then are transformed, and those of the rest that are added in time.
LinkFails(f) ==
  /\ bootTasks[f].at = "linking"
  /\ \E s \in bootTasks[f].todo : ~Available(s)
  /\ \E late \in SUBSET {s \in bootTasks[f].todo \cap ScanFiles : Available(s)} :
       LET added == (DependenciesOf(bootTasks[f].source) \ bootTasks[f].todo) \cup late IN
       bootTasks' = Enqueued([bootTasks EXCEPT ![f] = Resting], (added \cap ScanFiles) \ {f})
  /\ bootMods' = [bootMods EXCEPT ![f].error = TRUE]
  /\ bootDoc' = Demand(bootDoc, bootTasks[f].todo \cap ScanPackages)
  /\ UNCHANGED <<scanDisk, scanWalk, scanTasks, scanKept>>

\* Linked: it has code, and its imports are transformed.
BootLinked(f) ==
  /\ bootTasks[f].at = "linking" /\ bootTasks[f].todo = {}
  /\ bootMods' = [bootMods EXCEPT ![f].code = bootTasks[f].source]
  /\ bootTasks' = Enqueued([bootTasks EXCEPT ![f] = Resting],
                           (DependenciesOf(bootTasks[f].source) \cap ScanFiles) \ {f})
  /\ UNCHANGED <<scanDisk, scanWalk, scanTasks, scanKept, bootDoc>>

\* What moduleFinishedPromise visits.
Visited(root) ==
  {f \in ScanFiles : \A passed \in SUBSET ScanFiles :
     root \in passed /\ (\A g \in passed :
                           DependenciesOf(bootMods[g].code) \cap ScanFiles \subseteq passed)
     => f \in passed}

Stage == [runtime |-> "runtimes", app |-> "entry", effect |-> "effects"]

\* The root's graph is compiled; or a module of it is not, and only a side effect's may.
RootEnds ==
  /\ bootDoc.at \in DOMAIN Stage
  /\ LET visited == Visited(Head(bootDoc.roots)) IN
     \/ /\ \A f \in visited : bootTasks[f].at = "none" /\ bootMods[f].code # NoSource
        /\ bootDoc' = [bootDoc EXCEPT !.at = Stage[@], !.roots = Tail(@)]
     \/ /\ \E f \in visited : bootTasks[f].at = "none" /\ bootMods[f].code = NoSource
        /\ bootDoc' = IF bootDoc.at = "effect"
                        THEN [bootDoc EXCEPT !.at = "effects", !.roots = Tail(@)]
                        ELSE [bootDoc EXCEPT !.at = "failed", !.roots = <<>>]
  /\ UNCHANGED <<scanDisk, scanWalk, scanTasks, scanKept, bootMods, bootTasks>>

\* After the runtimes the entry, after the entry the shim's side effects, whose packages
\* are installed now; then the first compile is over.
NextStage ==
  /\ bootDoc.roots = <<>>
  /\ \/ /\ bootDoc.at = "runtimes"
        /\ LET entry == FirstThere(ScanEntries) IN
             bootDoc' = [bootDoc EXCEPT !.at = IF entry = {} THEN "failed" ELSE "entry",
                                        !.entry = entry, !.roots = SetToSeq(entry)]
        /\ UNCHANGED scanKept
     \/ /\ bootDoc.at = "entry"
        /\ LET imports == ShimImports(bootDoc.entry) IN
             \/ bootDoc' = [Demand(bootDoc, imports \cap ScanPackages) EXCEPT
                  !.at = "effects", !.roots = SetToSeq(ShimModules(bootDoc.entry)),
                  !.effects = imports \cap ScanDeclared]
             \/ MayFail /\ imports # {} /\ bootDoc' = [Fault EXCEPT !.at = "effects"]
        /\ UNCHANGED scanKept
     \/ /\ bootDoc.at = "effects"
        /\ bootDoc' = [bootDoc EXCEPT !.at = "done"]
        /\ scanKept' = [f \in ScanFiles |-> NotKept]
  /\ UNCHANGED <<scanDisk, scanWalk, scanTasks, bootMods, bootTasks>>

ScanNext ==
  \/ ScanRoots \/ NextBatch \/ BootInstall \/ NextRoot \/ RootEnds \/ NextStage
  \/ \E f \in ScanFiles :
       \/ \E source \in ScanSources[f] : ScanEdit(f, source)
       \/ ScanRead(f) \/ ScanTransforms(f) \/ ScanFails(f) \/ AllFollowed(f)
       \/ BootRead(f) \/ BootTransforms(f) \/ BootFails(f) \/ BootLinked(f) \/ LinkFails(f)
       \/ \E s \in scanTasks[f].todo : Follow(f, s)
       \/ \E s \in bootTasks[f].todo : BootLink(f, s)

ScanSpec == ScanInit /\ [][ScanNext]_scanVars
----------------------------------------------------------------------------
(* Properties. *)

\* The one request of the boot install is what compile needs: nothing is installed on
\* demand but the packages the shim imports for their side effects, and nothing that no
\* module imports, unless the scan found no entry, hit its limit, or failed to read or
\* transform a module, or a file changed since it began.
RequestIsExact ==
  ~bootDoc.lost =>
    /\ bootDoc.demanded \subseteq bootDoc.effects
    /\ bootDoc.at = "done" /\ bootDoc.faults = 0 /\ (\A f \in ScanFiles : ~bootMods[f].error) =>
         bootDoc.installed \ bootDoc.effects \subseteq
           UNION {DependenciesOf(bootMods[f].code) : f \in ScanFiles}

\* No module has the code of another source than the one it read, whatever the scan kept.
AdoptedIsCurrent ==
  \A f \in ScanFiles : bootMods[f].code \in {NoSource, bootMods[f].source}

BootServesCompile == RequestIsExact /\ AdoptedIsCurrent
============================================================================
