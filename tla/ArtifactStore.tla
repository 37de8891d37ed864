--------------------------- MODULE ArtifactStore ---------------------------
(***************************************************************************)
(* Pre-transpiled artifacts of one preview document (artifactStore.ts,     *)
(* artifactIndex.ts) with the parts of the bundler that decide what they   *)
(* are worth: the first load seeds /transpiled from the index of the       *)
(* cache zip, loading a module consults it, live transpiles are written    *)
(* through to it, resetting a module deletes its entry, and an idle spot   *)
(* check compares what was consumed with the source.                       *)
(*                                                                         *)
(* Compiles run one at a time (Debouncer).  A read of a source is one step *)
(* here: that its two halves may straddle a change is the subject of       *)
(* BundlerCycle, and that the notice of a change travels, of Session.      *)
(***************************************************************************)
EXTENDS Naturals, FiniteSets, FiniteSetsExt

CONSTANTS
  ArtPaths,     \* source modules of the app
  ArtMaxEdits,  \* edits in a behaviour
  ArtSetups     \* what the cache zip and the host give the document: see Setup

EntryKinds ==
  {"none",      \* no entry in the index
   "genuine",   \* made from the committed source
   "tampered",  \* carries the committed source's sha, and other code
   "other",     \* made from another source: srcSha differs
   "unlisted",  \* its path is not in the manifest
   "escaping"}  \* its key or its `out` leaves the repository or the artifacts

Setup == [entries : [ArtPaths -> EntryKinds],
          dirty : SUBSET ArtPaths,    \* written over the commit before this document
          planted : BOOLEAN,          \* a seeding input is in the writable layer
          stamped : BOOLEAN,          \* the index is of this toolchain
          marked : BOOLEAN]           \* the host distrusts the artifacts of this commit

ASSUME ArtSetupsAssumption == ArtSetups \subseteq Setup
ASSUME ArtEditsAssumption == ArtMaxEdits \in Nat

\* Code is known by the revision of the source it is made from; 0 is no code.
NoCode == [rev |-> 0, genuine |-> TRUE]
Live(rev) == [rev |-> rev, genuine |-> TRUE]
Committed == 1

VARIABLES
  artSetup,
  artDisk,      \* the revision of every source
  artPending,   \* CachedFS.pendingChanges
  artModules,   \* Bundler.modules: absent, or code (NoCode: none yet) with its imports
  artTasks,     \* the entries of the transform queue
  artEntries,   \* /transpiled
  artStore,     \* the fields of the ArtifactStore
  artCompile,   \* the compile that runs, and whether the first load is still to succeed
  artVerify,    \* the spot verification
  artHistory    \* observations

artBundler == <<artPending, artModules, artTasks, artCompile>>
artVars == <<artSetup, artDisk, artBundler, artEntries, artStore, artVerify, artHistory>>

Absent == [here |-> FALSE, code |-> NoCode, imports |-> 0]
Loaded(code, imports) == [here |-> TRUE, code |-> code, imports |-> imports]
Uncompiled == Loaded(NoCode, 0)

\* Stages of _transformModule: the delete, isFile and readFile that consult awaits, the
\* source, the transformers, the write-through. `mine`: its module is in the map.
NoTransform == [at |-> "none", rev |-> 0, mine |-> FALSE]
Transform(at) == [at |-> at, rev |-> 0, mine |-> FALSE]
Running == {p \in ArtPaths : artTasks[p].at # "none"}

ArtInit ==
  /\ artSetup \in ArtSetups
  /\ artDisk = [p \in ArtPaths |-> IF p \in artSetup.dirty THEN Committed + 1 ELSE Committed]
  /\ artPending = {}
  /\ artModules = [p \in ArtPaths |-> Absent]
  /\ artTasks = [p \in ArtPaths |-> NoTransform]
  /\ artEntries = [p \in ArtPaths |-> NoCode]
  /\ artStore = [recorded |-> [p \in ArtPaths |-> 0], deleting |-> [p \in ArtPaths |-> 0],
                 todo |-> {}, seeded |-> {}, consumed |-> {},
                 distrusted |-> artSetup.marked]
  /\ artCompile = [at |-> "seed", first |-> TRUE]
  /\ artVerify = [at |-> "none", sample |-> {}, path |-> {}, source |-> 0, entry |-> NoCode]
  /\ artHistory = [edits |-> 0, unnoticed |-> {}, edited |-> {}, alarm |-> {}, raced |-> {}]
----------------------------------------------------------------------------
(* Seeding. *)

\* readableLayerOnly, toolchainMatches and the host's mark reject the whole section.
SectionAccepted == artSetup.stamped /\ ~artSetup.planted /\ ~artStore.distrusted

\* validateSeedEntry without the dirty set.
Seedable_Dirty == {p \in ArtPaths : artSetup.entries[p] \in {"genuine", "tampered"}}

\* validateSeedEntry: the key, the manifest, `out`, the dirty set and the sha decide.
Seedable == {p \in ArtPaths : artSetup.entries[p] \in {"genuine", "tampered"}}
            \ artSetup.dirty

\* seed, up to the loop over the entries; it runs once in a document.
SeedBegins ==
  /\ artCompile.at = "seed"
  /\ artCompile' = [artCompile EXCEPT !.at = "copy"]
  /\ artStore' = [artStore EXCEPT !.todo = IF SectionAccepted THEN Seedable ELSE {}]
  /\ UNCHANGED <<artSetup, artDisk, artPending, artModules, artTasks, artEntries, artVerify,
                 artHistory>>

\* One entry is copied to /transpiled, its imports are recorded.
SeedEntry(p) ==
  /\ artCompile.at = "copy" /\ p \in artStore.todo
  /\ artEntries' = [artEntries EXCEPT
       ![p] = [rev |-> Committed, genuine |-> artSetup.entries[p] = "genuine"]]
  /\ artStore' = [artStore EXCEPT !.todo = @ \ {p}, !.seeded = @ \cup {p},
                                  !.recorded[p] = Committed]
  /\ UNCHANGED <<artSetup, artDisk, artBundler, artVerify, artHistory>>

\* The artifact cannot be read: it is skipped.
SeedSkips(p) ==
  /\ artCompile.at = "copy" /\ p \in artStore.todo
  /\ artStore' = [artStore EXCEPT !.todo = @ \ {p}]
  /\ UNCHANGED <<artSetup, artDisk, artBundler, artEntries, artVerify, artHistory>>

SeedEnds ==
  /\ artCompile.at = "copy" /\ artStore.todo = {}
  /\ artCompile' = [artCompile EXCEPT !.at = "load"]
  /\ UNCHANGED <<artSetup, artDisk, artPending, artModules, artTasks, artEntries, artStore,
                 artVerify, artHistory>>
----------------------------------------------------------------------------
(* Deleting entries. *)

\* invalidate: the imports go at once, the entry once the unlink is done.
Invalidated(store, S) ==
  [store EXCEPT !.recorded = [p \in ArtPaths |-> IF p \in S THEN 0 ELSE @[p]],
                !.deleting = [p \in ArtPaths |-> IF p \in S THEN @[p] + 1 ELSE @[p]]]

DeleteDone(p) ==
  /\ artStore.deleting[p] > 0
  /\ artEntries' = [artEntries EXCEPT ![p] = NoCode]
  /\ artStore' = [artStore EXCEPT !.deleting[p] = @ - 1]
  /\ UNCHANGED <<artSetup, artDisk, artBundler, artVerify, artHistory>>
----------------------------------------------------------------------------
(* Transforming a module. *)

\* _transformModule begins: a module without code reads its source again; one that is
\* not there is consulted first.
Begun(p) ==
  IF artModules[p].here THEN [Transform("source") EXCEPT !.mine = TRUE]
  ELSE IF artStore.distrusted THEN Transform("source")
  ELSE IF artStore.deleting[p] > 0 THEN Transform("delete") ELSE Transform("isFile")

\* transformModule, from the entry or from an import: what has code, or runs, is shared.
Load(p) ==
  /\ artCompile.at = "load"
  /\ artModules[p].code = NoCode /\ p \notin Running
  /\ artTasks' = [artTasks EXCEPT ![p] = Begun(p)]
  /\ UNCHANGED <<artSetup, artDisk, artPending, artModules, artCompile, artEntries, artStore,
                 artVerify, artHistory>>

\* consult has waited for the delete that was in flight when it began, if one was, and
\* learns whether the entry is a file.
ConsultIsFile(p) ==
  /\ \/ artTasks[p].at = "isFile"
     \/ artTasks[p].at = "delete" /\ artStore.deleting[p] = 0
  /\ artTasks' = [artTasks EXCEPT
       ![p].at = IF artEntries[p] = NoCode THEN "source" ELSE "read"]
  /\ UNCHANGED <<artSetup, artDisk, artPending, artModules, artCompile, artEntries, artStore,
                 artVerify, artHistory>>

\* The entry is read: a hit becomes the module, with the imports on record.
ConsultReads(p) ==
  /\ artTasks[p].at = "read"
  /\ artTasks' = [artTasks EXCEPT ![p] = NoTransform]
  /\ IF artEntries[p] = NoCode      \* deleted meanwhile: the transform fails
       THEN UNCHANGED <<artModules, artStore>>
       ELSE /\ artModules' = [artModules EXCEPT
                 ![p] = Loaded(artEntries[p], artStore.recorded[p])]
            /\ artStore' = [artStore EXCEPT
                 !.consumed = IF p \in artStore.seeded THEN @ \cup {p} ELSE @]
  /\ UNCHANGED <<artSetup, artDisk, artPending, artCompile, artEntries, artVerify, artHistory>>

\* The source is read; a module that was not there is now.
SourceRead(p) ==
  /\ artTasks[p].at = "source"
  /\ artTasks' = [artTasks EXCEPT ![p] = [at |-> "compile", rev |-> artDisk[p],
                                          mine |-> artTasks[p].mine \/ ~artModules[p].here]]
  /\ artModules' = [artModules EXCEPT ![p] = IF @.here THEN @ ELSE Uncompiled]
  /\ UNCHANGED <<artSetup, artDisk, artPending, artCompile, artEntries, artStore, artVerify,
                 artHistory>>

\* The transformers end; code goes into the module, and through to /transpiled. A
\* module of an abandoned first load has left the map, and is written through too.
Compiled(p) ==
  /\ artTasks[p].at = "compile"
  /\ artTasks' = [artTasks EXCEPT ![p].at = "write"]
  /\ artModules' = IF artTasks[p].mine
       THEN [artModules EXCEPT ![p] = Loaded(Live(artTasks[p].rev), artTasks[p].rev)]
       ELSE artModules
  /\ UNCHANGED <<artSetup, artDisk, artPending, artCompile, artEntries, artStore, artVerify,
                 artHistory>>

\* The source does not compile: nothing is written through.
CompileError(p) ==
  /\ artTasks[p].at = "compile"
  /\ artTasks' = [artTasks EXCEPT ![p] = NoTransform]
  /\ UNCHANGED <<artSetup, artDisk, artPending, artModules, artCompile, artEntries, artStore,
                 artVerify, artHistory>>

\* writeThrough.
WrittenThrough(p) ==
  /\ artTasks[p].at = "write"
  /\ artTasks' = [artTasks EXCEPT ![p] = NoTransform]
  /\ artEntries' = [artEntries EXCEPT ![p] = Live(artTasks[p].rev)]
  /\ artStore' = [artStore EXCEPT !.recorded[p] = artTasks[p].rev]
  /\ UNCHANGED <<artSetup, artDisk, artPending, artModules, artCompile, artVerify, artHistory>>
----------------------------------------------------------------------------
(* Changes and compiles. *)

\* A source changes; markChanged queues it for the next compile.
ArtEdit(p) ==
  /\ artHistory.edits < ArtMaxEdits
  /\ artDisk' = [artDisk EXCEPT ![p] = @ + 1]
  /\ artPending' = artPending \cup {p}
  /\ artHistory' = [artHistory EXCEPT !.edited = @ \cup {p}, !.edits = @ + 1]
  /\ UNCHANGED <<artSetup, artModules, artTasks, artCompile, artEntries, artStore, artVerify>>

\* A compile succeeds once its transforms have; the first one has the consumed
\* artifacts verified at idle.
CompileEnds ==
  /\ artCompile.at = "load" /\ Running = {}
  /\ \A p \in ArtPaths : artModules[p].here => artModules[p].code # NoCode
  /\ artCompile' = [at |-> "idle", first |-> FALSE]
  /\ artVerify' = IF artCompile.first /\ artStore.consumed # {}
                    THEN [artVerify EXCEPT !.at = "scheduled"] ELSE artVerify
  /\ UNCHANGED <<artSetup, artDisk, artPending, artModules, artTasks, artEntries, artStore,
                 artHistory>>

\* Some module, here or elsewhere, fails: other transforms go on.
CompileFails ==
  /\ artCompile.at = "load"
  /\ artCompile' = [artCompile EXCEPT !.at = "idle"]
  /\ UNCHANGED <<artSetup, artDisk, artPending, artModules, artTasks, artEntries, artStore,
                 artVerify, artHistory>>

\* A change starts another attempt at the first load: no module is kept, the changes
\* are discarded with the drain, seeding is not repeated.
FirstLoadAgain ==
  /\ artCompile = [at |-> "idle", first |-> TRUE] /\ artPending # {}
  /\ artCompile' = [artCompile EXCEPT !.at = "load"]
  /\ artModules' = [p \in ArtPaths |-> Absent]
  /\ artTasks' = [p \in ArtPaths |-> [artTasks[p] EXCEPT !.mine = FALSE]]
  /\ artPending' = {}
  /\ artHistory' = [artHistory EXCEPT !.unnoticed = @ \cup artPending]
  /\ UNCHANGED <<artSetup, artDisk, artEntries, artStore, artVerify>>

\* An update: every changed module that has code is reset, and all of them are
\* transformed again. A change of a module without code reaches nobody.
Update ==
  /\ artCompile = [at |-> "idle", first |-> FALSE] /\ artPending # {}
  /\ LET known == {p \in artPending : artModules[p].here}
         reset == {p \in known : artModules[p].code # NoCode}
     IN /\ artModules' = [p \in ArtPaths |-> IF p \in reset THEN Uncompiled ELSE artModules[p]]
        /\ artStore' = Invalidated(artStore, reset)
        /\ artTasks' = [p \in ArtPaths |->
                          IF p \in known \ Running THEN Begun(p) ELSE artTasks[p]]
        /\ artHistory' = [artHistory EXCEPT
             !.unnoticed = (@ \ reset) \cup (artPending \ reset) \cup (reset \cap Running)]
  /\ artPending' = {}
  /\ artCompile' = [artCompile EXCEPT !.at = "load"]
  /\ UNCHANGED <<artSetup, artDisk, artEntries, artVerify>>
----------------------------------------------------------------------------
(* Spot verification, at idle and beside everything else. *)

SampleSize == 2

\* sampleWithoutReplacement of the consumed artifacts.
VerifyStarts ==
  /\ artVerify.at = "scheduled"
  /\ \E sample \in SUBSET artStore.consumed :
       /\ \/ Cardinality(sample) = SampleSize
          \/ Cardinality(artStore.consumed) < SampleSize /\ sample = artStore.consumed
       /\ artVerify' = [artVerify EXCEPT !.at = "source", !.sample = sample]
  /\ UNCHANGED <<artSetup, artDisk, artBundler, artEntries, artStore, artHistory>>

VerifyReadsSource(p) ==
  /\ artVerify.at = "source" /\ p \in artVerify.sample
  /\ artVerify' = [artVerify EXCEPT !.at = "entry", !.path = {p}, !.source = artDisk[p]]
  /\ UNCHANGED <<artSetup, artDisk, artBundler, artEntries, artStore, artHistory>>

\* The entry is read; one that was reset is not verified.
VerifyReadsEntry(p) ==
  /\ artVerify.at = "entry" /\ p \in artVerify.path
  /\ artVerify' = IF artEntries[p] = NoCode
       THEN [artVerify EXCEPT !.at = "source", !.sample = @ \ {p}]
       ELSE [artVerify EXCEPT !.at = "compare", !.entry = artEntries[p]]
  /\ UNCHANGED <<artSetup, artDisk, artBundler, artEntries, artStore, artHistory>>

\* discardAll: every consumed entry goes, and nothing is consulted any more.
Discarded(store) ==
  [Invalidated(store, store.consumed) EXCEPT
     !.distrusted = TRUE, !.seeded = {}, !.consumed = {}]

\* The source is transpiled and compared; the first difference condemns the section,
\* and the host is told.
VerifyCompares(p) ==
  /\ artVerify.at = "compare" /\ p \in artVerify.path
  /\ IF artVerify.entry = Live(artVerify.source)
       THEN /\ artVerify' = [artVerify EXCEPT !.at = "source", !.sample = @ \ {p}]
            /\ UNCHANGED <<artStore, artHistory>>
       ELSE /\ artVerify' = [artVerify EXCEPT !.at = "none"]
            /\ artStore' = Discarded(artStore)
            /\ artHistory' = [artHistory EXCEPT
                 !.alarm = @ \cup {p},
                 !.raced = @ \cup {q \in artStore.consumed : artTasks[q].at \in {"isFile", "read"}}]
  /\ UNCHANGED <<artSetup, artDisk, artBundler, artEntries>>
----------------------------------------------------------------------------
ArtNext ==
  \/ SeedBegins \/ SeedEnds \/ CompileEnds \/ CompileFails \/ FirstLoadAgain \/ Update
  \/ VerifyStarts
  \/ \E p \in ArtPaths :
       \/ SeedEntry(p) \/ SeedSkips(p) \/ DeleteDone(p) \/ Load(p)
       \/ ConsultIsFile(p) \/ ConsultReads(p) \/ SourceRead(p) \/ Compiled(p)
       \/ CompileError(p) \/ WrittenThrough(p) \/ ArtEdit(p)
       \/ VerifyReadsSource(p) \/ VerifyReadsEntry(p) \/ VerifyCompares(p)

ArtSpec == ArtInit /\ [][ArtNext]_artVars
----------------------------------------------------------------------------
(* Properties. *)

\* The code a module holds is that of its source, or a change of it is queued, whether
\* or not it is being transformed. Excepted are changes that no module with code was
\* there to take (`unnoticed`): an artifact or a written-through entry outlives those,
\* and the next load of the module serves it (artifactStore.ts:156, bundler.ts:1239).
HeldIsCurrent ==
  \A p \in ArtPaths \ (artPending \cup artHistory.unnoticed) :
    artModules[p].code.rev \in {0, artDisk[p]}

\* A module taken from /transpiled knows the imports of the code it was given, not of
\* an earlier or a later one: the graph is walked as if it had been transpiled. The
\* exception is an entry condemned while it is being consulted: consult answers with
\* the code and without the imports (artifactStore.ts:166).
HeldKnowsImports ==
  \A p \in ArtPaths \ artHistory.raced : artModules[p].imports = artModules[p].code.rev

\* The section is condemned for an artifact that differs from its source only if it
\* was tampered with, or its source changed in this document: the check reads source
\* and entry at two moments, and the entry of an edited module lives until the next
\* compile resets it (artifactStore.ts:245).
AlarmIsJust ==
  \A p \in artHistory.alarm : artSetup.entries[p] = "tampered" \/ p \in artHistory.edited

ServedIsCurrent == HeldIsCurrent /\ HeldKnowsImports /\ AlarmIsJust
============================================================================
