------------------------ MODULE InstallBatchesProofs ------------------------
(***************************************************************************)
(* Proofs about InstallBatches for every set of packages, whatever they    *)
(* need, whatever importers ask for, and any number of edits and failures. *)
(***************************************************************************)
EXTENDS InstallBatches, TLAPS

-----------------------------------------------------------------------------
(* The inductive invariant *)

Release == [source : {"none", "cdn", "esm"}, range : Range0]
Phase == {"none", "tree", "download", "used", "link"}
Bringing == {"download", "used", "link"}
Batch == [phase : Phase, wants : SUBSET Packages, request : SUBSET Packages,
          pins : [Packages -> Range0], before : [Packages -> Release],
          manifest : SUBSET Packages, fallbacks : SUBSET Packages,
          todo : SUBSET Packages, tried : SUBSET Packages]
ImportState == {"idle", "waiting", "resolving", "missed", "installing", "installed",
                "linked", "failed"}
First == CHOOSE p \in Packages : TRUE

Typed ==
  /\ declared \in [Packages -> Range0]
  /\ modules \in [Packages -> Release]
  /\ manifest \in SUBSET Packages /\ fallbacks \in SUBSET Packages
  /\ installs \in [Packages -> {"none", "pending", "ok", "failed"}]
  /\ doomed \in SUBSET Packages
  /\ nextBatch \in SUBSET Packages
  /\ chain \in Seq(SUBSET Packages)
  /\ batch \in Batch /\ (batch.phase = "none" => batch = NoBatch)
  /\ downloads \in SUBSET Packages /\ late \in SUBSET Packages
  /\ absent \in SUBSET Packages
  /\ imports \in [Importers -> [state : ImportState, name : Packages \cup {First}]]
  /\ \A i \in Importers : imports[i].state # "idle" => imports[i].name \in Packages
  /\ asked \in [Packages -> Nat] /\ edits \in Nat

\* Every package of m that is no fallback has in m what it needs.
Closed(m, f) == \A p \in m \ f : Needs[p] \subseteq m

\* Manifest m and fallbacks f are those of the packages installed in releases.
Kept(m, f, releases) ==
  /\ m = Installed(releases)
  /\ f = {p \in Packages : releases[p].source = "esm"}
  /\ Closed(m, f)

\* Between batches the books are in order. While a batch brings packages in it keeps books
\* of before; what was there then is untouched; and the manifest is ahead of what is
\* installed by the downloads alone.
Books ==
  /\ batch.phase \notin Bringing => Kept(manifest, fallbacks, modules) /\ downloads = {}
  /\ batch.phase \in Bringing =>
       /\ Kept(batch.manifest, batch.fallbacks, batch.before)
       /\ \A p \in Installed(batch.before) : modules[p] = batch.before[p]
       /\ manifest = Installed(modules) \cup downloads
       /\ downloads \cap Installed(modules) = {}
       /\ fallbacks \subseteq manifest
       /\ \A p \in Installed(modules) : p \in fallbacks <=> modules[p].source = "esm"
       /\ Closed(manifest, fallbacks)
       /\ batch.phase # "download" => downloads = {}

\* What a batch was asked for is installed, requested, or in the manifest it will leave;
\* and what was promised is usable.
Promised ==
  /\ batch.phase = "tree" => batch.request = batch.wants \ Installed(modules)
  /\ batch.phase \in Bringing => batch.wants \subseteq manifest
  /\ \A p \in Packages : installs[p] = "ok" => Usable[p] # "none"
  /\ EnsuredIsUsable

\* A package waits in one place, the open window, a batch of the chain or the batch that
\* runs, and its install is pending as long as it does. pendingBatches counts them.
Queued ==
  /\ \A p \in nextBatch \cup batch.wants : installs[p] = "pending"
  /\ \A k \in 1 .. Len(chain) : \A p \in chain[k] : installs[p] = "pending"
  /\ nextBatch \cap batch.wants = {}
  /\ \A k \in 1 .. Len(chain) : chain[k] \cap (nextBatch \cup batch.wants) = {}
  /\ \A k, l \in 1 .. Len(chain) : k # l => chain[k] \cap chain[l] = {}

Counted ==
  pendingBatches = (IF nextBatch = {} THEN 0 ELSE 1) + Len(chain)
                     + (IF batch.phase = "none" THEN 0 ELSE 1)

\* An install that has failed, or whose failure would be remembered, is as old as
\* package.json.
Fresh ==
  /\ doomed \subseteq {p \in Packages : installs[p] = "pending"}
  /\ ~reloading => \A p \in Packages :
       installs[p] = "failed" \/ (installs[p] = "pending" /\ p \notin doomed) => asked[p] = edits

-----------------------------------------------------------------------------
(* Types *)

LEMMA InitTyped ==
  ASSUME Init
  PROVE  Typed
<1>1. modules \in [Packages -> Release]
  BY PackagesAssumption DEF Init, Release, Range0, Missing
<1>2. NoBatch \in Batch
  BY DEF NoBatch, Batch, Phase, Release, Range0, Missing
<1>3. imports \in [Importers -> [state : ImportState, name : Packages \cup {First}]]
  BY DEF Init, ImportState, First
<1>. QED BY <1>1, <1>2, <1>3, PackagesAssumption DEF Init, Typed, Range0

LEMMA NoBatchTyped == NoBatch \in Batch /\ NoBatch.phase = "none" /\ NoBatch.wants = {}
BY DEF NoBatch, Batch, Phase, Release, Range0, Missing

LEMMA TreeTyped ==
  ASSUME NEW names \in SUBSET Packages
  PROVE  Tree(names) \in SUBSET Packages
BY PackagesAssumption DEF Tree

LEMMA SettleTyped ==
  ASSUME Typed, NEW wants, NEW ok \in BOOLEAN, Settle(wants, ok)
  PROVE  /\ installs' \in [Packages -> {"none", "pending", "ok", "failed"}]
         /\ doomed' \in SUBSET Packages
         /\ imports' \in [Importers -> [state : ImportState, name : Packages \cup {First}]]
         /\ \A i \in Importers : imports'[i].state # "idle" => imports'[i].name \in Packages
<1>1. installs' \in [Packages -> {"none", "pending", "ok", "failed"}]
  BY DEF Typed, Settle
<1>2. doomed' \in SUBSET Packages
  BY DEF Typed, Settle
<1>3. ASSUME NEW i \in Importers
      PROVE  /\ imports'[i] \in [state : ImportState, name : Packages \cup {First}]
             /\ imports'[i].state # "idle" => imports'[i].name \in Packages
  BY SMTT(30), <1>3 DEF Typed, Settle, ImportState
<1>4. imports' = [i \in Importers |-> imports'[i]]
  BY DEF Settle
<1>. QED BY <1>1, <1>2, <1>3, <1>4

\* An importer that moves on keeps its package.
LEMMA BecomesTyped ==
  ASSUME Typed, NEW i \in Importers, imports[i].state # "idle",
         NEW s \in ImportState \ {"idle"}, Becomes(i, s)
  PROVE  /\ imports' \in [Importers -> [state : ImportState, name : Packages \cup {First}]]
         /\ \A j \in Importers : imports'[j].state # "idle" => imports'[j].name \in Packages
BY DEF Typed, Becomes

LEMMA ImportersTyped ==
  ASSUME Typed, NEW i \in Importers,
         \/ \E p \in Packages : Import(i, p)
         \/ IdleAtLast(i) \/ Resolve(i) \/ MissIsFinal(i) \/ EnsureEntries(i) \/ ResolveAgain(i)
  PROVE  Typed'
<1> USE DEF registryVars, contentVars, promiseVars, queueVars, fetchVars, bundlerVars, history
<1>1. ASSUME NEW p \in Packages, Import(i, p)
      PROVE  Typed'
  <2>1. imports' \in [Importers -> [state : ImportState, name : Packages \cup {First}]]
    BY <1>1 DEF Typed, Import, ImportState
  <2>2. \A j \in Importers : imports'[j].state # "idle" => imports'[j].name \in Packages
    BY <1>1 DEF Typed, Import
  <2>. QED BY <1>1, <2>1, <2>2 DEF Typed, Import
<1>2. CASE IdleAtLast(i)
  BY <1>2, BecomesTyped DEF Typed, IdleAtLast, ImportState
<1>3. CASE Resolve(i)
  <2>1. imports[i].name \in Packages
    BY <1>3 DEF Typed, Resolve
  <2>. QED BY <1>3, <2>1, BecomesTyped DEF Typed, Resolve, ImportState
<1>4. CASE MissIsFinal(i)
  BY <1>4, BecomesTyped DEF Typed, MissIsFinal, ImportState
<1>5. CASE EnsureEntries(i)
  <2>1. imports[i].name \in Packages
    BY <1>5 DEF Typed, EnsureEntries
  <2>2. \E s \in {"failed", "installed", "installing"} : Becomes(i, s)
    BY <1>5 DEF EnsureEntries
  <2>3. /\ imports' \in [Importers -> [state : ImportState, name : Packages \cup {First}]]
        /\ \A j \in Importers : imports'[j].state # "idle" => imports'[j].name \in Packages
    BY <1>5, <2>2, BecomesTyped DEF EnsureEntries, ImportState
  <2>4. /\ installs' \in [Packages -> {"none", "pending", "ok", "failed"}]
        /\ nextBatch' \in SUBSET Packages /\ asked' \in [Packages -> Nat]
    <3>1. CASE installs[imports[i].name] = "none"
      <4>1. /\ installs' = [installs EXCEPT ![imports[i].name] = "pending"]
            /\ nextBatch' = nextBatch \cup {imports[i].name}
            /\ asked' = [asked EXCEPT ![imports[i].name] = edits]
        BY <1>5, <3>1 DEF EnsureEntries
      <4>. QED BY <2>1, <4>1 DEF Typed
    <3>2. CASE installs[imports[i].name] # "none"
      BY <1>5, <3>2 DEF Typed, EnsureEntries
    <3>. QED BY <3>1, <3>2
  <2>6. UNCHANGED <<declared, modules, manifest, fallbacks, doomed, chain, batch, downloads,
                    late, absent, edits>>
    BY <1>5 DEF EnsureEntries
  <2>. QED BY <2>3, <2>4, <2>6 DEF Typed
<1>6. CASE ResolveAgain(i)
  BY <1>6, BecomesTyped DEF Typed, ResolveAgain, ImportState
<1>. QED BY <1>1, <1>2, <1>3, <1>4, <1>5, <1>6

LEMMA BatchesTyped ==
  ASSUME Typed, WindowCloses \/ StartBatch \/ TreeArrives \/ TreeFails
  PROVE  Typed'
<1> USE DEF contentVars, promiseVars, queueVars, fetchVars, bundlerVars, history
<1>1. CASE WindowCloses
  BY <1>1 DEF Typed, WindowCloses
<1>2. CASE StartBatch
  <2>1. chain' \in Seq(SUBSET Packages) /\ Head(chain) \in SUBSET Packages
    BY <1>2 DEF Typed, StartBatch
  <2>2. CASE Head(chain) \ Installed(modules) = {}
    <3>1. Settle(Head(chain), TRUE) /\ UNCHANGED batch
      BY <1>2, <2>2 DEF StartBatch
    <3>. QED BY <1>2, <2>1, <3>1, SettleTyped DEF Typed, StartBatch
  <2>3. CASE Head(chain) \ Installed(modules) # {}
    <3>1. batch' = [NoBatch EXCEPT !.phase = "tree", !.wants = Head(chain),
                      !.request = Head(chain) \ Installed(modules), !.pins = declared]
      BY <1>2, <2>3 DEF StartBatch
    <3>2. batch' \in Batch /\ batch'.phase = "tree"
      BY <2>1, <3>1, NoBatchTyped DEF Typed, Batch, Phase
    <3>. QED BY <1>2, <2>1, <2>3, <3>2 DEF Typed, StartBatch
  <2>. QED BY <2>2, <2>3
<1>3. CASE TreeArrives
  <2>1. PICK dropped \in SUBSET batch.request :
          LET resolved == Tree(batch.request \ dropped)
              fallback == batch.request \ (manifest \cup resolved) IN
            /\ batch' = [batch EXCEPT !.phase = "download", !.before = modules,
                            !.manifest = manifest, !.fallbacks = fallbacks,
                            !.todo = (resolved \cup fallback) \ Installed(modules)]
            /\ manifest' = manifest \cup resolved \cup fallback
            /\ fallbacks' = fallbacks \cup fallback
            /\ downloads' = batch'.todo
    BY <1>3 DEF TreeArrives
  <2>2. batch.request \in SUBSET Packages
    BY DEF Typed, Batch
  <2>3. Tree(batch.request \ dropped) \in SUBSET Packages
    BY <2>2, TreeTyped
  <2>4. batch' \in Batch /\ batch'.phase = "download" /\ downloads' \in SUBSET Packages
    BY <2>1, <2>2, <2>3 DEF Typed, Batch, Phase
  <2>. QED BY <1>3, <2>1, <2>2, <2>3, <2>4 DEF Typed, TreeArrives
<1>4. CASE TreeFails
  BY <1>4, SettleTyped, NoBatchTyped DEF Typed, TreeFails
<1>. QED BY <1>1, <1>2, <1>3, <1>4

LEMMA DownloadsTyped ==
  ASSUME Typed, \E p \in Packages : DownloadDone(p) \/ DownloadFails(p) \/ LateDone(p)
  PROVE  Typed'
<1> USE DEF contentVars, promiseVars, queueVars, fetchVars, bundlerVars, history
<1>1. ASSUME NEW p \in Packages, DownloadDone(p)
      PROVE  Typed'
  <2>1. batch.pins[p] \in Range0
    BY DEF Typed, Batch
  <2>2. modules' \in [Packages -> Release]
    BY <1>1, <2>1 DEF Typed, DownloadDone, Release
  <2>. QED BY <1>1, <2>2 DEF Typed, DownloadDone
<1>2. ASSUME NEW p \in Packages, DownloadFails(p)
      PROVE  Typed'
  BY <1>2, SettleTyped, NoBatchTyped DEF Typed, DownloadFails, Batch
<1>3. ASSUME NEW p \in Packages, LateDone(p)
      PROVE  Typed'
  BY <1>3 DEF Typed, LateDone
<1>. QED BY <1>1, <1>2, <1>3

LEMMA UnmetTyped ==
  ASSUME Typed
  PROVE  Unmet \in SUBSET Packages
BY PackagesAssumption DEF Typed, Unmet, Installed

LEMMA ClosureTyped ==
  ASSUME Typed, Downloaded \/ UsedArrive \/ UsedFail \/ Linked
  PROVE  Typed'
<1> USE DEF contentVars, promiseVars, queueVars, fetchVars, bundlerVars, history
<1>1. CASE Downloaded
  <2>1. CASE Unmet = {}
    <3>1. batch' \in Batch /\ batch'.phase = "link"
      BY <1>1, <2>1 DEF Typed, Downloaded, Batch, Phase
    <3>. QED BY <1>1, <2>1, <3>1 DEF Typed, Downloaded
  <2>2. CASE Unmet # {}
    <3>1. [p \in Packages |-> IF p \in Tree(Unmet) THEN declared[p] ELSE batch.pins[p]]
             \in [Packages -> Range0]
      BY DEF Typed, Batch
    <3>2. batch' \in Batch /\ batch'.phase = "used"
      BY <1>1, <2>2, <3>1, UnmetTyped DEF Typed, Downloaded, Batch, Phase
    <3>. QED BY <1>1, <2>2, <3>2 DEF Typed, Downloaded
  <2>. QED BY <2>1, <2>2
<1>2. CASE UsedArrive
  <2>1. Tree(batch.todo) \in SUBSET Packages
    BY TreeTyped DEF Typed, Batch
  <2>2. batch' \in Batch /\ batch'.phase = "download"
    BY <1>2, <2>1 DEF Typed, UsedArrive, Batch, Phase
  <2>. QED BY <1>2, <2>1, <2>2 DEF Typed, UsedArrive
<1>3. CASE UsedFail
  <2>1. batch' \in Batch /\ batch'.phase = "link"
    BY <1>3 DEF Typed, UsedFail, Batch, Phase
  <2>. QED BY <1>3, <2>1 DEF Typed, UsedFail
<1>4. CASE Linked
  BY <1>4, SettleTyped, NoBatchTyped DEF Typed, Linked
<1>. QED BY <1>1, <1>2, <1>3, <1>4

LEMMA EditTyped ==
  ASSUME Typed, NEW p \in Packages, NEW range \in Range0, EditPackageJson(p, range)
  PROVE  Typed'
<1> USE DEF promiseVars, queueVars, fetchVars
<1>1. /\ declared' \in [Packages -> Range0]
      /\ installs' \in [Packages -> {"none", "pending", "ok", "failed"}]
      /\ doomed' \in SUBSET Packages
  BY DEF Typed, EditPackageJson
<1>. QED BY <1>1 DEF Typed, EditPackageJson

LEMMA StepTyped ==
  ASSUME Typed, [Next]_vars
  PROVE  Typed'
<1>1. CASE UNCHANGED vars
  BY <1>1 DEF Typed, vars, registryVars, contentVars, promiseVars, queueVars, fetchVars,
              bundlerVars, history
<1>2. CASE Next
  BY <1>2, ImportersTyped, BatchesTyped, DownloadsTyped, ClosureTyped, EditTyped
     DEF Next, Progress
<1>. QED BY <1>1, <1>2

\* Every variable keeps its type in every reachable state.
THEOREM TypeCorrect == Spec => []Typed
<1>. QED BY InitTyped, StepTyped, PTL DEF Spec

-----------------------------------------------------------------------------
(* The books *)

LEMMA InstalledIn ==
  ASSUME NEW releases \in [Packages -> Release], NEW p \in Packages
  PROVE  p \in Installed(releases) <=> releases[p].source \in {"cdn", "esm"}
BY DEF Installed, Release

\* What /dep_tree answers is closed.
LEMMA TreeClosed ==
  ASSUME NEW names \in SUBSET Packages
  PROVE  /\ names \subseteq Tree(names)
         /\ \A p \in Tree(names) : Needs[p] \subseteq Tree(names)
BY PackagesAssumption DEF Tree

LEMMA InitBooks ==
  ASSUME Init
  PROVE  Books
<1>1. Installed(modules) = Booted
  BY PackagesAssumption DEF Init, Installed, Missing
<1>2. \A p \in Packages : modules[p].source # "esm"
  BY PackagesAssumption DEF Init, Missing
<1>3. Closed(manifest, fallbacks)
  BY PackagesAssumption DEF Init, Closed
<1>4. batch.phase = "none"
  BY DEF Init, NoBatch
<1>. QED BY <1>1, <1>2, <1>3, <1>4 DEF Init, Books, Kept, Bringing

LEMMA BooksStay ==
  ASSUME Books, UNCHANGED <<manifest, fallbacks, modules, downloads, batch>>
  PROVE  Books'
BY DEF Books, Kept, Closed, Installed

\* The steps that end a batch with the registry as it is.
LEMMA BooksSettle ==
  ASSUME Books, batch.phase \notin Bringing \/ batch.phase = "link",
         batch' = NoBatch \/ batch'.phase = "tree",
         UNCHANGED <<manifest, fallbacks, modules, downloads>>
  PROVE  Books'
<1>1. batch'.phase \notin Bringing
  BY DEF NoBatch, Bringing
<1>2. Kept(manifest, fallbacks, modules) /\ downloads = {}
  <2>1. CASE batch.phase \notin Bringing
    BY <2>1 DEF Books
  <2>2. CASE batch.phase = "link"
    <3>1. manifest = Installed(modules) /\ downloads = {} /\ fallbacks \subseteq manifest
      BY <2>2 DEF Books, Bringing
    <3>2. \A p \in Installed(modules) : p \in fallbacks <=> modules[p].source = "esm"
      BY <2>2 DEF Books, Bringing
    <3>3. Closed(manifest, fallbacks)
      BY <2>2 DEF Books, Bringing
    <3>4. fallbacks = {p \in Packages : modules[p].source = "esm"}
      BY <3>1, <3>2 DEF Installed
    <3>. QED BY <3>1, <3>3, <3>4 DEF Kept
  <2>. QED BY <2>1, <2>2
<1>. QED BY <1>1, <1>2 DEF Books, Kept, Closed, Installed

LEMMA BooksTree ==
  ASSUME Typed, Books, TreeArrives
  PROVE  Books'
<1>1. PICK dropped \in SUBSET batch.request :
        LET resolved == Tree(batch.request \ dropped)
            fallback == batch.request \ (manifest \cup resolved) IN
          /\ batch' = [batch EXCEPT !.phase = "download", !.before = modules,
                          !.manifest = manifest, !.fallbacks = fallbacks,
                          !.todo = (resolved \cup fallback) \ Installed(modules)]
          /\ manifest' = manifest \cup resolved \cup fallback
          /\ fallbacks' = fallbacks \cup fallback
          /\ downloads' = batch'.todo
  BY DEF TreeArrives
<1> DEFINE resolved == Tree(batch.request \ dropped)
           fallback == batch.request \ (manifest \cup resolved)
<1>2. batch.request \in SUBSET Packages
  BY DEF Typed, Batch
<1>3. batch.phase \notin Bringing /\ modules' = modules
  BY DEF TreeArrives, Bringing
<1>4. Kept(manifest, fallbacks, modules)
  BY <1>3 DEF Books
<1>5. /\ batch'.phase = "download" /\ batch'.before = modules /\ batch'.manifest = manifest
      /\ batch'.fallbacks = fallbacks
      /\ downloads' = (resolved \cup fallback) \ Installed(modules)
  BY <1>1 DEF Typed, Batch
<1>6. /\ \A p \in resolved : Needs[p] \subseteq resolved
      /\ manifest' = manifest \cup resolved \cup fallback /\ fallbacks' = fallbacks \cup fallback
  BY <1>1, <1>2, TreeClosed
<1> HIDE DEF resolved, fallback
<1>7. Closed(manifest', fallbacks')
  BY <1>4, <1>6 DEF Kept, Closed
<1>8. fallback \cap manifest = {}
  BY DEF fallback
<1>9. Kept(batch'.manifest, batch'.fallbacks, batch'.before)
  BY <1>4, <1>5
<1>10. \A p \in Installed(modules) : p \in fallbacks' <=> modules[p].source = "esm"
  BY <1>4, <1>6, <1>8 DEF Kept, Installed
<1>11. /\ manifest' = Installed(modules) \cup downloads'
       /\ downloads' \cap Installed(modules) = {} /\ fallbacks' \subseteq manifest'
  <2>1. manifest = Installed(modules) /\ fallbacks \subseteq manifest
    BY <1>4 DEF Kept, Installed
  <2>. QED BY <2>1, <1>5, <1>6
<1>. QED BY <1>3, <1>5, <1>7, <1>9, <1>10, <1>11 DEF Books, Kept, Closed, Bringing, Installed

\* A download registers exactly its own package, which was not there.
LEMMA DownloadDoneDoes ==
  ASSUME Typed, Books, NEW p \in Packages, DownloadDone(p)
  PROVE  /\ batch.phase = "download" /\ batch' = batch
         /\ p \notin Installed(modules) /\ p \in manifest
         /\ modules'[p].source = IF p \in fallbacks THEN "esm" ELSE "cdn"
         /\ \A q \in Packages \ {p} : modules'[q] = modules[q]
         /\ Installed(modules') = Installed(modules) \cup {p}
<1>1. p \in downloads
  BY DEF DownloadDone
<1>2. batch.phase = "download"
  BY <1>1 DEF Books, Bringing
<1>3. p \notin Installed(modules) /\ p \in manifest
  BY <1>1, <1>2 DEF Books, Bringing
<1>4. /\ modules'[p].source = IF p \in fallbacks THEN "esm" ELSE "cdn"
      /\ \A q \in Packages \ {p} : modules'[q] = modules[q]
  BY DEF Typed, DownloadDone
<1>5. Installed(modules') = Installed(modules) \cup {p}
  BY <1>4 DEF Installed
<1>. QED BY <1>2, <1>3, <1>4, <1>5 DEF DownloadDone

LEMMA BooksDownloadDone ==
  ASSUME Typed, Books, NEW p \in Packages, DownloadDone(p)
  PROVE  Books'
<1>1. /\ batch.phase = "download" /\ batch' = batch
      /\ p \notin Installed(modules) /\ p \in manifest
      /\ modules'[p].source = IF p \in fallbacks THEN "esm" ELSE "cdn"
      /\ \A q \in Packages \ {p} : modules'[q] = modules[q]
      /\ Installed(modules') = Installed(modules) \cup {p}
  BY DownloadDoneDoes
<1>2. manifest' = manifest /\ fallbacks' = fallbacks /\ downloads' = downloads \ {p}
  BY DEF DownloadDone, contentVars
<1>3. /\ Kept(batch.manifest, batch.fallbacks, batch.before)
      /\ \A q \in Installed(batch.before) : modules[q] = batch.before[q]
      /\ manifest = Installed(modules) \cup downloads
      /\ downloads \cap Installed(modules) = {}
      /\ fallbacks \subseteq manifest
      /\ \A q \in Installed(modules) : q \in fallbacks <=> modules[q].source = "esm"
      /\ Closed(manifest, fallbacks)
  BY <1>1 DEF Books, Bringing
<1>4. p \in downloads
  BY DEF DownloadDone
<1>5. \A q \in Installed(batch.before) : modules'[q] = batch.before[q]
  <2>1. ASSUME NEW q \in Installed(batch.before)
        PROVE  q # p /\ q \in Packages
    BY <1>1, <1>3 DEF Installed
  <2>. QED BY <1>1, <1>3, <2>1
<1>6. \A q \in Installed(modules') : q \in fallbacks <=> modules'[q].source = "esm"
  BY <1>1, <1>3 DEF Installed
<1>7. /\ manifest = Installed(modules') \cup downloads'
      /\ downloads' \cap Installed(modules') = {}
  BY <1>1, <1>2, <1>3, <1>4
<1>8. /\ Kept(batch'.manifest, batch'.fallbacks, batch'.before)
      /\ \A q \in Installed(batch'.before) : modules'[q] = batch'.before[q]
      /\ Closed(manifest', fallbacks')
      /\ batch'.phase = "download"
  BY <1>1, <1>2, <1>3, <1>5
<1>. QED BY <1>2, <1>3, <1>6, <1>7, <1>8 DEF Books, Kept, Closed, Bringing, Installed

LEMMA BooksDownloadFails ==
  ASSUME Typed, Books, NEW p \in Packages, DownloadFails(p)
  PROVE  Books'
<1>1. batch.phase \in Bringing
  BY DEF Books, DownloadFails
<1>2. Kept(batch.manifest, batch.fallbacks, batch.before)
  BY <1>1 DEF Books
<1>3. /\ manifest' = batch.manifest /\ fallbacks' = batch.fallbacks /\ modules' = batch.before
      /\ downloads' = {} /\ batch' = NoBatch
  BY DEF DownloadFails
<1>4. batch'.phase \notin Bringing
  BY <1>3 DEF NoBatch, Bringing
<1>. QED BY <1>2, <1>3, <1>4 DEF Books, Kept, Closed, Installed

LEMMA BooksDownloaded ==
  ASSUME Typed, Books, Downloaded \/ UsedFail
  PROVE  Books'
<1>1. /\ batch.phase \in Bringing /\ downloads = {}
      /\ UNCHANGED <<manifest, fallbacks, modules, downloads>>
  BY DEF Books, Downloaded, UsedFail, Bringing, contentVars, fetchVars
<1>2. /\ batch'.phase \in {"link", "used"}
      /\ batch'.manifest = batch.manifest /\ batch'.fallbacks = batch.fallbacks
      /\ batch'.before = batch.before
  <2>1. CASE UsedFail
    BY <2>1 DEF Typed, Batch, UsedFail
  <2>2. CASE Downloaded /\ Unmet = {}
    BY <2>2 DEF Typed, Batch, Downloaded
  <2>3. CASE Downloaded /\ Unmet # {}
    BY <2>3 DEF Typed, Batch, Downloaded
  <2>. QED BY <2>1, <2>2, <2>3
<1>. QED BY <1>1, <1>2 DEF Books, Kept, Closed, Installed, Bringing

LEMMA BooksUsedArrive ==
  ASSUME Typed, Books, UsedArrive
  PROVE  Books'
<1> DEFINE extra == Tree(batch.todo)
<1>1. /\ batch.phase = "used" /\ batch.phase \in Bringing
      /\ manifest' = manifest \cup extra /\ downloads' = extra \ Installed(modules)
      /\ UNCHANGED <<fallbacks, modules>>
  BY DEF UsedArrive, Bringing
<1>2. /\ batch'.phase = "download"
      /\ batch'.manifest = batch.manifest /\ batch'.fallbacks = batch.fallbacks
      /\ batch'.before = batch.before
  BY DEF Typed, Batch, UsedArrive
<1>3. \A p \in extra : Needs[p] \subseteq extra
  BY TreeClosed DEF Typed, Batch
<1> HIDE DEF extra
<1>4. /\ manifest = Installed(modules) /\ fallbacks \subseteq manifest
      /\ Closed(manifest, fallbacks)
      /\ Kept(batch.manifest, batch.fallbacks, batch.before)
      /\ \A q \in Installed(batch.before) : modules[q] = batch.before[q]
      /\ \A q \in Installed(modules) : q \in fallbacks <=> modules[q].source = "esm"
  BY <1>1 DEF Books
<1>5. Closed(manifest', fallbacks')
  BY <1>1, <1>3, <1>4 DEF Closed
<1>. QED BY <1>1, <1>2, <1>4, <1>5 DEF Books, Kept, Closed, Installed, Bringing

LEMMA StartedBatch ==
  ASSUME Typed, StartBatch
  PROVE  /\ batch.phase = "none" /\ chain # <<>> /\ chain' = Tail(chain)
         /\ UNCHANGED <<declared, modules, manifest, fallbacks, nextBatch, downloads, late,
                        absent, reloading, asked, asks, edits, faults>>
         /\ \/ /\ Head(chain) \subseteq Installed(modules)
               /\ Settle(Head(chain), TRUE) /\ UNCHANGED batch
            \/ /\ batch'.phase = "tree" /\ batch'.wants = Head(chain)
               /\ batch'.request = Head(chain) \ Installed(modules)
               /\ UNCHANGED <<installs, doomed, pendingBatches, imports>>
<1>1. /\ batch.phase = "none" /\ chain # <<>> /\ chain' = Tail(chain)
      /\ UNCHANGED <<declared, modules, manifest, fallbacks, nextBatch, downloads, late,
                     absent, reloading, asked, asks, edits, faults>>
  BY DEF StartBatch, contentVars, fetchVars, history
<1>2. CASE Head(chain) \ Installed(modules) = {}
  BY <1>1, <1>2 DEF StartBatch
<1>3. CASE Head(chain) \ Installed(modules) # {}
  <2>1. batch' = [NoBatch EXCEPT !.phase = "tree", !.wants = Head(chain),
                    !.request = Head(chain) \ Installed(modules), !.pins = declared]
        /\ UNCHANGED <<installs, doomed, pendingBatches, imports>>
    BY <1>3 DEF StartBatch, promiseVars
  <2>2. batch'.phase = "tree" /\ batch'.wants = Head(chain)
        /\ batch'.request = Head(chain) \ Installed(modules)
    BY <2>1 DEF NoBatch
  <2>. QED BY <1>1, <2>1, <2>2
<1>. QED BY <1>2, <1>3

LEMMA StepBooks ==
  ASSUME Typed, Books, [Next]_vars
  PROVE  Books'
<1> USE DEF vars, registryVars, contentVars, promiseVars, queueVars, fetchVars, bundlerVars,
            history
<1>1. CASE UNCHANGED vars
  BY <1>1, BooksStay
<1>2. ASSUME NEW i \in Importers,
             \/ \E p \in Packages : Import(i, p)
             \/ IdleAtLast(i) \/ Resolve(i) \/ MissIsFinal(i) \/ EnsureEntries(i)
             \/ ResolveAgain(i)
      PROVE  Books'
  BY <1>2, BooksStay DEF Import, IdleAtLast, Resolve, MissIsFinal, EnsureEntries, ResolveAgain
<1>3. CASE WindowCloses
  BY <1>3, BooksStay DEF WindowCloses
<1>4. CASE StartBatch
  <2>1. CASE batch' = batch
    BY <1>4, <2>1, BooksStay, StartedBatch
  <2>2. CASE batch' # batch
    BY <1>4, <2>2, BooksSettle, StartedBatch DEF Bringing
  <2>. QED BY <2>1, <2>2
<1>5. CASE TreeArrives
  BY <1>5, BooksTree
<1>6. CASE TreeFails
  BY <1>6, BooksSettle DEF TreeFails, Bringing
<1>7. CASE Downloaded \/ UsedFail
  BY <1>7, BooksDownloaded
<1>8. CASE UsedArrive
  BY <1>8, BooksUsedArrive
<1>9. CASE Linked
  BY <1>9, BooksSettle DEF Linked
<1>10. ASSUME NEW p \in Packages, DownloadDone(p) \/ DownloadFails(p) \/ LateDone(p)
       PROVE  Books'
  <2>1. CASE LateDone(p)
    BY <2>1, BooksStay DEF LateDone
  <2>. QED BY <1>10, <2>1, BooksDownloadDone, BooksDownloadFails
<1>11. ASSUME NEW p \in Packages, NEW range \in Range0, EditPackageJson(p, range)
       PROVE  Books'
  BY <1>11, BooksStay DEF EditPackageJson
<1>. QED BY <1>1, <1>2, <1>3, <1>4, <1>5, <1>6, <1>7, <1>8, <1>9, <1>10, <1>11
         DEF Next, Progress

\* A batch that ended, however it ended, has left the manifest and the fallbacks exactly
\* the installed packages.
THEOREM NothingIsLeft == Spec => []NoTrace
<1>1. Books => NoTrace
  BY DEF Books, NoTrace, Kept, Bringing
<1>. QED BY <1>1, InitTyped, StepTyped, InitBooks, StepBooks, PTL DEF Spec

-----------------------------------------------------------------------------
(* What code that waits can rely on *)

\* The releases Usable is about.
Relied == IF batch.phase \in Bringing THEN batch.before ELSE modules

LEMMA UsableIsRelied ==
  /\ Usable = [p \in Packages |-> Relied[p].source]
  /\ Usable' = [p \in Packages |-> Relied'[p].source]
BY DEF Usable, Relied, Bringing

LEMMA UsableStays ==
  ASSUME Relied' = Relied
  PROVE  Usable' = Usable
BY UsableIsRelied

\* Only the end of a batch changes what is usable: not its downloads, and not its failure.
LEMMA StepRelied ==
  ASSUME Typed, Books, [Next]_vars
  PROVE  Relied' = Relied \/ (Linked /\ Relied' = modules)
<1> USE DEF vars, registryVars, contentVars, promiseVars, queueVars, fetchVars, bundlerVars,
            history
<1>1. CASE UNCHANGED <<modules, batch>>
  BY <1>1 DEF Relied
<1>2. ASSUME NEW i \in Importers,
             \/ \E p \in Packages : Import(i, p)
             \/ IdleAtLast(i) \/ Resolve(i) \/ MissIsFinal(i) \/ EnsureEntries(i)
             \/ ResolveAgain(i)
      PROVE  UNCHANGED <<modules, batch>>
  BY <1>2 DEF Import, IdleAtLast, Resolve, MissIsFinal, EnsureEntries, ResolveAgain
<1>3. CASE StartBatch
  <2>1. batch.phase \notin Bringing /\ modules' = modules /\ batch'.phase \notin Bringing
    BY <1>3, StartedBatch DEF Bringing
  <2>. QED BY <2>1 DEF Relied
<1>4. CASE TreeArrives
  <2>1. batch.phase \notin Bringing /\ modules' = modules
    BY <1>4 DEF TreeArrives, Bringing
  <2>2. batch'.phase = "download" /\ batch'.before = modules
    BY <1>4 DEF TreeArrives, Typed, Batch
  <2>. QED BY <2>1, <2>2 DEF Relied, Bringing
<1>5. CASE TreeFails
  BY <1>5, NoBatchTyped DEF TreeFails, Relied, Bringing
<1>6. CASE Downloaded
  <2>1. batch.phase = "download" /\ modules' = modules
    BY <1>6 DEF Downloaded
  <2>2. batch'.phase \in {"link", "used"} /\ batch'.before = batch.before
    <3>1. CASE Unmet = {}
      BY <1>6, <3>1 DEF Downloaded, Typed, Batch
    <3>2. CASE Unmet # {}
      BY <1>6, <3>2 DEF Downloaded, Typed, Batch
    <3>. QED BY <3>1, <3>2
  <2>. QED BY <2>1, <2>2 DEF Relied, Bringing
<1>7. CASE UsedFail
  <2>1. /\ batch.phase = "used" /\ modules' = modules
        /\ batch'.phase = "link" /\ batch'.before = batch.before
    BY <1>7 DEF UsedFail, Typed, Batch
  <2>. QED BY <2>1 DEF Relied, Bringing
<1>8. CASE UsedArrive
  <2>1. /\ batch.phase = "used" /\ modules' = modules
        /\ batch'.phase = "download" /\ batch'.before = batch.before
    BY <1>8 DEF UsedArrive, Typed, Batch
  <2>. QED BY <2>1 DEF Relied, Bringing
<1>9. CASE Linked
  BY <1>9, NoBatchTyped DEF Linked, Relied, Bringing
<1>10. ASSUME NEW p \in Packages, DownloadDone(p)
       PROVE  Relied' = Relied
  BY <1>10, DownloadDoneDoes DEF Relied, Bringing
<1>11. ASSUME NEW p \in Packages, DownloadFails(p)
       PROVE  Relied' = Relied
  <2>1. batch.phase \in Bringing
    BY <1>11 DEF Books, DownloadFails
  <2>. QED BY <1>11, <2>1, NoBatchTyped DEF DownloadFails, Relied, Bringing
<1>12. ASSUME NEW p \in Packages, NEW range \in Range0, EditPackageJson(p, range)
       PROVE  UNCHANGED <<modules, batch>>
  BY <1>12 DEF EditPackageJson
<1>13. CASE WindowCloses \/ \E p \in Packages : LateDone(p)
  BY <1>1, <1>13 DEF WindowCloses, LateDone
<1>. QED BY <1>1, <1>2, <1>3, <1>4, <1>5, <1>6, <1>7, <1>8, <1>9, <1>10, <1>11, <1>12, <1>13
         DEF Next, Progress

\* A batch that links has everything it lists, and has left alone what was there.
LEMMA LinkingKeeps ==
  ASSUME Typed, Books, Linked
  PROVE  /\ manifest = Installed(modules)
         /\ Closed(Installed(modules), {p \in Packages : modules[p].source = "esm"})
         /\ \A p \in Packages : Relied[p].source # "none" => modules[p] = Relied[p]
<1>1. batch.phase = "link" /\ batch.phase \in Bringing
  BY DEF Linked, Bringing
<1>2. /\ manifest = Installed(modules) /\ fallbacks \subseteq manifest
      /\ \A p \in Installed(modules) : p \in fallbacks <=> modules[p].source = "esm"
      /\ Closed(manifest, fallbacks)
      /\ \A p \in Installed(batch.before) : modules[p] = batch.before[p]
  BY <1>1 DEF Books
<1>3. fallbacks = {p \in Packages : modules[p].source = "esm"}
  BY <1>2 DEF Installed
<1>. QED BY <1>1, <1>2, <1>3 DEF Relied, Installed

LEMMA StepUsable ==
  ASSUME Typed, Books, [Next]_vars
  PROVE  /\ \A p \in Packages : Usable[p] # "none" => Usable'[p] = Usable[p]
         /\ Usable' # Usable => Linked /\ Relied' = modules
<1>1. CASE Relied' = Relied
  BY <1>1, UsableStays
<1>2. CASE Linked /\ Relied' = modules
  BY <1>2, UsableIsRelied, LinkingKeeps
<1>. QED BY <1>1, <1>2, StepRelied

-----------------------------------------------------------------------------
(* Installs are atomic *)

LEMMA WholeWhenClosed ==
  ASSUME NEW releases \in [Packages -> Release],
         Closed(Installed(releases), {p \in Packages : releases[p].source = "esm"})
  PROVE  /\ [p \in Packages |-> releases[p].source] \in [Packages -> Atomic!Source]
         /\ Atomic!Whole([p \in Packages |-> releases[p].source])
<1>1. \A p \in Packages : releases[p].source \in {"none", "cdn", "esm"}
  BY DEF Release
<1>2. \A p \in Packages : Needs[p] \subseteq Packages
  BY PackagesAssumption
<1>. QED BY <1>1, <1>2 DEF Atomic!Source, Atomic!Whole, Closed, Installed

LEMMA RefinesInit ==
  ASSUME Init
  PROVE  Atomic!Init
<1>1. Typed /\ Books /\ batch.phase \notin Bringing
  BY InitTyped, InitBooks DEF Init, NoBatch, Bringing
<1>2. Kept(manifest, fallbacks, modules) /\ modules \in [Packages -> Release]
  BY <1>1 DEF Books, Typed
<1>3. Usable = [p \in Packages |-> modules[p].source]
  BY <1>1, UsableIsRelied DEF Relied
<1>. QED BY <1>2, <1>3, WholeWhenClosed DEF Atomic!Init, Kept

LEMMA RefinesStep ==
  ASSUME Typed, Books, [Next]_vars
  PROVE  [Atomic!Install]_Usable
<1>1. CASE Usable' = Usable
  BY <1>1
<1>2. CASE Usable' # Usable
  <2>1. Linked /\ Relied' = modules
    BY <1>2, StepUsable
  <2>2. Usable' = [p \in Packages |-> modules[p].source]
    BY <2>1, UsableIsRelied
  <2>3. Usable' \in [Packages -> Atomic!Source] /\ Atomic!Whole(Usable')
    BY <2>1, <2>2, LinkingKeeps, WholeWhenClosed DEF Typed
  <2>4. \A p \in Packages : Usable[p] # "none" => Usable'[p] = Usable[p]
    BY StepUsable
  <2>. QED BY <2>3, <2>4 DEF Atomic!Install
<1>. QED BY <1>1, <1>2

\* Installs are all or nothing: InstallBatches implements AtomicInstalls. What can be relied
\* on only grows, by whole packages, whatever fails, is cancelled or arrives late.
THEOREM AllOrNothing == Spec => InstallsAreAtomic
<1>. QED BY InitTyped, StepTyped, InitBooks, StepBooks, RefinesInit, RefinesStep, PTL
         DEF Spec, InstallsAreAtomic, Atomic!Spec

-----------------------------------------------------------------------------
(* The queue *)

\* In the middle of a batch nothing of the queue moves, and nobody is told anything.
LEMMA BatchGoesOn ==
  ASSUME Typed,
         \/ TreeArrives \/ Downloaded \/ UsedArrive \/ UsedFail
         \/ \E p \in Packages : DownloadDone(p) \/ LateDone(p)
  PROVE  /\ UNCHANGED <<installs, doomed, nextBatch, pendingBatches, chain, imports, asked,
                        edits, reloading>>
         /\ batch'.wants = batch.wants
         /\ batch'.phase = "none" <=> batch.phase = "none"
<1> USE DEF contentVars, promiseVars, queueVars, fetchVars, bundlerVars, history, Batch, Typed
<1>1. CASE TreeArrives
  BY <1>1 DEF TreeArrives
<1>2. CASE Downloaded /\ Unmet = {}
  BY <1>2 DEF Downloaded
<1>3. CASE Downloaded /\ Unmet # {}
  BY <1>3 DEF Downloaded
<1>4. CASE UsedArrive
  BY <1>4 DEF UsedArrive
<1>5. CASE UsedFail
  BY <1>5 DEF UsedFail
<1>6. ASSUME NEW p \in Packages, DownloadDone(p) \/ LateDone(p)
      PROVE  /\ UNCHANGED <<installs, doomed, nextBatch, pendingBatches, chain, imports, asked,
                            edits, reloading, batch>>
  BY <1>6 DEF DownloadDone, LateDone
<1>. QED BY <1>1, <1>2, <1>3, <1>4, <1>5, <1>6

\* The steps that end the batch.
Ends(ok) ==
  /\ batch' = NoBatch /\ Settle(batch.wants, ok)
  /\ UNCHANGED <<nextBatch, chain, asked, edits, reloading>>

LEMMA BatchEnds ==
  ASSUME Typed, Books, TreeFails \/ Linked \/ \E p \in Packages : DownloadFails(p)
  PROVE  /\ batch.phase # "none"
         /\ \/ Linked /\ Ends(TRUE)
            \/ ~Linked /\ Ends(FALSE)
<1> USE DEF contentVars, fetchVars, history
<1>1. CASE TreeFails
  BY <1>1 DEF TreeFails, Ends, Linked
<1>2. CASE Linked
  BY <1>2 DEF Linked, Ends
<1>3. ASSUME NEW p \in Packages, DownloadFails(p)
      PROVE  batch.phase = "download" /\ Ends(FALSE)
  BY <1>3 DEF DownloadFails, Ends, Books, Bringing
<1>4. batch.phase = "download" => ~Linked
  BY DEF Linked
<1>. QED BY <1>1, <1>2, <1>3, <1>4

LEMMA Installing ==
  ASSUME Typed, NEW i \in Importers, EnsureEntries(i), installs[imports[i].name] = "none"
  PROVE  /\ imports[i].name \in Packages
         /\ installs' = [installs EXCEPT ![imports[i].name] = "pending"]
         /\ pendingBatches' = IF nextBatch = {} THEN pendingBatches + 1 ELSE pendingBatches
         /\ nextBatch' = nextBatch \cup {imports[i].name}
         /\ asked' = [asked EXCEPT ![imports[i].name] = edits]
         /\ UNCHANGED <<doomed, chain, batch, edits, reloading>>
BY DEF EnsureEntries, Typed

\* The other steps of an importer leave the queue alone.
LEMMA Importing ==
  ASSUME Typed, NEW i \in Importers,
         \/ \E p \in Packages : Import(i, p)
         \/ IdleAtLast(i) \/ Resolve(i) \/ MissIsFinal(i) \/ ResolveAgain(i)
         \/ EnsureEntries(i) /\ installs[imports[i].name] # "none"
  PROVE  UNCHANGED <<installs, doomed, nextBatch, pendingBatches, chain, batch, asked, edits,
                     reloading, modules>>
BY DEF Import, IdleAtLast, Resolve, MissIsFinal, ResolveAgain, EnsureEntries, registryVars,
       contentVars, promiseVars, queueVars, fetchVars, history

LEMMA InitQueue ==
  ASSUME Init
  PROVE  Queued /\ Counted /\ Fresh
<1>1. nextBatch = {} /\ chain = <<>> /\ batch = NoBatch /\ pendingBatches = 0 /\ doomed = {}
  BY DEF Init
<1>2. \A p \in Packages : installs[p] = "none"
  BY DEF Init
<1>. QED BY <1>1, <1>2, NoBatchTyped DEF Queued, Counted, Fresh

LEMMA QueueStays ==
  ASSUME Queued, Counted, Fresh,
         UNCHANGED <<installs, doomed, nextBatch, pendingBatches, chain, asked, edits, reloading>>,
         batch'.wants = batch.wants, batch'.phase = "none" <=> batch.phase = "none"
  PROVE  Queued' /\ Counted' /\ Fresh'
BY DEF Queued, Counted, Fresh

LEMMA QueueInstalling ==
  ASSUME Typed, Queued, Counted, Fresh, NEW i \in Importers,
         EnsureEntries(i), installs[imports[i].name] = "none"
  PROVE  Queued' /\ Counted' /\ Fresh'
<1> DEFINE p == imports[i].name
<1>1. /\ p \in Packages
      /\ installs' = [installs EXCEPT ![p] = "pending"]
      /\ pendingBatches' = IF nextBatch = {} THEN pendingBatches + 1 ELSE pendingBatches
      /\ nextBatch' = nextBatch \cup {p}
      /\ asked' = [asked EXCEPT ![p] = edits]
      /\ UNCHANGED <<doomed, chain, batch, edits, reloading>>
  BY Installing
<1> HIDE DEF p
<1>2. /\ installs'[p] = "pending" /\ asked'[p] = edits
      /\ \A q \in Packages \ {p} : installs'[q] = installs[q] /\ asked'[q] = asked[q]
  BY <1>1 DEF Typed
<1>3. /\ nextBatch \in SUBSET Packages /\ batch.wants \in SUBSET Packages
      /\ \A k \in 1 .. Len(chain) : chain[k] \in SUBSET Packages
  BY DEF Typed, Batch
<1>4. installs[p] = "none"
  BY DEF p
<1>5. Queued'
  BY <1>1, <1>2, <1>3, <1>4 DEF Queued
<1>6. Counted'
  <2>1. Len(chain) \in Nat /\ nextBatch' # {}
    BY <1>1 DEF Typed
  <2>2. CASE nextBatch = {}
    <3>1. pendingBatches = 0 + Len(chain) + (IF batch.phase = "none" THEN 0 ELSE 1)
      BY <2>2 DEF Counted
    <3>2. pendingBatches + 1 = 1 + Len(chain) + (IF batch.phase = "none" THEN 0 ELSE 1)
      BY <2>1, <3>1
    <3>3. pendingBatches' = pendingBatches + 1 /\ chain' = chain /\ batch' = batch
      BY <1>1, <2>2
    <3>. QED BY <2>1, <3>2, <3>3 DEF Counted
  <2>3. CASE nextBatch # {}
    BY <1>1, <2>1, <2>3 DEF Counted
  <2>. QED BY <2>2, <2>3
<1>7. Fresh'
  BY <1>1, <1>2, <1>4 DEF Fresh
<1>. QED BY <1>5, <1>6, <1>7

LEMMA QueueWindowCloses ==
  ASSUME Typed, Queued, Counted, Fresh, WindowCloses
  PROVE  Queued' /\ Counted' /\ Fresh'
<1>1. /\ chain' = Append(chain, nextBatch) /\ nextBatch' = {} /\ nextBatch # {}
      /\ UNCHANGED <<installs, doomed, pendingBatches, batch, asked, edits, reloading>>
  BY DEF WindowCloses, promiseVars, bundlerVars, history
<1>2. chain \in Seq(SUBSET Packages) /\ nextBatch \in SUBSET Packages /\ Len(chain) \in Nat
  BY DEF Typed
<1>3. /\ Len(chain') = Len(chain) + 1 /\ chain'[Len(chain) + 1] = nextBatch
      /\ \A k \in 1 .. Len(chain) : chain'[k] = chain[k]
  BY <1>1, <1>2
<1>4. Queued'
  <2>1. \A k \in 1 .. Len(chain') :
          chain'[k] = nextBatch \/ (k \in 1 .. Len(chain) /\ chain'[k] = chain[k])
    BY <1>2, <1>3
  <2>2. \A k \in 1 .. Len(chain') : k = Len(chain) + 1 \/ k \in 1 .. Len(chain)
    BY <1>2, <1>3
  <2>. QED BY <1>1, <1>2, <1>3, <2>1, <2>2 DEF Queued
<1>5. Counted'
  <2>1. pendingBatches = 1 + Len(chain) + (IF batch.phase = "none" THEN 0 ELSE 1)
    BY <1>1 DEF Counted
  <2>2. pendingBatches = 0 + (Len(chain) + 1) + (IF batch.phase = "none" THEN 0 ELSE 1)
    BY <1>2, <2>1
  <2>3. pendingBatches' = pendingBatches /\ batch' = batch /\ nextBatch' = {}
    BY <1>1
  <2>. QED BY <1>3, <2>2, <2>3 DEF Counted
<1>6. Fresh'
  BY <1>1 DEF Fresh
<1>. QED BY <1>4, <1>5, <1>6

LEMMA ChainTail ==
  ASSUME Typed, chain # <<>>, chain' = Tail(chain)
  PROVE  /\ Len(chain) \in Nat \ {0} /\ Len(chain') = Len(chain) - 1
         /\ Head(chain) = chain[1]
         /\ \A k \in 1 .. Len(chain') : k + 1 \in 1 .. Len(chain) /\ chain'[k] = chain[k + 1]
         /\ \A k \in 1 .. Len(chain) : chain[k] \in SUBSET Packages
BY DEF Typed

\* A settled set of packages is out of the queue.
LEMMA SettleFresh ==
  ASSUME Typed, Fresh, NEW wants, NEW ok \in BOOLEAN, Settle(wants, ok),
         \A p \in wants : installs[p] = "pending",
         UNCHANGED <<asked, edits, reloading>>
  PROVE  /\ Fresh'
         /\ \A p \in Packages \ wants : installs'[p] = installs[p]
<1>1. \A p \in Packages : installs'[p] = IF p \notin wants THEN installs[p]
                                         ELSE IF ok THEN "ok"
                                         ELSE IF p \in doomed THEN "none" ELSE "failed"
  BY DEF Settle
<1>2. doomed' = doomed \ wants
  BY DEF Settle
<1>3. doomed' \subseteq {p \in Packages : installs'[p] = "pending"}
  BY <1>1, <1>2 DEF Fresh
<1>4. ASSUME ~reloading', NEW p \in Packages,
             installs'[p] = "failed" \/ (installs'[p] = "pending" /\ p \notin doomed')
      PROVE  asked'[p] = edits'
  <2>1. CASE p \notin wants
    BY <1>1, <1>2, <1>4, <2>1 DEF Fresh
  <2>2. CASE p \in wants
    <3>1. p \notin doomed /\ installs[p] = "pending"
      BY <1>1, <1>4, <2>2
    <3>. QED BY <1>4, <3>1 DEF Fresh
  <2>. QED BY <2>1, <2>2
<1>. QED BY <1>1, <1>3, <1>4 DEF Fresh

LEMMA QueueEnds ==
  ASSUME Typed, Queued, Counted, Fresh, NEW ok \in BOOLEAN, Ends(ok), batch.phase # "none"
  PROVE  Queued' /\ Counted' /\ Fresh'
<1>1. /\ batch' = NoBatch /\ Settle(batch.wants, ok)
      /\ UNCHANGED <<nextBatch, chain, asked, edits, reloading>>
  BY DEF Ends
<1>2. Fresh' /\ \A p \in Packages \ batch.wants : installs'[p] = installs[p]
  BY <1>1, SettleFresh DEF Queued
<1>3. /\ nextBatch \in SUBSET Packages
      /\ \A k \in 1 .. Len(chain) : chain[k] \in SUBSET Packages
  BY DEF Typed
<1>4. Queued'
  BY <1>1, <1>2, <1>3, NoBatchTyped DEF Queued
<1>5. Counted'
  <2>1. pendingBatches = (IF nextBatch = {} THEN 0 ELSE 1) + Len(chain) + 1 /\ Len(chain) \in Nat
    BY DEF Counted, Typed
  <2>2. pendingBatches - 1 = (IF nextBatch = {} THEN 0 ELSE 1) + Len(chain) + 0
    BY <2>1
  <2>3. pendingBatches' = pendingBatches - 1 /\ batch'.phase = "none"
    BY <1>1, NoBatchTyped DEF Settle
  <2>. QED BY <1>1, <2>2, <2>3 DEF Counted
<1>. QED BY <1>2, <1>4, <1>5

LEMMA QueueStartBatch ==
  ASSUME Typed, Queued, Counted, Fresh, StartBatch
  PROVE  Queued' /\ Counted' /\ Fresh'
<1>1. /\ batch.phase = "none" /\ batch = NoBatch /\ chain # <<>> /\ chain' = Tail(chain)
      /\ UNCHANGED <<nextBatch, asked, edits, reloading>>
  BY StartedBatch DEF Typed
<1>2. /\ Len(chain) \in Nat \ {0} /\ Len(chain') = Len(chain) - 1
      /\ Head(chain) = chain[1]
      /\ \A k \in 1 .. Len(chain') : k + 1 \in 1 .. Len(chain) /\ chain'[k] = chain[k + 1]
      /\ \A k \in 1 .. Len(chain) : chain[k] \in SUBSET Packages
  BY <1>1, ChainTail
<1>3. \A k \in 1 .. Len(chain') : chain'[k] \cap (Head(chain) \cup nextBatch) = {}
  <2>1. \A k \in 1 .. Len(chain') : k + 1 # 1
    BY <1>2
  <2>2. 1 \in 1 .. Len(chain)
    BY <1>2
  <2>. QED BY <1>2, <2>1, <2>2 DEF Queued
<1>4. \A k, l \in 1 .. Len(chain') : k # l => chain'[k] \cap chain'[l] = {}
  <2>1. ASSUME NEW k \in 1 .. Len(chain'), NEW l \in 1 .. Len(chain'), k # l
        PROVE  chain'[k] \cap chain'[l] = {}
    <3>1. /\ k + 1 \in 1 .. Len(chain) /\ l + 1 \in 1 .. Len(chain) /\ k + 1 # l + 1
          /\ chain'[k] = chain[k + 1] /\ chain'[l] = chain[l + 1]
      BY <1>2, <2>1
    <3>. QED BY <3>1 DEF Queued
  <2>. QED BY <2>1
<1>5. /\ Head(chain) \in SUBSET Packages /\ Head(chain) \cap nextBatch = {}
      /\ \A p \in Head(chain) : installs[p] = "pending"
  <2>1. 1 \in 1 .. Len(chain)
    BY <1>2
  <2>. QED BY <1>2, <2>1 DEF Queued
<1>6. pendingBatches = (IF nextBatch = {} THEN 0 ELSE 1) + Len(chain) + 0
  BY <1>1 DEF Counted
<1>7. CASE Settle(Head(chain), TRUE) /\ UNCHANGED batch
  <2>1. Fresh' /\ \A p \in Packages \ Head(chain) : installs'[p] = installs[p]
    BY <1>1, <1>5, <1>7, SettleFresh
  <2>2. /\ nextBatch \in SUBSET Packages /\ batch'.wants = {}
        /\ \A k \in 1 .. Len(chain') : chain'[k] \in SUBSET (Packages \ Head(chain))
    BY <1>1, <1>2, <1>3, <1>7, NoBatchTyped DEF Typed
  <2>3. \A k \in 1 .. Len(chain') : \A p \in chain'[k] : installs'[p] = "pending"
    <3>1. ASSUME NEW k \in 1 .. Len(chain'), NEW p \in chain'[k]
          PROVE  installs'[p] = "pending"
      <4>1. p \in chain[k + 1] /\ k + 1 \in 1 .. Len(chain) /\ p \in Packages /\ p \notin Head(chain)
        BY <1>2, <1>3, <3>1
      <4>. QED BY <2>1, <4>1 DEF Queued
    <3>. QED BY <3>1
  <2>4. \A p \in nextBatch : installs'[p] = "pending"
    BY <1>5, <2>1, <2>2 DEF Queued
  <2>5. Queued'
    BY <1>1, <1>3, <1>4, <2>2, <2>3, <2>4 DEF Queued
  <2>6. Counted'
    <3>1. pendingBatches - 1 = (IF nextBatch = {} THEN 0 ELSE 1) + (Len(chain) - 1) + 0
      BY <1>2, <1>6
    <3>2. pendingBatches' = pendingBatches - 1
      BY <1>7 DEF Settle
    <3>. QED BY <1>1, <1>2, <1>7, <3>1, <3>2 DEF Counted
  <2>. QED BY <2>1, <2>5, <2>6
<1>8. CASE /\ batch'.phase = "tree" /\ batch'.wants = Head(chain)
           /\ UNCHANGED <<installs, doomed, pendingBatches, imports>>
  <2>1. Fresh'
    BY <1>1, <1>8 DEF Fresh
  <2>2. \A k \in 1 .. Len(chain') : \A p \in chain'[k] : installs'[p] = "pending"
    BY <1>2, <1>8 DEF Queued
  <2>3. nextBatch' \cap batch'.wants = {} /\ \A p \in nextBatch' \cup batch'.wants : installs'[p] = "pending"
    BY <1>1, <1>5, <1>8 DEF Queued
  <2>4. Queued'
    BY <1>1, <1>3, <1>4, <1>8, <2>2, <2>3 DEF Queued
  <2>5. Counted'
    <3>1. pendingBatches = (IF nextBatch = {} THEN 0 ELSE 1) + (Len(chain) - 1) + 1
      BY <1>2, <1>6
    <3>. QED BY <1>1, <1>2, <1>8, <3>1 DEF Counted
  <2>. QED BY <2>1, <2>4, <2>5
<1>. QED BY <1>7, <1>8, StartedBatch

LEMMA QueueEdit ==
  ASSUME Typed, Queued, Counted, Fresh,
         NEW p \in Packages, NEW range \in Range0, EditPackageJson(p, range)
  PROVE  Queued' /\ Counted' /\ Fresh'
<1>1. UNCHANGED <<nextBatch, pendingBatches, chain, batch, asked>> /\ edits' = edits + 1 /\ ~reloading
  BY DEF EditPackageJson, queueVars
<1>2. CASE reloading' = TRUE /\ UNCHANGED <<installs, doomed>>
  BY <1>1, <1>2 DEF Queued, Counted, Fresh
<1>3. CASE /\ installs' = [q \in Packages |-> IF installs[q] = "failed" THEN "none" ELSE installs[q]]
           /\ doomed' = {q \in Packages : installs[q] = "pending"}
  <2>1. \A q \in Packages : /\ installs'[q] # "failed"
                            /\ installs'[q] = "pending" <=> installs[q] = "pending"
    BY <1>3 DEF Typed
  <2>2. Fresh'
    BY <1>3, <2>1 DEF Fresh
  <2>3. /\ nextBatch \in SUBSET Packages /\ batch.wants \in SUBSET Packages
        /\ \A k \in 1 .. Len(chain) : chain[k] \in SUBSET Packages
    BY DEF Typed, Batch
  <2>4. Queued'
    BY <1>1, <2>1, <2>3 DEF Queued
  <2>. QED BY <1>1, <2>2, <2>4 DEF Counted
<1>. QED BY <1>2, <1>3 DEF EditPackageJson, promiseVars

LEMMA StepQueue ==
  ASSUME Typed, Books, Queued, Counted, Fresh, [Next]_vars
  PROVE  Queued' /\ Counted' /\ Fresh'
<1>1. CASE UNCHANGED vars
  BY <1>1, QueueStays DEF vars, registryVars, promiseVars, queueVars, bundlerVars, history
<1>2. ASSUME NEW i \in Importers,
             \/ \E p \in Packages : Import(i, p)
             \/ IdleAtLast(i) \/ Resolve(i) \/ MissIsFinal(i) \/ EnsureEntries(i)
             \/ ResolveAgain(i)
      PROVE  Queued' /\ Counted' /\ Fresh'
  <2>1. CASE EnsureEntries(i) /\ installs[imports[i].name] = "none"
    BY <2>1, QueueInstalling
  <2>2. CASE ~(EnsureEntries(i) /\ installs[imports[i].name] = "none")
    BY <1>2, <2>2, Importing, QueueStays
  <2>. QED BY <2>1, <2>2
<1>3. CASE \/ TreeArrives \/ Downloaded \/ UsedArrive \/ UsedFail
           \/ \E p \in Packages : DownloadDone(p) \/ LateDone(p)
  BY <1>3, BatchGoesOn, QueueStays
<1>4. CASE TreeFails \/ Linked \/ \E p \in Packages : DownloadFails(p)
  BY <1>4, BatchEnds, QueueEnds
<1>. QED BY <1>1, <1>2, <1>3, <1>4, QueueWindowCloses, QueueStartBatch, QueueEdit
         DEF Next, Progress

\* No import fails with a failure older than package.json.
THEOREM FailuresAreFresh == Spec => []NoStaleFailure
<1>1. Fresh => NoStaleFailure
  BY DEF Fresh, NoStaleFailure
<1>. QED BY <1>1, InitTyped, StepTyped, InitBooks, StepBooks, InitQueue, StepQueue, PTL DEF Spec

\* The counter that importers wait on counts the open window, the batches that wait and the
\* one that runs, neither more nor less: it is zero exactly when nothing is being installed.
THEOREM BatchesAreCounted == Spec => []Counted
<1>. QED BY InitTyped, StepTyped, InitBooks, StepBooks, InitQueue, StepQueue, PTL DEF Spec
-----------------------------------------------------------------------------
(* What was promised *)

Wanted ==
  /\ batch.phase = "tree" => batch.request = batch.wants \ Installed(modules)
  /\ batch.phase \in Bringing => batch.wants \subseteq manifest

\* A batch that ends well, and one with nothing to request, deliver what they list.
Delivers(p) ==
  \/ Linked /\ p \in batch.wants
  \/ batch.phase = "none" /\ p \in Installed(modules)

LEMMA WantedStays ==
  ASSUME Wanted, UNCHANGED <<modules, manifest, batch>>
  PROVE  Wanted'
BY DEF Wanted, Installed

\* No entry of what a batch was asked for gets lost on the way to the manifest.
LEMMA WantedTree ==
  ASSUME Typed, Books, Wanted, TreeArrives
  PROVE  Wanted'
<1>1. PICK dropped \in SUBSET batch.request :
        LET resolved == Tree(batch.request \ dropped)
            fallback == batch.request \ (manifest \cup resolved) IN
          /\ batch' = [batch EXCEPT !.phase = "download", !.before = modules,
                          !.manifest = manifest, !.fallbacks = fallbacks,
                          !.todo = (resolved \cup fallback) \ Installed(modules)]
          /\ manifest' = manifest \cup resolved \cup fallback
  BY DEF TreeArrives
<1>2. batch.phase = "tree" /\ batch.phase \notin Bringing
  BY DEF TreeArrives, Bringing
<1>3. manifest = Installed(modules) /\ batch.request = batch.wants \ Installed(modules)
  BY <1>2 DEF Books, Kept, Wanted
<1>4. batch'.phase = "download" /\ batch'.wants = batch.wants
  BY <1>1 DEF Typed, Batch
<1>. QED BY <1>1, <1>3, <1>4 DEF Wanted

LEMMA StepWanted ==
  ASSUME Typed, Books, Wanted, [Next]_vars
  PROVE  Wanted'
<1> USE DEF vars, registryVars, contentVars, promiseVars, queueVars, fetchVars, bundlerVars,
            history
<1>1. CASE UNCHANGED <<modules, manifest, batch>>
  BY <1>1, WantedStays
<1>2. ASSUME NEW i \in Importers,
             \/ \E p \in Packages : Import(i, p)
             \/ IdleAtLast(i) \/ Resolve(i) \/ MissIsFinal(i) \/ EnsureEntries(i)
             \/ ResolveAgain(i)
      PROVE  UNCHANGED <<modules, manifest, batch>>
  BY <1>2 DEF Import, IdleAtLast, Resolve, MissIsFinal, EnsureEntries, ResolveAgain
<1>3. CASE StartBatch
  <2>1. CASE batch' = batch
    BY <1>1, <1>3, <2>1, StartedBatch
  <2>2. CASE batch' # batch
    <3>1. /\ batch'.phase = "tree" /\ batch'.wants = Head(chain) /\ modules' = modules
          /\ batch'.request = Head(chain) \ Installed(modules)
      BY <1>3, <2>2, StartedBatch
    <3>. QED BY <3>1 DEF Wanted, Bringing, Installed
  <2>. QED BY <2>1, <2>2
<1>4. CASE Downloaded \/ UsedArrive \/ UsedFail
  <2>1. batch.phase \in Bringing /\ manifest \subseteq manifest'
    BY <1>4 DEF Downloaded, UsedArrive, UsedFail, Bringing
  <2>2. batch'.phase # "tree"
    <3>1. CASE Downloaded /\ Unmet = {}
      BY <3>1 DEF Downloaded, Typed, Batch
    <3>2. CASE Downloaded /\ Unmet # {}
      BY <3>2 DEF Downloaded, Typed, Batch
    <3>3. CASE UsedArrive \/ UsedFail
      BY <3>3 DEF UsedArrive, UsedFail, Typed, Batch
    <3>. QED BY <1>4, <3>1, <3>2, <3>3
  <2>3. batch'.wants = batch.wants
    BY <1>4, BatchGoesOn
  <2>. QED BY <2>1, <2>2, <2>3 DEF Wanted
<1>5. CASE TreeFails \/ Linked \/ \E p \in Packages : DownloadFails(p)
  <2>1. batch' = NoBatch
    BY <1>5, BatchEnds DEF Ends
  <2>. QED BY <2>1, NoBatchTyped DEF Wanted, Bringing
<1>6. ASSUME NEW p \in Packages, DownloadDone(p)
      PROVE  Wanted'
  <2>1. batch.phase = "download" /\ batch' = batch /\ manifest' = manifest
    BY <1>6, DownloadDoneDoes DEF DownloadDone
  <2>. QED BY <2>1 DEF Wanted, Bringing
<1>7. ASSUME NEW p \in Packages, NEW range \in Range0, EditPackageJson(p, range)
      PROVE  UNCHANGED <<modules, manifest, batch>>
  BY <1>7 DEF EditPackageJson
<1>8. CASE UNCHANGED vars \/ WindowCloses \/ \E p \in Packages : LateDone(p)
  BY <1>8, <1>1 DEF WindowCloses, LateDone
<1>. QED BY <1>1, <1>2, <1>3, <1>4, <1>5, <1>6, <1>7, <1>8, WantedTree DEF Next, Progress

LEMMA Delivered ==
  ASSUME Typed, Books, Wanted, [Next]_vars, NEW p \in Packages, Delivers(p)
  PROVE  Usable'[p] # "none"
<1>1. CASE Linked /\ p \in batch.wants
  <2>1. p \in Installed(modules)
    BY <1>1, LinkingKeeps DEF Wanted, Linked, Bringing
  <2>2. Relied' = modules
    <3>1. batch' = NoBatch /\ modules' = modules
      BY <1>1 DEF Linked, contentVars
    <3>. QED BY <3>1, NoBatchTyped DEF Relied, Bringing
  <2>. QED BY <2>1, <2>2, UsableIsRelied DEF Installed
<1>2. CASE batch.phase = "none" /\ p \in Installed(modules)
  <2>1. Usable[p] # "none"
    BY <1>2, UsableIsRelied DEF Relied, Bringing, Installed
  <2>. QED BY <2>1, StepUsable
<1>. QED BY <1>1, <1>2 DEF Delivers

\* An install ends well, and an importer is told so, only when a batch delivers it.
LEMMA NewlyInstalled ==
  ASSUME Typed, Books, [Next]_vars
  PROVE  /\ \A p \in Packages : installs'[p] = "ok" => installs[p] = "ok" \/ Delivers(p)
         /\ \A i \in Importers : imports'[i].state = "installed" =>
              /\ imports'[i].name = imports[i].name /\ imports[i].name \in Packages
              /\ \/ imports[i].state = "installed" \/ installs[imports[i].name] = "ok"
                 \/ Delivers(imports[i].name)
<1> USE DEF vars, registryVars, contentVars, promiseVars, queueVars, fetchVars, bundlerVars,
            history
<1>1. CASE UNCHANGED <<installs, imports>>
  BY <1>1 DEF Typed
<1>2. ASSUME NEW wants \in SUBSET Packages, NEW ok \in BOOLEAN, Settle(wants, ok),
             ok => \A p \in wants : Delivers(p)
      PROVE  /\ \A p \in Packages : installs'[p] = "ok" => installs[p] = "ok" \/ Delivers(p)
             /\ \A i \in Importers : imports'[i].state = "installed" =>
                  /\ imports'[i].name = imports[i].name /\ imports[i].name \in Packages
                  /\ imports[i].state = "installed" \/ Delivers(imports[i].name)
  <2>1. \A p \in Packages : installs'[p] = "ok" => installs[p] = "ok" \/ (ok /\ p \in wants)
    BY <1>2 DEF Settle
  <2>2. ASSUME NEW i \in Importers, imports'[i].state = "installed"
        PROVE  /\ imports'[i].name = imports[i].name /\ imports[i].state # "idle"
               /\ imports[i].state = "installed" \/ (ok /\ imports[i].name \in wants)
    <3>1. imports[i] \in [state : ImportState, name : Packages \cup {First}]
      BY DEF Typed
    <3>2. imports'[i] = IF imports[i].state = "installing" /\ imports[i].name \in wants
                        THEN [imports[i] EXCEPT !.state = IF ok THEN "installed" ELSE "failed"]
                        ELSE imports[i]
      BY <1>2 DEF Settle
    <3>. QED BY <2>2, <3>1, <3>2
  <2>. QED BY <1>2, <2>1, <2>2 DEF Typed
<1>3. ASSUME NEW i \in Importers, NEW s \in ImportState, Becomes(i, s),
             imports[i].state # "idle",
             s = "installed" => installs[imports[i].name] = "ok"
      PROVE  \A j \in Importers : imports'[j].state = "installed" =>
               /\ imports'[j].name = imports[j].name /\ imports[j].name \in Packages
               /\ imports[j].state = "installed" \/ installs[imports[j].name] = "ok"
  BY <1>3 DEF Becomes, Typed
<1>4. ASSUME NEW i \in Importers, NEW p \in Packages, Import(i, p)
      PROVE  /\ installs' = installs
             /\ \A j \in Importers : imports'[j].state = "installed" =>
                  imports'[j] = imports[j] /\ imports[j].name \in Packages
  BY <1>4 DEF Import, Typed
<1>5. ASSUME NEW i \in Importers,
             IdleAtLast(i) \/ Resolve(i) \/ MissIsFinal(i) \/ ResolveAgain(i)
      PROVE  /\ installs' = installs /\ imports[i].state # "idle"
             /\ \E s \in ImportState \ {"installed"} : Becomes(i, s)
  BY <1>5 DEF IdleAtLast, Resolve, MissIsFinal, ResolveAgain, ImportState
<1>6. ASSUME NEW i \in Importers, EnsureEntries(i)
      PROVE  /\ \A p \in Packages : installs'[p] = "ok" => installs[p] = "ok"
             /\ imports[i].state # "idle"
             /\ \E s \in ImportState :
                  Becomes(i, s) /\ (s = "installed" => installs[imports[i].name] = "ok")
  <2>1. \A p \in Packages : installs'[p] = "ok" => installs[p] = "ok"
    <3>1. CASE installs[imports[i].name] = "none"
      BY <1>6, <3>1, Installing DEF Typed
    <3>2. CASE installs[imports[i].name] # "none"
      BY <1>6, <3>2 DEF EnsureEntries
    <3>. QED BY <3>1, <3>2
  <2>. QED BY <1>6, <2>1 DEF EnsureEntries, ImportState
<1>7. CASE StartBatch
  <2>1. CASE Head(chain) \subseteq Installed(modules) /\ Settle(Head(chain), TRUE)
    <3>1. Head(chain) \in SUBSET Packages /\ \A p \in Head(chain) : Delivers(p)
      BY <1>7, <2>1, StartedBatch DEF Delivers, Installed
    <3>. QED BY <1>2, <2>1, <3>1
  <2>2. CASE UNCHANGED <<installs, imports>>
    BY <1>1, <2>2
  <2>. QED BY <1>7, <2>1, <2>2, StartedBatch
<1>8. CASE TreeFails \/ Linked \/ \E p \in Packages : DownloadFails(p)
  <2>1. batch.wants \in SUBSET Packages
    BY DEF Typed, Batch
  <2>2. CASE Linked /\ Settle(batch.wants, TRUE)
    <3>1. \A p \in batch.wants : Delivers(p)
      BY <2>2 DEF Delivers
    <3>. QED BY <1>2, <2>1, <2>2, <3>1
  <2>3. CASE Settle(batch.wants, FALSE)
    BY <1>2, <2>1, <2>3
  <2>. QED BY <1>8, <2>2, <2>3, BatchEnds DEF Ends
<1>9. CASE \/ TreeArrives \/ Downloaded \/ UsedArrive \/ UsedFail
           \/ \E p \in Packages : DownloadDone(p) \/ LateDone(p)
  BY <1>1, <1>9, BatchGoesOn
<1>10. ASSUME NEW p \in Packages, NEW range \in Range0, EditPackageJson(p, range)
       PROVE  /\ imports' = imports
              /\ \A q \in Packages : installs'[q] = "ok" => installs[q] = "ok"
  BY <1>10 DEF EditPackageJson, Typed
<1>11. CASE UNCHANGED vars \/ WindowCloses
  BY <1>1, <1>11 DEF WindowCloses
<1>12. CASE \E i \in Importers, p \in Packages : Import(i, p)
  BY <1>4, <1>12
<1>13. CASE \E i \in Importers :
              IdleAtLast(i) \/ Resolve(i) \/ MissIsFinal(i) \/ ResolveAgain(i)
  <2>1. PICK i \in Importers :
               IdleAtLast(i) \/ Resolve(i) \/ MissIsFinal(i) \/ ResolveAgain(i)
    BY <1>13
  <2>2. PICK s \in ImportState \ {"installed"} : Becomes(i, s)
    BY <1>5, <2>1
  <2>. QED BY <1>3, <1>5, <2>1, <2>2
<1>14. CASE \E i \in Importers : EnsureEntries(i)
  <2>1. PICK i \in Importers : EnsureEntries(i)
    BY <1>14
  <2>2. PICK s \in ImportState :
          Becomes(i, s) /\ (s = "installed" => installs[imports[i].name] = "ok")
    BY <1>6, <2>1
  <2>. QED BY <1>3, <1>6, <2>1, <2>2
<1>15. CASE \E p \in Packages, range \in Range0 : EditPackageJson(p, range)
  BY <1>10, <1>15 DEF Typed
<1>. QED BY <1>7, <1>8, <1>9, <1>11, <1>12, <1>13, <1>14, <1>15 DEF Next, Progress

LEMMA StepPromised ==
  ASSUME Typed, Books, Promised, [Next]_vars
  PROVE  Promised'
<1>1. Wanted
  BY DEF Promised, Wanted
<1>2. Wanted'
  BY <1>1, StepWanted
<1>3. \A p \in Packages : Usable[p] # "none" => Usable'[p] # "none"
  BY StepUsable
<1>4. \A p \in Packages : installs'[p] = "ok" => Usable'[p] # "none"
  BY <1>1, <1>3, NewlyInstalled, Delivered DEF Promised
<1>5. \A i \in Importers : imports'[i].state = "installed" => Usable'[imports'[i].name] # "none"
  BY <1>1, <1>3, NewlyInstalled, Delivered DEF Promised, EnsuredIsUsable
<1>. QED BY <1>2, <1>4, <1>5 DEF Promised, Wanted, EnsuredIsUsable

LEMMA InitPromised ==
  ASSUME Init
  PROVE  Promised
<1>1. batch = NoBatch /\ \A p \in Packages : installs[p] = "none"
  BY DEF Init
<1>2. \A i \in Importers : imports[i].state = "idle"
  BY DEF Init
<1>. QED BY <1>1, <1>2, NoBatchTyped DEF Promised, EnsuredIsUsable, Bringing

\* An install that was waited for has brought the package, and nothing that happens later,
\* the failure of another batch or a late download, takes it away.
THEOREM InstallsAreKept == Spec => []EnsuredIsUsable
<1>1. Promised => EnsuredIsUsable
  BY DEF Promised
<1>. QED BY <1>1, InitTyped, StepTyped, InitBooks, StepBooks, InitPromised, StepPromised, PTL
         DEF Spec
-----------------------------------------------------------------------------
(* Nobody waits in vain *)

\* p waits for its window to close, in a batch of the chain, or is of the batch that runs.
InLine(p) ==
  \/ p \in nextBatch \cup batch.wants
  \/ \E k \in 1 .. Len(chain) : p \in chain[k]

\* A pending install is in the line, and who waits for an install waits for a pending one.
Awaited ==
  /\ \A p \in Packages : installs[p] = "pending" => InLine(p)
  /\ \A i \in Importers : imports[i].state = "installing" => installs[imports[i].name] = "pending"

\* Who waits for one install has it in the line, and who waits for all of them waits while
\* there is a window to close, a batch to start, or one that runs.
NobodyWaitsInVain ==
  \A i \in Importers :
    /\ imports[i].state = "installing" => InLine(imports[i].name)
    /\ imports[i].state = "waiting" =>
         Idle \/ nextBatch # {} \/ chain # <<>> \/ batch.phase # "none"

LEMMA AwaitedStays ==
  ASSUME Awaited, UNCHANGED <<installs, nextBatch, chain>>, batch'.wants = batch.wants,
         \A i \in Importers : imports'[i].state = "installing" => imports'[i] = imports[i]
  PROVE  Awaited'
BY DEF Awaited, InLine

\* Those who do not start to wait for an install.
LEMMA AwaitedImporting ==
  ASSUME Typed, Awaited, NEW i \in Importers,
         \/ \E p \in Packages : Import(i, p)
         \/ IdleAtLast(i) \/ Resolve(i) \/ MissIsFinal(i) \/ ResolveAgain(i)
  PROVE  Awaited'
<1>1. UNCHANGED <<installs, nextBatch, chain, batch>>
  BY Importing
<1>2. \A j \in Importers : imports'[j].state = "installing" => imports'[j] = imports[j]
  <2>1. CASE \E p \in Packages : Import(i, p)
    BY <2>1 DEF Typed, Import
  <2>2. CASE IdleAtLast(i) \/ Resolve(i) \/ MissIsFinal(i) \/ ResolveAgain(i)
    BY <2>2 DEF Typed, IdleAtLast, Resolve, MissIsFinal, ResolveAgain, Becomes
  <2>. QED BY <2>1, <2>2
<1>. QED BY <1>1, <1>2, AwaitedStays

LEMMA AwaitedEnsuring ==
  ASSUME Typed, Awaited, NEW i \in Importers, EnsureEntries(i)
  PROVE  Awaited'
<1> DEFINE p == imports[i].name
<1>1. p \in Packages
  BY DEF EnsureEntries, Typed
<1>2. \A j \in Importers : /\ imports'[j].name = imports[j].name
                           /\ j # i => imports'[j] = imports[j]
  BY DEF EnsureEntries, Becomes, Typed
<1>3. UNCHANGED <<chain, batch>>
  BY DEF EnsureEntries
<1>4. CASE installs[p] = "none"
  <2>1. /\ installs' = [installs EXCEPT ![p] = "pending"]
        /\ nextBatch' = nextBatch \cup {p}
    BY <1>4, Installing
  <2>2. /\ installs'[p] = "pending"
        /\ \A q \in Packages : q # p => installs'[q] = installs[q]
    BY <1>1, <2>1 DEF Typed
  <2>3. \A q \in Packages : installs'[q] = "pending" => InLine(q)'
    BY <1>3, <2>1, <2>2 DEF Awaited, InLine
  <2>4. ASSUME NEW j \in Importers, imports'[j].state = "installing"
        PROVE  installs'[imports'[j].name] = "pending"
    <3>1. CASE j = i
      BY <1>2, <2>2, <3>1
    <3>2. CASE j # i
      BY <1>2, <1>4, <2>2, <2>4, <3>2 DEF Awaited, Typed
    <3>. QED BY <3>1, <3>2
  <2>. QED BY <2>3, <2>4 DEF Awaited
<1>5. CASE installs[p] # "none"
  <2>1. UNCHANGED <<installs, nextBatch>>
    BY <1>5 DEF EnsureEntries
  <2>2. imports'[i].state = "installing" => installs[p] = "pending"
    BY <1>1, <1>5 DEF EnsureEntries, Becomes, Typed
  <2>. QED BY <1>2, <1>3, <2>1, <2>2 DEF Awaited, InLine
<1>. QED BY <1>4, <1>5

LEMMA AwaitedWindowCloses ==
  ASSUME Typed, Awaited, WindowCloses
  PROVE  Awaited'
<1>1. /\ chain' = Append(chain, nextBatch) /\ nextBatch' = {}
      /\ UNCHANGED <<installs, batch, imports>>
  BY DEF WindowCloses, promiseVars, bundlerVars
<1>2. /\ Len(chain) \in Nat /\ Len(chain') = Len(chain) + 1
      /\ chain'[Len(chain) + 1] = nextBatch
      /\ \A k \in 1 .. Len(chain) : chain'[k] = chain[k]
  BY <1>1 DEF Typed
<1>3. ASSUME NEW p, InLine(p)
      PROVE  InLine(p)'
  <2>1. CASE p \in nextBatch
    <3>1. Len(chain) + 1 \in 1 .. Len(chain')
      BY <1>2
    <3>. QED BY <1>2, <2>1, <3>1 DEF InLine
  <2>2. CASE p \in batch.wants
    BY <1>1, <2>2 DEF InLine
  <2>3. CASE \E k \in 1 .. Len(chain) : p \in chain[k]
    <3>1. PICK k \in 1 .. Len(chain) : p \in chain[k]
      BY <2>3
    <3>2. k \in 1 .. Len(chain') /\ p \in chain'[k]
      BY <1>2, <3>1
    <3>. QED BY <3>2 DEF InLine
  <2>. QED BY <1>3, <2>1, <2>2, <2>3 DEF InLine
<1>. QED BY <1>1, <1>3 DEF Awaited

\* Who waits for a package that settles waits no more, and the others go on waiting.
LEMMA AwaitedSettle ==
  ASSUME Typed, Awaited, NEW wants, NEW ok \in BOOLEAN, Settle(wants, ok),
         \A p \in Packages \ wants : InLine(p) => InLine(p)'
  PROVE  Awaited'
<1>1. \A p \in Packages : /\ p \notin wants => installs'[p] = installs[p]
                          /\ p \in wants => installs'[p] # "pending"
  BY DEF Settle
<1>2. \A i \in Importers : imports'[i].state = "installing" =>
        imports'[i] = imports[i] /\ imports[i].name \notin wants
  BY DEF Settle, Typed
<1>3. \A i \in Importers : imports[i].state = "installing" => imports[i].name \in Packages
  BY DEF Typed
<1>. QED BY <1>1, <1>2, <1>3 DEF Awaited

LEMMA AwaitedStartBatch ==
  ASSUME Typed, Awaited, StartBatch
  PROVE  Awaited'
<1>1. /\ batch = NoBatch /\ chain # <<>> /\ chain' = Tail(chain) /\ UNCHANGED nextBatch
  BY StartedBatch DEF Typed
<1>2. /\ Len(chain) \in Nat \ {0} /\ Len(chain') = Len(chain) - 1 /\ Head(chain) = chain[1]
      /\ \A k \in 1 .. Len(chain') : chain'[k] = chain[k + 1]
  BY <1>1, ChainTail
<1>3. ASSUME NEW p, InLine(p), p \notin Head(chain)
      PROVE  p \in nextBatch \/ \E k \in 1 .. Len(chain') : p \in chain'[k]
  <2>1. CASE \E k \in 1 .. Len(chain) : p \in chain[k]
    <3>1. PICK k \in 1 .. Len(chain) : p \in chain[k]
      BY <2>1
    <3>2. k # 1
      BY <1>2, <1>3, <3>1
    <3>3. k - 1 \in 1 .. Len(chain') /\ (k - 1) + 1 = k
      BY <1>2, <3>1, <3>2
    <3>4. chain'[k - 1] = chain[k]
      BY <1>2, <3>3
    <3>. QED BY <3>1, <3>3, <3>4
  <2>. QED BY <1>1, <1>3, <2>1, NoBatchTyped DEF InLine
<1>4. CASE Settle(Head(chain), TRUE) /\ UNCHANGED batch
  <2>1. \A p \in Packages \ Head(chain) : InLine(p) => InLine(p)'
    BY <1>1, <1>3 DEF InLine
  <2>. QED BY <1>4, <2>1, AwaitedSettle
<1>5. CASE batch'.wants = Head(chain) /\ UNCHANGED <<installs, imports>>
  <2>1. \A p : InLine(p) => InLine(p)'
    BY <1>1, <1>3, <1>5 DEF InLine
  <2>. QED BY <1>5, <2>1 DEF Awaited
<1>. QED BY <1>4, <1>5, StartedBatch

LEMMA StepAwaited ==
  ASSUME Typed, Books, Awaited, [Next]_vars
  PROVE  Awaited'
<1>1. CASE UNCHANGED vars
  BY <1>1 DEF vars, registryVars, promiseVars, queueVars, bundlerVars, Awaited, InLine
<1>2. CASE \/ TreeArrives \/ Downloaded \/ UsedArrive \/ UsedFail
           \/ \E p \in Packages : DownloadDone(p) \/ LateDone(p)
  BY <1>2, BatchGoesOn, AwaitedStays
<1>3. CASE TreeFails \/ Linked \/ \E p \in Packages : DownloadFails(p)
  <2>1. PICK ok \in BOOLEAN : Ends(ok)
    BY <1>3, BatchEnds
  <2>2. \A p \in Packages \ batch.wants : InLine(p) => InLine(p)'
    BY <2>1 DEF Ends, InLine
  <2>. QED BY <2>1, <2>2, AwaitedSettle DEF Ends
<1>4. ASSUME NEW p \in Packages, NEW range \in Range0, EditPackageJson(p, range)
      PROVE  Awaited'
  <2>1. /\ UNCHANGED <<nextBatch, chain, batch, imports>>
        /\ \A q \in Packages : installs'[q] = "pending" <=> installs[q] = "pending"
    BY <1>4 DEF EditPackageJson, promiseVars, queueVars, Typed
  <2>2. \A i \in Importers : imports[i].state = "installing" => imports[i].name \in Packages
    BY DEF Typed
  <2>. QED BY <2>1, <2>2 DEF Awaited, InLine
<1>. QED BY <1>1, <1>2, <1>3, <1>4, AwaitedImporting, AwaitedEnsuring, AwaitedWindowCloses,
            AwaitedStartBatch DEF Next, Progress

LEMMA InitAwaited ==
  ASSUME Init
  PROVE  Awaited
BY DEF Init, Awaited

\* No import waits for an install nobody will settle, and none waits for the queue to drain
\* when it is empty: what EveryImportSettles asks of the queue but for its fairness
\* (ensureEntries joins a promise in installs, whenIdle reads pendingBatches).
THEOREM EveryWaitHasAnEnd == Spec => []NobodyWaitsInVain
<1>1. Typed /\ Counted /\ Awaited => NobodyWaitsInVain
  <2> SUFFICES ASSUME Typed, Counted, Awaited, NEW i \in Importers
               PROVE  /\ imports[i].state = "installing" => InLine(imports[i].name)
                      /\ Idle \/ nextBatch # {} \/ chain # <<>> \/ batch.phase # "none"
    BY DEF NobodyWaitsInVain
  <2>1. imports[i].state = "installing" => InLine(imports[i].name)
    BY DEF Typed, Awaited
  <2>2. nextBatch = {} /\ chain = <<>> /\ batch.phase = "none" => Idle
    BY DEF Counted, Idle
  <2>. QED BY <2>1, <2>2
<1>. QED BY <1>1, InitTyped, StepTyped, InitBooks, StepBooks, InitQueue, StepQueue,
            InitAwaited, StepAwaited, PTL DEF Spec
=============================================================================
