---------------------------- MODULE BundlerCycle ----------------------------
(***************************************************************************)
(* One preview document of the sandbox bundler, from the host's edit to    *)
(* the terminal `done` message: the relayed fs-change, the read memo of    *)
(* CachedFS over the Port, the debounced runCompile, Bundler.compile with  *)
(* its transform queue, the package.json and HTML checks that may end in a *)
(* page reload, and the (HMR) evaluation.                                  *)
(*                                                                         *)
(* The program is single threaded: an action is what runs between two      *)
(* awaits.  File contents are a revision and the one fact about them the   *)
(* bundler reacts to; the import graph is the entry and its direct imports.*)
(* Boot-time vendoring, artifact seeding and the install batches are other *)
(* modules' subject: here the CDN install of a declared package succeeds.  *)
(***************************************************************************)
EXTENDS Naturals, Sequences, FiniteSets, Functions

CONSTANTS
  Entry,       \* the module the app renders from
  Deps,        \* the modules Entry imports
  Pkg,         \* /app/package.json
  Html,        \* /app/index.html
  Vendored,    \* paths under /app/node_modules, whose changes the bundler ignores
  Hot,         \* modules whose code calls module.hot.accept()
  Kinds,       \* Kinds[f]: what the host may write into f
  FirstKind,   \* FirstKind[f]: what f holds when the document boots
  Rewrites,    \* the host rewrites package.json, unchanged, on every handshake
  MaxEdits,    \* bound on the host's writes
  MaxFaults    \* bound on transient read failures

Sources == {Entry} \cup Deps
Files   == Sources \cup {Pkg, Html}
Paths   == Files \cup Vendored

\* What a source can be: fine, rejected by the transformer, throwing when it
\* runs, or importing the package package.json may declare.
SourceKind == {"good", "syntax", "throws", "needs"}
\* What package.json says of that package: nothing, one range, another range.
PkgKind == {"bare", "lists", "bumped"}

ASSUME FilesAssumption ==
  /\ Entry \notin Deps
  /\ Pkg \notin Sources /\ Html \notin Sources /\ Pkg # Html
  /\ Vendored \cap Files = {}
  /\ Hot \subseteq Sources
ASSUME KindsAssumption ==
  /\ Kinds \in [Files -> SUBSET (SourceKind \cup PkgKind)]
  /\ FirstKind \in [Files -> SourceKind \cup PkgKind]
ASSUME BoundsAssumption == Rewrites \in BOOLEAN /\ MaxEdits \in Nat /\ MaxFaults \in Nat

NoContent == [rev |-> 0, kind |-> "none"]
Content   == [rev : Nat, kind : SourceKind \cup PkgKind \cup {"none"}]
First(f)  == [rev |-> 1, kind |-> FirstKind[f]]

VARIABLES
  \* ---- host
  disk,       \* disk[f]: the parent's filesystem behind the Port
  edits,      \* writes made so far
  notices,    \* fs-change messages on their way, oldest first
  faults,     \* transient read failures so far
  \* ---- CachedFS
  cache,      \* fileCache; NoContent when absent
  inflight,   \* readInflight and the Port exchange behind it
  pending,    \* pendingChanges
  \* ---- Bundler
  mods,       \* the modules map; NoModule when absent
  tasks,      \* transformationQueue: one transform per path
  firstLoad, hasHMR, reloading,
  declared,   \* the registry's declared range, a PkgKind
  installed,  \* the package is in the registry
  lastHTML,
  \* ---- Debouncer and runCompile
  timer,      \* the debounce timer is armed
  pc,         \* where runCompile is suspended
  batch,      \* changedFiles of this compile
  awaiting,   \* transforms compile awaits before it goes on
  walked,     \* modules moduleFinishedPromise has passed
  got,        \* content of the file compile itself awaits
  noop,       \* compile returned the no-change closure
  out,        \* last message of start / done(ok) / done(error)
  \* ---- history
  lost        \* files one of whose changes the bundler may not act on again

hostVars   == <<disk, edits, notices, faults>>
fsVars     == <<cache, inflight, pending>>
bundleVars == <<firstLoad, hasHMR, reloading, declared, installed, lastHTML>>
runVars    == <<timer, pc, batch, awaiting, walked, got, noop, out>>
vars == <<hostVars, fsVars, mods, tasks, bundleVars, runVars, lost>>

NoModule == [compiled |-> NoContent, eval |-> NoContent, error |-> FALSE,
             hot |-> FALSE, dirty |-> FALSE, linked |-> FALSE, here |-> FALSE]
NewModule == [NoModule EXCEPT !.here = TRUE]
NoTask == [phase |-> "none", src |-> NoContent, found |-> "none"]
NoRead == [state |-> "none", content |-> NoContent]

Module == [compiled : Content, eval : Content, error : BOOLEAN, hot : BOOLEAN,
           dirty : BOOLEAN, linked : BOOLEAN, here : BOOLEAN]
\* A task that reads knows whether it found a module to compile again.
Task   == [phase : {"none", "queued", "reading", "babel", "adopted"}, src : Content,
           found : {"none", "module", "refused"}]
Read   == [state : {"none", "asked", "answered"}, content : Content]
PC == {"idle", "preset", "vendor", "changed", "pkg", "entry", "entryWait",
       "walk", "html", "eval"}

TypeOK ==
  /\ disk \in [Files -> Content]
  /\ edits \in Nat /\ faults \in Nat
  /\ notices \in Seq(Paths)
  /\ cache \in [Files -> Content]
  /\ inflight \in [Files -> Read]
  /\ pending \in SUBSET Files
  /\ mods \in [Sources -> Module]
  /\ tasks \in [Sources -> Task]
  /\ firstLoad \in BOOLEAN /\ hasHMR \in BOOLEAN /\ reloading \in BOOLEAN
  /\ declared \in SourceKind \cup PkgKind \cup {"none"} /\ installed \in BOOLEAN
  /\ lastHTML \in Content
  /\ timer \in BOOLEAN
  /\ pc \in PC
  /\ pc = "idle" => batch = {} /\ awaiting = {} /\ walked = {} /\ ~noop
  /\ batch \in SUBSET Files
  /\ awaiting \in SUBSET Sources /\ walked \in SUBSET Sources
  /\ got \in Content
  /\ noop \in BOOLEAN
  /\ out \in {"none", "busy", "ok", "error"}
  /\ lost \in SUBSET Files

-----------------------------------------------------------------------------
\* A document as bootstrap leaves it: nothing read, the first compile debounced.
FreshDocument ==
  [ cache |-> [f \in Files |-> NoContent],
    inflight |-> [f \in Files |-> NoRead],
    mods |-> [f \in Sources |-> NoModule],
    tasks |-> [f \in Sources |-> NoTask] ]

\* What the host tells a document that just finished its handshake.
FirstNotices == IF Rewrites THEN <<Pkg>> ELSE <<>>

Init ==
  /\ disk = [f \in Files |-> First(f)] /\ edits = 0 /\ notices = FirstNotices /\ faults = 0
  /\ cache = FreshDocument.cache /\ inflight = FreshDocument.inflight /\ pending = {}
  /\ mods = FreshDocument.mods /\ tasks = FreshDocument.tasks
  /\ firstLoad = TRUE /\ hasHMR = FALSE /\ reloading = FALSE
  /\ declared = "none" /\ installed = FALSE /\ lastHTML = NoContent
  /\ timer = TRUE /\ pc = "idle" /\ batch = {} /\ awaiting = {} /\ walked = {}
  /\ got = NoContent /\ noop = FALSE /\ out = "none"
  /\ lost = {}

-----------------------------------------------------------------------------
(* The host *)

Edit(f) ==
  /\ edits < MaxEdits
  /\ IF f \in Vendored THEN UNCHANGED disk
     ELSE \E k \in Kinds[f] : disk' = [disk EXCEPT ![f] = [rev |-> edits + 2, kind |-> k]]
  /\ edits' = edits + 1
  /\ notices' = Append(notices, f)
  /\ UNCHANGED <<faults, fsVars, mods, tasks, bundleVars, runVars, lost>>

\* Seeded fault: markChanged queues the path but leaves the memo as it is.
DeliverChange_KeepsMemo ==
  /\ notices # <<>>
  /\ pending' = pending \cup ({Head(notices)} \ Vendored)
  /\ notices' = Tail(notices)
  /\ timer' = TRUE
  /\ UNCHANGED <<disk, edits, faults, cache, inflight, mods, tasks, bundleVars,
                 pc, batch, awaiting, walked, got, noop, out, lost>>

\* The fs-change handler: CachedFS.markChanged, which skips node_modules, then
\* the debounced runCompile, which it arms in any case.
DeliverChange ==
  /\ notices # <<>>
  /\ LET f == Head(notices) IN
       IF f \in Vendored THEN UNCHANGED <<cache, pending, lost>> ELSE
       /\ cache' = [cache EXCEPT ![f] = NoContent]
       /\ pending' = pending \cup {f}
       /\ lost' = IF /\ inflight[f].state = "answered" /\ inflight[f].content # disk[f]
                     /\ f \notin Range(Tail(notices))
                   THEN lost \cup {f} ELSE lost
  /\ notices' = Tail(notices)
  /\ timer' = TRUE
  /\ UNCHANGED <<disk, edits, faults, inflight, mods, tasks, bundleVars,
                 pc, batch, awaiting, walked, got, noop, out>>

\* The host answers request-refresh: the old document is gone, with the
\* messages addressed to it; the new one reads everything again.
HostReload ==
  /\ reloading
  /\ notices' = FirstNotices
  /\ cache' = FreshDocument.cache /\ inflight' = FreshDocument.inflight /\ pending' = {}
  /\ mods' = FreshDocument.mods /\ tasks' = FreshDocument.tasks
  /\ firstLoad' = TRUE /\ hasHMR' = FALSE /\ reloading' = FALSE
  /\ declared' = "none" /\ installed' = FALSE /\ lastHTML' = NoContent
  /\ timer' = TRUE /\ pc' = "idle" /\ batch' = {} /\ awaiting' = {} /\ walked' = {}
  /\ got' = NoContent /\ noop' = FALSE /\ out' = "none"
  /\ lost' = {}
  /\ UNCHANGED <<disk, edits, faults>>

-----------------------------------------------------------------------------
(* Port reads, shared by every reader of a path (CachedFS.readFileAsync) *)

\* The reader's side of readFileAsync on a path the memo does not hold.
JoinRead(f) ==
  inflight' = IF inflight[f].state = "none"
              THEN [inflight EXCEPT ![f].state = "asked"] ELSE inflight

PortAnswer(f) ==
  /\ inflight[f].state = "asked"
  /\ inflight' = [inflight EXCEPT ![f] = [state |-> "answered", content |-> disk[f]]]
  /\ UNCHANGED <<hostVars, cache, pending, mods, tasks, bundleVars, runVars, lost>>

\* The file runCompile itself is suspended on.
Wanted == CASE pc \in {"vendor", "pkg"} -> {Pkg}
            [] pc = "html"              -> {Html}
            [] OTHER                    -> {}

\* What _transformModule finds in the modules map, before it reads the source.
InMap(f) == IF ~mods[f].here THEN "none" ELSE IF mods[f].error THEN "refused" ELSE "module"

\* _transformModule goes on with the source it read.  It makes a module if it found none,
\* and nobody made one meanwhile (a path has one transform); the one it found may have been
\* dropped from the map by a retried first load, and stays out of it.  A module that failed
\* to compile and was not reset keeps its error: Module.compile returns at once.
SourceRead(f, c, found) ==
  LET refused == IF mods[f].here THEN mods[f].error ELSE found = "refused" IN
  /\ mods' = IF mods[f].here \/ found # "none" THEN mods ELSE [mods EXCEPT ![f] = NewModule]
  /\ tasks' = [tasks EXCEPT ![f] =
                 [phase |-> IF refused THEN "adopted" ELSE "babel", src |-> c, found |-> "none"]]

\* The answer arrives, is memoized, and resumes every reader of the path.
ReadDone(f) ==
  /\ inflight[f].state = "answered"
  /\ LET c == inflight[f].content IN
       /\ cache' = [cache EXCEPT ![f] = c]
       /\ IF f \in Sources /\ tasks[f].phase = "reading"
          THEN SourceRead(f, c, tasks[f].found) ELSE UNCHANGED <<mods, tasks>>
       /\ got' = IF f \in Wanted THEN c ELSE got
  /\ inflight' = [inflight EXCEPT ![f] = NoRead]
  /\ UNCHANGED <<hostVars, pending, bundleVars, timer, pc, batch, awaiting,
                 walked, noop, out, lost>>

\* runCompile ends; an ended compile holds nothing.
EndCompile(message) ==
  /\ pc' = "idle" /\ out' = message
  /\ batch' = {} /\ awaiting' = {} /\ walked' = {} /\ got' = NoContent /\ noop' = FALSE

\* Go on to phase `next` of the same compile.
Goto(next) == pc' = next /\ got' = NoContent

\* A read fails without saying the file is absent: nothing is memoized, the
\* transform of the path rejects and so does whatever awaits it.  An unreadable
\* package.json fails the compile; an unreadable index.html falls back to the
\* preset's body.
ReadFails(f) ==
  /\ faults < MaxFaults
  /\ inflight[f].state = "asked"
  /\ faults' = faults + 1
  /\ inflight' = [inflight EXCEPT ![f] = NoRead]
  /\ tasks' = IF f \in Sources /\ tasks[f].phase = "reading"
              THEN [tasks EXCEPT ![f] = NoTask] ELSE tasks
  /\ CASE f \in awaiting \/ (f = Pkg /\ pc = "pkg") -> EndCompile("error") /\ UNCHANGED timer
       [] f = Pkg /\ pc = "vendor" ->
            /\ got' = [rev |-> 0, kind |-> "bare"]
            /\ UNCHANGED <<timer, pc, batch, awaiting, walked, noop, out>>
       [] f = Html /\ pc = "html" ->
            /\ got' = [rev |-> 0, kind |-> "good"]
            /\ UNCHANGED <<timer, pc, batch, awaiting, walked, noop, out>>
       [] OTHER -> UNCHANGED runVars
  /\ lost' = IF f = Pkg /\ pc = "vendor" THEN lost ELSE lost \cup {f} \cup (batch \cap {Pkg})
  /\ UNCHANGED <<disk, edits, notices, cache, pending, mods, bundleVars>>

-----------------------------------------------------------------------------
(* The transform queue *)

\* transformModule on each path of S: one already queued or running is joined.
Enqueue(S) ==
  [f \in Sources |-> IF f \in S /\ tasks[f].phase = "none"
                     THEN [phase |-> "queued", src |-> NoContent, found |-> "none"] ELSE tasks[f]]

TaskRead(f) ==
  /\ tasks[f].phase = "queued"
  /\ IF cache[f] # NoContent
     THEN SourceRead(f, cache[f], InMap(f)) /\ UNCHANGED inflight
     ELSE /\ tasks' = [tasks EXCEPT ![f] =
                          [phase |-> "reading", src |-> NoContent, found |-> InMap(f)]]
          /\ JoinRead(f) /\ UNCHANGED mods
  /\ UNCHANGED <<hostVars, cache, pending, bundleVars, runVars, lost>>

\* An import of the package resolves when it is installed, or installs when the
\* adopted package.json declares it.
Resolvable == installed \/ declared \in {"lists", "bumped"}

\* Module.adopt: a failed resolution leaves no code, a transformer error leaves
\* the code with the error.  Nothing happens to a module a retried first load
\* has dropped from the map.
Adopted(m, c) ==
  CASE c.kind = "needs" /\ ~Resolvable -> [m EXCEPT !.error = TRUE, !.linked = TRUE]
    [] c.kind = "syntax"               -> [m EXCEPT !.error = TRUE, !.compiled = c]
    [] OTHER                           -> [m EXCEPT !.compiled = c, !.linked = TRUE]

TaskTranspiled(f) ==
  /\ tasks[f].phase = "babel"
  /\ mods' = IF mods[f].here THEN [mods EXCEPT ![f] = Adopted(@, tasks[f].src)] ELSE mods
  /\ installed' = (installed \/ (tasks[f].src.kind = "needs" /\ Resolvable))
  /\ tasks' = [tasks EXCEPT ![f].phase = "adopted"]
  /\ UNCHANGED <<hostVars, fsVars, firstLoad, hasHMR, reloading, declared, lastHTML,
                 runVars, lost>>

\* The Babel worker does not answer in 30 s: the transformer reports an error
\* and the module keeps its source as code.
TaskTimesOut(f) ==
  /\ faults < MaxFaults
  /\ tasks[f].phase = "babel"
  /\ faults' = faults + 1
  /\ mods' = IF mods[f].here
             THEN [mods EXCEPT ![f].error = TRUE, ![f].compiled = tasks[f].src] ELSE mods
  /\ tasks' = [tasks EXCEPT ![f].phase = "adopted"]
  /\ lost' = lost \cup {f}
  /\ UNCHANGED <<disk, edits, notices, fsVars, bundleVars, runVars>>

\* Seeded fault: the transform a compile waits for settles unnoticed.
TaskDone_WakesNobody(f) ==
  /\ tasks[f].phase = "adopted"
  /\ tasks' = [tasks EXCEPT ![f] = NoTask]
  /\ UNCHANGED <<hostVars, fsVars, mods, bundleVars, runVars, lost>>

\* The tail of _transformModule: start the imports' transforms, then settle.
TaskDone(f) ==
  /\ tasks[f].phase = "adopted"
  /\ LET found == mods[f].linked \/ (~mods[f].here /\ tasks[f].src.kind # "syntax")
         started == IF f = Entry /\ found
                    THEN {d \in Deps : mods[d].compiled = NoContent} ELSE {} IN
       tasks' = [Enqueue(started) EXCEPT ![f] = NoTask]
  /\ awaiting' = awaiting \ {f}
  /\ UNCHANGED <<hostVars, fsVars, mods, bundleVars, timer, pc, batch, walked,
                 got, noop, out, lost>>

-----------------------------------------------------------------------------
(* runCompile and Bundler.compile *)

\* The debounce timer fires with no compile running (with one running it is
\* armed again, which changes nothing) and start is sent.  A first load starts
\* from scratch: the modules map is new, the transforms under way are not.
StartFirstLoad ==
  /\ timer /\ pc = "idle" /\ firstLoad
  /\ timer' = FALSE /\ pc' = "preset" /\ out' = "busy"
  /\ mods' = FreshDocument.mods
  /\ lost' = lost \cup {f \in Sources : tasks[f].phase \in {"babel", "adopted"} \/ tasks[f].found # "none"}
  /\ UNCHANGED <<hostVars, fsVars, tasks, bundleVars, batch, awaiting, walked, got, noop>>

\* A compile that finds a reload requested sends no terminal message.
PresetReady ==
  /\ pc = "preset"
  /\ IF reloading THEN EndCompile("busy")
     ELSE Goto("vendor") /\ UNCHANGED <<batch, awaiting, walked, noop, out>>
  /\ UNCHANGED <<hostVars, fsVars, mods, tasks, bundleVars, timer, lost>>

\* Seeded fault: the compile a reload aborts reports done(ok).
Reload_SaysOk == reloading' = TRUE /\ EndCompile("ok")

\* requestReload: compile returns null and runCompile sends no terminal message.
Reload == reloading' = TRUE /\ EndCompile("busy")

\* Seeded fault: a reset module is not marked dirty.
Reset_KeepsClean(m) == [m EXCEPT !.error = FALSE, !.compiled = NoContent, !.eval = NoContent]

\* Module.resetCompilation on a module that stays in the document.
Reset(m) == IF m.compiled = NoContent THEN [m EXCEPT !.error = FALSE]
            ELSE [m EXCEPT !.error = FALSE, !.compiled = NoContent,
                           !.eval = NoContent, !.dirty = TRUE]

\* A compiled module that did not accept updates cannot be swapped in place.
Cold(f) == mods[f].compiled # NoContent /\ ~mods[f].hot

\* Seeded fault: a compile resets only the modules that accept updates.
Changed_HotOnly == {f \in pending \cap Sources : mods[f].here /\ mods[f].hot}

Changed == {f \in pending \cap Sources : mods[f].here}

\* The first cold module, f, requests the reload and ends the compile.
ResetUntilCold ==
  /\ \E f \in Changed, before \in SUBSET Changed :
       /\ Cold(f) /\ \A g \in before : ~Cold(g)
       /\ mods' = [g \in Sources |->
                     IF g \in before THEN Reset(mods[g])
                     ELSE IF g = f THEN [Reset(mods[g]) EXCEPT !.dirty = mods[g].dirty]
                     ELSE mods[g]]
       /\ tasks' = Enqueue(before)
  /\ Reload /\ UNCHANGED lost

\* With no cold module every changed one is transformed again.
ResetChanged ==
  /\ mods' = [g \in Sources |-> IF g \in Changed THEN Reset(mods[g]) ELSE mods[g]]
  /\ tasks' = Enqueue(Changed)
  /\ lost' = lost \cup {f \in Changed : \/ tasks[f].phase = "adopted"
                                         \/ /\ tasks[f].phase = "babel"
                                            /\ tasks[f].src # disk[f]}
  /\ batch' = pending /\ awaiting' = Changed
  /\ noop' = (pending = {}) /\ out' = "busy"
  /\ Goto(IF pending = {} THEN "html" ELSE "changed")
  /\ UNCHANGED <<reloading, walked>>

\* Seeded fault: a rewritten package.json alone forces the reload.
NeedingHMR_WithPackage == pending

\* package.json cannot be hot-applied; PackageJson below handles it.
NeedingHMR == pending \ {Pkg}

\* A later compile runs to its first transform without a pause.
StartUpdate ==
  /\ timer /\ pc = "idle" /\ ~firstLoad /\ timer' = FALSE
  /\ IF reloading
     THEN EndCompile("busy") /\ UNCHANGED <<pending, mods, tasks, reloading, lost>>
     ELSE /\ pending' = {}
          /\ IF ~hasHMR /\ NeedingHMR # {}
             THEN Reload /\ UNCHANGED <<mods, tasks, lost>>
             ELSE IF \E f \in Changed : Cold(f) THEN ResetUntilCold ELSE ResetChanged
  /\ UNCHANGED <<hostVars, cache, inflight, firstLoad, hasHMR, declared, installed, lastHTML>>

\* The end of the first load's vendoring, which read package.json: whatever was
\* reported so far is taken for watcher noise.
FirstDrain ==
  /\ pc = "vendor" /\ (got # NoContent \/ cache[Pkg] # NoContent)
  /\ pending' = {}
  /\ lost' = lost \cup {f \in pending \cap Sources :
                         mods[f].here \/ tasks[f].phase \in {"babel", "adopted"}}
  /\ Goto("pkg")
  /\ UNCHANGED <<hostVars, cache, inflight, mods, tasks, bundleVars, timer, batch,
                 awaiting, walked, noop, out>>

\* compile asks for a file of its own and is suspended until it arrives.
CompileReads ==
  /\ got = NoContent
  /\ \E f \in Wanted : cache[f] = NoContent /\ inflight[f].state = "none" /\ JoinRead(f)
  /\ UNCHANGED <<hostVars, cache, pending, mods, tasks, bundleVars, runVars, lost>>

\* What compile has of a file it needs: what a read delivered, else the memo.
Have(f) == IF got # NoContent THEN got ELSE cache[f]

ChangesTransformed ==
  /\ pc = "changed" /\ awaiting = {}
  /\ Goto(IF Pkg \in batch THEN "pkg" ELSE "entry")
  /\ UNCHANGED <<hostVars, fsVars, mods, tasks, bundleVars, timer, batch, awaiting,
                 walked, noop, out, lost>>

\* Seeded fault: an edited package.json is checked but not adopted.
PackageJson_KeepsDeclared ==
  /\ pc = "pkg" /\ Have(Pkg) # NoContent
  /\ IF ~firstLoad /\ installed /\ Have(Pkg).kind # declared THEN Reload
     ELSE Goto("entry") /\ UNCHANGED <<reloading, batch, awaiting, walked, noop, out>>
  /\ declared' = IF firstLoad THEN Have(Pkg).kind ELSE declared
  /\ UNCHANGED <<hostVars, fsVars, mods, tasks, firstLoad, hasHMR, installed, lastHTML,
                 timer, lost>>

\* processPackageJSON, then on the first load the boot install, later the check
\* that no installed version changed and the adoption of the declarations.
PackageJson ==
  /\ pc = "pkg" /\ Have(Pkg) # NoContent
  /\ LET range == Have(Pkg).kind IN
       IF ~firstLoad /\ installed /\ range # declared
       THEN Reload /\ UNCHANGED declared
       ELSE /\ declared' = range
            /\ Goto("entry")
            /\ UNCHANGED <<reloading, batch, awaiting, walked, noop, out>>
  /\ UNCHANGED <<hostVars, fsVars, mods, tasks, firstLoad, hasHMR, installed, lastHTML,
                 timer, lost>>

TransformEntry ==
  /\ pc = "entry"
  /\ LET todo == IF mods[Entry].compiled = NoContent THEN {Entry} ELSE {} IN
       tasks' = Enqueue(todo) /\ awaiting' = todo
  /\ Goto("entryWait")
  /\ UNCHANGED <<hostVars, fsVars, mods, bundleVars, timer, batch, walked, noop, out, lost>>

EntryTransformed ==
  /\ pc = "entryWait" /\ awaiting = {}
  /\ Goto("walk")
  /\ UNCHANGED <<hostVars, fsVars, mods, tasks, bundleVars, timer, batch, awaiting,
                 walked, noop, out, lost>>

\* moduleFinishedPromise on one module: not in the tree, failed, or not compiled
\* fails the compile.
Finished(f) == mods[f].here /\ ~mods[f].error /\ mods[f].compiled # NoContent

WalkModule(f) ==
  /\ pc = "walk" /\ f \notin walked
  /\ f # Entry => Entry \in walked
  /\ tasks[f].phase = "none"
  /\ IF Finished(f)
     THEN walked' = walked \cup {f} /\ UNCHANGED <<pc, batch, awaiting, got, noop, out>>
     ELSE EndCompile("error")
  /\ UNCHANGED <<hostVars, fsVars, mods, tasks, bundleVars, timer, lost>>

GraphFinished ==
  /\ pc = "walk" /\ walked = Sources
  /\ Goto("html")
  /\ UNCHANGED <<hostVars, fsVars, mods, tasks, bundleVars, timer, batch, awaiting,
                 walked, noop, out, lost>>

\* Seeded fault: another body neither replaces the first nor reloads the page.
ReplaceHtml_Once ==
  /\ pc = "html" /\ Have(Html) # NoContent
  /\ lastHTML' = IF lastHTML = NoContent THEN Have(Html) ELSE lastHTML
  /\ Goto("eval")
  /\ UNCHANGED <<hostVars, fsVars, mods, tasks, firstLoad, hasHMR, reloading, declared,
                 installed, timer, batch, awaiting, walked, noop, out, lost>>

\* replaceHTML: the first body is put in place, another one needs a reload.
ReplaceHtml ==
  /\ pc = "html" /\ Have(Html) # NoContent
  /\ IF lastHTML \notin {NoContent, Have(Html)}
     THEN Reload /\ UNCHANGED lastHTML
     ELSE /\ lastHTML' = Have(Html)
          /\ Goto("eval")
          /\ UNCHANGED <<reloading, batch, awaiting, walked, noop, out>>
  /\ UNCHANGED <<hostVars, fsVars, mods, tasks, firstLoad, hasHMR, declared, installed,
                 timer, lost>>

-----------------------------------------------------------------------------
(* Evaluation *)

\* The modules the closure evaluates: the entry on the first load, else every
\* module an update left dirty; running the entry requires its imports.
Roots == IF firstLoad THEN {Entry} ELSE {f \in Sources : mods[f].dirty}
ToRun == IF Entry \in Roots THEN {Entry} \cup {d \in Deps : mods[d].eval = NoContent} ELSE Roots
Throwers == {f \in ToRun : mods[f].compiled.kind = "throws"}

Ran(m, f)    == [m EXCEPT !.eval = m.compiled, !.hot = (f \in Hot), !.dirty = FALSE]
Failed(m)    == [m EXCEPT !.hot = FALSE, !.dirty = FALSE]
EnablesHMR(S) == hasHMR \/ S \cap Hot # {}

EvaluateNothing ==
  /\ pc = "eval" /\ noop
  /\ EndCompile("ok")
  /\ UNCHANGED <<hostVars, fsVars, mods, tasks, bundleVars, timer, lost>>

Evaluate ==
  /\ pc = "eval" /\ ~noop /\ Throwers = {}
  /\ mods' = [f \in Sources |-> IF f \in ToRun THEN Ran(mods[f], f) ELSE mods[f]]
  /\ hasHMR' = EnablesHMR(ToRun)
  /\ firstLoad' = FALSE
  /\ EndCompile("ok")
  /\ UNCHANGED <<hostVars, fsVars, tasks, reloading, declared, installed, lastHTML,
                 timer, lost>>

\* The first module that throws, x, ends it: the modules before it have run, and
\* the entry that required it has not, though its hot context is already new.
EvaluateThrows ==
  /\ pc = "eval" /\ ~noop
  /\ \E x \in Throwers, before \in SUBSET (ToRun \ (Throwers \cup {Entry})) :
       /\ x = Entry => before = ToRun \ {Entry}
       /\ mods' = [f \in Sources |->
                     IF f \in before THEN Ran(mods[f], f)
                     ELSE IF f = x \/ f \in ({Entry} \cap ToRun) THEN Failed(mods[f])
                     ELSE mods[f]]
       /\ hasHMR' = EnablesHMR(before)
  /\ EndCompile("error")
  /\ UNCHANGED <<hostVars, fsVars, tasks, firstLoad, reloading, declared, installed,
                 lastHTML, timer, lost>>

-----------------------------------------------------------------------------
Document ==
  \/ DeliverChange
  \/ \E f \in Files : PortAnswer(f) \/ ReadDone(f)
  \/ \E f \in Sources : TaskRead(f) \/ TaskTranspiled(f) \/ TaskDone(f) \/ WalkModule(f)
  \/ StartFirstLoad \/ PresetReady \/ StartUpdate
  \/ FirstDrain \/ CompileReads \/ ChangesTransformed \/ PackageJson
  \/ TransformEntry \/ EntryTransformed \/ GraphFinished \/ ReplaceHtml
  \/ EvaluateNothing \/ Evaluate \/ EvaluateThrows

Next ==
  \/ Document
  \/ HostReload
  \/ \E f \in Paths : Edit(f)
  \/ \E f \in Files : ReadFails(f)
  \/ \E f \in Sources : TaskTimesOut(f)

\* The event loop runs every task it holds, the host answers Port reads and
\* navigates when asked to; nobody has to edit and nothing has to fail.
Fairness == WF_vars(Document \/ HostReload)

Spec == Init /\ [][Next]_vars /\ Fairness

-----------------------------------------------------------------------------
(* Properties *)

\* Nothing is left to do unless the host edits again.
Quiescent ==
  /\ notices = <<>> /\ ~timer /\ pc = "idle" /\ ~reloading
  /\ \A f \in Files : inflight[f].state = "none"
  /\ \A f \in Sources : tasks[f].phase = "none"

Reported == Range(notices)

\* requestReload promises that an aborted compile emits no terminal message
\* (bundler.ts:1140): from the request until the host navigates, no compile,
\* ended, retried or triggered by later edits, says done.
NoTerminalWhileReloading == [][reloading' => out' \in {out, "busy"}]_vars

\* The read memo of CachedFS is coherent with the host's disk: an entry that
\* differs has its fs-change still on the way.  The exceptions are the files in
\* `lost`: a read answered before the change and delivered after it.
CacheCoherent ==
  \A f \in Files : cache[f] \notin {NoContent, disk[f]} => f \in Reported \cup lost

\* The code a module holds is that of the disk, or the update is still owed: by the
\* host's message, by the set the next compile drains, by a reload.  A transform
\* under way owes nothing: what it brings may be superseded.
StaleIsExplained ==
  \A f \in Sources :
    mods[f].compiled \notin {NoContent, disk[f]} =>
      reloading \/ f \in Reported \cup pending \cup lost

\* done(ok) means that everything compiled and ran (index.ts:560): a module is
\* behind only when its code, or an import's, threw in an earlier update and
\* nothing has touched it since.
OkMeansEvaluated ==
  out = "ok" /\ pc = "idle" =>
    \A f \in Sources :
      /\ mods[f].compiled # NoContent /\ ~mods[f].error
      /\ \/ mods[f].eval = mods[f].compiled
         \/ /\ mods[f].eval = NoContent
            /\ \E g \in {f} \cup (IF f = Entry THEN Deps ELSE {}) : mods[g].compiled.kind = "throws"

\* The disk holds an app that builds and runs.
Clean ==
  \A f \in Sources : \/ disk[f].kind = "good"
                     \/ disk[f].kind = "needs" /\ disk[Pkg].kind # "bare"

\* Modules whose import was refused before package.json listed its package.
Refused == {f \in Sources : mods[f].error /\ disk[f].kind = "needs"}

\* What the preview shows is what is on disk, whatever the order of edits,
\* messages, reads, transforms and reloads, once the document has come to rest:
\* the last message says ok, every module runs its latest code, the page is the
\* latest HTML and the registry holds the declared range.
ShowsDisk ==
  /\ out = "ok"
  /\ \A f \in Sources : mods[f].compiled = disk[f] /\ mods[f].eval = disk[f]
  /\ lastHTML = disk[Html]
  /\ declared = disk[Pkg].kind
Convergence == Quiescent /\ Clean /\ lost = {} /\ Refused = {} => ShowsDisk

\* "the recompile must re-read the LATEST bytes ... not a stale snapshot"
\* (bundlerHarness.hmr.test.ts:69): with no failure, a document at rest holds no
\* superseded code.  The code does not provide it (see README, findings).
RecompileReadsLatest ==
  Quiescent /\ faults = 0 =>
    \A f \in Sources : mods[f].compiled \in {NoContent, disk[f]}

\* "new dependencies ... [are] adopted in place" (bundler.ts:580): at rest, with
\* package.json listing the package, no module is refused for importing it.  The
\* code does not provide it (see README, findings).
NewDependencyAdopted ==
  Quiescent /\ lost = {} /\ disk[Pkg].kind # "bare" => Refused = {}

\* The document comes to rest: no compile waits for a transform nobody runs and
\* no reload causes the next one, though the host rewrites package.json on every
\* handshake (bundler.ts:1219).
Settles == <>[]Quiescent

=============================================================================
