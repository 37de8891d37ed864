------------------------------ MODULE Session ------------------------------
(***************************************************************************)
(* One preview from the host's side and the documents its frame goes       *)
(* through: the client of sandpack-client (clients/runtime/index.ts, with  *)
(* its InitializationGuard and IFrameProtocol), and in the frame the       *)
(* bootstrap and the message handlers of SandpackInstance (index.ts).      *)
(* A boot is a conversation: the document says `initialized`, the host     *)
(* connects a filesystem port, computes the configuration and registers    *)
(* the frame; meanwhile files change, mounts come and go, state is pushed, *)
(* and the host or the document may ask for another document.              *)
(*                                                                         *)
(* What the host page does around the client (when it edits, mounts,       *)
(* pushes, refreshes, and that it answers the document's requests) and     *)
(* what the browser does (when it replaces a document) are not in the      *)
(* repository: they are modelled from how the code uses them.              *)
(***************************************************************************)
EXTENDS Naturals, Sequences, SequencesExt, FiniteSets

CONSTANTS
  Files,        \* source files the memo may hold
  Mounts,       \* dynamic mounts; the key of a mount is its path
  Services,     \* kinds of pushed state: auth, theme, editor, ...
  Budgets       \* what may happen: one record of bounds is chosen at the start

ASSUME BudgetsAssumption ==
  Budgets \subseteq [edits : Nat, snapshots : Nat, refreshes : Nat, reloads : Nat,
                     strays : Nat, mountings : Nat, pushes : Nat, failures : Nat]

ASSUME FiniteAssumption == IsFiniteSet(Mounts) /\ IsFiniteSet(Services)

None == 0       \* no revision, no worker, no filesystem: the real ones are positive

VARIABLES
  budget,       \* what the environment may still do
  guard,        \* InitializationGuard: expected, detached
  version,      \* initializationVersion
  destroyed,    \* the client is torn down
  connecting,   \* handlers of `initialized` suspended in connectRemote or computeInitConfig
  worker,       \* the live Babel worker, named after the version that made it
  disk,         \* the revision of every file on the host
  snapshot,     \* options.fsSnapshot
  hostMounts,   \* for every mount its filesystem and mode on the host
  pushed,       \* the state of every service on the host
  loading,      \* the navigation the browser has yet to commit
  doc,          \* the document in the frame
  toHost,       \* messages posted to the host page
  toDoc,        \* messages posted to the document in the frame
  history       \* observations: superseded navigations, strays, overtaken boots, failures

hostVars == <<guard, version, destroyed, connecting, worker>>
worldVars == <<disk, snapshot, hostMounts, pushed>>
vars == <<budget, hostVars, worldVars, loading, doc, toHost, toDoc, history>>

Fields == {"edits", "snapshots", "refreshes", "reloads", "strays",
           "mountings", "pushes", "failures"}
Mounted(m) == hostMounts[m].mode # "gone"

\* The stages of a document: "loading", its script has not run yet; "waiting",
\* bootstrap awaits the filesystem port; "mounting", it mounts the port at /app;
\* "setup", it assembles the bundler's mounts; "ready", readyPromise has resolved;
\* "blank", nothing runs.
Requests == {"services", "mounts", "repo"}

\* A document that has just been loaded.
NewDocument(n, stage) ==
  [id |-> n, stage |-> stage, registrations |-> 0, port |-> FALSE, worker |-> None,
   config |-> [f \in Files |-> None], memo |-> [f \in Files |-> None], missed |-> {},
   gated |-> <<>>, mounted |-> [m \in Mounts |-> None], adding |-> {}, removing |-> {},
   table |-> {}, seen |-> {}, crossed |-> {},
   known |-> [s \in Services |-> 0], repo |-> FALSE, reloading |-> FALSE]

Registered == doc.registrations > 0

Init ==
  /\ budget \in Budgets
  /\ guard = [expected |-> 1, detached |-> FALSE]     \* the constructor navigates
  /\ version = 1
  /\ destroyed = FALSE
  /\ connecting = {}
  /\ worker = None
  /\ disk = [f \in Files |-> 1]
  /\ snapshot \in {[f \in Files |-> None], disk}
  /\ hostMounts = [m \in Mounts |-> [fs |-> None, mode |-> "gone"]]
  /\ pushed = [s \in Services |-> 0]
  /\ loading = "ours"
  /\ doc = NewDocument(0, "blank")
  /\ toHost = <<>>
  /\ toDoc = <<>>
  /\ history = [superseded |-> FALSE, stray |-> FALSE, overtaken |-> FALSE, failed |-> FALSE]

Spend(field) ==
  /\ budget[field] > 0
  /\ budget' = [budget EXCEPT ![field] = @ - 1]

\* IFrameProtocol.dispatch and _postMessage: a message goes to the document that is
\* in the frame now; once destroyed, the client sends nothing.
Dispatch(message) == toDoc' = IF destroyed THEN toDoc ELSE Append(toDoc, message)
Message(type) == [type |-> type, registered |-> Registered]
----------------------------------------------------------------------------
(* The host page and its client. *)

\* The document in the frame has yet to be heard saying `initialized`.
BootUnheard ==
  doc.stage = "loading" \/ \E i \in 1..Len(toHost) : toHost[i].type = "initialized"

\* A navigation that leaves suspended handlers of `initialized` in force.
SetLocationURL_KeepsVersion ==
  /\ version' = version
  /\ worker' = None
  /\ guard' = IF guard.detached THEN guard ELSE [guard EXCEPT !.expected = @ + 1]
  /\ loading' = "ours"
  /\ history' = [history EXCEPT
                   !.superseded = @ \/ loading = "ours",
                   !.overtaken = @ \/ BootUnheard]

\* A guard that remembers that a boot is expected, not how many are.
SetLocationURL_ArmsOnce ==
  /\ version' = version + 1
  /\ worker' = None
  /\ guard' = IF guard.detached THEN guard ELSE [guard EXCEPT !.expected = 1]
  /\ loading' = "ours"
  /\ history' = [history EXCEPT
                   !.superseded = @ \/ loading = "ours",
                   !.overtaken = @ \/ BootUnheard]

\* setLocationURLIntoIFrame: whatever was being connected or served is over, one more
\* boot is expected, and the browser is told to navigate. A navigation it has not
\* committed yet is superseded by this one; a document whose `initialized` has not
\* been heard is overtaken by it.
SetLocationURL ==
  /\ version' = version + 1
  /\ worker' = None
  /\ guard' = IF guard.detached THEN guard ELSE [guard EXCEPT !.expected = @ + 1]
  /\ loading' = "ours"
  /\ history' = [history EXCEPT
                   !.superseded = @ \/ loading = "ours",
                   !.overtaken = @ \/ BootUnheard]

\* dispatch({ type: "refresh" }) by the host page.
HostRefresh ==
  /\ ~destroyed
  /\ Spend("refreshes")
  /\ SetLocationURL
  /\ UNCHANGED <<destroyed, connecting, worldVars, doc, toHost, toDoc>>

\* destroy: every pending handler finds another version and gives up.
Destroy ==
  /\ destroyed' = TRUE
  /\ version' = version + 1
  /\ worker' = None

\* A boot that leaves its credit armed: later reload requests find one pending.
AcceptBoot_KeepsCredit ==
  /\ ~guard.detached /\ guard.expected > 0
  /\ guard' = guard
  /\ version' = version + 1
  /\ connecting' = connecting \cup {[version |-> version', stage |-> "port"]}
  /\ UNCHANGED <<destroyed, worker, loading>>

\* consumeExpectedInitialization and the start of the `initialized` handler.
AcceptBoot ==
  /\ ~guard.detached /\ guard.expected > 0
  /\ guard' = [guard EXCEPT !.expected = @ - 1]
  /\ version' = version + 1
  /\ connecting' = connecting \cup {[version |-> version', stage |-> "port"]}
  /\ UNCHANGED <<destroyed, worker, loading>>

\* A boot nobody caused: the frame is blanked and the client torn down for good.
RefuseBoot ==
  /\ guard.detached \/ guard.expected = 0
  /\ guard' = [guard EXCEPT !.detached = TRUE]
  /\ loading' = "blank"
  /\ Destroy
  /\ UNCHANGED connecting

\* The listener of the global channel: it hears every document of the frame.
HearInitialized ==
  /\ toHost # <<>> /\ Head(toHost).type = "initialized"
  /\ toHost' = Tail(toHost)
  /\ \/ ~destroyed /\ (AcceptBoot \/ RefuseBoot)
     \/ destroyed /\ UNCHANGED <<hostVars, loading>>
  /\ UNCHANGED <<budget, worldVars, doc, toDoc, history>>

\* The channel ignores documents that do not know its id.
OnChannel(message) == ~destroyed /\ message.registered

\* `request-refresh`: honoured unless a navigation of ours is still expected to boot.
HearRequestRefresh ==
  /\ toHost # <<>> /\ Head(toHost).type = "request-refresh"
  /\ toHost' = Tail(toHost)
  /\ IF ~OnChannel(Head(toHost)) \/ guard.expected > 0
       THEN UNCHANGED <<guard, version, worker, loading, history>>
       ELSE SetLocationURL
  /\ UNCHANGED <<budget, destroyed, connecting, worldVars, doc, toDoc>>

MountMessage(m) ==
  IF Mounted(m)
    THEN [type |-> "mount-add", mount |-> m, fs |-> hostMounts[m].fs, mode |-> hostMounts[m].mode]
    ELSE [type |-> "mount-remove", mount |-> m]
PushMessage(s) == [type |-> "push", service |-> s, value |-> pushed[s]]

\* The host page answers a document's requests with what it has now (external).
HearRequest ==
  /\ toHost # <<>> /\ Head(toHost).type \in Requests
  /\ toHost' = Tail(toHost)
  /\ LET answers == CASE Head(toHost).type = "services" ->
                           [i \in 1..Cardinality(Services) |-> PushMessage(SetToSeq(Services)[i])]
                      [] Head(toHost).type = "mounts" ->
                           LET here == SetToSeq({m \in Mounts : Mounted(m)})
                           IN [i \in 1..Len(here) |-> MountMessage(here[i])]
                      [] OTHER -> <<[type |-> "repo-mount"]>>
     IN toDoc' = IF OnChannel(Head(toHost)) THEN toDoc \o answers ELSE toDoc
  /\ UNCHANGED <<budget, hostVars, worldVars, loading, doc, history>>

Stale(c) == destroyed \/ c.version # version

\* connectRemote resolves; an overtaken handler closes the port and stops.
PortConnected(c) ==
  /\ c.stage = "port"
  /\ connecting' = (connecting \ {c}) \cup
       (IF Stale(c) THEN {} ELSE {[c EXCEPT !.stage = "config"]})
  /\ UNCHANGED <<budget, guard, version, destroyed, worker, worldVars, loading, doc, toHost,
                 toDoc, history>>

\* connectRemote or computeInitConfig fails: reported, and nothing tries again.
ConnectFails(c) ==
  /\ Spend("failures")
  /\ connecting' = connecting \ {c}
  /\ history' = [history EXCEPT !.failed = @ \/ ~Stale(c)]
  /\ UNCHANGED <<guard, version, destroyed, worker, worldVars, loading, doc, toHost, toDoc>>

\* computeInitConfig: of the configuration, the snapshot as it was handed over. `missed`
\* names the files that have changed since.
InitConfig == [snapshot |-> snapshot, missed |-> {f \in Files : snapshot[f] \notin {None, disk[f]}}]

\* IFrameProtocol.register: the ports, of the filesystem and of a worker, and the configuration.
RegisterFrame(v, config) ==
  [type |-> "register-frame", worker |-> v, snapshot |-> config.snapshot, missed |-> config.missed]

\* The configuration is computed: createBabelWorkerPort replaces the worker, and the frame
\* is registered.
Register(c) ==
  /\ c.stage = "config"
  /\ connecting' = connecting \ {c}
  /\ IF Stale(c) THEN UNCHANGED <<worker, toDoc>>
     ELSE /\ worker' = c.version
          /\ Dispatch(RegisterFrame(c.version, InitConfig))
  /\ UNCHANGED <<budget, guard, version, destroyed, worldVars, loading, doc, toHost, history>>

\* A write through SandpackFS, by the editor or by the app over the port: onChange,
\* from which the host page relays the path (notifyFilesChanged).
Edit(f) ==
  /\ Spend("edits")
  /\ disk' = [disk EXCEPT ![f] = @ + 1]
  /\ Dispatch([type |-> "fs-change", file |-> f])
  /\ UNCHANGED <<hostVars, snapshot, hostMounts, pushed, loading, doc, toHost, history>>

\* updateOptions with a snapshot of the files as they are now.
TakeSnapshot ==
  /\ Spend("snapshots")
  /\ snapshot' = disk
  /\ UNCHANGED <<hostVars, disk, hostMounts, pushed, loading, doc, toHost, toDoc, history>>

\* A mount appears with a filesystem of its own, loses its write access, or goes away
\* on the host (external), which tells the frame.
HostMounts(m) ==
  /\ Spend("mountings")
  /\ \/ hostMounts' = [hostMounts EXCEPT ![m] = [fs |-> @.fs + 1, mode |-> "rw"]]
     \/ Mounted(m) /\ hostMounts' = [hostMounts EXCEPT ![m].mode = "ro"]
     \/ Mounted(m) /\ hostMounts' = [hostMounts EXCEPT ![m].mode = "gone"]
  /\ Dispatch(MountMessage(m)')
  /\ UNCHANGED <<hostVars, disk, snapshot, pushed, loading, doc, toHost, history>>

\* The host pushes a new state unprompted (external).
HostPushes(s) ==
  /\ Spend("pushes")
  /\ pushed' = [pushed EXCEPT ![s] = @ + 1]
  /\ Dispatch(PushMessage(s)')
  /\ UNCHANGED <<hostVars, disk, snapshot, hostMounts, loading, doc, toHost, history>>
----------------------------------------------------------------------------
(* The browser (external): a navigation replaces the document, and with it *)
(* everything the document held and every message on its way to it.        *)

CommitNavigation ==
  /\ loading # "none"
  /\ doc' = NewDocument(doc.id + 1, IF loading = "blank" THEN "blank" ELSE "loading")
  /\ loading' = "none"
  /\ toDoc' = <<>>
  /\ history' = [history EXCEPT !.superseded = @ \/ doc.stage = "loading"]
  /\ UNCHANGED <<budget, hostVars, worldVars, toHost>>

\* The document navigates itself (a link, location.reload by the app): the host does
\* not see it.
StrayNavigation ==
  /\ doc.stage \notin {"blank", "loading"} /\ loading = "none"
  /\ Spend("strays")
  /\ doc' = NewDocument(doc.id + 1, "loading")
  /\ toDoc' = <<>>
  /\ history' = [history EXCEPT !.stray = TRUE]
  /\ UNCHANGED <<hostVars, worldVars, loading, toHost>>
----------------------------------------------------------------------------
(* The document: bootstrap. *)

\* The constructor installs the services and the message handler, then says
\* `initialized`.
Boot ==
  /\ doc.stage = "loading"
  /\ doc' = [doc EXCEPT !.stage = "waiting"]
  /\ toHost' = Append(toHost, Message("initialized"))
  /\ UNCHANGED <<budget, hostVars, worldVars, loading, toDoc, history>>

\* The pushed state is taken to be on its way already.
PortArrives_AsksForMountsOnly ==
  /\ doc.stage = "waiting" /\ doc.port
  /\ doc' = [doc EXCEPT !.stage = "mounting"]
  /\ toHost' = toHost \o <<Message("mounts")>>
  /\ UNCHANGED <<budget, hostVars, worldVars, loading, toDoc, history>>

\* getFsPort resolves: ask for everything that may have been said before.
PortArrives ==
  /\ doc.stage = "waiting" /\ doc.port
  /\ doc' = [doc EXCEPT !.stage = "mounting"]
  /\ toHost' = toHost \o <<Message("services"), Message("mounts")>>
  /\ UNCHANGED <<budget, hostVars, worldVars, loading, toDoc, history>>

\* /app is mounted and repoPortFs is set: only now may the repo's other address come.
MountApp ==
  /\ doc.stage = "mounting"
  /\ doc' = [doc EXCEPT !.stage = "setup"]
  /\ toHost' = Append(toHost, Message("repo"))
  /\ UNCHANGED <<budget, hostVars, worldVars, loading, toDoc, history>>

\* markFilesChanged: the memo forgets the path.
Forget(d, f) == [d EXCEPT !.memo[f] = None]

\* A mount one of whose handlers has not ended.
Busy(d, m) == \E x \in d.adding \cup d.removing : x.mount = m

\* handleMountAdd, up to the wait for the port's filesystem, and handleMountRemove, up
\* to that for the pre-unmount hooks. A message that meets an unfinished handler of its
\* mount may be applied before it.
StartMount(d, msg) ==
  [d EXCEPT
     !.crossed = IF Busy(d, msg.mount) THEN @ \cup {msg.mount} ELSE @,
     !.adding = @ \cup {[mount |-> msg.mount, fs |-> msg.fs, mode |-> msg.mode, at |-> "connect"]}]
StartRemove(d, m) ==
  [d EXCEPT !.crossed = IF Busy(d, m) THEN @ \cup {m} ELSE @,
            !.removing = @ \cup {[mount |-> m, at |-> "hooks"]}]

\* MountService.setMounts: listeners hear of a list that mountListsEqual tells from the
\* last one.
SetMounts(d, next) ==
  IF next = d.table THEN d ELSE [d EXCEPT !.table = next, !.seen = next]

\* A message of the parent's, once the bundler exists.
Apply(d, msg) ==
  CASE msg.type = "fs-change" -> Forget(d, msg.file)
    [] msg.type = "mount-add" -> StartMount(d, msg)
    [] OTHER -> StartRemove(d, msg.mount)

\* What waited for readyPromise, one message after the other. None of it has met an
\* unfinished handler but that of another that waited.
ApplyGated(d) ==
  LET Waited(type) == {msg \in Range(d.gated) : msg.type = type}
      About(m) == {i \in DOMAIN d.gated : d.gated[i].type # "fs-change" /\ d.gated[i].mount = m}
  IN [d EXCEPT
        !.memo = [f \in Files |-> IF \E msg \in Waited("fs-change") : msg.file = f THEN None ELSE @[f]],
        !.crossed = @ \cup {m \in Mounts : \E i, j \in About(m) : i # j},
        !.adding = @ \cup {[mount |-> msg.mount, fs |-> msg.fs, mode |-> msg.mode, at |-> "connect"] :
                             msg \in Waited("mount-add")},
        !.removing = @ \cup {[mount |-> msg.mount, at |-> "hooks"] : msg \in Waited("mount-remove")},
        !.gated = <<>>]

\* The rest of bootstrap: the bundler exists, the configuration is taken over, the
\* snapshot warms the memo, readyPromise resolves and what waited for it runs.
BecomeReady ==
  /\ doc.stage = "setup"
  /\ doc' = ApplyGated([doc EXCEPT !.stage = "ready", !.memo = doc.config])
  /\ UNCHANGED <<budget, hostVars, worldVars, loading, toHost, toDoc, history>>

----------------------------------------------------------------------------
(* The document: messages. *)

\* register-frame: the channel is known, waiting getters resolve. The port of the worker
\* is the one that came last, for whoever has not taken one (the Babel transformer does at
\* the first compile); the configuration the last one that came before it was read.
TakeRegistration(d, msg) ==
  [d EXCEPT !.registrations = @ + 1,
            !.port = TRUE,
            !.worker = msg.worker,
            !.config = msg.snapshot,
            !.missed = @ \cup msg.missed]

\* handleRepoMount: the repo gets its other address, unless its filesystem is not there yet.
HandleRepoMount(d) == [d EXCEPT !.repo = @ \/ d.stage \in {"setup", "ready"}]

\* Changes applied as they come, whether or not there is a memo to forget them.
Handle_DoesNotGate(d, msg) ==
  CASE msg.type = "register-frame" -> TakeRegistration(d, msg)
    [] msg.type \in {"fs-change", "mount-add", "mount-remove"} -> Apply(d, msg)
    [] msg.type = "push" -> [d EXCEPT !.known[msg.service] = msg.value]
    [] OTHER -> HandleRepoMount(d)

\* handleParentMessage and the services' listeners. Changes and mounts wait for the
\* bundler; pushed states do not; a repo-mount that comes too early is ignored.
Handle(d, msg) ==
  CASE msg.type = "register-frame" -> TakeRegistration(d, msg)
    [] msg.type \in {"fs-change", "mount-add", "mount-remove"} ->
         IF d.stage = "ready" THEN Apply(d, msg) ELSE [d EXCEPT !.gated = Append(@, msg)]
    [] msg.type = "push" -> [d EXCEPT !.known[msg.service] = msg.value]
    [] OTHER -> HandleRepoMount(d)

\* _messageListener: before its script runs a document hears nothing, and until it is
\* registered it heeds nothing but the registration.
Receive ==
  /\ toDoc # <<>>
  /\ toDoc' = Tail(toDoc)
  /\ doc' = IF \/ doc.stage \in {"loading", "blank"}
               \/ ~Registered /\ Head(toDoc).type # "register-frame"
              THEN doc
              ELSE Handle(doc, Head(toDoc))
  /\ UNCHANGED <<budget, hostVars, worldVars, loading, toHost, history>>

\* resolveMountConfig answers over the new port: whatever is mounted there is dropped,
\* and the directory is made.
MountAnswers(a) ==
  /\ a.at = "connect"
  /\ doc' = [doc EXCEPT !.mounted[a.mount] = None,
                        !.adding = (@ \ {a}) \cup {[a EXCEPT !.at = "directory"]}]
  /\ UNCHANGED <<budget, hostVars, worldVars, loading, toHost, toDoc, history>>

\* The filesystem behind the port is gone: the request for it times out.
MountTimesOut(a) ==
  /\ a.at = "connect"
  /\ ~Mounted(a.mount) \/ hostMounts[a.mount].fs # a.fs
  /\ doc' = [doc EXCEPT !.adding = @ \ {a}]
  /\ UNCHANGED <<budget, hostVars, worldVars, loading, toHost, toDoc, history>>

\* The filesystem is mounted and described in one go; a mount point that another handler
\* has taken meanwhile makes the mount throw.
MountPlaced(a) ==
  /\ a.at = "directory"
  /\ LET done == [doc EXCEPT !.adding = @ \ {a}] IN
     doc' = IF doc.mounted[a.mount] # None THEN done
            ELSE SetMounts([done EXCEPT !.mounted[a.mount] = a.fs],
                           {x \in doc.table : x.mount # a.mount}
                             \cup {[mount |-> a.mount, mode |-> a.mode]})
  /\ UNCHANGED <<budget, hostVars, worldVars, loading, toHost, toDoc, history>>

\* The hooks have run: whatever is there now is unmounted, its directory is removed ...
MountTaken(r) ==
  /\ r.at = "hooks"
  /\ doc' = [doc EXCEPT !.mounted[r.mount] = None,
                        !.removing = (@ \ {r}) \cup {[r EXCEPT !.at = "directory"]}]
  /\ UNCHANGED <<budget, hostVars, worldVars, loading, toHost, toDoc, history>>

\* ... and then the descriptor goes, whichever it is by now.
MountForgotten(r) ==
  /\ r.at = "directory"
  /\ doc' = SetMounts([doc EXCEPT !.removing = @ \ {r}], {x \in doc.table : x.mount # r.mount})
  /\ UNCHANGED <<budget, hostVars, worldVars, loading, toHost, toDoc, history>>

\* A read through the memo; that its two halves may straddle a change is the subject
\* of BundlerCycle.
Read(f) ==
  /\ doc.stage = "ready" /\ doc.memo[f] = None
  /\ doc' = [doc EXCEPT !.memo[f] = disk[f]]
  /\ UNCHANGED <<budget, hostVars, worldVars, loading, toHost, toDoc, history>>

\* requestRefresh, from a compile that needs another page; it is asked once.
RequestRefresh ==
  /\ doc.stage = "ready" /\ ~doc.reloading
  /\ Spend("reloads")
  /\ doc' = [doc EXCEPT !.reloading = TRUE]
  /\ toHost' = Append(toHost, Message("request-refresh"))
  /\ UNCHANGED <<hostVars, worldVars, loading, toDoc, history>>
----------------------------------------------------------------------------
Environment ==
  \/ HostRefresh \/ TakeSnapshot \/ StrayNavigation \/ RequestRefresh
  \/ \E f \in Files : Edit(f)
  \/ \E m \in Mounts : HostMounts(m)
  \/ \E s \in Services : HostPushes(s)
  \/ \E c \in connecting : ConnectFails(c)

System ==
  \/ CommitNavigation \/ Boot \/ PortArrives \/ MountApp \/ BecomeReady
  \/ HearInitialized \/ HearRequestRefresh \/ HearRequest \/ Receive
  \/ \E c \in connecting : PortConnected(c) \/ Register(c)
  \/ \E a \in doc.adding : MountAnswers(a) \/ MountTimesOut(a) \/ MountPlaced(a)
  \/ \E r \in doc.removing : MountTaken(r) \/ MountForgotten(r)

Next == Environment \/ System \/ \E f \in Files : Read(f)

\* The browser commits navigations and delivers messages, promises settle, and the
\* host page answers; nothing obliges it to do anything else.
Spec == Init /\ [][Next]_vars /\ WF_vars(System)
----------------------------------------------------------------------------
(* Properties. *)

\* The host's snapshot is older than the document it warms. Whatever the document
\* remembers of a file is what the disk has, or a notice of the change is on its way:
\* hydration never undoes an invalidation, in whatever order registration, changes and
\* bootstrap meet. Left out are the files that had changed between the snapshot and
\* the registration (`missed`): nothing ever tells the document about those
\* (CachedFS.ts:189, runtime/index.ts:649).
MemoInSync ==
  doc.stage = "ready" /\ ~destroyed =>
    \A f \in Files :
      \/ doc.memo[f] \in {None, disk[f]} \cup (IF f \in doc.missed THEN Nat ELSE {})
      \/ \E i \in 1..Len(toDoc) : toDoc[i] = [type |-> "fs-change", file |-> f]

\* Nothing is under way between the host and a booted document.
AtRest ==
  /\ doc.stage = "ready" /\ ~destroyed /\ loading = "none" /\ connecting = {}
  /\ toHost = <<>> /\ toDoc = <<>> /\ doc.adding = {} /\ doc.removing = {}

\* Mount table and mounted filesystems are written at different awaits of handlers that
\* may run at once, yet at rest an app is never told of a mount that is not there, and
\* listeners have heard of every change, of the mode too (index.ts:386, mountState.ts).
TableAgrees ==
  /\ doc.seen = doc.table
  /\ AtRest => {x.mount : x \in doc.table} \subseteq {m \in Mounts : doc.mounted[m] # None}

\* What the host says before a document is registered is lost; what it says early is
\* said to the wrong document. At rest the document still has the host's state: every
\* pushed value, the repo's address, and every mount with its mode - but for mounts
\* one of whose messages met an unfinished handler of the same mount (`crossed`): the
\* removal of an older mount then drops the descriptor of the one that is there
\* (index.ts:457).
HostStateInSync ==
  /\ TableAgrees
  /\ AtRest =>
       /\ doc.known = pushed
       /\ doc.repo
       /\ \A m \in Mounts \ doc.crossed :
            IF Mounted(m)
              THEN /\ doc.mounted[m] = hostMounts[m].fs
                   /\ [mount |-> m, mode |-> hostMounts[m].mode] \in doc.table
              ELSE doc.mounted[m] = None

\* The worker a registered document transpiles in is the one the client keeps alive:
\* handlers of `initialized` that were overtaken while they waited register nothing
\* and replace no worker. Excepted are navigations that overtake a document whose
\* `initialized` is still unheard, and documents that navigate themselves: there a
\* document can be registered twice (runtime/index.ts:504), and may transpile in the worker
\* it took from the first registration.
LiveWorker ==
  Registered /\ loading = "none" /\ ~destroyed /\ ~history.overtaken /\ ~history.stray
    => doc.worker = worker

\* Boots are matched with navigations by counting alone. However navigations, boots
\* and reload requests interleave, a document the host asked for is never refused
\* (initialization-guard.ts:57).
NoFalseRefusal == guard.detached => history.stray

\* A document that boots becomes ready, and one that asked for another page is
\* replaced - unless the client is destroyed, connecting failed, or a navigation was
\* superseded before its document ran: that boot is expected for ever, and
\* `request-refresh` is then ignored (runtime/index.ts:266).
DocumentServed ==
  \/ doc.stage = "ready" /\ ~doc.reloading
  \/ destroyed \/ history.failed \/ history.superseded

EveryDocumentIsServed == []<>DocumentServed
============================================================================
