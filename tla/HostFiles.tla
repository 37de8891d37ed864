----------------------------- MODULE HostFiles -----------------------------
(***************************************************************************)
(* SandpackFS: the host's handle over the files of one app, with the       *)
(* metadata sidecar, its subscribers, the writes the preview makes through *)
(* its port, and the policies a wrapped filesystem adds.                   *)
(*                                                                         *)
(* Callers do not wait for each other: an action is what runs between two  *)
(* awaits.  Contents are revisions (0: no such file), the metadata of a    *)
(* file is there or not, and environment and mode, which are handled       *)
(* alike, are one value.  The filesystem below finishes calls in any       *)
(* order, but writes of one file in the order they were made.              *)
(***************************************************************************)
EXTENDS Naturals, Sequences

CONSTANTS
  HostPaths,
  HostCallers,   \* concurrent calls of the handle
  HostListeners,
  HostSetups,    \* what the handle is made of: see HostSetup
  HostCalls,     \* bound on calls
  HostRemotes    \* bound on writes of the preview and on failed writes

HostMeta == [files : SUBSET HostPaths, env : 0 .. 2]
NoMeta == [files |-> {}, env |-> 0]

\* fromFiles writes the files and a sidecar into a mount of its own before anybody has the
\* handle; fromFileSystemContext adopts what is there. The face it writes through is the
\* filesystem's, a policy over it, or a policy no handle saw the filesystem without.
HostSetup == [made : {"files", "adopted"}, face : {"raw", "policy", "firstPolicy"},
              files : SUBSET HostPaths, format : {"current", "legacy", "broken"}, meta : HostMeta]

ASSUME HostAssumption ==
  /\ HostCalls \in Nat /\ HostRemotes \in Nat
  /\ HostSetups \subseteq {s \in HostSetup :
       s.made = "files" => s.face = "raw" /\ s.format = "current"}

VARIABLES
  hostSetup,     \* how the handle was made and which face it writes through
  hostFiles,     \* the filesystem: the revision of every path
  hostSidecar,   \* /.sandpack/metadata.json
  hostMeta,      \* metaCache, sidecarEnvironment and sidecarMode
  hostCalls,     \* the calls
  hostWrites,    \* sidecar writes on their way, in order
  hostRelay,     \* writes of the preview still to be relayed
  hostState,     \* the handle: open or disposed, its mount
  hostSeen,      \* what each subscriber saw of every path when it was last told
  hostHistory    \* observations and counters

hostStore == <<hostFiles, hostSidecar, hostWrites>>
hostVars == <<hostSetup, hostFiles, hostSidecar, hostMeta, hostCalls, hostWrites, hostRelay,
              hostState, hostSeen, hostHistory>>

NoHostCall == [at |-> "none", kind |-> "write", path |-> CHOOSE p \in HostPaths : TRUE, rev |-> 0]

\* refreshMetaCache: the format before environments is a plain map, and what cannot be
\* read counts as nothing.
Readable(sidecar) ==
  CASE sidecar.format = "current" -> sidecar.meta
    [] sidecar.format = "legacy" -> [sidecar.meta EXCEPT !.env = 0]
    [] OTHER -> NoMeta

\* writeInitial
InitialFiles == [p \in HostPaths |-> IF p \in hostSetup.files THEN 1 ELSE 0]

HostInit ==
  /\ hostSetup \in HostSetups
  /\ hostFiles = InitialFiles
  /\ hostSidecar = [format |-> hostSetup.format, meta |-> hostSetup.meta]
  /\ hostMeta = Readable(hostSidecar)
  /\ hostCalls = [c \in HostCallers |-> NoHostCall]
  /\ hostWrites = <<>> /\ hostRelay = {}
  /\ hostState = [open |-> TRUE, mounted |-> TRUE]
  /\ hostSeen = [l \in {} |-> hostFiles]
  /\ hostHistory = [calls |-> 0, remotes |-> 0, faults |-> 0, lost |-> FALSE, untold |-> {},
                    local |-> {}, declared |-> {}]

Subscribers == DOMAIN hostSeen
\* captureRaw sends the sidecar past a policy; capturePolicyRaw has no way past it.
SourceRefused == hostSetup.face # "raw"
SidecarRefused == hostSetup.face = "firstPolicy"
HostGoes(c, at) == hostCalls' = [hostCalls EXCEPT ![c].at = at]
HostEnds(c) == hostCalls' = [hostCalls EXCEPT ![c] = NoHostCall]

\* notify: every listener is told, whatever another one throws, and looks at the file.
Notify(p) ==
  /\ hostSeen' = [l \in Subscribers |-> [hostSeen[l] EXCEPT ![p] = hostFiles[p]]]
  /\ hostHistory' = [hostHistory EXCEPT !.untold = @ \ {p}]
----------------------------------------------------------------------------
(* Calls, up to their first await. *)

CallBegins(c, call) ==
  /\ hostCalls[c].at = "none" /\ hostHistory.calls < HostCalls
  /\ hostCalls' = [hostCalls EXCEPT ![c] = call]
  /\ hostHistory' = [hostHistory EXCEPT !.calls = @ + 1]
  /\ UNCHANGED <<hostSetup, hostStore, hostRelay, hostState, hostSeen>>

\* writeFile; ensureParent comes first.
HostWriteFile(c, p) ==
  /\ CallBegins(c, [at |-> "parent", kind |-> "write", path |-> p, rev |-> hostHistory.calls + 2])
  /\ UNCHANGED hostMeta

HostUnlink(c, p) ==
  /\ CallBegins(c, [at |-> "file", kind |-> "unlink", path |-> p, rev |-> 0])
  /\ UNCHANGED hostMeta

\* setMetadata: a patch that leaves nothing removes the key.
SetMetadata(c, p, some) ==
  /\ CallBegins(c, [at |-> "metaDir", kind |-> "meta", path |-> p, rev |-> 0])
  /\ hostMeta' = [hostMeta EXCEPT !.files = IF some THEN @ \cup {p} ELSE @ \ {p}]

\* setEnvironment, setMode.
SetEnvironment(c, env) ==
  /\ CallBegins(c, [NoHostCall EXCEPT !.at = "metaDir", !.kind = "env"])
  /\ hostMeta' = [hostMeta EXCEPT !.env = env]
----------------------------------------------------------------------------
(* The source files. *)

\* A mkdir that fails is ignored.
ParentEnsured(c) ==
  /\ hostCalls[c].at = "parent"
  /\ HostGoes(c, "file")
  /\ UNCHANGED <<hostSetup, hostStore, hostMeta, hostRelay, hostState, hostSeen, hostHistory>>

\* The write or the removal reaches the filesystem.
FileLands(c) ==
  LET call == hostCalls[c] IN
  /\ call.at = "file" /\ ~SourceRefused /\ hostState.mounted
  /\ call.kind = "unlink" => hostFiles[call.path] # 0
  /\ hostFiles' = [hostFiles EXCEPT ![call.path] = call.rev]
  /\ hostHistory' = [hostHistory EXCEPT
       !.local = IF call.kind = "write" THEN @ \cup {call.rev} ELSE @, !.untold = @ \cup {call.path}]
  /\ HostGoes(c, "landed")
  /\ UNCHANGED <<hostSetup, hostSidecar, hostMeta, hostWrites, hostRelay, hostState, hostSeen>>

\* The policy refuses it, the file is not there, the mount is gone: the call rejects.
FileRefused(c) ==
  LET call == hostCalls[c] IN
  /\ call.at = "file"
  /\ \/ SourceRefused \/ ~hostState.mounted
     \/ call.kind = "unlink" /\ hostFiles[call.path] = 0
  /\ HostEnds(c)
  /\ UNCHANGED <<hostSetup, hostStore, hostMeta, hostRelay, hostState, hostSeen, hostHistory>>

\* writeFile tells the subscribers, then the host's provenance recorder, which outlives
\* the handle.
Wrote(c) ==
  LET call == hostCalls[c] IN
  /\ call.at = "landed" /\ call.kind = "write"
  /\ hostSeen' = [l \in Subscribers |-> [hostSeen[l] EXCEPT ![call.path] = hostFiles[call.path]]]
  /\ hostHistory' = [hostHistory EXCEPT !.declared = @ \cup {call.rev}, !.untold = @ \ {call.path}]
  /\ HostEnds(c)
  /\ UNCHANGED <<hostSetup, hostStore, hostMeta, hostRelay, hostState>>

\* unlink drops the metadata of the file, if it has any by now.
Unlinked(c) ==
  LET call == hostCalls[c] IN
  /\ call.at = "landed" /\ call.kind = "unlink"
  /\ hostMeta' = [hostMeta EXCEPT !.files = @ \ {call.path}]
  /\ HostGoes(c, IF call.path \in hostMeta.files THEN "metaDir" ELSE "tell")
  /\ UNCHANGED <<hostSetup, hostStore, hostRelay, hostState, hostSeen, hostHistory>>

\* unlink and setMetadata tell the subscribers last; setEnvironment and setMode nobody.
Tells(c) ==
  /\ hostCalls[c].at = "tell"
  /\ IF hostCalls[c].kind = "env" THEN UNCHANGED <<hostSeen, hostHistory>>
     ELSE Notify(hostCalls[c].path)
  /\ HostEnds(c)
  /\ UNCHANGED <<hostSetup, hostStore, hostMeta, hostRelay, hostState>>
----------------------------------------------------------------------------
(* persistMeta. *)

\* Seeded fault: a sidecar write is made only if none is on its way.
MetaDirEnsured_Coalesces(c) ==
  /\ hostCalls[c].at = "metaDir"
  /\ IF hostWrites = <<>>
       THEN hostWrites' = <<[call |-> c, meta |-> hostMeta]>> /\ HostGoes(c, "sidecar")
       ELSE HostGoes(c, "tell") /\ UNCHANGED hostWrites
  /\ UNCHANGED <<hostSetup, hostFiles, hostSidecar, hostMeta, hostRelay, hostState, hostSeen,
                 hostHistory>>

\* ensureMetaDir is done: the sidecar is put together from what the handle holds now.
MetaDirEnsured(c) ==
  /\ hostCalls[c].at = "metaDir"
  /\ hostWrites' = Append(hostWrites, [call |-> c, meta |-> hostMeta])
  /\ HostGoes(c, "sidecar")
  /\ UNCHANGED <<hostSetup, hostFiles, hostSidecar, hostMeta, hostRelay, hostState, hostSeen,
                 hostHistory>>

SidecarLands ==
  /\ hostWrites # <<>> /\ ~SidecarRefused /\ hostState.mounted
  /\ hostSidecar' = [format |-> "current", meta |-> Head(hostWrites).meta]
  /\ hostWrites' = Tail(hostWrites)
  /\ HostGoes(Head(hostWrites).call, "tell")
  /\ hostHistory' = [hostHistory EXCEPT !.lost = FALSE]
  /\ UNCHANGED <<hostSetup, hostFiles, hostMeta, hostRelay, hostState, hostSeen>>

\* The call rejects after its change was made, and tells nobody of it.
SidecarFails ==
  /\ hostWrites # <<>>
  /\ \/ SidecarRefused /\ UNCHANGED hostHistory
     \/ ~hostState.mounted /\ UNCHANGED hostHistory
     \/ /\ ~SidecarRefused /\ hostState.mounted /\ hostHistory.faults < HostRemotes
        /\ hostHistory' = [hostHistory EXCEPT !.lost = TRUE, !.faults = @ + 1]
  /\ hostWrites' = Tail(hostWrites)
  /\ HostEnds(Head(hostWrites).call)
  /\ UNCHANGED <<hostSetup, hostFiles, hostSidecar, hostMeta, hostRelay, hostState, hostSeen>>
----------------------------------------------------------------------------
(* The preview, the subscribers, the end. *)

\* The preview writes through its port; the host learns of it afterwards.
RemoteWrite(p) ==
  /\ hostHistory.remotes < HostRemotes /\ hostState.mounted
  /\ hostFiles' = [hostFiles EXCEPT ![p] = 100 + hostHistory.remotes]
  /\ hostRelay' = hostRelay \cup {p}
  /\ hostHistory' = [hostHistory EXCEPT !.remotes = @ + 1, !.untold = @ \cup {p}]
  /\ UNCHANGED <<hostSetup, hostSidecar, hostMeta, hostCalls, hostWrites, hostState, hostSeen>>

HandleRemoteChange(p) ==
  /\ p \in hostRelay
  /\ hostRelay' = hostRelay \ {p}
  /\ IF hostState.open THEN Notify(p) ELSE UNCHANGED <<hostSeen, hostHistory>>
  /\ UNCHANGED <<hostSetup, hostStore, hostMeta, hostCalls, hostState>>

\* onChange, which also takes subscribers after dispose; one starts from the files there are.
OnChange(l) ==
  /\ l \in HostListeners \ Subscribers
  /\ hostSeen' = [m \in Subscribers \cup {l} |-> IF m = l THEN hostFiles ELSE hostSeen[m]]
  /\ UNCHANGED <<hostSetup, hostStore, hostMeta, hostCalls, hostRelay, hostState, hostHistory>>

HostUnsubscribe(l) ==
  /\ l \in Subscribers
  /\ hostSeen' = [m \in Subscribers \ {l} |-> hostSeen[m]]
  /\ UNCHANGED <<hostSetup, hostStore, hostMeta, hostCalls, hostRelay, hostState, hostHistory>>

\* dispose: only the mount the handle made goes with it; calls in flight go on.
HostDispose ==
  /\ hostState.open
  /\ hostState' = [open |-> FALSE, mounted |-> hostSetup.made = "adopted"]
  /\ hostSeen' = [l \in {} |-> hostFiles]
  /\ UNCHANGED <<hostSetup, hostStore, hostMeta, hostCalls, hostRelay, hostHistory>>

HostNext ==
  \/ SidecarLands \/ SidecarFails \/ HostDispose
  \/ \E l \in HostListeners : OnChange(l) \/ HostUnsubscribe(l)
  \/ \E p \in HostPaths : RemoteWrite(p) \/ HandleRemoteChange(p)
  \/ \E c \in HostCallers :
       \/ \E p \in HostPaths : \/ HostWriteFile(c, p) \/ HostUnlink(c, p)
                               \/ \E some \in BOOLEAN : SetMetadata(c, p, some)
       \/ \E env \in 1 .. 2 : SetEnvironment(c, env)
       \/ ParentEnsured(c) \/ FileLands(c) \/ FileRefused(c) \/ Wrote(c) \/ Unlinked(c)
       \/ Tells(c) \/ MetaDirEnsured(c)

HostSpec == HostInit /\ [][HostNext]_hostVars
----------------------------------------------------------------------------
(* Properties. *)

HostAtRest == hostRelay = {} /\ \A c \in HostCallers : hostCalls[c].at = "none"

\* Once calls and relays are done, a page that adopted the filesystem now would read the
\* metadata this handle holds, whatever order the calls overlapped in: unless the last
\* sidecar write failed, or a policy face that came first refuses the sidecar
\* (SandpackFS.ts:634, :214).
SidecarInSync ==
  HostAtRest /\ hostState.mounted /\ ~hostHistory.lost /\ ~SidecarRefused
    => Readable(hostSidecar) = hostMeta

\* ... and every subscriber has seen every file as it is, except one whose removal was
\* not announced because its metadata could not be persisted (SandpackFS.ts:426). After
\* dispose, changes of the preview are not told.
SubscribersInSync ==
  HostAtRest /\ hostState.open => \A l \in Subscribers, p \in HostPaths :
    hostSeen[l][p] = hostFiles[p] \/ (p \in hostHistory.untold /\ hostFiles[p] = 0)

\* Whoever wrote through the handle is declared to the host, even when the handle is gone
\* by the time the write lands.
WritesAreDeclared ==
  HostAtRest => hostHistory.declared = hostHistory.local

HostFilesInSync == SidecarInSync /\ SubscribersInSync /\ WritesAreDeclared
============================================================================
