------------------------------ MODULE SelfHost ------------------------------
(***************************************************************************)
(* The modules a preview document does not get from the CDN, put under     *)
(* /node_modules at the start of its first compile (bundler.ts,            *)
(* registryResolvedModules.ts, sdkIntegrity.ts): the shims of Node's       *)
(* modules, and a module that is fetched from its own versioned origin at  *)
(* the version package.json asks for, and checked against the hashes the   *)
(* host pinned.  A first compile that fails starts over when a file        *)
(* changes: with no modules, but with what it wrote.                       *)
(*                                                                         *)
(* What a fetch answers, after its retries and out of which cache, is      *)
(* Transport's subject: here it is the file published, another one, or     *)
(* none.                                                                   *)
(***************************************************************************)
EXTENDS Naturals, FiniteSets

CONSTANTS
  SelfShims,      \* the names preloadModules registers
  SelfFiles,      \* the files a release may have
  SelfScripts,    \* those that are modules
  SelfReleases,   \* SelfReleases[version]: the files of a published release
  SelfDefault,    \* DEFAULT_SDK_VERSION
  SelfFloor,      \* SELF_HOST_FLOORS
  SelfSays,       \* what package.json may say of the module
  SelfHosts,      \* the pins a host may send: for all of its versions or none
  SelfLoads,      \* bound on first compiles
  SelfEdits,      \* bound on edits of package.json
  SelfFaults      \* bound on fetches answered by another file or not at all

\* package.json names a version, or something else than one, or does not name the module, or
\* cannot be read or parsed.
Saying == [kind : {"version", "other", "none", "broken"}, version : Nat]
Wiring == [wired : BOOLEAN, pins : SUBSET Nat]

ASSUME SelfAssumption ==
  /\ SelfScripts \subseteq SelfFiles /\ "manifest" \notin SelfFiles
  /\ DOMAIN SelfReleases \subseteq Nat
  /\ \A v \in DOMAIN SelfReleases : SelfReleases[v] \subseteq SelfFiles
  /\ SelfDefault \in Nat /\ SelfFloor \in 0..SelfDefault
  /\ SelfSays \subseteq Saying /\ SelfHosts \subseteq Wiring
  /\ \A host \in SelfHosts : host.pins \subseteq DOMAIN SelfReleases
  /\ {SelfLoads, SelfEdits, SelfFaults} \subseteq Nat

VARIABLES
  selfHost,     \* setSdkIntegrity
  selfJson,     \* what package.json says
  selfDisk,     \* the module's directory in /node_modules
  selfMods,     \* Bundler.modules: the shims' and the module's
  selfLoad      \* what the compile is at, and the bounds

selfVars == <<selfHost, selfJson, selfDisk, selfMods, selfLoad>>

\* A file: of which release, and whether it is what was published. Every manifest has a list.
NoFile == [of |-> 0, genuine |-> FALSE, there |-> FALSE, lists |-> {}]
File(v, genuine, lists) == [of |-> v, genuine |-> genuine, there |-> TRUE, lists |-> lists]
SelfPaths == SelfFiles \cup {"manifest"}

\* setupModuleMounts: what is written under /node_modules begins empty and outlives the loads.
NoFiles == [f \in SelfPaths |-> NoFile]

SelfInit ==
  /\ selfHost \in SelfHosts
  /\ selfJson \in SelfSays
  /\ selfDisk = NoFiles
  /\ selfMods = [shims |-> {}, files |-> NoFiles]
  /\ selfLoad = [at |-> "shims", version |-> 0, said |-> selfJson, files |-> NoFiles, todo |-> {},
                 loads |-> 1, edits |-> 0, faults |-> 0]

Fails == selfLoad' = [selfLoad EXCEPT !.at = "failed"]
Faulty == selfLoad.faults < SelfFaults

\* addPreloadedModule: the shims are registered at the same time.
Preload(shim) ==
  /\ selfLoad.at = "shims" /\ shim \notin selfMods.shims
  /\ selfMods' = [selfMods EXCEPT !.shims = @ \cup {shim}]
  /\ UNCHANGED <<selfHost, selfJson, selfDisk, selfLoad>>

\* resolveSelfHostVersion: the default only for an app that asks for no version.
VersionFor(said) == IF said.kind = "version" THEN said.version ELSE SelfDefault
Refused(said) == said.kind = "other" \/ VersionFor(said) < SelfFloor

\* decideIntegrity: a host that pins versions must have pinned this one.
FailsClosed(v) == selfHost.wired /\ v \notin selfHost.pins

\* addLocalModules reads package.json and decides, or fails closed.
ResolveVersion ==
  /\ selfLoad.at = "shims" /\ selfMods.shims = SelfShims
  /\ LET v == VersionFor(selfJson) IN
       selfLoad' = [selfLoad EXCEPT !.said = selfJson, !.version = v, !.files = NoFiles,
                      !.at = IF Refused(selfJson) \/ FailsClosed(v) THEN "failed" ELSE "manifest"]
  /\ UNCHANGED <<selfHost, selfJson, selfDisk, selfMods>>

Published(v, f) == v \in DOMAIN SelfReleases /\ f \in SelfReleases[v] \cup {"manifest"}

\* The answer to the fetch of a file: the one published, or with a fault another one.
Answers(f, genuine) == IF genuine THEN Published(selfLoad.version, f) ELSE Faulty
Count(genuine) == selfLoad.faults + (IF genuine THEN 0 ELSE 1)

\* fetchVendoredModule: the manifest first, then every file it lists, at the same time.
FetchManifest(genuine, lists) ==
  /\ selfLoad.at = "manifest" /\ Answers("manifest", genuine)
  /\ genuine => lists = SelfReleases[selfLoad.version]
  /\ selfLoad' = [selfLoad EXCEPT !.at = "files", !.todo = lists, !.faults = Count(genuine),
                    !.files["manifest"] = File(selfLoad.version, genuine, lists)]
  /\ UNCHANGED <<selfHost, selfJson, selfDisk, selfMods>>

FetchFile(f, genuine) ==
  /\ selfLoad.at = "files" /\ f \in selfLoad.todo /\ Answers(f, genuine)
  /\ selfLoad' = [selfLoad EXCEPT !.todo = @ \ {f}, !.faults = Count(genuine),
                    !.files[f] = File(selfLoad.version, genuine, {})]
  /\ UNCHANGED <<selfHost, selfJson, selfDisk, selfMods>>

\* A fetch fails: there is no such file, or a fault; or a manifest that is none.
FetchFails ==
  /\ \/ /\ selfLoad.at = "manifest"
        /\ Published(selfLoad.version, "manifest") => Faulty
     \/ /\ selfLoad.at = "files" /\ selfLoad.todo # {}
        /\ (\A f \in selfLoad.todo : Published(selfLoad.version, f)) => Faulty
  /\ Fails
  /\ UNCHANGED <<selfHost, selfJson, selfDisk, selfMods>>

\* Seeded fault: the files only.
Pins_Files(v) == SelfReleases[v]

\* What the host pinned of a release: its files, and the manifest, so that nothing can be
\* added to it.
Pins(v) == SelfReleases[v] \cup {"manifest"}

\* verifyVendoredFiles: every pinned file is there and is what was pinned.
Verified(files) ==
  selfHost.wired => \A f \in Pins(selfLoad.version) : files[f].there /\ files[f].genuine

\* Before anything is written, all that was fetched is verified.
Verify ==
  /\ selfLoad.at = "files" /\ selfLoad.todo = {}
  /\ IF Verified(selfLoad.files)
       THEN selfLoad' = [selfLoad EXCEPT !.at = "writing",
                           !.todo = {f \in SelfPaths : selfLoad.files[f].there}]
       ELSE Fails
  /\ UNCHANGED <<selfHost, selfJson, selfDisk, selfMods>>

\* A file is written, and registered if it is a module.
WriteFile(f) ==
  /\ selfLoad.at = "writing" /\ f \in selfLoad.todo
  /\ selfDisk' = [selfDisk EXCEPT ![f] = selfLoad.files[f]]
  /\ selfMods' = IF f \in SelfScripts THEN [selfMods EXCEPT !.files[f] = selfLoad.files[f]] ELSE selfMods
  /\ selfLoad' = [selfLoad EXCEPT !.todo = @ \ {f}]
  /\ UNCHANGED <<selfHost, selfJson>>

\* The compile goes on, and the document boots or the compile fails elsewhere.
SelfLoaded ==
  /\ selfLoad.at = "writing" /\ selfLoad.todo = {}
  /\ selfLoad' = [selfLoad EXCEPT !.at = "loaded"]
  /\ UNCHANGED <<selfHost, selfJson, selfDisk, selfMods>>

FailsLater ==
  /\ selfLoad.at = "loaded" /\ Fails
  /\ UNCHANGED <<selfHost, selfJson, selfDisk, selfMods>>

EditSelfJson(said) ==
  /\ selfLoad.edits < SelfEdits /\ said # selfJson
  /\ selfJson' = said
  /\ selfLoad' = [selfLoad EXCEPT !.edits = @ + 1]
  /\ UNCHANGED <<selfHost, selfDisk, selfMods>>

\* resetModules: a first compile starts over without modules.
ResetModules == [shims |-> {}, files |-> NoFiles]

LoadAgain ==
  /\ selfLoad.at = "failed" /\ selfLoad.loads < SelfLoads
  /\ selfMods' = ResetModules
  /\ selfLoad' = [selfLoad EXCEPT !.at = "shims", !.loads = @ + 1, !.todo = {}]
  /\ UNCHANGED <<selfHost, selfJson, selfDisk>>

SelfNext ==
  \/ \E shim \in SelfShims : Preload(shim)
  \/ ResolveVersion \/ FetchFails \/ Verify \/ SelfLoaded \/ FailsLater \/ LoadAgain
  \/ \E genuine \in BOOLEAN, lists \in SUBSET SelfFiles : FetchManifest(genuine, lists)
  \/ \E f \in SelfFiles, genuine \in BOOLEAN : FetchFile(f, genuine)
  \/ \E f \in SelfPaths : WriteFile(f)
  \/ \E said \in SelfSays : EditSelfJson(said)

SelfSpec == SelfInit /\ [][SelfNext]_selfVars
----------------------------------------------------------------------------
(* Properties. *)

IsRelease(files, v, names) ==
  \A f \in names : files[f].there = (f \in SelfReleases[v]) /\ (files[f].there => files[f].of = v)

\* When the module has been loaded, the modules registered are those of one release, the one
\* package.json asked for or the default, and its files are on disk, whatever an earlier load
\* wrote; and if the host pins versions they are what it pinned. When it pins versions,
\* no load ever registers or writes a file that is not.
RunsTheRelease ==
  /\ selfLoad.at = "loaded" =>
       LET v == selfLoad.version IN
       /\ selfLoad.said.kind # "other" /\ v = VersionFor(selfLoad.said) /\ v >= SelfFloor
       /\ selfMods.shims = SelfShims
       /\ \A f \in SelfPaths :
            selfMods.files[f].there => selfMods.files[f] = selfDisk[f] /\ selfMods.files[f].of = v
       /\ selfHost.wired \/ selfLoad.files["manifest"].genuine =>
            /\ IsRelease(selfMods.files, v, SelfScripts)
            /\ \A f \in SelfReleases[v] : selfDisk[f].there /\ selfDisk[f].of = v
  /\ selfHost.wired => \A f \in SelfPaths :
       /\ selfMods.files[f].there => selfMods.files[f].genuine
       /\ selfDisk[f].there => selfDisk[f].genuine
=============================================================================
