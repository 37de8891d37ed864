--------------------------- MODULE ServicesProofs ---------------------------
(***************************************************************************)
(* Proofs about what a preview is served from: HostFiles, for any paths,   *)
(* callers, listeners and ways to make the handle; PackageFiles, for any   *)
(* importers, directories and releases; HotModules, for any sources and    *)
(* scripts that the entry reaches; SelfHost, for any releases, pins and    *)
(* faults of the registry.  Nothing bounds the constants.                  *)
(***************************************************************************)
EXTENDS HostFiles, PackageFiles, HotModules, SelfHost, FiniteSetTheorems, TLAPS

-----------------------------------------------------------------------------
(* The inductive invariant *)

CallStage == {"none", "parent", "file", "landed", "metaDir", "sidecar", "tell"}
HostCall == [at : CallStage, kind : {"write", "unlink", "meta", "env"},
             path : HostPaths \cup {NoHostCall.path}, rev : Nat]
\* A call at a stage of the source files has a file to write or to remove.
ProperCall == {call \in HostCall :
                 /\ call.at \in {"parent", "file", "landed"} => call.kind \in {"write", "unlink"}
                 /\ call.kind = "unlink" => call.rev = 0
                 /\ call.at # "none" /\ call.kind # "env" => call.path \in HostPaths}
SidecarWrite == [call : HostCallers, meta : HostMeta]
Contents == [HostPaths -> Nat]

Typed ==
  /\ hostSetup \in HostSetup
  /\ hostFiles \in Contents
  /\ hostSidecar \in [format : {"current", "legacy", "broken"}, meta : HostMeta]
  /\ hostMeta \in HostMeta
  /\ hostCalls \in [HostCallers -> ProperCall]
  /\ hostWrites \in Seq(SidecarWrite)
  /\ hostRelay \in SUBSET HostPaths
  /\ hostState \in [open : BOOLEAN, mounted : BOOLEAN]
  /\ Subscribers \subseteq HostListeners /\ hostSeen \in [Subscribers -> Contents]
  /\ hostHistory \in [calls : Nat, remotes : Nat, faults : Nat, lost : BOOLEAN,
                      untold : SUBSET HostPaths, local : SUBSET Nat, declared : SUBSET Nat]

Landed(c) == hostCalls[c].at = "landed" /\ hostCalls[c].kind = "write"

\* The calls whose sidecar writes are on their way wait for them, each for its own; an
\* open handle has its mount.
Orderly ==
  /\ \A i \in 1 .. Len(hostWrites) : hostCalls[hostWrites[i].call].at = "sidecar"
  /\ \A i, j \in 1 .. Len(hostWrites) : hostWrites[i].call = hostWrites[j].call => i = j
  /\ hostState.open => hostState.mounted

\* Someone has still to write what the handle holds, or the last who did so is on its way.
SidecarFollows ==
  \/ \E c \in HostCallers : hostCalls[c].at = "metaDir"
  \/ /\ hostWrites # <<>> /\ hostWrites[Len(hostWrites)].meta = hostMeta
  \/ /\ hostWrites = <<>>
     /\ \/ Readable(hostSidecar) = hostMeta
        \/ hostHistory.lost \/ ~hostState.mounted \/ SidecarRefused

\* Whoever has not seen a file will be told by a call or a relay, unless it is gone.
SubscribersFollow ==
  hostState.open => \A l \in Subscribers, p \in HostPaths :
    \/ hostSeen[l][p] = hostFiles[p]
    \/ p \in hostRelay
    \/ \E c \in HostCallers : Landed(c) /\ hostCalls[c].path = p
    \/ p \in hostHistory.untold /\ hostFiles[p] = 0

DeclaredFollows ==
  hostHistory.local = hostHistory.declared \cup {hostCalls[c].rev : c \in {d \in HostCallers : Landed(d)}}

HostInv == Orderly /\ SidecarFollows /\ SubscribersFollow /\ DeclaredFollows

-----------------------------------------------------------------------------
(* Types *)

LEMMA NoCallTyped == NoHostCall \in ProperCall
BY DEF NoHostCall, ProperCall, HostCall, CallStage

LEMMA ReadableTyped ==
  ASSUME NEW sidecar \in [format : {"current", "legacy", "broken"}, meta : HostMeta]
  PROVE  Readable(sidecar) \in HostMeta
BY DEF Readable, HostMeta, NoMeta

LEMMA InitTyped == HostInit => Typed
<1> SUFFICES ASSUME HostInit PROVE Typed
  OBVIOUS
<1>1. hostSetup \in HostSetup
  BY HostAssumption DEF HostInit, InitialFiles
<1>2. hostSidecar \in [format : {"current", "legacy", "broken"}, meta : HostMeta]
  BY <1>1 DEF HostInit, HostSetup
<1>3. hostMeta \in HostMeta
  BY <1>2, ReadableTyped DEF HostInit
<1>4. hostFiles \in Contents /\ hostCalls \in [HostCallers -> ProperCall]
  BY NoCallTyped DEF HostInit, InitialFiles, Contents
<1>5. Subscribers = {} /\ hostSeen \in [Subscribers -> Contents]
  BY DEF HostInit, InitialFiles, Subscribers
<1>6. hostWrites \in Seq(SidecarWrite) /\ hostRelay = {} /\ hostState \in [open : BOOLEAN, mounted : BOOLEAN]
  BY DEF HostInit, InitialFiles
<1>7. hostHistory \in [calls : Nat, remotes : Nat, faults : Nat, lost : BOOLEAN,
                       untold : SUBSET HostPaths, local : SUBSET Nat, declared : SUBSET Nat]
  BY DEF HostInit, InitialFiles
<1>. QED BY <1>1, <1>2, <1>3, <1>4, <1>5, <1>6, <1>7 DEF Typed

\* A call goes to a stage its kind has, or ends.
LEMMA CallGoes ==
  ASSUME Typed, NEW c \in HostCallers, NEW at \in CallStage, HostGoes(c, at),
         hostCalls[c].at # "none",
         at \in {"file", "landed"} => hostCalls[c].kind \in {"write", "unlink"}, at # "parent"
  PROVE  /\ hostCalls' \in [HostCallers -> ProperCall]
         /\ \A d \in HostCallers : d # c => hostCalls'[d] = hostCalls[d]
         /\ hostCalls'[c] = [hostCalls[c] EXCEPT !.at = at]
<1>1. hostCalls' = [hostCalls EXCEPT ![c].at = at] /\ hostCalls \in [HostCallers -> ProperCall]
  BY DEF HostGoes, Typed
<1>2. [hostCalls[c] EXCEPT !.at = at] \in ProperCall
  BY <1>1 DEF ProperCall, HostCall
<1>. QED BY <1>1, <1>2

LEMMA CallEnds ==
  ASSUME Typed, NEW c \in HostCallers, HostEnds(c)
  PROVE  /\ hostCalls' \in [HostCallers -> ProperCall]
         /\ \A d \in HostCallers : d # c => hostCalls'[d] = hostCalls[d]
         /\ hostCalls'[c] = NoHostCall
BY NoCallTyped DEF HostEnds, Typed

LEMMA BeginsTyped ==
  ASSUME Typed, NEW c \in HostCallers, NEW call \in ProperCall, CallBegins(c, call), hostMeta' \in HostMeta
  PROVE  Typed'
<1>1. hostCalls' \in [HostCallers -> ProperCall]
  BY DEF CallBegins, Typed
<1>2. hostHistory' \in [calls : Nat, remotes : Nat, faults : Nat, lost : BOOLEAN,
                        untold : SUBSET HostPaths, local : SUBSET Nat, declared : SUBSET Nat]
  BY SMTT(30) DEF CallBegins, Typed
<1>. QED BY <1>1, <1>2 DEF CallBegins, Typed, hostStore, Subscribers

\* Telling every subscriber of a file.
LEMMA ToldTyped ==
  ASSUME Typed, NEW p \in HostPaths,
         hostSeen' = [l \in Subscribers |-> [hostSeen[l] EXCEPT ![p] = hostFiles[p]]]
  PROVE  Subscribers' = Subscribers /\ hostSeen' \in [Subscribers -> Contents]
<1>1. \A l \in Subscribers : [hostSeen[l] EXCEPT ![p] = hostFiles[p]] \in Contents
  BY DEF Typed, Contents
<1>. QED BY <1>1 DEF Subscribers

LEMMA WriteTyped ==
  ASSUME Typed, NEW i \in 1 .. Len(hostWrites)
  PROVE  hostWrites[i].call \in HostCallers /\ hostWrites[i].meta \in HostMeta
<1>1. hostWrites \in Seq(SidecarWrite)
  BY DEF Typed
<1>2. hostWrites[i] \in SidecarWrite
  BY <1>1
<1>. QED BY <1>2 DEF SidecarWrite

LEMMA NextTyped == Typed /\ Orderly /\ HostNext => Typed'
<1> SUFFICES ASSUME Typed, Orderly, HostNext PROVE Typed'
  OBVIOUS
<1> DEFINE History == [calls : Nat, remotes : Nat, faults : Nat, lost : BOOLEAN,
                       untold : SUBSET HostPaths, local : SUBSET Nat, declared : SUBSET Nat]
<1>1. ASSUME NEW c \in HostCallers, NEW p \in HostPaths, HostWriteFile(c, p) PROVE Typed'
  <2>1. [at |-> "parent", kind |-> "write", path |-> p, rev |-> hostHistory.calls + 2] \in ProperCall
    BY DEF ProperCall, HostCall, CallStage, Typed
  <2>. QED BY <1>1, <2>1, BeginsTyped DEF HostWriteFile, Typed
<1>2. ASSUME NEW c \in HostCallers, NEW p \in HostPaths, HostUnlink(c, p) PROVE Typed'
  <2>1. [at |-> "file", kind |-> "unlink", path |-> p, rev |-> 0] \in ProperCall
    BY DEF ProperCall, HostCall, CallStage
  <2>. QED BY <1>2, <2>1, BeginsTyped DEF HostUnlink, Typed
<1>3. ASSUME NEW c \in HostCallers, NEW p \in HostPaths, NEW some \in BOOLEAN, SetMetadata(c, p, some)
      PROVE Typed'
  <2>1. [at |-> "metaDir", kind |-> "meta", path |-> p, rev |-> 0] \in ProperCall
    BY DEF ProperCall, HostCall, CallStage
  <2>2. hostMeta' \in HostMeta
    BY <1>3 DEF SetMetadata, Typed, HostMeta
  <2>. QED BY <1>3, <2>1, <2>2, BeginsTyped DEF SetMetadata
<1>4. ASSUME NEW c \in HostCallers, NEW env \in 1 .. 2, SetEnvironment(c, env) PROVE Typed'
  <2> DEFINE call == [NoHostCall EXCEPT !.at = "metaDir", !.kind = "env"]
  <2>1. call \in ProperCall
    BY NoCallTyped DEF ProperCall, HostCall, CallStage
  <2>2. hostMeta' \in HostMeta
    BY <1>4 DEF SetEnvironment, Typed, HostMeta
  <2>3. CallBegins(c, call)
    BY <1>4 DEF SetEnvironment
  <2> HIDE DEF call
  <2>. QED BY <2>1, <2>2, <2>3, BeginsTyped
<1>5. ASSUME NEW c \in HostCallers, ParentEnsured(c) PROVE Typed'
  <2>1. hostCalls' \in [HostCallers -> ProperCall]
    BY <1>5, CallGoes DEF ParentEnsured, CallStage, Typed, ProperCall
  <2>. QED BY <1>5, <2>1 DEF ParentEnsured, Typed, hostStore, Subscribers
<1>6. ASSUME NEW c \in HostCallers, FileLands(c) PROVE Typed'
  <2>1. PICK call \in ProperCall : call = hostCalls[c]
    BY DEF Typed
  <2>2. call.at = "file" /\ call.kind \in {"write", "unlink"} /\ call.path \in HostPaths /\ call.rev \in Nat
    BY <1>6, <2>1 DEF FileLands, ProperCall, HostCall
  <2>3. hostCalls' \in [HostCallers -> ProperCall]
    BY <1>6, <2>1, <2>2, CallGoes DEF FileLands, CallStage
  <2>4. hostFiles' \in Contents
    BY <1>6, <2>1, <2>2 DEF FileLands, Typed, Contents
  <2>5. hostHistory' \in History
    BY <1>6, <2>1, <2>2 DEF FileLands, Typed
  <2>. QED BY <1>6, <2>3, <2>4, <2>5 DEF FileLands, Typed, Subscribers
<1>7. ASSUME NEW c \in HostCallers, FileRefused(c) PROVE Typed'
  <2>1. hostCalls' \in [HostCallers -> ProperCall]
    BY <1>7, CallEnds DEF FileRefused
  <2>. QED BY <1>7, <2>1 DEF FileRefused, Typed, hostStore, Subscribers
<1>8. ASSUME NEW c \in HostCallers, Wrote(c) PROVE Typed'
  <2>1. PICK call \in ProperCall : call = hostCalls[c]
    BY DEF Typed
  <2>2. call.at = "landed" /\ call.kind = "write" /\ call.path \in HostPaths /\ call.rev \in Nat
    BY <1>8, <2>1 DEF Wrote, ProperCall, HostCall
  <2>3. hostCalls' \in [HostCallers -> ProperCall]
    BY <1>8, CallEnds DEF Wrote
  <2>4. Subscribers' = Subscribers /\ hostSeen' \in [Subscribers -> Contents]
    BY <1>8, <2>1, <2>2, ToldTyped DEF Wrote
  <2>5. hostHistory' \in History
    BY <1>8, <2>1, <2>2 DEF Wrote, Typed
  <2>. QED BY <1>8, <2>3, <2>4, <2>5 DEF Wrote, Typed, hostStore
<1>9. ASSUME NEW c \in HostCallers, Unlinked(c) PROVE Typed'
  <2>1. hostCalls' \in [HostCallers -> ProperCall]
    <3>1. hostCalls[c].at = "landed" /\ \E at \in {"metaDir", "tell"} : HostGoes(c, at)
      BY <1>9 DEF Unlinked
    <3>. QED BY <3>1, CallGoes DEF CallStage
  <2>2. hostMeta' \in HostMeta
    BY <1>9 DEF Unlinked, Typed, HostMeta
  <2>. QED BY <1>9, <2>1, <2>2 DEF Unlinked, Typed, hostStore, Subscribers
<1>10. ASSUME NEW c \in HostCallers, Tells(c) PROVE Typed'
  <2>1. hostCalls' \in [HostCallers -> ProperCall]
    BY <1>10, CallEnds DEF Tells
  <2>2. CASE hostCalls[c].kind = "env"
    BY <1>10, <2>1, <2>2 DEF Tells, Typed, hostStore, Subscribers
  <2>3. CASE hostCalls[c].kind # "env"
    <3>1. PICK p \in HostPaths : p = hostCalls[c].path
      BY <1>10, <2>3 DEF Tells, Typed, ProperCall
    <3>2. Notify(p)
      BY <1>10, <2>3, <3>1 DEF Tells
    <3>3. Subscribers' = Subscribers /\ hostSeen' \in [Subscribers -> Contents]
      BY <3>2, ToldTyped DEF Notify
    <3>4. hostHistory' \in History
      BY <3>2 DEF Notify, Typed
    <3>. QED BY <1>10, <2>1, <3>3, <3>4 DEF Tells, Typed, hostStore
  <2>. QED BY <2>2, <2>3
<1>11. ASSUME NEW c \in HostCallers, MetaDirEnsured(c) PROVE Typed'
  <2>1. hostCalls' \in [HostCallers -> ProperCall]
    BY <1>11, CallGoes DEF MetaDirEnsured, CallStage
  <2>2. hostWrites' \in Seq(SidecarWrite)
    BY <1>11 DEF MetaDirEnsured, Typed, SidecarWrite
  <2>. QED BY <1>11, <2>1, <2>2 DEF MetaDirEnsured, Typed, Subscribers
<1>12. CASE SidecarLands \/ SidecarFails
  <2>1. PICK w \in SidecarWrite : w = Head(hostWrites) /\ hostWrites # <<>>
    BY <1>12 DEF SidecarLands, SidecarFails, Typed
  <2>2. hostWrites' = Tail(hostWrites) /\ w.call \in HostCallers /\ w.meta \in HostMeta
    BY <1>12, <2>1 DEF SidecarLands, SidecarFails, SidecarWrite
  <2>5. hostWrites' \in Seq(SidecarWrite)
    BY <2>1, <2>2 DEF Typed
  <2>3. CASE SidecarLands
    <3>1. hostCalls' = [hostCalls EXCEPT ![w.call].at = "tell"]
      BY <2>1, <2>3 DEF SidecarLands, HostGoes
    <3>2. hostCalls[w.call].at = "sidecar"
      BY <2>1 DEF Orderly, Typed
    <3>3. hostCalls' \in [HostCallers -> ProperCall]
      BY <2>2, <3>1, <3>2, CallGoes DEF HostGoes, CallStage
    <3>4. hostSidecar' = [format |-> "current", meta |-> w.meta]
      BY <2>1, <2>3 DEF SidecarLands
    <3>5. hostHistory' \in History
      BY <2>3 DEF SidecarLands, Typed
    <3>6. hostSidecar' \in [format : {"current", "legacy", "broken"}, meta : HostMeta]
      BY <2>2, <3>4
    <3>. QED BY <2>3, <2>5, <3>3, <3>5, <3>6 DEF SidecarLands, Typed, Subscribers
  <2>4. CASE SidecarFails
    <3>1. hostCalls' \in [HostCallers -> ProperCall]
      BY <2>1, <2>2, <2>4, CallEnds DEF SidecarFails
    <3>2. hostHistory' \in History
      <4>1. hostHistory \in History
        BY DEF Typed
      <4>2. hostHistory' = hostHistory \/ hostHistory' = [hostHistory EXCEPT !.lost = TRUE, !.faults = @ + 1]
        BY <2>4 DEF SidecarFails
      <4>3. hostHistory.faults + 1 \in Nat
        BY <4>1
      <4>. QED BY <4>1, <4>2, <4>3
    <3>. QED BY <2>4, <2>5, <3>1, <3>2 DEF SidecarFails, Typed, Subscribers
  <2>. QED BY <1>12, <2>3, <2>4
<1>13. ASSUME NEW p \in HostPaths, RemoteWrite(p) PROVE Typed'
  <2>1. hostHistory' \in History /\ hostRelay' \in SUBSET HostPaths
    <3>1. hostHistory \in History /\ hostRelay \in SUBSET HostPaths
      BY DEF Typed
    <3>2. /\ hostHistory' = [hostHistory EXCEPT !.remotes = @ + 1, !.untold = @ \cup {p}]
          /\ hostRelay' = hostRelay \cup {p}
      BY <1>13 DEF RemoteWrite
    <3>3. hostHistory.remotes + 1 \in Nat /\ hostHistory.untold \cup {p} \in SUBSET HostPaths
      BY <3>1
    <3>. QED BY <3>1, <3>2, <3>3
  <2>2. 100 + hostHistory.remotes \in Nat /\ hostFiles \in Contents
    BY DEF Typed
  <2>3. hostFiles' \in Contents
    BY <1>13, <2>2 DEF RemoteWrite, Contents
  <2>. QED BY <1>13, <2>1, <2>3 DEF RemoteWrite, Typed, Subscribers
<1>14. ASSUME NEW p \in HostPaths, HandleRemoteChange(p) PROVE Typed'
  <2>1. CASE hostState.open
    <3>1. Subscribers' = Subscribers /\ hostSeen' \in [Subscribers -> Contents]
      BY <1>14, <2>1, ToldTyped DEF HandleRemoteChange, Notify
    <3>2. hostHistory' \in History
      BY SMTT(30), <1>14, <2>1 DEF HandleRemoteChange, Notify, Typed
    <3>. QED BY <1>14, <3>1, <3>2 DEF HandleRemoteChange, Typed, hostStore
  <2>2. CASE ~hostState.open
    BY <1>14, <2>2 DEF HandleRemoteChange, Typed, hostStore, Subscribers
  <2>. QED BY <2>1, <2>2
<1>15. ASSUME NEW l \in HostListeners, OnChange(l) \/ HostUnsubscribe(l) PROVE Typed'
  <2>1. Subscribers' \subseteq HostListeners /\ hostSeen' \in [Subscribers' -> Contents]
    BY <1>15 DEF OnChange, HostUnsubscribe, Typed, Subscribers
  <2>. QED BY <1>15, <2>1 DEF OnChange, HostUnsubscribe, Typed, hostStore
<1>16. CASE HostDispose
  <2>1. Subscribers' = {} /\ hostSeen' \in [Subscribers' -> Contents]
    BY <1>16 DEF HostDispose, Subscribers
  <2>. QED BY <1>16, <2>1 DEF HostDispose, Typed, hostStore
<1>. QED BY <1>1, <1>2, <1>3, <1>4, <1>5, <1>6, <1>7, <1>8, <1>9, <1>10, <1>11, <1>12, <1>13, <1>14,
           <1>15, <1>16 DEF HostNext

LEMMA StepTyped == Typed /\ Orderly /\ [HostNext]_hostVars => Typed'
<1>1. Typed /\ UNCHANGED hostVars => Typed'
  BY DEF Typed, hostVars, hostStore, Subscribers
<1>. QED BY <1>1, NextTyped

-----------------------------------------------------------------------------
(* The calls and their sidecar writes *)

\* A step of a call that waits for no sidecar write leaves the writes in order.
LEMMA OthersOrderly ==
  ASSUME Typed, Orderly, NEW c \in HostCallers, hostCalls[c].at # "sidecar",
         \A d \in HostCallers : d # c => hostCalls'[d] = hostCalls[d],
         UNCHANGED <<hostWrites, hostState>>
  PROVE  Orderly'
<1>1. \A i \in 1 .. Len(hostWrites) : hostWrites[i].call \in HostCallers /\ hostWrites[i].call # c
  BY WriteTyped DEF Orderly
<1>. QED BY <1>1 DEF Orderly

LEMMA NextOrderly == Typed /\ Orderly /\ HostNext => Orderly'
<1> SUFFICES ASSUME Typed, Orderly, HostNext PROVE Orderly'
  OBVIOUS
<1>1. ASSUME NEW c \in HostCallers, NEW call, CallBegins(c, call) PROVE Orderly'
  <2>1. \A d \in HostCallers : d # c => hostCalls'[d] = hostCalls[d]
    BY <1>1 DEF CallBegins, Typed
  <2>. QED BY <1>1, <2>1, OthersOrderly DEF CallBegins, hostStore
<1>2. ASSUME NEW c \in HostCallers,
             ParentEnsured(c) \/ FileLands(c) \/ FileRefused(c) \/ Wrote(c) \/ Unlinked(c) \/ Tells(c)
      PROVE  Orderly'
  <2>1. hostCalls[c].at # "sidecar" /\ UNCHANGED <<hostWrites, hostState>>
    BY <1>2 DEF ParentEnsured, FileLands, FileRefused, Wrote, Unlinked, Tells, hostStore
  <2>2. HostEnds(c) \/ \E at : HostGoes(c, at)
    BY <1>2 DEF ParentEnsured, FileLands, FileRefused, Wrote, Unlinked, Tells
  <2>3. \A d \in HostCallers : d # c => hostCalls'[d] = hostCalls[d]
    BY <2>2 DEF HostEnds, HostGoes, Typed
  <2>. QED BY <2>1, <2>3, OthersOrderly
<1>3. ASSUME NEW c \in HostCallers, MetaDirEnsured(c) PROVE Orderly'
  <2> DEFINE w == [call |-> c, meta |-> hostMeta]
  <2>1. hostWrites' = Append(hostWrites, w) /\ hostWrites \in Seq(SidecarWrite) /\ w \in SidecarWrite
    BY <1>3 DEF MetaDirEnsured, Typed, SidecarWrite
  <2>2. hostCalls' = [hostCalls EXCEPT ![c].at = "sidecar"]
    BY <1>3 DEF MetaDirEnsured, HostGoes
  <2>3. hostCalls'[c].at = "sidecar" /\ \A d \in HostCallers : d # c => hostCalls'[d] = hostCalls[d]
    BY <2>2 DEF Typed, ProperCall, HostCall
  <2>4. \A i \in 1 .. Len(hostWrites) : hostWrites[i].call \in HostCallers /\ hostWrites[i].call # c
    BY <1>3, WriteTyped DEF Orderly, MetaDirEnsured
  <2>5. w.call = c
    OBVIOUS
  <2> HIDE DEF w
  <2>6. /\ Len(hostWrites') = Len(hostWrites) + 1 /\ hostWrites'[Len(hostWrites) + 1] = w
        /\ \A i \in 1 .. Len(hostWrites) : hostWrites'[i] = hostWrites[i]
    BY <2>1
  <2>7. Len(hostWrites) \in Nat
    BY <2>1
  <2>8. \A i \in 1 .. Len(hostWrites') : hostCalls'[hostWrites'[i].call].at = "sidecar"
    BY <2>3, <2>4, <2>5, <2>6, <2>7 DEF Orderly
  <2>9. \A i, j \in 1 .. Len(hostWrites') : hostWrites'[i].call = hostWrites'[j].call => i = j
    BY <2>4, <2>5, <2>6, <2>7 DEF Orderly
  <2>. QED BY <1>3, <2>8, <2>9 DEF Orderly, MetaDirEnsured
<1>4. CASE SidecarLands \/ SidecarFails
  <2>1. hostWrites # <<>> /\ hostWrites' = Tail(hostWrites) /\ hostWrites \in Seq(SidecarWrite)
    BY <1>4 DEF SidecarLands, SidecarFails, Typed
  <2>2. PICK c \in HostCallers : c = hostWrites[1].call /\ c = Head(hostWrites).call
    <3>1. 1 \in 1 .. Len(hostWrites) /\ Head(hostWrites) = hostWrites[1]
      BY <2>1
    <3>. QED BY <3>1, WriteTyped
  <2>3. \A d \in HostCallers : d # c => hostCalls'[d] = hostCalls[d]
    BY <1>4, <2>2 DEF SidecarLands, SidecarFails, HostGoes, HostEnds, Typed
  <2>4. /\ Len(hostWrites') = Len(hostWrites) - 1 /\ Len(hostWrites) \in Nat \ {0}
        /\ \A i \in 1 .. Len(hostWrites') : hostWrites'[i] = hostWrites[i + 1]
    BY <2>1
  <2>5. \A i \in 1 .. Len(hostWrites') : hostWrites[i + 1].call \in HostCallers /\ hostWrites[i + 1].call # c
    <3> SUFFICES ASSUME NEW i \in 1 .. Len(hostWrites')
                 PROVE  hostWrites[i + 1].call \in HostCallers /\ hostWrites[i + 1].call # c
      OBVIOUS
    <3>1. i + 1 \in 1 .. Len(hostWrites) /\ 1 \in 1 .. Len(hostWrites) /\ i + 1 # 1
      BY <2>4
    <3>. QED BY <2>2, <3>1, WriteTyped DEF Orderly
  <2>6. \A i \in 1 .. Len(hostWrites') : hostCalls'[hostWrites'[i].call].at = "sidecar"
    BY <2>3, <2>4, <2>5 DEF Orderly
  <2>7. \A i, j \in 1 .. Len(hostWrites') : hostWrites'[i].call = hostWrites'[j].call => i = j
    <3> SUFFICES ASSUME NEW i \in 1 .. Len(hostWrites'), NEW j \in 1 .. Len(hostWrites'),
                        hostWrites'[i].call = hostWrites'[j].call
                 PROVE  i = j
      OBVIOUS
    <3>1. i + 1 \in 1 .. Len(hostWrites) /\ j + 1 \in 1 .. Len(hostWrites)
          /\ hostWrites[i + 1].call = hostWrites[j + 1].call
      BY <2>4
    <3>2. i + 1 = j + 1
      BY <3>1 DEF Orderly
    <3>. QED BY <2>4, <3>2
  <2>8. UNCHANGED hostState
    BY <1>4 DEF SidecarLands, SidecarFails
  <2>. QED BY <2>6, <2>7, <2>8 DEF Orderly
<1>5. CASE HostDispose
  BY <1>5 DEF HostDispose, Orderly, hostStore, Typed
<1>6. CASE \/ \E l \in HostListeners : OnChange(l) \/ HostUnsubscribe(l)
           \/ \E p \in HostPaths : RemoteWrite(p) \/ HandleRemoteChange(p)
  BY <1>6 DEF OnChange, HostUnsubscribe, RemoteWrite, HandleRemoteChange, Orderly, hostStore
<1>. QED BY <1>1, <1>2, <1>3, <1>4, <1>5, <1>6
         DEF HostNext, HostWriteFile, HostUnlink, SetMetadata, SetEnvironment

LEMMA StepOrderly == Typed /\ Orderly /\ [HostNext]_hostVars => Orderly'
<1>1. Orderly /\ UNCHANGED hostVars => Orderly'
  BY DEF Orderly, hostVars, hostStore
<1>. QED BY <1>1, NextOrderly

LEMMA InitOrderly == HostInit => Orderly
BY DEF HostInit, Orderly

\* Every variable keeps its type: what the handle, its calls, the sidecar and the
\* subscribers can hold whatever overlaps (SandpackFS.ts:130-668).
THEOREM HostFilesTypeCorrect == HostSpec => []Typed
<1>1. HostSpec => [](Typed /\ Orderly)
  BY InitTyped, InitOrderly, StepTyped, StepOrderly, PTL DEF HostSpec
<1>. QED BY <1>1, PTL

-----------------------------------------------------------------------------
(* What the sidecar, the subscribers and the host follow *)

LEMMA InitInv == HostInit => HostInv
<1> SUFFICES ASSUME HostInit PROVE HostInv
  OBVIOUS
<1>1. SidecarFollows
  BY DEF HostInit, SidecarFollows
<1>2. SubscribersFollow
  BY DEF HostInit, InitialFiles, SubscribersFollow, Subscribers
<1>3. DeclaredFollows
  BY DEF HostInit, DeclaredFollows, Landed, NoHostCall
<1>. QED BY <1>1, <1>2, <1>3, InitOrderly DEF HostInv

\* A call that was not about to write the sidecar, and does not change what it is to say.
LEMMA SidecarAside ==
  ASSUME Typed, SidecarFollows, NEW c \in HostCallers, hostCalls[c].at # "metaDir",
         \A d \in HostCallers : d # c => hostCalls'[d] = hostCalls[d],
         UNCHANGED <<hostSetup, hostSidecar, hostWrites, hostMeta, hostState>>,
         hostHistory'.lost = hostHistory.lost
  PROVE  SidecarFollows'
BY DEF SidecarFollows, Readable, SidecarRefused

LEMMA SidecarPending ==
  ASSUME Typed, NEW c \in HostCallers, hostCalls'[c].at = "metaDir"
  PROVE  SidecarFollows'
BY DEF SidecarFollows

LEMMA StepSidecar == Typed /\ Orderly /\ SidecarFollows /\ HostNext => SidecarFollows'
<1> SUFFICES ASSUME Typed, Orderly, SidecarFollows, HostNext PROVE SidecarFollows'
  OBVIOUS
<1>1. ASSUME NEW c \in HostCallers, NEW call \in ProperCall, CallBegins(c, call)
      PROVE  hostCalls'[c] = call /\ \A d \in HostCallers : d # c => hostCalls'[d] = hostCalls[d]
  BY <1>1 DEF CallBegins, Typed
<1>2. ASSUME NEW c \in HostCallers, NEW p \in HostPaths, HostWriteFile(c, p) \/ HostUnlink(c, p)
      PROVE  SidecarFollows'
  <2>1. PICK call : CallBegins(c, call) /\ UNCHANGED hostMeta
    BY <1>2 DEF HostWriteFile, HostUnlink
  <2>2. \A d \in HostCallers : d # c => hostCalls'[d] = hostCalls[d]
    BY <2>1 DEF CallBegins, Typed
  <2>3. hostHistory'.lost = hostHistory.lost
    BY <2>1 DEF CallBegins, Typed
  <2>. QED BY <2>1, <2>2, <2>3, SidecarAside DEF CallBegins, hostStore
<1>3. ASSUME NEW c \in HostCallers, NEW p \in HostPaths, NEW some \in BOOLEAN, SetMetadata(c, p, some)
      PROVE  SidecarFollows'
  <2>1. hostCalls'[c].at = "metaDir"
    BY <1>3 DEF SetMetadata, CallBegins, Typed
  <2>. QED BY <2>1, SidecarPending
<1>4. ASSUME NEW c \in HostCallers, NEW env \in 1 .. 2, SetEnvironment(c, env) PROVE SidecarFollows'
  <2>1. hostCalls'[c] = [NoHostCall EXCEPT !.at = "metaDir", !.kind = "env"]
    BY <1>4 DEF SetEnvironment, CallBegins, Typed
  <2>2. hostCalls'[c].at = "metaDir"
    BY <2>1 DEF NoHostCall
  <2>. QED BY <2>2, SidecarPending
<1>5. ASSUME NEW c \in HostCallers,
             ParentEnsured(c) \/ FileLands(c) \/ FileRefused(c) \/ Wrote(c) \/ Tells(c)
      PROVE  SidecarFollows'
  <2>1. hostCalls[c].at # "metaDir" /\ UNCHANGED <<hostSetup, hostSidecar, hostWrites, hostMeta, hostState>>
    BY <1>5 DEF ParentEnsured, FileLands, FileRefused, Wrote, Tells, hostStore
  <2>2. HostEnds(c) \/ \E at : HostGoes(c, at)
    BY <1>5 DEF ParentEnsured, FileLands, FileRefused, Wrote, Tells
  <2>3. \A d \in HostCallers : d # c => hostCalls'[d] = hostCalls[d]
    BY <2>2 DEF HostEnds, HostGoes, Typed
  <2>4. hostHistory'.lost = hostHistory.lost
    BY <1>5 DEF ParentEnsured, FileLands, FileRefused, Wrote, Tells, Notify, Typed
  <2>. QED BY <2>1, <2>3, <2>4, SidecarAside
<1>6. ASSUME NEW c \in HostCallers, Unlinked(c) PROVE SidecarFollows'
  <2>1. CASE hostCalls[c].path \in hostMeta.files
    <3>1. hostCalls' = [hostCalls EXCEPT ![c].at = "metaDir"]
      BY <1>6, <2>1 DEF Unlinked, HostGoes
    <3>2. hostCalls'[c].at = "metaDir"
      BY <3>1 DEF Typed, ProperCall, HostCall
    <3>. QED BY <3>2, SidecarPending
  <2>2. CASE hostCalls[c].path \notin hostMeta.files
    <3>1. hostMeta.files \ {hostCalls[c].path} = hostMeta.files
      BY <2>2
    <3>2. hostMeta' = hostMeta
      BY <1>6, <3>1 DEF Unlinked, Typed, HostMeta
    <3>3. \A d \in HostCallers : d # c => hostCalls'[d] = hostCalls[d]
      BY <1>6 DEF Unlinked, HostGoes, Typed
    <3>. QED BY <1>6, <3>2, <3>3, SidecarAside DEF Unlinked, hostStore
  <2>. QED BY <2>1, <2>2
<1>7. ASSUME NEW c \in HostCallers, MetaDirEnsured(c) PROVE SidecarFollows'
  <2> DEFINE w == [call |-> c, meta |-> hostMeta]
  <2>1. hostWrites' = Append(hostWrites, w) /\ hostWrites \in Seq(SidecarWrite) /\ w \in SidecarWrite
    BY <1>7 DEF MetaDirEnsured, Typed, SidecarWrite
  <2>2. w.meta = hostMeta /\ hostMeta' = hostMeta
    BY <1>7 DEF MetaDirEnsured
  <2> HIDE DEF w
  <2>3. hostWrites' # <<>> /\ hostWrites'[Len(hostWrites')] = w
    BY <2>1
  <2>. QED BY <2>2, <2>3 DEF SidecarFollows
<1>8. CASE SidecarLands \/ SidecarFails
  <2>1. /\ hostWrites # <<>> /\ hostWrites' = Tail(hostWrites) /\ hostWrites \in Seq(SidecarWrite)
        /\ UNCHANGED <<hostMeta, hostSetup, hostState>>
    BY <1>8 DEF SidecarLands, SidecarFails, Typed
  <2>2. 1 \in 1 .. Len(hostWrites) /\ Head(hostWrites) = hostWrites[1]
    BY <2>1
  <2>3. PICK c \in HostCallers : c = Head(hostWrites).call /\ hostCalls[c].at = "sidecar"
    BY <2>2, WriteTyped DEF Orderly
  <2>4. \A d \in HostCallers : d # c => hostCalls'[d] = hostCalls[d]
    BY <1>8, <2>3 DEF SidecarLands, SidecarFails, HostGoes, HostEnds, Typed
  <2>5. CASE \E d \in HostCallers : hostCalls[d].at = "metaDir"
    BY <2>3, <2>4, <2>5 DEF SidecarFollows
  <2>6. CASE hostWrites[Len(hostWrites)].meta = hostMeta
    <3>1. CASE Len(hostWrites) = 1
      <4>1. hostWrites' = <<>> /\ Head(hostWrites).meta = hostMeta
        BY <2>1, <2>2, <2>6, <3>1
      <4>2. CASE SidecarLands
        BY <2>1, <4>1, <4>2 DEF SidecarLands, SidecarFollows, Readable
      <4>3. CASE SidecarFails
        <5>1. SidecarRefused \/ ~hostState.mounted \/ hostHistory'.lost
          BY <4>3 DEF SidecarFails, Typed
        <5>. QED BY <2>1, <4>1, <5>1 DEF SidecarFollows, SidecarRefused
      <4>. QED BY <1>8, <4>2, <4>3
    <3>2. CASE Len(hostWrites) # 1
      <4>1. hostWrites' # <<>> /\ hostWrites'[Len(hostWrites')] = hostWrites[Len(hostWrites)]
        <5>0. Len(hostWrites) \in Nat
          BY <2>1
        <5>1. Len(hostWrites) > 1
          <6>1. 1 \in 1 .. Len(hostWrites)
            BY <2>2
          <6>2. \A n \in Nat : 1 \in 1 .. n /\ n # 1 => n > 1
            OBVIOUS
          <6>. QED BY <3>2, <5>0, <6>1, <6>2
        <5>2. /\ Len(hostWrites') = Len(hostWrites) - 1
              /\ \A i \in 1 .. Len(hostWrites') : hostWrites'[i] = hostWrites[i + 1]
          BY <2>1
        <5>. QED BY <5>0, <5>1, <5>2
      <4>. QED BY <2>1, <2>6, <4>1 DEF SidecarFollows
    <3>. QED BY <3>1, <3>2
  <2>. QED BY <2>1, <2>5, <2>6 DEF SidecarFollows
<1>9. ASSUME NEW p \in HostPaths, RemoteWrite(p) \/ HandleRemoteChange(p) PROVE SidecarFollows'
  <2>1. hostHistory'.lost = hostHistory.lost
    BY <1>9 DEF RemoteWrite, HandleRemoteChange, Notify, Typed
  <2>. QED BY <1>9, <2>1 DEF RemoteWrite, HandleRemoteChange, SidecarFollows, Readable, SidecarRefused, hostStore
<1>10. ASSUME NEW l \in HostListeners, OnChange(l) \/ HostUnsubscribe(l) PROVE SidecarFollows'
  BY <1>10 DEF OnChange, HostUnsubscribe, SidecarFollows, Readable, SidecarRefused, hostStore
<1>11. CASE HostDispose
  <2>1. hostState.mounted /\ UNCHANGED <<hostSidecar, hostSetup, hostMeta, hostCalls, hostWrites, hostHistory>>
    BY <1>11 DEF HostDispose, hostStore, Orderly
  <2>. QED BY <2>1 DEF SidecarFollows, Readable, SidecarRefused
<1>. QED BY <1>2, <1>3, <1>4, <1>5, <1>6, <1>7, <1>8, <1>9, <1>10, <1>11 DEF HostNext

\* A step that leaves the files and the subscribers alone, of a call that had no file
\* to tell of.
LEMMA SubscribersAside ==
  ASSUME Typed, SubscribersFollow, NEW c \in HostCallers, ~Landed(c),
         \A d \in HostCallers : d # c => hostCalls'[d] = hostCalls[d],
         UNCHANGED <<hostFiles, hostRelay, hostSeen, hostState>>,
         hostHistory'.untold = hostHistory.untold
  PROVE  SubscribersFollow'
<1>1. \A d \in HostCallers : Landed(d) => Landed(d)' /\ hostCalls'[d].path = hostCalls[d].path
  BY DEF Landed
<1>. QED BY <1>1 DEF SubscribersFollow, Subscribers

\* Telling of a file settles it, and leaves the others as they were.
LEMMA Told ==
  ASSUME Typed, SubscribersFollow, NEW p \in HostPaths,
         hostSeen' = [l \in Subscribers |-> [hostSeen[l] EXCEPT ![p] = hostFiles[p]]],
         UNCHANGED <<hostFiles, hostState>>,
         hostRelay \ {p} \subseteq hostRelay', hostHistory.untold \ {p} \subseteq hostHistory'.untold,
         \A d \in HostCallers : Landed(d) /\ hostCalls[d].path # p =>
            Landed(d)' /\ hostCalls'[d].path = hostCalls[d].path
  PROVE  SubscribersFollow'
<1> SUFFICES ASSUME hostState'.open, NEW l \in Subscribers', NEW q \in HostPaths
             PROVE  \/ hostSeen'[l][q] = hostFiles'[q]
                    \/ q \in hostRelay'
                    \/ \E c \in HostCallers : Landed(c)' /\ hostCalls'[c].path = q
                    \/ q \in hostHistory'.untold /\ hostFiles'[q] = 0
  BY DEF SubscribersFollow
<1>1. l \in Subscribers /\ hostSeen'[l] = [hostSeen[l] EXCEPT ![p] = hostFiles[p]]
  BY DEF Subscribers
<1>2. hostSeen[l] \in Contents
  BY <1>1 DEF Typed
<1>3. CASE q = p
  <2>1. hostSeen'[l][q] = hostFiles[p]
    BY <1>1, <1>2, <1>3 DEF Contents
  <2>. QED BY <1>3, <2>1
<1>4. CASE q # p
  <2>1. hostSeen'[l][q] = hostSeen[l][q]
    BY <1>1, <1>2, <1>4 DEF Contents
  <2>2. \/ hostSeen[l][q] = hostFiles[q]
        \/ q \in hostRelay
        \/ \E c \in HostCallers : Landed(c) /\ hostCalls[c].path = q
        \/ q \in hostHistory.untold /\ hostFiles[q] = 0
    BY <1>1 DEF SubscribersFollow
  <2>. QED BY <1>4, <2>1, <2>2
<1>. QED BY <1>3, <1>4

LEMMA StepSubscribers == Typed /\ Orderly /\ SubscribersFollow /\ HostNext => SubscribersFollow'
<1> SUFFICES ASSUME Typed, Orderly, SubscribersFollow, HostNext PROVE SubscribersFollow'
  OBVIOUS
<1>1. ASSUME NEW c \in HostCallers, NEW call, CallBegins(c, call) PROVE SubscribersFollow'
  <2>1. \A d \in HostCallers : d # c => hostCalls'[d] = hostCalls[d]
    BY <1>1 DEF CallBegins, Typed
  <2>2. hostHistory'.untold = hostHistory.untold
    BY <1>1 DEF CallBegins, Typed
  <2>. QED BY <1>1, <2>1, <2>2, SubscribersAside DEF CallBegins, hostStore, Landed
<1>2. ASSUME NEW c \in HostCallers, ParentEnsured(c) \/ FileRefused(c) \/ Unlinked(c) \/ MetaDirEnsured(c)
      PROVE  SubscribersFollow'
  <2>1. ~Landed(c) /\ UNCHANGED <<hostFiles, hostRelay, hostSeen, hostState, hostHistory>>
    BY <1>2 DEF ParentEnsured, FileRefused, Unlinked, MetaDirEnsured, Landed, hostStore
  <2>2. HostEnds(c) \/ \E at : HostGoes(c, at)
    BY <1>2 DEF ParentEnsured, FileRefused, Unlinked, MetaDirEnsured
  <2>3. \A d \in HostCallers : d # c => hostCalls'[d] = hostCalls[d]
    BY <2>2 DEF HostEnds, HostGoes, Typed
  <2>. QED BY <2>1, <2>3, SubscribersAside
<1>3. ASSUME NEW c \in HostCallers, FileLands(c) PROVE SubscribersFollow'
  <2>1. PICK call \in ProperCall : call = hostCalls[c]
    BY DEF Typed
  <2>2. call.at = "file" /\ call.kind \in {"write", "unlink"} /\ call.path \in HostPaths /\ call.rev \in Nat
    BY <1>3, <2>1 DEF FileLands, ProperCall, HostCall
  <2>3. hostCalls'[c].at = "landed" /\ hostCalls'[c].kind = call.kind /\ hostCalls'[c].path = call.path
    BY <1>3, <2>1 DEF FileLands, HostGoes, Typed, ProperCall, HostCall
  <2>4. \A d \in HostCallers : d # c => hostCalls'[d] = hostCalls[d]
    BY <1>3 DEF FileLands, HostGoes, Typed
  <2>5. \A d \in HostCallers : Landed(d) => Landed(d)' /\ hostCalls'[d].path = hostCalls[d].path
    BY <2>1, <2>2, <2>4 DEF Landed
  <2>6. hostHistory'.untold = hostHistory.untold \cup {call.path}
    BY <1>3, <2>1 DEF FileLands, Typed
  <2>7. hostFiles' = [hostFiles EXCEPT ![call.path] = call.rev]
    BY <1>3, <2>1 DEF FileLands
  <2>8. \A q \in HostPaths : q # call.path => hostFiles'[q] = hostFiles[q]
    BY <2>7 DEF Typed, Contents
  <2>9. UNCHANGED <<hostSeen, hostRelay, hostState>>
    BY <1>3 DEF FileLands
  <2>10. Landed(c)' \/ hostFiles'[call.path] = 0
    <3>1. CASE call.kind = "write"
      BY <2>3, <3>1 DEF Landed
    <3>2. CASE call.kind = "unlink"
      <4>1. call.rev = 0
        BY <3>2 DEF ProperCall
      <4>. QED BY <2>2, <2>7, <4>1 DEF Typed, Contents
    <3>. QED BY <2>2, <3>1, <3>2
  <2>. QED BY <2>3, <2>5, <2>6, <2>8, <2>9, <2>10 DEF SubscribersFollow, Subscribers
<1>4. ASSUME NEW c \in HostCallers, Wrote(c) PROVE SubscribersFollow'
  <2>1. PICK call \in ProperCall : call = hostCalls[c]
    BY DEF Typed
  <2>2. call.path \in HostPaths
    BY <1>4, <2>1 DEF Wrote, ProperCall, HostCall
  <2>3. \A d \in HostCallers : d # c => hostCalls'[d] = hostCalls[d]
    BY <1>4 DEF Wrote, HostEnds, Typed
  <2>4. \A d \in HostCallers : Landed(d) /\ hostCalls[d].path # call.path =>
           Landed(d)' /\ hostCalls'[d].path = hostCalls[d].path
    BY <2>1, <2>3 DEF Landed
  <2>5. hostHistory'.untold = hostHistory.untold \ {call.path}
    BY <1>4, <2>1 DEF Wrote, Typed
  <2>6. /\ hostSeen' = [l \in Subscribers |-> [hostSeen[l] EXCEPT ![call.path] = hostFiles[call.path]]]
        /\ UNCHANGED <<hostFiles, hostState, hostRelay>>
    BY <1>4, <2>1 DEF Wrote, hostStore
  <2>. QED BY <2>2, <2>4, <2>5, <2>6, Told
<1>5. ASSUME NEW c \in HostCallers, Tells(c) PROVE SubscribersFollow'
  <2>1. hostCalls[c].at = "tell" /\ UNCHANGED <<hostFiles, hostState, hostRelay>>
    BY <1>5 DEF Tells, hostStore
  <2>2. \A d \in HostCallers : d # c => hostCalls'[d] = hostCalls[d]
    BY <1>5 DEF Tells, HostEnds, Typed
  <2>3. CASE hostCalls[c].kind = "env"
    BY <1>5, <2>1, <2>2, <2>3, SubscribersAside DEF Tells, Landed
  <2>4. CASE hostCalls[c].kind # "env"
    <3>1. PICK p \in HostPaths : p = hostCalls[c].path
      BY <2>1, <2>4 DEF Typed, ProperCall
    <3>2. Notify(p)
      BY <1>5, <2>4, <3>1 DEF Tells
    <3>3. hostHistory'.untold = hostHistory.untold \ {p}
      BY <3>2 DEF Notify, Typed
    <3>4. \A d \in HostCallers : Landed(d) => Landed(d)' /\ hostCalls'[d].path = hostCalls[d].path
      BY <2>1, <2>2 DEF Landed
    <3>. QED BY <2>1, <3>2, <3>3, <3>4, Told DEF Notify
  <2>. QED BY <2>3, <2>4
<1>6. CASE SidecarLands \/ SidecarFails
  <2>1. /\ hostWrites # <<>> /\ UNCHANGED <<hostFiles, hostRelay, hostSeen, hostState>>
        /\ hostWrites \in Seq(SidecarWrite)
    BY <1>6 DEF SidecarLands, SidecarFails, Typed
  <2>2. 1 \in 1 .. Len(hostWrites) /\ Head(hostWrites) = hostWrites[1]
    BY <2>1
  <2>3. PICK c \in HostCallers : c = Head(hostWrites).call /\ hostCalls[c].at = "sidecar"
    BY <2>2, WriteTyped DEF Orderly
  <2>4. \A d \in HostCallers : d # c => hostCalls'[d] = hostCalls[d]
    BY <1>6, <2>3 DEF SidecarLands, SidecarFails, HostGoes, HostEnds, Typed
  <2>5. hostHistory'.untold = hostHistory.untold
    BY <1>6 DEF SidecarLands, SidecarFails, Typed
  <2>. QED BY <2>1, <2>3, <2>4, <2>5, SubscribersAside DEF Landed
<1>7. ASSUME NEW p \in HostPaths, RemoteWrite(p) PROVE SubscribersFollow'
  <2>1. p \in hostRelay' /\ hostRelay \subseteq hostRelay'
        /\ \A q \in HostPaths : q # p => hostFiles'[q] = hostFiles[q]
    BY <1>7 DEF RemoteWrite, Typed, Contents
  <2>2. hostHistory.untold \subseteq hostHistory'.untold
    BY <1>7 DEF RemoteWrite, Typed
  <2>3. UNCHANGED <<hostSeen, hostCalls, hostState>>
    BY <1>7 DEF RemoteWrite
  <2>. QED BY <2>1, <2>2, <2>3 DEF SubscribersFollow, Subscribers, Landed
<1>8. ASSUME NEW p \in HostPaths, HandleRemoteChange(p) PROVE SubscribersFollow'
  <2>1. CASE hostState.open
    <3>1. Notify(p) /\ UNCHANGED <<hostFiles, hostState, hostCalls>> /\ hostRelay' = hostRelay \ {p}
      BY <1>8, <2>1 DEF HandleRemoteChange, hostStore
    <3>2. hostHistory'.untold = hostHistory.untold \ {p}
      BY <3>1 DEF Notify, Typed
    <3>3. \A d \in HostCallers : Landed(d) => Landed(d)' /\ hostCalls'[d].path = hostCalls[d].path
      BY <3>1 DEF Landed
    <3>. QED BY <3>1, <3>2, <3>3, Told DEF Notify
  <2>2. CASE ~hostState.open
    BY <1>8, <2>2 DEF HandleRemoteChange, SubscribersFollow
  <2>. QED BY <2>1, <2>2
<1>9. ASSUME NEW l \in HostListeners, OnChange(l) \/ HostUnsubscribe(l) PROVE SubscribersFollow'
  <2>1. UNCHANGED <<hostFiles, hostCalls, hostRelay, hostState, hostHistory>>
    BY <1>9 DEF OnChange, HostUnsubscribe, hostStore
  <2>2. \A m \in Subscribers' : hostSeen'[m] = hostFiles \/ (m \in Subscribers /\ hostSeen'[m] = hostSeen[m])
    <3>1. CASE OnChange(l)
      <4>1. hostSeen' = [m \in Subscribers \cup {l} |-> IF m = l THEN hostFiles ELSE hostSeen[m]]
        BY <3>1 DEF OnChange
      <4>2. Subscribers' = Subscribers \cup {l}
        BY <4>1 DEF Subscribers
      <4>3. \A m \in Subscribers \cup {l} : hostSeen'[m] = IF m = l THEN hostFiles ELSE hostSeen[m]
        BY <4>1
      <4>. QED BY <4>2, <4>3
    <3>2. CASE HostUnsubscribe(l)
      <4>1. hostSeen' = [m \in Subscribers \ {l} |-> hostSeen[m]]
        BY <3>2 DEF HostUnsubscribe
      <4>2. Subscribers' = Subscribers \ {l}
        BY <4>1 DEF Subscribers
      <4>. QED BY <4>1, <4>2
    <3>. QED BY <1>9, <3>1, <3>2
  <2>. QED BY <2>1, <2>2 DEF SubscribersFollow, Landed
<1>10. CASE HostDispose
  BY <1>10 DEF HostDispose, SubscribersFollow
<1>. QED BY <1>1, <1>2, <1>3, <1>4, <1>5, <1>6, <1>7, <1>8, <1>9, <1>10
         DEF HostNext, HostWriteFile, HostUnlink, SetMetadata, SetEnvironment

\* A step that declares nothing and lands no write.
LEMMA DeclaredAside ==
  ASSUME Typed, DeclaredFollows, NEW c \in HostCallers, ~Landed(c), ~Landed(c)',
         \A d \in HostCallers : d # c => hostCalls'[d] = hostCalls[d],
         hostHistory'.local = hostHistory.local, hostHistory'.declared = hostHistory.declared
  PROVE  DeclaredFollows'
<1>1. \A d \in HostCallers : Landed(d)' <=> Landed(d)
  BY DEF Landed
<1>2. \A d \in HostCallers : Landed(d) => hostCalls'[d].rev = hostCalls[d].rev
  OBVIOUS
<1>3. {hostCalls[d].rev : d \in {e \in HostCallers : Landed(e)}}'
        = {hostCalls[d].rev : d \in {e \in HostCallers : Landed(e)}}
  BY <1>1, <1>2
<1>. QED BY <1>3 DEF DeclaredFollows

LEMMA StepDeclared == Typed /\ Orderly /\ DeclaredFollows /\ HostNext => DeclaredFollows'
<1> SUFFICES ASSUME Typed, Orderly, DeclaredFollows, HostNext PROVE DeclaredFollows'
  OBVIOUS
<1> DEFINE Revs == {hostCalls[d].rev : d \in {e \in HostCallers : Landed(e)}}
<1>1. ASSUME NEW c \in HostCallers, NEW call, CallBegins(c, call), call.at # "landed" PROVE DeclaredFollows'
  <2>1. hostCalls'[c] = call /\ \A d \in HostCallers : d # c => hostCalls'[d] = hostCalls[d]
    BY <1>1 DEF CallBegins, Typed
  <2>2. hostHistory'.local = hostHistory.local /\ hostHistory'.declared = hostHistory.declared
    BY <1>1 DEF CallBegins, Typed
  <2>3. ~Landed(c) /\ ~Landed(c)'
    BY <1>1, <2>1 DEF CallBegins, Landed
  <2>. QED BY <2>1, <2>2, <2>3, DeclaredAside
<1>2. ASSUME NEW c \in HostCallers,
             ParentEnsured(c) \/ FileRefused(c) \/ Unlinked(c) \/ Tells(c) \/ MetaDirEnsured(c)
      PROVE  DeclaredFollows'
  <2>1. HostEnds(c) \/ \E at \in {"file", "metaDir", "sidecar", "tell"} : HostGoes(c, at)
    BY <1>2 DEF ParentEnsured, FileRefused, Unlinked, Tells, MetaDirEnsured
  <2>2. \A d \in HostCallers : d # c => hostCalls'[d] = hostCalls[d]
    BY <2>1 DEF HostEnds, HostGoes, Typed
  <2>3. hostCalls'[c].at # "landed"
    BY <2>1 DEF HostEnds, HostGoes, Typed, NoHostCall, ProperCall, HostCall
  <2>4. ~Landed(c) /\ ~Landed(c)'
    BY <1>2, <2>3 DEF ParentEnsured, FileRefused, Unlinked, Tells, MetaDirEnsured, Landed
  <2>5. hostHistory'.local = hostHistory.local /\ hostHistory'.declared = hostHistory.declared
    BY <1>2 DEF ParentEnsured, FileRefused, Unlinked, Tells, MetaDirEnsured, Notify, Typed
  <2>. QED BY <2>2, <2>4, <2>5, DeclaredAside
<1>3. ASSUME NEW c \in HostCallers, FileLands(c) PROVE DeclaredFollows'
  <2>1. hostCalls[c].at = "file" /\ hostCalls' = [hostCalls EXCEPT ![c].at = "landed"]
    BY <1>3 DEF FileLands, HostGoes
  <2>2. hostCalls'[c].at = "landed" /\ hostCalls'[c].kind = hostCalls[c].kind /\ hostCalls'[c].rev = hostCalls[c].rev
    BY <2>1 DEF Typed, ProperCall, HostCall
  <2>3. \A d \in HostCallers : d # c => hostCalls'[d] = hostCalls[d]
    BY <2>1 DEF Typed
  <2>4. hostHistory'.declared = hostHistory.declared
    BY <1>3 DEF FileLands, Typed
  <2>5. CASE hostCalls[c].kind = "write"
    <3>1. hostHistory'.local = hostHistory.local \cup {hostCalls[c].rev}
      BY <1>3, <2>5 DEF FileLands, Typed
    <3>2. \A d \in HostCallers : Landed(d)' <=> Landed(d) \/ d = c
      BY <2>2, <2>3, <2>5 DEF Landed
    <3>3. \A d \in HostCallers : hostCalls'[d].rev = hostCalls[d].rev
      BY <2>2, <2>3
    <3>4. Revs' = Revs \cup {hostCalls[c].rev}
      BY <3>2, <3>3
    <3>. QED BY <2>4, <3>1, <3>4 DEF DeclaredFollows
  <2>6. CASE hostCalls[c].kind # "write"
    <3>1. hostHistory'.local = hostHistory.local
      BY <1>3, <2>6 DEF FileLands, Typed
    <3>. QED BY <2>2, <2>3, <2>4, <2>6, <3>1, DeclaredAside DEF Landed
  <2>. QED BY <2>5, <2>6
<1>4. ASSUME NEW c \in HostCallers, Wrote(c) PROVE DeclaredFollows'
  <2>1. Landed(c) /\ hostCalls'[c] = NoHostCall /\ \A d \in HostCallers : d # c => hostCalls'[d] = hostCalls[d]
    BY <1>4, CallEnds DEF Wrote, Landed
  <2>2. hostHistory'.local = hostHistory.local
        /\ hostHistory'.declared = hostHistory.declared \cup {hostCalls[c].rev}
    BY <1>4 DEF Wrote, Typed
  <2>3. \A d \in HostCallers : Landed(d)' <=> Landed(d) /\ d # c
    BY <2>1 DEF Landed, NoHostCall
  <2>4. Revs' \cup {hostCalls[c].rev} = Revs
    BY <2>1, <2>3
  <2>. QED BY <2>2, <2>4 DEF DeclaredFollows
<1>5. CASE SidecarLands \/ SidecarFails
  <2>1. hostWrites # <<>> /\ hostWrites \in Seq(SidecarWrite)
    BY <1>5 DEF SidecarLands, SidecarFails, Typed
  <2>2. 1 \in 1 .. Len(hostWrites) /\ Head(hostWrites) = hostWrites[1]
    BY <2>1
  <2>3. PICK c \in HostCallers : c = Head(hostWrites).call /\ hostCalls[c].at = "sidecar"
    BY <2>2, WriteTyped DEF Orderly
  <2>4. HostEnds(c) \/ HostGoes(c, "tell")
    BY <1>5, <2>3 DEF SidecarLands, SidecarFails
  <2>5. \A d \in HostCallers : d # c => hostCalls'[d] = hostCalls[d]
    BY <2>4 DEF HostGoes, HostEnds, Typed
  <2>6. hostCalls'[c].at # "landed"
    BY <2>4 DEF HostEnds, HostGoes, Typed, NoHostCall, ProperCall, HostCall
  <2>7. hostHistory'.local = hostHistory.local /\ hostHistory'.declared = hostHistory.declared
    BY <1>5 DEF SidecarLands, SidecarFails, Typed
  <2>. QED BY <2>3, <2>5, <2>6, <2>7, DeclaredAside DEF Landed
<1>6. ASSUME hostCalls' = hostCalls,
             hostHistory'.local = hostHistory.local /\ hostHistory'.declared = hostHistory.declared
      PROVE  DeclaredFollows'
  BY <1>6 DEF DeclaredFollows, Landed
<1>7. CASE \/ HostDispose
           \/ \E l \in HostListeners : OnChange(l) \/ HostUnsubscribe(l)
           \/ \E p \in HostPaths : RemoteWrite(p) \/ HandleRemoteChange(p)
  <2>1. hostCalls' = hostCalls
    BY <1>7 DEF HostDispose, OnChange, HostUnsubscribe, RemoteWrite, HandleRemoteChange
  <2>2. hostHistory'.local = hostHistory.local /\ hostHistory'.declared = hostHistory.declared
    BY <1>7 DEF HostDispose, OnChange, HostUnsubscribe, RemoteWrite, HandleRemoteChange, Notify, Typed
  <2>. QED BY <1>6, <2>1, <2>2
<1>8. ASSUME NEW c \in HostCallers, NEW p \in HostPaths, HostWriteFile(c, p) \/ HostUnlink(c, p)
      PROVE  DeclaredFollows'
  <2>1. \E call : CallBegins(c, call) /\ call.at # "landed"
    BY <1>8 DEF HostWriteFile, HostUnlink
  <2>. QED BY <1>1, <2>1
<1>9. ASSUME NEW c \in HostCallers, NEW p \in HostPaths, NEW some \in BOOLEAN, SetMetadata(c, p, some)
      PROVE  DeclaredFollows'
  <2>1. \E call : CallBegins(c, call) /\ call.at # "landed"
    BY <1>9 DEF SetMetadata
  <2>. QED BY <1>1, <2>1
<1>10. ASSUME NEW c \in HostCallers, NEW env \in 1 .. 2, SetEnvironment(c, env) PROVE DeclaredFollows'
  <2>1. [NoHostCall EXCEPT !.at = "metaDir", !.kind = "env"].at = "metaDir"
    BY NoCallTyped DEF ProperCall, HostCall
  <2>2. \E call : CallBegins(c, call) /\ call.at # "landed"
    BY <1>10, <2>1 DEF SetEnvironment
  <2>. QED BY <1>1, <2>2
<1>. QED BY <1>2, <1>3, <1>4, <1>5, <1>7, <1>8, <1>9, <1>10 DEF HostNext

LEMMA StepInv == Typed /\ HostInv /\ [HostNext]_hostVars => HostInv'
<1>1. Typed /\ HostInv /\ HostNext => HostInv'
  BY NextOrderly, StepSidecar, StepSubscribers, StepDeclared DEF HostInv
<1>2. HostInv /\ UNCHANGED hostVars => HostInv'
  BY DEF HostInv, Orderly, SidecarFollows, SubscribersFollow, DeclaredFollows, hostVars, hostStore,
         Subscribers, Landed, Readable, SidecarRefused
<1>. QED BY <1>1, <1>2

LEMMA InvImplies == Typed /\ HostInv => HostFilesInSync
<1> SUFFICES ASSUME Typed, HostInv PROVE HostFilesInSync
  OBVIOUS
<1>1. HostAtRest => hostWrites = <<>>
  <2> SUFFICES ASSUME HostAtRest, hostWrites # <<>> PROVE FALSE
    OBVIOUS
  <2>1. hostWrites \in Seq(SidecarWrite)
    BY DEF Typed
  <2>2. 1 \in 1 .. Len(hostWrites)
    BY <2>1
  <2>. QED BY <2>2, WriteTyped DEF HostInv, Orderly, HostAtRest
<1>2. SidecarInSync
  BY <1>1 DEF HostInv, SidecarFollows, SidecarInSync, HostAtRest
<1>3. SubscribersInSync
  BY DEF HostInv, SubscribersFollow, SubscribersInSync, HostAtRest, Landed
<1>4. WritesAreDeclared
  <2>1. HostAtRest => {hostCalls[c].rev : c \in {d \in HostCallers : Landed(d)}} = {}
    BY DEF HostAtRest, Landed
  <2>. QED BY <2>1 DEF HostInv, DeclaredFollows, WritesAreDeclared
<1>. QED BY <1>2, <1>3, <1>4 DEF HostFilesInSync

\* However calls of the handle, writes of the preview, subscriptions and dispose overlap:
\* at rest the sidecar says what the handle says, the subscribers have seen every file as
\* it is, and every write through the handle was declared (SandpackFS.ts:214, :426, :634).
THEOREM HostStaysInSync == HostSpec => []HostFilesInSync
<1>1. Typed /\ HostInv /\ [HostNext]_hostVars => (Typed /\ HostInv)'
  BY StepTyped, StepInv DEF HostInv
<1>2. HostSpec => [](Typed /\ HostInv)
  BY <1>1, InitTyped, InitInv, PTL DEF HostSpec
<1>. QED BY <1>2, InvImplies, PTL
----------------------------------------------------------------------------
(* PackageFiles: the types. *)

PkgStages == {"none", "waiting", "resolve", "json", "jsonRead", "isFile", "isFileRead", "resolved",
              "missed", "joined", "load", "loadRead", "linked", "failed", "install", "installing",
              "installed"}
Release == PkgReleases \cup {Nothing}
Answer == PkgReleases \cup {Nothing, Gone}
Memo == [content : Release, isFile : {Gone, Nothing, 1}]
Importer == [at : PkgStages, file : Files, got : Answer \cup {Failing}, again : BOOLEAN,
             sure : BOOLEAN]

PkgTyped ==
  /\ pkgModule \in Release /\ pkgInstall \in {"idle", "open", "linked"}
  /\ pkgContent \in [Files -> Release]
  /\ pkgMemo \in [Files -> Memo]
  /\ pkgReads \in [Files -> Answer]
  /\ pkgJson \in Answer
  /\ pkgResolved \in [Keys -> {"none", "pending"} \cup Files]
  /\ pkgImporters \in [PkgImporters -> Importer]
  /\ pkgHistory \in [imports : Nat, faults : Nat, shown : SUBSET PkgReleases, late : BOOLEAN]
----------------------------------------------------------------------------
(* ImportsSeeTheRelease. *)

Shown == pkgHistory.shown
ShownMains == {PkgMain[r] : r \in Shown}
Alone == \A r, s \in Shown : r = s
Excepted == pkgHistory.late \/ ~Alone

\* What any memo answers is of a release that was registered, and so is the file anybody
\* was sent to.
Registered ==
  /\ IsFiniteSet(Shown)
  /\ pkgModule # Nothing => pkgModule \in Shown
  /\ \A f \in Files :
       /\ pkgContent[f] \in Shown \cup {Nothing} /\ pkgMemo[f].content \in Shown \cup {Nothing}
       /\ pkgReads[f] \in Shown \cup {Nothing, Gone}
  /\ pkgMemo[Json].isFile = 1 => pkgMemo[Json].content # Nothing
  /\ pkgJson \in Shown \cup {Nothing, Gone}
  /\ \A k \in Keys : pkgResolved[k] \in {"none", "pending"} \cup ShownMains
FollowedBy(importer) ==
  /\ importer.at \in {"isFile", "isFileRead", "resolved", "load", "loadRead", "linked"}
       => importer.file \in ShownMains
  /\ importer.at = "jsonRead" => importer.file = Json
  /\ importer.at = "isFileRead" => importer.got \in Shown \cup {Gone}
  /\ importer.at = "linked" => importer.got \in Shown
Followed == \A i \in PkgImporters : FollowedBy(pkgImporters[i])

\* A directory has at most one run, and those that joined a run are no surer than it is.
Runs(i) == pkgImporters[i].at \in {"json", "jsonRead", "isFile", "isFileRead", "resolved", "missed"}
OneRun ==
  \A i, j \in PkgImporters : PkgKey[i] = PkgKey[j] =>
    /\ Runs(i) \/ pkgImporters[i].at = "joined" => pkgResolved[PkgKey[i]] = "pending"
    /\ Runs(i) /\ Runs(j) => i = j
    /\ pkgImporters[i].at = "joined" /\ pkgImporters[i].sure /\ Runs(j) => pkgImporters[j].sure

\* Once the install linked the package no absence of its files is known, and an importer
\* that is sure meets none.
Forgets ==
  pkgInstall = "linked" \/ Sure =>
    /\ pkgModule # Nothing
    /\ ~Excepted => pkgJson # Gone /\ \A f \in {Json, PkgMain[pkgModule]} : pkgMemo[f].isFile # Gone
ServedTo(importer) ==
  importer.sure =>
    /\ Sure /\ importer.at # "installing"
    /\ importer.at = "isFileRead" /\ ~Excepted => importer.got # Gone
    /\ importer.at \in {"missed", "install", "failed"} /\ ~Excepted => importer.got = Failing
Serves == \A i \in PkgImporters : ServedTo(pkgImporters[i])

Following == Registered /\ Followed /\ OneRun /\ Forgets /\ Serves
----------------------------------------------------------------------------
(* PackageFiles: the types hold. *)

LEMMA Marks ==
  /\ \A r \in PkgReleases : r \in Nat /\ r > 0 /\ r # Nothing /\ r # Gone /\ r # Failing
  /\ Nothing # Gone /\ Nothing # Failing /\ Gone # Failing /\ Nothing # 1 /\ Gone # 1
  /\ ~(Nothing > 0) /\ ~(Gone > 0) /\ ~(Failing > 0) /\ 1 > 0
  /\ \A r \in PkgReleases : PkgMain[r] \in Mains
  /\ \A f \in Mains : f # Json /\ f # "none" /\ f # "pending" /\ f \in Files
  /\ Json \in Files
  /\ \A i \in PkgImporters : PkgKey[i] \in Keys
  /\ PkgListed \subseteq PkgReleases
<1>1. \A f \in Mains : f # Json /\ f # "none" /\ f # "pending" /\ f \in Files
  <2>1. Mains \cap {Json, "none", "pending"} = {}
    BY PkgAssumption
  <2> HIDE DEF Json
  <2> QED BY <2>1 DEF Files
<1>2. \A r \in PkgReleases : r \in Nat /\ r > 0 /\ r # Nothing /\ r # Gone /\ r # Failing
  BY PkgAssumption DEF Nothing, Gone, Failing
<1> QED BY <1>1, <1>2, PkgAssumption DEF Nothing, Gone, Failing, Mains, Files, Keys

LEMMA AfterTyped ==
  ASSUME NEW importer \in Importer, NEW answer,
         answer \in Answer \cup {Failing} \/ (answer = 1 /\ importer.at = "isFileRead")
  PROVE  After(importer, answer) \in Importer
<1>1. answer > 0 \/ ~(answer > 0)
  OBVIOUS
<1>2. CASE importer.at = "jsonRead" /\ answer > 0
  <2>1. answer \in PkgReleases
    BY <1>2, Marks DEF Answer
  <2>2. After(importer, answer) = [importer EXCEPT !.at = "isFile", !.file = PkgMain[answer]]
    BY <1>2 DEF After
  <2>3. PkgMain[answer] \in Files
    BY <2>1, Marks
  <2> QED BY <2>2, <2>3 DEF Importer, PkgStages
<1>3. CASE importer.at = "isFileRead" /\ answer > 0
  <2>1. After(importer, answer) = [importer EXCEPT !.at = "resolved"]
    BY <1>3 DEF After
  <2> QED BY <2>1 DEF Importer, PkgStages
<1>4. CASE importer.at = "loadRead"
  <2>1. answer \in Answer \cup {Failing}
    BY <1>4
  <2>2. After(importer, answer) \in
          {[importer EXCEPT !.at = "linked", !.got = answer], [importer EXCEPT !.at = "failed", !.got = answer]}
    BY <1>4 DEF After
  <2> QED BY <2>1, <2>2 DEF Importer, PkgStages
<1>5. CASE ~(importer.at = "jsonRead" /\ answer > 0) /\ ~(importer.at = "isFileRead" /\ answer > 0)
           /\ importer.at # "loadRead"
  <2>1. answer \in Answer \cup {Failing}
    BY <1>5, Marks
  <2>2. After(importer, answer) = [importer EXCEPT !.at = "missed", !.got = answer]
    BY <1>5 DEF After
  <2> QED BY <2>1, <2>2 DEF Importer, PkgStages
<1> QED BY <1>2, <1>3, <1>4, <1>5

LEMMA LookupTyped ==
  ASSUME PkgTyped, NEW f \in Files
  PROVE  /\ Lookup(f) \in Answer /\ Lookup(f) # Nothing
         /\ Kept(f) \in [Files -> Release]
  BY Marks DEF PkgTyped, Lookup, Kept, Has, Answer, Release

LEMMA ForgetTyped ==
  ASSUME PkgTyped, ForgetMissing \/ Forget
  PROVE  pkgMemo' \in [Files -> Memo] /\ pkgJson' \in Answer
<1>1. Forgotten \in Memo
  BY DEF Forgotten, Memo, Release
<1>2. pkgMemo' \in [Files -> Memo]
  BY <1>1 DEF PkgTyped, ForgetMissing, Forget
<1>3. pkgJson' \in Answer
  BY DEF PkgTyped, ForgetMissing, Forget, Answer
<1> QED BY <1>2, <1>3

LEMMA InitPkgTyped == PkgInit => PkgTyped
<1> SUFFICES ASSUME PkgInit PROVE PkgTyped
  OBVIOUS
<1>1. Forgotten \in Memo /\ NoImport \in Importer
  BY Marks DEF Forgotten, Memo, Release, NoImport, Importer, PkgStages, Answer
<1>2. pkgHistory \in [imports : Nat, faults : Nat, shown : SUBSET PkgReleases, late : BOOLEAN]
  BY DEF PkgInit
<1> QED BY <1>1, <1>2 DEF PkgInit, PkgTyped, Release, Answer

LEMMA GoesTyped ==
  ASSUME PkgTyped, NEW i \in PkgImporters, NEW at \in PkgStages, PkgGoes(i, at)
  PROVE  pkgImporters' \in [PkgImporters -> Importer]
<1>1. [pkgImporters[i] EXCEPT !.at = at] \in Importer
  BY DEF PkgTyped, Importer
<1> QED BY <1>1 DEF PkgGoes, PkgTyped

LEMMA ReadOfTyped ==
  ASSUME PkgTyped, NEW f \in Files, ReadOf(f)
  PROVE  pkgReads' \in [Files -> Answer] /\ pkgContent' \in [Files -> Release]
  BY LookupTyped DEF ReadOf, PkgTyped

LEMMA AnsweredTyped ==
  ASSUME PkgTyped, NEW f, NEW answer \in Answer \cup {Failing},
         pkgImporters' = [i \in PkgImporters |->
            IF Waits(i, f) THEN After(pkgImporters[i], answer) ELSE pkgImporters[i]]
  PROVE  pkgImporters' \in [PkgImporters -> Importer]
  BY AfterTyped DEF PkgTyped

LEMMA SettledTyped ==
  ASSUME PkgTyped, NEW at \in PkgStages, pkgImporters' = Settled(at)
  PROVE  pkgImporters' \in [PkgImporters -> Importer]
<1>1. \A i \in PkgImporters : [pkgImporters[i] EXCEPT !.at = at] \in Importer
  BY DEF PkgTyped, Importer
<1> QED BY <1>1 DEF Settled, PkgTyped

PkgObserved == [imports : Nat, faults : Nat, shown : SUBSET PkgReleases, late : BOOLEAN]

LEMMA NextPkgTyped == PkgTyped /\ Registered /\ PkgNext => PkgTyped'
<1> SUFFICES ASSUME PkgTyped, Registered, PkgNext PROVE PkgTyped'
  OBVIOUS
<1>0. pkgHistory \in PkgObserved /\ \A i \in PkgImporters : pkgImporters[i] \in Importer
  BY DEF PkgTyped, PkgObserved
<1>1. CASE Links
  BY <1>1, ForgetTyped DEF Links, PkgTyped
<1>2. CASE LinkReads
  BY <1>2, ReadOfTyped, Marks DEF LinkReads, PkgTyped
<1>3. CASE InstallSucceeds
  <2>1. pkgImporters' \in [PkgImporters -> Importer]
    BY <1>3, SettledTyped DEF InstallSucceeds, PkgStages
  <2> QED BY <1>3, <2>1 DEF InstallSucceeds, PkgTyped, pkgCaches
<1>4. CASE InstallFails
  <2>1. pkgImporters' \in [PkgImporters -> Importer]
    BY <1>4, SettledTyped DEF InstallFails, PkgStages
  <2>2. pkgMemo' \in [Files -> Memo] /\ pkgJson' \in Answer
    BY <1>4, ForgetTyped DEF InstallFails, PkgTyped
  <2>3. pkgHistory' \in PkgObserved
    <3>1. pkgHistory' = [pkgHistory EXCEPT !.faults = pkgHistory.faults + 1]
      BY <1>4 DEF InstallFails
    <3>2. pkgHistory.faults + 1 \in Nat
      BY <1>0 DEF PkgObserved
    <3> QED BY <1>0, <3>1, <3>2 DEF PkgObserved
  <2> QED BY <1>4, <2>1, <2>2, <2>3 DEF InstallFails, PkgTyped, PkgObserved, Release
<1>5. ASSUME NEW r \in PkgReleases, Register(r) PROVE PkgTyped'
  <2>1. pkgHistory' \in PkgObserved
    BY <1>0, <1>5 DEF Register, PkgObserved
  <2> QED BY <1>5, <2>1 DEF Register, PkgTyped, PkgObserved, pkgCaches, Release
<1>6. ASSUME NEW f \in Files, ReadEnds(f) PROVE PkgTyped'
  <2> DEFINE answer == pkgReads[f]
  <2>1. answer \in Answer /\ answer # Nothing
    BY <1>6 DEF ReadEnds, PkgTyped
  <2>2. pkgImporters' \in [PkgImporters -> Importer]
    BY <1>6, <2>1, AnsweredTyped DEF ReadEnds
  <2>3. pkgMemo' \in [Files -> Memo]
    <3>1. CASE answer = Gone
      <4>1. [pkgMemo[f] EXCEPT !.isFile = Gone] \in Memo
        BY DEF PkgTyped, Memo
      <4> QED BY <1>6, <3>1, <4>1 DEF ReadEnds, PkgTyped
    <3>2. CASE answer # Gone
      <4>1. [content |-> answer, isFile |-> 1] \in Memo
        BY <2>1, <3>2 DEF Memo, Answer, Release
      <4> QED BY <1>6, <3>2, <4>1 DEF ReadEnds, PkgTyped
    <3> QED BY <3>1, <3>2
  <2>4. pkgContent' \in [Files -> Release]
    <3>1. answer > 0 => answer \in Release
      BY <2>1, Marks DEF Answer, Release
    <3> QED BY <1>6, <3>1 DEF ReadEnds, PkgTyped
  <2>5. pkgHistory' \in PkgObserved
    <3>1. \E late \in BOOLEAN : pkgHistory' = [pkgHistory EXCEPT !.late = late]
      BY <1>0, <1>6 DEF ReadEnds, PkgObserved
    <3> QED BY <1>0, <3>1 DEF PkgObserved
  <2>6. pkgReads' \in [Files -> Answer] /\ pkgJson' \in Answer
    BY <1>6, <2>1 DEF ReadEnds, PkgTyped, Answer
  <2> QED BY <1>6, <2>2, <2>3, <2>4, <2>5, <2>6 DEF ReadEnds, PkgTyped, PkgObserved
<1>7. ASSUME NEW f \in Files, ReadFails(f) PROVE PkgTyped'
  <2>1. pkgImporters' \in [PkgImporters -> Importer]
    BY <1>7, AnsweredTyped DEF ReadFails
  <2>2. pkgHistory' \in PkgObserved
    <3>1. pkgHistory' = [pkgHistory EXCEPT !.faults = pkgHistory.faults + 1]
      BY <1>7 DEF ReadFails
    <3>2. pkgHistory.faults + 1 \in Nat
      BY <1>0 DEF PkgObserved
    <3> QED BY <1>0, <3>1, <3>2 DEF PkgObserved
  <2> QED BY <1>7, <2>1, <2>2 DEF ReadFails, PkgTyped, PkgObserved, Answer
<1>8. ASSUME NEW i \in PkgImporters, PkgImport(i) PROVE PkgTyped'
  <2>1. [NoImport EXCEPT !.at = IF pkgInstall = "idle" THEN "resolve" ELSE "waiting", !.sure = Sure]
          \in Importer
    BY Marks DEF NoImport, Importer, PkgStages, Answer, Sure
  <2>2. pkgHistory' \in PkgObserved
    <3>1. pkgHistory' = [pkgHistory EXCEPT !.imports = pkgHistory.imports + 1]
      BY <1>8 DEF PkgImport
    <3>2. pkgHistory.imports + 1 \in Nat
      BY <1>0 DEF PkgObserved
    <3> QED BY <1>0, <3>1, <3>2 DEF PkgObserved
  <2>3. pkgImporters' \in [PkgImporters -> Importer]
    BY <1>8, <2>1 DEF PkgImport, PkgTyped
  <2> QED BY <1>8, <2>2, <2>3 DEF PkgImport, PkgTyped, PkgObserved, pkgCaches
<1>9. ASSUME NEW i \in PkgImporters, PkgIdle(i) \/ InstalledFor(i) PROVE PkgTyped'
  <2>1. ForgetMissing
    BY <1>9 DEF PkgIdle, InstalledFor
  <2>2. pkgImporters' \in [PkgImporters -> Importer]
    <3>1. /\ [pkgImporters[i] EXCEPT !.at = "resolve", !.sure = Sure] \in Importer
          /\ [pkgImporters[i] EXCEPT !.at = "resolve", !.again = TRUE, !.sure = Sure] \in Importer
      BY <1>0 DEF Importer, PkgStages, Sure
    <3>2. \/ pkgImporters' = [pkgImporters EXCEPT ![i] =
                                [pkgImporters[i] EXCEPT !.at = "resolve", !.sure = Sure]]
          \/ pkgImporters' = [pkgImporters EXCEPT ![i] =
                                [pkgImporters[i] EXCEPT !.at = "resolve", !.again = TRUE, !.sure = Sure]]
      BY <1>9 DEF PkgIdle, InstalledFor, PkgTyped, Importer
    <3> QED BY <3>1, <3>2 DEF PkgTyped
  <2> QED BY <1>9, <2>1, <2>2, ForgetTyped DEF PkgIdle, InstalledFor, PkgTyped
<1>10. ASSUME NEW i \in PkgImporters, ResolveMemo(i) PROVE PkgTyped'
  <2> DEFINE known == pkgResolved[PkgKey[i]]
  <2>1. known \in {"none", "pending"} \cup Files /\ PkgKey[i] \in Keys
    BY Marks DEF PkgTyped
  <2>2. CASE known = "none"
    BY <1>10, <2>1, <2>2, GoesTyped DEF ResolveMemo, PkgTyped, PkgStages, pkgCaches
  <2>3. CASE known = "pending"
    <3>1. \E sure \in BOOLEAN :
            pkgImporters' = [pkgImporters EXCEPT ![i] =
                               [pkgImporters[i] EXCEPT !.at = "joined", !.sure = sure]]
      BY <1>10, <2>3 DEF ResolveMemo, SureWithRun
    <3>2. \A sure \in BOOLEAN : [pkgImporters[i] EXCEPT !.at = "joined", !.sure = sure] \in Importer
      BY <1>0 DEF Importer, PkgStages
    <3>3. pkgImporters' \in [PkgImporters -> Importer]
      BY <3>1, <3>2 DEF PkgTyped
    <3> QED BY <1>10, <2>3, <3>3 DEF ResolveMemo, PkgTyped, pkgCaches
  <2>4. CASE known \in Files
    <3>1. known \in Files /\ known # "none" /\ known # "pending"
      BY <2>4, Marks DEF Files, Json
    <3>2. [pkgImporters[i] EXCEPT !.at = "load", !.file = known] \in Importer
      BY <1>0, <3>1 DEF Importer, PkgStages
    <3>3. pkgImporters' = [pkgImporters EXCEPT ![i] =
                             [pkgImporters[i] EXCEPT !.at = "load", !.file = known]]
          /\ pkgResolved' = pkgResolved
      BY <1>10, <3>1 DEF ResolveMemo, PkgTyped
    <3>4. pkgImporters' \in [PkgImporters -> Importer]
      BY <3>2, <3>3 DEF PkgTyped
    <3> QED BY <1>10, <3>3, <3>4 DEF ResolveMemo, PkgTyped, pkgCaches
  <2> QED BY <2>1, <2>2, <2>3, <2>4
<1>11. ASSUME NEW i \in PkgImporters, ProbeFails(i) PROVE PkgTyped'
  <2>1. After(pkgImporters[i], Failing) \in Importer
    BY <1>0, AfterTyped
  <2>2. pkgImporters' \in [PkgImporters -> Importer]
    BY <1>11, <2>1 DEF ProbeFails, PkgTyped
  <2>3. pkgHistory' \in PkgObserved
    <3>1. pkgHistory' = [pkgHistory EXCEPT !.faults = pkgHistory.faults + 1]
      BY <1>11 DEF ProbeFails
    <3>2. pkgHistory.faults + 1 \in Nat
      BY <1>0 DEF PkgObserved
    <3> QED BY <1>0, <3>1, <3>2 DEF PkgObserved
  <2> QED BY <1>11, <2>2, <2>3 DEF ProbeFails, PkgTyped, PkgObserved, pkgCaches
<1>12. ASSUME NEW i \in PkgImporters, RunEnds(i) PROVE PkgTyped'
  <2> DEFINE path == IF pkgImporters[i].at = "resolved" THEN pkgImporters[i].file ELSE "none"
  <2>1. path \in {"none"} \cup Files /\ (path # "none" => path \in Files)
    BY <1>0 DEF Importer
  <2>2. \A j \in PkgImporters :
          /\ [pkgImporters[j] EXCEPT !.at = "install", !.got = pkgImporters[i].got] \in Importer
          /\ path \in Files => [pkgImporters[j] EXCEPT !.at = "load", !.file = path] \in Importer
    BY <1>0 DEF Importer, PkgStages
  <2>3. pkgImporters' \in [PkgImporters -> Importer]
    <3> HIDE DEF path
    <3> QED BY <1>0, <1>12, <2>1, <2>2 DEF RunEnds, path
  <2>4. pkgResolved' \in [Keys -> {"none", "pending"} \cup Files]
    BY <1>12, <2>1 DEF RunEnds, PkgTyped
  <2> QED BY <1>12, <2>3, <2>4 DEF RunEnds, PkgTyped, pkgCaches
<1>13. ASSUME NEW i \in PkgImporters, Install(i) PROVE PkgTyped'
  BY <1>13, GoesTyped DEF Install, PkgTyped, PkgStages, pkgCaches
<1>14. ASSUME NEW i \in PkgImporters, LoadModule(i) PROVE PkgTyped'
  <2> DEFINE f == pkgImporters[i].file
  <2>1. f \in Files
    BY <1>0 DEF Importer
  <2>2. CASE pkgMemo[f].content # Nothing \/ pkgMemo[f].isFile = Gone
    <3>1. [pkgImporters[i] EXCEPT !.at = "loadRead"] \in Importer
      BY <1>0 DEF Importer, PkgStages
    <3>2. pkgMemo[f].content \in Answer
      BY <2>1 DEF PkgTyped, Memo, Release, Answer
    <3>3. After([pkgImporters[i] EXCEPT !.at = "loadRead"], pkgMemo[f].content) \in Importer
      BY <3>1, <3>2, AfterTyped
    <3>4. pkgImporters' \in [PkgImporters -> Importer]
      BY <1>14, <2>2, <3>3 DEF LoadModule, PkgTyped
    <3> QED BY <1>14, <2>2, <3>4 DEF LoadModule, PkgTyped
  <2>3. CASE PkgGoes(i, "loadRead") /\ ReadOf(f)
    BY <1>14, <2>1, <2>3, GoesTyped, ReadOfTyped DEF LoadModule, PkgTyped, PkgStages
  <2> QED BY <1>14, <2>2, <2>3 DEF LoadModule
<1>15. ASSUME NEW i \in PkgImporters, LoadPackageJson(i) PROVE PkgTyped'
  <2> DEFINE known == IF pkgJson # Nothing THEN pkgJson
                      ELSE IF pkgMemo[Json].content # Nothing THEN pkgMemo[Json].content
                      ELSE pkgMemo[Json].isFile
  <2>0. known \in Answer \cup {1} /\ Json \in Files
    BY Marks DEF PkgTyped, Memo, Answer, Release
  <2>1. known \in Answer
    BY <2>0 DEF PkgTyped, Memo, Answer, Release, Registered
  <2>2. CASE known = Nothing
    <3>1. [pkgImporters[i] EXCEPT !.at = "jsonRead", !.file = Json] \in Importer
      BY <1>0, <2>0 DEF Importer, PkgStages
    <3>2. pkgImporters' = [pkgImporters EXCEPT
                             ![i] = [pkgImporters[i] EXCEPT !.at = "jsonRead", !.file = Json]]
      BY <1>15, <2>2 DEF LoadPackageJson
    <3>3. ReadOf(Json)
      BY <1>15, <2>2 DEF LoadPackageJson
    <3> QED BY <1>15, <2>0, <2>1, <3>1, <3>2, <3>3, ReadOfTyped DEF LoadPackageJson, PkgTyped
  <2>3. CASE known # Nothing
    <3>1. [pkgImporters[i] EXCEPT !.at = "jsonRead"] \in Importer
      BY <1>0 DEF Importer, PkgStages
    <3>2. After([pkgImporters[i] EXCEPT !.at = "jsonRead"], known) \in Importer
      BY <2>1, <3>1, AfterTyped
    <3>3. /\ pkgImporters' = [pkgImporters EXCEPT
                ![i] = After([pkgImporters[i] EXCEPT !.at = "jsonRead"], known)]
          /\ UNCHANGED <<pkgReads, pkgContent>>
      BY <1>15, <2>3 DEF LoadPackageJson
    <3> QED BY <1>15, <2>1, <3>2, <3>3 DEF LoadPackageJson, PkgTyped
  <2> QED BY <2>2, <2>3
<1>16. ASSUME NEW i \in PkgImporters, ProbeMain(i) PROVE PkgTyped'
  <2> DEFINE f == pkgImporters[i].file
             known == IF pkgMemo[f].content # Nothing THEN 1 ELSE pkgMemo[f].isFile
  <2>0. f \in Files /\ known \in {Gone, Nothing, 1}
    BY <1>0 DEF Importer, PkgTyped, Memo
  <2>1. CASE known = Nothing
    <3>1. Lookup(f) \in Answer /\ Kept(f) \in [Files -> Release]
      BY <2>0, LookupTyped
    <3>2. [pkgImporters[i] EXCEPT !.at = "isFileRead", !.got = Lookup(f)] \in Importer
      BY <1>0, <3>1 DEF Importer, PkgStages
    <3>3. pkgImporters' = [pkgImporters EXCEPT
             ![i] = [pkgImporters[i] EXCEPT !.at = "isFileRead", !.got = Lookup(f)]]
          /\ pkgContent' = Kept(f)
      BY <1>16, <2>1 DEF ProbeMain
    <3> QED BY <1>16, <3>1, <3>2, <3>3 DEF ProbeMain, PkgTyped
  <2>2. CASE known # Nothing
    <3>1. [pkgImporters[i] EXCEPT !.at = "isFileRead"] \in Importer
      BY <1>0 DEF Importer, PkgStages
    <3>2. known = 1 \/ known \in Answer
      BY <2>0 DEF Answer
    <3>3. After([pkgImporters[i] EXCEPT !.at = "isFileRead"], known) \in Importer
      BY <1>0, <3>1, <3>2, AfterTyped DEF Importer
    <3>4. pkgImporters' = [pkgImporters EXCEPT
             ![i] = After([pkgImporters[i] EXCEPT !.at = "isFileRead"], known)]
          /\ pkgContent' = pkgContent
      BY <1>16, <2>2 DEF ProbeMain
    <3> QED BY <1>16, <3>3, <3>4 DEF ProbeMain, PkgTyped
  <2> QED BY <2>1, <2>2
<1>17. ASSUME NEW i \in PkgImporters, ProbeEnds(i) PROVE PkgTyped'
  <2> DEFINE f == pkgImporters[i].file
             answer == pkgImporters[i].got
  <2>0. f \in Files /\ answer \in Answer \cup {Failing}
    BY <1>0 DEF Importer
  <2>1. pkgMemo' \in [Files -> Memo]
    <3>1. \E is \in {Gone, Nothing, 1} : pkgMemo' = [pkgMemo EXCEPT ![f] = [pkgMemo[f] EXCEPT !.isFile = is]]
      <4>1. pkgMemo' = [pkgMemo EXCEPT ![f] = [pkgMemo[f] EXCEPT !.isFile = IF answer = Gone THEN Gone ELSE 1]]
        BY <1>17, <2>0 DEF ProbeEnds, PkgTyped, Memo
      <4>2. (IF answer = Gone THEN Gone ELSE 1) \in {Gone, Nothing, 1}
        OBVIOUS
      <4> QED BY <4>1, <4>2
    <3>2. \A is \in {Gone, Nothing, 1} : [pkgMemo[f] EXCEPT !.isFile = is] \in Memo
      BY <2>0 DEF PkgTyped, Memo
    <3>3. PICK is \in {Gone, Nothing, 1} : pkgMemo' = [pkgMemo EXCEPT ![f] = [pkgMemo[f] EXCEPT !.isFile = is]]
      BY <3>1
    <3>4. [pkgMemo[f] EXCEPT !.isFile = is] \in Memo
      BY <3>2
    <3>5. pkgMemo \in [Files -> Memo]
      BY DEF PkgTyped
    <3> QED BY <3>3, <3>4, <3>5
  <2>2. pkgContent' \in [Files -> Release]
    <3>1. answer > 0 => answer \in Release
      BY <2>0, Marks DEF Answer, Release
    <3> QED BY <1>17, <3>1 DEF ProbeEnds, PkgTyped
  <2>3. pkgImporters' \in [PkgImporters -> Importer]
    <3>1. After(pkgImporters[i], answer) \in Importer
      BY <1>0, <2>0, AfterTyped
    <3> QED BY <1>17, <3>1 DEF ProbeEnds, PkgTyped
  <2>4. pkgHistory' \in PkgObserved
    <3>1. \E late \in BOOLEAN : pkgHistory' = [pkgHistory EXCEPT !.late = late]
      BY <1>0, <1>17 DEF ProbeEnds, PkgObserved
    <3> QED BY <1>0, <3>1 DEF PkgObserved
  <2> QED BY <1>17, <2>1, <2>2, <2>3, <2>4 DEF ProbeEnds, PkgTyped, PkgObserved
<1> QED BY <1>1, <1>2, <1>3, <1>4, <1>5, <1>6, <1>7, <1>8, <1>9, <1>10, <1>11, <1>12, <1>13, <1>14,
          <1>15, <1>16, <1>17 DEF PkgNext
----------------------------------------------------------------------------
(* PackageFiles: what the steps keep. *)

\* What follows an answer, by the stage it leads to.
LEMMA AfterLeads ==
  ASSUME NEW importer \in Importer, importer.at \in {"jsonRead", "isFileRead", "loadRead"}, NEW answer
  PROVE  LET new == After(importer, answer) IN
         /\ new.sure = importer.sure
         /\ new.at \in {"isFile", "resolved", "linked", "failed", "missed"}
         /\ new.at \in {"failed", "missed"} => new.got = answer /\ ~(answer > 0)
         /\ new.at = "isFile" => importer.at = "jsonRead" /\ answer > 0 /\ new.file = PkgMain[answer]
         /\ new.at = "resolved" => importer.at = "isFileRead" /\ answer > 0 /\ new.file = importer.file
         /\ new.at = "linked" => /\ importer.at = "loadRead" /\ answer > 0
                                 /\ new.file = importer.file /\ new.got = answer
         /\ new.at = "missed" => importer.at # "loadRead"
         /\ new.at = "failed" => importer.at = "loadRead"
<1>1. CASE importer.at = "jsonRead" /\ answer > 0
  <2>1. After(importer, answer) = [importer EXCEPT !.at = "isFile", !.file = PkgMain[answer]]
    BY <1>1 DEF After
  <2> QED BY <1>1, <2>1 DEF Importer
<1>2. CASE importer.at = "isFileRead" /\ answer > 0
  <2>1. After(importer, answer) = [importer EXCEPT !.at = "resolved"]
    BY <1>2 DEF After
  <2> QED BY <1>2, <2>1 DEF Importer
<1>3. CASE importer.at = "loadRead" /\ answer > 0
  <2>1. After(importer, answer) = [importer EXCEPT !.at = "linked", !.got = answer]
    BY <1>3 DEF After
  <2> QED BY <1>3, <2>1 DEF Importer
<1>4. CASE importer.at = "loadRead" /\ ~(answer > 0)
  <2>1. After(importer, answer) = [importer EXCEPT !.at = "failed", !.got = answer]
    BY <1>4 DEF After
  <2> QED BY <1>4, <2>1 DEF Importer
<1>5. CASE importer.at # "loadRead" /\ ~(answer > 0)
  <2>1. After(importer, answer) = [importer EXCEPT !.at = "missed", !.got = answer]
    BY <1>5 DEF After
  <2> QED BY <1>5, <2>1 DEF Importer
<1> QED BY <1>1, <1>2, <1>3, <1>4, <1>5

LEMMA AloneMains ==
  ASSUME PkgTyped, Registered, Alone, pkgModule # Nothing
  PROVE  Shown = {pkgModule} /\ ShownMains = {PkgMain[pkgModule]}
<1>1. pkgModule \in Shown
  BY DEF Registered
<1>2. \A r \in Shown : r = pkgModule
  BY <1>1 DEF Alone
<1> QED BY <1>1, <1>2 DEF ShownMains

LEMMA ShownReleases ==
  ASSUME PkgTyped
  PROVE  /\ Shown \subseteq PkgReleases /\ ShownMains \subseteq Mains
         /\ \A r \in Shown : PkgMain[r] \in ShownMains
  BY Marks DEF PkgTyped, Shown, ShownMains

\* A lookup answers from a release that was registered.
LEMMA LookupRegistered ==
  ASSUME PkgTyped, Registered, NEW f \in Files
  PROVE  /\ Lookup(f) \in Shown \cup {Gone}
         /\ \A g \in Files : Kept(f)[g] \in Shown \cup {Nothing}
         /\ Has(f) => Lookup(f) \in Shown
<1>1. pkgModule # Nothing => pkgModule \in Shown
  BY DEF Registered
<1>2. \A g \in Files : pkgContent[g] \in Shown \cup {Nothing}
  BY DEF Registered
<1>3. pkgContent \in [Files -> Release]
  BY DEF PkgTyped
<1>4. Has(f) => pkgModule # Nothing
  BY DEF Has
<1>5. /\ Lookup(f) \in {Gone, pkgContent[f], pkgModule}
      /\ Lookup(f) = Gone \/ (Has(f) /\ Lookup(f) # Nothing)
      /\ Has(f) => Lookup(f) \in {pkgContent[f], pkgModule} /\ Lookup(f) # Nothing
  BY <1>4 DEF Lookup
<1>6. \A g \in Files : Kept(f)[g] = pkgContent[g] \/ (Has(f) /\ Kept(f)[g] = pkgModule)
  BY <1>3 DEF Kept
<1> QED BY <1>1, <1>2, <1>4, <1>5, <1>6

LEMMA ReadOfRegistered ==
  ASSUME PkgTyped, Registered, NEW f \in Files, ReadOf(f)
  PROVE  \A g \in Files : /\ pkgContent'[g] \in Shown \cup {Nothing}
                          /\ pkgReads'[g] \in Shown \cup {Nothing, Gone}
  BY LookupRegistered DEF ReadOf, Registered, PkgTyped

LEMMA Forgetting ==
  ASSUME PkgTyped, Registered, ForgetMissing \/ Forget
  PROVE  /\ pkgJson' \in Shown \cup {Nothing} /\ pkgJson' # Gone
         /\ \A f \in Files : pkgMemo'[f].isFile # Gone /\ pkgMemo'[f].content \in Shown \cup {Nothing}
         /\ pkgMemo'[Json].isFile = 1 => pkgMemo'[Json].content # Nothing
<1>1. Forgotten.content = Nothing /\ Forgotten.isFile = Nothing
  BY DEF Forgotten
<1>2. \A f \in Files : pkgMemo'[f] = Forgotten \/ (pkgMemo'[f] = pkgMemo[f] /\ pkgMemo[f].isFile # Gone)
  BY DEF ForgetMissing, Forget
<1>3. pkgJson' = Nothing \/ (pkgJson' = pkgJson /\ pkgJson # Gone)
  BY DEF ForgetMissing, Forget
<1> QED BY <1>1, <1>2, <1>3, Marks DEF Registered

\* Nothing seen is forgotten, so an exception stays one.
LEMMA ShownGrows ==
  ASSUME PkgTyped, PkgNext
  PROVE  /\ Shown \subseteq Shown' /\ ShownMains \subseteq ShownMains'
         /\ pkgHistory.late => pkgHistory'.late
         /\ Excepted => Excepted'
<1> DEFINE Grown == Shown \subseteq Shown' /\ (pkgHistory.late => pkgHistory'.late)
<1>0. pkgHistory \in PkgObserved
  BY DEF PkgTyped, PkgObserved
<1>1. Links \/ LinkReads \/ InstallSucceeds => Grown
  BY DEF Links, LinkReads, InstallSucceeds, Shown
<1>2. InstallFails => Grown
  BY <1>0 DEF InstallFails, Shown, PkgObserved
<1>3. ASSUME NEW r \in PkgReleases, Register(r) PROVE Grown
  BY <1>0, <1>3 DEF Register, Shown, PkgObserved
<1>4. ASSUME NEW f \in Files, ReadEnds(f) \/ ReadFails(f) PROVE Grown
  BY <1>0, <1>4 DEF ReadEnds, ReadFails, Shown, PkgObserved
<1>5. ASSUME NEW i \in PkgImporters, PkgImport(i) \/ PkgIdle(i) \/ ResolveMemo(i) \/ LoadPackageJson(i)
      PROVE  Grown
  BY <1>0, <1>5 DEF PkgImport, PkgIdle, ResolveMemo, LoadPackageJson, Shown, PkgObserved
<1>6. ASSUME NEW i \in PkgImporters, ProbeMain(i) \/ ProbeEnds(i) \/ ProbeFails(i) \/ RunEnds(i)
      PROVE  Grown
  BY <1>0, <1>6 DEF ProbeMain, ProbeEnds, ProbeFails, RunEnds, Shown, PkgObserved
<1>7. ASSUME NEW i \in PkgImporters, Install(i) \/ InstalledFor(i) \/ LoadModule(i) PROVE Grown
  BY <1>0, <1>7 DEF Install, InstalledFor, LoadModule, Shown, PkgObserved
<1>8. Grown
  BY <1>1, <1>2, <1>3, <1>4, <1>5, <1>6, <1>7 DEF PkgNext
<1> QED BY <1>8 DEF Excepted, Alone, ShownMains

LEMMA SureStays == ASSUME PkgTyped, PkgNext, Sure PROVE Sure'
<1> USE DEF Sure
<1>1. UNCHANGED <<pkgModule, pkgInstall>> => Sure'
  OBVIOUS
<1>2. ~(Links \/ LinkReads \/ InstallSucceeds \/ InstallFails)
  BY DEF Links, LinkReads, InstallSucceeds, InstallFails
<1>3. ASSUME NEW r \in PkgReleases, Register(r) PROVE FALSE
  BY <1>3 DEF Register
<1>4. ASSUME NEW f \in Files, ReadEnds(f) \/ ReadFails(f) PROVE Sure'
  BY <1>1, <1>4 DEF ReadEnds, ReadFails
<1>5. ASSUME NEW i \in PkgImporters, PkgImport(i) \/ PkgIdle(i) \/ ResolveMemo(i) \/ LoadPackageJson(i)
      PROVE  Sure'
  BY <1>1, <1>5 DEF PkgImport, PkgIdle, ResolveMemo, LoadPackageJson
<1>6. ASSUME NEW i \in PkgImporters, ProbeMain(i) \/ ProbeEnds(i) \/ ProbeFails(i) \/ RunEnds(i)
      PROVE  Sure'
  BY <1>1, <1>6 DEF ProbeMain, ProbeEnds, ProbeFails, RunEnds
<1>7. ASSUME NEW i \in PkgImporters, Install(i) \/ InstalledFor(i) \/ LoadModule(i) PROVE Sure'
  BY <1>1, <1>7 DEF Install, InstalledFor, LoadModule
<1> QED BY <1>2, <1>3, <1>4, <1>5, <1>6, <1>7 DEF PkgNext

LEMMA OneRunStays ==
  ASSUME OneRun, pkgResolved' = pkgResolved,
         \A j \in PkgImporters :
           /\ Runs(j)' => Runs(j) /\ pkgImporters'[j].sure = pkgImporters[j].sure
           /\ pkgImporters'[j].at = "joined" =>
                pkgImporters[j].at = "joined" /\ pkgImporters'[j].sure = pkgImporters[j].sure
  PROVE  OneRun'
<1> SUFFICES ASSUME NEW i \in PkgImporters, NEW j \in PkgImporters, PkgKey[i] = PkgKey[j]
             PROVE  /\ Runs(i)' \/ pkgImporters'[i].at = "joined" => pkgResolved'[PkgKey[i]] = "pending"
                    /\ Runs(i)' /\ Runs(j)' => i = j
                    /\ pkgImporters'[i].at = "joined" /\ pkgImporters'[i].sure /\ Runs(j)'
                         => pkgImporters'[j].sure
  BY DEF OneRun
<1> QED BY DEF OneRun

LEMMA FollowedStays ==
  ASSUME NEW j \in PkgImporters, FollowedBy(pkgImporters[j]), pkgImporters'[j] = pkgImporters[j],
         Shown \subseteq Shown', ShownMains \subseteq ShownMains'
  PROVE  FollowedBy(pkgImporters[j])'
  BY DEF FollowedBy

LEMMA ServedStays ==
  ASSUME NEW j \in PkgImporters, ServedTo(pkgImporters[j]), pkgImporters'[j] = pkgImporters[j],
         Sure => Sure', Excepted => Excepted'
  PROVE  ServedTo(pkgImporters[j])'
  BY DEF ServedTo

\* A step of one importer: the others are followed and served as before.
LEMMA OneMoves ==
  ASSUME PkgTyped, Following, PkgNext, NEW i \in PkgImporters,
         \A j \in PkgImporters : j # i => pkgImporters'[j] = pkgImporters[j],
         pkgResolved' = pkgResolved, pkgImporters'[i].at # "joined",
         Runs(i)' => Runs(i) /\ pkgImporters'[i].sure = pkgImporters[i].sure,
         FollowedBy(pkgImporters[i])', ServedTo(pkgImporters[i])'
  PROVE  Followed' /\ OneRun' /\ Serves'
<1>1. Followed'
  BY ShownGrows, FollowedStays DEF Followed, Following
<1>2. Serves'
  BY ShownGrows, SureStays, ServedStays DEF Serves, Following
<1>3. OneRun'
  <2>1. \A j \in PkgImporters : j # i => (Runs(j)' => Runs(j))
    BY DEF Runs
  <2> QED BY <2>1, OneRunStays DEF Following
<1> QED BY <1>1, <1>2, <1>3

\* A step that leaves the importers alone.
LEMMA NoneMoves ==
  ASSUME PkgTyped, Following, PkgNext, UNCHANGED <<pkgImporters, pkgResolved>>
  PROVE  Followed' /\ OneRun' /\ Serves'
<1>1. Followed'
  BY ShownGrows, FollowedStays DEF Followed, Following
<1>2. Serves'
  BY ShownGrows, SureStays, ServedStays DEF Serves, Following
<1>3. OneRun'
  BY OneRunStays DEF Following, Runs
<1> QED BY <1>1, <1>2, <1>3

LEMMA ForgetsStays ==
  ASSUME PkgTyped, Forgets, PkgNext, UNCHANGED <<pkgModule, pkgInstall, pkgJson, pkgMemo>>
  PROVE  Forgets'
  BY ShownGrows DEF Forgets, Sure

LEMMA RegisteredStays ==
  ASSUME Registered, UNCHANGED <<pkgModule, pkgCaches, pkgResolved>>, Shown' = Shown
  PROVE  Registered'
  BY DEF Registered, pkgCaches, ShownMains
----------------------------------------------------------------------------
(* PackageFiles: the install. *)

LEMMA InstallFollows ==
  ASSUME PkgTyped, Following, PkgNext, Links \/ LinkReads \/ (\E r \in PkgReleases : Register(r))
  PROVE  Following'
<1>1. UNCHANGED <<pkgImporters, pkgResolved>>
  BY DEF Links, LinkReads, Register
<1>2. Followed' /\ OneRun' /\ Serves'
  BY <1>1, NoneMoves
<1>3. Registered /\ Forgets
  BY DEF Following
<1>4. CASE Links
  <2>1. Shown' = Shown /\ ShownMains' = ShownMains /\ ForgetMissing
    BY <1>4 DEF Links, Shown, ShownMains
  <2>2. Registered'
    BY <1>3, <1>4, <2>1, Forgetting DEF Registered, Links
  <2>3. Forgets'
    <3>1. pkgJson' # Gone /\ \A f \in Files : pkgMemo'[f].isFile # Gone
      BY <1>3, <2>1, Forgetting
    <3>2. pkgModule' # Nothing /\ pkgModule' \in PkgReleases
      BY <1>4 DEF Links, PkgTyped, Release
    <3>3. {Json, PkgMain[pkgModule']} \subseteq Files
      BY <3>2, Marks
    <3> QED BY <3>1, <3>2, <3>3 DEF Forgets
  <2> QED BY <1>2, <2>2, <2>3 DEF Following
<1>5. CASE LinkReads
  <2>1. Shown' = Shown /\ ShownMains' = ShownMains /\ ReadOf(Json) /\ Json \in Files
    BY <1>5, Marks DEF LinkReads, Shown, ShownMains
  <2>2. Registered'
    BY <1>3, <1>5, <2>1, ReadOfRegistered DEF Registered, LinkReads
  <2>3. Forgets'
    BY <1>3, <1>5, ForgetsStays DEF LinkReads
  <2> QED BY <1>2, <2>2, <2>3 DEF Following
<1>6. ASSUME NEW r \in PkgReleases, Register(r) PROVE Following'
  <2>1. Shown' = Shown \cup {r}
    BY <1>6 DEF Register, Shown, PkgTyped
  <2>2. Registered'
    <3>1. IsFiniteSet(Shown')
      BY <1>3, <2>1, FS_AddElement DEF Registered
    <3>2. ShownMains \subseteq ShownMains'
      BY ShownGrows
    <3> QED BY <1>3, <1>6, <2>1, <3>1, <3>2 DEF Registered, Register, pkgCaches
  <2>3. Forgets'
    BY <1>6 DEF Forgets, Register, Sure
  <2> QED BY <1>2, <2>2, <2>3 DEF Following
<1> QED BY <1>4, <1>5, <1>6

LEMMA InstallEndsFollows ==
  ASSUME PkgTyped, Following, PkgNext, InstallSucceeds \/ InstallFails
  PROVE  Following'
<1>1. Registered /\ Followed /\ OneRun /\ Forgets /\ Serves
  BY DEF Following
<1>2. /\ \E at \in {"installed", "failed"} : pkgImporters' = Settled(at)
      /\ pkgResolved' = pkgResolved /\ ~Sure
      /\ Shown' = Shown /\ ShownMains' = ShownMains
  BY DEF InstallSucceeds, InstallFails, Sure, Shown, ShownMains, PkgTyped
<1>3. PICK at \in {"installed", "failed"} : pkgImporters' = Settled(at)
  BY <1>2
<1>4. \A j \in PkgImporters :
        /\ pkgImporters'[j].sure = pkgImporters[j].sure
        /\ pkgImporters'[j] = pkgImporters[j] \/ pkgImporters'[j].at = at
  BY <1>3 DEF Settled, PkgTyped, Importer
<1>5. Followed'
  <2> SUFFICES ASSUME NEW j \in PkgImporters PROVE FollowedBy(pkgImporters[j])'
    BY DEF Followed
  <2> QED BY <1>1, <1>2, <1>4 DEF Followed, FollowedBy
<1>6. Serves'
  <2> SUFFICES ASSUME NEW j \in PkgImporters PROVE ServedTo(pkgImporters[j])'
    BY DEF Serves
  <2> QED BY <1>1, <1>2, <1>4 DEF Serves, ServedTo
<1>7. OneRun'
  <2>1. \A j \in PkgImporters : Runs(j)' => Runs(j)
    BY <1>4 DEF Runs
  <2>2. \A j \in PkgImporters : pkgImporters'[j].at = "joined" => pkgImporters[j].at = "joined"
    BY <1>4
  <2> QED BY <1>1, <1>2, <1>4, <2>1, <2>2, OneRunStays
<1>8. CASE InstallSucceeds
  <2>1. Registered'
    BY <1>1, <1>2, <1>8, RegisteredStays DEF InstallSucceeds
  <2>2. Forgets'
    BY <1>1, <1>8, ShownGrows DEF Forgets, InstallSucceeds, pkgCaches
  <2> QED BY <1>5, <1>6, <1>7, <2>1, <2>2 DEF Following
<1>9. CASE InstallFails
  <2>1. Forgets'
    BY <1>9 DEF Forgets, InstallFails, Sure
  <2>2. Registered'
    <3>1. CASE pkgModule = Nothing
      BY <1>1, <1>2, <1>9, <3>1 DEF Registered, InstallFails
    <3>2. CASE pkgModule # Nothing
      <4>1. Forget
        BY <1>9, <3>2 DEF InstallFails
      <4> QED BY <1>1, <1>2, <1>9, <4>1, Forgetting DEF Registered, InstallFails
    <3> QED BY <3>1, <3>2
  <2> QED BY <1>5, <1>6, <1>7, <2>1, <2>2 DEF Following
<1> QED BY <1>8, <1>9
----------------------------------------------------------------------------
(* PackageFiles: the steps of one importer. *)

\* An importer starts over: it is as sure as the registry is idle.
LEMMA StartsFollows ==
  ASSUME PkgTyped, Following, PkgNext, NEW i \in PkgImporters,
         PkgImport(i) \/ PkgIdle(i) \/ InstalledFor(i)
  PROVE  Following'
<1>0. Registered /\ Forgets /\ pkgImporters[i] \in Importer
  BY DEF Following, PkgTyped
<1>1. /\ pkgImporters'[i].at \in {"resolve", "waiting"}
      /\ pkgImporters'[i].sure = Sure
      /\ \A j \in PkgImporters : j # i => pkgImporters'[j] = pkgImporters[j]
      /\ UNCHANGED <<pkgModule, pkgInstall, pkgResolved>> /\ Shown' = Shown
  <2>1. CASE PkgImport(i)
    <3>1. pkgImporters' = [pkgImporters EXCEPT ![i] = [NoImport EXCEPT
            !.at = IF pkgInstall = "idle" THEN "resolve" ELSE "waiting", !.sure = Sure]]
      BY <2>1 DEF PkgImport
    <3>2. Shown' = Shown
      BY <2>1 DEF PkgImport, Shown, PkgTyped
    <3> QED BY <2>1, <3>1, <3>2 DEF PkgImport, PkgTyped, NoImport, pkgCaches
  <2>2. CASE PkgIdle(i) \/ InstalledFor(i)
    BY <1>0, <2>2 DEF PkgIdle, InstalledFor, PkgTyped, Importer, Shown
  <2> QED BY <2>1, <2>2
<1>2. FollowedBy(pkgImporters[i])' /\ ~Runs(i)'
  BY <1>1 DEF FollowedBy, Runs
<1>3. ServedTo(pkgImporters[i])'
  BY <1>1 DEF ServedTo, Sure
<1>4. Followed' /\ OneRun' /\ Serves'
  BY <1>1, <1>2, <1>3, OneMoves
<1>5. CASE PkgImport(i)
  <2>1. UNCHANGED pkgCaches
    BY <1>5 DEF PkgImport
  <2>2. Registered' /\ Forgets'
    BY <1>0, <1>1, <2>1, RegisteredStays, ForgetsStays DEF pkgCaches
  <2> QED BY <1>4, <2>2 DEF Following
<1>6. CASE PkgIdle(i) \/ InstalledFor(i)
  <2>1. ForgetMissing /\ UNCHANGED <<pkgContent, pkgReads>>
    BY <1>6 DEF PkgIdle, InstalledFor
  <2>2. /\ pkgJson' \in Shown \cup {Nothing} /\ pkgJson' # Gone
        /\ \A f \in Files : pkgMemo'[f].isFile # Gone /\ pkgMemo'[f].content \in Shown \cup {Nothing}
        /\ pkgMemo'[Json].isFile = 1 => pkgMemo'[Json].content # Nothing
    BY <1>0, <2>1, Forgetting
  <2>3. Registered'
    BY <1>0, <1>1, <2>1, <2>2 DEF Registered, ShownMains
  <2>4. Forgets'
    <3> SUFFICES ASSUME pkgInstall' = "linked" \/ Sure' PROVE Forgets'
      BY DEF Forgets
    <3>1. pkgModule' # Nothing
      BY <1>0, <1>1 DEF Forgets, Sure
    <3>2. {Json, PkgMain[pkgModule']} \subseteq Files
      BY <1>1, <3>1, Marks DEF PkgTyped, Release
    <3> QED BY <2>2, <3>1, <3>2 DEF Forgets
  <2> QED BY <1>4, <2>3, <2>4 DEF Following
<1> QED BY <1>5, <1>6

LEMMA ResolveFollows ==
  ASSUME PkgTyped, Following, PkgNext, NEW i \in PkgImporters, ResolveMemo(i)
  PROVE  Following'
<1> DEFINE known == pkgResolved[PkgKey[i]]
<1>0. /\ Registered /\ Followed /\ OneRun /\ Forgets /\ Serves
      /\ pkgImporters[i] \in Importer /\ PkgKey[i] \in Keys /\ pkgImporters[i].at = "resolve"
  BY Marks DEF Following, PkgTyped, ResolveMemo
<1>1. /\ \A j \in PkgImporters : j # i => pkgImporters'[j] = pkgImporters[j]
      /\ UNCHANGED <<pkgModule, pkgInstall, pkgCaches>> /\ Shown' = Shown /\ ShownMains' = ShownMains
  BY DEF ResolveMemo, PkgGoes, PkgTyped, Shown, ShownMains
<1>2. Forgets'
  BY <1>0, <1>1, ForgetsStays DEF pkgCaches
<1>3. known \in {"none", "pending"} \cup ShownMains /\ \A f \in ShownMains : f # "none" /\ f # "pending"
  BY <1>0, Marks, ShownReleases DEF Registered
<1>4. CASE known = "none"
  <2>1. /\ pkgImporters' = [pkgImporters EXCEPT ![i].at = "json"]
        /\ pkgResolved' = [pkgResolved EXCEPT ![PkgKey[i]] = "pending"]
    BY <1>4 DEF ResolveMemo, PkgGoes
  <2>2. pkgImporters'[i] = [pkgImporters[i] EXCEPT !.at = "json"]
    BY <2>1 DEF PkgTyped
  <2>3. pkgImporters'[i].at = "json" /\ pkgImporters'[i].sure = pkgImporters[i].sure
    BY <1>0, <2>2 DEF Importer
  <2>4. Followed'
    <3>1. FollowedBy(pkgImporters[i])'
      BY <2>3 DEF FollowedBy
    <3> QED BY <1>0, <1>1, <3>1, FollowedStays DEF Followed
  <2>5. Serves'
    <3>1. ServedTo(pkgImporters[i])'
      BY <1>0, <1>1, <2>3, SureStays DEF ServedTo, Serves
    <3> QED BY <1>0, <1>1, <3>1, ServedStays, SureStays, ShownGrows DEF Serves
  <2>6. OneRun'
    <3>1. \A k \in Keys : pkgResolved'[k] = IF k = PkgKey[i] THEN "pending" ELSE pkgResolved[k]
      BY <1>0, <2>1 DEF PkgTyped
    <3>2. \A j \in PkgImporters : PkgKey[j] = PkgKey[i] => ~Runs(j) /\ pkgImporters[j].at # "joined"
      BY <1>0, <1>4 DEF OneRun
    <3>3. \A j \in PkgImporters : j # i => (Runs(j)' <=> Runs(j)) /\ pkgImporters'[j] = pkgImporters[j]
      BY <1>1 DEF Runs
    <3> SUFFICES ASSUME NEW j \in PkgImporters, NEW l \in PkgImporters, PkgKey[j] = PkgKey[l]
                 PROVE  /\ Runs(j)' \/ pkgImporters'[j].at = "joined" => pkgResolved'[PkgKey[j]] = "pending"
                        /\ Runs(j)' /\ Runs(l)' => j = l
                        /\ pkgImporters'[j].at = "joined" /\ pkgImporters'[j].sure /\ Runs(l)'
                             => pkgImporters'[l].sure
      BY DEF OneRun
    <3>4. PkgKey[j] \in Keys
      BY Marks
    <3>5. CASE PkgKey[j] = PkgKey[i]
      BY <2>3, <3>1, <3>2, <3>3, <3>4, <3>5
    <3>6. CASE PkgKey[j] # PkgKey[i]
      BY <1>0, <3>1, <3>3, <3>4, <3>6 DEF OneRun
    <3> QED BY <3>5, <3>6
  <2>7. Registered'
    BY <1>0, <1>1, <2>1 DEF Registered, PkgTyped, pkgCaches
  <2> QED BY <1>2, <2>4, <2>5, <2>6, <2>7 DEF Following
<1>5. CASE known = "pending"
  <2>1. /\ pkgImporters' = [pkgImporters EXCEPT
             ![i] = [pkgImporters[i] EXCEPT !.at = "joined", !.sure = SureWithRun(i)]]
        /\ SureWithRun(i) \in BOOLEAN
    BY <1>5 DEF ResolveMemo, SureWithRun
  <2>2. /\ pkgImporters'[i].at = "joined" /\ pkgResolved' = pkgResolved
        /\ pkgImporters'[i].sure => pkgImporters[i].sure /\ \A j \in RunFor(i) : pkgImporters[j].sure
    <3>1. pkgImporters'[i] = [pkgImporters[i] EXCEPT !.at = "joined", !.sure = SureWithRun(i)]
      BY <2>1 DEF PkgTyped
    <3>2. pkgResolved' = pkgResolved
      BY <1>5 DEF ResolveMemo
    <3>3. pkgImporters'[i].sure = SureWithRun(i) /\ pkgImporters'[i].at = "joined"
      BY <1>0, <3>1 DEF Importer
    <3> QED BY <3>2, <3>3 DEF SureWithRun
  <2>3. Followed'
    <3>1. FollowedBy(pkgImporters[i])'
      BY <2>2 DEF FollowedBy
    <3> QED BY <1>0, <1>1, <3>1, FollowedStays DEF Followed
  <2>4. Serves'
    <3>1. ServedTo(pkgImporters[i])'
      BY <1>0, <1>1, <2>2, SureStays DEF ServedTo, Serves
    <3> QED BY <1>0, <1>1, <3>1, ServedStays, SureStays, ShownGrows DEF Serves
  <2>5. OneRun'
    <3>1. \A j \in PkgImporters : j # i => (Runs(j)' <=> Runs(j)) /\ pkgImporters'[j] = pkgImporters[j]
      BY <1>1 DEF Runs
    <3>2. ~Runs(i)'
      BY <2>2 DEF Runs
    <3>3. \A j \in PkgImporters : PkgKey[j] = PkgKey[i] /\ Runs(j) => j \in RunFor(i)
      BY DEF RunFor, Runs
    <3> SUFFICES ASSUME NEW j \in PkgImporters, NEW l \in PkgImporters, PkgKey[j] = PkgKey[l]
                 PROVE  /\ Runs(j)' \/ pkgImporters'[j].at = "joined" => pkgResolved'[PkgKey[j]] = "pending"
                        /\ Runs(j)' /\ Runs(l)' => j = l
                        /\ pkgImporters'[j].at = "joined" /\ pkgImporters'[j].sure /\ Runs(l)'
                             => pkgImporters'[l].sure
      BY DEF OneRun
    <3>4. CASE j = i
      BY <1>5, <2>2, <3>1, <3>2, <3>3, <3>4
    <3>5. CASE j # i
      BY <1>0, <2>2, <3>1, <3>2, <3>5 DEF OneRun
    <3> QED BY <3>4, <3>5
  <2>6. Registered'
    BY <1>0, <1>1, <2>2, RegisteredStays
  <2> QED BY <1>2, <2>3, <2>4, <2>5, <2>6 DEF Following
<1>6. CASE known \in ShownMains
  <2>1. pkgImporters'[i] = [pkgImporters[i] EXCEPT !.at = "load", !.file = known] /\ pkgResolved' = pkgResolved
    BY <1>3, <1>6 DEF ResolveMemo, PkgTyped
  <2>2. /\ pkgImporters'[i].at = "load" /\ pkgImporters'[i].file \in ShownMains
        /\ pkgImporters'[i].sure = pkgImporters[i].sure
    BY <1>0, <1>6, <2>1 DEF Importer
  <2>3. FollowedBy(pkgImporters[i])' /\ ~Runs(i)'
    BY <1>1, <2>2 DEF FollowedBy, Runs
  <2>4. ServedTo(pkgImporters[i])'
    BY <1>0, <1>1, <2>2, SureStays DEF ServedTo, Serves
  <2>5. Followed' /\ OneRun' /\ Serves'
    BY <1>1, <2>1, <2>2, <2>3, <2>4, OneMoves
  <2>6. Registered'
    BY <1>0, <1>1, <2>1, RegisteredStays
  <2> QED BY <1>2, <2>5, <2>6 DEF Following
<1> QED BY <1>3, <1>4, <1>5, <1>6

LEMMA InstallsFollows ==
  ASSUME PkgTyped, Following, PkgNext, NEW i \in PkgImporters, Install(i)
  PROVE  Following'
<1>0. /\ Registered /\ Forgets /\ Serves
      /\ pkgImporters[i] \in Importer /\ pkgImporters[i].at = "install"
  BY DEF Following, PkgTyped, Install
<1>1. /\ \A j \in PkgImporters : j # i => pkgImporters'[j] = pkgImporters[j]
      /\ UNCHANGED <<pkgModule, pkgCaches, pkgResolved>> /\ Shown' = Shown
  BY DEF Install, PkgGoes, PkgTyped, Shown
<1>2. /\ pkgImporters'[i].sure = pkgImporters[i].sure /\ pkgImporters'[i].got = pkgImporters[i].got
      /\ \/ pkgImporters'[i].at = "failed" /\ pkgInstall' = pkgInstall
         \/ /\ pkgImporters'[i].at = "installing" /\ pkgModule = Nothing
            /\ pkgInstall' = IF pkgInstall = "idle" THEN "open" ELSE pkgInstall
  BY <1>0 DEF Install, PkgGoes, PkgTyped, Importer
<1>3. FollowedBy(pkgImporters[i])' /\ ~Runs(i)'
  BY <1>2 DEF FollowedBy, Runs
<1>4. ServedTo(pkgImporters[i])'
  <2>1. ServedTo(pkgImporters[i])
    BY <1>0 DEF Serves
  <2> QED BY <1>0, <1>2, <2>1, SureStays, ShownGrows DEF ServedTo, Sure
<1>5. Followed' /\ OneRun' /\ Serves'
  BY <1>1, <1>2, <1>3, <1>4, OneMoves
<1>6. Registered'
  BY <1>0, <1>1, RegisteredStays
<1>7. Forgets'
  BY <1>0, <1>1, <1>2, ShownGrows DEF Forgets, Sure, pkgCaches
<1> QED BY <1>5, <1>6, <1>7 DEF Following

LEMMA LoadPackageJsonFollows ==
  ASSUME PkgTyped, Following, PkgNext, NEW i \in PkgImporters, LoadPackageJson(i)
  PROVE  Following'
<1> DEFINE known == IF pkgJson # Nothing THEN pkgJson
                    ELSE IF pkgMemo[Json].content # Nothing THEN pkgMemo[Json].content
                    ELSE pkgMemo[Json].isFile
           reads == [pkgImporters[i] EXCEPT !.at = "jsonRead"]
<1>0. /\ Registered /\ Followed /\ OneRun /\ Forgets /\ Serves
      /\ pkgImporters[i] \in Importer /\ pkgImporters[i].at = "json" /\ Json \in Files
      /\ FollowedBy(pkgImporters[i]) /\ ServedTo(pkgImporters[i]) /\ Runs(i)
  BY Marks DEF Following, PkgTyped, LoadPackageJson, Followed, Serves, Runs
<1>1. /\ \A j \in PkgImporters : j # i => pkgImporters'[j] = pkgImporters[j]
      /\ UNCHANGED <<pkgModule, pkgInstall, pkgMemo, pkgResolved, pkgHistory>>
      /\ Shown' = Shown /\ ShownMains' = ShownMains /\ (Excepted' <=> Excepted) /\ (Sure' <=> Sure)
      /\ pkgJson' = known
  BY DEF LoadPackageJson, PkgTyped, Shown, ShownMains, Excepted, Alone, Sure
<1>2. known \in Shown \cup {Nothing, Gone}
  BY <1>0, Marks DEF Registered, PkgTyped, Memo
<1>3. (pkgInstall = "linked" \/ Sure) /\ ~Excepted => known # Gone
  BY <1>0, <1>2, Marks, ShownReleases DEF Forgets, Registered
<1>4. reads \in Importer /\ reads.at = "jsonRead" /\ reads.sure = pkgImporters[i].sure
  BY <1>0 DEF Importer, PkgStages
<1>5. CASE known = Nothing
  <2>1. pkgImporters'[i] = [pkgImporters[i] EXCEPT !.at = "jsonRead", !.file = Json] /\ ReadOf(Json)
    BY <1>5 DEF LoadPackageJson, PkgTyped
  <2>2. /\ pkgImporters'[i].at = "jsonRead" /\ pkgImporters'[i].file = Json
        /\ pkgImporters'[i].sure = pkgImporters[i].sure
    BY <1>0, <2>1 DEF Importer
  <2>3. FollowedBy(pkgImporters[i])' /\ ServedTo(pkgImporters[i])'
    BY <1>0, <1>1, <2>2 DEF FollowedBy, ServedTo
  <2>4. Followed' /\ OneRun' /\ Serves'
    BY <1>0, <1>1, <2>2, <2>3, OneMoves
  <2>5. Registered'
    BY <1>0, <1>1, <1>2, <2>1, ReadOfRegistered DEF Registered
  <2>6. Forgets'
    BY <1>0, <1>1, <1>3 DEF Forgets
  <2> QED BY <2>4, <2>5, <2>6 DEF Following
<1>6. CASE known # Nothing
  <2>1. pkgImporters'[i] = After(reads, known) /\ UNCHANGED <<pkgReads, pkgContent>>
    BY <1>6 DEF LoadPackageJson, PkgTyped
  <2>2. /\ After(reads, known).sure = pkgImporters[i].sure
        /\ After(reads, known).at \in {"isFile", "missed"}
        /\ After(reads, known).at = "missed" => ~(known > 0)
        /\ After(reads, known).at = "isFile" => known > 0 /\ After(reads, known).file = PkgMain[known]
    <3> HIDE DEF known, reads
    <3> QED BY <1>4, AfterLeads
  <2>3. known > 0 => known \in Shown /\ PkgMain[known] \in ShownMains
    BY <1>2, Marks, ShownReleases
  <2>4. ~(known > 0) => known = Gone
    BY <1>2, <1>6, Marks, ShownReleases
  <2> HIDE DEF known, reads
  <2>5. FollowedBy(pkgImporters[i])'
    BY <1>1, <2>1, <2>2, <2>3 DEF FollowedBy
  <2>6. ServedTo(pkgImporters[i])'
    BY <1>0, <1>1, <1>3, <2>1, <2>2, <2>4 DEF ServedTo
  <2>7. Followed' /\ OneRun' /\ Serves'
    BY <1>0, <1>1, <2>1, <2>2, <2>5, <2>6, OneMoves
  <2>8. Registered'
    BY <1>0, <1>1, <1>2, <2>1 DEF Registered
  <2>9. Forgets'
    BY <1>0, <1>1, <1>3 DEF Forgets
  <2> QED BY <2>7, <2>8, <2>9 DEF Following
<1> QED BY <1>5, <1>6

\* The file an importer was sent to is there when the registry has one release to show.
LEMMA SentThere ==
  ASSUME PkgTyped, Registered, NEW f \in ShownMains, pkgModule # Nothing, Alone
  PROVE  Has(f) /\ f = PkgMain[pkgModule]
  BY AloneMains DEF Has

LEMMA ProbeMainFollows ==
  ASSUME PkgTyped, Following, PkgNext, NEW i \in PkgImporters, ProbeMain(i)
  PROVE  Following'
<1> DEFINE f == pkgImporters[i].file
           known == IF pkgMemo[f].content # Nothing THEN 1 ELSE pkgMemo[f].isFile
           reads == [pkgImporters[i] EXCEPT !.at = "isFileRead"]
<1>0. /\ Registered /\ Followed /\ OneRun /\ Forgets /\ Serves
      /\ pkgImporters[i] \in Importer /\ pkgImporters[i].at = "isFile"
      /\ FollowedBy(pkgImporters[i]) /\ ServedTo(pkgImporters[i]) /\ Runs(i)
  BY DEF Following, PkgTyped, ProbeMain, Followed, Serves, Runs
<1>1. /\ \A j \in PkgImporters : j # i => pkgImporters'[j] = pkgImporters[j]
      /\ UNCHANGED <<pkgModule, pkgInstall, pkgMemo, pkgReads, pkgJson, pkgResolved, pkgHistory>>
      /\ Shown' = Shown /\ ShownMains' = ShownMains /\ (Excepted' <=> Excepted) /\ (Sure' <=> Sure)
  BY DEF ProbeMain, PkgTyped, Shown, ShownMains, Excepted, Alone, Sure
<1>2. f \in ShownMains /\ f \in Files
  BY <1>0, Marks, ShownReleases DEF FollowedBy
<1>3. known \in {Gone, Nothing, 1}
  BY <1>2 DEF PkgTyped, Memo
<1>4. Sure /\ ~Excepted => Has(f) /\ known # Gone
  BY <1>0, <1>2, SentThere, Marks DEF Forgets, Sure, Excepted
<1>5. reads \in Importer /\ reads.at = "isFileRead" /\ reads.sure = pkgImporters[i].sure /\ reads.file = f
  BY <1>0 DEF Importer, PkgStages
<1>6. Forgets'
  BY <1>0, <1>1, ForgetsStays
<1>7. CASE known = Nothing
  <2>1. pkgImporters'[i] = [pkgImporters[i] EXCEPT !.at = "isFileRead", !.got = Lookup(f)] /\ pkgContent' = Kept(f)
    BY <1>7 DEF ProbeMain, PkgTyped
  <2>2. /\ pkgImporters'[i].at = "isFileRead" /\ pkgImporters'[i].file = f
        /\ pkgImporters'[i].got = Lookup(f) /\ pkgImporters'[i].sure = pkgImporters[i].sure
    BY <1>0, <2>1 DEF Importer
  <2>3. /\ Lookup(f) \in Shown \cup {Gone} /\ (Has(f) => Lookup(f) # Gone)
        /\ \A g \in Files : Kept(f)[g] \in Shown \cup {Nothing}
    BY <1>0, <1>2, LookupRegistered, ShownReleases, Marks
  <2> HIDE DEF f, known, reads
  <2>4. FollowedBy(pkgImporters[i])'
    BY <1>1, <1>2, <2>2, <2>3 DEF FollowedBy
  <2>5. ServedTo(pkgImporters[i])'
    BY <1>0, <1>1, <1>4, <2>2, <2>3 DEF ServedTo
  <2>6. Followed' /\ OneRun' /\ Serves'
    BY <1>0, <1>1, <2>2, <2>4, <2>5, OneMoves
  <2>7. Registered'
    BY <1>0, <1>1, <2>1, <2>3 DEF Registered
  <2> QED BY <1>6, <2>6, <2>7 DEF Following
<1>8. CASE known # Nothing
  <2>1. pkgImporters'[i] = After(reads, known) /\ pkgContent' = pkgContent
    BY <1>8 DEF ProbeMain, PkgTyped
  <2>2. /\ After(reads, known).sure = pkgImporters[i].sure
        /\ After(reads, known).at \in {"resolved", "missed"}
        /\ After(reads, known).at = "missed" => ~(known > 0)
        /\ After(reads, known).at = "resolved" => After(reads, known).file = f
    <3> HIDE DEF known, reads
    <3> QED BY <1>5, AfterLeads
  <2>3. ~(known > 0) => known = Gone
    BY <1>3, <1>8, Marks
  <2> HIDE DEF f, known, reads
  <2>4. FollowedBy(pkgImporters[i])'
    BY <1>1, <1>2, <2>1, <2>2 DEF FollowedBy
  <2>5. ServedTo(pkgImporters[i])'
    BY <1>0, <1>1, <1>4, <2>1, <2>2, <2>3 DEF ServedTo
  <2>6. Followed' /\ OneRun' /\ Serves'
    BY <1>0, <1>1, <2>1, <2>2, <2>4, <2>5, OneMoves
  <2>7. Registered'
    BY <1>0, <1>1, <2>1, RegisteredStays DEF pkgCaches
  <2> QED BY <1>6, <2>6, <2>7 DEF Following
<1> QED BY <1>7, <1>8

LEMMA ProbeEndsFollows ==
  ASSUME PkgTyped, Following, PkgNext, NEW i \in PkgImporters, ProbeEnds(i)
  PROVE  Following'
<1> DEFINE f == pkgImporters[i].file
           answer == pkgImporters[i].got
<1>0. /\ Registered /\ Followed /\ OneRun /\ Forgets /\ Serves
      /\ pkgImporters[i] \in Importer /\ pkgImporters[i].at = "isFileRead"
      /\ FollowedBy(pkgImporters[i]) /\ ServedTo(pkgImporters[i]) /\ Runs(i)
  BY DEF Following, PkgTyped, ProbeEnds, Followed, Serves, Runs
<1>1. /\ \A j \in PkgImporters : j # i => pkgImporters'[j] = pkgImporters[j]
      /\ UNCHANGED <<pkgModule, pkgInstall, pkgReads, pkgJson, pkgResolved>>
      /\ (Sure' <=> Sure)
      /\ pkgImporters'[i] = After(pkgImporters[i], answer)
  BY DEF ProbeEnds, PkgTyped, Sure
<1>2. /\ Shown' = Shown /\ ShownMains' = ShownMains
      /\ ~Excepted' => ~Excepted /\ Alone /\ ~(answer = Gone /\ Has(f))
  <2>1. pkgHistory \in PkgObserved
    BY DEF PkgTyped, PkgObserved
  <2>2. pkgHistory' = [pkgHistory EXCEPT !.late = pkgHistory.late \/ (answer = Gone /\ Has(f))]
    BY DEF ProbeEnds
  <2>3. Shown' = Shown
    BY <2>1, <2>2 DEF Shown, PkgObserved
  <2>4. answer = Gone /\ Has(f) => pkgHistory'.late
    BY <2>1, <2>2 DEF PkgObserved
  <2>5. Excepted => Excepted'
    BY ShownGrows
  <2> QED BY <2>3, <2>4, <2>5 DEF Excepted, Alone, ShownMains
<1>3. f \in ShownMains /\ f \in Files /\ f # Json /\ answer \in Shown \cup {Gone}
  BY <1>0, Marks, ShownReleases DEF FollowedBy
<1>4. /\ \A g \in Files \ {f} : pkgMemo'[g] = pkgMemo[g]
      /\ pkgMemo'[f].content = pkgMemo[f].content
      /\ pkgMemo'[f].isFile = IF answer = Gone THEN Gone ELSE 1
      /\ \A g \in Files : pkgContent'[g] \in {pkgContent[g], answer} /\ (pkgContent'[g] = pkgContent[g] \/ answer > 0)
  <2>1. pkgMemo' = [pkgMemo EXCEPT ![f] = [pkgMemo[f] EXCEPT !.isFile = IF answer = Gone THEN Gone ELSE 1]]
    BY <1>3 DEF ProbeEnds, PkgTyped, Memo
  <2>2. pkgMemo[f] \in Memo
    BY <1>3 DEF PkgTyped
  <2>3. pkgMemo'[f] = [pkgMemo[f] EXCEPT !.isFile = IF answer = Gone THEN Gone ELSE 1]
    BY <1>3, <2>1 DEF PkgTyped
  <2>4. /\ pkgMemo'[f].content = pkgMemo[f].content
        /\ pkgMemo'[f].isFile = IF answer = Gone THEN Gone ELSE 1
    BY <2>2, <2>3 DEF Memo
  <2>5. \A g \in Files \ {f} : pkgMemo'[g] = pkgMemo[g]
    BY <1>3, <2>1 DEF PkgTyped
  <2>6. \A g \in Files : pkgContent'[g] \in {pkgContent[g], answer} /\ (pkgContent'[g] = pkgContent[g] \/ answer > 0)
    BY <1>3 DEF ProbeEnds, PkgTyped
  <2> QED BY <2>4, <2>5, <2>6
<1>5. LET new == pkgImporters'[i] IN
      /\ new.sure = pkgImporters[i].sure /\ new.at \in {"resolved", "missed"}
      /\ new.at = "missed" => ~(answer > 0)
      /\ new.at = "resolved" => new.file = f
  BY <1>0, <1>1, AfterLeads
<1>6. ~(answer > 0) => answer = Gone
  BY <1>3, Marks, ShownReleases
<1> HIDE DEF f, answer
<1>7. Registered'
  <2>1. \A g \in Files : pkgContent'[g] \in Shown \cup {Nothing}
    BY <1>0, <1>3, <1>4, <1>6, Marks DEF Registered
  <2>2. \A g \in Files : pkgMemo'[g].content = pkgMemo[g].content
    BY <1>4
  <2>3. pkgMemo'[Json] = pkgMemo[Json]
    BY <1>3, <1>4, Marks
  <2> QED BY <1>0, <1>1, <1>2, <2>1, <2>2, <2>3 DEF Registered
<1>8. Forgets'
  <2> SUFFICES ASSUME pkgInstall' = "linked" \/ Sure', ~Excepted'
               PROVE  pkgJson' # Gone /\ \A g \in {Json, PkgMain[pkgModule']} : pkgMemo'[g].isFile # Gone
    BY <1>0, <1>1 DEF Forgets
  <2>1. pkgModule # Nothing /\ pkgJson # Gone /\ \A g \in {Json, PkgMain[pkgModule]} : pkgMemo[g].isFile # Gone
    BY <1>0, <1>1, <1>2 DEF Forgets
  <2>2. answer # Gone
    BY <1>0, <1>2, <1>3, <2>1, SentThere
  <2>3. {Json, PkgMain[pkgModule]} \subseteq Files
    BY <2>1, Marks DEF PkgTyped, Release
  <2>4. pkgMemo'[f].isFile = 1
    BY <1>4, <2>2
  <2>5. \A g \in {Json, PkgMain[pkgModule]} : pkgMemo'[g].isFile # Gone
    BY <1>4, <2>1, <2>3, <2>4, Marks
  <2> QED BY <1>1, <2>1, <2>5
<1>9. FollowedBy(pkgImporters[i])'
  BY <1>2, <1>3, <1>5 DEF FollowedBy
<1>10. ServedTo(pkgImporters[i])'
  <2>1. Sure /\ ~Excepted' => answer # Gone
    BY <1>0, <1>2, <1>3, SentThere DEF Sure
  <2> QED BY <1>0, <1>1, <1>5, <1>6, <2>1 DEF ServedTo
<1>11. Followed' /\ OneRun' /\ Serves'
  BY <1>0, <1>1, <1>5, <1>9, <1>10, OneMoves
<1> QED BY <1>7, <1>8, <1>11 DEF Following

LEMMA ProbeFailsFollows ==
  ASSUME PkgTyped, Following, PkgNext, NEW i \in PkgImporters, ProbeFails(i)
  PROVE  Following'
<1>0. /\ Registered /\ Followed /\ OneRun /\ Forgets /\ Serves
      /\ pkgImporters[i] \in Importer /\ pkgImporters[i].at = "isFileRead" /\ Runs(i)
      /\ ServedTo(pkgImporters[i])
  BY DEF Following, PkgTyped, ProbeFails, Runs, Serves
<1>1. /\ \A j \in PkgImporters : j # i => pkgImporters'[j] = pkgImporters[j]
      /\ UNCHANGED <<pkgModule, pkgInstall, pkgCaches, pkgResolved>> /\ Shown' = Shown
      /\ pkgImporters'[i] = After(pkgImporters[i], Failing)
  BY DEF ProbeFails, PkgTyped, Shown
<1>2. LET new == pkgImporters'[i] IN
      new.sure = pkgImporters[i].sure /\ new.at = "missed" /\ new.got = Failing
  BY <1>0, <1>1, AfterLeads, Marks
<1>3. FollowedBy(pkgImporters[i])' /\ ServedTo(pkgImporters[i])'
  BY <1>0, <1>1, <1>2 DEF FollowedBy, ServedTo, Sure
<1>4. Followed' /\ OneRun' /\ Serves'
  BY <1>0, <1>1, <1>2, <1>3, OneMoves
<1>5. Registered' /\ Forgets'
  BY <1>0, <1>1, RegisteredStays, ForgetsStays DEF pkgCaches
<1> QED BY <1>4, <1>5 DEF Following

LEMMA LoadModuleFollows ==
  ASSUME PkgTyped, Following, PkgNext, NEW i \in PkgImporters, LoadModule(i)
  PROVE  Following'
<1> DEFINE f == pkgImporters[i].file
           content == pkgMemo[f].content
           reads == [pkgImporters[i] EXCEPT !.at = "loadRead"]
<1>0. /\ Registered /\ Followed /\ OneRun /\ Forgets /\ Serves
      /\ pkgImporters[i] \in Importer /\ pkgImporters[i].at = "load"
      /\ FollowedBy(pkgImporters[i]) /\ ServedTo(pkgImporters[i])
  BY DEF Following, PkgTyped, LoadModule, Followed, Serves
<1>1. /\ \A j \in PkgImporters : j # i => pkgImporters'[j] = pkgImporters[j]
      /\ UNCHANGED <<pkgModule, pkgInstall, pkgMemo, pkgJson, pkgResolved, pkgHistory>>
      /\ Shown' = Shown /\ ShownMains' = ShownMains /\ (Excepted' <=> Excepted) /\ (Sure' <=> Sure)
  BY DEF LoadModule, PkgGoes, PkgTyped, Shown, ShownMains, Excepted, Alone, Sure
<1>2. f \in ShownMains /\ f \in Files
  BY <1>0, Marks, ShownReleases DEF FollowedBy
<1>3. Forgets'
  BY <1>0, <1>1, ForgetsStays
<1>4. reads \in Importer /\ reads.at = "loadRead" /\ reads.sure = pkgImporters[i].sure /\ reads.file = f
  BY <1>0 DEF Importer, PkgStages
<1>5. CASE content # Nothing \/ pkgMemo[f].isFile = Gone
  <2>1. pkgImporters'[i] = After(reads, content) /\ UNCHANGED <<pkgContent, pkgReads>>
    BY <1>5 DEF LoadModule, PkgTyped
  <2>2. /\ After(reads, content).sure = pkgImporters[i].sure
        /\ After(reads, content).at \in {"linked", "failed"}
        /\ After(reads, content).at = "failed" => ~(content > 0)
        /\ After(reads, content).at = "linked" =>
             content > 0 /\ After(reads, content).file = f /\ After(reads, content).got = content
    <3> HIDE DEF content, reads
    <3> QED BY <1>4, AfterLeads
  <2>3. content \in Shown \cup {Nothing} /\ (content > 0 => content \in Shown) /\ (content \in Shown => content > 0)
    BY <1>0, <1>2, Marks, ShownReleases DEF Registered
  <2>4. Sure /\ ~Excepted => content > 0
    BY <1>0, <1>2, <1>5, <2>3, SentThere DEF Forgets, Sure, Excepted
  <2> HIDE DEF f, content, reads
  <2>5. FollowedBy(pkgImporters[i])'
    BY <1>1, <1>2, <2>1, <2>2, <2>3 DEF FollowedBy
  <2>6. ServedTo(pkgImporters[i])'
    BY <1>0, <1>1, <2>1, <2>2, <2>4 DEF ServedTo
  <2>7. ~Runs(i)'
    BY <2>1, <2>2 DEF Runs
  <2>8. Followed' /\ OneRun' /\ Serves'
    BY <1>1, <2>1, <2>2, <2>5, <2>6, <2>7, OneMoves
  <2>9. Registered'
    BY <1>0, <1>1, <2>1, RegisteredStays DEF pkgCaches
  <2> QED BY <1>3, <2>8, <2>9 DEF Following
<1>6. CASE ~(content # Nothing \/ pkgMemo[f].isFile = Gone)
  <2>1. pkgImporters'[i] = reads /\ ReadOf(f)
    BY <1>6 DEF LoadModule, PkgTyped, PkgGoes
  <2>2. Registered'
    BY <1>0, <1>1, <1>2, <2>1, ReadOfRegistered DEF Registered
  <2> HIDE DEF f, content, reads
  <2>3. FollowedBy(pkgImporters[i])' /\ ServedTo(pkgImporters[i])' /\ ~Runs(i)'
    BY <1>0, <1>1, <1>2, <1>4, <2>1 DEF FollowedBy, ServedTo, Runs
  <2>4. Followed' /\ OneRun' /\ Serves'
    BY <1>1, <1>4, <2>1, <2>3, OneMoves
  <2> QED BY <1>3, <2>2, <2>4 DEF Following
<1> QED BY <1>5, <1>6
----------------------------------------------------------------------------
(* PackageFiles: the steps that answer several importers. *)

\* Those that wait for a read are answered, the others are left alone.
LEMMA WaitersAnswered ==
  ASSUME PkgTyped, Following, NEW f \in Files, NEW answer,
         pkgImporters' = [i \in PkgImporters |->
            IF Waits(i, f) THEN After(pkgImporters[i], answer) ELSE pkgImporters[i]],
         pkgResolved' = pkgResolved
  PROVE  /\ \A j \in PkgImporters : ~Waits(j, f) => pkgImporters'[j] = pkgImporters[j]
         /\ \A j \in PkgImporters : Waits(j, f) =>
              LET new == pkgImporters'[j] IN
              /\ pkgImporters[j].at \in {"jsonRead", "loadRead"} /\ pkgImporters[j].file = f
              /\ new.sure = pkgImporters[j].sure
              /\ new.at \in {"isFile", "linked", "failed", "missed"}
              /\ new.at \in {"failed", "missed"} => new.got = answer /\ ~(answer > 0)
              /\ new.at = "isFile" => answer > 0 /\ new.file = PkgMain[answer]
              /\ new.at = "linked" => /\ pkgImporters[j].at = "loadRead" /\ answer > 0
                                      /\ new.file = f /\ new.got = answer
              /\ new.at \in {"isFile", "missed"} => Runs(j)
         /\ OneRun'
<1>0. /\ OneRun /\ Followed
      /\ \A j \in PkgImporters : pkgImporters[j] \in Importer /\ FollowedBy(pkgImporters[j])
  BY DEF Following, PkgTyped, Followed
<1>1. \A j \in PkgImporters : ~Waits(j, f) => pkgImporters'[j] = pkgImporters[j]
  OBVIOUS
<1>2. ASSUME NEW j \in PkgImporters, Waits(j, f)
      PROVE  LET new == pkgImporters'[j] IN
              /\ pkgImporters[j].at \in {"jsonRead", "loadRead"} /\ pkgImporters[j].file = f
              /\ new.sure = pkgImporters[j].sure
              /\ new.at \in {"isFile", "linked", "failed", "missed"}
              /\ new.at \in {"failed", "missed"} => new.got = answer /\ ~(answer > 0)
              /\ new.at = "isFile" => answer > 0 /\ new.file = PkgMain[answer]
              /\ new.at = "linked" => /\ pkgImporters[j].at = "loadRead" /\ answer > 0
                                      /\ new.file = f /\ new.got = answer
              /\ new.at \in {"isFile", "missed"} => Runs(j)
  <2>1. pkgImporters'[j] = After(pkgImporters[j], answer)
    BY <1>2
  <2>2. pkgImporters[j].at \in {"jsonRead", "loadRead"} /\ pkgImporters[j].file = f
    BY <1>2 DEF Waits
  <2>3. pkgImporters[j].at = "jsonRead" => Runs(j)
    BY DEF Runs
  <2>4. pkgImporters[j] \in Importer
    BY <1>0
  <2> QED BY <2>1, <2>2, <2>3, <2>4, AfterLeads
<1>3. OneRun'
  <2> SUFFICES ASSUME NEW j \in PkgImporters
               PROVE  /\ Runs(j)' => Runs(j) /\ pkgImporters'[j].sure = pkgImporters[j].sure
                      /\ pkgImporters'[j].at = "joined" =>
                           pkgImporters[j].at = "joined" /\ pkgImporters'[j].sure = pkgImporters[j].sure
    BY <1>0, OneRunStays
  <2>1. CASE Waits(j, f)
    BY <1>2, <2>1 DEF Runs
  <2>2. CASE ~Waits(j, f)
    BY <1>1, <2>2 DEF Runs
  <2> QED BY <2>1, <2>2
<1> QED BY <1>1, <1>2, <1>3

LEMMA ReadEndsFollows ==
  ASSUME PkgTyped, Following, PkgNext, NEW f \in Files, ReadEnds(f)
  PROVE  Following'
<1> DEFINE answer == pkgReads[f]
<1>0. /\ Registered /\ Followed /\ OneRun /\ Forgets /\ Serves
      /\ \A j \in PkgImporters : FollowedBy(pkgImporters[j]) /\ ServedTo(pkgImporters[j])
  BY DEF Following, Followed, Serves
<1>1. /\ UNCHANGED <<pkgModule, pkgInstall, pkgResolved>> /\ (Sure' <=> Sure)
      /\ answer \in Shown \cup {Gone} /\ answer # Nothing
      /\ pkgImporters' = [i \in PkgImporters |->
            IF Waits(i, f) THEN After(pkgImporters[i], answer) ELSE pkgImporters[i]]
  BY <1>0 DEF ReadEnds, Registered, Sure
<1>2. /\ Shown' = Shown /\ ShownMains' = ShownMains
      /\ ~Excepted' => ~Excepted /\ Alone /\ ~(answer = Gone /\ Has(f))
  <2>1. pkgHistory \in PkgObserved
    BY DEF PkgTyped, PkgObserved
  <2>2. pkgHistory' = [pkgHistory EXCEPT !.late = pkgHistory.late \/ (answer = Gone /\ Has(f))]
    BY DEF ReadEnds
  <2>3. Shown' = Shown
    BY <2>1, <2>2 DEF Shown, PkgObserved
  <2>4. answer = Gone /\ Has(f) => pkgHistory'.late
    BY <2>1, <2>2 DEF PkgObserved
  <2>5. Excepted => Excepted'
    BY ShownGrows
  <2> QED BY <2>3, <2>4, <2>5 DEF Excepted, Alone, ShownMains
<1>3. (answer > 0 <=> answer \in Shown) /\ (~(answer > 0) => answer = Gone)
      /\ (answer > 0 => PkgMain[answer] \in ShownMains)
  BY <1>1, Marks, ShownReleases
<1>4. /\ \A g \in Files \ {f} : pkgMemo'[g] = pkgMemo[g] /\ pkgReads'[g] = pkgReads[g]
      /\ pkgReads'[f] = Nothing
      /\ answer = Gone => pkgMemo'[f].content = pkgMemo[f].content /\ pkgMemo'[f].isFile = Gone
      /\ answer # Gone => pkgMemo'[f].content = answer /\ pkgMemo'[f].isFile = 1
      /\ \A g \in Files : pkgContent'[g] \in {pkgContent[g], answer} /\ (pkgContent'[g] = pkgContent[g] \/ answer > 0)
  <2>1. pkgMemo[f] \in Memo
    BY DEF PkgTyped
  <2>2. pkgMemo'[f] = IF answer = Gone THEN [pkgMemo[f] EXCEPT !.isFile = Gone]
                                       ELSE [content |-> answer, isFile |-> 1]
    BY DEF ReadEnds, PkgTyped
  <2>3. \A g \in Files \ {f} : pkgMemo'[g] = pkgMemo[g] /\ pkgReads'[g] = pkgReads[g]
    BY DEF ReadEnds, PkgTyped
  <2>4. /\ pkgReads'[f] = Nothing
        /\ \A g \in Files : pkgContent'[g] \in {pkgContent[g], answer} /\ (pkgContent'[g] = pkgContent[g] \/ answer > 0)
    BY DEF ReadEnds, PkgTyped
  <2> QED BY <2>1, <2>2, <2>3, <2>4 DEF Memo
<1>5. pkgJson' \in {pkgJson, answer} /\ (f # Json => pkgJson' = pkgJson)
  <2>1. \A j \in PkgImporters : pkgImporters[j].at = "jsonRead" => pkgImporters[j].file = Json
    BY <1>0 DEF FollowedBy
  <2> QED BY <2>1 DEF ReadEnds, Waits
<1>6. OneRun'
  BY <1>1, WaitersAnswered
<1>7. Followed'
  <2> SUFFICES ASSUME NEW j \in PkgImporters PROVE FollowedBy(pkgImporters[j])'
    BY DEF Followed
  <2>1. CASE ~Waits(j, f)
    <3>1. pkgImporters'[j] = pkgImporters[j]
      BY <1>1, <2>1, WaitersAnswered
    <3> QED BY <1>0, <1>2, <3>1, FollowedStays
  <2>2. CASE Waits(j, f)
    <3>1. LET new == pkgImporters'[j] IN
          /\ new.at \in {"isFile", "linked", "failed", "missed"}
          /\ new.at = "isFile" => answer > 0 /\ new.file = PkgMain[answer]
          /\ new.at = "linked" => pkgImporters[j].at = "loadRead" /\ pkgImporters[j].file = f
                                  /\ answer > 0 /\ new.file = f /\ new.got = answer
      BY <1>1, <2>2, WaitersAnswered
    <3>2. pkgImporters[j].at = "loadRead" => pkgImporters[j].file \in ShownMains
      BY <1>0 DEF FollowedBy
    <3> HIDE DEF answer
    <3> QED BY <1>2, <1>3, <3>1, <3>2 DEF FollowedBy
  <2> QED BY <2>1, <2>2
<1>8. Serves'
  <2> SUFFICES ASSUME NEW j \in PkgImporters PROVE ServedTo(pkgImporters[j])'
    BY DEF Serves
  <2>1. CASE ~Waits(j, f)
    <3>1. pkgImporters'[j] = pkgImporters[j]
      BY <1>1, <2>1, WaitersAnswered
    <3> QED BY <1>0, <1>1, <3>1, ServedStays, ShownGrows
  <2>2. CASE Waits(j, f)
    <3>1. LET new == pkgImporters'[j] IN
          /\ pkgImporters[j].at \in {"jsonRead", "loadRead"} /\ pkgImporters[j].file = f
          /\ new.sure = pkgImporters[j].sure
          /\ new.at \in {"isFile", "linked", "failed", "missed"}
          /\ new.at \in {"failed", "missed"} => ~(answer > 0)
      BY <1>1, <2>2, WaitersAnswered
    <3>2. f = Json \/ f \in ShownMains
      BY <1>0, <3>1 DEF FollowedBy
    <3>3. Sure /\ ~Excepted' => answer > 0
      <4> SUFFICES ASSUME Sure, ~Excepted' PROVE Has(f)
        BY <1>2, <1>3
      <4>1. pkgModule # Nothing /\ Alone
        BY <1>2 DEF Sure
      <4>2. f = Json => Has(f)
        BY <4>1 DEF Has
      <4> QED BY <1>0, <3>2, <4>1, <4>2, SentThere
    <3>4. pkgImporters[j].sure => Sure
      BY <1>0 DEF ServedTo
    <3> HIDE DEF answer
    <3> QED BY <1>1, <3>1, <3>3, <3>4 DEF ServedTo
  <2> QED BY <2>1, <2>2
<1>9. Json \in Files
  BY Marks
<1> HIDE DEF answer
<1>10. Registered'
  <2>1. \A g \in Files : /\ pkgContent'[g] \in Shown \cup {Nothing}
                         /\ pkgMemo'[g].content \in Shown \cup {Nothing}
                         /\ pkgReads'[g] \in Shown \cup {Nothing, Gone}
    <3> TAKE g \in Files
    <3>1. pkgContent'[g] \in Shown \cup {Nothing}
      BY <1>0, <1>3, <1>4 DEF Registered
    <3>2. pkgMemo'[g].content \in Shown \cup {Nothing}
      BY <1>0, <1>1, <1>4 DEF Registered
    <3>3. pkgReads'[g] \in Shown \cup {Nothing, Gone}
      BY <1>0, <1>4 DEF Registered
    <3> QED BY <3>1, <3>2, <3>3
  <2>2. pkgMemo'[Json].isFile = 1 => pkgMemo'[Json].content # Nothing
    BY <1>0, <1>1, <1>4, <1>9, Marks DEF Registered
  <2>3. pkgJson' \in Shown \cup {Nothing, Gone}
    BY <1>0, <1>1, <1>5 DEF Registered
  <2> QED BY <1>0, <1>1, <1>2, <2>1, <2>2, <2>3 DEF Registered
<1>11. Forgets'
  <2> SUFFICES ASSUME pkgInstall' = "linked" \/ Sure', ~Excepted'
               PROVE  pkgJson' # Gone /\ \A g \in {Json, PkgMain[pkgModule']} : pkgMemo'[g].isFile # Gone
    BY <1>0, <1>1 DEF Forgets
  <2>1. pkgModule # Nothing /\ pkgJson # Gone /\ \A g \in {Json, PkgMain[pkgModule]} : pkgMemo[g].isFile # Gone
    BY <1>0, <1>1, <1>2 DEF Forgets
  <2>2. {Json, PkgMain[pkgModule]} \subseteq Files
    BY <2>1, Marks DEF PkgTyped, Release
  <2>3. f \in {Json, PkgMain[pkgModule]} => answer # Gone
    BY <1>2, <2>1 DEF Has
  <2>4. \A g \in {Json, PkgMain[pkgModule]} : pkgMemo'[g].isFile # Gone
    BY <1>4, <2>1, <2>2, <2>3, Marks
  <2>5. pkgJson' # Gone
    BY <1>5, <2>1, <2>3
  <2> QED BY <1>1, <2>4, <2>5
<1> QED BY <1>6, <1>7, <1>8, <1>10, <1>11 DEF Following

LEMMA ReadFailsFollows ==
  ASSUME PkgTyped, Following, PkgNext, NEW f \in Files, ReadFails(f)
  PROVE  Following'
<1>0. /\ Registered /\ Followed /\ OneRun /\ Forgets /\ Serves
      /\ \A j \in PkgImporters : FollowedBy(pkgImporters[j]) /\ ServedTo(pkgImporters[j])
  BY DEF Following, Followed, Serves
<1>1. /\ UNCHANGED <<pkgModule, pkgInstall, pkgContent, pkgMemo, pkgJson, pkgResolved>> /\ (Sure' <=> Sure)
      /\ Shown' = Shown /\ ShownMains' = ShownMains
      /\ \A g \in Files : pkgReads'[g] \in {pkgReads[g], Nothing}
      /\ pkgImporters' = [i \in PkgImporters |->
            IF Waits(i, f) THEN After(pkgImporters[i], Failing) ELSE pkgImporters[i]]
  BY DEF ReadFails, Sure, PkgTyped, Shown, ShownMains
<1>2. OneRun'
  BY <1>1, WaitersAnswered
<1>3. ASSUME NEW j \in PkgImporters
      PROVE  FollowedBy(pkgImporters[j])' /\ ServedTo(pkgImporters[j])'
  <2>1. CASE ~Waits(j, f)
    <3>1. pkgImporters'[j] = pkgImporters[j]
      BY <1>1, <2>1, WaitersAnswered
    <3> QED BY <1>0, <1>1, <3>1, FollowedStays, ServedStays, ShownGrows
  <2>2. CASE Waits(j, f)
    <3>1. LET new == pkgImporters'[j] IN
          new.sure = pkgImporters[j].sure /\ new.at \in {"failed", "missed"} /\ new.got = Failing
      BY <1>1, <2>2, WaitersAnswered, Marks
    <3> QED BY <1>0, <1>1, <3>1 DEF FollowedBy, ServedTo
  <2> QED BY <2>1, <2>2
<1>4. Followed' /\ Serves'
  BY <1>3 DEF Followed, Serves
<1>5. Registered'
  BY <1>0, <1>1 DEF Registered
<1>6. Forgets'
  BY <1>0, <1>1, ForgetsStays
<1> QED BY <1>2, <1>4, <1>5, <1>6 DEF Following

LEMMA RunEndsFollows ==
  ASSUME PkgTyped, Following, PkgNext, NEW i \in PkgImporters, RunEnds(i)
  PROVE  Following'
<1> DEFINE path == IF pkgImporters[i].at = "resolved" THEN pkgImporters[i].file ELSE "none"
           mine(j) == j = i \/ (PkgKey[j] = PkgKey[i] /\ pkgImporters[j].at = "joined")
<1>0. /\ Registered /\ Followed /\ OneRun /\ Forgets /\ Serves
      /\ \A j \in PkgImporters : FollowedBy(pkgImporters[j]) /\ ServedTo(pkgImporters[j])
      /\ pkgImporters[i].at \in {"resolved", "missed"} /\ Runs(i)
      /\ \A j \in PkgImporters : pkgImporters[j] \in Importer
      /\ PkgKey[i] \in Keys
  BY Marks DEF Following, Followed, Serves, RunEnds, Runs, PkgTyped
<1>1. /\ UNCHANGED <<pkgModule, pkgInstall, pkgCaches>> /\ (Sure' <=> Sure)
      /\ Shown' = Shown /\ ShownMains' = ShownMains /\ (Excepted' <=> Excepted)
      /\ \A k \in Keys : pkgResolved'[k] = IF k = PkgKey[i] THEN path ELSE pkgResolved[k]
  BY <1>0 DEF RunEnds, Sure, Shown, ShownMains, Excepted, Alone, PkgTyped
<1>2. /\ path = "none" => pkgImporters[i].at = "missed"
      /\ path # "none" => path \in ShownMains
      /\ path # "pending"
  <2>1. \A g \in ShownMains : g # "none" /\ g # "pending"
    BY Marks, ShownReleases
  <2> QED BY <1>0, <2>1 DEF FollowedBy
<1>3. \A j \in PkgImporters :
        IF mine(j)
        THEN /\ pkgImporters'[j].sure = pkgImporters[j].sure
             /\ path = "none" => pkgImporters'[j].at = "install" /\ pkgImporters'[j].got = pkgImporters[i].got
             /\ path # "none" => pkgImporters'[j].at = "load" /\ pkgImporters'[j].file = path
        ELSE pkgImporters'[j] = pkgImporters[j]
  <2> TAKE j \in PkgImporters
  <2>1. pkgImporters'[j] =
          IF mine(j)
          THEN IF path = "none"
               THEN [pkgImporters[j] EXCEPT !.at = "install", !.got = pkgImporters[i].got]
               ELSE [pkgImporters[j] EXCEPT !.at = "load", !.file = path]
          ELSE pkgImporters[j]
    BY DEF RunEnds
  <2> HIDE DEF path, mine
  <2> QED BY <1>0, <2>1 DEF Importer
<1>4. \A j \in PkgImporters : mine(j) /\ pkgImporters[j].sure => pkgImporters[i].sure
  BY <1>0 DEF OneRun
<1> HIDE DEF path
<1>5. Followed'
  <2> SUFFICES ASSUME NEW j \in PkgImporters PROVE FollowedBy(pkgImporters[j])'
    BY DEF Followed
  <2>1. CASE mine(j)
    <3> HIDE DEF mine
    <3> QED BY <1>1, <1>2, <1>3, <2>1 DEF FollowedBy
  <2>2. CASE ~mine(j)
    <3>1. pkgImporters'[j] = pkgImporters[j]
      BY <1>3, <2>2
    <3> QED BY <1>0, <1>1, <3>1, FollowedStays
  <2> QED BY <2>1, <2>2
<1>6. Serves'
  <2> SUFFICES ASSUME NEW j \in PkgImporters PROVE ServedTo(pkgImporters[j])'
    BY DEF Serves
  <2>1. CASE mine(j)
    <3>1. pkgImporters[i].sure /\ pkgImporters[i].at = "missed" /\ ~Excepted => pkgImporters[i].got = Failing
      BY <1>0 DEF ServedTo
    <3>2. pkgImporters[j].sure => Sure /\ pkgImporters[i].sure
      BY <1>0, <1>4, <2>1 DEF ServedTo
    <3> HIDE DEF mine
    <3> QED BY <1>1, <1>2, <1>3, <2>1, <3>1, <3>2 DEF ServedTo
  <2>2. CASE ~mine(j)
    <3>1. pkgImporters'[j] = pkgImporters[j]
      BY <1>3, <2>2
    <3> QED BY <1>0, <1>1, <3>1, ServedStays
  <2> QED BY <2>1, <2>2
<1>7. OneRun'
  <2>1. \A j \in PkgImporters : mine(j) => ~Runs(j)' /\ pkgImporters'[j].at # "joined"
    <3> HIDE DEF mine
    <3> QED BY <1>3 DEF Runs
  <2>2. \A j \in PkgImporters : ~mine(j) => pkgImporters'[j] = pkgImporters[j] /\ (Runs(j)' <=> Runs(j))
    <3> HIDE DEF mine
    <3> QED BY <1>3 DEF Runs
  <2>3. \A j \in PkgImporters : PkgKey[j] = PkgKey[i] /\ ~mine(j) => ~Runs(j) /\ pkgImporters[j].at # "joined"
    BY <1>0 DEF OneRun
  <2> SUFFICES ASSUME NEW j \in PkgImporters, NEW l \in PkgImporters, PkgKey[j] = PkgKey[l]
               PROVE  /\ Runs(j)' \/ pkgImporters'[j].at = "joined" => pkgResolved'[PkgKey[j]] = "pending"
                      /\ Runs(j)' /\ Runs(l)' => j = l
                      /\ pkgImporters'[j].at = "joined" /\ pkgImporters'[j].sure /\ Runs(l)'
                           => pkgImporters'[l].sure
    BY DEF OneRun
  <2>4. PkgKey[j] \in Keys
    BY Marks
  <2> HIDE DEF mine
  <2>5. CASE PkgKey[j] = PkgKey[i]
    BY <2>1, <2>2, <2>3, <2>5
  <2>6. CASE PkgKey[j] # PkgKey[i]
    BY <1>0, <1>1, <2>1, <2>2, <2>4, <2>6 DEF OneRun
  <2> QED BY <2>5, <2>6
<1>8. Registered'
  BY <1>0, <1>1, <1>2 DEF Registered, pkgCaches
<1>9. Forgets'
  BY <1>0, <1>1, ForgetsStays DEF pkgCaches
<1> QED BY <1>5, <1>6, <1>7, <1>8, <1>9 DEF Following
----------------------------------------------------------------------------
(* PackageFiles: the theorems. *)

LEMMA InitFollows == PkgInit => Following
<1> SUFFICES ASSUME PkgInit PROVE Following
  OBVIOUS
<1>1. /\ Shown = {} /\ pkgModule = Nothing /\ pkgInstall = "idle" /\ pkgJson = Nothing
      /\ \A f \in Files : pkgContent[f] = Nothing /\ pkgReads[f] = Nothing /\ pkgMemo[f] = Forgotten
      /\ \A k \in Keys : pkgResolved[k] = "none"
      /\ \A i \in PkgImporters : pkgImporters[i] = NoImport
  BY DEF PkgInit, Shown
<1>2. Forgotten.content = Nothing /\ Forgotten.isFile = Nothing
  BY DEF Forgotten
<1>3. NoImport.at = "none" /\ ~NoImport.sure
  BY DEF NoImport
<1>4. Registered
  BY <1>1, <1>2, Marks, FS_EmptySet DEF Registered
<1>5. Followed /\ OneRun /\ Serves
  BY <1>1, <1>3 DEF Followed, FollowedBy, OneRun, Runs, Serves, ServedTo
<1>6. Forgets
  BY <1>1 DEF Forgets, Sure
<1> QED BY <1>4, <1>5, <1>6 DEF Following

LEMMA NextFollows == PkgTyped /\ Following /\ PkgNext => Following'
<1> SUFFICES ASSUME PkgTyped, Following, PkgNext PROVE Following'
  OBVIOUS
<1> QED BY InstallFollows, InstallEndsFollows, StartsFollows, ResolveFollows, InstallsFollows,
           LoadPackageJsonFollows, ProbeMainFollows, ProbeEndsFollows, ProbeFailsFollows,
           LoadModuleFollows, ReadEndsFollows, ReadFailsFollows, RunEndsFollows DEF PkgNext

LEMMA StutterFollows ==
  ASSUME PkgTyped, Following, UNCHANGED pkgVars
  PROVE  PkgTyped' /\ Following'
<1>1. PkgTyped'
  BY DEF PkgTyped, pkgVars, pkgCaches
<1>2. Registered' /\ Followed' /\ OneRun'
  BY DEF Following, Registered, Followed, FollowedBy, OneRun, Runs, pkgVars, pkgCaches, Shown, ShownMains
<1>3. Forgets' /\ Serves'
  BY DEF Following, Forgets, Serves, ServedTo, Sure, Excepted, Alone, Shown, pkgVars, pkgCaches
<1> QED BY <1>1, <1>2, <1>3 DEF Following

\* The invariant is what ImportsSeeTheRelease says, and more.
LEMMA FollowingSees ==
  ASSUME PkgTyped, Following
  PROVE  ImportsSeeTheRelease
<1>0. Registered /\ Followed /\ Serves /\ IsFiniteSet(Shown)
  BY DEF Following, Registered
<1>1. Cardinality(Shown) \in Nat
  BY <1>0, FS_CardinalityType
<1>2. Cardinality(Shown) = 1 => Alone
  BY <1>0, FS_Singleton DEF Alone
<1>3. ~(Cardinality(Shown) > 1) => Alone
  <2>1. Cardinality(Shown) = 0 => Shown = {}
    BY <1>0, FS_EmptySet
  <2>2. ~(Cardinality(Shown) > 1) => Cardinality(Shown) = 0 \/ Cardinality(Shown) = 1
    BY <1>1
  <2> QED BY <1>2, <2>1, <2>2 DEF Alone
<1> SUFFICES ASSUME NEW i \in PkgImporters
             PROVE  /\ pkgImporters[i].at = "linked" /\ pkgModule # Nothing /\ Cardinality(Shown) = 1
                         => /\ pkgImporters[i].got = pkgModule
                            /\ pkgImporters[i].file = PkgMain[pkgModule]
                    /\ pkgImporters[i].at = "failed" /\ pkgImporters[i].sure
                         => \/ pkgImporters[i].got = Failing \/ pkgHistory.late
                            \/ Cardinality(Shown) > 1
  BY DEF ImportsSeeTheRelease, Shown
<1>4. ASSUME pkgImporters[i].at = "linked", pkgModule # Nothing, Cardinality(Shown) = 1
      PROVE  pkgImporters[i].got = pkgModule /\ pkgImporters[i].file = PkgMain[pkgModule]
  <2>1. pkgImporters[i].got \in Shown /\ pkgImporters[i].file \in ShownMains
    BY <1>0, <1>4 DEF Followed, FollowedBy
  <2> QED BY <1>0, <1>2, <1>4, <2>1, AloneMains
<1>5. ASSUME pkgImporters[i].at = "failed", pkgImporters[i].sure
      PROVE  pkgImporters[i].got = Failing \/ pkgHistory.late \/ Cardinality(Shown) > 1
  BY <1>0, <1>3, <1>5 DEF Serves, ServedTo, Excepted
<1> QED BY <1>4, <1>5

LEMMA PkgInvariant == PkgSpec => [](PkgTyped /\ Following)
<1>1. PkgInit => PkgTyped /\ Following
  BY InitPkgTyped, InitFollows
<1>2. PkgTyped /\ Following /\ [PkgNext]_pkgVars => PkgTyped' /\ Following'
  BY NextPkgTyped, NextFollows, StutterFollows DEF Following
<1> QED BY <1>1, <1>2, PTL DEF PkgSpec

\* Every variable of PackageFiles keeps its type, whatever the importers, the releases and
\* the files they point to: a memo of package.json that says it is a file has its content,
\* so what is read there is a release or an absence.
THEOREM PkgTypeCorrect == PkgSpec => []PkgTyped
BY PkgInvariant, PTL

\* What importers link and when they fail (bundler.ts resolveInstalled, CachedFS,
\* RegistryFS, forgetMissingNodeModules), for any importers sharing any directories, any
\* releases, and any number of imports, installs and faults.
THEOREM ImportersSeeTheRelease == PkgSpec => []ImportsSeeTheRelease
<1>1. PkgTyped /\ Following => ImportsSeeTheRelease
  BY FollowingSees
<1> QED BY <1>1, PkgInvariant, PTL
----------------------------------------------------------------------------
(* HotModules: the types. *)

HotCode == [rev : Nat, script : Seq(Call)]
Hmr == [here : BOOLEAN, type : {"none", "accept", "decline"}, dirty : BOOLEAN,
        handler : Nat \cup {NoHandler}, data : Nat]
HotMod == [code : HotCode, eval : Nat \cup {Unevaluated}, hmr : Hmr]
Frame == [module : HotSources, rev : Nat, rest : Seq(Call)]
Waiting == [op : {"acceptDep", "declineDep"}, of : HotSources]
DocState == [at : {"start", "first", "idle", "compiling", "sweep"}, next : Nat, first : BOOLEAN,
             hmr : BOOLEAN, reloading : BOOLEAN, ok : BOOLEAN, changed : SUBSET HotSources,
             edits : Nat]

HotTyped ==
  /\ hotSource \in [HotSources -> HotCode]
  /\ \A m \in HotSources : hotSource[m].script \in HotScripts[m] /\ hotSource[m].rev # NullCode
  /\ hotMods \in [HotSources -> HotMod]
  /\ hotImporters \in [HotSources -> SUBSET HotSources]
  /\ hotStack \in Seq(Frame)
  /\ hotQueue \subseteq HotSources
  /\ hotLater \subseteq Waiting
  /\ hotDoc \in DocState
  /\ hotHistory \in [left : SUBSET HotSources, owed : [HotSources -> Int], retried : BOOLEAN]
----------------------------------------------------------------------------
(* EffectsAreDisposed: the handlers that are owed a call are those that are registered,   *)
(* and those a first load that is tried again forgot.                                     *)

Handled(m) == IF hotMods[m].hmr.handler = NoHandler THEN 0 ELSE 1
Owing ==
  \A m \in HotSources :
    /\ hotHistory.owed[m] >= Handled(m)
    /\ ~hotHistory.retried => hotHistory.owed[m] = Handled(m)
----------------------------------------------------------------------------
(* UpdatesReachModules. *)

\* A module has its turn: the sweep has it before it.
Ahead(m) == \E i \in DOMAIN HotOrder : i >= hotDoc.next /\ HotOrder[i] = m

\* What there is of a module belongs to its source, but for what an edit has changed and
\* no compile has seen.
Current ==
  \A m \in HotSources :
    m \notin hotDoc.changed =>
      /\ hotMods[m].code \in {NotCompiled, hotSource[m]}
      /\ m \notin hotHistory.left => hotMods[m].eval \in {Unevaluated, hotSource[m].rev}
OnceEach ==
  \A i, j \in DOMAIN hotStack : i # j => hotStack[i].module # hotStack[j].module
CurrentRuns ==
  \A i \in DOMAIN hotStack : LET m == hotStack[i].module IN
    \/ hotStack[i].rev = hotSource[m].rev
    \/ m \in hotDoc.changed
    \/ hotStack[i].rev = NullCode /\ m \in hotHistory.left

\* What has no code is being transformed, and is run without only if it was reset since
\* the graph was finished.
Recompiles ==
  \A m \in HotSources :
    hotMods[m].code = NotCompiled =>
      /\ hotDoc.at # "start" => m \in hotQueue
      /\ hotDoc.at \in {"first", "sweep"} /\ hotMods[m].eval = Unevaluated
           => m \in hotHistory.left

\* After the first load, what is not evaluated will be swept, or runs, or was left.
Due ==
  ~hotDoc.first =>
    \A m \in HotSources \ (hotHistory.left \cup OnStack) :
      hotMods[m].eval = Unevaluated =>
        /\ hotMods[m].hmr.dirty
        /\ hotDoc.at = "sweep" => Ahead(m)
        /\ hotDoc.at = "idle" => ~hotDoc.ok

\* In the first load a module that has run has had run what it requires.
Ran(m) == hotMods[m].eval # Unevaluated \/ m \in hotHistory.left
HasRun == {m \in HotSources : Ran(m)}
Under(i) == {hotStack[j].module : j \in {i + 1} \cap DOMAIN hotStack}
Closed ==
  hotDoc.at = "first" =>
    /\ hotDoc.changed = {}
    /\ \A m \in HotSources : hotMods[m].code = NotCompiled => Ran(m)
    /\ \A m \in HotSources \ OnStack :
         IF Ran(m) THEN Requires(hotSource[m].script) \subseteq HasRun
         ELSE hotMods[m].hmr.type # "accept"
    /\ \A i \in DOMAIN hotStack :
         Requires(hotSource[hotStack[i].module].script) \subseteq
           HasRun \cup Requires(hotStack[i].rest) \cup Under(i)

Phases ==
  /\ hotStack # <<>> => hotDoc.at \in {"first", "sweep"}
  /\ hotDoc.at \in {"start", "first"} => hotDoc.first
  /\ hotDoc.at \in {"compiling", "sweep"} => ~hotDoc.first
  /\ hotDoc.ok => ~hotDoc.first
  /\ hotDoc.next # 0

Flow == Current /\ OnceEach /\ CurrentRuns /\ Recompiles /\ Due /\ Closed
Reaching == Phases /\ (~hotDoc.reloading => Flow)
----------------------------------------------------------------------------
(* Lemmas about frames and calls. *)

LEMMA FrontOf ==
  ASSUME NEW s \in Seq(Frame), s # <<>>
  PROVE  /\ Len(s) \in Nat \ {0}
         /\ Last(s) = s[Len(s)] /\ Last(s) \in Frame
         /\ Front(s) \in Seq(Frame) /\ Len(Front(s)) = Len(s) - 1
         /\ \A i \in 1 .. Len(s) - 1 : Front(s)[i] = s[i]
<1>1. Len(s) \in Nat \ {0} /\ s[Len(s)] \in Frame
  <2>1. Len(s) \in Nat \ {0}
    OBVIOUS
  <2>2. Len(s) \in DOMAIN s
    BY <2>1
  <2> QED BY <2>1, <2>2
<1>2. Front(s) = SubSeq(s, 1, Len(s) - 1)
  BY DEF Front
<1>3. /\ SubSeq(s, 1, Len(s) - 1) \in Seq(Frame) /\ Len(SubSeq(s, 1, Len(s) - 1)) = Len(s) - 1
      /\ \A i \in 1 .. Len(s) - 1 : SubSeq(s, 1, Len(s) - 1)[i] = s[i]
  BY <1>1
<1> QED BY <1>1, <1>2, <1>3 DEF Last

LEMMA CallParts ==
  ASSUME NEW c \in Call
  PROVE  /\ c.op \in {"require", "acceptDep", "declineDep"} => c.of \in HotSources
         /\ c.op \in {"dispose", "postlude"} => c.keeps \in Nat
         /\ c.op \in {"acceptDep", "declineDep"} => c \in Waiting
<1>1. CASE c \in [op : {"require", "acceptDep", "declineDep"}, of : HotSources]
  BY <1>1 DEF Waiting
<1>2. CASE c \in [op : {"accept", "decline", "throw"}]
  BY <1>2
<1>3. CASE c \in [op : {"dispose", "postlude"}, keeps : Nat]
  BY <1>3
<1> QED BY <1>1, <1>2, <1>3 DEF Call

LEMMA Running ==
  ASSUME HotTyped, hotStack # <<>>, Last(hotStack).rest # <<>>
  PROVE  /\ Last(hotStack).module \in HotSources /\ Last(hotStack).module \in OnStack
         /\ Head(Last(hotStack).rest) \in Call
         /\ CallMade \in Seq(Frame) /\ Len(CallMade) = Len(hotStack)
         /\ \A i \in DOMAIN hotStack :
              /\ CallMade[i].module = hotStack[i].module /\ CallMade[i].rev = hotStack[i].rev
              /\ CallMade[i].rest = IF i = Len(hotStack) THEN Tail(Last(hotStack).rest)
                                    ELSE hotStack[i].rest
<1> DEFINE f == Last(hotStack)  g == [f EXCEPT !.rest = Tail(@)]
<1>1. hotStack \in Seq(Frame)
  BY DEF HotTyped
<1>2. /\ Len(hotStack) \in Nat \ {0} /\ f = hotStack[Len(hotStack)] /\ f \in Frame
      /\ Front(hotStack) \in Seq(Frame) /\ Len(Front(hotStack)) = Len(hotStack) - 1
      /\ \A i \in 1 .. Len(hotStack) - 1 : Front(hotStack)[i] = hotStack[i]
  BY <1>1, FrontOf
<1>3. f.rest \in Seq(Call) /\ f.rest # <<>> /\ f.module \in HotSources
  BY <1>2 DEF Frame
<1>4. Head(f.rest) \in Call /\ Tail(f.rest) \in Seq(Call)
  BY <1>3
<1>5. g \in Frame /\ g.module = f.module /\ g.rev = f.rev /\ g.rest = Tail(f.rest)
  BY <1>2, <1>4 DEF Frame
<1>6. CallMade = Append(Front(hotStack), g)
  BY DEF CallMade
<1> HIDE DEF f, g
<1>7. /\ CallMade \in Seq(Frame) /\ Len(CallMade) = Len(hotStack)
      /\ \A i \in 1 .. Len(hotStack) - 1 : CallMade[i] = hotStack[i]
      /\ CallMade[Len(hotStack)] = g
  BY <1>2, <1>5, <1>6
<1>8. f.module \in OnStack
  <2>1. Len(hotStack) \in DOMAIN hotStack
    BY <1>1, <1>2
  <2> QED BY <2>1, <1>2 DEF OnStack
<1>9. DOMAIN hotStack = 1 .. Len(hotStack)
  BY <1>1
<1>10. \A i \in DOMAIN hotStack :
         /\ CallMade[i].module = hotStack[i].module /\ CallMade[i].rev = hotStack[i].rev
         /\ CallMade[i].rest = IF i = Len(hotStack) THEN Tail(f.rest) ELSE hotStack[i].rest
  <2> TAKE i \in DOMAIN hotStack
  <2>1. CASE i = Len(hotStack)
    BY <2>1, <1>2, <1>5, <1>7
  <2>2. CASE i # Len(hotStack)
    BY <2>2, <1>2, <1>7, <1>9
  <2> QED BY <2>1, <2>2
<1> QED BY <1>3, <1>4, <1>7, <1>8, <1>10 DEF f

LEMMA CalledTyped ==
  ASSUME HotTyped, NEW m \in HotSources, NEW op, Calls(m, op)
  PROVE  /\ hotStack # <<>> /\ Last(hotStack).rest # <<>> /\ Last(hotStack).module = m
         /\ m \in OnStack
         /\ CallMade \in Seq(Frame) /\ Len(CallMade) = Len(hotStack)
         /\ Head(Last(hotStack).rest) \in Call /\ Head(Last(hotStack).rest).op = op
         /\ op = "require" => Of \in HotSources
         /\ op \in {"dispose", "postlude"} => Keeps \in Nat
         /\ op \in {"acceptDep", "declineDep"} => Head(Last(hotStack).rest) \in Waiting
  BY Running, CallParts DEF Calls, Of, Keeps

LEMMA HmrParts ==
  ASSUME NEW hmr \in Hmr
  PROVE  /\ Ensured(hmr) \in Hmr /\ Clone(hmr) \in Hmr /\ Disposed(hmr) \in Hmr
         /\ Accepted(hmr) \in Hmr
         /\ \A keeps \in Nat : WithHandler(hmr, keeps) \in Hmr
         /\ \A type \in {"accept", "decline"} : [Ensured(hmr) EXCEPT !.type = type] \in Hmr
         /\ hmr.handler = NoHandler \/ hmr.handler \in Nat
  BY DEF Hmr, Ensured, Clone, Disposed, Accepted, WithHandler, NoHmr, NoExports, NoHandler

LEMMA ResetTyped ==
  ASSUME NEW module \in HotMod
  PROVE  /\ ResetModule(module) \in HotMod
         /\ \A hmr \in Hmr : [module EXCEPT !.hmr = hmr] \in HotMod
<1>1. NotCompiled \in HotCode
  BY DEF NotCompiled, NullCode, HotCode
<1>2. [module.hmr EXCEPT !.dirty = @ \/ module.hmr.type = "accept"] \in Hmr
  BY DEF HotMod, Hmr
<1>3. ResetModule(module) =
        IF module.code = NotCompiled THEN module
        ELSE [module EXCEPT !.code = NotCompiled, !.eval = Unevaluated,
                !.hmr = [module.hmr EXCEPT !.dirty = @ \/ module.hmr.type = "accept"]]
  BY DEF ResetModule, HotMod, Hmr
<1>4. ResetModule(module) \in HotMod
  BY <1>1, <1>2, <1>3 DEF HotMod
<1> QED BY <1>4 DEF HotMod

----------------------------------------------------------------------------
(* The types hold. *)

LEMMA InitHotTyped == HotInit => HotTyped
<1> SUFFICES ASSUME HotInit PROVE HotTyped
  OBVIOUS
<1> USE DEF HotInit
<1>1. PICK first \in [HotSources -> UNION {HotScripts[m] : m \in HotSources}] :
        /\ \A m \in HotSources : first[m] \in HotScripts[m]
        /\ hotSource = [m \in HotSources |-> [rev |-> 1, script |-> first[m]]]
  OBVIOUS
<1>2. /\ hotSource \in [HotSources -> HotCode]
      /\ \A m \in HotSources : hotSource[m].script \in HotScripts[m] /\ hotSource[m].rev # NullCode
  <2>1. ASSUME NEW m \in HotSources PROVE first[m] \in HotScripts[m] /\ first[m] \in Seq(Call)
    BY <1>1, HotAssumption
  <2>2. ASSUME NEW m \in HotSources
        PROVE  /\ hotSource[m] \in HotCode /\ hotSource[m].script \in HotScripts[m]
               /\ hotSource[m].rev # NullCode
    <3>1. hotSource[m] = [rev |-> 1, script |-> first[m]]
      BY <1>1
    <3> QED BY <2>1, <3>1 DEF HotCode, NullCode
  <2>3. hotSource = [m \in HotSources |-> hotSource[m]]
    BY <1>1
  <2> QED BY <2>2, <2>3
<1>3. NoHmr \in Hmr /\ NotCompiled \in HotCode
  BY DEF NoHmr, Hmr, NotCompiled, HotCode, NullCode, NoExports, NoHandler
<1>4. HotModule(NotCompiled) \in HotMod
  BY <1>3 DEF HotModule, HotMod
<1>5. hotMods \in [HotSources -> HotMod]
  BY <1>4
<1>6. hotDoc \in DocState
  BY DEF DocState
<1>7. hotHistory \in [left : SUBSET HotSources, owed : [HotSources -> Int], retried : BOOLEAN]
  BY DEF NoHistory
<1>8. /\ hotImporters \in [HotSources -> SUBSET HotSources]
      /\ hotStack \in Seq(Frame) /\ hotQueue \subseteq HotSources /\ hotLater \subseteq Waiting
  OBVIOUS
<1> QED BY <1>2, <1>5, <1>6, <1>7, <1>8 DEF HotTyped

LEMMA EvaluateTyped ==
  ASSUME HotTyped, NEW m \in HotSources, NEW stack \in Seq(Frame), Evaluates(m, stack)
  PROVE  /\ hotStack' \in Seq(Frame)
         /\ hotMods' \in [HotSources -> HotMod]
         /\ hotHistory' \in [left : SUBSET HotSources, owed : [HotSources -> Int], retried : BOOLEAN]
<1>1. hotMods[m] \in HotMod /\ hotMods[m].code \in HotCode /\ hotMods[m].hmr \in Hmr
  BY DEF HotTyped, HotMod
<1>2. [module |-> m, rev |-> hotMods[m].code.rev, rest |-> hotMods[m].code.script] \in Frame
  BY <1>1 DEF Frame, HotCode
<1>3. hotStack' \in Seq(Frame)
  BY <1>2 DEF Evaluates
<1>4. Clone(Disposed(hotMods[m].hmr)) \in Hmr
  BY <1>1, HmrParts
<1>5. [hotMods[m] EXCEPT !.hmr = Clone(Disposed(hotMods[m].hmr))] \in HotMod
  BY <1>1, <1>4, ResetTyped
<1>6. hotMods' = [hotMods EXCEPT ![m] = [hotMods[m] EXCEPT !.hmr = Clone(Disposed(hotMods[m].hmr))]]
  BY DEF Evaluates, HotTyped
<1>7. hotMods' \in [HotSources -> HotMod]
  BY <1>5, <1>6 DEF HotTyped
<1>8. hotHistory' \in [left : SUBSET HotSources, owed : [HotSources -> Int], retried : BOOLEAN]
  <2> DEFINE v == IF hotMods[m].hmr.handler = NoHandler THEN hotHistory.owed[m]
                  ELSE hotHistory.owed[m] - 1
  <2>1. hotHistory' = [hotHistory EXCEPT !.owed = [hotHistory.owed EXCEPT ![m] = v]]
    BY DEF Evaluates, HotTyped
  <2>2. v \in Int
    BY DEF HotTyped
  <2> HIDE DEF v
  <2> QED BY <2>1, <2>2 DEF HotTyped
<1> QED BY <1>3, <1>7, <1>8

LEMMA ThrowTyped ==
  ASSUME HotTyped, Throws, UNCHANGED <<hotSource, hotImporters>>
  PROVE  HotTyped'
<1>1. OnStack \subseteq HotSources
  <2> SUFFICES ASSUME NEW i \in DOMAIN hotStack PROVE hotStack[i].module \in HotSources
    BY DEF OnStack
  <2>1. hotStack[i] \in Frame
    BY DEF HotTyped
  <2> QED BY <2>1 DEF Frame
<1>2. hotStack' \in Seq(Frame)
  BY DEF Throws
<1>3. hotDoc' \in DocState
  BY DEF Throws, HotTyped, DocState
<1>4. hotHistory' \in [left : SUBSET HotSources, owed : [HotSources -> Int], retried : BOOLEAN]
  BY <1>1 DEF Throws, HotTyped
<1> QED BY <1>2, <1>3, <1>4 DEF Throws, HotTyped

LEMMA EvaluateModuleTyped ==
  ASSUME HotTyped, NEW m \in HotSources, NEW stack \in Seq(Frame), EvaluateModule(m, stack),
         UNCHANGED <<hotSource, hotImporters>>
  PROVE  HotTyped'
<1>1. CASE hotStack' = stack /\ UNCHANGED <<hotMods, hotQueue, hotLater, hotDoc, hotHistory>>
  BY <1>1 DEF HotTyped
<1>2. CASE Throws
  BY <1>2, ThrowTyped
<1>3. CASE Evaluates(m, stack) /\ UNCHANGED <<hotQueue, hotLater, hotDoc>>
  BY <1>3, EvaluateTyped DEF HotTyped
<1> QED BY <1>1, <1>2, <1>3 DEF EvaluateModule

LEMMA SetsHmrTyped ==
  ASSUME HotTyped, NEW m \in HotSources, NEW hmr \in Hmr, NEW keeps, SetsHmr(m, hmr, keeps),
         CallMade \in Seq(Frame)
  PROVE  HotTyped'
<1>1. hotMods[m] \in HotMod
  BY DEF HotTyped
<1>2. [hotMods[m] EXCEPT !.hmr = hmr] \in HotMod
  BY <1>1, ResetTyped
<1>3. hotMods' \in [HotSources -> HotMod]
  BY <1>2 DEF SetsHmr, HotTyped
<1>4. Owes(m, keeps) \in [HotSources -> Int]
  BY DEF Owes, HotTyped
<1>5. hotHistory' \in [left : SUBSET HotSources, owed : [HotSources -> Int], retried : BOOLEAN]
  BY <1>4 DEF SetsHmr, HotTyped
<1>6. hotDoc' \in DocState
  <2>1. hmr.here \in BOOLEAN
    BY DEF Hmr
  <2> QED BY <2>1 DEF SetsHmr, HotTyped, DocState
<1> QED BY <1>3, <1>5, <1>6 DEF SetsHmr, HotTyped

LEMMA NextHotTyped == HotTyped /\ HotNext => HotTyped'
<1> SUFFICES ASSUME HotTyped, HotNext PROVE HotTyped'
  OBVIOUS
<1>0. NoHmr \in Hmr /\ NotCompiled \in HotCode
  BY DEF NoHmr, Hmr, NotCompiled, HotCode, NullCode, NoExports, NoHandler
<1>01. \A code \in HotCode : HotModule(code) \in HotMod
  BY <1>0 DEF HotModule, HotMod
<1>02. HotOrder[1] \in HotSources
  <2>1. 1 \in DOMAIN HotOrder
    BY HotAssumption
  <2> QED BY <2>1 DEF HotSources
<1>1. CASE FirstLoad
  <2>1. hotMods' \in [HotSources -> HotMod]
    BY <1>1, <1>01 DEF FirstLoad, HotTyped
  <2>2. hotImporters' \in [HotSources -> SUBSET HotSources]
    BY <1>1 DEF FirstLoad, HotTyped
  <2>3. hotDoc' \in DocState
    BY <1>1 DEF FirstLoad, HotTyped, DocState
  <2>4. hotHistory' \in [left : SUBSET HotSources, owed : [HotSources -> Int], retried : BOOLEAN]
    BY <1>1 DEF FirstLoad, HotTyped
  <2> QED BY <1>1, <2>1, <2>2, <2>3, <2>4 DEF FirstLoad, HotTyped
<1>2. CASE HotCompile
  <2>1. hotMods' \in [HotSources -> HotMod]
    BY <1>2, ResetTyped DEF HotCompile, HotTyped
  <2>2. hotDoc' \in DocState /\ hotDoc.changed \subseteq HotSources
    BY ZenonT(60), <1>2 DEF HotCompile, HotTyped, DocState
  <2>3. hotHistory' \in [left : SUBSET HotSources, owed : [HotSources -> Int], retried : BOOLEAN]
    <3>1. hotHistory' = hotHistory \/ \E lost \in SUBSET HotSources :
            hotHistory' = [hotHistory EXCEPT !.left = @ \cup lost]
      BY <1>2, <2>2 DEF HotCompile
    <3> QED BY <3>1 DEF HotTyped
  <2>4. hotQueue' \subseteq HotSources
    BY <1>2, <2>2 DEF HotCompile, HotTyped
  <2> QED BY <1>2, <2>1, <2>2, <2>3, <2>4 DEF HotCompile, HotTyped
<1>3. CASE GraphFinished
  <2>1. hotDoc' \in DocState
    BY <1>3 DEF GraphFinished, HotTyped, DocState
  <2> QED BY <1>3, <2>1 DEF GraphFinished, HotTyped
<1>4. CASE HotReload
  <2>1. hotMods' \in [HotSources -> HotMod]
    BY <1>4, <1>0, <1>01 DEF HotReload, HotTyped
  <2>2. hotDoc' \in DocState
    BY <1>4 DEF HotReload, HotTyped, DocState
  <2>3. hotHistory' \in [left : SUBSET HotSources, owed : [HotSources -> Int], retried : BOOLEAN]
    BY <1>4 DEF HotReload, NoHistory
  <2> QED BY <1>4, <2>1, <2>2, <2>3 DEF HotReload, HotTyped
<1>5. CASE RunEntry
  <2>1. CASE EvaluateModule(HotOrder[1], <<>>)
    <3>1. <<>> \in Seq(Frame)
      OBVIOUS
    <3> QED BY <1>5, <2>1, <3>1, <1>02, EvaluateModuleTyped DEF RunEntry
  <2>2. CASE hotMods[HotOrder[1]].eval # Unevaluated
    <3>1. hotDoc' \in DocState
      BY ZenonT(60), <1>5, <2>2 DEF RunEntry, HotTyped, DocState
    <3> QED BY <1>5, <2>2, <3>1 DEF RunEntry, HotTyped
  <2> QED BY <1>5, <2>1, <2>2 DEF RunEntry
<1>6. CASE SweepOn
  <2> DEFINE m == HotOrder[hotDoc.next]
  <2>1. m \in HotSources
    BY <1>6 DEF SweepOn, HotSources
  <2>2. hotDoc' \in DocState
    <3>1. hotDoc' = [hotDoc EXCEPT !.next = hotDoc.next + 1]
      BY <1>6 DEF SweepOn
    <3>2. hotDoc \in DocState /\ hotDoc.next + 1 \in Nat
      BY DEF HotTyped, DocState
    <3> QED BY <3>1, <3>2 DEF DocState
  <2>3. CASE Evaluates(m, <<>>)
    <3>1. <<>> \in Seq(Frame)
      OBVIOUS
    <3> QED BY <1>6, <2>1, <2>2, <2>3, <3>1, EvaluateTyped DEF SweepOn, HotTyped
  <2>4. CASE UNCHANGED <<hotMods, hotStack, hotHistory>>
    BY <1>6, <2>2, <2>4 DEF SweepOn, HotTyped
  <2> QED BY <1>6, <2>3, <2>4 DEF SweepOn
<1>7. CASE SweepEnds
  <2>1. hotDoc' \in DocState
    BY <1>7 DEF SweepEnds, HotTyped, DocState
  <2> QED BY <1>7, <2>1 DEF SweepEnds, HotTyped
<1>8. CASE Returns
  <2> DEFINE f == Last(hotStack)  m == f.module
             hmr == [hotMods[m].hmr EXCEPT !.dirty = @ /\ ~IsHot(m)]
  <2>1. f \in Frame /\ Front(hotStack) \in Seq(Frame)
    BY <1>8, FrontOf DEF Returns, HotTyped
  <2>2. m \in HotSources /\ f.rev \in Nat
    BY <2>1 DEF Frame
  <2>3. hotMods[m] \in HotMod
    BY <2>2 DEF HotTyped
  <2>4. hmr \in Hmr
    BY <2>3 DEF HotMod, Hmr
  <2>5. hotMods' = [hotMods EXCEPT ![m] = [hotMods[m] EXCEPT !.eval = f.rev, !.hmr = hmr]]
    BY <1>8, <2>2, <2>3 DEF Returns, HotTyped, HotMod
  <2>6. [hotMods[m] EXCEPT !.eval = f.rev, !.hmr = hmr] \in HotMod
    BY <2>2, <2>3, <2>4 DEF HotMod
  <2>7. hotMods' \in [HotSources -> HotMod]
    BY <2>5, <2>6 DEF HotTyped
  <2>8. hotHistory' \in [left : SUBSET HotSources, owed : [HotSources -> Int], retried : BOOLEAN]
    BY <1>8 DEF Returns, HotTyped
  <2> QED BY <1>8, <2>1, <2>7, <2>8 DEF Returns, HotTyped
<1>9. ASSUME NEW call \in hotLater, AcceptLands(call) \/ DeclineLands(call) PROVE HotTyped'
  <2> DEFINE n == call.of
  <2>1. n \in HotSources
    BY DEF HotTyped, Waiting
  <2>2. hotMods[n] \in HotMod /\ hotMods[n].hmr \in Hmr
    BY <2>1 DEF HotTyped, HotMod
  <2>3. \A type \in {"accept", "decline"} :
          [hotMods[n] EXCEPT !.hmr = [Ensured(hotMods[n].hmr) EXCEPT !.type = type]] \in HotMod
    BY <2>2, HmrParts, ResetTyped
  <2>4. hotMods' \in [HotSources -> HotMod]
    <3>1. CASE AcceptLands(call)
      <4>1. hotMods' = [hotMods EXCEPT ![n] =
                [hotMods[n] EXCEPT !.hmr = [Ensured(hotMods[n].hmr) EXCEPT !.type = "accept"]]]
        BY <3>1, <2>1 DEF AcceptLands, HotTyped
      <4> QED BY <4>1, <2>3 DEF HotTyped
    <3>2. CASE DeclineLands(call)
      <4>1. Declined(hotMods[n]) \in HotMod
        BY <2>3, ResetTyped DEF Declined
      <4> QED BY <3>2, <2>1, <4>1 DEF DeclineLands, HotTyped
    <3> QED BY <1>9, <3>1, <3>2
  <2>5. hotDoc' \in DocState
    BY <1>9 DEF AcceptLands, DeclineLands, HotTyped, DocState
  <2> QED BY <1>9, <2>4, <2>5 DEF AcceptLands, DeclineLands, HotTyped
<1>10. ASSUME NEW m \in HotSources, NEW script \in HotScripts[m], HotEdit(m, script)
       PROVE  HotTyped'
  <2>1. [rev |-> hotDoc.edits + 2, script |-> script] \in HotCode /\ hotDoc.edits + 2 # NullCode
    BY SMTT(30), HotAssumption DEF HotCode, HotTyped, DocState, NullCode
  <2>2. hotDoc' \in DocState
    <3>1. hotDoc' = [hotDoc EXCEPT !.edits = hotDoc.edits + 1, !.changed = hotDoc.changed \cup {m}]
      BY <1>10 DEF HotEdit
    <3>2. hotDoc \in DocState /\ hotDoc.edits + 1 \in Nat /\ hotDoc.changed \cup {m} \in SUBSET HotSources
      BY DEF HotTyped, DocState
    <3> QED BY <3>1, <3>2 DEF DocState
  <2> DEFINE source == [rev |-> hotDoc.edits + 2, script |-> script]
  <2>3. hotSource' = [hotSource EXCEPT ![m] = source]
    BY <1>10 DEF HotEdit
  <2>4. source.script = script /\ source.rev # NullCode
    BY <2>1
  <2> HIDE DEF source
  <2>5. /\ hotSource' \in [HotSources -> HotCode]
        /\ \A n \in HotSources : hotSource'[n].script \in HotScripts[n] /\ hotSource'[n].rev # NullCode
    <3>1. source \in HotCode
      BY <2>1 DEF source
    <3> QED BY <2>3, <2>4, <3>1 DEF HotTyped
  <2> QED BY <1>10, <2>2, <2>5 DEF HotEdit, HotTyped
<1>11. ASSUME NEW m \in HotSources, Transformed(m) PROVE HotTyped'
  <2>1. hotMods' \in [HotSources -> HotMod]
    BY <1>11 DEF Transformed, HotTyped, HotMod
  <2>2. hotImporters' \in [HotSources -> SUBSET HotSources]
    BY <1>11 DEF Transformed, HotTyped
  <2> QED BY <1>11, <2>1, <2>2 DEF Transformed, HotTyped
<1>12. ASSUME NEW m \in HotSources, Require(m) PROVE HotTyped'
  <2>1. CallMade \in Seq(Frame) /\ Of \in HotSources
    BY <1>12, CalledTyped DEF Require
  <2> QED BY <1>12, <2>1, EvaluateModuleTyped DEF Require
<1>13. ASSUME NEW m \in HotSources, AcceptSelf(m) PROVE HotTyped'
  <2>1. CallMade \in Seq(Frame)
    BY <1>13, CalledTyped DEF AcceptSelf
  <2>2. Accepted(hotMods[m].hmr) \in Hmr
    BY HmrParts DEF HotTyped, HotMod
  <2> QED BY <1>13, <2>1, <2>2, SetsHmrTyped DEF AcceptSelf
<1>14. ASSUME NEW m \in HotSources, Dispose(m) PROVE HotTyped'
  <2>1. CallMade \in Seq(Frame) /\ Keeps \in Nat
    BY <1>14, CalledTyped DEF Dispose
  <2>2. WithHandler(hotMods[m].hmr, Keeps) \in Hmr
    BY <2>1, HmrParts DEF HotTyped, HotMod
  <2> QED BY <1>14, <2>1, <2>2, SetsHmrTyped DEF Dispose
<1>15. ASSUME NEW m \in HotSources, OtherModule(m) PROVE HotTyped'
  <2>1. CallMade \in Seq(Frame) /\ Head(Last(hotStack).rest) \in Waiting
    BY <1>15, CalledTyped DEF OtherModule
  <2> QED BY <1>15, <2>1 DEF OtherModule, HotTyped
<1>16. ASSUME NEW m \in HotSources, DeclineSelf(m) PROVE HotTyped'
  <2>1. CallMade \in Seq(Frame)
    BY <1>16, CalledTyped DEF DeclineSelf
  <2>2. hotMods[m] \in HotMod /\ hotMods[m].hmr \in Hmr
    BY DEF HotTyped, HotMod
  <2>3. [hotMods[m] EXCEPT !.hmr = [Ensured(hotMods[m].hmr) EXCEPT !.type = "decline"]] \in HotMod
    BY <2>2, HmrParts, ResetTyped
  <2>4. hotMods' \in [HotSources -> HotMod]
    <3>1. Declined(hotMods[m]) \in HotMod
      BY <2>3, ResetTyped DEF Declined
    <3> QED BY <1>16, <3>1 DEF DeclineSelf, HotTyped
  <2>5. hotDoc' \in DocState
    BY <1>16 DEF DeclineSelf, HotTyped, DocState
  <2> QED BY <1>16, <2>1, <2>4, <2>5 DEF DeclineSelf, HotTyped
<1>17. ASSUME NEW m \in HotSources, Throw(m) PROVE HotTyped'
  BY <1>17, ThrowTyped DEF Throw
<1>18. ASSUME NEW m \in HotSources, PostludeAccepts(m) PROVE HotTyped'
  <2>1. CallMade \in Seq(Frame) /\ Keeps \in Nat
    BY <1>18, CalledTyped DEF PostludeAccepts
  <2>2. PostludeHmr(m, Keeps) \in Hmr
    BY <2>1, HmrParts DEF HotTyped, HotMod, PostludeHmr, IsReactRefreshBoundary
  <2> QED BY <1>18, <2>1, <2>2, SetsHmrTyped DEF PostludeAccepts
<1>19. ASSUME NEW m \in HotSources, PostludeInvalidates(m) PROVE HotTyped'
  <2> DEFINE mine == [hotMods EXCEPT ![m].hmr = PostludeHmr(m, Keeps)]
  <2>1. CallMade \in Seq(Frame) /\ Keeps \in Nat
    BY <1>19, CalledTyped DEF PostludeInvalidates
  <2>2. PostludeHmr(m, Keeps) \in Hmr
    BY <2>1, HmrParts DEF HotTyped, HotMod, PostludeHmr, IsReactRefreshBoundary
  <2>3. mine \in [HotSources -> HotMod]
    <3>1. [hotMods[m] EXCEPT !.hmr = PostludeHmr(m, Keeps)] \in HotMod
      BY <2>2, ResetTyped DEF HotTyped
    <3> QED BY <3>1 DEF HotTyped
  <2>4. hotMods' = [n \in HotSources |-> IF n \in hotImporters[m] THEN ResetModule(mine[n]) ELSE mine[n]]
    BY <1>19 DEF PostludeInvalidates
  <2>5. hotMods' \in [HotSources -> HotMod]
    <3> HIDE DEF mine
    <3> QED BY <2>3, <2>4, ResetTyped
  <2>6. hotDoc' \in DocState
    <3> DEFINE reloads == \E n \in HotSources :
                 (n \in hotImporters[m] /\ mine[n].code # NotCompiled) /\ mine[n].hmr.type # "accept"
    <3>1. hotDoc' = [hotDoc EXCEPT !.hmr = TRUE, !.reloading = @ \/ reloads]
      BY <1>19 DEF PostludeInvalidates
    <3>2. reloads \in BOOLEAN
      OBVIOUS
    <3> HIDE DEF reloads
    <3> QED BY <3>1, <3>2 DEF HotTyped, DocState
  <2>7. hotHistory' \in [left : SUBSET HotSources, owed : [HotSources -> Int], retried : BOOLEAN]
    <3>1. Owes(m, KeptExports(m, Keeps)) \in [HotSources -> Int]
      BY DEF Owes, HotTyped
    <3>2. \E killed \in SUBSET HotSources :
            hotHistory' = [hotHistory EXCEPT !.owed = Owes(m, KeptExports(m, Keeps)),
                                             !.left = @ \cup killed]
      BY <1>19 DEF PostludeInvalidates
    <3> QED BY <3>1, <3>2 DEF HotTyped
  <2>8. hotQueue' \subseteq HotSources
    BY <1>19 DEF PostludeInvalidates, HotTyped
  <2> QED BY <1>19, <2>1, <2>5, <2>6, <2>7, <2>8 DEF PostludeInvalidates, HotTyped
<1> QED BY <1>1, <1>2, <1>3, <1>4, <1>5, <1>6, <1>7, <1>8, <1>9, <1>10, <1>11, <1>12, <1>13,
           <1>14, <1>15, <1>16, <1>17, <1>18, <1>19 DEF HotNext

----------------------------------------------------------------------------
(* EffectsAreDisposed. *)

Handler(m) == hotMods[m].hmr.handler

LEMMA InitOwing == HotInit => Owing
  BY DEF HotInit, Owing, Handled, HotModule, NoHmr, NoHistory

LEMMA OwingAside ==
  ASSUME Owing, hotHistory'.owed = hotHistory.owed, hotHistory'.retried = hotHistory.retried,
         \A m \in HotSources : Handler(m)' = Handler(m)
  PROVE  Owing'
  BY DEF Owing, Handled, Handler

LEMMA OwingRegisters ==
  ASSUME HotTyped, Owing, NEW m \in HotSources, NEW keeps \in Nat \cup {NoHandler},
         hotHistory'.owed = Owes(m, keeps), hotHistory'.retried = hotHistory.retried,
         \A n \in HotSources :
           Handler(n)' = IF n = m /\ keeps # NoHandler THEN keeps ELSE Handler(n)
  PROVE  Owing'
<1> SUFFICES ASSUME NEW n \in HotSources
             PROVE  /\ hotHistory'.owed[n] >= Handled(n)'
                    /\ ~hotHistory'.retried => hotHistory'.owed[n] = Handled(n)'
  BY DEF Owing
<1>1. hotHistory.owed \in [HotSources -> Int] /\ Handled(n) \in Int
  BY DEF HotTyped, Handled
<1>2. Handled(n) = (IF Handler(n) = NoHandler THEN 0 ELSE 1)
      /\ Handled(n)' = (IF Handler(n)' = NoHandler THEN 0 ELSE 1)
  BY DEF Handled, Handler
<1>3. /\ hotHistory.owed[n] >= Handled(n)
      /\ ~hotHistory.retried => hotHistory.owed[n] = Handled(n)
  BY DEF Owing
<1>4. CASE n = m /\ keeps # NoHandler /\ Handler(m) = NoHandler
  BY <1>1, <1>2, <1>3, <1>4 DEF Owes, Handler
<1>5. CASE ~(n = m /\ keeps # NoHandler /\ Handler(m) = NoHandler)
  <2>1. hotHistory'.owed[n] = hotHistory.owed[n]
    BY <1>1, <1>5 DEF Owes, Handler
  <2>2. Handled(n)' = Handled(n)
    BY <1>2, <1>5
  <2> QED BY <1>3, <2>1, <2>2
<1> QED BY <1>4, <1>5

LEMMA HmrHandlers ==
  ASSUME NEW hmr \in Hmr
  PROVE  /\ Accepted(hmr).handler = hmr.handler
         /\ [Ensured(hmr) EXCEPT !.type = "accept"].handler = hmr.handler
         /\ [Ensured(hmr) EXCEPT !.type = "decline"].handler = hmr.handler
         /\ \A keeps \in Nat : WithHandler(hmr, keeps).handler = keeps
         /\ Clone(Disposed(hmr)).handler = NoHandler
  BY DEF Hmr, Ensured, Clone, Disposed, Accepted, WithHandler, NoHmr

LEMMA ResetHandler ==
  ASSUME NEW module \in HotMod
  PROVE  /\ ResetModule(module).hmr.handler = module.hmr.handler
         /\ Declined(module).hmr.handler = module.hmr.handler
         /\ module.hmr \in Hmr
<1>1. ASSUME NEW m \in HotMod PROVE ResetModule(m).hmr.handler = m.hmr.handler
  BY <1>1 DEF ResetModule, HotMod, Hmr
<1>2. module.hmr \in Hmr
  BY DEF HotMod
<1> DEFINE hmr == [Ensured(module.hmr) EXCEPT !.type = "decline"]
           declined == [module EXCEPT !.hmr = hmr]
<1>3. hmr \in Hmr /\ hmr.handler = module.hmr.handler
  BY <1>2, HmrParts, HmrHandlers
<1>4. Declined(module) = ResetModule(declined)
  BY DEF Declined
<1> HIDE DEF hmr
<1>5. declined \in HotMod
  BY <1>3, ResetTyped
<1>6. declined.hmr = hmr
  BY DEF HotMod
<1>7. Declined(module).hmr.handler = module.hmr.handler
  <2> HIDE DEF declined
  <2> QED BY <1>1, <1>3, <1>4, <1>5, <1>6
<1> QED BY <1>1, <1>2, <1>7

LEMMA EvaluatesOwing ==
  ASSUME HotTyped, Owing, NEW m \in HotSources, NEW stack, Evaluates(m, stack)
  PROVE  Owing'
<1> SUFFICES ASSUME NEW n \in HotSources
             PROVE  /\ hotHistory'.owed[n] >= Handled(n)'
                    /\ ~hotHistory'.retried => hotHistory'.owed[n] = Handled(n)'
  BY DEF Owing
<1> DEFINE v == IF Handler(m) = NoHandler THEN hotHistory.owed[m] ELSE hotHistory.owed[m] - 1
<1>1. hotHistory' = [hotHistory EXCEPT !.owed = [hotHistory.owed EXCEPT ![m] = v]]
  BY DEF Evaluates, HotTyped, Handler
<1>2. hotHistory.owed \in [HotSources -> Int] /\ v \in Int
  BY DEF HotTyped
<1>3. hotHistory'.retried = hotHistory.retried
      /\ hotHistory'.owed = [hotHistory.owed EXCEPT ![m] = v]
  BY <1>1 DEF HotTyped
<1>4. /\ hotHistory.owed[n] >= Handled(n)
      /\ ~hotHistory.retried => hotHistory.owed[n] = Handled(n)
  BY DEF Owing
<1>5. CASE n # m
  <2>1. hotMods'[n] = hotMods[n] /\ hotHistory'.owed[n] = hotHistory.owed[n]
    BY <1>2, <1>3, <1>5 DEF Evaluates, HotTyped
  <2> QED BY <1>3, <1>4, <2>1 DEF Handled
<1>6. CASE n = m
  <2>1. hotMods[m].hmr \in Hmr
    BY DEF HotTyped, HotMod
  <2>2. hotMods'[m].hmr = Clone(Disposed(hotMods[m].hmr))
    BY DEF Evaluates, HotTyped, HotMod
  <2>3. Handled(m)' = 0
    BY <2>1, <2>2, HmrHandlers DEF Handled
  <2>4. hotHistory'.owed[m] = v /\ Handled(m) = (IF Handler(m) = NoHandler THEN 0 ELSE 1)
    BY <1>2, <1>3 DEF Handled, Handler
  <2> QED BY <1>2, <1>3, <1>4, <1>6, <2>3, <2>4
<1> QED BY <1>5, <1>6

LEMMA EvaluateModuleOwing ==
  ASSUME HotTyped, Owing, NEW m \in HotSources, NEW stack, EvaluateModule(m, stack)
  PROVE  Owing'
<1>1. CASE UNCHANGED <<hotMods, hotHistory>>
  BY <1>1, OwingAside DEF Handler
<1>2. CASE Throws
  BY <1>2, OwingAside DEF Throws, Handler, HotTyped
<1>3. CASE Evaluates(m, stack)
  BY <1>3, EvaluatesOwing
<1> QED BY <1>1, <1>2, <1>3 DEF EvaluateModule

LEMMA SetsHmrOwing ==
  ASSUME HotTyped, Owing, NEW m \in HotSources, NEW hmr, NEW keeps \in Nat \cup {NoHandler},
         SetsHmr(m, hmr, keeps),
         hmr.handler = IF keeps = NoHandler THEN Handler(m) ELSE keeps
  PROVE  Owing'
<1>1. hotHistory'.owed = Owes(m, keeps) /\ hotHistory'.retried = hotHistory.retried
  BY DEF SetsHmr, HotTyped
<1>2. hotMods'[m].hmr = hmr /\ \A n \in HotSources \ {m} : hotMods'[n] = hotMods[n]
  BY DEF SetsHmr, HotTyped, HotMod
<1>3. \A n \in HotSources :
        Handler(n)' = IF n = m /\ keeps # NoHandler THEN keeps ELSE Handler(n)
  BY <1>2 DEF Handler
<1> QED BY <1>1, <1>3, OwingRegisters

LEMMA PostludeHandler ==
  ASSUME HotTyped, NEW m \in HotSources, NEW signature \in Nat
  PROVE  /\ KeptExports(m, signature) \in Nat \cup {NoHandler}
         /\ PostludeHmr(m, signature).handler =
              IF KeptExports(m, signature) = NoHandler THEN Handler(m)
              ELSE KeptExports(m, signature)
<1>1. hotMods[m].hmr \in Hmr
  BY DEF HotTyped, HotMod
<1>2. signature # NoHandler
  BY DEF NoHandler
<1>3. /\ WithHandler(hotMods[m].hmr, signature).handler = signature
      /\ Accepted(WithHandler(hotMods[m].hmr, signature)).handler = signature
  BY <1>1, HmrParts, HmrHandlers
<1> QED BY <1>2, <1>3 DEF KeptExports, PostludeHmr, IsReactRefreshBoundary, Handler

LEMMA NextOwing == HotTyped /\ Owing /\ HotNext => Owing'
<1> SUFFICES ASSUME HotTyped, Owing, HotNext PROVE Owing'
  OBVIOUS
<1>02. HotOrder[1] \in HotSources
  <2>1. 1 \in DOMAIN HotOrder
    BY HotAssumption
  <2> QED BY <2>1 DEF HotSources
<1>1. CASE FirstLoad
  <2>1. \A m \in HotSources : Handled(m)' = 0
    BY <1>1 DEF FirstLoad, Handled, HotModule, NoHmr
  <2>2. hotHistory'.owed = hotHistory.owed
        /\ hotHistory'.retried = \E m \in HotSources : hotHistory.owed[m] > 0
    BY <1>1 DEF FirstLoad, HotTyped
  <2>3. \A m \in HotSources : hotHistory.owed[m] \in Int /\ hotHistory.owed[m] >= 0
    BY DEF HotTyped, Owing, Handled
  <2> QED BY <2>1, <2>2, <2>3 DEF Owing
<1>2. CASE HotCompile
  <2>1. hotHistory'.owed = hotHistory.owed /\ hotHistory'.retried = hotHistory.retried
    BY <1>2 DEF HotCompile, HotTyped
  <2>2. \A m \in HotSources : Handler(m)' = Handler(m)
    BY <1>2, ResetHandler DEF HotCompile, HotTyped, Handler
  <2> QED BY <2>1, <2>2, OwingAside
<1>3. CASE UNCHANGED <<hotMods, hotHistory>>
  BY <1>3, OwingAside DEF Handler
<1>4. CASE HotReload
  BY <1>4 DEF HotReload, Owing, Handled, NoHistory, HotModule, NoHmr
<1>5. CASE RunEntry
  <2>1. CASE EvaluateModule(HotOrder[1], <<>>)
    BY <2>1, <1>02, EvaluateModuleOwing
  <2>2. CASE UNCHANGED <<hotMods, hotHistory>>
    BY <2>2, <1>3
  <2> QED BY <1>5, <2>1, <2>2 DEF RunEntry
<1>6. CASE SweepOn
  <2> DEFINE m == HotOrder[hotDoc.next]
  <2>1. m \in HotSources
    BY <1>6 DEF SweepOn, HotSources
  <2>2. CASE Evaluates(m, <<>>)
    BY <2>1, <2>2, EvaluatesOwing
  <2>3. CASE UNCHANGED <<hotMods, hotHistory>>
    BY <2>3, <1>3
  <2> QED BY <1>6, <2>2, <2>3 DEF SweepOn
<1>8. CASE Returns
  <2> DEFINE f == Last(hotStack)  m == f.module
  <2>1. f \in Frame /\ m \in HotSources
    BY <1>8, FrontOf DEF Returns, HotTyped, Frame
  <2>2. \A n \in HotSources : Handler(n)' = Handler(n)
    BY <1>8, <2>1 DEF Returns, HotTyped, HotMod, Hmr, Handler
  <2>3. hotHistory'.owed = hotHistory.owed /\ hotHistory'.retried = hotHistory.retried
    BY <1>8 DEF Returns, HotTyped
  <2> QED BY <2>2, <2>3, OwingAside
<1>9. ASSUME NEW call \in hotLater, AcceptLands(call) \/ DeclineLands(call) PROVE Owing'
  <2> DEFINE n == call.of
  <2>1. n \in HotSources
    BY DEF HotTyped, Waiting
  <2>2. hotMods[n] \in HotMod /\ hotMods[n].hmr \in Hmr
    BY <2>1 DEF HotTyped, HotMod
  <2>3. Handler(n)' = Handler(n)
    <3>1. CASE AcceptLands(call)
      <4>1. hotMods'[n].hmr = [Ensured(hotMods[n].hmr) EXCEPT !.type = "accept"]
        BY <3>1, <2>1, <2>2 DEF AcceptLands, HotTyped, HotMod
      <4> QED BY <4>1, <2>2, HmrHandlers DEF Handler
    <3>2. CASE DeclineLands(call)
      <4>1. hotMods'[n] = Declined(hotMods[n])
        BY <3>2, <2>1 DEF DeclineLands, HotTyped
      <4> QED BY <4>1, <2>2, ResetHandler DEF Handler
    <3> QED BY <1>9, <3>1, <3>2
  <2>4. \A k \in HotSources \ {n} : hotMods'[k] = hotMods[k]
    BY <1>9 DEF AcceptLands, DeclineLands, HotTyped
  <2>5. hotHistory' = hotHistory
    BY <1>9 DEF AcceptLands, DeclineLands
  <2> QED BY <2>3, <2>4, <2>5, OwingAside DEF Handler
<1>11. ASSUME NEW m \in HotSources, Transformed(m) PROVE Owing'
  <2>1. \A n \in HotSources : Handler(n)' = Handler(n)
    BY <1>11 DEF Transformed, HotTyped, HotMod, Handler
  <2> QED BY <1>11, <2>1, OwingAside DEF Transformed
<1>12. ASSUME NEW m \in HotSources, Require(m) PROVE Owing'
  <2>1. Of \in HotSources
    BY <1>12, CalledTyped DEF Require
  <2> QED BY <1>12, <2>1, EvaluateModuleOwing DEF Require
<1>13. ASSUME NEW m \in HotSources, AcceptSelf(m) PROVE Owing'
  <2>1. Accepted(hotMods[m].hmr).handler = Handler(m)
    BY HmrHandlers DEF HotTyped, HotMod, Handler
  <2> QED BY <1>13, <2>1, SetsHmrOwing DEF AcceptSelf
<1>14. ASSUME NEW m \in HotSources, Dispose(m) PROVE Owing'
  <2>1. Keeps \in Nat
    BY <1>14, CalledTyped DEF Dispose
  <2>2. WithHandler(hotMods[m].hmr, Keeps).handler = Keeps /\ Keeps # NoHandler
    BY <2>1, HmrHandlers DEF HotTyped, HotMod, NoHandler
  <2> QED BY <1>14, <2>1, <2>2, SetsHmrOwing DEF Dispose
<1>16. ASSUME NEW m \in HotSources, DeclineSelf(m) PROVE Owing'
  <2>1. hotMods[m] \in HotMod
    BY DEF HotTyped
  <2>2. hotMods'[m] = Declined(hotMods[m]) /\ \A k \in HotSources \ {m} : hotMods'[k] = hotMods[k]
    BY <1>16 DEF DeclineSelf, HotTyped
  <2>3. \A k \in HotSources : Handler(k)' = Handler(k)
    BY <2>1, <2>2, ResetHandler DEF Handler
  <2> QED BY <1>16, <2>3, OwingAside DEF DeclineSelf
<1>17. ASSUME NEW m \in HotSources, Throw(m) PROVE Owing'
  BY <1>17, OwingAside DEF Throw, Throws, Handler, HotTyped
<1>18. ASSUME NEW m \in HotSources, PostludeAccepts(m) PROVE Owing'
  <2>1. Keeps \in Nat
    BY <1>18, CalledTyped DEF PostludeAccepts
  <2> QED BY <1>18, <2>1, PostludeHandler, SetsHmrOwing DEF PostludeAccepts
<1>19. ASSUME NEW m \in HotSources, PostludeInvalidates(m) PROVE Owing'
  <2> DEFINE hmr == PostludeHmr(m, Keeps)
             mine == [hotMods EXCEPT ![m].hmr = hmr]
             keeps == KeptExports(m, Keeps)
  <2>1. Keeps \in Nat
    BY <1>19, CalledTyped DEF PostludeInvalidates
  <2>2. hmr \in Hmr /\ keeps \in Nat \cup {NoHandler}
        /\ hmr.handler = IF keeps = NoHandler THEN Handler(m) ELSE keeps
    BY <2>1, HmrParts, PostludeHandler DEF HotTyped, HotMod, PostludeHmr, IsReactRefreshBoundary
  <2>3. \A n \in HotSources : mine[n] \in HotMod
    <3>1. [hotMods[m] EXCEPT !.hmr = hmr] \in HotMod
      BY <2>2, ResetTyped DEF HotTyped
    <3> HIDE DEF hmr
    <3> QED BY <3>1 DEF HotTyped
  <2>4. \A n \in HotSources :
          mine[n].hmr.handler = IF n = m /\ keeps # NoHandler THEN keeps ELSE Handler(n)
    <3>1. mine[m].hmr = hmr /\ \A n \in HotSources \ {m} : mine[n] = hotMods[n]
      <4> HIDE DEF hmr
      <4> QED BY DEF HotTyped, HotMod
    <3> HIDE DEF hmr, mine, keeps
    <3> QED BY <2>2, <3>1 DEF Handler
  <2>5. hotMods' = [n \in HotSources |-> IF n \in hotImporters[m] THEN ResetModule(mine[n]) ELSE mine[n]]
        /\ hotHistory'.owed = Owes(m, keeps) /\ hotHistory'.retried = hotHistory.retried
    BY <1>19 DEF PostludeInvalidates, HotTyped
  <2>6. \A n \in HotSources :
          Handler(n)' = IF n = m /\ keeps # NoHandler THEN keeps ELSE Handler(n)
    <3> HIDE DEF mine, keeps
    <3> QED BY <2>3, <2>4, <2>5, ResetHandler DEF Handler
  <2> HIDE DEF keeps
  <2> QED BY <2>2, <2>5, <2>6, OwingRegisters
<1>20. GraphFinished \/ SweepEnds \/ (\E m \in HotSources : OtherModule(m)
         \/ \E script \in HotScripts[m] : HotEdit(m, script)) => UNCHANGED <<hotMods, hotHistory>>
  BY DEF GraphFinished, SweepEnds, OtherModule, HotEdit
<1> QED BY <1>1, <1>2, <1>3, <1>4, <1>5, <1>6, <1>8, <1>9, <1>11, <1>12, <1>13,
           <1>14, <1>16, <1>17, <1>18, <1>19, <1>20 DEF HotNext

LEMMA OwingImplies == Owing => EffectsAreDisposed
  BY DEF Owing, Handled, EffectsAreDisposed

----------------------------------------------------------------------------
(* UpdatesReachModules: the calls of running code. *)

LEMMA TailRequires ==
  ASSUME NEW rest \in Seq(Call), rest # <<>>
  PROVE  Requires(rest) = IF Head(rest).op = "require" THEN {Head(rest).of} \cup Requires(Tail(rest))
                          ELSE Requires(Tail(rest))
<1>1. Range(rest) = {Head(rest)} \cup Range(Tail(rest))
  <2>1. /\ Len(rest) \in Nat \ {0} /\ DOMAIN rest = 1 .. Len(rest) /\ Head(rest) = rest[1]
        /\ DOMAIN Tail(rest) = 1 .. Len(rest) - 1
        /\ \A i \in 1 .. Len(rest) - 1 : Tail(rest)[i] = rest[i + 1]
    OBVIOUS
  <2>2. ASSUME NEW i \in DOMAIN rest PROVE rest[i] \in {Head(rest)} \cup Range(Tail(rest))
    <3>1. CASE i = 1
      BY <3>1, <2>1
    <3>2. CASE i # 1
      <4>1. i - 1 \in DOMAIN Tail(rest) /\ Tail(rest)[i - 1] = rest[i]
        BY <3>2, <2>1
      <4> QED BY <4>1 DEF Range
    <3> QED BY <3>1, <3>2
  <2>3. ASSUME NEW i \in DOMAIN Tail(rest) PROVE Tail(rest)[i] \in Range(rest)
    <3>1. i + 1 \in DOMAIN rest /\ Tail(rest)[i] = rest[i + 1]
      BY <2>1
    <3> QED BY <3>1 DEF Range
  <2>4. Head(rest) \in Range(rest)
    BY <2>1 DEF Range
  <2> QED BY <2>2, <2>3, <2>4 DEF Range
<1> QED BY <1>1 DEF Requires

\* A stack of the same modules: the module on top has made a call.
SameRuns(stack) ==
  /\ stack \in Seq(Frame) /\ Len(stack) = Len(hotStack)
  /\ \A i \in DOMAIN hotStack :
       /\ stack[i].module = hotStack[i].module /\ stack[i].rev = hotStack[i].rev
       /\ i # Len(hotStack) => stack[i].rest = hotStack[i].rest

LEMMA CallMadeRuns ==
  ASSUME HotTyped, NEW m \in HotSources, NEW op, Calls(m, op)
  PROVE  /\ SameRuns(CallMade)
         /\ LET n == Len(hotStack) IN
            /\ n \in DOMAIN hotStack /\ hotStack[n].module = m
            /\ Requires(hotStack[n].rest) =
                 IF op = "require" THEN {Of} \cup Requires(CallMade[n].rest)
                 ELSE Requires(CallMade[n].rest)
<1> DEFINE n == Len(hotStack)
<1>1. hotStack \in Seq(Frame) /\ hotStack # <<>> /\ Last(hotStack).rest # <<>>
      /\ Last(hotStack).module = m /\ Head(Last(hotStack).rest).op = op
  BY DEF HotTyped, Calls
<1>2. n \in DOMAIN hotStack /\ hotStack[n] = Last(hotStack) /\ Last(hotStack) \in Frame
  BY <1>1, FrontOf
<1>3. SameRuns(CallMade) /\ CallMade[n].rest = Tail(Last(hotStack).rest)
  BY <1>1, <1>2, Running DEF SameRuns
<1>4. Last(hotStack).rest \in Seq(Call)
  BY <1>2 DEF Frame
<1> QED BY <1>1, <1>2, <1>3, <1>4, TailRequires DEF Of

LEMMA SameOnStack ==
  ASSUME hotStack \in Seq(Frame), SameRuns(hotStack')
  PROVE  /\ OnStack' = OnStack /\ DOMAIN hotStack' = DOMAIN hotStack
         /\ \A i \in DOMAIN hotStack : Under(i)' = Under(i)
<1>1. DOMAIN hotStack' = DOMAIN hotStack
  BY DEF SameRuns
<1>2. \A i \in DOMAIN hotStack : hotStack'[i].module = hotStack[i].module
  BY DEF SameRuns
<1>3. OnStack' = OnStack
  BY <1>1, <1>2 DEF OnStack
<1>4. \A i \in DOMAIN hotStack : Under(i)' = Under(i)
  BY <1>1, <1>2 DEF Under
<1> QED BY <1>1, <1>3, <1>4

SameDoc ==
  /\ hotDoc'.at = hotDoc.at /\ hotDoc'.first = hotDoc.first /\ hotDoc'.next = hotDoc.next
  /\ hotDoc'.changed = hotDoc.changed /\ hotDoc'.ok = hotDoc.ok

\* A call that is not require, and resets the modules `killed`.
LEMMA CallStep ==
  ASSUME HotTyped, Flow, NEW m \in HotSources, NEW op, op # "require", Calls(m, op),
         NEW killed \in SUBSET HotSources, SameDoc, hotSource' = hotSource,
         hotStack' = CallMade, hotHistory'.left = hotHistory.left \cup killed,
         hotQueue' = hotQueue \cup killed,
         \A n \in killed : /\ hotMods'[n].code = NotCompiled /\ hotMods'[n].eval = Unevaluated
                           /\ n = m \/ hotMods[n].hmr.type = "accept",
         \A n \in HotSources \ killed :
           /\ hotMods'[n].code = hotMods[n].code /\ hotMods'[n].eval = hotMods[n].eval
           /\ n # m => hotMods'[n].hmr = hotMods[n].hmr
  PROVE  Flow'
<1> DEFINE top == Len(hotStack)
<1>1. hotStack \in Seq(Frame) /\ SameRuns(hotStack')
  BY CallMadeRuns DEF HotTyped
<1>2. /\ OnStack' = OnStack /\ DOMAIN hotStack' = DOMAIN hotStack
      /\ \A i \in DOMAIN hotStack : Under(i)' = Under(i)
  BY <1>1, SameOnStack
<1>3. m \in OnStack
  BY CalledTyped
<1>4. \A i \in DOMAIN hotStack : Requires(hotStack'[i].rest) = Requires(hotStack[i].rest)
  BY <1>1, CallMadeRuns DEF SameRuns
<1>5. \A n \in HotSources : Ran(n) => Ran(n)'
  BY DEF Ran
<1>6. HasRun \subseteq HasRun'
  BY <1>5 DEF HasRun
<1>7. Current'
  BY DEF Current, Flow, SameDoc
<1>8. CurrentRuns'
  BY <1>1, <1>2 DEF CurrentRuns, SameRuns, Flow, SameDoc
<1>12. OnceEach'
  BY <1>1, <1>2 DEF OnceEach, SameRuns, Flow
<1>9. Recompiles'
  BY DEF Recompiles, Flow, SameDoc
<1>10. Due'
  BY <1>2, <1>3 DEF Due, Flow, SameDoc, Ahead
<1>11. ASSUME hotDoc'.at = "first" PROVE Closed'
  <2>0. hotDoc.at = "first"
    BY <1>11 DEF SameDoc
  <2>1. \A n \in HotSources : hotMods'[n].code = NotCompiled => Ran(n)'
    BY <2>0, <1>5 DEF Closed, Flow, Ran
  <2>2. ASSUME NEW n \in HotSources \ OnStack
        PROVE  IF Ran(n)' THEN Requires(hotSource'[n].script) \subseteq HasRun'
               ELSE hotMods'[n].hmr.type # "accept"
    <3>1. n # m
      BY <1>3
    <3>2. IF Ran(n) THEN Requires(hotSource[n].script) \subseteq HasRun
          ELSE hotMods[n].hmr.type # "accept"
      BY <2>0 DEF Closed, Flow
    <3>3. CASE Ran(n)
      BY <3>2, <3>3, <1>5, <1>6
    <3>4. CASE ~Ran(n)
      <4>1. n \notin killed
        BY <3>1, <3>2, <3>4
      <4> QED BY <3>1, <3>2, <3>4, <4>1 DEF Ran
    <3> QED BY <3>3, <3>4
  <2>3. ASSUME NEW i \in DOMAIN hotStack
        PROVE  Requires(hotSource'[hotStack'[i].module].script) \subseteq
                 HasRun' \cup Requires(hotStack'[i].rest) \cup Under(i)'
    <3>1. Requires(hotSource[hotStack[i].module].script) \subseteq
                 HasRun \cup Requires(hotStack[i].rest) \cup Under(i)
      BY <2>0 DEF Closed, Flow
    <3>2. hotStack'[i].module = hotStack[i].module
      BY <1>1 DEF SameRuns
    <3> QED BY <3>1, <3>2, <1>2, <1>4, <1>6
  <2> QED BY <2>0, <1>2, <2>1, <2>2, <2>3 DEF Closed, Flow, SameDoc
<1> QED BY <1>7, <1>8, <1>9, <1>10, <1>11, <1>12 DEF Closed, Flow

----------------------------------------------------------------------------
(* UpdatesReachModules: evaluations. *)

LEMMA OrderTyped == HotOrder[1] \in HotSources
<1>1. 1 \in DOMAIN HotOrder
  BY HotAssumption
<1> QED BY <1>1 DEF HotSources

\* A module is run from nothing, from the sweep at `next`, or from the module on top.
LEMMA PushStep ==
  ASSUME HotTyped, Flow, NEW m \in HotSources, NEW stack, SameRuns(stack),
         hotStack # <<>> => Requires(hotStack[Len(hotStack)].rest) \subseteq
                              {m} \cup Requires(stack[Len(hotStack)].rest),
         Evaluates(m, stack), hotMods[m].eval = Unevaluated, m \notin OnStack,
         hotDoc.at \in {"first", "sweep"}, hotSource' = hotSource, hotQueue' = hotQueue,
         hotDoc'.at = hotDoc.at, hotDoc'.first = hotDoc.first, hotDoc'.changed = hotDoc.changed,
         hotDoc'.ok = hotDoc.ok,
         \/ hotDoc'.next = hotDoc.next
         \/ hotDoc'.next = hotDoc.next + 1 /\ HotOrder[hotDoc.next] = m
  PROVE  Flow'
<1> DEFINE top == Len(hotStack)
           frame == [module |-> m, rev |-> hotMods[m].code.rev, rest |-> hotMods[m].code.script]
<1>1. hotStack \in Seq(Frame) /\ stack \in Seq(Frame) /\ Len(stack) = top /\ top \in Nat
  BY DEF HotTyped, SameRuns
<1>2. hotStack' = Append(stack, frame)
  BY DEF Evaluates
<1>3. /\ frame.module = m /\ frame.rev = hotMods[m].code.rev /\ frame.rest = hotMods[m].code.script
      /\ frame \in Frame
  BY DEF Frame, HotTyped, HotMod, HotCode
<1> HIDE DEF frame
<1>4. /\ DOMAIN hotStack = 1 .. top /\ DOMAIN hotStack' = 1 .. top + 1
      /\ \A i \in 1 .. top : hotStack'[i] = stack[i]
      /\ hotStack'[top + 1] = frame
  BY <1>1, <1>2, <1>3
<1>5. \A i \in 1 .. top :
        /\ hotStack'[i].module = hotStack[i].module /\ hotStack'[i].rev = hotStack[i].rev
        /\ i # top => hotStack'[i].rest = hotStack[i].rest
  BY <1>4 DEF SameRuns
<1>6. OnStack' = OnStack \cup {m}
  <2>1. \A i \in 1 .. top : hotStack'[i].module \in OnStack
    BY <1>4, <1>5 DEF OnStack
  <2>2. \A i \in 1 .. top : hotStack[i].module \in OnStack'
    <3>1. \A i \in 1 .. top : i \in DOMAIN hotStack'
      BY <1>1, <1>4
    <3> QED BY <3>1, <1>5 DEF OnStack
  <2>3. m \in OnStack'
    <3>1. top + 1 \in DOMAIN hotStack'
      BY <1>1, <1>4
    <3> QED BY <3>1, <1>3, <1>4 DEF OnStack
  <2>4. \A i \in DOMAIN hotStack' : i \in 1 .. top \/ i = top + 1
    BY <1>1, <1>4
  <2>5. ASSUME NEW i \in DOMAIN hotStack' PROVE hotStack'[i].module \in OnStack \cup {m}
    BY <2>1, <2>4, <1>3, <1>4
  <2>6. OnStack' \subseteq OnStack \cup {m}
    BY <2>5 DEF OnStack
  <2>7. OnStack \subseteq OnStack'
    BY <2>2, <1>4 DEF OnStack
  <2> QED BY <2>3, <2>6, <2>7
<1>7. hotHistory'.left = hotHistory.left
  BY DEF Evaluates, HotTyped
<1>8. \A n \in HotSources :
        /\ hotMods'[n].code = hotMods[n].code /\ hotMods'[n].eval = hotMods[n].eval
        /\ n # m => hotMods'[n].hmr = hotMods[n].hmr
  BY DEF Evaluates, HotTyped, HotMod
<1>9. Current'
  BY <1>7, <1>8 DEF Current, Flow
<1>10. Recompiles'
  BY <1>7, <1>8 DEF Recompiles, Flow
<1>11. CurrentRuns'
  <2> SUFFICES ASSUME NEW i \in DOMAIN hotStack'
               PROVE  LET n == hotStack'[i].module IN
                      \/ hotStack'[i].rev = hotSource[n].rev
                      \/ n \in hotDoc.changed
                      \/ hotStack'[i].rev = NullCode /\ n \in hotHistory.left
    BY <1>7 DEF CurrentRuns
  <2>1. CASE i \in 1 .. top
    BY <2>1, <1>4, <1>5 DEF CurrentRuns, Flow
  <2>2. CASE i = top + 1
    <3>1. hotStack'[i].module = m /\ hotStack'[i].rev = hotMods[m].code.rev
      BY <2>2, <1>3, <1>4
    <3>2. CASE hotMods[m].code = NotCompiled
      BY <3>1, <3>2 DEF Recompiles, Flow, NotCompiled
    <3>3. CASE hotMods[m].code # NotCompiled
      BY <3>1, <3>3 DEF Current, Flow
    <3> QED BY <3>2, <3>3
  <2> QED BY <2>1, <2>2, <1>1, <1>4
<1>14. OnceEach'
  <2>1. ASSUME NEW i \in 1 .. top PROVE hotStack'[i].module # m
    BY <2>1, <1>4, <1>5 DEF OnStack
  <2>2. \A i, j \in 1 .. top : i # j => hotStack'[i].module # hotStack'[j].module
    <3> TAKE i, j \in 1 .. top
    <3>1. i # j => hotStack[i].module # hotStack[j].module
      BY <1>4 DEF OnceEach, Flow
    <3> QED BY <3>1, <1>5
  <2>3. \A i \in DOMAIN hotStack' : i \in 1 .. top \/ i = top + 1
    BY <1>1, <1>4
  <2> QED BY <2>1, <2>2, <2>3, <1>3, <1>4 DEF OnceEach
<1>12. Due'
  <2> SUFFICES ASSUME ~hotDoc.first, NEW n \in HotSources \ (hotHistory.left \cup OnStack'),
                      hotMods'[n].eval = Unevaluated
               PROVE  /\ hotMods'[n].hmr.dirty
                      /\ hotDoc.at = "sweep" => Ahead(n)'
    BY <1>7 DEF Due
  <2>1. n # m /\ n \notin OnStack
    BY <1>6
  <2>2. hotMods[n].hmr.dirty /\ (hotDoc.at = "sweep" => Ahead(n))
    BY <2>1, <1>8 DEF Due, Flow
  <2>3. ASSUME Ahead(n) PROVE Ahead(n)'
    <3>1. PICK i \in DOMAIN HotOrder : i >= hotDoc.next /\ HotOrder[i] = n
      BY <2>3 DEF Ahead
    <3>2. i \in Nat /\ hotDoc.next \in Nat
      BY HotAssumption DEF HotTyped, DocState
    <3>3. i >= hotDoc'.next
      BY <2>1, <3>1, <3>2
    <3> QED BY <3>1, <3>3 DEF Ahead
  <2> QED BY <2>1, <2>2, <2>3, <1>8
<1>13. ASSUME hotDoc.at = "first" PROVE Closed'
  <2>1. HasRun' = HasRun /\ \A n \in HotSources : Ran(n)' <=> Ran(n)
    BY <1>7, <1>8 DEF HasRun, Ran
  <2>2. \A n \in HotSources : hotMods'[n].code = NotCompiled => Ran(n)'
    BY <1>13, <2>1, <1>8 DEF Closed, Flow
  <2>3. \A n \in HotSources \ OnStack' :
          IF Ran(n)' THEN Requires(hotSource'[n].script) \subseteq HasRun'
          ELSE hotMods'[n].hmr.type # "accept"
    BY <1>13, <2>1, <1>6, <1>8 DEF Closed, Flow
  <2>4. ASSUME NEW i \in DOMAIN hotStack'
        PROVE  Requires(hotSource'[hotStack'[i].module].script) \subseteq
                 HasRun' \cup Requires(hotStack'[i].rest) \cup Under(i)'
    <3>1. CASE i \in 1 .. top
      <4>1. Requires(hotSource[hotStack[i].module].script) \subseteq
              HasRun \cup Requires(hotStack[i].rest) \cup Under(i)
        BY <1>13, <3>1, <1>4 DEF Closed, Flow
      <4>2. hotStack'[i].module = hotStack[i].module
        BY <3>1, <1>5
      <4>3. CASE i = top
        <5>1. Under(i) = {}
          BY <4>3, <1>1, <1>4 DEF Under
        <5>2. m \in Under(i)'
          <6>1. i + 1 \in DOMAIN hotStack' /\ hotStack'[i + 1].module = m
            BY <4>3, <1>1, <1>3, <1>4
          <6> QED BY <6>1 DEF Under
        <5>3. Requires(hotStack[i].rest) \subseteq {m} \cup Requires(hotStack'[i].rest)
          <6>1. hotStack # <<>>
            BY <3>1, <1>1
          <6> QED BY <4>3, <3>1, <6>1, <1>4
        <5> QED BY <4>1, <4>2, <5>1, <5>2, <5>3, <2>1
      <4>4. CASE i # top
        <5>1. i + 1 \in DOMAIN hotStack /\ i + 1 \in DOMAIN hotStack' /\ i + 1 \in 1 .. top
          BY <3>1, <4>4, <1>1, <1>4
        <5>2. Under(i)' = Under(i)
          BY <5>1, <1>5 DEF Under
        <5> QED BY <3>1, <4>1, <4>2, <4>4, <5>2, <1>5, <2>1
      <4> QED BY <4>3, <4>4
    <3>2. CASE i = top + 1
      <4>1. hotStack'[i].module = m /\ hotStack'[i].rest = hotMods[m].code.script
        BY <3>2, <1>3, <1>4
      <4>2. CASE hotMods[m].code # NotCompiled
        <5>1. hotMods[m].code = hotSource[m]
          BY <1>13, <4>2 DEF Closed, Current, Flow
        <5> QED BY <4>1, <5>1
      <4>3. CASE hotMods[m].code = NotCompiled
        <5>1. Requires(hotSource[m].script) \subseteq HasRun
          BY <1>13, <4>3 DEF Closed, Flow
        <5> QED BY <4>1, <5>1, <2>1
      <4> QED BY <4>2, <4>3
    <3> QED BY <3>1, <3>2, <1>1, <1>4
  <2> QED BY <1>13, <2>2, <2>3, <2>4 DEF Closed, Flow
<1> QED BY <1>9, <1>10, <1>11, <1>12, <1>13, <1>14 DEF Closed, Flow

LEMMA ThrowStep ==
  ASSUME HotTyped, Flow, hotDoc.at \in {"first", "sweep"}, Throws,
         hotSource' = hotSource
  PROVE  Flow'
<1>1. /\ hotDoc'.at = "idle" /\ hotDoc'.ok = FALSE /\ hotDoc'.changed = hotDoc.changed
      /\ hotDoc'.first = hotDoc.first
      /\ hotHistory'.left = hotHistory.left \cup OnStack
      /\ hotMods' = hotMods /\ hotQueue' = hotQueue /\ hotStack' = <<>>
  BY DEF Throws, HotTyped, DocState
<1>2. Current' /\ Recompiles'
  BY <1>1 DEF Current, Recompiles, Flow
<1>3. CurrentRuns' /\ OnceEach'
  <2>1. DOMAIN hotStack' = {}
    BY <1>1
  <2> QED BY <2>1 DEF CurrentRuns, OnceEach
<1>5. Closed'
  BY <1>1 DEF Closed
<1>4. Due'
  BY <1>1 DEF Due, Flow
<1> QED BY <1>2, <1>3, <1>4, <1>5 DEF Flow

LEMMA EvaluateStep ==
  ASSUME HotTyped, Flow, NEW m \in HotSources, NEW stack, SameRuns(stack),
         hotStack # <<>> => Requires(hotStack[Len(hotStack)].rest) \subseteq
                              {m} \cup Requires(stack[Len(hotStack)].rest),
         EvaluateModule(m, stack), hotDoc.at \in {"first", "sweep"}, hotSource' = hotSource
  PROVE  Flow'
<1>1. CASE /\ hotMods[m].eval # Unevaluated /\ hotStack' = stack
           /\ UNCHANGED <<hotMods, hotQueue, hotLater, hotDoc, hotHistory>>
  <2>1. hotStack \in Seq(Frame) /\ SameRuns(hotStack')
    BY <1>1 DEF HotTyped
  <2>2. /\ OnStack' = OnStack /\ DOMAIN hotStack' = DOMAIN hotStack
        /\ \A i \in DOMAIN hotStack : Under(i)' = Under(i)
    BY <2>1, SameOnStack
  <2>3. /\ hotMods' = hotMods /\ hotQueue' = hotQueue /\ hotDoc' = hotDoc /\ hotHistory' = hotHistory
    BY <1>1
  <2>4. Current' /\ Recompiles'
    BY <2>3 DEF Current, Recompiles, Flow
  <2>5. CurrentRuns' /\ OnceEach'
    BY <2>1, <2>2, <2>3 DEF CurrentRuns, OnceEach, SameRuns, Flow
  <2>6. Due'
    BY <2>2, <2>3 DEF Due, Flow, Ahead
  <2>7. ASSUME hotDoc.at = "first" PROVE Closed'
    <3>1. HasRun' = HasRun /\ \A n \in HotSources : Ran(n)' <=> Ran(n)
      BY <2>3 DEF HasRun, Ran
    <3>2. m \in HasRun
      BY <1>1 DEF HasRun, Ran
    <3>3. ASSUME NEW i \in DOMAIN hotStack
          PROVE  Requires(hotSource'[hotStack'[i].module].script) \subseteq
                   HasRun' \cup Requires(hotStack'[i].rest) \cup Under(i)'
      <4>1. Requires(hotSource[hotStack[i].module].script) \subseteq
               HasRun \cup Requires(hotStack[i].rest) \cup Under(i)
        BY <2>7 DEF Closed, Flow
      <4>2. Requires(hotStack[i].rest) \subseteq {m} \cup Requires(hotStack'[i].rest)
        <5>1. hotStack # <<>>
          BY <2>1
        <5> QED BY <1>1, <2>1, <5>1 DEF SameRuns
      <4>3. hotStack'[i].module = hotStack[i].module
        BY <2>1 DEF SameRuns
      <4> QED BY <3>1, <3>2, <4>1, <4>2, <4>3, <2>2
    <3> QED BY <2>7, <2>2, <2>3, <3>1, <3>3 DEF Closed, Flow
  <2> QED BY <2>3, <2>4, <2>5, <2>6, <2>7 DEF Closed, Flow
<1>2. CASE Throws
  BY <1>2, ThrowStep
<1>3. CASE /\ hotMods[m].eval = Unevaluated /\ m \notin OnStack
           /\ Evaluates(m, stack) /\ UNCHANGED <<hotQueue, hotLater, hotDoc>>
  <2>1. hotQueue' = hotQueue /\ hotDoc' = hotDoc
    BY <1>3
  <2>2. /\ hotDoc'.at = hotDoc.at /\ hotDoc'.first = hotDoc.first
        /\ hotDoc'.changed = hotDoc.changed /\ hotDoc'.ok = hotDoc.ok
        /\ hotDoc'.next = hotDoc.next
    BY <2>1
  <2>3. Evaluates(m, stack) /\ m \notin OnStack /\ hotMods[m].eval = Unevaluated
    BY <1>3
  <2> HIDE DEF Evaluates, OnStack
  <2> QED BY <2>1, <2>2, <2>3, PushStep
<1> QED BY <1>1, <1>2, <1>3 DEF EvaluateModule

LEMMA ReturnStep ==
  ASSUME HotTyped, Flow, Returns
  PROVE  Flow'
<1> DEFINE top == Len(hotStack)  f == Last(hotStack)  m == f.module
<1>1. /\ hotStack \in Seq(Frame) /\ hotStack # <<>> /\ f.rest = <<>> /\ hotStack' = Front(hotStack)
      /\ hotDoc' = hotDoc /\ hotQueue' = hotQueue /\ hotSource' = hotSource
  BY DEF Returns, HotTyped
<1>2. /\ top \in Nat \ {0} /\ f = hotStack[top] /\ f \in Frame /\ m \in HotSources
      /\ hotStack' \in Seq(Frame) /\ Len(hotStack') = top - 1
      /\ \A i \in 1 .. top - 1 : hotStack'[i] = hotStack[i]
      /\ DOMAIN hotStack = 1 .. top
  <2>1. /\ top \in Nat \ {0} /\ f = hotStack[top] /\ f \in Frame
        /\ Front(hotStack) \in Seq(Frame) /\ Len(Front(hotStack)) = top - 1
        /\ \A i \in 1 .. top - 1 : Front(hotStack)[i] = hotStack[i]
    BY <1>1, FrontOf
  <2>2. m \in HotSources
    BY <2>1 DEF Frame
  <2>3. DOMAIN hotStack = 1 .. top
    BY <1>1
  <2> QED BY <1>1, <2>1, <2>2, <2>3
<1>3. DOMAIN hotStack' = 1 .. top - 1
  BY <1>2
<1>4. /\ hotMods'[m].eval = f.rev /\ f.rev \in Nat /\ f.rev # Unevaluated
      /\ \A n \in HotSources :
           /\ hotMods'[n].code = hotMods[n].code /\ hotMods'[n].hmr.type = hotMods[n].hmr.type
           /\ n # m => hotMods'[n] = hotMods[n]
  <2>1. f.rev \in Nat /\ f.rev # Unevaluated
    BY <1>2 DEF Frame, Unevaluated
  <2>2. hotMods[m] \in HotMod /\ hotMods[m].hmr \in Hmr /\ DOMAIN hotMods = HotSources
    BY <1>2 DEF HotTyped, HotMod
  <2>3. PICK dirty : hotMods' = [hotMods EXCEPT ![m].eval = f.rev, ![m].hmr.dirty = dirty]
    BY DEF Returns
  <2>4. \A n \in HotSources : n # m => hotMods'[n] = hotMods[n]
    BY <1>2, <2>2, <2>3
  <2>5. hotMods'[m] = [hotMods[m] EXCEPT !.eval = f.rev, !.hmr.dirty = dirty]
    BY <1>2, <2>2, <2>3
  <2>6. /\ hotMods'[m].eval = f.rev /\ hotMods'[m].code = hotMods[m].code
        /\ hotMods'[m].hmr.type = hotMods[m].hmr.type
    BY <2>2, <2>5 DEF HotMod, Hmr
  <2> HIDE DEF f, m
  <2> QED BY <2>1, <2>4, <2>6
<1>5. hotHistory'.left = IF f.rev = NullCode THEN hotHistory.left ELSE hotHistory.left \ {m}
  BY DEF Returns, HotTyped
<1>6. OnStack \subseteq OnStack' \cup {m} /\ OnStack' \subseteq OnStack
  BY <1>2, <1>3 DEF OnStack
<1>7. \/ f.rev = hotSource[m].rev
      \/ m \in hotDoc.changed
      \/ f.rev = NullCode /\ m \in hotHistory.left
  BY <1>2 DEF CurrentRuns, Flow
<1>8. Current'
  <2> SUFFICES ASSUME NEW n \in HotSources, n \notin hotDoc.changed
               PROVE  /\ hotMods'[n].code \in {NotCompiled, hotSource[n]}
                      /\ n \notin hotHistory'.left => hotMods'[n].eval \in {Unevaluated, hotSource[n].rev}
    BY <1>1 DEF Current
  <2>1. CASE n = m
    BY <2>1, <1>4, <1>5, <1>7 DEF Current, Flow
  <2>2. CASE n # m
    BY <2>2, <1>4, <1>5 DEF Current, Flow
  <2> QED BY <2>1, <2>2
<1>9. CurrentRuns'
  <2> SUFFICES ASSUME NEW i \in 1 .. top - 1
               PROVE  LET n == hotStack[i].module IN
                      \/ hotStack[i].rev = hotSource[n].rev
                      \/ n \in hotDoc.changed
                      \/ hotStack[i].rev = NullCode /\ n \in hotHistory'.left
    BY <1>1, <1>2, <1>3 DEF CurrentRuns
  <2>1. i \in DOMAIN hotStack
    BY <1>2
  <2>2. CASE hotStack[i].module # m \/ f.rev = NullCode
    BY <2>1, <2>2, <1>5 DEF CurrentRuns, Flow
  <2>3. hotStack[i].module # m
    BY <2>1, <1>2 DEF OnceEach, Flow
  <2> QED BY <2>2, <2>3
<1>13. OnceEach'
  BY <1>2, <1>3 DEF OnceEach, Flow
<1>10. Recompiles'
  BY <1>1, <1>4, <1>5 DEF Recompiles, Flow
<1>11. Due'
  BY <1>1, <1>4, <1>5, <1>6 DEF Due, Flow, Ahead
<1>12. ASSUME hotDoc.at = "first" PROVE Closed'
  <2>1. \A n \in HotSources : Ran(n) => Ran(n)'
    BY <1>4, <1>5 DEF Ran
  <2>2. HasRun \subseteq HasRun' /\ m \in HasRun'
    BY <1>2, <1>4, <2>1 DEF HasRun, Ran
  <2>3. \A n \in HotSources : n # m => (Ran(n)' <=> Ran(n))
    BY <1>4, <1>5 DEF Ran
  <2>4. ASSUME NEW n \in HotSources \ OnStack'
        PROVE  IF Ran(n)' THEN Requires(hotSource[n].script) \subseteq HasRun'
               ELSE hotMods'[n].hmr.type # "accept"
    <3>1. CASE n # m
      <4>1. n \notin OnStack
        BY <3>1, <1>6
      <4> QED BY <1>12, <3>1, <4>1, <1>4, <2>2, <2>3 DEF Closed, Flow
    <3>2. CASE n = m
      <4>1. Requires(hotSource[m].script) \subseteq HasRun \cup Requires(f.rest) \cup Under(top)
        BY <1>12, <1>2 DEF Closed, Flow
      <4>2. Requires(f.rest) = {}
        BY <1>1 DEF Requires, Range
      <4>3. Under(top) = {}
        BY <1>2 DEF Under
      <4>4. Ran(n)'
        BY <3>2, <2>2 DEF HasRun
      <4> QED BY <3>2, <4>1, <4>2, <4>3, <4>4, <2>2
    <3> QED BY <3>1, <3>2
  <2>5. ASSUME NEW i \in 1 .. top - 1
        PROVE  Requires(hotSource[hotStack'[i].module].script) \subseteq
                 HasRun' \cup Requires(hotStack'[i].rest) \cup Under(i)'
    <3>1. i \in DOMAIN hotStack /\ hotStack'[i] = hotStack[i]
      BY <1>2
    <3>2. Requires(hotSource[hotStack[i].module].script) \subseteq
            HasRun \cup Requires(hotStack[i].rest) \cup Under(i)
      BY <1>12, <3>1 DEF Closed, Flow
    <3>3. Under(i) \subseteq Under(i)' \cup {m}
      <4> SUFFICES ASSUME i + 1 \in DOMAIN hotStack
                   PROVE  hotStack[i + 1].module \in Under(i)' \cup {m}
        BY DEF Under
      <4>1. CASE i + 1 = top
        BY <4>1, <1>2
      <4>2. CASE i + 1 # top
        <5>1. i + 1 \in 1 .. top - 1
          BY <4>2, <1>2
        <5>2. hotStack'[i + 1] = hotStack[i + 1] /\ i + 1 \in DOMAIN hotStack'
          BY <5>1, <1>2, <1>3
        <5> QED BY <5>2 DEF Under
      <4> QED BY <4>1, <4>2
    <3> QED BY <3>1, <3>2, <3>3, <2>2
  <2>6. \A n \in HotSources : hotMods'[n].code = NotCompiled => Ran(n)'
    BY <1>12, <1>4, <2>1 DEF Closed, Flow
  <2> QED BY <1>1, <1>3, <1>12, <2>4, <2>5, <2>6 DEF Closed, Flow
<1> QED BY <1>1, <1>8, <1>9, <1>10, <1>11, <1>12, <1>13 DEF Closed, Flow

LEMMA ResetParts ==
  ASSUME NEW module \in HotMod
  PROVE  /\ module.code = NotCompiled => ResetModule(module) = module
         /\ module.code # NotCompiled =>
              /\ ResetModule(module).code = NotCompiled
              /\ ResetModule(module).eval = Unevaluated
              /\ module.hmr.type = "accept" => ResetModule(module).hmr.dirty
  BY DEF ResetModule, HotMod, Hmr

LEMMA DeclinedParts ==
  ASSUME NEW module \in HotMod, module.code = NotCompiled
  PROVE  /\ Declined(module).code = module.code /\ Declined(module).eval = module.eval
         /\ Declined(module).hmr.dirty = module.hmr.dirty
<1> DEFINE hmr == [Ensured(module.hmr) EXCEPT !.type = "decline"]
           declined == [module EXCEPT !.hmr = hmr]
<1>1. module.hmr \in Hmr
  BY DEF HotMod
<1>2. hmr \in Hmr /\ hmr.dirty = module.hmr.dirty
  BY <1>1, HmrParts DEF Ensured, Hmr
<1>3. Declined(module) = ResetModule(declined)
  BY DEF Declined
<1> HIDE DEF hmr
<1>4. declined \in HotMod
  BY <1>2, ResetTyped
<1>5. declined.code = module.code /\ declined.eval = module.eval /\ declined.hmr = hmr
  BY DEF HotMod
<1> HIDE DEF declined
<1> QED BY <1>2, <1>3, <1>4, <1>5, ResetParts

\* What a promise brings while nothing runs: other modules keep what they have.
LEMMA SettleStep ==
  ASSUME HotTyped, Flow, Phases, NEW m \in HotSources, Yields, SameDoc, hotSource' = hotSource,
         hotStack' = hotStack, hotHistory' = hotHistory,
         \A n \in HotSources : n # m => hotMods'[n] = hotMods[n] /\ (n \in hotQueue => n \in hotQueue'),
         hotMods'[m].eval = hotMods[m].eval, hotMods'[m].hmr.dirty = hotMods[m].hmr.dirty,
         \/ hotMods'[m].code = hotMods[m].code /\ hotQueue' = hotQueue
         \/ hotMods'[m].code = hotSource[m]
  PROVE  Flow'
<1>1. hotStack = <<>> /\ hotDoc.at # "first" /\ hotDoc.at # "sweep"
  BY DEF Phases, Yields
<1>2. DOMAIN hotStack' = {} /\ OnStack' = OnStack
  BY <1>1 DEF OnStack
<1>3. CurrentRuns' /\ OnceEach' /\ Closed'
  BY <1>1, <1>2 DEF CurrentRuns, OnceEach, Closed, SameDoc
<1>4. Current'
  BY DEF Current, Flow, SameDoc
<1>5. hotSource[m] # NotCompiled
  BY DEF HotTyped, NotCompiled
<1>6. Recompiles'
  BY <1>1, <1>5 DEF Recompiles, Flow, SameDoc
<1>7. Due'
  BY <1>1, <1>2 DEF Due, Flow, SameDoc
<1> QED BY <1>3, <1>4, <1>6, <1>7 DEF Flow

LEMMA FirstLoadStep == ASSUME HotTyped, Phases, Flow, FirstLoad PROVE Flow'
<1>1. hotStack = <<>> /\ hotStack' = <<>>
  BY DEF FirstLoad, Phases
<1>2. /\ hotDoc'.at = "first" /\ hotDoc'.changed = {} /\ hotDoc'.first = hotDoc.first
      /\ hotHistory'.left = {} /\ hotSource' = hotSource
  BY DEF FirstLoad, HotTyped, DocState
<1>3. \A n \in HotSources : hotMods'[n].code = hotSource[n] /\ hotMods'[n].eval = Unevaluated
                             /\ hotMods'[n].hmr = NoHmr
  BY DEF FirstLoad, HotModule
<1>4. \A n \in HotSources : hotSource[n] # NotCompiled
  BY DEF HotTyped, NotCompiled
<1>5. hotDoc.first
  BY DEF FirstLoad, Phases
<1>6. DOMAIN hotStack' = {}
  BY <1>1
<1>7. CurrentRuns' /\ OnceEach'
  BY <1>6 DEF CurrentRuns, OnceEach
<1>8. Current' /\ Recompiles'
  BY <1>2, <1>3, <1>4 DEF Current, Recompiles
<1>9. Due'
  BY <1>2, <1>5 DEF Due
<1>10. Closed'
  <2>1. \A n \in HotSources : ~Ran(n)'
    BY <1>2, <1>3 DEF Ran
  <2>2. NoHmr.type # "accept"
    BY DEF NoHmr
  <2> QED BY <2>1, <2>2, <1>2, <1>3, <1>4, <1>6 DEF Closed
<1> QED BY <1>7, <1>8, <1>9, <1>10 DEF Flow

LEMMA CompileStep == ASSUME HotTyped, Phases, Flow, HotCompile, ~hotDoc'.reloading PROVE Flow'
<1> DEFINE lost == {m \in hotDoc.changed : PassedOver(hotMods[m])}
<1>1. hotStack = <<>> /\ hotStack' = <<>> /\ hotDoc.at = "idle" /\ ~hotDoc.first
  BY DEF HotCompile, Phases
<1>2. /\ \A m \in hotDoc.changed : ~Cold(m)
      /\ hotDoc'.at = "compiling" /\ hotDoc'.changed = {} /\ hotDoc'.first = hotDoc.first
      /\ hotQueue' = hotQueue \cup hotDoc.changed
      /\ hotHistory'.left = hotHistory.left \cup lost
      /\ hotSource' = hotSource
      /\ \A n \in HotSources :
           hotMods'[n] = IF n \in hotDoc.changed THEN ResetModule(hotMods[n]) ELSE hotMods[n]
  BY DEF HotCompile, HotTyped, DocState
<1>3. \A n \in HotSources : hotMods[n] \in HotMod
  BY DEF HotTyped
<1>4. DOMAIN hotStack' = {} /\ OnStack' = {} /\ OnStack = {}
  BY <1>1 DEF OnStack
<1>5. CurrentRuns' /\ OnceEach' /\ Closed'
  BY <1>2, <1>4 DEF CurrentRuns, OnceEach, Closed
<1>6. ASSUME NEW n \in HotSources
      PROVE  /\ hotMods'[n].code \in {NotCompiled, hotSource[n]}
             /\ n \notin hotHistory'.left => hotMods'[n].eval \in {Unevaluated, hotSource[n].rev}
             /\ hotMods'[n].code = NotCompiled => n \in hotQueue'
             /\ n \notin hotHistory'.left /\ hotMods'[n].eval = Unevaluated => hotMods'[n].hmr.dirty
  <2>1. CASE n \notin hotDoc.changed
    BY <1>1, <1>2, <1>4, <2>1 DEF Current, Recompiles, Due, Flow
  <2>2. CASE n \in hotDoc.changed /\ hotMods[n].code # NotCompiled
    <3>1. hotMods[n].hmr.type = "accept"
      BY <1>2, <2>2 DEF Cold, IsHot
    <3> QED BY <1>2, <1>3, <2>2, <3>1, ResetParts
  <2>3. CASE n \in hotDoc.changed /\ hotMods[n].code = NotCompiled
    <3>1. hotMods'[n] = hotMods[n]
      BY <1>2, <1>3, <2>3, ResetParts
    <3>2. n \notin hotHistory'.left => hotMods[n].eval = Unevaluated
      BY <1>2, <2>3 DEF PassedOver
    <3>3. n \notin hotHistory.left /\ hotMods[n].eval = Unevaluated => hotMods[n].hmr.dirty
      BY <1>1, <1>4 DEF Due, Flow
    <3> QED BY <1>2, <2>3, <3>1, <3>2, <3>3
  <2> QED BY <2>1, <2>2, <2>3
<1>7. Current' /\ Recompiles'
  BY <1>2, <1>6 DEF Current, Recompiles
<1>8. Due'
  BY <1>2, <1>6 DEF Due
<1> QED BY <1>5, <1>7, <1>8 DEF Flow

LEMMA GraphStep == ASSUME HotTyped, Phases, Flow, GraphFinished, ~hotDoc.reloading PROVE Flow'
<1>1. hotStack = <<>> /\ hotStack' = <<>> /\ hotDoc.at = "compiling" /\ hotQueue = {}
  BY DEF GraphFinished, Phases
<1>2. /\ hotDoc'.at = "sweep" /\ hotDoc'.changed = hotDoc.changed /\ hotDoc'.first = hotDoc.first
      /\ hotDoc'.next = 1
      /\ hotMods' = hotMods /\ hotHistory' = hotHistory /\ hotSource' = hotSource /\ hotQueue' = hotQueue
  BY DEF GraphFinished, HotTyped, DocState
<1>3. DOMAIN hotStack' = {} /\ OnStack' = {} /\ OnStack = {}
  BY <1>1 DEF OnStack
<1>4. CurrentRuns' /\ OnceEach' /\ Closed'
  BY <1>2, <1>3 DEF CurrentRuns, OnceEach, Closed
<1>5. \A n \in HotSources : hotMods[n].code # NotCompiled
  BY <1>1 DEF Recompiles, Flow
<1>6. Current' /\ Recompiles'
  BY <1>2, <1>5 DEF Current, Recompiles, Flow
<1>7. \A n \in HotSources : Ahead(n)'
  <2> TAKE n \in HotSources
  <2>1. PICK i \in DOMAIN HotOrder : HotOrder[i] = n
    BY DEF HotSources
  <2>2. i >= 1
    BY HotAssumption
  <2> QED BY <2>1, <2>2, <1>2 DEF Ahead
<1>8. Due'
  BY <1>1, <1>2, <1>3, <1>7 DEF Due, Flow
<1> QED BY <1>4, <1>6, <1>8 DEF Flow

LEMMA RunEntryStep == ASSUME HotTyped, Phases, Flow, RunEntry PROVE Flow'
<1> DEFINE entry == HotOrder[1]
<1>1. hotStack = <<>> /\ hotDoc.at = "first" /\ hotSource' = hotSource
  BY DEF RunEntry
<1>2. CASE EvaluateModule(entry, <<>>)
  <2>1. SameRuns(<<>>)
    BY <1>1 DEF SameRuns
  <2> QED BY <1>1, <1>2, <2>1, OrderTyped, EvaluateStep
<1>3. CASE hotMods[entry].eval # Unevaluated
  <2>1. /\ hotDoc'.at = "idle" /\ hotDoc'.first = FALSE /\ hotDoc'.changed = hotDoc.changed
        /\ hotMods' = hotMods /\ hotStack' = <<>> /\ hotQueue' = hotQueue /\ hotHistory' = hotHistory
    BY ZenonT(60), <1>1, <1>3 DEF RunEntry, HotTyped, DocState
  <2>2. DOMAIN hotStack' = {} /\ OnStack = {}
    BY <1>1, <2>1 DEF OnStack
  <2>3. CurrentRuns' /\ OnceEach' /\ Closed'
    BY <2>1, <2>2 DEF CurrentRuns, OnceEach, Closed
  <2>4. Current' /\ Recompiles'
    BY <1>1, <2>1 DEF Current, Recompiles, Flow
  <2>5. HasRun = HotSources
    <3>1. entry \in HasRun /\ HasRun \subseteq HotSources
      BY <1>3, OrderTyped DEF HasRun, Ran
    <3>2. ASSUME NEW m \in HasRun
          PROVE  \E script \in HotScripts[m] : Requires(script) \subseteq HasRun
      <4>1. m \in HotSources \ OnStack /\ Ran(m)
        BY <2>2 DEF HasRun
      <4>2. Requires(hotSource[m].script) \subseteq HasRun
        BY <1>1, <4>1 DEF Closed, Flow
      <4>3. hotSource[m].script \in HotScripts[m]
        BY <4>1 DEF HotTyped
      <4> QED BY <4>2, <4>3
    <3> HIDE DEF HasRun
    <3> QED BY <3>1, <3>2, HotAssumption
  <2>6. Due'
    BY <2>1, <2>5 DEF Due, HasRun, Ran
  <2> QED BY <2>3, <2>4, <2>6 DEF Flow
<1> QED BY <1>2, <1>3 DEF RunEntry

LEMMA SweepStep == ASSUME HotTyped, Phases, Flow, SweepOn PROVE Flow'
<1> DEFINE m == HotOrder[hotDoc.next]
<1>1. /\ hotStack = <<>> /\ hotDoc.at = "sweep" /\ hotSource' = hotSource /\ hotQueue' = hotQueue
      /\ hotDoc' = [hotDoc EXCEPT !.next = @ + 1] /\ hotDoc.next \in DOMAIN HotOrder
  BY DEF SweepOn
<1>2. m \in HotSources
  BY <1>1 DEF HotSources
<1>3. /\ hotDoc'.at = hotDoc.at /\ hotDoc'.first = hotDoc.first /\ hotDoc'.ok = hotDoc.ok
      /\ hotDoc'.changed = hotDoc.changed /\ hotDoc'.next = hotDoc.next + 1
      /\ hotDoc'.reloading = hotDoc.reloading
  BY <1>1 DEF HotTyped, DocState
<1>4. OnStack = {}
  BY <1>1 DEF OnStack
<1>5. CASE hotMods[m].hmr.dirty /\ hotMods[m].eval = Unevaluated
  <2>1. SameRuns(<<>>)
    BY <1>1 DEF SameRuns
  <2>2. Evaluates(m, <<>>)
    BY <1>5 DEF SweepOn
  <2> HIDE DEF Evaluates, m
  <2> QED BY <1>1, <1>2, <1>3, <1>4, <1>5, <2>1, <2>2, PushStep DEF m
<1>6. CASE ~(hotMods[m].hmr.dirty /\ hotMods[m].eval = Unevaluated)
  <2>1. hotMods' = hotMods /\ hotStack' = <<>> /\ hotHistory' = hotHistory
    BY <1>1, <1>6 DEF SweepOn
  <2>2. DOMAIN hotStack' = {} /\ OnStack' = {}
    BY <2>1 DEF OnStack
  <2>3. CurrentRuns' /\ OnceEach' /\ Closed'
    BY <1>1, <1>3, <2>1, <2>2 DEF CurrentRuns, OnceEach, Closed
  <2>4. Current' /\ Recompiles'
    BY <1>1, <1>3, <2>1 DEF Current, Recompiles, Flow
  <2>5. ~hotDoc.first
    BY <1>1 DEF Phases
  <2>6. ASSUME NEW n \in HotSources \ hotHistory.left, hotMods[n].eval = Unevaluated
        PROVE  hotMods[n].hmr.dirty /\ Ahead(n)'
    <3>1. hotMods[n].hmr.dirty /\ Ahead(n)
      BY <1>1, <1>4, <2>5, <2>6 DEF Due, Flow
    <3>2. n # m
      BY <1>6, <2>6, <3>1
    <3>3. PICK i \in DOMAIN HotOrder : i >= hotDoc.next /\ HotOrder[i] = n
      BY <3>1 DEF Ahead
    <3>4. i \in Nat /\ hotDoc.next \in Nat /\ i # hotDoc.next
      BY <3>2, <3>3, HotAssumption DEF HotTyped, DocState
    <3>5. i >= hotDoc'.next
      BY <1>3, <3>3, <3>4
    <3> QED BY <3>1, <3>3, <3>5 DEF Ahead
  <2>7. Due'
    BY <1>1, <1>3, <2>1, <2>2, <2>6 DEF Due
  <2> QED BY <2>3, <2>4, <2>7 DEF Flow
<1> QED BY <1>5, <1>6

LEMMA SweepEndsStep == ASSUME HotTyped, Phases, Flow, SweepEnds PROVE Flow'
<1>1. /\ hotStack = <<>> /\ hotStack' = <<>> /\ hotDoc.at = "sweep" /\ hotSource' = hotSource
      /\ hotQueue' = hotQueue /\ hotMods' = hotMods /\ hotHistory' = hotHistory
      /\ hotDoc.next \notin DOMAIN HotOrder
  BY DEF SweepEnds
<1>2. hotDoc'.at = "idle" /\ hotDoc'.first = hotDoc.first /\ hotDoc'.changed = hotDoc.changed
  BY DEF SweepEnds, HotTyped, DocState
<1>3. ~hotDoc.first
  BY <1>1 DEF Phases
<1>4. OnStack = {} /\ DOMAIN hotStack' = {}
  BY <1>1 DEF OnStack
<1>5. CurrentRuns' /\ OnceEach' /\ Closed'
  BY <1>2, <1>4 DEF CurrentRuns, OnceEach, Closed
<1>6. Current' /\ Recompiles'
  BY <1>1, <1>2 DEF Current, Recompiles, Flow
<1>7. hotDoc.next > Len(HotOrder)
  <2>1. hotDoc.next \in Nat /\ hotDoc.next # 0
    BY DEF HotTyped, DocState, Phases
  <2>2. DOMAIN HotOrder = 1 .. Len(HotOrder) /\ Len(HotOrder) \in Nat
    BY HotAssumption
  <2> QED BY <1>1, <2>1, <2>2
<1>9. \A n \in HotSources : ~Ahead(n)
  <2>1. DOMAIN HotOrder = 1 .. Len(HotOrder) /\ Len(HotOrder) \in Nat /\ hotDoc.next \in Nat
    BY HotAssumption DEF HotTyped, DocState
  <2> QED BY <1>7, <2>1 DEF Ahead
<1>8. Due'
  BY <1>1, <1>2, <1>3, <1>4, <1>9 DEF Due, Flow
<1> QED BY <1>5, <1>6, <1>8 DEF Flow

LEMMA SetsHmrStep ==
  ASSUME HotTyped, Flow, NEW m \in HotSources, NEW op, op # "require", Calls(m, op),
         NEW hmr \in Hmr, NEW keeps, SetsHmr(m, hmr, keeps)
  PROVE  Flow'
<1>1. /\ SameDoc /\ hotSource' = hotSource /\ hotStack' = CallMade /\ hotQueue' = hotQueue
      /\ hotHistory'.left = hotHistory.left
  BY DEF SetsHmr, SameDoc, HotTyped, DocState
<1>2. \A n \in HotSources :
        /\ hotMods'[n].code = hotMods[n].code /\ hotMods'[n].eval = hotMods[n].eval
        /\ n # m => hotMods'[n].hmr = hotMods[n].hmr
  BY DEF SetsHmr, HotTyped, HotMod
<1>3. hotHistory'.left = hotHistory.left \cup {} /\ hotQueue' = hotQueue \cup {}
      /\ {} \in SUBSET HotSources
  BY <1>1
<1> QED BY <1>1, <1>2, <1>3, CallStep

LEMMA InvalidatesStep ==
  ASSUME HotTyped, Flow, NEW m \in HotSources, PostludeInvalidates(m), ~hotDoc'.reloading
  PROVE  Flow'
<1> DEFINE hmr == PostludeHmr(m, Keeps)
           mine == [hotMods EXCEPT ![m].hmr = hmr]
           importers == hotImporters[m]
           killed == {n \in HotSources : n \in importers /\ mine[n].code # NotCompiled}
<1>1. Calls(m, "postlude")
  BY DEF PostludeInvalidates
<1>2. hmr \in Hmr
  <2>1. Keeps \in Nat
    BY <1>1, CalledTyped
  <2> QED BY <2>1, HmrParts DEF HotTyped, HotMod, PostludeHmr, IsReactRefreshBoundary
<1>3. /\ hotMods' = [n \in HotSources |-> IF n \in importers THEN ResetModule(mine[n]) ELSE mine[n]]
      /\ hotQueue' = hotQueue \cup {n \in HotSources :
           (n \in importers /\ mine[n].code # NotCompiled) /\ mine[n].hmr.type = "accept"}
      /\ hotDoc' = [hotDoc EXCEPT !.hmr = TRUE,
           !.reloading = @ \/ \E n \in HotSources :
             (n \in importers /\ mine[n].code # NotCompiled) /\ mine[n].hmr.type # "accept"]
      /\ hotHistory' = [hotHistory EXCEPT !.owed = Owes(m, KeptExports(m, Keeps)),
                                          !.left = @ \cup killed]
      /\ hotStack' = CallMade /\ hotSource' = hotSource
  BY DEF PostludeInvalidates
<1>4. \A n \in HotSources :
        /\ mine[n] \in HotMod /\ mine[n].code = hotMods[n].code /\ mine[n].eval = hotMods[n].eval
        /\ n # m => mine[n] = hotMods[n]
  <2>1. [hotMods[m] EXCEPT !.hmr = hmr] \in HotMod
    BY <1>2, ResetTyped DEF HotTyped
  <2> HIDE DEF hmr
  <2> QED BY <2>1 DEF HotTyped, HotMod
<1> HIDE DEF mine, importers
<1>5. \A n \in killed : mine[n].hmr.type = "accept"
  BY <1>3 DEF HotTyped, DocState
<1>6. SameDoc /\ hotHistory'.left = hotHistory.left \cup killed
  BY <1>3 DEF SameDoc, HotTyped, DocState
<1>7. hotQueue' = hotQueue \cup killed
  BY <1>3, <1>5
<1>8. ASSUME NEW n \in killed
      PROVE  /\ hotMods'[n].code = NotCompiled /\ hotMods'[n].eval = Unevaluated
             /\ n = m \/ hotMods[n].hmr.type = "accept"
  BY <1>3, <1>4, <1>5, ResetParts
<1>9. ASSUME NEW n \in HotSources \ killed
      PROVE  /\ hotMods'[n].code = hotMods[n].code /\ hotMods'[n].eval = hotMods[n].eval
             /\ n # m => hotMods'[n].hmr = hotMods[n].hmr
  <2>1. hotMods'[n] = mine[n]
    BY <1>3, <1>4, ResetParts
  <2> QED BY <2>1, <1>4
<1>10. killed \in SUBSET HotSources
  OBVIOUS
<1> HIDE DEF killed
<1> QED BY ZenonT(60), <1>1, <1>3, <1>6, <1>7, <1>8, <1>9, <1>10, CallStep

LEMMA EditStep ==
  ASSUME HotTyped, Phases, Flow, NEW m \in HotSources, NEW script \in HotScripts[m],
         HotEdit(m, script)
  PROVE  Flow'
<1>1. hotStack = <<>> /\ hotDoc.at # "first"
  BY DEF HotEdit, Yields, Phases
<1>2. /\ hotDoc'.at = hotDoc.at /\ hotDoc'.first = hotDoc.first /\ hotDoc'.next = hotDoc.next
      /\ hotDoc'.ok = hotDoc.ok /\ hotDoc'.changed = hotDoc.changed \cup {m}
      /\ \A n \in HotSources : n # m => hotSource'[n] = hotSource[n]
      /\ hotMods' = hotMods /\ hotStack' = hotStack /\ hotQueue' = hotQueue /\ hotHistory' = hotHistory
  BY DEF HotEdit, HotTyped, DocState
<1>3. DOMAIN hotStack' = {} /\ OnStack' = OnStack
  BY <1>1, <1>2 DEF OnStack
<1>4. CurrentRuns' /\ OnceEach' /\ Closed'
  BY <1>1, <1>2, <1>3 DEF CurrentRuns, OnceEach, Closed
<1>5. Current' /\ Recompiles'
  BY <1>2 DEF Current, Recompiles, Flow
<1>6. Due'
  BY <1>2, <1>3 DEF Due, Flow, Ahead
<1> QED BY <1>4, <1>5, <1>6 DEF Flow

LEMMA ReloadStep == ASSUME HotTyped, HotReload PROVE Flow'
<1>1. /\ hotDoc'.at = "start" /\ hotDoc'.first = TRUE /\ hotDoc'.changed = {}
      /\ hotStack' = <<>> /\ hotHistory' = NoHistory
      /\ \A n \in HotSources : hotMods'[n] = HotModule(NotCompiled)
  BY DEF HotReload, HotTyped, DocState
<1>2. DOMAIN hotStack' = {}
  BY <1>1
<1> QED BY <1>1, <1>2 DEF Flow, Current, OnceEach, CurrentRuns, Recompiles, Due, Closed, HotModule

LEMMA LandsStep ==
  ASSUME HotTyped, Phases, Flow, NEW call \in hotLater, AcceptLands(call) \/ DeclineLands(call),
         ~hotDoc'.reloading
  PROVE  Flow'
<1> DEFINE m == call.of
<1>1. m \in HotSources
  BY DEF HotTyped, Waiting
<1>2. hotMods[m] \in HotMod /\ hotMods[m].hmr \in Hmr
  BY <1>1 DEF HotTyped, HotMod
<1>3. /\ SameDoc /\ hotSource' = hotSource /\ hotStack' = hotStack /\ hotQueue' = hotQueue
      /\ hotHistory' = hotHistory /\ Yields
      /\ \A n \in HotSources : n # m => hotMods'[n] = hotMods[n]
  BY DEF AcceptLands, DeclineLands, SameDoc, HotTyped, DocState
<1>4. /\ hotMods'[m].code = hotMods[m].code /\ hotMods'[m].eval = hotMods[m].eval
      /\ hotMods'[m].hmr.dirty = hotMods[m].hmr.dirty
  <2>1. CASE AcceptLands(call)
    <3>1. hotMods'[m] = [hotMods[m] EXCEPT !.hmr = [Ensured(hotMods[m].hmr) EXCEPT !.type = "accept"]]
      BY <2>1, <1>1 DEF AcceptLands, HotTyped
    <3>2. [Ensured(hotMods[m].hmr) EXCEPT !.type = "accept"].dirty = hotMods[m].hmr.dirty
      BY <1>2 DEF Ensured, Hmr
    <3> QED BY <1>2, <3>1, <3>2 DEF HotMod
  <2>2. CASE DeclineLands(call)
    <3>1. hotMods[m].code = NotCompiled
      BY <2>2 DEF DeclineLands, HotTyped, DocState
    <3>2. hotMods'[m] = Declined(hotMods[m])
      BY <2>2, <1>1 DEF DeclineLands, HotTyped
    <3> QED BY <1>2, <3>1, <3>2, DeclinedParts
  <2> QED BY <2>1, <2>2
<1> QED BY <1>1, <1>3, <1>4, SettleStep

LEMMA NextFlow ==
  ASSUME HotTyped, Phases, Flow, HotNext, ~hotDoc.reloading, ~hotDoc'.reloading
  PROVE  Flow'
<1>3. CASE GraphFinished
  BY <1>3, GraphStep
<1>8. CASE Returns
  BY <1>8, ReturnStep
<1>11. ASSUME NEW m \in HotSources, Transformed(m) PROVE Flow'
  <2>1. /\ SameDoc /\ hotSource' = hotSource /\ hotStack' = hotStack /\ hotHistory' = hotHistory
        /\ Yields /\ hotQueue' = hotQueue \ {m}
        /\ \A n \in HotSources : n # m => hotMods'[n] = hotMods[n]
        /\ hotMods'[m].code = hotSource[m] /\ hotMods'[m].eval = hotMods[m].eval
        /\ hotMods'[m].hmr = hotMods[m].hmr
    BY <1>11 DEF Transformed, SameDoc, HotTyped, HotMod
  <2> QED BY <2>1, SettleStep
<1>12. ASSUME NEW m \in HotSources, Require(m) PROVE Flow'
  <2>1. Calls(m, "require") /\ EvaluateModule(Of, CallMade) /\ hotSource' = hotSource
    BY <1>12 DEF Require
  <2>2. Of \in HotSources /\ hotStack # <<>>
    BY <2>1, CalledTyped
  <2>3. hotDoc.at \in {"first", "sweep"}
    BY <2>2 DEF Phases
  <2>4. SameRuns(CallMade)
        /\ Requires(hotStack[Len(hotStack)].rest) \subseteq
             {Of} \cup Requires(CallMade[Len(hotStack)].rest)
    BY <2>1, CallMadeRuns
  <2> HIDE DEF SameRuns
  <2> QED BY <2>1, <2>2, <2>3, <2>4, EvaluateStep
<1>13. ASSUME NEW m \in HotSources, AcceptSelf(m) PROVE Flow'
  <2>1. Accepted(hotMods[m].hmr) \in Hmr
    BY HmrParts DEF HotTyped, HotMod
  <2> QED BY <1>13, <2>1, SetsHmrStep DEF AcceptSelf
<1>14. ASSUME NEW m \in HotSources, Dispose(m) PROVE Flow'
  <2>1. Keeps \in Nat
    BY <1>14, CalledTyped DEF Dispose
  <2>2. WithHandler(hotMods[m].hmr, Keeps) \in Hmr
    BY <2>1, HmrParts DEF HotTyped, HotMod
  <2> QED BY <1>14, <2>2, SetsHmrStep DEF Dispose
<1>15. ASSUME NEW m \in HotSources, OtherModule(m) PROVE Flow'
  <2>1. \E op : op # "require" /\ Calls(m, op)
    BY <1>15 DEF OtherModule
  <2>2. /\ SameDoc /\ hotSource' = hotSource /\ hotStack' = CallMade /\ hotMods' = hotMods
        /\ hotHistory'.left = hotHistory.left \cup {} /\ hotQueue' = hotQueue \cup {}
        /\ {} \in SUBSET HotSources
    BY <1>15 DEF OtherModule, SameDoc
  <2> QED BY <2>1, <2>2, CallStep
<1>16. ASSUME NEW m \in HotSources, DeclineSelf(m) PROVE Flow'
  <2>1. hotMods[m].code = NotCompiled /\ hotMods[m] \in HotMod
    BY <1>16 DEF DeclineSelf, HotTyped, DocState
  <2>2. hotMods'[m] = Declined(hotMods[m]) /\ \A n \in HotSources : n # m => hotMods'[n] = hotMods[n]
    BY <1>16 DEF DeclineSelf, HotTyped
  <2>3. hotMods'[m].code = hotMods[m].code /\ hotMods'[m].eval = hotMods[m].eval
    BY <2>1, <2>2, DeclinedParts
  <2>4. /\ SameDoc /\ hotSource' = hotSource /\ hotStack' = CallMade
        /\ hotHistory'.left = hotHistory.left \cup {} /\ hotQueue' = hotQueue \cup {}
        /\ {} \in SUBSET HotSources /\ Calls(m, "decline")
    BY <1>16 DEF DeclineSelf, SameDoc, HotTyped, DocState
  <2> QED BY <2>2, <2>3, <2>4, CallStep
<1>17. ASSUME NEW m \in HotSources, Throw(m) PROVE Flow'
  <2>1. hotStack # <<>>
    BY <1>17 DEF Throw, Calls
  <2>2. hotDoc.at \in {"first", "sweep"}
    BY <2>1 DEF Phases
  <2> QED BY <1>17, <2>2, ThrowStep DEF Throw
<1>18. ASSUME NEW m \in HotSources, PostludeAccepts(m) PROVE Flow'
  <2>1. Keeps \in Nat
    BY <1>18, CalledTyped DEF PostludeAccepts
  <2>2. PostludeHmr(m, Keeps) \in Hmr
    BY <2>1, HmrParts DEF HotTyped, HotMod, PostludeHmr, IsReactRefreshBoundary
  <2> QED BY <1>18, <2>2, SetsHmrStep DEF PostludeAccepts
<1>20. CASE HotReload
  BY <1>20 DEF HotReload
<1> QED BY <1>3, <1>8, <1>11, <1>12, <1>13, <1>14, <1>15, <1>16, <1>17, <1>18, <1>20,
           FirstLoadStep, CompileStep, RunEntryStep, SweepStep, SweepEndsStep, InvalidatesStep,
           EditStep, LandsStep DEF HotNext

LEMMA StackPhases ==
  ASSUME HotTyped, Phases, NEW m \in HotSources, NEW op, Calls(m, op)
  PROVE  hotDoc.at \in {"first", "sweep"}
  BY DEF Calls, Phases

LEMMA NextPhases == ASSUME HotTyped, Phases, HotNext PROVE Phases'
<1> USE DEF Phases
<1>0. hotDoc \in DocState
  BY DEF HotTyped
<1>1. CASE FirstLoad
  BY <1>0, <1>1 DEF FirstLoad, DocState
<1>2. CASE HotCompile
  BY <1>0, <1>2 DEF HotCompile, DocState
<1>3. CASE GraphFinished
  BY <1>0, <1>3 DEF GraphFinished, DocState
<1>4. CASE HotReload
  BY <1>0, <1>4 DEF HotReload, DocState
<1>5. ASSUME Throws PROVE Phases'
  BY <1>0, <1>5 DEF Throws, DocState
<1>6. ASSUME hotDoc.at \in {"first", "sweep"}, hotDoc'.at = hotDoc.at, hotDoc'.first = hotDoc.first,
             hotDoc'.ok = hotDoc.ok, hotDoc'.next # 0
      PROVE  Phases'
  BY <1>6
<1>7. ASSUME NEW m, NEW stack, EvaluateModule(m, stack), hotDoc.at \in {"first", "sweep"} PROVE Phases'
  <2>1. CASE hotDoc' = hotDoc
    BY <1>7, <2>1
  <2>2. CASE Throws
    BY <1>5, <2>2
  <2> QED BY <1>7, <2>1, <2>2 DEF EvaluateModule
<1>8. CASE RunEntry
  <2>1. CASE EvaluateModule(HotOrder[1], <<>>)
    BY <1>7, <1>8, <2>1 DEF RunEntry
  <2>2. CASE hotMods[HotOrder[1]].eval # Unevaluated
    <3>1. hotDoc' = [hotDoc EXCEPT !.at = "idle", !.first = FALSE, !.ok = ~hotDoc.reloading]
          /\ hotStack' = <<>>
      BY <1>8, <2>2 DEF RunEntry
    <3> QED BY <1>0, <3>1 DEF DocState
  <2> QED BY <1>8, <2>1, <2>2 DEF RunEntry
<1>9. CASE SweepOn
  <2>1. hotDoc' = [hotDoc EXCEPT !.next = hotDoc.next + 1] /\ hotDoc.at = "sweep"
    BY <1>9 DEF SweepOn
  <2>2. hotDoc.next \in Nat
    BY <1>0 DEF DocState
  <2>3. hotDoc.next + 1 # 0
    BY <2>2
  <2> QED BY <1>0, <1>6, <2>1, <2>3 DEF DocState
<1>10. CASE SweepEnds
  BY <1>0, <1>10 DEF SweepEnds, DocState
<1>11. CASE Returns
  BY <1>11 DEF Returns
<1>12. ASSUME NEW call \in hotLater, AcceptLands(call) \/ DeclineLands(call) PROVE Phases'
  <2>1. /\ hotStack' = hotStack
        /\ hotDoc'.at = hotDoc.at /\ hotDoc'.first = hotDoc.first
        /\ hotDoc'.ok = hotDoc.ok /\ hotDoc'.next = hotDoc.next
    BY <1>0, <1>12 DEF AcceptLands, DeclineLands, DocState
  <2> QED BY <2>1
<1>13. ASSUME NEW m \in HotSources,
              Transformed(m) \/ (\E script \in HotScripts[m] : HotEdit(m, script)) PROVE Phases'
  <2>1. /\ hotStack' = hotStack
        /\ hotDoc'.at = hotDoc.at /\ hotDoc'.first = hotDoc.first
        /\ hotDoc'.ok = hotDoc.ok /\ hotDoc'.next = hotDoc.next
    BY <1>0, <1>13 DEF Transformed, HotEdit, DocState
  <2> QED BY <2>1
<1>14. ASSUME NEW m \in HotSources,
              \/ AcceptSelf(m) \/ Dispose(m) \/ OtherModule(m) \/ DeclineSelf(m)
              \/ PostludeAccepts(m) \/ PostludeInvalidates(m)
       PROVE  Phases'
  <2>1. hotDoc.at \in {"first", "sweep"}
    BY <1>14, StackPhases DEF AcceptSelf, Dispose, OtherModule, DeclineSelf, PostludeAccepts,
                              PostludeInvalidates
  <2>2. /\ hotDoc'.at = hotDoc.at /\ hotDoc'.first = hotDoc.first
        /\ hotDoc'.ok = hotDoc.ok /\ hotDoc'.next = hotDoc.next
    BY <1>0, <1>14 DEF AcceptSelf, Dispose, OtherModule, DeclineSelf, PostludeAccepts,
                       PostludeInvalidates, SetsHmr, DocState
  <2> QED BY <1>6, <2>1, <2>2
<1>15. ASSUME NEW m \in HotSources, Require(m) PROVE Phases'
  <2>1. hotDoc.at \in {"first", "sweep"}
    BY <1>15, StackPhases DEF Require
  <2> QED BY <1>7, <1>15, <2>1 DEF Require
<1>16. ASSUME NEW m \in HotSources, Throw(m) PROVE Phases'
  BY <1>5, <1>16 DEF Throw
<1> QED BY <1>1, <1>2, <1>3, <1>4, <1>8, <1>9, <1>10, <1>11, <1>12, <1>13, <1>14, <1>15, <1>16
        DEF HotNext

LEMMA NextReaching == HotTyped /\ Reaching /\ HotNext => Reaching'
<1> SUFFICES ASSUME HotTyped, Reaching, HotNext PROVE Reaching'
  OBVIOUS
<1>1. Phases'
  BY NextPhases DEF Reaching
<1>2. ASSUME ~hotDoc'.reloading PROVE Flow'
  <2>1. CASE HotReload
    BY <2>1, ReloadStep
  <2>2. CASE ~hotDoc.reloading
    BY <1>2, <2>2, NextFlow DEF Reaching
  <2>3. CASE hotDoc.reloading /\ ~HotReload
    <3>1. hotDoc.reloading => hotDoc'.reloading
      <4> SUFFICES ASSUME hotDoc.reloading PROVE hotDoc'.reloading
        OBVIOUS
      <4>0. hotDoc \in DocState
        BY DEF HotTyped
      <4>1. ASSUME NEW m, NEW stack, EvaluateModule(m, stack) PROVE hotDoc'.reloading
        BY <4>0, <4>1 DEF EvaluateModule, Throws, DocState
      <4>2. CASE RunEntry
        BY <4>0, <4>1, <4>2 DEF RunEntry, DocState
      <4>3. CASE \E m \in HotSources : Require(m)
        BY <4>1, <4>3 DEF Require
      <4>4. CASE \E m \in HotSources : Throw(m)
        BY <4>0, <4>4 DEF Throw, Throws, DocState
      <4>5. CASE FirstLoad \/ HotCompile \/ GraphFinished \/ SweepOn \/ SweepEnds \/ Returns
        BY <4>0, <4>5 DEF FirstLoad, HotCompile, GraphFinished, SweepOn, SweepEnds, Returns, DocState
      <4>6. CASE \E call \in hotLater : AcceptLands(call) \/ DeclineLands(call)
        BY <4>0, <4>6 DEF AcceptLands, DeclineLands, DocState
      <4>7. CASE \E m \in HotSources :
                   \/ \E script \in HotScripts[m] : HotEdit(m, script)
                   \/ Transformed(m) \/ AcceptSelf(m) \/ Dispose(m) \/ OtherModule(m)
                   \/ DeclineSelf(m) \/ PostludeAccepts(m) \/ PostludeInvalidates(m)
        BY <4>0, <4>7 DEF HotEdit, Transformed, AcceptSelf, Dispose, OtherModule, DeclineSelf,
                          PostludeAccepts, PostludeInvalidates, SetsHmr, DocState
      <4> QED BY <2>3, <4>2, <4>3, <4>4, <4>5, <4>6, <4>7 DEF HotNext
    <3> QED BY <1>2, <2>3, <3>1
  <2> QED BY <2>1, <2>2, <2>3
<1> QED BY <1>1, <1>2 DEF Reaching

LEMMA InitReaching == HotInit => Reaching
<1> SUFFICES ASSUME HotInit PROVE Reaching
  OBVIOUS
<1>1. /\ hotDoc.at = "start" /\ hotDoc.first /\ hotDoc.changed = {} /\ hotDoc.ok = FALSE
      /\ hotDoc.next = 1 /\ hotStack = <<>> /\ hotHistory = NoHistory
      /\ \A n \in HotSources : hotMods[n] = HotModule(NotCompiled)
  BY DEF HotInit
<1>2. DOMAIN hotStack = {}
  BY <1>1
<1>3. Flow
  BY <1>1, <1>2 DEF Flow, Current, OnceEach, CurrentRuns, Recompiles, Due, Closed, HotModule
<1> QED BY <1>1, <1>3 DEF Reaching, Phases

LEMMA ReachingImplies == HotTyped /\ Reaching => UpdatesReachModules
<1> SUFFICES ASSUME HotTyped, Reaching, hotDoc.at = "idle", hotDoc.ok, ~hotDoc.reloading,
                    hotDoc.changed = {}, NEW m \in HotSources \ hotHistory.left
             PROVE  hotMods[m].eval = hotSource[m].rev
  BY DEF UpdatesReachModules
<1>1. Flow /\ hotStack = <<>> /\ ~hotDoc.first
  BY DEF Reaching, Phases
<1>2. m \notin OnStack
  BY <1>1 DEF OnStack
<1>3. hotMods[m].eval # Unevaluated
  BY <1>1, <1>2 DEF Flow, Due
<1> QED BY <1>1, <1>3 DEF Flow, Current

----------------------------------------------------------------------------
(* The theorems. *)

\* What the document keeps of its modules has its type: a handler is a function or none, a
\* module on the stack has calls still to make, and only calls that name a module wait.
THEOREM HotTypeCorrect == HotSpec => []HotTyped
<1>1. HotTyped /\ [HotNext]_hotVars => HotTyped'
  <2>1. HotTyped /\ UNCHANGED hotVars => HotTyped'
    BY DEF hotVars, HotTyped
  <2> QED BY <2>1, NextHotTyped
<1> QED BY <1>1, InitHotTyped, PTL DEF HotSpec

\* Whatever the modules are and whatever their code calls, an update that is reported as
\* applied reaches every module but those `left` names, and an evaluation that registered
\* a dispose handler is disposed of once, before the next one of its module.
THEOREM UpdatesAlwaysLand == HotSpec => []UpdatesLand
<1>1. HotInit => Reaching /\ Owing
  BY InitReaching, InitOwing
<1>2. HotTyped /\ Reaching /\ Owing /\ [HotNext]_hotVars => (Reaching /\ Owing)'
  <2>1. Reaching /\ UNCHANGED hotVars => Reaching'
    <3> SUFFICES ASSUME Reaching, UNCHANGED hotVars PROVE Reaching'
      OBVIOUS
    <3>1. /\ hotSource' = hotSource /\ hotMods' = hotMods /\ hotStack' = hotStack
          /\ hotQueue' = hotQueue /\ hotDoc' = hotDoc /\ hotHistory' = hotHistory
      BY DEF hotVars
    <3>2. Phases' /\ (Flow => Current' /\ OnceEach' /\ CurrentRuns' /\ Recompiles')
      BY <3>1 DEF Reaching, Phases, Flow, Current, OnceEach, CurrentRuns, Recompiles
    <3>3. OnStack' = OnStack /\ HasRun' = HasRun
      BY <3>1 DEF OnStack, HasRun, Ran
    <3>4. \A m \in HotSources : (Ahead(m)' <=> Ahead(m)) /\ (Ran(m)' <=> Ran(m))
      BY <3>1 DEF Ahead, Ran
    <3>5. \A i \in DOMAIN hotStack : Under(i)' = Under(i)
      BY <3>1 DEF Under
    <3>6. Due => Due'
      BY <3>1, <3>3, <3>4 DEF Due
    <3>7. Closed => Closed'
      BY <3>1, <3>3, <3>4, <3>5 DEF Closed
    <3> QED BY <3>1, <3>2, <3>6, <3>7 DEF Reaching, Flow
  <2>2. Owing /\ UNCHANGED hotVars => Owing'
    BY DEF hotVars, Owing, Handled
  <2> QED BY <2>1, <2>2, NextReaching, NextOwing
<1>3. HotTyped /\ Reaching /\ Owing => UpdatesLand
  BY ReachingImplies, OwingImplies DEF UpdatesLand
<1> QED BY <1>1, <1>2, <1>3, HotTypeCorrect, PTL DEF HotSpec

-----------------------------------------------------------------------------
(* SelfHost: the vendored module *)

SelfFile == [of : Nat, genuine : BOOLEAN, there : BOOLEAN, lists : SUBSET SelfFiles]
SelfStage == {"shims", "manifest", "files", "writing", "loaded", "failed"}

SelfTyped ==
  /\ selfHost \in SelfHosts
  /\ selfJson \in SelfSays
  /\ selfDisk \in [SelfPaths -> SelfFile]
  /\ selfMods \in [shims : SUBSET SelfShims, files : [SelfPaths -> SelfFile]]
  /\ selfLoad \in [at : SelfStage, version : Nat, said : SelfSays, files : [SelfPaths -> SelfFile],
                   todo : SUBSET SelfPaths, loads : Nat, edits : Nat, faults : Nat]

Fetching == {"manifest", "files", "writing", "loaded"}
Storing == {"writing", "loaded"}
SelfListed == selfLoad.files["manifest"].lists

\* Once it has been decided, the version is the one asked for and, if the host pins, pinned.
Decided ==
  selfLoad.at \in Fetching =>
    /\ selfLoad.said.kind # "other"
    /\ selfLoad.version = VersionFor(selfLoad.said) /\ selfLoad.version >= SelfFloor
    /\ selfMods.shims = SelfShims
    /\ selfHost.wired => selfLoad.version \in selfHost.pins

\* What has been fetched is what the manifest lists, and a genuine manifest lists the release.
Fetched ==
  /\ selfLoad.at = "manifest" => selfLoad.files = NoFiles
  /\ selfLoad.at \in Fetching =>
       \A f \in SelfPaths : selfLoad.files[f].there => selfLoad.files[f].of = selfLoad.version
  /\ selfLoad.at \in {"files"} \cup Storing =>
       /\ selfLoad.files["manifest"].there
       /\ selfLoad.files["manifest"].genuine => SelfListed = SelfReleases[selfLoad.version]
  /\ selfLoad.at = "files" =>
       /\ selfLoad.todo \subseteq SelfListed
       /\ \A f \in SelfFiles : selfLoad.files[f].there <=> f \in SelfListed \ selfLoad.todo
  /\ selfLoad.at \in Storing => \A f \in SelfFiles : selfLoad.files[f].there <=> f \in SelfListed

\* What is written has been verified.
Checked == selfLoad.at \in Storing => Verified(selfLoad.files)

\* The disk and the modules hold what has been written of it; before, there are no modules.
Stored ==
  /\ selfLoad.at \in {"shims", "manifest", "files"} => selfMods.files = NoFiles
  /\ selfLoad.at \in Storing => \A f \in SelfPaths :
       /\ f \in selfLoad.todo => selfLoad.files[f].there
       /\ selfLoad.files[f].there /\ f \notin selfLoad.todo =>
            /\ selfDisk[f] = selfLoad.files[f]
            /\ f \in SelfScripts => selfMods.files[f] = selfLoad.files[f]
       /\ selfMods.files[f].there =>
            f \in SelfScripts /\ selfLoad.files[f].there /\ f \notin selfLoad.todo
  /\ selfLoad.at = "loaded" => selfLoad.todo = {}

\* With pins, nothing else has ever been written.
Pinned ==
  selfHost.wired => \A f \in SelfPaths :
    /\ selfMods.files[f].there => selfMods.files[f].genuine
    /\ selfDisk[f].there => selfDisk[f].genuine

SelfInv == SelfTyped /\ Decided /\ Fetched /\ Checked /\ Stored /\ Pinned

LEMMA SelfParts ==
  /\ NoFile \in SelfFile
  /\ NoFiles \in [SelfPaths -> SelfFile]
  /\ \A f \in SelfPaths : ~NoFiles[f].there
  /\ \A said \in SelfSays : VersionFor(said) \in Nat /\ said.version \in Nat
  /\ \A v \in Nat, genuine \in BOOLEAN, lists \in SUBSET SelfFiles :
       /\ File(v, genuine, lists) \in SelfFile
       /\ File(v, genuine, lists).of = v /\ File(v, genuine, lists).genuine = genuine
       /\ File(v, genuine, lists).there /\ File(v, genuine, lists).lists = lists
  /\ "manifest" \in SelfPaths /\ SelfFiles \subseteq SelfPaths /\ SelfScripts \subseteq SelfPaths
  /\ "manifest" \notin SelfFiles
BY SelfAssumption DEF NoFile, NoFiles, SelfFile, SelfPaths, File, VersionFor, Saying

LEMMA SelfInitInv == SelfInit => SelfInv
<1> SUFFICES ASSUME SelfInit PROVE SelfInv
  OBVIOUS
<1>1. SelfTyped
  BY SelfParts DEF SelfInit, SelfTyped, SelfStage
<1>2. Decided /\ Fetched /\ Checked
  BY DEF SelfInit, Decided, Fetched, Checked, Fetching, Storing
<1>3. Stored /\ Pinned
  BY SelfParts DEF SelfInit, Stored, Pinned, Storing
<1>. QED BY <1>1, <1>2, <1>3 DEF SelfInv

\* Whatever is fetched and verified by a host that pins is genuine, and the files listed are
\* those of the release.
LEMMA VerifiedIsGenuine ==
  ASSUME SelfInv, selfLoad.at \in Storing, selfHost.wired
  PROVE  /\ \A f \in SelfPaths : selfLoad.files[f].there => selfLoad.files[f].genuine
         /\ SelfListed = SelfReleases[selfLoad.version]
<1>1. \A f \in Pins(selfLoad.version) : selfLoad.files[f].there /\ selfLoad.files[f].genuine
  BY DEF SelfInv, Checked, Verified
<1>2. selfLoad.files["manifest"].genuine
  BY <1>1 DEF Pins
<1>3. SelfListed = SelfReleases[selfLoad.version]
  BY <1>2 DEF SelfInv, Fetched
<1>4. ASSUME NEW f \in SelfPaths, selfLoad.files[f].there PROVE selfLoad.files[f].genuine
  <2>1. f \in SelfListed \/ f = "manifest"
    BY <1>4 DEF SelfInv, Fetched, SelfPaths
  <2>. QED BY <2>1, <1>1, <1>3 DEF Pins
<1>. QED BY <1>3, <1>4

LEMMA SelfStepTyped == SelfTyped /\ [SelfNext]_selfVars => SelfTyped'
<1> SUFFICES ASSUME SelfTyped, [SelfNext]_selfVars PROVE SelfTyped'
  OBVIOUS
<1>1. ASSUME NEW shim \in SelfShims, Preload(shim) PROVE SelfTyped'
  BY <1>1 DEF Preload, SelfTyped
<1>2. CASE ResolveVersion
  BY <1>2, SelfParts DEF ResolveVersion, SelfTyped, SelfStage
<1>3. CASE FetchFails
  BY <1>3 DEF FetchFails, Fails, SelfTyped, SelfStage
<1>4. CASE Verify
  <2> DEFINE there == {f \in SelfPaths : selfLoad.files[f].there}
  <2>1. /\ there \in SUBSET SelfPaths
        /\ \/ selfLoad' = [selfLoad EXCEPT !.at = "writing", !.todo = there]
           \/ selfLoad' = [selfLoad EXCEPT !.at = "failed"]
        /\ UNCHANGED <<selfHost, selfJson, selfDisk, selfMods>>
    BY <1>4 DEF Verify, Fails
  <2> HIDE DEF there
  <2>. QED BY <2>1 DEF SelfTyped, SelfStage
<1>5. CASE SelfLoaded
  BY <1>5 DEF SelfLoaded, SelfTyped, SelfStage
<1>6. CASE FailsLater
  BY <1>6 DEF FailsLater, Fails, SelfTyped, SelfStage
<1>7. CASE LoadAgain
  <2>1. ResetModules \in [shims : SUBSET SelfShims, files : [SelfPaths -> SelfFile]]
    BY SelfParts DEF ResetModules
  <2>2. selfMods' \in [shims : SUBSET SelfShims, files : [SelfPaths -> SelfFile]]
    BY <1>7, <2>1 DEF LoadAgain
  <2>3. \A n \in Nat : n + 1 \in Nat
    OBVIOUS
  <2>4. PICK n \in Nat, none \in SUBSET SelfPaths :
          selfLoad' = [selfLoad EXCEPT !.at = "shims", !.loads = n, !.todo = none]
    BY <1>7, <2>3 DEF LoadAgain, SelfTyped
  <2>5. selfHost' = selfHost /\ selfJson' = selfJson /\ selfDisk' = selfDisk
    BY <1>7 DEF LoadAgain
  <2>. QED BY <2>2, <2>4, <2>5 DEF SelfTyped, SelfStage
<1>8. ASSUME NEW genuine \in BOOLEAN, NEW lists \in SUBSET SelfFiles,
             FetchManifest(genuine, lists)
      PROVE  SelfTyped'
  <2>1. File(selfLoad.version, genuine, lists) \in SelfFile
    BY SelfParts DEF SelfTyped
  <2>2. Count(genuine) \in Nat
    BY DEF Count, SelfTyped
  <2>3. lists \in SUBSET SelfPaths
    BY SelfParts
  <2>. QED BY <1>8, <2>1, <2>2, <2>3 DEF FetchManifest, SelfTyped, SelfStage
<1>9. ASSUME NEW f \in SelfFiles, NEW genuine \in BOOLEAN, FetchFile(f, genuine)
      PROVE  SelfTyped'
  <2>1. File(selfLoad.version, genuine, {}) \in SelfFile
    BY SelfParts DEF SelfTyped
  <2>2. Count(genuine) \in Nat
    BY DEF Count, SelfTyped
  <2>. QED BY <1>9, <2>1, <2>2 DEF FetchFile, SelfTyped, SelfStage
<1>10. ASSUME NEW f \in SelfPaths, WriteFile(f) PROVE SelfTyped'
  BY <1>10 DEF WriteFile, SelfTyped, SelfStage
<1>11. ASSUME NEW said \in SelfSays, EditSelfJson(said) PROVE SelfTyped'
  BY <1>11 DEF EditSelfJson, SelfTyped
<1>12. CASE UNCHANGED selfVars
  BY <1>12 DEF selfVars, SelfTyped
<1>. QED
  BY <1>1, <1>2, <1>3, <1>4, <1>5, <1>6, <1>7, <1>8, <1>9, <1>10, <1>11, <1>12 DEF SelfNext

LEMMA SelfStep == SelfInv /\ [SelfNext]_selfVars => SelfInv'
<1> SUFFICES ASSUME SelfInv, [SelfNext]_selfVars PROVE SelfInv'
  OBVIOUS
<1>0. SelfTyped /\ SelfTyped'
  BY SelfStepTyped DEF SelfInv
<1>1. ASSUME NEW shim \in SelfShims, Preload(shim) PROVE SelfInv'
  BY <1>0, <1>1 DEF Preload, SelfInv, SelfTyped, Decided, Fetched, Checked, Stored, Pinned, Fetching, Storing
<1>2. CASE ResolveVersion
  <2>1. Decided'
    BY <1>0, <1>2, SelfParts, SelfAssumption
    DEF ResolveVersion, Refused, FailsClosed, Decided, SelfTyped, Fetching, VersionFor, Wiring
  <2>2. Fetched' /\ Checked'
    BY <1>0, <1>2, SelfParts DEF ResolveVersion, Fetched, Checked, SelfTyped, Fetching, Storing
  <2>3. Stored' /\ Pinned'
    BY <1>0, <1>2 DEF ResolveVersion, SelfInv, Stored, Pinned, SelfTyped, Storing
  <2>. QED BY <1>0, <2>1, <2>2, <2>3 DEF SelfInv
<1>3. CASE Fails /\ UNCHANGED <<selfHost, selfJson, selfDisk, selfMods>>
  BY <1>0, <1>3 DEF Fails, SelfInv, SelfTyped, Decided, Fetched, Checked, Stored, Pinned, Fetching, Storing
<1>4. CASE Verify
  <2>1. CASE Verified(selfLoad.files)
    <3>1. /\ selfLoad' = [selfLoad EXCEPT !.at = "writing", !.todo = {f \in SelfPaths : selfLoad.files[f].there}]
          /\ selfLoad.at = "files" /\ selfLoad.todo = {}
          /\ UNCHANGED <<selfHost, selfJson, selfDisk, selfMods>>
      BY <1>4, <2>1 DEF Verify
    <3>2. Decided' /\ Fetched' /\ Pinned'
      BY <1>0, <3>1 DEF SelfInv, SelfTyped, Decided, Fetched, Pinned, Fetching, Storing, SelfListed, VersionFor
    <3>3. Checked'
      BY <1>0, <2>1, <3>1 DEF Checked, Verified, SelfTyped, Pins
    <3>4. Stored'
      BY <1>0, <3>1, SelfParts DEF SelfInv, SelfTyped, Stored, Storing
    <3>. QED BY <1>0, <3>2, <3>3, <3>4 DEF SelfInv
  <2>. QED BY <1>3, <1>4, <2>1 DEF Verify
<1>5. CASE SelfLoaded
  <2>1. Decided' /\ Fetched' /\ Pinned'
    BY <1>0, <1>5 DEF SelfLoaded, SelfInv, SelfTyped, Decided, Fetched, Pinned, Fetching, Storing, SelfListed, VersionFor
  <2>2. Checked' /\ Stored'
    BY <1>0, <1>5 DEF SelfLoaded, SelfInv, SelfTyped, Checked, Verified, Pins, Stored, Storing
  <2>. QED BY <1>0, <2>1, <2>2 DEF SelfInv
<1>7. CASE LoadAgain
  BY <1>0, <1>7, SelfParts
  DEF LoadAgain, ResetModules, SelfInv, SelfTyped, Decided, Fetched, Checked, Stored, Pinned, Fetching, Storing
<1>8. ASSUME NEW genuine \in BOOLEAN, NEW lists \in SUBSET SelfFiles,
             FetchManifest(genuine, lists)
      PROVE  SelfInv'
  <2> DEFINE manifest == File(selfLoad.version, genuine, lists)
  <2>1. /\ manifest.of = selfLoad.version /\ manifest.genuine = genuine
        /\ manifest.there /\ manifest.lists = lists
    BY <1>0, SelfParts DEF SelfTyped
  <2>2. /\ selfLoad'.at = "files" /\ selfLoad'.todo = lists /\ selfLoad'.version = selfLoad.version
        /\ selfLoad'.said = selfLoad.said
        /\ selfLoad'.files["manifest"] = manifest
        /\ \A f \in SelfFiles : selfLoad'.files[f] = selfLoad.files[f]
        /\ selfLoad.at = "manifest" /\ (genuine => lists = SelfReleases[selfLoad.version])
        /\ UNCHANGED <<selfHost, selfJson, selfDisk, selfMods>>
    BY <1>0, <1>8, SelfParts DEF FetchManifest, SelfTyped
  <2>3. selfLoad.files = NoFiles
    BY <2>2 DEF SelfInv, Fetched
  <2>4. Decided'
    BY <2>2 DEF SelfInv, Decided, Fetching, VersionFor
  <2>5. Fetched'
    BY <2>1, <2>2, <2>3, SelfParts DEF Fetched, Fetching, Storing, SelfListed, SelfPaths
  <2>6. Checked' /\ Stored' /\ Pinned'
    BY <2>2 DEF SelfInv, Checked, Stored, Pinned, Storing
  <2>. QED BY <1>0, <2>4, <2>5, <2>6 DEF SelfInv
<1>9. ASSUME NEW f \in SelfFiles, NEW genuine \in BOOLEAN, FetchFile(f, genuine)
      PROVE  SelfInv'
  <2> DEFINE file == File(selfLoad.version, genuine, {})
  <2>1. file.of = selfLoad.version /\ file.there
    BY <1>0, SelfParts DEF SelfTyped
  <2>2. /\ selfLoad'.at = "files" /\ selfLoad'.todo = selfLoad.todo \ {f}
        /\ selfLoad'.version = selfLoad.version /\ selfLoad'.said = selfLoad.said
        /\ selfLoad'.files["manifest"] = selfLoad.files["manifest"]
        /\ selfLoad'.files[f] = file
        /\ \A g \in SelfPaths : g # f => selfLoad'.files[g] = selfLoad.files[g]
        /\ selfLoad.at = "files" /\ f \in selfLoad.todo
        /\ UNCHANGED <<selfHost, selfJson, selfDisk, selfMods>>
    BY <1>0, <1>9, SelfParts DEF FetchFile, SelfTyped
  <2>4. Decided'
    BY <2>2 DEF SelfInv, Decided, Fetching, VersionFor
  <2>5. Fetched'
    BY <2>1, <2>2, SelfParts DEF SelfInv, Fetched, Fetching, Storing, SelfListed, SelfPaths
  <2>6. Checked' /\ Stored' /\ Pinned'
    BY <2>2 DEF SelfInv, Checked, Stored, Pinned, Storing
  <2>. QED BY <1>0, <2>4, <2>5, <2>6 DEF SelfInv
<1>10. ASSUME NEW f \in SelfPaths, WriteFile(f) PROVE SelfInv'
  <2>1. /\ selfLoad'.at = "writing" /\ selfLoad'.todo = selfLoad.todo \ {f}
        /\ selfLoad'.version = selfLoad.version /\ selfLoad'.said = selfLoad.said
        /\ selfLoad'.files = selfLoad.files
        /\ selfDisk' = [selfDisk EXCEPT ![f] = selfLoad.files[f]]
        /\ selfMods'.shims = selfMods.shims
        /\ selfMods'.files = IF f \in SelfScripts THEN [selfMods.files EXCEPT ![f] = selfLoad.files[f]]
                                                  ELSE selfMods.files
        /\ selfLoad.at = "writing" /\ f \in selfLoad.todo
        /\ UNCHANGED <<selfHost, selfJson>>
    BY <1>0, <1>10 DEF WriteFile, SelfTyped
  <2>2. Decided' /\ Fetched' /\ Checked'
    BY <2>1 DEF SelfInv, Decided, Fetched, Checked, Verified, Pins, Fetching, Storing, SelfListed, VersionFor
  <2>3. selfLoad.files[f].there
    BY <2>1 DEF SelfInv, Stored, Storing
  <2>4. Stored'
    BY <1>0, <2>1, <2>3 DEF SelfInv, Stored, Storing, SelfTyped
  <2>5. selfHost.wired => selfLoad.files[f].genuine
    BY <2>1, <2>3, VerifiedIsGenuine DEF Storing
  <2>6. Pinned'
    BY <1>0, <2>1, <2>5 DEF SelfInv, Pinned, SelfTyped
  <2>. QED BY <1>0, <2>2, <2>4, <2>6 DEF SelfInv
<1>11. ASSUME NEW said \in SelfSays, EditSelfJson(said) PROVE SelfInv'
  <2>1. /\ \A field \in {"at", "version", "said", "files", "todo"} : selfLoad'[field] = selfLoad[field]
        /\ UNCHANGED <<selfHost, selfDisk, selfMods>>
    BY <1>0, <1>11 DEF EditSelfJson, SelfTyped
  <2>2. /\ selfLoad'.at = selfLoad.at /\ selfLoad'.version = selfLoad.version
        /\ selfLoad'.said = selfLoad.said /\ selfLoad'.files = selfLoad.files
        /\ selfLoad'.todo = selfLoad.todo
    BY <1>0, <1>11 DEF EditSelfJson, SelfTyped
  <2>. QED
    BY <1>0, <2>1, <2>2
    DEF SelfInv, Decided, Fetched, Checked, Verified, Stored, Pinned, Pins, SelfListed, VersionFor
<1>12. CASE UNCHANGED selfVars
  BY <1>0, <1>12 DEF selfVars, SelfInv, Decided, Fetched, Checked, Verified, Stored, Pinned, Pins, SelfListed, VersionFor
<1>13. CASE FetchFails
  BY <1>3, <1>13 DEF FetchFails
<1>14. CASE FailsLater
  BY <1>3, <1>14 DEF FailsLater
<1>. QED
  BY <1>1, <1>2, <1>4, <1>5, <1>7, <1>8, <1>9, <1>10, <1>11, <1>12, <1>13, <1>14 DEF SelfNext

LEMMA SelfInvRuns == SelfInv => RunsTheRelease
<1> SUFFICES ASSUME SelfInv PROVE RunsTheRelease
  OBVIOUS
<1>1. ASSUME selfLoad.at = "loaded", NEW f \in SelfPaths, selfMods.files[f].there
      PROVE  selfMods.files[f] = selfDisk[f] /\ selfMods.files[f].of = selfLoad.version
  BY <1>1 DEF SelfInv, Stored, Fetched, Fetching, Storing
<1>2. ASSUME selfLoad.at = "loaded", selfHost.wired \/ selfLoad.files["manifest"].genuine
      PROVE  /\ IsRelease(selfMods.files, selfLoad.version, SelfScripts)
             /\ \A f \in SelfReleases[selfLoad.version] :
                  selfDisk[f].there /\ selfDisk[f].of = selfLoad.version
  <2>1. SelfListed = SelfReleases[selfLoad.version]
    BY <1>2, VerifiedIsGenuine DEF SelfInv, Fetched, Storing
  <2>2. SelfListed \subseteq SelfFiles
    BY SelfParts DEF SelfInv, SelfTyped, SelfFile, SelfListed
  <2>3. \A f \in SelfFiles : selfLoad.files[f].there <=> f \in SelfListed
    BY <1>2 DEF SelfInv, Fetched, Storing
  <2>4. selfLoad.todo = {}
    BY <1>2 DEF SelfInv, Stored
  <2>5. \A f \in SelfPaths : selfLoad.files[f].there => selfLoad.files[f].of = selfLoad.version
    BY <1>2 DEF SelfInv, Fetched, Fetching
  <2>6. \A f \in SelfPaths : selfLoad.files[f].there =>
          selfDisk[f] = selfLoad.files[f] /\ (f \in SelfScripts => selfMods.files[f] = selfLoad.files[f])
    BY <1>2, <2>4 DEF SelfInv, Stored, Storing
  <2>7. \A f \in SelfPaths : selfMods.files[f].there => selfLoad.files[f].there
    BY <1>2 DEF SelfInv, Stored, Storing
  <2>8. \A f \in SelfPaths : selfMods.files[f].there \in BOOLEAN /\ selfLoad.files[f].there \in BOOLEAN
    BY DEF SelfInv, SelfTyped, SelfFile
  <2>9. SelfScripts \subseteq SelfFiles /\ SelfFiles \subseteq SelfPaths
    BY SelfAssumption, SelfParts
  <2>10. \A f \in SelfScripts :
           /\ selfMods.files[f].there <=> f \in SelfReleases[selfLoad.version]
           /\ selfMods.files[f].there => selfMods.files[f].of = selfLoad.version
    BY <2>1, <2>3, <2>5, <2>6, <2>7, <2>9
  <2>11. IsRelease(selfMods.files, selfLoad.version, SelfScripts)
    BY <2>8, <2>9, <2>10 DEF IsRelease
  <2>. QED BY <2>1, <2>2, <2>3, <2>5, <2>6, <2>9, <2>11
<1>3. selfLoad.at = "loaded" =>
        /\ selfLoad.said.kind # "other" /\ selfLoad.version = VersionFor(selfLoad.said)
        /\ selfLoad.version >= SelfFloor /\ selfMods.shims = SelfShims
  BY DEF SelfInv, Decided, Fetching
<1>4. Pinned
  BY DEF SelfInv
<1>. QED BY <1>1, <1>2, <1>3, <1>4 DEF RunsTheRelease, Pinned

\* The vendored module a document runs is one release, the version asked for, pinned where
\* the host pins; whatever releases there are, whatever the origin answers, over any number of
\* failed loads and edits.
THEOREM TheReleaseIsRun == SelfSpec => []RunsTheRelease
<1>1. SelfInit => SelfInv
  BY SelfInitInv
<1>2. SelfInv /\ [SelfNext]_selfVars => SelfInv'
  BY SelfStep
<1>3. SelfInv => RunsTheRelease
  BY SelfInvRuns
<1>. QED BY <1>1, <1>2, <1>3, PTL DEF SelfSpec
==============================================================================
