---------------------------- MODULE SessionProofs ----------------------------
(***************************************************************************)
(* Proofs about Session for any files, mounts, services and bounds, and    *)
(* about Transport for any fetches, pins, transforms and retries.          *)
(***************************************************************************)
EXTENDS Session, Transport, FiniteSetTheorems, FunctionTheorems, TLAPS

-----------------------------------------------------------------------------
(* The inductive invariant *)

Registration == [type : {"register-frame"}, worker : Nat, snapshot : [Files -> Nat], missed : SUBSET Files]
Change == [type : {"fs-change"}, file : Files]
Mode == {"gone", "rw", "ro"}
MountAdd == [type : {"mount-add"}, mount : Mounts, fs : Nat, mode : Mode]
MountRemove == [type : {"mount-remove"}, mount : Mounts]
Push == [type : {"push"}, service : Services, value : Nat]
RepoMount == [type : {"repo-mount"}]
Gated == Change \cup MountAdd \cup MountRemove
ToDoc == Registration \cup Gated \cup Push \cup RepoMount
ToHost == [type : {"initialized", "request-refresh"} \cup Requests, registered : BOOLEAN]
Stage == {"loading", "waiting", "mounting", "setup", "ready", "blank"}
Adding == [mount : Mounts, fs : Nat, mode : Mode, at : {"connect", "directory"}]
Removing == [mount : Mounts, at : {"hooks", "directory"}]
Descriptor == [mount : Mounts, mode : Mode]

Document ==
  [id : Nat, stage : Stage, registrations : Nat, port : BOOLEAN, worker : Nat,
   config : [Files -> Nat], memo : [Files -> Nat], missed : SUBSET Files,
   gated : Seq(Gated), mounted : [Mounts -> Nat], adding : SUBSET Adding,
   removing : SUBSET Removing, table : SUBSET Descriptor, seen : SUBSET Descriptor,
   crossed : SUBSET Mounts, known : [Services -> Nat], repo : BOOLEAN, reloading : BOOLEAN]

Typed ==
  /\ budget \in [edits : Nat, snapshots : Nat, refreshes : Nat, reloads : Nat,
                 strays : Nat, mountings : Nat, pushes : Nat, failures : Nat]
  /\ guard \in [expected : Nat, detached : BOOLEAN]
  /\ version \in Nat \ {0}
  /\ destroyed \in BOOLEAN
  /\ connecting \in SUBSET [version : 1 .. version, stage : {"port", "config"}]
  /\ worker \in Nat
  /\ disk \in [Files -> Nat] /\ snapshot \in [Files -> Nat]
  /\ hostMounts \in [Mounts -> [fs : Nat, mode : Mode]]
  /\ pushed \in [Services -> Nat]
  /\ loading \in {"none", "ours", "blank"}
  /\ doc \in Document
  /\ toHost \in Seq(ToHost)
  /\ toDoc \in Seq(ToDoc)
  /\ history \in [superseded : BOOLEAN, stray : BOOLEAN, overtaken : BOOLEAN, failed : BOOLEAN]

-----------------------------------------------------------------------------
(* Types *)

LEMMA Listed ==
  ASSUME NEW S, IsFiniteSet(S)
  PROVE  /\ SetToSeq(S) \in Seq(S) /\ Len(SetToSeq(S)) = Cardinality(S)
         /\ Cardinality(S) \in Nat
<1>1. Cardinality(S) \in Nat /\ ExistsBijection(1 .. Cardinality(S), S)
  BY FS_CardinalityType
<1>2. PICK f : f \in Bijection(1 .. Cardinality(S), S)
  BY <1>1 DEF ExistsBijection
<1>3. f \in [1 .. Cardinality(S) -> S] /\ IsInjective(f)
  BY <1>2 DEF Bijection, Injection, IsInjective
<1>4. SetToSeq(S) \in [1 .. Cardinality(S) -> S]
  BY <1>3 DEF SetToSeq
<1>. QED BY <1>1, <1>4

LEMMA NewTyped ==
  ASSUME NEW n \in Nat, NEW stage \in Stage
  PROVE  NewDocument(n, stage) \in Document
BY DEF NewDocument, Document, None

LEMMA ApplyTyped ==
  ASSUME NEW d \in Document, NEW msg \in Gated
  PROVE  Apply(d, msg) \in Document
<1>1. CASE msg.type = "fs-change"
  <2>1. msg.file \in Files
    BY <1>1 DEF Gated, Change, MountAdd, MountRemove
  <2>. QED BY <1>1, <2>1 DEF Apply, Forget, Document, None
<1>2. CASE msg.type = "mount-add"
  <2>1. msg.mount \in Mounts /\ msg.fs \in Nat /\ msg.mode \in Mode
    BY <1>2 DEF Gated, Change, MountAdd, MountRemove
  <2>2. [mount |-> msg.mount, fs |-> msg.fs, mode |-> msg.mode, at |-> "connect"] \in Adding
    BY <2>1 DEF Adding
  <2>3. StartMount(d, msg) \in Document
    <3> DEFINE adding == d.adding \cup {[mount |-> msg.mount, fs |-> msg.fs, mode |-> msg.mode, at |-> "connect"]}
               crossed == IF Busy(d, msg.mount) THEN d.crossed \cup {msg.mount} ELSE d.crossed
    <3>1. adding \in SUBSET Adding /\ crossed \in SUBSET Mounts
      BY <2>1, <2>2 DEF Document
    <3>2. StartMount(d, msg) = [d EXCEPT !.crossed = crossed, !.adding = adding]
      BY Zenon DEF StartMount
    <3> HIDE DEF adding, crossed
    <3>. QED BY <3>1, <3>2 DEF Document
  <2>. QED BY <1>2, <2>3 DEF Apply
<1>3. CASE msg.type \notin {"fs-change", "mount-add"}
  <2>1. msg.mount \in Mounts
    BY <1>3 DEF Gated, Change, MountAdd, MountRemove
  <2>2. StartRemove(d, msg.mount) \in Document
    <3> DEFINE removing == d.removing \cup {[mount |-> msg.mount, at |-> "hooks"]}
               crossed == IF Busy(d, msg.mount) THEN d.crossed \cup {msg.mount} ELSE d.crossed
    <3>1. removing \in SUBSET Removing /\ crossed \in SUBSET Mounts
      BY <2>1 DEF Document, Removing
    <3>2. StartRemove(d, msg.mount) = [d EXCEPT !.crossed = crossed, !.removing = removing]
      BY Zenon DEF StartRemove
    <3> HIDE DEF removing, crossed
    <3>. QED BY <3>1, <3>2 DEF Document
  <2>. QED BY <1>3, <2>2 DEF Apply
<1>. QED BY <1>1, <1>2, <1>3

LEMMA HandleTyped ==
  ASSUME NEW d \in Document, NEW msg \in ToDoc
  PROVE  Handle(d, msg) \in Document
<1>1. CASE msg.type = "register-frame"
  <2>1. msg.worker \in Nat /\ msg.snapshot \in [Files -> Nat] /\ msg.missed \subseteq Files
    BY <1>1 DEF ToDoc, Registration, Gated, Change, MountAdd, MountRemove, Push, RepoMount
  <2>2. TakeRegistration(d, msg) \in Document
    <3> DEFINE missed == d.missed \cup msg.missed
    <3>1. missed \in SUBSET Files /\ d.registrations + 1 \in Nat
      BY <2>1 DEF Document
    <3>2. TakeRegistration(d, msg) =
            [d EXCEPT !.registrations = d.registrations + 1, !.port = TRUE, !.worker = msg.worker,
                      !.config = msg.snapshot, !.missed = missed]
      BY Zenon DEF TakeRegistration
    <3> HIDE DEF missed
    <3>. QED BY ZenonT(60), <2>1, <3>1, <3>2 DEF Document
  <2>. QED BY <1>1, <2>2 DEF Handle, HandleRepoMount
<1>2. CASE msg.type \in {"fs-change", "mount-add", "mount-remove"}
  <2>1. msg \in Gated
    BY <1>2 DEF ToDoc, Registration, Gated, Change, MountAdd, MountRemove, Push, RepoMount
  <2>2. [d EXCEPT !.gated = Append(@, msg)] \in Document
    <3> DEFINE gated == Append(d.gated, msg)
    <3>1. gated \in Seq(Gated)
      BY <2>1 DEF Document
    <3> HIDE DEF gated
    <3>2. [d EXCEPT !.gated = gated] \in Document
      BY <3>1 DEF Document
    <3>. QED BY <3>2 DEF gated
  <2>. QED BY <1>2, <2>1, <2>2, ApplyTyped DEF Handle, HandleRepoMount
<1>3. CASE msg.type = "push"
  <2>1. msg.service \in Services /\ msg.value \in Nat
    BY <1>3 DEF ToDoc, Registration, Gated, Change, MountAdd, MountRemove, Push, RepoMount
  <2>. QED BY <1>3, <2>1 DEF Handle, HandleRepoMount, Document
<1>4. CASE msg.type \notin {"register-frame", "fs-change", "mount-add", "mount-remove", "push"}
  BY <1>4 DEF Handle, HandleRepoMount, Document
<1>. QED BY <1>1, <1>2, <1>3, <1>4

LEMMA ApplyGatedTyped ==
  ASSUME NEW d \in Document
  PROVE  ApplyGated(d) \in Document
<1> DEFINE Waited(type) == {msg \in Range(d.gated) : msg.type = type}
           About(m) == {i \in DOMAIN d.gated : d.gated[i].type # "fs-change" /\ d.gated[i].mount = m}
           memo == [f \in Files |->
                      IF \E msg \in Waited("fs-change") : msg.file = f THEN None ELSE d.memo[f]]
           crossed == d.crossed \cup {m \in Mounts : \E i, j \in About(m) : i # j}
           adding == d.adding \cup
             {[mount |-> msg.mount, fs |-> msg.fs, mode |-> msg.mode, at |-> "connect"] :
                msg \in Waited("mount-add")}
           removing == d.removing \cup
             {[mount |-> msg.mount, at |-> "hooks"] : msg \in Waited("mount-remove")}
<1>1. Range(d.gated) \subseteq Gated
  <2>1. d.gated \in Seq(Gated)
    BY DEF Document
  <2>. QED BY <2>1 DEF Range
<1>2. ASSUME NEW msg \in Waited("mount-add")
      PROVE  msg \in MountAdd
  BY <1>1, <1>2 DEF Gated, Change, MountRemove
<1>3. ASSUME NEW msg \in Waited("mount-remove")
      PROVE  msg \in MountRemove
  BY <1>1, <1>3 DEF Gated, Change, MountAdd
<1>4. d.memo \in [Files -> Nat] /\ d.crossed \subseteq Mounts /\ d.adding \subseteq Adding
      /\ d.removing \subseteq Removing
  BY DEF Document
<1>5. memo \in [Files -> Nat] /\ crossed \in SUBSET Mounts
  BY <1>4 DEF None
<1>6. adding \in SUBSET Adding
  <2>1. ASSUME NEW msg \in MountAdd
        PROVE  [mount |-> msg.mount, fs |-> msg.fs, mode |-> msg.mode, at |-> "connect"] \in Adding
    BY DEF MountAdd, Adding
  <2>. QED BY <1>2, <1>4, <2>1
<1>7. removing \in SUBSET Removing
  <2>1. ASSUME NEW msg \in MountRemove
        PROVE  [mount |-> msg.mount, at |-> "hooks"] \in Removing
    BY DEF MountRemove, Removing
  <2>. QED BY <1>3, <1>4, <2>1
<1>8. ApplyGated(d) = [d EXCEPT !.memo = memo, !.crossed = crossed, !.adding = adding,
                                !.removing = removing, !.gated = <<>>]
  BY Zenon DEF ApplyGated
<1>9. <<>> \in Seq(Gated)
  OBVIOUS
<1> HIDE DEF memo, crossed, adding, removing
<1>. QED BY ZenonT(60), <1>5, <1>6, <1>7, <1>8, <1>9 DEF Document

LEMMA InitTyped == Init => Typed
<1> SUFFICES ASSUME Init PROVE Typed
  OBVIOUS
<1>1. doc \in Document
  BY NewTyped DEF Init, Stage
<1>2. /\ budget \in [edits : Nat, snapshots : Nat, refreshes : Nat, reloads : Nat,
                     strays : Nat, mountings : Nat, pushes : Nat, failures : Nat]
      /\ guard \in [expected : Nat, detached : BOOLEAN]
      /\ history \in [superseded : BOOLEAN, stray : BOOLEAN, overtaken : BOOLEAN, failed : BOOLEAN]
  BY BudgetsAssumption DEF Init
<1>3. version \in Nat \ {0} /\ connecting = {} /\ worker \in Nat
  BY DEF Init, None
<1>6. destroyed \in BOOLEAN
  BY DEF Init
<1>4. disk \in [Files -> Nat] /\ snapshot \in [Files -> Nat] /\ pushed \in [Services -> Nat]
      /\ hostMounts \in [Mounts -> [fs : Nat, mode : Mode]]
  BY DEF Init, None, Mode
<1>5. toHost \in Seq(ToHost) /\ toDoc \in Seq(ToDoc) /\ loading = "ours"
  BY DEF Init
<1>. QED BY <1>1, <1>2, <1>3, <1>4, <1>5, <1>6 DEF Typed

LEMMA SpendTyped ==
  ASSUME Typed, NEW field \in Fields, Spend(field)
  PROVE  /\ budget' \in [edits : Nat, snapshots : Nat, refreshes : Nat, reloads : Nat,
                         strays : Nat, mountings : Nat, pushes : Nat, failures : Nat]
<1> DEFINE B == [edits : Nat, snapshots : Nat, refreshes : Nat, reloads : Nat,
                 strays : Nat, mountings : Nat, pushes : Nat, failures : Nat]
<1>1. budget \in B /\ budget[field] > 0 /\ budget' = [budget EXCEPT ![field] = @ - 1]
  BY DEF Typed, Spend
<1>2. budget[field] - 1 \in Nat
  BY <1>1 DEF Fields
<1> DEFINE less == budget[field] - 1
<1>3. budget' = [budget EXCEPT ![field] = less]
  BY <1>1
<1> HIDE DEF less
<1>4. less \in Nat
  BY <1>2 DEF less
<1>5. CASE field \in {"edits", "snapshots", "refreshes", "reloads"}
  BY <1>1, <1>3, <1>4, <1>5
<1>6. CASE field \in {"strays", "mountings", "pushes", "failures"}
  BY <1>1, <1>3, <1>4, <1>6
<1>. QED BY <1>5, <1>6 DEF Fields

LEMMA LocationTyped ==
  ASSUME Typed, SetLocationURL
  PROVE  /\ guard' \in [expected : Nat, detached : BOOLEAN]
         /\ version' \in Nat \ {0} /\ version < version'
         /\ worker' \in Nat
         /\ loading' \in {"none", "ours", "blank"}
         /\ history' \in [superseded : BOOLEAN, stray : BOOLEAN, overtaken : BOOLEAN, failed : BOOLEAN]
         /\ connecting \in SUBSET [version : 1 .. version', stage : {"port", "config"}]
<1>1. version' = version + 1 /\ version \in Nat
  BY DEF Typed, SetLocationURL
<1>2. 1 .. version \subseteq 1 .. version'
  BY <1>1
<1>3. connecting \in SUBSET [version : 1 .. version', stage : {"port", "config"}]
  BY <1>2 DEF Typed
<1>4. BootUnheard \in BOOLEAN
  BY DEF BootUnheard
<1>5. history' \in [superseded : BOOLEAN, stray : BOOLEAN, overtaken : BOOLEAN, failed : BOOLEAN]
  BY <1>4 DEF Typed, SetLocationURL
<1>6. guard' \in [expected : Nat, detached : BOOLEAN]
  <2>1. guard \in [expected : Nat, detached : BOOLEAN]
    BY DEF Typed
  <2>2. guard' = IF guard.detached THEN guard ELSE [guard EXCEPT !.expected = guard.expected + 1]
    BY DEF SetLocationURL
  <2>. QED BY <2>1, <2>2
<1>7. worker' = 0 /\ loading' = "ours"
  BY DEF SetLocationURL, None
<1>. QED BY <1>1, <1>3, <1>5, <1>6, <1>7

LEMMA DispatchTyped ==
  ASSUME Typed, NEW msg \in ToDoc, Dispatch(msg)
  PROVE  toDoc' \in Seq(ToDoc)
BY DEF Typed, Dispatch

LEMMA MessagesTyped ==
  ASSUME Typed
  PROVE  /\ \A m \in Mounts : MountMessage(m) \in ToDoc
         /\ \A s \in Services : PushMessage(s) \in ToDoc
<1>1. ASSUME NEW m \in Mounts
      PROVE  MountMessage(m) \in ToDoc
  <2>1. hostMounts[m].fs \in Nat /\ hostMounts[m].mode \in Mode
    BY DEF Typed
  <2>2. [type |-> "mount-add", mount |-> m, fs |-> hostMounts[m].fs, mode |-> hostMounts[m].mode] \in MountAdd
    BY <2>1 DEF MountAdd
  <2>3. [type |-> "mount-remove", mount |-> m] \in MountRemove
    BY DEF MountRemove
  <2>. QED BY <2>2, <2>3 DEF MountMessage, ToDoc, Gated
<1>2. ASSUME NEW s \in Services
      PROVE  PushMessage(s) \in ToDoc
  <2>1. pushed[s] \in Nat
    BY DEF Typed
  <2>2. PushMessage(s) \in Push
    BY <2>1 DEF Push, PushMessage
  <2>. QED BY <2>2 DEF ToDoc
<1>. QED BY <1>1, <1>2

\* The host's and the browser's steps.
LEMMA HostTyped ==
  ASSUME Typed,
         \/ HostRefresh \/ TakeSnapshot \/ HearInitialized \/ HearRequestRefresh \/ HearRequest
         \/ \E f \in Files : Edit(f)
         \/ \E m \in Mounts : HostMounts(m)
         \/ \E s \in Services : HostPushes(s)
         \/ \E c \in connecting : ConnectFails(c) \/ PortConnected(c) \/ Register(c)
  PROVE  Typed'
<1>0. toHost # <<>> => Tail(toHost) \in Seq(ToHost) /\ Head(toHost) \in ToHost
  BY DEF Typed
<1>1. CASE HostRefresh
  <2>1. Spend("refreshes") /\ SetLocationURL
    BY <1>1 DEF HostRefresh
  <2>. QED BY <1>1, <2>1, SpendTyped, LocationTyped DEF HostRefresh, Typed, worldVars, Fields
<1>2. CASE TakeSnapshot
  <2>1. Spend("snapshots")
    BY <1>2 DEF TakeSnapshot
  <2>. QED BY <1>2, <2>1, SpendTyped DEF TakeSnapshot, Typed, hostVars, Fields
<1>3. CASE HearInitialized
  <2>1. CASE ~destroyed /\ AcceptBoot
    <3>0. guard \in [expected : Nat, detached : BOOLEAN] /\ guard.expected > 0
          /\ guard' = [guard EXCEPT !.expected = guard.expected - 1]
      BY <2>1 DEF Typed, AcceptBoot
    <3>1. version \in Nat /\ version' = version + 1
      BY <2>1 DEF Typed, AcceptBoot
    <3>5. guard.expected - 1 \in Nat
      BY <3>0
    <3>6. guard' \in [expected : Nat, detached : BOOLEAN]
      BY <3>0, <3>5
    <3>2. 1 .. version \subseteq 1 .. version' /\ version' \in 1 .. version'
      BY <3>1
    <3>3. connecting' \in SUBSET [version : 1 .. version', stage : {"port", "config"}]
      BY SMTT(30), <2>1, <3>2 DEF Typed, AcceptBoot
    <3>4. toHost' \in Seq(ToHost) /\ version' \in Nat \ {0}
      BY <1>0, <1>3, <3>1 DEF HearInitialized
    <3>. QED BY <1>3, <2>1, <3>1, <3>3, <3>4, <3>6 DEF HearInitialized, AcceptBoot, Typed, worldVars
  <2>2. CASE ~destroyed /\ RefuseBoot
    <3>1. version \in Nat /\ version' = version + 1 /\ guard' \in [expected : Nat, detached : BOOLEAN]
      BY <2>2 DEF Typed, RefuseBoot, Destroy
    <3>2. 1 .. version \subseteq 1 .. version'
      BY <3>1
    <3>3. connecting' \in SUBSET [version : 1 .. version', stage : {"port", "config"}]
      BY <2>2, <3>2 DEF Typed, RefuseBoot
    <3>4. toHost' \in Seq(ToHost) /\ version' \in Nat \ {0}
      BY <1>0, <1>3, <3>1 DEF HearInitialized
    <3>. QED BY <1>3, <2>2, <3>1, <3>3, <3>4 DEF HearInitialized, RefuseBoot, Destroy, Typed, worldVars, None
  <2>3. CASE destroyed /\ UNCHANGED <<hostVars, loading>>
    BY <1>0, <1>3, <2>3 DEF HearInitialized, Typed, hostVars, worldVars
  <2>. QED BY <1>3, <2>1, <2>2, <2>3 DEF HearInitialized
<1>4. CASE HearRequestRefresh
  <2>1. CASE UNCHANGED <<guard, version, worker, loading, history>>
    BY <1>0, <1>4, <2>1 DEF HearRequestRefresh, OnChannel, Typed, worldVars
  <2>2. CASE SetLocationURL
    BY <1>0, <1>4, <2>2, LocationTyped DEF HearRequestRefresh, OnChannel, Typed, worldVars
  <2>. QED BY <1>4, <2>1, <2>2 DEF HearRequestRefresh, OnChannel
<1>5. CASE HearRequest
  <2> DEFINE here == SetToSeq({m \in Mounts : Mounted(m)})
             services == [i \in 1 .. Cardinality(Services) |-> PushMessage(SetToSeq(Services)[i])]
             mounts == [i \in 1 .. Len(here) |-> MountMessage(here[i])]
             answers == CASE Head(toHost).type = "services" -> services
                          [] Head(toHost).type = "mounts" -> mounts
                          [] OTHER -> <<[type |-> "repo-mount"]>>
  <2>1. services \in Seq(ToDoc)
    BY Listed, FiniteAssumption, MessagesTyped
  <2>2. mounts \in Seq(ToDoc)
    <3>1. {m \in Mounts : Mounted(m)} \subseteq Mounts
      OBVIOUS
    <3>2. IsFiniteSet({m \in Mounts : Mounted(m)})
      BY <3>1, FiniteAssumption, FS_Subset
    <3> HIDE DEF here
    <3>3. here \in Seq(Mounts)
      BY <3>2, Listed DEF here
    <3>. QED BY <3>3, MessagesTyped
  <2>3. <<[type |-> "repo-mount"]>> \in Seq(ToDoc)
    BY DEF ToDoc, RepoMount
  <2> HIDE DEF services, mounts
  <2>4. answers \in Seq(ToDoc)
    BY <2>1, <2>2, <2>3
  <2>5. toDoc' = IF ~destroyed /\ Head(toHost).registered THEN toDoc \o answers ELSE toDoc
    BY <1>5, Zenon DEF HearRequest, OnChannel, services, mounts
  <2> HIDE DEF answers
  <2>6. toDoc' \in Seq(ToDoc)
    BY <2>4, <2>5 DEF Typed
  <2>. QED BY <1>0, <1>5, <2>6 DEF HearRequest, OnChannel, Typed, hostVars, worldVars
<1>6. ASSUME NEW f \in Files, Edit(f)
      PROVE  Typed'
  <2>1. [type |-> "fs-change", file |-> f] \in ToDoc
    BY DEF ToDoc, Gated, Change
  <2>2. Spend("edits") /\ Dispatch([type |-> "fs-change", file |-> f]) /\ disk' \in [Files -> Nat]
    BY SMTT(30), <1>6 DEF Edit, Typed
  <2>. QED BY <1>6, <2>1, <2>2, SpendTyped, DispatchTyped DEF Edit, Typed, hostVars, Fields
<1>7. ASSUME NEW m \in Mounts, HostMounts(m)
      PROVE  Typed'
  <2>1. hostMounts' \in [Mounts -> [fs : Nat, mode : Mode]]
    <3>1. hostMounts \in [Mounts -> [fs : Nat, mode : Mode]] /\ hostMounts[m].fs + 1 \in Nat
      BY DEF Typed
    <3>2. \/ hostMounts' = [hostMounts EXCEPT ![m] = [fs |-> hostMounts[m].fs + 1, mode |-> "rw"]]
          \/ \E mode \in {"ro", "gone"} :
               hostMounts' = [hostMounts EXCEPT ![m] = [hostMounts[m] EXCEPT !.mode = mode]]
      BY <1>7 DEF HostMounts
    <3>. QED BY <3>1, <3>2 DEF Mode
  <2>2. MountMessage(m)' \in ToDoc
    <3>1. hostMounts'[m].fs \in Nat /\ hostMounts'[m].mode \in Mode
      BY <2>1
    <3>2. [type |-> "mount-add", mount |-> m, fs |-> hostMounts'[m].fs, mode |-> hostMounts'[m].mode] \in MountAdd
      BY <3>1 DEF MountAdd
    <3>3. [type |-> "mount-remove", mount |-> m] \in MountRemove
      BY DEF MountRemove
    <3>. QED BY <3>2, <3>3 DEF MountMessage, ToDoc, Gated
  <2>3. Spend("mountings") /\ toDoc' \in Seq(ToDoc)
    BY <1>7, <2>2 DEF HostMounts, Dispatch, Typed
  <2>. QED BY <1>7, <2>1, <2>3, SpendTyped DEF HostMounts, Typed, hostVars, Fields
<1>8. ASSUME NEW s \in Services, HostPushes(s)
      PROVE  Typed'
  <2>1. pushed' \in [Services -> Nat]
    BY <1>8 DEF HostPushes, Typed
  <2>2. PushMessage(s)' \in ToDoc
    BY <2>1 DEF PushMessage, ToDoc, Push
  <2>3. Spend("pushes") /\ toDoc' \in Seq(ToDoc)
    BY <1>8, <2>2 DEF HostPushes, Dispatch, Typed
  <2>. QED BY <1>8, <2>1, <2>3, SpendTyped DEF HostPushes, Typed, hostVars, Fields
<1>9. ASSUME NEW c \in connecting, ConnectFails(c)
      PROVE  Typed'
  <2>1. Spend("failures") /\ Stale(c) \in BOOLEAN
    BY <1>9 DEF ConnectFails, Stale, Typed
  <2>. QED BY <1>9, <2>1, SpendTyped DEF ConnectFails, Typed, worldVars, Fields
<1>10. ASSUME NEW c \in connecting, PortConnected(c)
       PROVE  Typed'
  <2>1. connecting' \in SUBSET [version : 1 .. version, stage : {"port", "config"}]
    BY <1>10 DEF PortConnected, Typed
  <2>. QED BY <1>10, <2>1 DEF PortConnected, Typed, worldVars
<1>11. ASSUME NEW c \in connecting, Register(c)
       PROVE  Typed'
  <2> DEFINE msg == [type |-> "register-frame", worker |-> c.version, snapshot |-> snapshot,
                     missed |-> {f \in Files : snapshot[f] \notin {None, disk[f]}}]
  <2>1. c.version \in Nat /\ c.version \in 1 .. version
    BY DEF Typed
  <2>2. msg \in ToDoc
    BY <2>1 DEF ToDoc, Registration, Typed
  <2> HIDE DEF msg
  <2>3. CASE Stale(c)
    BY <1>11, <2>3 DEF Register, RegisterFrame, InitConfig, Typed, worldVars
  <2>4. CASE ~Stale(c)
    <3>1. Dispatch(msg) /\ worker' = c.version
      BY <1>11, <2>4 DEF Register, RegisterFrame, InitConfig, msg
    <3>. QED BY <1>11, <2>1, <2>2, <2>4, <3>1, DispatchTyped DEF Register, RegisterFrame, InitConfig, Typed, worldVars
  <2>. QED BY <2>3, <2>4
<1>. QED BY <1>1, <1>2, <1>3, <1>4, <1>5, <1>6, <1>7, <1>8, <1>9, <1>10, <1>11

\* A step of the document.
LEMMA DocumentTyped ==
  ASSUME Typed,
         \/ Boot \/ PortArrives \/ MountApp \/ BecomeReady \/ Receive \/ RequestRefresh
         \/ CommitNavigation \/ StrayNavigation
         \/ \E a \in doc.adding : MountAnswers(a) \/ MountTimesOut(a) \/ MountPlaced(a)
         \/ \E r \in doc.removing : MountTaken(r) \/ MountForgotten(r)
         \/ \E f \in Files : Read(f)
  PROVE  Typed'
<1>0. \A type \in {"initialized", "request-refresh"} \cup Requests : Message(type) \in ToHost
  BY DEF Message, ToHost, Registered
<1>1. CASE Boot
  <2>1. doc' \in Document
    BY <1>1 DEF Boot, Typed, Document, Stage
  <2>. QED BY <1>0, <1>1, <2>1 DEF Boot, Typed, hostVars, worldVars
<1>2. CASE PortArrives
  <2>1. doc' \in Document
    BY <1>2 DEF PortArrives, Typed, Document, Stage
  <2>2. toHost' \in Seq(ToHost)
    <3>1. Message("services") \in ToHost /\ Message("mounts") \in ToHost
      BY <1>0 DEF Requests
    <3>. QED BY <1>2, <3>1 DEF PortArrives, Typed
  <2>. QED BY <1>2, <2>1, <2>2 DEF PortArrives, Typed, hostVars, worldVars
<1>3. CASE MountApp
  <2>1. doc' \in Document
    BY <1>3 DEF MountApp, Typed, Document, Stage
  <2>2. Message("repo") \in ToHost
    BY <1>0 DEF Requests
  <2>. QED BY <1>3, <2>1, <2>2 DEF MountApp, Typed, hostVars, worldVars
<1>4. CASE BecomeReady
  <2>1. [doc EXCEPT !.stage = "ready", !.memo = doc.config] \in Document
    BY DEF Typed, Document, Stage
  <2>2. doc' \in Document
    BY <1>4, <2>1, ApplyGatedTyped DEF BecomeReady
  <2>. QED BY <1>4, <2>2 DEF BecomeReady, Typed, hostVars, worldVars
<1>5. CASE Receive
  <2>1. toDoc' \in Seq(ToDoc) /\ Head(toDoc) \in ToDoc /\ doc \in Document
    BY <1>5 DEF Receive, Typed
  <2>2. doc' \in Document
    BY <1>5, <2>1, HandleTyped DEF Receive
  <2>. QED BY <1>5, <2>1, <2>2 DEF Receive, Typed, hostVars, worldVars
<1>6. CASE RequestRefresh
  <2>1. doc' \in Document /\ Spend("reloads")
    BY <1>6 DEF RequestRefresh, Typed, Document
  <2>2. toHost' \in Seq(ToHost)
    BY <1>0, <1>6 DEF RequestRefresh, Typed
  <2>. QED BY <1>6, <2>1, <2>2, SpendTyped DEF RequestRefresh, Typed, hostVars, worldVars, Fields
<1>7. CASE CommitNavigation
  <2>1. doc.id + 1 \in Nat
    <3>1. doc \in Document
      BY DEF Typed
    <3>. QED BY <3>1 DEF Document
  <2>2. doc' \in Document
    <3>1. NewDocument(doc.id + 1, "blank") \in Document /\ NewDocument(doc.id + 1, "loading") \in Document
      BY <2>1, NewTyped DEF Stage
    <3>. QED BY <1>7, <3>1 DEF CommitNavigation
  <2>3. <<>> \in Seq(ToDoc)
    OBVIOUS
  <2>. QED BY <1>7, <2>2, <2>3 DEF CommitNavigation, Typed, hostVars, worldVars
<1>8. CASE StrayNavigation
  <2>1. doc.id + 1 \in Nat
    <3>1. doc \in Document
      BY DEF Typed
    <3>. QED BY <3>1 DEF Document
  <2>2. doc' \in Document /\ Spend("strays")
    <3>1. NewDocument(doc.id + 1, "loading") \in Document
      BY <2>1, NewTyped DEF Stage
    <3>. QED BY <1>8, <3>1 DEF StrayNavigation
  <2>3. <<>> \in Seq(ToDoc)
    OBVIOUS
  <2>. QED BY <1>8, <2>2, <2>3, SpendTyped DEF StrayNavigation, Typed, hostVars, worldVars, Fields
<1>9. ASSUME NEW a \in doc.adding, MountAnswers(a) \/ MountTimesOut(a) \/ MountPlaced(a)
      PROVE  Typed'
  <2>1. a \in Adding /\ a.mount \in Mounts /\ a.fs \in Nat /\ a.mode \in Mode
    BY DEF Typed, Document, Adding
  <2>2. [a EXCEPT !.at = "directory"] \in Adding
    BY <2>1 DEF Adding
  <2>3. [mount |-> a.mount, mode |-> a.mode] \in Descriptor
    BY <2>1 DEF Descriptor
  <2>4. doc' \in Document
    <3>1. CASE MountAnswers(a)
      BY <2>1, <2>2, <3>1 DEF MountAnswers, Typed, Document, None
    <3>2. CASE MountTimesOut(a)
      BY <3>2 DEF MountTimesOut, Typed, Document
    <3>3. CASE MountPlaced(a)
      <4> DEFINE done == [doc EXCEPT !.adding = @ \ {a}]
                 placed == [done EXCEPT !.mounted[a.mount] = a.fs]
                 table == {x \in doc.table : x.mount # a.mount} \cup {[mount |-> a.mount, mode |-> a.mode]}
      <4>1. done \in Document /\ placed \in Document
        BY <2>1 DEF Typed, Document
      <4>2. table \in SUBSET Descriptor
        BY <2>3 DEF Typed, Document
      <4>3. doc' \in {done, SetMounts(placed, table)}
        BY <3>3 DEF MountPlaced
      <4> HIDE DEF done, placed, table
      <4>4. [placed EXCEPT !.table = table, !.seen = table] \in Document
        BY <4>1, <4>2 DEF Document
      <4>. QED BY <4>1, <4>3, <4>4 DEF SetMounts
    <3>. QED BY <1>9, <3>1, <3>2, <3>3
  <2>. QED BY <1>9, <2>4 DEF MountAnswers, MountTimesOut, MountPlaced, Typed, hostVars, worldVars
<1>10. ASSUME NEW r \in doc.removing, MountTaken(r) \/ MountForgotten(r)
       PROVE  Typed'
  <2>0. r \in Removing
    BY DEF Typed, Document
  <2>1. r.mount \in Mounts /\ [r EXCEPT !.at = "directory"] \in Removing
    BY <2>0 DEF Removing
  <2>2. doc' \in Document
    <3>1. CASE MountTaken(r)
      BY <2>0, <2>1, <3>1 DEF MountTaken, Typed, Document, None
    <3>2. CASE MountForgotten(r)
      <4> DEFINE gone == [doc EXCEPT !.removing = @ \ {r}]
                 table == {x \in doc.table : x.mount # r.mount}
      <4>1. gone \in Document /\ table \in SUBSET Descriptor
        BY DEF Typed, Document
      <4>2. doc' = SetMounts(gone, table)
        BY <3>2 DEF MountForgotten
      <4> HIDE DEF gone, table
      <4>3. [gone EXCEPT !.table = table, !.seen = table] \in Document
        BY <4>1 DEF Document
      <4>. QED BY <4>1, <4>2, <4>3 DEF SetMounts
    <3>. QED BY <1>10, <3>1, <3>2
  <2>. QED BY <1>10, <2>2 DEF MountTaken, MountForgotten, Typed, hostVars, worldVars
<1>11. ASSUME NEW f \in Files, Read(f)
       PROVE  Typed'
  <2>1. doc' \in Document
    BY <1>11 DEF Read, Typed, Document
  <2>. QED BY <1>11, <2>1 DEF Read, Typed, hostVars, worldVars
<1>. QED BY <1>1, <1>2, <1>3, <1>4, <1>5, <1>6, <1>7, <1>8, <1>9, <1>10, <1>11

LEMMA StepTyped ==
  ASSUME Typed, [Next]_vars
  PROVE  Typed'
<1>1. CASE Next
  BY <1>1, HostTyped, DocumentTyped DEF Next, Environment, System
<1>2. CASE UNCHANGED vars
  BY <1>2 DEF vars, hostVars, worldVars, Typed
<1>. QED BY <1>1, <1>2

\* Every variable of host, browser and document keeps its type, for any files, mounts,
\* services and bounds (Client of runtime/index.ts, SandpackInstance of index.ts).
THEOREM TypeCorrect == Spec => []Typed
<1>. QED BY InitTyped, StepTyped, PTL DEF Spec

-----------------------------------------------------------------------------
(* Boots the host has yet to hear of *)

Boots(messages) == {i \in 1 .. Len(messages) : messages[i].type = "initialized"}
Unheard == Cardinality(Boots(toHost)) + (IF doc.stage = "loading" THEN 1 ELSE 0)

LEMMA BootsFinite ==
  ASSUME NEW s \in Seq(ToHost)
  PROVE  IsFiniteSet(Boots(s)) /\ Cardinality(Boots(s)) \in Nat
<1>1. Boots(s) \subseteq 1 .. Len(s) /\ 1 \in Int /\ Len(s) \in Int
  BY DEF Boots
<1>2. IsFiniteSet(Boots(s))
  BY <1>1, FS_Interval, FS_Subset
<1>. QED BY <1>2, FS_CardinalityType

LEMMA BootsAppended ==
  ASSUME NEW s \in Seq(ToHost), NEW msg \in ToHost
  PROVE  Cardinality(Boots(Append(s, msg))) =
           Cardinality(Boots(s)) + (IF msg.type = "initialized" THEN 1 ELSE 0)
<1>1. Len(s) + 1 \notin Boots(s)
  BY DEF Boots
<1>2. CASE msg.type = "initialized"
  <2>1. Boots(Append(s, msg)) = Boots(s) \cup {Len(s) + 1}
    BY <1>2 DEF Boots
  <2>. QED BY <1>1, <1>2, <2>1, BootsFinite, FS_AddElement
<1>3. CASE msg.type # "initialized"
  <2>1. Boots(Append(s, msg)) = Boots(s)
    BY <1>3 DEF Boots
  <2>. QED BY <1>3, <2>1, BootsFinite
<1>. QED BY <1>2, <1>3

LEMMA BootsHeard ==
  ASSUME NEW s \in Seq(ToHost), s # <<>>
  PROVE  Cardinality(Boots(s)) =
           Cardinality(Boots(Tail(s))) + (IF Head(s).type = "initialized" THEN 1 ELSE 0)
<1> DEFINE rest == Boots(s) \ {1}
           shift == [i \in Boots(Tail(s)) |-> i + 1]
<1>1. Tail(s) \in Seq(ToHost) /\ Len(Tail(s)) = Len(s) - 1 /\ Len(s) \in Nat \ {0}
      /\ \A i \in 1 .. Len(s) - 1 : Tail(s)[i] = s[i + 1]
  OBVIOUS
<1>2. \A i \in Boots(Tail(s)) : i \in Nat /\ i + 1 \in rest
  BY <1>1 DEF Boots
<1>3. \A j \in rest : j \in Nat /\ j - 1 \in Boots(Tail(s))
  BY <1>1 DEF Boots
<1>4. shift \in Bijection(Boots(Tail(s)), rest)
  <2>1. shift \in [Boots(Tail(s)) -> rest]
    BY <1>2
  <2>2. \A i, j \in Boots(Tail(s)) : shift[i] = shift[j] => i = j
    BY <1>2
  <2>3. \A j \in rest : \E i \in Boots(Tail(s)) : shift[i] = j
    <3>1. ASSUME NEW j \in rest
          PROVE  shift[j - 1] = j
      BY <1>3
    <3>. QED BY <1>3, <3>1
  <2> HIDE DEF shift, rest
  <2>. QED BY <2>1, <2>2, <2>3, Fun_IsBij
<1>5. Cardinality(rest) = Cardinality(Boots(Tail(s)))
  BY <1>1, <1>4, BootsFinite, FS_Bijection DEF ExistsBijection
<1>6. 1 \in Boots(s) <=> Head(s).type = "initialized"
  BY <1>1 DEF Boots
<1>7. Cardinality(Boots(s)) = Cardinality(rest) + (IF 1 \in Boots(s) THEN 1 ELSE 0)
  <2>1. CASE 1 \in Boots(s)
    <3>1. IsFiniteSet(Boots(s)) /\ Cardinality(Boots(s)) \in Nat
      BY BootsFinite
    <3>2. Cardinality(rest) = Cardinality(Boots(s)) - 1
      BY <2>1, <3>1, FS_RemoveElement
    <3>. QED BY <2>1, <3>1, <3>2
  <2>2. CASE 1 \notin Boots(s)
    <3>1. rest = Boots(s)
      BY <2>2
    <3> HIDE DEF rest
    <3>. QED BY <2>2, <3>1, BootsFinite
  <2>. QED BY <2>1, <2>2
<1>. QED BY <1>5, <1>6, <1>7, BootsFinite

LEMMA UnheardIs ==
  ASSUME Typed
  PROVE  Unheard \in Nat /\ (BootUnheard <=> Unheard > 0)
<1>1. IsFiniteSet(Boots(toHost)) /\ Cardinality(Boots(toHost)) \in Nat
  BY BootsFinite DEF Typed
<1>2. Cardinality(Boots(toHost)) = 0 <=> Boots(toHost) = {}
  BY <1>1, FS_EmptySet
<1>3. BootUnheard <=> doc.stage = "loading" \/ Boots(toHost) # {}
  BY DEF BootUnheard, Boots
<1>. QED BY <1>1, <1>2, <1>3 DEF Unheard

-----------------------------------------------------------------------------
(* What the steps do *)

\* A step that starts, hears and registers no document.
Quiet ==
  /\ UNCHANGED <<guard, version, destroyed, connecting, worker, loading>>
  /\ history' = history
  /\ doc'.worker = doc.worker /\ doc'.registrations = doc.registrations
  /\ Unheard' = Unheard
  /\ \A i \in 1 .. Len(toDoc') : toDoc'[i].type = "register-frame" =>
       \E j \in 1 .. Len(toDoc) : toDoc[j] = toDoc'[i]

\* The message the document handles registers it.
Registering ==
  Receive /\ doc.stage \notin {"loading", "blank"} /\ Head(toDoc).type = "register-frame"

LEMMA HandleKeeps ==
  ASSUME NEW d \in Document, NEW msg \in ToDoc, msg.type # "register-frame"
  PROVE  LET e == Handle(d, msg) IN
         /\ e.worker = d.worker /\ e.registrations = d.registrations /\ e.stage = d.stage
         /\ e.config = d.config /\ e.missed = d.missed
<1>1. ASSUME NEW e, e \in {Forget(d, msg.file), StartMount(d, msg), StartRemove(d, msg.mount),
                           [d EXCEPT !.gated = Append(@, msg)],
                           [d EXCEPT !.known[msg.service] = msg.value],
                           [d EXCEPT !.repo = @ \/ d.stage \in {"setup", "ready"}]}
      PROVE  /\ e.worker = d.worker /\ e.registrations = d.registrations /\ e.stage = d.stage
             /\ e.config = d.config /\ e.missed = d.missed
  BY ZenonT(60), <1>1 DEF Forget, StartMount, StartRemove, Document
<1>2. Handle(d, msg) \in {Forget(d, msg.file), StartMount(d, msg), StartRemove(d, msg.mount),
                           [d EXCEPT !.gated = Append(@, msg)],
                           [d EXCEPT !.known[msg.service] = msg.value],
                           [d EXCEPT !.repo = @ \/ d.stage \in {"setup", "ready"}]}
  BY DEF Handle, HandleRepoMount, Apply
<1>. QED BY <1>1, <1>2

LEMMA ApplyGatedKeeps ==
  ASSUME NEW d \in Document
  PROVE  LET e == ApplyGated(d) IN
         /\ e.worker = d.worker /\ e.registrations = d.registrations /\ e.stage = d.stage
         /\ e.config = d.config /\ e.missed = d.missed
         /\ e.memo = [f \in Files |->
              IF \E msg \in Range(d.gated) : msg.type = "fs-change" /\ msg.file = f
                THEN None ELSE d.memo[f]]
<1>1. \A f : (\E msg \in {msg \in Range(d.gated) : msg.type = "fs-change"} : msg.file = f)
               <=> \E msg \in Range(d.gated) : msg.type = "fs-change" /\ msg.file = f
  OBVIOUS
<1>. QED BY <1>1 DEF ApplyGated, Document

LEMMA NotHeardMore ==
  ASSUME Typed, doc'.stage = "loading" <=> doc.stage = "loading",
         \/ toHost' = toHost
         \/ toHost # <<>> /\ Head(toHost).type # "initialized" /\ toHost' = Tail(toHost)
         \/ \E msg \in ToHost : msg.type # "initialized" /\ toHost' = Append(toHost, msg)
         \/ \E msg, more \in ToHost : /\ msg.type # "initialized" /\ more.type # "initialized"
                                      /\ toHost' = toHost \o <<msg, more>>
  PROVE  Unheard' = Unheard
<1>0. toHost \in Seq(ToHost)
  BY DEF Typed
<1>1. Cardinality(Boots(toHost')) = Cardinality(Boots(toHost))
  <2>1. CASE toHost' = toHost
    BY <2>1
  <2>2. CASE toHost # <<>> /\ Head(toHost).type # "initialized" /\ toHost' = Tail(toHost)
    <3>1. Tail(toHost) \in Seq(ToHost)
      BY <1>0, <2>2
    <3>2. Cardinality(Boots(Tail(toHost))) \in Nat
      BY <3>1, BootsFinite
    <3>3. Cardinality(Boots(toHost)) =
            Cardinality(Boots(Tail(toHost))) + (IF Head(toHost).type = "initialized" THEN 1 ELSE 0)
      BY <1>0, <2>2, BootsHeard
    <3>. QED BY <2>2, <3>2, <3>3
  <2>3. CASE \E msg \in ToHost : msg.type # "initialized" /\ toHost' = Append(toHost, msg)
    BY <1>0, <2>3, BootsAppended, BootsFinite
  <2>4. ASSUME NEW msg \in ToHost, NEW more \in ToHost, msg.type # "initialized",
               more.type # "initialized", toHost' = toHost \o <<msg, more>>
        PROVE  Cardinality(Boots(toHost')) = Cardinality(Boots(toHost))
    <3>1. toHost' = Append(Append(toHost, msg), more) /\ Append(toHost, msg) \in Seq(ToHost)
      BY <1>0, <2>4
    <3>2. Cardinality(Boots(Append(toHost, msg))) = Cardinality(Boots(toHost)) + 0
      BY <1>0, <2>4, BootsAppended
    <3>3. Cardinality(Boots(toHost')) = Cardinality(Boots(Append(toHost, msg))) + 0
      BY <2>4, <3>1, BootsAppended
    <3>4. Cardinality(Boots(toHost)) \in Nat
      BY <1>0, BootsFinite
    <3>. QED BY <3>2, <3>3, <3>4
  <2>. QED BY <2>1, <2>2, <2>3, <2>4
<1>. QED BY <1>1 DEF Unheard

LEMMA NoNewFrames ==
  ASSUME Typed,
         \/ toDoc' = toDoc
         \/ toDoc # <<>> /\ toDoc' = Tail(toDoc)
         \/ \E msg \in ToDoc : msg.type # "register-frame" /\ toDoc' = Append(toDoc, msg)
         \/ \E msgs \in Seq(ToDoc) : /\ toDoc' = toDoc \o msgs
                                     /\ \A i \in 1 .. Len(msgs) : msgs[i].type # "register-frame"
  PROVE  \A i \in 1 .. Len(toDoc') : toDoc'[i].type = "register-frame" =>
           \E j \in 1 .. Len(toDoc) : toDoc[j] = toDoc'[i]
<1>0. toDoc \in Seq(ToDoc)
  BY DEF Typed
<1>1. CASE toDoc' = toDoc
  BY <1>1
<1>2. CASE toDoc # <<>> /\ toDoc' = Tail(toDoc)
  <2>1. \A i \in 1 .. Len(toDoc') : toDoc'[i] = toDoc[i + 1] /\ i + 1 \in 1 .. Len(toDoc)
    BY <1>0, <1>2
  <2>. QED BY <2>1
<1>3. CASE \E msg \in ToDoc : msg.type # "register-frame" /\ toDoc' = Append(toDoc, msg)
  BY <1>0, <1>3
<1>4. ASSUME NEW msgs \in Seq(ToDoc), toDoc' = toDoc \o msgs,
             \A i \in 1 .. Len(msgs) : msgs[i].type # "register-frame"
      PROVE  \A i \in 1 .. Len(toDoc') : toDoc'[i].type = "register-frame" =>
               \E j \in 1 .. Len(toDoc) : toDoc[j] = toDoc'[i]
  <2>1. /\ Len(toDoc') = Len(toDoc) + Len(msgs)
        /\ \A i \in 1 .. Len(toDoc) : toDoc'[i] = toDoc[i]
        /\ \A i \in Len(toDoc) + 1 .. Len(toDoc) + Len(msgs) : toDoc'[i] = msgs[i - Len(toDoc)]
    BY <1>0, <1>4
  <2>. QED BY <1>0, <1>4, <2>1
<1>. QED BY <1>1, <1>2, <1>3, <1>4

LEMMA AnswersRegisterNone ==
  ASSUME Typed, HearRequest
  PROVE  \/ toDoc' = toDoc
         \/ \E msgs \in Seq(ToDoc) : /\ toDoc' = toDoc \o msgs
                                     /\ \A i \in 1 .. Len(msgs) : msgs[i].type # "register-frame"
<1> DEFINE here == SetToSeq({m \in Mounts : Mounted(m)})
           services == [i \in 1 .. Cardinality(Services) |-> PushMessage(SetToSeq(Services)[i])]
           mounts == [i \in 1 .. Len(here) |-> MountMessage(here[i])]
           answers == CASE Head(toHost).type = "services" -> services
                        [] Head(toHost).type = "mounts" -> mounts
                        [] OTHER -> <<[type |-> "repo-mount"]>>
           Quietly(msgs) == msgs \in Seq(ToDoc) /\ \A i \in 1 .. Len(msgs) : msgs[i].type # "register-frame"
<1>1. Quietly(services)
  <2>1. \A s \in Services : PushMessage(s).type = "push"
    BY DEF PushMessage
  <2>. QED BY <2>1, Listed, FiniteAssumption, MessagesTyped
<1>2. Quietly(mounts)
  <2>1. \A m \in Mounts : MountMessage(m).type # "register-frame"
    BY DEF MountMessage
  <2>2. IsFiniteSet({m \in Mounts : Mounted(m)})
    BY FiniteAssumption, FS_Subset
  <2> HIDE DEF here
  <2>3. here \in Seq(Mounts)
    BY <2>2, Listed DEF here
  <2>. QED BY <2>1, <2>3, MessagesTyped
<1>3. Quietly(<<[type |-> "repo-mount"]>>)
  BY DEF ToDoc, RepoMount
<1> HIDE DEF services, mounts
<1>4. Quietly(answers)
  BY <1>1, <1>2, <1>3
<1>5. toDoc' = IF ~destroyed /\ Head(toHost).registered THEN toDoc \o answers ELSE toDoc
  BY Zenon DEF HearRequest, OnChannel, services, mounts
<1> HIDE DEF answers
<1>. QED BY <1>4, <1>5

LEMMA QuietSteps ==
  ASSUME Typed,
         \/ TakeSnapshot \/ HearRequest \/ PortArrives \/ MountApp \/ BecomeReady \/ RequestRefresh
         \/ HearRequestRefresh /\ ~SetLocationURL
         \/ Receive /\ ~Registering
         \/ \E f \in Files : Edit(f) \/ Read(f)
         \/ \E m \in Mounts : HostMounts(m)
         \/ \E s \in Services : HostPushes(s)
         \/ \E a \in doc.adding : MountAnswers(a) \/ MountTimesOut(a) \/ MountPlaced(a)
         \/ \E r \in doc.removing : MountTaken(r) \/ MountForgotten(r)
         \/ UNCHANGED vars
  PROVE  Quiet
<1>0. doc \in Document /\ toHost \in Seq(ToHost) /\ toDoc \in Seq(ToDoc)
  BY DEF Typed
<1>1. CASE TakeSnapshot \/ UNCHANGED vars
  <2>1. UNCHANGED <<hostVars, loading, doc, toHost, toDoc, history>>
    BY <1>1 DEF TakeSnapshot, vars
  <2>. QED BY <2>1, NotHeardMore, NoNewFrames DEF Quiet, hostVars
<1>2. CASE HearRequest
  <2>1. UNCHANGED <<hostVars, loading, doc, history>> /\ toHost # <<>> /\ toHost' = Tail(toHost)
        /\ Head(toHost).type # "initialized"
    BY <1>2 DEF HearRequest, OnChannel, Requests
  <2>2. Unheard' = Unheard
    BY <2>1, NotHeardMore
  <2>. QED BY <1>2, <2>1, <2>2, AnswersRegisterNone, NoNewFrames DEF Quiet, hostVars
<1>3. CASE HearRequestRefresh /\ ~SetLocationURL
  <2>1. UNCHANGED <<guard, version, destroyed, connecting, worker, loading, doc, toDoc, history>>
        /\ toHost # <<>> /\ toHost' = Tail(toHost) /\ Head(toHost).type # "initialized"
    BY <1>3 DEF HearRequestRefresh, OnChannel
  <2>2. Unheard' = Unheard
    BY <2>1, NotHeardMore
  <2>. QED BY <2>1, <2>2, NoNewFrames DEF Quiet
<1>4. ASSUME NEW msg \in ToHost, msg.type # "initialized",
             UNCHANGED <<hostVars, loading, toDoc, history>>, toHost' = Append(toHost, msg),
             \/ \E stage \in Stage \ {"loading"} : doc' = [doc EXCEPT !.stage = stage]
             \/ doc' = [doc EXCEPT !.reloading = TRUE],
             doc.stage # "loading"
      PROVE  Quiet
  <2>1. doc'.worker = doc.worker /\ doc'.registrations = doc.registrations /\ doc'.stage # "loading"
    BY <1>0, <1>4 DEF Document
  <2>2. Unheard' = Unheard
    BY <1>4, <2>1, NotHeardMore
  <2>. QED BY <1>4, <2>1, <2>2, NoNewFrames DEF Quiet, hostVars
<1>5. CASE PortArrives
  <2>1. doc'.worker = doc.worker /\ doc'.registrations = doc.registrations /\ doc'.stage # "loading"
        /\ doc.stage # "loading"
    BY <1>0, <1>5 DEF PortArrives, Document
  <2>2. Message("services") \in ToHost /\ Message("mounts") \in ToHost
        /\ Message("services").type # "initialized" /\ Message("mounts").type # "initialized"
    BY DEF Message, ToHost, Requests, Registered
  <2>3. UNCHANGED <<hostVars, loading, toDoc, history>>
        /\ toHost' = toHost \o <<Message("services"), Message("mounts")>>
    BY <1>5 DEF PortArrives
  <2>4. Unheard' = Unheard
    BY <2>1, <2>2, <2>3, NotHeardMore
  <2>. QED BY <2>1, <2>3, <2>4, NoNewFrames DEF Quiet, hostVars
<1>6. CASE MountApp
  <2>1. Message("repo") \in ToHost /\ Message("repo").type # "initialized"
    BY DEF Message, ToHost, Requests, Registered
  <2>. QED BY <1>4, <1>6, <2>1 DEF MountApp, Stage
<1>7. CASE RequestRefresh
  <2>1. Message("request-refresh") \in ToHost /\ Message("request-refresh").type # "initialized"
    BY DEF Message, ToHost, Registered
  <2>. QED BY <1>4, <1>7, <2>1 DEF RequestRefresh
<1>8. ASSUME UNCHANGED <<hostVars, loading, toHost, history>>,
             doc'.worker = doc.worker, doc'.registrations = doc.registrations,
             doc'.stage = "loading" <=> doc.stage = "loading",
             toDoc' = toDoc \/ (toDoc # <<>> /\ toDoc' = Tail(toDoc))
      PROVE  Quiet
  <2>1. Unheard' = Unheard
    BY <1>8, NotHeardMore
  <2>. QED BY <1>8, <2>1, NoNewFrames DEF Quiet, hostVars
<1>9. CASE BecomeReady
  <2>1. [doc EXCEPT !.stage = "ready", !.memo = doc.config] \in Document
    BY <1>0 DEF Document, Stage
  <2>2. doc'.worker = doc.worker /\ doc'.registrations = doc.registrations /\ doc'.stage = "ready"
    BY <1>0, <1>9, <2>1, ApplyGatedKeeps DEF BecomeReady, Document
  <2>. QED BY <1>8, <1>9, <2>2 DEF BecomeReady
<1>10. CASE Receive /\ ~Registering
  <2>1. CASE doc' = doc
    BY <1>8, <1>10, <2>1 DEF Receive
  <2>2. CASE doc' = Handle(doc, Head(toDoc)) /\ Head(toDoc).type # "register-frame"
    <3>1. Head(toDoc) \in ToDoc
      BY <1>0, <1>10 DEF Receive
    <3>. QED BY <1>0, <1>8, <1>10, <2>2, <3>1, HandleKeeps DEF Receive
  <2>. QED BY <1>10, <2>1, <2>2 DEF Receive, Registering
<1>11. ASSUME NEW f \in Files, Read(f)
       PROVE  Quiet
  BY <1>0, <1>8, <1>11 DEF Read, Document
<1>12. ASSUME NEW msg \in ToDoc, msg.type # "register-frame", Dispatch(msg),
              UNCHANGED <<hostVars, loading, doc, toHost, history>>
       PROVE  Quiet
  <2>1. Unheard' = Unheard
    BY <1>12, NotHeardMore
  <2>2. toDoc' = toDoc \/ toDoc' = Append(toDoc, msg)
    BY <1>12 DEF Dispatch
  <2>. QED BY <1>12, <2>1, <2>2, NoNewFrames DEF Quiet, hostVars
<1>13. ASSUME NEW f \in Files, Edit(f)
       PROVE  Quiet
  <2>1. [type |-> "fs-change", file |-> f] \in ToDoc
    BY DEF ToDoc, Gated, Change
  <2>. QED BY <1>12, <1>13, <2>1 DEF Edit
<1>14. ASSUME NEW m \in Mounts, HostMounts(m)
       PROVE  Quiet
  <2>1. Typed'
    BY <1>14, HostTyped
  <2>2. MountMessage(m)' \in ToDoc
    <3>1. hostMounts'[m].fs \in Nat /\ hostMounts'[m].mode \in Mode
      BY <2>1 DEF Typed
    <3>2. [type |-> "mount-add", mount |-> m, fs |-> hostMounts'[m].fs, mode |-> hostMounts'[m].mode] \in MountAdd
      BY <3>1 DEF MountAdd
    <3>3. [type |-> "mount-remove", mount |-> m] \in MountRemove
      BY DEF MountRemove
    <3>. QED BY <3>2, <3>3 DEF MountMessage, ToDoc, Gated
  <2>3. MountMessage(m)'.type # "register-frame"
    BY DEF MountMessage
  <2> DEFINE msg == MountMessage(m)'
  <2>4. Dispatch(msg) /\ UNCHANGED <<hostVars, loading, doc, toHost, history>>
    BY <1>14 DEF HostMounts, Dispatch
  <2> HIDE DEF msg
  <2>. QED BY <1>12, <2>2, <2>3, <2>4 DEF msg
<1>15. ASSUME NEW s \in Services, HostPushes(s)
       PROVE  Quiet
  <2>1. Typed'
    BY <1>15, HostTyped
  <2>2. PushMessage(s)' \in ToDoc /\ PushMessage(s)'.type # "register-frame"
    BY <2>1 DEF PushMessage, ToDoc, Push, Typed
  <2> DEFINE msg == PushMessage(s)'
  <2>3. Dispatch(msg) /\ UNCHANGED <<hostVars, loading, doc, toHost, history>>
    BY <1>15 DEF HostPushes, Dispatch
  <2> HIDE DEF msg
  <2>. QED BY <1>12, <2>2, <2>3 DEF msg
<1>16. ASSUME NEW a \in doc.adding, MountAnswers(a) \/ MountTimesOut(a) \/ MountPlaced(a)
       PROVE  Quiet
  <2>1. /\ doc'.worker = doc.worker /\ doc'.registrations = doc.registrations
        /\ doc'.stage = doc.stage
    <3>1. CASE MountAnswers(a)
      BY <1>0, <3>1 DEF MountAnswers, Document
    <3>2. CASE MountTimesOut(a)
      BY <1>0, <3>2 DEF MountTimesOut, Document
    <3>3. CASE MountPlaced(a)
      BY <1>0, <3>3 DEF MountPlaced, SetMounts, Document
    <3>. QED BY <1>16, <3>1, <3>2, <3>3
  <2>. QED BY <1>8, <1>16, <2>1 DEF MountAnswers, MountTimesOut, MountPlaced
<1>17. ASSUME NEW r \in doc.removing, MountTaken(r) \/ MountForgotten(r)
       PROVE  Quiet
  <2>1. /\ doc'.worker = doc.worker /\ doc'.registrations = doc.registrations
        /\ doc'.stage = doc.stage
    <3>1. CASE MountTaken(r)
      BY <1>0, <3>1 DEF MountTaken, Document
    <3>2. CASE MountForgotten(r)
      BY <1>0, <3>2 DEF MountForgotten, SetMounts, Document
    <3>. QED BY <1>17, <3>1, <3>2
  <2>. QED BY <1>8, <1>17, <2>1 DEF MountTaken, MountForgotten
<1>. QED BY <1>1, <1>2, <1>3, <1>5, <1>6, <1>7, <1>9, <1>10, <1>11, <1>13, <1>14, <1>15, <1>16, <1>17

-----------------------------------------------------------------------------
(* Every boot is expected *)

\* As long as no document navigates itself, a boot is expected for every navigation under
\* way, every document that has yet to boot, and every `initialized` not heard.
Expected ==
  ~history.stray =>
    /\ ~guard.detached /\ loading # "blank"
    /\ guard.expected >= Unheard + (IF loading = "ours" THEN 1 ELSE 0)

LEMMA InitUnheard == Init => Unheard = 0
<1> SUFFICES ASSUME Init PROVE Unheard = 0
  OBVIOUS
<1>1. Boots(toHost) = {}
  BY DEF Init, Boots
<1>2. Cardinality(Boots(toHost)) = 0
  BY <1>1, FS_EmptySet
<1>3. doc.stage = "blank"
  BY DEF Init, NewDocument
<1>. QED BY <1>2, <1>3 DEF Unheard

LEMMA CommitUnheard ==
  ASSUME Typed, CommitNavigation \/ StrayNavigation
  PROVE  /\ Unheard' = Cardinality(Boots(toHost)) + (IF loading = "blank" THEN 0 ELSE 1)
         /\ doc'.registrations = 0 /\ doc'.worker = None /\ toDoc' = <<>>
         /\ Cardinality(Boots(toHost)) \in Nat /\ Cardinality(Boots(toHost)) <= Unheard
<1>1. doc' = NewDocument(doc.id + 1, IF loading = "blank" THEN "blank" ELSE "loading") /\ toHost' = toHost
      /\ toDoc' = <<>>
  BY DEF CommitNavigation, StrayNavigation
<1>2. Cardinality(Boots(toHost)) \in Nat
  BY BootsFinite DEF Typed
<1>3. doc'.stage = IF loading = "blank" THEN "blank" ELSE "loading"
  BY <1>1 DEF NewDocument
<1>. QED BY <1>1, <1>2, <1>3 DEF Unheard, NewDocument

LEMMA BootUnheardStays ==
  ASSUME Typed, Boot
  PROVE  /\ Unheard' = Unheard
         /\ doc'.worker = doc.worker /\ doc'.registrations = doc.registrations
<1>1. doc.stage = "loading" /\ doc' = [doc EXCEPT !.stage = "waiting"]
      /\ toHost' = Append(toHost, Message("initialized")) /\ toHost \in Seq(ToHost)
      /\ doc \in Document
  BY DEF Boot, Typed
<1>2. Message("initialized") \in ToHost /\ Message("initialized").type = "initialized"
  BY DEF Message, ToHost, Registered
<1>3. Cardinality(Boots(toHost')) = Cardinality(Boots(toHost)) + 1 /\ Cardinality(Boots(toHost)) \in Nat
  BY <1>1, <1>2, BootsAppended, BootsFinite
<1>4. doc'.stage = "waiting" /\ doc'.worker = doc.worker /\ doc'.registrations = doc.registrations
  BY <1>1 DEF Document
<1>. QED BY <1>1, <1>3, <1>4 DEF Unheard

LEMMA HeardUnheard ==
  ASSUME Typed, HearInitialized
  PROVE  Unheard' = Unheard - 1 /\ Unheard' \in Nat /\ Unheard > 0
<1>1. toHost \in Seq(ToHost) /\ toHost # <<>> /\ toHost' = Tail(toHost) /\ doc' = doc
      /\ Head(toHost).type = "initialized"
  BY DEF HearInitialized, Typed
<1>2. Tail(toHost) \in Seq(ToHost)
  BY <1>1
<1>3. Cardinality(Boots(toHost)) = Cardinality(Boots(Tail(toHost))) + 1
  BY <1>1, BootsHeard
<1>4. Cardinality(Boots(Tail(toHost))) \in Nat
  BY <1>2, BootsFinite
<1>. QED BY <1>1, <1>3, <1>4 DEF Unheard

\* A step that navigates; what was heard with it is a request for it.
Navigating == HostRefresh \/ (HearRequestRefresh /\ SetLocationURL)

LEMMA NavigatingUnheard ==
  ASSUME Typed, Navigating
  PROVE  Unheard' = Unheard /\ SetLocationURL /\ UNCHANGED <<destroyed, connecting, doc, toDoc>>
<1>1. UNCHANGED <<destroyed, connecting, doc, toDoc>> /\ SetLocationURL
      /\ \/ toHost' = toHost
         \/ toHost # <<>> /\ Head(toHost).type # "initialized" /\ toHost' = Tail(toHost)
  BY DEF Navigating, HostRefresh, HearRequestRefresh, OnChannel
<1>. QED BY <1>1, NotHeardMore

LEMMA RegisteringDoes ==
  ASSUME Typed, Registering
  PROVE  LET msg == Head(toDoc) IN
         /\ Unheard' = Unheard
         /\ UNCHANGED <<hostVars, loading, toHost, history>>
         /\ msg \in Registration /\ msg = toDoc[1] /\ 1 \in 1 .. Len(toDoc)
         /\ doc'.registrations = doc.registrations + 1
         /\ doc'.worker = msg.worker
         /\ doc'.stage = doc.stage
         /\ doc'.config = msg.snapshot /\ doc'.missed = doc.missed \cup msg.missed
         /\ doc'.memo = doc.memo /\ doc'.gated = doc.gated
<1>1. toDoc \in Seq(ToDoc) /\ toDoc # <<>> /\ doc \in Document /\ Head(toDoc) \in ToDoc
      /\ Head(toDoc).type = "register-frame" /\ UNCHANGED <<hostVars, loading, toHost, history>>
  BY DEF Registering, Receive, Typed
<1>2. Head(toDoc) \in Registration
  BY <1>1 DEF ToDoc, Gated, Change, MountAdd, MountRemove, Push, RepoMount
<1>3. doc' = TakeRegistration(doc, Head(toDoc))
  BY DEF Registering, Receive, Handle, HandleRepoMount
<1>4. doc'.stage = doc.stage
  BY <1>1, <1>3 DEF TakeRegistration, Document
<1>5. Unheard' = Unheard
  BY <1>1, <1>4, NotHeardMore
<1>. QED BY <1>1, <1>2, <1>3, <1>4, <1>5 DEF TakeRegistration, Document

\* The step of a handler of `initialized` that waits for its port or configuration.
Connecting == \E c \in connecting : ConnectFails(c) \/ PortConnected(c) \/ Register(c)

LEMMA ConnectingUnheard ==
  ASSUME Typed, Connecting
  PROVE  /\ Unheard' = Unheard /\ UNCHANGED <<guard, version, destroyed, loading, doc, toHost>>
         /\ history'.stray = history.stray /\ history'.overtaken = history.overtaken
<1>1. /\ UNCHANGED <<guard, version, destroyed, loading, doc, toHost>>
      /\ history' = history \/ \E b : history' = [history EXCEPT !.failed = b]
  BY DEF Connecting, ConnectFails, PortConnected, Register, RegisterFrame, InitConfig
<1>2. Unheard' = Unheard
  BY <1>1, NotHeardMore
<1>. QED BY <1>1, <1>2 DEF Typed

LEMMA NextCases ==
  ASSUME Typed, [Next]_vars
  PROVE  \/ Quiet \/ Navigating \/ Connecting \/ HearInitialized \/ CommitNavigation
         \/ StrayNavigation \/ Boot \/ Registering
BY QuietSteps DEF Next, Environment, System, Navigating, Connecting

LEMMA StepExpected ==
  ASSUME Typed, Typed', Expected, [Next]_vars
  PROVE  Expected'
<1>0. Unheard \in Nat /\ Unheard' \in Nat /\ guard.expected \in Nat /\ guard \in [expected : Nat, detached : BOOLEAN]
  <2>1. Unheard' \in Nat
    <3>1. toHost' \in Seq(ToHost)
      BY DEF Typed
    <3>. QED BY <3>1, BootsFinite DEF Unheard
  <2>. QED BY <2>1, UnheardIs DEF Typed
<1>1. CASE Quiet
  BY <1>1 DEF Quiet, Expected
<1>2. CASE Navigating
  <2>1. Unheard' = Unheard /\ loading' = "ours" /\ history'.stray = history.stray
        /\ guard' = IF guard.detached THEN guard ELSE [guard EXCEPT !.expected = guard.expected + 1]
    BY <1>2, NavigatingUnheard DEF SetLocationURL, Typed
  <2>. QED BY <1>0, <2>1 DEF Expected
<1>3. CASE Connecting
  BY <1>3, ConnectingUnheard DEF Expected
<1>4. CASE HearInitialized
  <2>1. Unheard' = Unheard - 1 /\ Unheard > 0 /\ history' = history
    BY <1>4, HeardUnheard DEF HearInitialized
  <2>2. CASE history.stray
    BY <2>1, <2>2 DEF Expected
  <2>3. CASE ~history.stray
    <3>1. guard.expected > 0 /\ ~guard.detached
      BY <1>0, <2>1, <2>3 DEF Expected
    <3>2. \/ AcceptBoot \/ UNCHANGED <<hostVars, loading>>
      BY <1>4, <3>1 DEF HearInitialized, RefuseBoot
    <3>3. CASE AcceptBoot
      BY <1>0, <2>1, <2>3, <3>3 DEF Expected, AcceptBoot
    <3>4. CASE UNCHANGED <<hostVars, loading>>
      BY <1>0, <2>1, <2>3, <3>4 DEF Expected, hostVars
    <3>. QED BY <3>2, <3>3, <3>4
  <2>. QED BY <2>2, <2>3
<1>5. CASE CommitNavigation
  <2>1. loading # "none" /\ loading' = "none" /\ guard' = guard /\ history'.stray = history.stray
    BY <1>5 DEF CommitNavigation, hostVars, Typed
  <2>2. CASE history.stray
    BY <2>1, <2>2 DEF Expected
  <2>3. CASE ~history.stray
    <3>1. loading = "ours" /\ ~guard.detached /\ guard.expected >= Unheard + 1
      BY <2>1, <2>3 DEF Expected, Typed
    <3>2. Unheard' = Cardinality(Boots(toHost)) + 1 /\ Cardinality(Boots(toHost)) \in Nat
          /\ Cardinality(Boots(toHost)) <= Unheard
      BY <1>5, <3>1, CommitUnheard
    <3>3. guard.expected >= Unheard'
      BY <1>0, <3>1, <3>2
    <3>. QED BY <1>0, <2>1, <3>1, <3>3 DEF Expected
  <2>. QED BY <2>2, <2>3
<1>6. CASE StrayNavigation
  <2>1. history'.stray
    BY <1>6 DEF StrayNavigation, Typed
  <2>. QED BY <2>1 DEF Expected
<1>7. CASE Boot
  BY <1>7, BootUnheardStays DEF Expected, Boot, hostVars
<1>8. CASE Registering
  BY <1>8, RegisteringDoes DEF Expected, hostVars
<1>. QED BY <1>1, <1>2, <1>3, <1>4, <1>5, <1>6, <1>7, <1>8, NextCases

\* Boots and navigations are matched by counting; however they interleave with reload
\* requests and connections that fail, no document the host asked for is refused
\* (InitializationGuard, setLocationURLIntoIFrame).
THEOREM NoDocumentRefused == Spec => []NoFalseRefusal
<1>1. Init => Expected
  <2> SUFFICES ASSUME Init PROVE Expected
    OBVIOUS
  <2>3. Unheard = 0
    BY InitUnheard
  <2>4. guard.expected = 1 /\ guard.detached = FALSE /\ loading = "ours"
    BY DEF Init
  <2>. QED BY <2>3, <2>4 DEF Expected
<1>2. Expected => NoFalseRefusal
  BY DEF Expected, NoFalseRefusal
<1>. QED BY <1>1, <1>2, TypeCorrect, StepExpected, PTL DEF Spec

-----------------------------------------------------------------------------
(* One worker for one document *)

NoFrames == \A i \in 1 .. Len(toDoc) : toDoc[i].type # "register-frame"

\* A handler of `initialized` is alone in its version. Unless a boot was overtaken or a
\* document navigated itself, one boot at most is unheard, and none while a navigation is
\* under way; until it is heard, and while its handler waits, there is no worker, and
\* without a worker no registration.
OneWorker ==
  /\ \A c, d \in connecting : c.version = d.version => c = d
  /\ ~destroyed /\ ~history.overtaken /\ ~history.stray =>
       /\ loading # "blank" /\ Unheard <= 1
       /\ loading = "ours" => Unheard = 0
       /\ loading = "ours" \/ Unheard > 0 =>
            worker = None /\ \A c \in connecting : c.version # version
       /\ (\E c \in connecting : c.version = version) => worker = None
       /\ loading = "none" =>
            /\ worker = None => ~Registered /\ NoFrames
            /\ doc.worker \in {None, worker}
            /\ Registered => doc.worker = worker
            /\ \A i \in 1 .. Len(toDoc) :
                 toDoc[i].type = "register-frame" => toDoc[i].worker = worker

Overlooked == destroyed \/ history.overtaken \/ history.stray

LEMMA StepOneWorker ==
  ASSUME Typed, Typed', OneWorker, [Next]_vars
  PROVE  OneWorker'
<1>0. Unheard \in Nat /\ Unheard' \in Nat /\ version \in Nat /\ worker \in Nat
      /\ \A c \in connecting : c.version \in Nat /\ c.version <= version
  <2>1. toHost' \in Seq(ToHost)
    BY DEF Typed
  <2>2. Unheard' \in Nat
    BY <2>1, BootsFinite DEF Unheard
  <2>3. Unheard \in Nat /\ version \in Nat /\ worker \in Nat
    BY UnheardIs DEF Typed
  <2>4. \A c \in connecting : c.version \in 1 .. version
    BY DEF Typed
  <2>. QED BY <2>2, <2>3, <2>4
<1>1. CASE Quiet
  <2>1. NoFrames => NoFrames'
    BY <1>1 DEF Quiet, NoFrames
  <2>2. Registered' = Registered
    BY <1>1 DEF Quiet, Registered
  <2>. QED BY <1>1, <2>1, <2>2 DEF Quiet, OneWorker
<1>2. CASE Navigating
  <2>1. /\ Unheard' = Unheard /\ loading' = "ours" /\ worker' = None /\ version' = version + 1
        /\ history'.stray = history.stray /\ UNCHANGED <<destroyed, connecting>>
        /\ history'.overtaken = (history.overtaken \/ BootUnheard)
    BY <1>2, NavigatingUnheard DEF SetLocationURL, Typed
  <2>2. \A c \in connecting' : c.version # version'
    BY <1>0, <2>1
  <2>3. ~history'.overtaken => ~history.overtaken /\ Unheard = 0
    <3>1. ~history'.overtaken => ~history.overtaken /\ ~BootUnheard
      BY <2>1
    <3>2. BootUnheard <=> Unheard > 0
      BY UnheardIs
    <3>3. ~(Unheard > 0) => Unheard = 0
      BY <1>0
    <3>. QED BY <3>1, <3>2, <3>3, Zenon
  <2>4. CASE history'.overtaken
    BY <2>1, <2>4 DEF OneWorker
  <2>5. CASE ~history'.overtaken
    BY <1>0, <2>1, <2>2, <2>3, <2>5 DEF OneWorker
  <2>. QED BY <2>4, <2>5
<1>3. ASSUME NEW c \in connecting, ConnectFails(c) \/ PortConnected(c)
      PROVE  OneWorker'
  <2>1. /\ Unheard' = Unheard /\ UNCHANGED <<version, destroyed, loading, doc, toDoc, worker>>
        /\ history'.stray = history.stray /\ history'.overtaken = history.overtaken
        /\ connecting' \subseteq (connecting \ {c}) \cup {[c EXCEPT !.stage = "config"]}
    BY <1>3, ConnectingUnheard DEF Connecting, ConnectFails, PortConnected
  <2>2. [c EXCEPT !.stage = "config"].version = c.version
    BY DEF Typed
  <2>3. \A x, y \in connecting' : x.version = y.version => x = y
    BY <2>1, <2>2 DEF OneWorker
  <2>4. \A x \in connecting' : \E y \in connecting : x.version = y.version
    BY <2>1, <2>2
  <2>. QED BY <2>1, <2>3, <2>4 DEF OneWorker, NoFrames, Registered
<1>4. ASSUME NEW c \in connecting, Register(c)
      PROVE  OneWorker'
  <2>1. /\ Unheard' = Unheard /\ UNCHANGED <<version, destroyed, loading, doc, history>>
        /\ connecting' = connecting \ {c}
    BY <1>4, ConnectingUnheard DEF Connecting, Register, RegisterFrame, InitConfig
  <2>2. \A x, y \in connecting' : x.version = y.version => x = y
    BY <2>1 DEF OneWorker
  <2>3. CASE Stale(c)
    BY <1>4, <2>1, <2>2, <2>3 DEF Register, RegisterFrame, InitConfig, OneWorker, NoFrames, Registered
  <2>4. CASE ~Stale(c)
    <3> DEFINE msg == [type |-> "register-frame", worker |-> c.version, snapshot |-> snapshot,
                       missed |-> {f \in Files : snapshot[f] \notin {None, disk[f]}}]
    <3>1. c.version = version /\ worker' = version /\ ~destroyed /\ toDoc' = Append(toDoc, msg)
      BY <1>4, <2>4 DEF Register, RegisterFrame, InitConfig, Stale, Dispatch
    <3>2. msg.worker = version
      BY <3>1
    <3> HIDE DEF msg
    <3>3. \A x \in connecting' : x.version # version
      BY <2>1, <3>1 DEF OneWorker
    <3>4. version # None
      BY DEF Typed, None
    <3>5. CASE history.overtaken \/ history.stray
      BY <2>1, <2>2, <3>5 DEF OneWorker
    <3>6. CASE ~history.overtaken /\ ~history.stray
      <4>1. loading = "none" /\ Unheard = 0 /\ worker = None /\ ~Registered /\ NoFrames
            /\ doc.worker = None
        <5>1. loading # "blank" /\ ~(loading = "ours" \/ Unheard > 0) /\ worker = None
          BY <3>1, <3>6 DEF OneWorker
        <5>2. loading = "none" /\ Unheard = 0
          BY <1>0, <5>1 DEF Typed
        <5>. QED BY <3>1, <3>6, <5>1, <5>2 DEF OneWorker
      <4>2. \A i \in 1 .. Len(toDoc') : toDoc'[i].type = "register-frame" => toDoc'[i].worker = worker'
        <5>1. toDoc \in Seq(ToDoc)
          BY DEF Typed
        <5>. QED BY <3>1, <3>2, <4>1, <5>1 DEF NoFrames
      <4>. QED BY <2>1, <2>2, <3>1, <3>3, <3>4, <4>1, <4>2 DEF OneWorker, Registered
    <3>. QED BY <3>5, <3>6
  <2>. QED BY <2>3, <2>4
<1>5. CASE HearInitialized
  <2>1. Unheard' = Unheard - 1 /\ Unheard > 0 /\ UNCHANGED <<history, doc, toDoc>>
    BY <1>5, HeardUnheard DEF HearInitialized
  <2>2. CASE ~destroyed /\ AcceptBoot
    <3> DEFINE new == [version |-> version + 1, stage |-> "port"]
    <3>1. version' = version + 1 /\ connecting' = connecting \cup {new}
          /\ UNCHANGED <<destroyed, worker, loading>> /\ new.version = version + 1
      BY <2>2 DEF AcceptBoot
    <3> HIDE DEF new
    <3>2. \A x, y \in connecting' : x.version = y.version => x = y
      BY <1>0, <3>1 DEF OneWorker
    <3>. QED BY <1>0, <2>1, <3>1, <3>2 DEF OneWorker, NoFrames, Registered
  <2>3. CASE ~destroyed /\ RefuseBoot
    BY <2>3 DEF RefuseBoot, Destroy, OneWorker
  <2>4. CASE destroyed /\ UNCHANGED <<hostVars, loading>>
    BY <2>4 DEF hostVars, OneWorker
  <2>. QED BY <1>5, <2>2, <2>3, <2>4 DEF HearInitialized
<1>6. CASE CommitNavigation
  <2>1. loading # "none" /\ loading' = "none" /\ UNCHANGED hostVars
        /\ history'.stray = history.stray /\ history'.overtaken = history.overtaken
    BY <1>6 DEF CommitNavigation, Typed
  <2>2. CASE Overlooked
    BY <2>1, <2>2 DEF OneWorker, Overlooked, hostVars
  <2>3. CASE ~Overlooked
    <3>1. loading = "ours" /\ worker = None /\ Unheard = 0 /\ \A c \in connecting : c.version # version
      BY <2>1, <2>3 DEF Overlooked, OneWorker, Typed
    <3>2. Unheard' = 1 /\ doc'.registrations = 0 /\ doc'.worker = None /\ toDoc' = <<>>
      BY <1>0, <1>6, <3>1, CommitUnheard
    <3>3. ~Registered' /\ NoFrames'
      BY <3>2 DEF Registered, NoFrames
    <3>. QED BY <2>1, <3>1, <3>2, <3>3 DEF OneWorker, hostVars
  <2>. QED BY <2>2, <2>3
<1>7. CASE StrayNavigation
  <2>1. history'.stray /\ UNCHANGED connecting
    BY <1>7 DEF StrayNavigation, Typed, hostVars
  <2>. QED BY <2>1 DEF OneWorker
<1>8. CASE Boot
  <2>1. UNCHANGED <<hostVars, loading, toDoc, history>>
    BY <1>8 DEF Boot
  <2>. QED BY <1>8, <2>1, BootUnheardStays DEF OneWorker, NoFrames, Registered, hostVars
<1>9. CASE Registering
  <2>1. UNCHANGED <<version, destroyed, connecting, worker, loading, history>> /\ Unheard' = Unheard
    BY <1>9, RegisteringDoes DEF hostVars
  <2>2. CASE Overlooked \/ loading # "none"
    BY <2>1, <2>2 DEF OneWorker, Overlooked, Typed
  <2>3. CASE ~Overlooked /\ loading = "none"
    <3>1. Head(toDoc) = toDoc[1] /\ 1 \in 1 .. Len(toDoc) /\ Head(toDoc).type = "register-frame"
      BY <1>9, RegisteringDoes DEF Registering
    <3>2. worker # None /\ Head(toDoc).worker = worker
      BY <2>3, <3>1 DEF Overlooked, OneWorker, NoFrames
    <3>3. doc'.worker = worker
      BY <1>9, <2>3, <3>2, RegisteringDoes DEF Overlooked, OneWorker
    <3>4. \A i \in 1 .. Len(toDoc') : toDoc'[i] = toDoc[i + 1] /\ i + 1 \in 1 .. Len(toDoc)
      <4>1. toDoc \in Seq(ToDoc) /\ toDoc # <<>> /\ toDoc' = Tail(toDoc)
        BY <1>9 DEF Registering, Receive, Typed
      <4>. QED BY <4>1
    <3>5. \A i \in 1 .. Len(toDoc') : toDoc'[i].type = "register-frame" => toDoc'[i].worker = worker
      BY <2>3, <3>4 DEF Overlooked, OneWorker
    <3>. QED BY <2>1, <2>3, <3>2, <3>3, <3>5 DEF Overlooked, OneWorker
  <2>. QED BY <2>2, <2>3
<1>. QED BY <1>1, <1>2, <1>3, <1>4, <1>5, <1>6, <1>7, <1>8, <1>9, NextCases DEF Connecting

\* The worker a registered document transpiles in is the live one: a handler of
\* `initialized` that was overtaken while it waited registers nothing and replaces no
\* worker (the versions of runtime/index.ts).
THEOREM WorkerIsLive == Spec => []LiveWorker
<1>1. Init => OneWorker
  <2> SUFFICES ASSUME Init PROVE OneWorker
    OBVIOUS
  <2>3. Unheard = 0
    BY InitUnheard
  <2>4. loading = "ours" /\ worker = None /\ connecting = {}
    BY DEF Init
  <2>. QED BY <2>3, <2>4 DEF OneWorker
<1>2. OneWorker => LiveWorker
  BY DEF OneWorker, LiveWorker
<1>. QED BY <1>1, <1>2, TypeCorrect, StepOneWorker, PTL DEF Spec

-----------------------------------------------------------------------------
(* What a document remembers of files *)

Notice(f) == [type |-> "fs-change", file |-> f]
Coming(f, k) == \E i \in 1 .. Len(toDoc) : i > k /\ toDoc[i] = Notice(f)
Waits(f) == \E i \in 1 .. Len(doc.gated) : doc.gated[i] = Notice(f)
Right(rev, f, missed) == rev \in {None, disk[f]} \/ f \in missed

\* A document that is not registered has no configuration, and gets no further.
Heeds ==
  /\ ~Registered => ~doc.port /\ \A f \in Files : doc.config[f] = None
  /\ doc.stage \in {"loading", "blank"} => ~Registered
  /\ doc.stage \in {"mounting", "setup", "ready"} => Registered

\* A snapshot on its way, taken over, or in the memo is the disk's, or the notice of the
\* change comes behind it.
InSync ==
  ~destroyed => \A f \in Files :
    /\ \A k \in 1 .. Len(toDoc) : toDoc[k].type = "register-frame" =>
         Right(toDoc[k].snapshot[f], f, toDoc[k].missed) \/ Coming(f, k)
    /\ doc.stage # "ready" => Right(doc.config[f], f, doc.missed) \/ Waits(f) \/ Coming(f, 0)
    /\ doc.stage = "ready" => Right(doc.memo[f], f, doc.missed) \/ Coming(f, 0)

\* The step leaves alone what the document knows of files.
SameFiles ==
  /\ doc'.config = doc.config /\ doc'.missed = doc.missed /\ doc'.memo = doc.memo
  /\ doc'.gated = doc.gated /\ doc'.registrations = doc.registrations /\ doc'.port = doc.port

LEMMA MoreMessages ==
  ASSUME Typed,
         HearRequest \/ (\E m \in Mounts : HostMounts(m)) \/ (\E s \in Services : HostPushes(s))
  PROVE  \E msgs \in Seq(ToDoc) : /\ toDoc' = toDoc \o msgs
                                  /\ \A i \in 1 .. Len(msgs) : msgs[i].type # "register-frame"
<1>0. toDoc \in Seq(ToDoc)
  BY DEF Typed
<1>1. CASE toDoc' = toDoc
  <2>1. toDoc' = toDoc \o <<>> /\ <<>> \in Seq(ToDoc) /\ \A i \in 1 .. Len(<<>>) : <<>>[i].type # "register-frame"
    BY <1>0, <1>1
  <2>. QED BY <2>1
<1>2. ASSUME NEW msg, msg.type # "register-frame", Dispatch(msg), Typed'
      PROVE  \/ toDoc' = toDoc
             \/ \E msgs \in Seq(ToDoc) : /\ toDoc' = toDoc \o msgs
                                         /\ \A i \in 1 .. Len(msgs) : msgs[i].type # "register-frame"
  <2>1. CASE toDoc' = toDoc
    BY <2>1
  <2>2. CASE toDoc' = Append(toDoc, msg)
    <3>1. toDoc' \in Seq(ToDoc) /\ Len(toDoc') = Len(toDoc) + 1 /\ toDoc'[Len(toDoc) + 1] = msg
      BY <1>0, <1>2, <2>2 DEF Typed
    <3>2. msg \in ToDoc
      BY <1>0, <3>1
    <3>3. toDoc' = toDoc \o <<msg>> /\ <<msg>> \in Seq(ToDoc)
          /\ \A i \in 1 .. Len(<<msg>>) : <<msg>>[i].type # "register-frame"
      BY <1>0, <1>2, <2>2, <3>2
    <3>. QED BY <3>3
  <2>. QED BY <1>2, <2>1, <2>2 DEF Dispatch
<1>3. CASE HearRequest
  BY <1>1, <1>3, AnswersRegisterNone
<1>4. ASSUME NEW m \in Mounts, HostMounts(m)
      PROVE  toDoc' = toDoc \/ \E msgs \in Seq(ToDoc) : /\ toDoc' = toDoc \o msgs
                                  /\ \A i \in 1 .. Len(msgs) : msgs[i].type # "register-frame"
  <2> DEFINE msg == MountMessage(m)'
  <2>1. Dispatch(msg) /\ msg.type # "register-frame" /\ Typed'
    BY <1>4, HostTyped DEF HostMounts, Dispatch, MountMessage
  <2> HIDE DEF msg
  <2>. QED BY <1>2, <2>1
<1>5. ASSUME NEW s \in Services, HostPushes(s)
      PROVE  toDoc' = toDoc \/ \E msgs \in Seq(ToDoc) : /\ toDoc' = toDoc \o msgs
                                  /\ \A i \in 1 .. Len(msgs) : msgs[i].type # "register-frame"
  <2> DEFINE msg == PushMessage(s)'
  <2>1. Dispatch(msg) /\ msg.type # "register-frame" /\ Typed'
    BY <1>5, HostTyped DEF HostPushes, Dispatch, PushMessage
  <2> HIDE DEF msg
  <2>. QED BY <1>2, <2>1
<1>. QED BY <1>1, <1>3, <1>4, <1>5

LEMMA SyncFrame ==
  ASSUME Typed, InSync, Heeds, ~destroyed' => ~destroyed, UNCHANGED disk, SameFiles,
         doc'.stage = "ready" <=> doc.stage = "ready",
         doc'.stage \in {"loading", "blank"} => doc.stage \in {"loading", "blank"},
         doc'.stage = "mounting" => doc.stage = "mounting" \/ Registered,
         doc'.stage = "setup" => doc.stage \in {"setup", "mounting"},
         NEW msgs \in Seq(ToDoc), toDoc' = toDoc \o msgs,
         \A i \in 1 .. Len(msgs) : msgs[i].type # "register-frame"
  PROVE  InSync' /\ Heeds'
<1>0. toDoc \in Seq(ToDoc)
  BY DEF Typed
<1>1. /\ Len(toDoc') = Len(toDoc) + Len(msgs) /\ Len(toDoc) \in Nat /\ Len(msgs) \in Nat
      /\ \A i \in 1 .. Len(toDoc) : toDoc'[i] = toDoc[i]
      /\ \A i \in Len(toDoc) + 1 .. Len(toDoc') :
           i - Len(toDoc) \in 1 .. Len(msgs) /\ toDoc'[i] = msgs[i - Len(toDoc)]
  BY <1>0
<1>2. \A f \in Files, k \in Nat : Coming(f, k) => Coming(f, k)'
  BY <1>1 DEF Coming, Notice
<1>3. \A k \in 1 .. Len(toDoc') : toDoc'[k].type = "register-frame" =>
        k \in 1 .. Len(toDoc) /\ toDoc'[k] = toDoc[k]
  BY <1>1
<1>4. Registered' = Registered /\ \A f \in Files : Waits(f)' = Waits(f)
  BY DEF SameFiles, Registered, Waits, Notice
<1>5. InSync'
  <2> SUFFICES ASSUME ~destroyed', NEW f \in Files
               PROVE  /\ \A k \in 1 .. Len(toDoc') : toDoc'[k].type = "register-frame" =>
                           Right(toDoc[k].snapshot[f], f, toDoc[k].missed)' \/ Coming(f, k)'
                      /\ doc'.stage # "ready" => Right(doc.config[f], f, doc.missed)' \/ Waits(f)' \/ Coming(f, 0)'
                      /\ doc'.stage = "ready" => Right(doc.memo[f], f, doc.missed)' \/ Coming(f, 0)'
    BY DEF InSync
  <2>2. ASSUME NEW k \in 1 .. Len(toDoc'), toDoc'[k].type = "register-frame"
        PROVE  Right(toDoc[k].snapshot[f], f, toDoc[k].missed)' \/ Coming(f, k)'
    <3>1. k \in 1 .. Len(toDoc) /\ toDoc'[k] = toDoc[k] /\ k \in Nat
      BY <1>1, <1>3, <2>2
    <3>2. Right(toDoc[k].snapshot[f], f, toDoc[k].missed) \/ Coming(f, k)
      BY <2>2, <3>1 DEF InSync
    <3>. QED BY <1>2, <3>1, <3>2 DEF Right
  <2>3. doc'.stage # "ready" => Right(doc.config[f], f, doc.missed)' \/ Waits(f)' \/ Coming(f, 0)'
    BY <1>2, <1>4 DEF InSync, Right, SameFiles
  <2>4. doc'.stage = "ready" => Right(doc.memo[f], f, doc.missed)' \/ Coming(f, 0)'
    BY <1>2 DEF InSync, Right, SameFiles
  <2>. QED BY <2>2, <2>3, <2>4
<1>6. Heeds'
  BY <1>4 DEF Heeds, SameFiles
<1>. QED BY <1>5, <1>6

\* The document takes the first message off its queue.
LEMMA Shifted ==
  ASSUME Typed, Receive
  PROVE  /\ toDoc # <<>> /\ 1 \in 1 .. Len(toDoc) /\ Head(toDoc) = toDoc[1] /\ Head(toDoc) \in ToDoc
         /\ \A k \in 1 .. Len(toDoc') : k + 1 \in 1 .. Len(toDoc) /\ toDoc'[k] = toDoc[k + 1]
         /\ \A f \in Files, k \in Nat : Coming(f, k + 1) => Coming(f, k)'
         /\ \A f \in Files : Coming(f, 0) => Head(toDoc) = Notice(f) \/ Coming(f, 0)'
<1>1. toDoc \in Seq(ToDoc) /\ toDoc # <<>> /\ toDoc' = Tail(toDoc)
  BY DEF Receive, Typed
<1>2. /\ Len(toDoc') = Len(toDoc) - 1 /\ Len(toDoc) \in Nat \ {0} /\ Head(toDoc) = toDoc[1]
      /\ Head(toDoc) \in ToDoc /\ \A k \in 1 .. Len(toDoc') : toDoc'[k] = toDoc[k + 1]
  BY <1>1
<1>3. ASSUME NEW f \in Files, NEW i \in 1 .. Len(toDoc), toDoc[i] = Notice(f), i # 1
      PROVE  \A k \in Nat : k + 1 < i => Coming(f, k)'
  <2>1. i - 1 \in 1 .. Len(toDoc') /\ toDoc'[i - 1] = Notice(f)
    BY <1>2, <1>3
  <2>2. \A k \in Nat : k + 1 < i => i - 1 > k
    OBVIOUS
  <2>. QED BY <2>1, <2>2 DEF Coming, Notice
<1>4. \A f \in Files, k \in Nat : Coming(f, k + 1) => Coming(f, k)'
  <2> SUFFICES ASSUME NEW f \in Files, NEW k \in Nat, Coming(f, k + 1)
               PROVE  Coming(f, k)'
    OBVIOUS
  <2>1. PICK i \in 1 .. Len(toDoc) : i > k + 1 /\ toDoc[i] = Notice(f)
    BY DEF Coming
  <2>2. i # 1 /\ k + 1 < i
    BY <2>1
  <2>. QED BY <1>3, <2>1, <2>2
<1>5. \A f \in Files : Coming(f, 0) => Head(toDoc) = Notice(f) \/ Coming(f, 0)'
  <2> SUFFICES ASSUME NEW f \in Files, Coming(f, 0), Head(toDoc) # Notice(f)
               PROVE  Coming(f, 0)'
    OBVIOUS
  <2>1. PICK i \in 1 .. Len(toDoc) : toDoc[i] = Notice(f)
    BY DEF Coming
  <2>2. i # 1 /\ 0 + 1 < i /\ 0 \in Nat
    BY <1>2, <2>1
  <2>. QED BY <1>3, <2>1, <2>2
<1>6. \A k \in 1 .. Len(toDoc') : k + 1 \in 1 .. Len(toDoc)
  BY <1>2
<1>. QED BY <1>1, <1>2, <1>4, <1>5, <1>6

\* What a registered document makes of a message, for one file.
LEMMA HandleFile ==
  ASSUME Typed, NEW msg \in ToDoc, msg.type # "register-frame", NEW f \in Files,
         doc' = Handle(doc, msg)
  PROVE  /\ doc.stage = "ready" =>
              doc'.memo[f] = IF msg = Notice(f) THEN None ELSE doc.memo[f]
         /\ doc.stage # "ready" => Waits(f)' \/ (~Waits(f) /\ msg # Notice(f))
         /\ doc'.port = doc.port
<1>0. doc \in Document /\ doc.gated \in Seq(Gated)
  BY DEF Typed, Document
<1>1. CASE msg.type = "fs-change"
  <2>1. msg \in Change /\ msg.file \in Files /\ msg = Notice(msg.file)
    BY <1>1 DEF ToDoc, Registration, Gated, Change, MountAdd, MountRemove, Push, RepoMount, Notice
  <2>2. msg = Notice(f) <=> msg.file = f
    BY <2>1 DEF Notice
  <2>3. CASE doc.stage = "ready"
    <3>1. doc' = Forget(doc, msg.file)
      BY <1>1, <2>3 DEF Handle, HandleRepoMount, Apply
    <3>2. doc'.memo = [doc.memo EXCEPT ![msg.file] = None] /\ doc'.port = doc.port
      BY <1>0, <3>1 DEF Forget, Document
    <3>3. doc.memo \in [Files -> Nat]
      BY <1>0 DEF Document
    <3>. QED BY <2>1, <2>2, <2>3, <3>2, <3>3
  <2>4. CASE doc.stage # "ready"
    <3>1. doc'.gated = Append(doc.gated, msg) /\ doc'.port = doc.port
      BY <1>0, <1>1, <2>4 DEF Handle, HandleRepoMount, Document
    <3>2. \A i \in 1 .. Len(doc.gated) : i \in 1 .. Len(doc'.gated) /\ doc'.gated[i] = doc.gated[i]
      BY <1>0, <3>1
    <3>3. Len(doc'.gated) \in 1 .. Len(doc'.gated) /\ doc'.gated[Len(doc'.gated)] = msg
      BY <1>0, <3>1
    <3>4. Waits(f) => Waits(f)'
      BY <3>2 DEF Waits, Notice
    <3>5. msg = Notice(f) => Waits(f)'
      BY <3>3 DEF Waits, Notice
    <3>. QED BY <2>4, <3>1, <3>4, <3>5
  <2>. QED BY <2>3, <2>4
<1>2. CASE msg.type \in {"mount-add", "mount-remove"}
  <2>0. msg # Notice(f)
    BY <1>2 DEF Notice
  <2>1. CASE doc.stage = "ready"
    <3>1. doc' = StartMount(doc, msg) \/ doc' = StartRemove(doc, msg.mount)
      BY <1>2, <2>1 DEF Handle, HandleRepoMount, Apply
    <3>2. doc'.memo = doc.memo /\ doc'.port = doc.port
      BY <1>0, <3>1 DEF StartMount, StartRemove, Document
    <3>. QED BY <2>0, <2>1, <3>2
  <2>2. CASE doc.stage # "ready"
    <3>1. doc'.gated = Append(doc.gated, msg) /\ doc'.port = doc.port
      BY <1>0, <1>2, <2>2 DEF Handle, HandleRepoMount, Document
    <3>2. \A i \in 1 .. Len(doc.gated) : i \in 1 .. Len(doc'.gated) /\ doc'.gated[i] = doc.gated[i]
      BY <1>0, <3>1
    <3>3. Waits(f) => Waits(f)'
      BY <3>2 DEF Waits, Notice
    <3>. QED BY <2>0, <2>2, <3>1, <3>3
  <2>. QED BY <2>1, <2>2
<1>3. CASE msg.type \notin {"fs-change", "mount-add", "mount-remove"}
  <2>0. msg # Notice(f)
    BY <1>3 DEF Notice
  <2>1. doc' \in {[doc EXCEPT !.known[msg.service] = msg.value],
                  [doc EXCEPT !.repo = @ \/ doc.stage \in {"setup", "ready"}]}
    BY <1>3 DEF Handle, HandleRepoMount
  <2>2. doc'.memo = doc.memo /\ doc'.gated = doc.gated /\ doc'.port = doc.port
    BY <1>0, <2>1 DEF Document
  <2>. QED BY <2>0, <2>2 DEF Waits, Notice
<1>. QED BY <1>1, <1>2, <1>3

LEMMA ReceiveInSync ==
  ASSUME Typed, InSync, Heeds, Receive
  PROVE  InSync' /\ Heeds'
<1> DEFINE msg == Head(toDoc)
<1>0. doc \in Document /\ msg \in ToDoc /\ disk' = disk /\ destroyed' = destroyed
      /\ doc.registrations \in Nat
  BY Shifted DEF Typed, Receive, hostVars, worldVars, Document
<1>1. ASSUME ~destroyed', NEW f \in Files, NEW k \in 1 .. Len(toDoc'), toDoc'[k].type = "register-frame"
      PROVE  Right(toDoc[k].snapshot[f], f, toDoc[k].missed)' \/ Coming(f, k)'
  <2>1. k + 1 \in 1 .. Len(toDoc) /\ toDoc'[k] = toDoc[k + 1] /\ k \in Nat
    BY Shifted
  <2>2. Right(toDoc[k + 1].snapshot[f], f, toDoc[k + 1].missed) \/ Coming(f, k + 1)
    BY <1>0, <1>1, <2>1 DEF InSync
  <2>3. Coming(f, k + 1) => Coming(f, k)'
    BY <2>1, Shifted
  <2>. QED BY <1>0, <2>1, <2>2, <2>3 DEF Right
<1>2. CASE doc' = doc /\ ~Registered
  <2>1. doc.stage # "ready" /\ \A f \in Files : doc.config[f] = None
    BY <1>2 DEF Heeds
  <2>2. InSync'
    BY <1>1, <1>2, <2>1 DEF InSync, Right
  <2>. QED BY <1>2, <2>2 DEF Heeds, Registered
<1>3. CASE Registering
  <2>1. /\ doc'.registrations = doc.registrations + 1 /\ doc'.stage = doc.stage
        /\ doc'.config = msg.snapshot /\ doc'.missed = doc.missed \cup msg.missed
        /\ doc'.memo = doc.memo /\ msg = toDoc[1] /\ 1 \in 1 .. Len(toDoc)
        /\ doc.stage \notin {"loading", "blank"} /\ msg.type = "register-frame"
    BY <1>3, RegisteringDoes DEF Registering
  <2>2. Registered'
    BY <1>0, <2>1 DEF Registered
  <2>3. ASSUME ~destroyed', NEW f \in Files
        PROVE  /\ Right(doc.config[f], f, doc.missed)' \/ Coming(f, 0)'
               /\ doc'.stage = "ready" => Right(doc.memo[f], f, doc.missed)' \/ Coming(f, 0)'
    <3>1. Right(msg.snapshot[f], f, msg.missed) \/ Coming(f, 1)
      BY <1>0, <2>1, <2>3 DEF InSync
    <3>2. Coming(f, 1) => Coming(f, 0)'
      <4>1. 0 \in Nat /\ 0 + 1 = 1 /\ (Coming(f, 0 + 1) => Coming(f, 0)')
        BY Shifted
      <4>. QED BY <4>1
    <3>3. msg # Notice(f)
      BY <2>1 DEF Notice
    <3>4. Coming(f, 0) => Coming(f, 0)'
      BY <3>3, Shifted
    <3>5. doc.stage = "ready" => Right(doc.memo[f], f, doc.missed) \/ Coming(f, 0)
      BY <1>0, <2>3 DEF InSync
    <3>. QED BY <1>0, <2>1, <3>1, <3>2, <3>4, <3>5 DEF Right
  <2>4. InSync'
    BY <1>1, <2>3 DEF InSync
  <2>. QED BY <2>1, <2>2, <2>4 DEF Heeds
<1>4. CASE doc' = Handle(doc, msg) /\ msg.type # "register-frame" /\ Registered
  <2>1. doc'.registrations = doc.registrations /\ doc'.stage = doc.stage
        /\ doc'.config = doc.config /\ doc'.missed = doc.missed
    BY <1>0, <1>4, HandleKeeps
  <2>2. ASSUME NEW f \in Files
        PROVE  /\ doc.stage = "ready" =>
                    doc'.memo[f] = IF msg = Notice(f) THEN None ELSE doc.memo[f]
               /\ doc.stage # "ready" => Waits(f)' \/ (~Waits(f) /\ msg # Notice(f))
               /\ doc'.port = doc.port
    BY <1>0, <1>4, HandleFile
  <2>3. ASSUME ~destroyed', NEW f \in Files
        PROVE  /\ doc'.stage # "ready" => Right(doc.config[f], f, doc.missed)' \/ Waits(f)' \/ Coming(f, 0)'
               /\ doc'.stage = "ready" => Right(doc.memo[f], f, doc.missed)' \/ Coming(f, 0)'
    <3>1. Coming(f, 0) => msg = Notice(f) \/ Coming(f, 0)'
      BY Shifted
    <3>2. CASE doc.stage = "ready"
      BY <1>0, <2>1, <2>2, <2>3, <3>1, <3>2 DEF InSync, Right
    <3>3. CASE doc.stage # "ready"
      BY <1>0, <2>1, <2>2, <2>3, <3>1, <3>3 DEF InSync, Right
    <3>. QED BY <3>2, <3>3
  <2>4. InSync'
    BY <1>1, <2>3 DEF InSync
  <2>5. Registered'
    BY <1>4, <2>1 DEF Registered
  <2>6. doc'.stage \notin {"loading", "blank"}
    BY <1>4, <2>1 DEF Heeds
  <2>. QED BY <2>4, <2>5, <2>6 DEF Heeds
<1>5. \/ doc.stage \in {"loading", "blank"} /\ doc' = doc
      \/ ~Registered /\ msg.type # "register-frame" /\ doc' = doc
      \/ Registering
      \/ doc' = Handle(doc, msg) /\ msg.type # "register-frame" /\ Registered
  BY DEF Receive, Registering
<1>. QED BY <1>2, <1>3, <1>4, <1>5 DEF Heeds

\* The steps that leave files alone: the host's before they send a registration, and most
\* of the document's.
LEMMA OtherInSync ==
  ASSUME Typed, InSync, Heeds,
         \/ Navigating \/ TakeSnapshot \/ HearInitialized \/ HearRequest \/ HearRequestRefresh
         \/ (\E c \in connecting : ConnectFails(c) \/ PortConnected(c) \/ (Register(c) /\ Stale(c)))
         \/ (\E m \in Mounts : HostMounts(m)) \/ (\E s \in Services : HostPushes(s))
         \/ Boot \/ PortArrives \/ MountApp \/ RequestRefresh
         \/ (\E a \in doc.adding : MountAnswers(a) \/ MountTimesOut(a) \/ MountPlaced(a))
         \/ (\E r \in doc.removing : MountTaken(r) \/ MountForgotten(r))
         \/ UNCHANGED vars
  PROVE  InSync' /\ Heeds'
<1>0. doc \in Document /\ toDoc \in Seq(ToDoc)
  BY DEF Typed
<1>1. toDoc = toDoc \o <<>> /\ <<>> \in Seq(ToDoc) /\ \A i \in 1 .. Len(<<>>) : <<>>[i].type # "register-frame"
  BY <1>0
<1>2. ASSUME UNCHANGED <<disk, doc, toDoc>>, ~destroyed' => ~destroyed
      PROVE  InSync' /\ Heeds'
  <2>1. SameFiles /\ doc' = doc /\ toDoc' = toDoc \o <<>>
    BY <1>1, <1>2 DEF SameFiles
  <2>. QED BY <1>1, <1>2, <2>1, SyncFrame
<1>3. CASE HearRequest \/ (\E m \in Mounts : HostMounts(m)) \/ (\E s \in Services : HostPushes(s))
  <2>1. UNCHANGED <<disk, doc, destroyed>>
    BY <1>3 DEF HearRequest, OnChannel, HostMounts, HostPushes, hostVars, worldVars
  <2>2. SameFiles /\ doc' = doc
    BY <2>1 DEF SameFiles
  <2>. QED BY <1>3, <2>1, <2>2, MoreMessages, SyncFrame
<1>4. ASSUME UNCHANGED <<disk, toDoc, destroyed>>, SameFiles,
             \/ doc'.stage = doc.stage
             \/ doc.stage = "loading" /\ doc'.stage = "waiting"
             \/ doc.stage = "waiting" /\ doc'.stage = "mounting" /\ doc.port
             \/ doc.stage = "mounting" /\ doc'.stage = "setup"
      PROVE  InSync' /\ Heeds'
  <2>1. doc.port => Registered
    BY DEF Heeds
  <2>2. toDoc' = toDoc \o <<>>
    BY <1>1, <1>4
  <2>. QED BY <1>1, <1>4, <2>1, <2>2, SyncFrame
<1>5. CASE Boot \/ PortArrives \/ MountApp \/ RequestRefresh
  <2>1. UNCHANGED <<disk, toDoc, destroyed>>
    BY <1>5 DEF Boot, PortArrives, MountApp, RequestRefresh, hostVars, worldVars
  <2>2. CASE Boot
    BY <1>0, <1>4, <2>1, <2>2 DEF Boot, Document, SameFiles
  <2>3. CASE PortArrives
    BY <1>0, <1>4, <2>1, <2>3 DEF PortArrives, Document, SameFiles
  <2>4. CASE MountApp
    BY <1>0, <1>4, <2>1, <2>4 DEF MountApp, Document, SameFiles
  <2>5. CASE RequestRefresh
    BY <1>0, <1>4, <2>1, <2>5 DEF RequestRefresh, Document, SameFiles
  <2>. QED BY <1>5, <2>2, <2>3, <2>4, <2>5
<1>6. ASSUME NEW a \in doc.adding, MountAnswers(a) \/ MountTimesOut(a) \/ MountPlaced(a)
      PROVE  InSync' /\ Heeds'
  <2>1. UNCHANGED <<disk, toDoc, destroyed>>
    BY <1>6 DEF MountAnswers, MountTimesOut, MountPlaced, hostVars, worldVars
  <2>2. SameFiles /\ doc'.stage = doc.stage
    <3>1. CASE MountAnswers(a)
      BY <1>0, <3>1 DEF MountAnswers, Document, SameFiles
    <3>2. CASE MountTimesOut(a)
      BY <1>0, <3>2 DEF MountTimesOut, Document, SameFiles
    <3>3. CASE MountPlaced(a)
      BY <1>0, <3>3 DEF MountPlaced, SetMounts, Document, SameFiles
    <3>. QED BY <1>6, <3>1, <3>2, <3>3
  <2>. QED BY <1>4, <2>1, <2>2
<1>7. ASSUME NEW r \in doc.removing, MountTaken(r) \/ MountForgotten(r)
      PROVE  InSync' /\ Heeds'
  <2>1. UNCHANGED <<disk, toDoc, destroyed>>
    BY <1>7 DEF MountTaken, MountForgotten, hostVars, worldVars
  <2>2. SameFiles /\ doc'.stage = doc.stage
    <3>1. CASE MountTaken(r)
      BY <1>0, <3>1 DEF MountTaken, Document, SameFiles
    <3>2. CASE MountForgotten(r)
      BY <1>0, <3>2 DEF MountForgotten, SetMounts, Document, SameFiles
    <3>. QED BY <1>7, <3>1, <3>2
  <2>. QED BY <1>4, <2>1, <2>2
<1>8. CASE Navigating \/ TakeSnapshot \/ HearRequestRefresh \/ UNCHANGED vars
  BY <1>2, <1>8 DEF Navigating, HostRefresh, TakeSnapshot, HearRequestRefresh, OnChannel, vars, hostVars, worldVars
<1>9. CASE HearInitialized
  BY <1>2, <1>9 DEF HearInitialized, AcceptBoot, RefuseBoot, Destroy, hostVars, worldVars
<1>10. ASSUME NEW c \in connecting, ConnectFails(c) \/ PortConnected(c) \/ (Register(c) /\ Stale(c))
       PROVE  InSync' /\ Heeds'
  BY <1>2, <1>10 DEF ConnectFails, PortConnected, Register, RegisterFrame, InitConfig, worldVars
<1>. QED BY <1>3, <1>5, <1>6, <1>7, <1>8, <1>9, <1>10

\* A change, and the registration the host posts.
LEMMA PostInSync ==
  ASSUME Typed, InSync, Heeds,
         \/ \E f \in Files : Edit(f)
         \/ \E c \in connecting : Register(c) /\ ~Stale(c)
  PROVE  InSync' /\ Heeds'
<1>0. toDoc \in Seq(ToDoc) /\ disk \in [Files -> Nat] /\ snapshot \in [Files -> Nat]
  BY DEF Typed
<1>1. ASSUME NEW msg, toDoc' = Append(toDoc, msg)
      PROVE  /\ Len(toDoc') = Len(toDoc) + 1 /\ Len(toDoc) \in Nat /\ toDoc'[Len(toDoc) + 1] = msg
             /\ \A i \in 1 .. Len(toDoc) : toDoc'[i] = toDoc[i] /\ i \in 1 .. Len(toDoc')
             /\ \A g \in Files, k \in Nat : Coming(g, k) => Coming(g, k)'
             /\ \A g \in Files, k \in 0 .. Len(toDoc) : msg = Notice(g) => Coming(g, k)'
  <2>1. /\ Len(toDoc') = Len(toDoc) + 1 /\ Len(toDoc) \in Nat /\ toDoc'[Len(toDoc) + 1] = msg
        /\ \A i \in 1 .. Len(toDoc) : toDoc'[i] = toDoc[i] /\ i \in 1 .. Len(toDoc')
    BY <1>0, <1>1
  <2>2. \A g \in Files, k \in Nat : Coming(g, k) => Coming(g, k)'
    BY <2>1 DEF Coming, Notice
  <2>3. \A g \in Files, k \in 0 .. Len(toDoc) : msg = Notice(g) => Coming(g, k)'
    <3>1. Len(toDoc) + 1 \in 1 .. Len(toDoc') /\ \A k \in 0 .. Len(toDoc) : Len(toDoc) + 1 > k
      BY <2>1
    <3>. QED BY <2>1, <3>1 DEF Coming, Notice
  <2>. QED BY <2>1, <2>2, <2>3
<1>2. ASSUME NEW f \in Files, Edit(f)
      PROVE  InSync' /\ Heeds'
  <2>1. UNCHANGED <<doc, destroyed>> /\ \A g \in Files : g # f => disk'[g] = disk[g]
    BY <1>0, <1>2 DEF Edit, hostVars
  <2>2. ~destroyed => toDoc' = Append(toDoc, Notice(f))
    BY <1>2 DEF Edit, Dispatch, Notice
  <2>3. InSync'
    <3> SUFFICES ASSUME ~destroyed', NEW g \in Files
                 PROVE  /\ \A k \in 1 .. Len(toDoc') : toDoc'[k].type = "register-frame" =>
                             Right(toDoc[k].snapshot[g], g, toDoc[k].missed)' \/ Coming(g, k)'
                        /\ doc'.stage # "ready" => Right(doc.config[g], g, doc.missed)' \/ Waits(g)' \/ Coming(g, 0)'
                        /\ doc'.stage = "ready" => Right(doc.memo[g], g, doc.missed)' \/ Coming(g, 0)'
      BY DEF InSync
    <3>1. toDoc' = Append(toDoc, Notice(f)) /\ ~destroyed
      BY <2>1, <2>2
    <3>2. \A k \in 1 .. Len(toDoc') : toDoc'[k].type = "register-frame" =>
            k \in 1 .. Len(toDoc) /\ k \in Nat /\ toDoc'[k] = toDoc[k]
      <4>1. Notice(f).type # "register-frame"
        BY DEF Notice
      <4>. QED BY <1>0, <3>1, <4>1
    <3>3. CASE g = f
      <4>1. \A k \in 0 .. Len(toDoc) : Coming(g, k)'
        BY <1>1, <3>1, <3>3
      <4>2. 0 \in 0 .. Len(toDoc) /\ \A k \in 1 .. Len(toDoc) : k \in 0 .. Len(toDoc)
        BY <1>0
      <4>. QED BY <3>2, <4>1, <4>2
    <3>4. CASE g # f
      <4>1. \A k \in Nat : Coming(g, k) => Coming(g, k)'
        BY <1>1, <3>1
      <4>2. disk'[g] = disk[g] /\ (Waits(g) <=> Waits(g)')
        BY <2>1, <3>4 DEF Waits, Notice
      <4>. QED BY <2>1, <3>1, <3>2, <4>1, <4>2 DEF InSync, Right
    <3>. QED BY <3>3, <3>4
  <2>. QED BY <2>1, <2>3 DEF Heeds, Registered
<1>3. ASSUME NEW c \in connecting, Register(c), ~Stale(c)
      PROVE  InSync' /\ Heeds'
  <2> DEFINE msg == [type |-> "register-frame", worker |-> c.version, snapshot |-> snapshot,
                     missed |-> {f \in Files : snapshot[f] \notin {None, disk[f]}}]
  <2>1. UNCHANGED <<doc, disk, destroyed>> /\ toDoc' = Append(toDoc, msg)
    BY <1>3 DEF Register, RegisterFrame, InitConfig, Dispatch, Stale, worldVars
  <2>2. \A f \in Files : msg.snapshot[f] \in {None, disk[f]} \/ f \in msg.missed
    OBVIOUS
  <2> HIDE DEF msg
  <2>3. InSync'
    <3> SUFFICES ASSUME ~destroyed', NEW g \in Files
                 PROVE  /\ \A k \in 1 .. Len(toDoc') : toDoc'[k].type = "register-frame" =>
                             Right(toDoc[k].snapshot[g], g, toDoc[k].missed)' \/ Coming(g, k)'
                        /\ doc'.stage # "ready" => Right(doc.config[g], g, doc.missed)' \/ Waits(g)' \/ Coming(g, 0)'
                        /\ doc'.stage = "ready" => Right(doc.memo[g], g, doc.missed)' \/ Coming(g, 0)'
      BY DEF InSync
    <3>1. \A k \in Nat : Coming(g, k) => Coming(g, k)'
      BY <1>1, <2>1
    <3>2. Waits(g) <=> Waits(g)'
      BY <2>1 DEF Waits, Notice
    <3>3. ASSUME NEW k \in 1 .. Len(toDoc'), toDoc'[k].type = "register-frame"
          PROVE  Right(toDoc[k].snapshot[g], g, toDoc[k].missed)' \/ Coming(g, k)'
      <4>1. CASE k \in 1 .. Len(toDoc)
        <5>1. toDoc'[k] = toDoc[k] /\ k \in Nat
          BY <1>0, <2>1, <4>1
        <5>. QED BY <2>1, <3>1, <3>3, <4>1, <5>1 DEF InSync, Right
      <4>2. CASE k \notin 1 .. Len(toDoc)
        <5>1. toDoc'[k] = msg
          BY <1>0, <2>1, <4>2
        <5>. QED BY <2>1, <2>2, <5>1 DEF Right
      <4>. QED BY <4>1, <4>2
    <3>. QED BY <2>1, <3>1, <3>2, <3>3 DEF InSync, Right
  <2>. QED BY <2>1, <2>3 DEF Heeds, Registered
<1>. QED BY <1>2, <1>3

\* The memo is warmed, read, or gone with its document.
LEMMA MemoryInSync ==
  ASSUME Typed, InSync, Heeds,
         \/ BecomeReady \/ (\E f \in Files : Read(f)) \/ CommitNavigation \/ StrayNavigation
  PROVE  InSync' /\ Heeds'
<1>0. doc \in Document /\ toDoc \in Seq(ToDoc) /\ doc.memo \in [Files -> Nat]
      /\ doc.config \in [Files -> Nat] /\ doc.gated \in Seq(Gated)
  BY DEF Typed, Document
<1>1. ASSUME UNCHANGED <<disk, toDoc, destroyed>>, doc.stage \in {"setup", "ready"}, doc'.stage = "ready",
             doc'.missed = doc.missed, doc'.registrations = doc.registrations,
             \A f \in Files : ~destroyed => Right(doc.memo[f], f, doc.missed)' \/ Coming(f, 0)
      PROVE  InSync' /\ Heeds'
  <2>1. Registered /\ Registered'
    BY <1>1 DEF Heeds, Registered
  <2>2. \A f \in Files, k \in Nat : Coming(f, k) <=> Coming(f, k)'
    BY <1>1 DEF Coming, Notice
  <2>3. InSync'
    <3> SUFFICES ASSUME ~destroyed', NEW f \in Files
                 PROVE  /\ \A k \in 1 .. Len(toDoc') : toDoc'[k].type = "register-frame" =>
                             Right(toDoc[k].snapshot[f], f, toDoc[k].missed)' \/ Coming(f, k)'
                        /\ Right(doc.memo[f], f, doc.missed)' \/ Coming(f, 0)'
      BY <1>1 DEF InSync
    <3>1. ASSUME NEW k \in 1 .. Len(toDoc'), toDoc'[k].type = "register-frame"
          PROVE  Right(toDoc[k].snapshot[f], f, toDoc[k].missed)' \/ Coming(f, k)'
      <4>1. k \in Nat
        OBVIOUS
      <4>. QED BY <1>1, <2>2, <3>1, <4>1 DEF InSync, Right
    <3>. QED BY <1>1, <2>2, <3>1
  <2>. QED BY <1>1, <2>1, <2>3 DEF Heeds
<1>2. CASE BecomeReady
  <2> DEFINE d == [doc EXCEPT !.stage = "ready", !.memo = doc.config]
  <2>1. d \in Document /\ d.stage = "ready" /\ d.memo = doc.config /\ d.missed = doc.missed
        /\ d.gated = doc.gated /\ d.registrations = doc.registrations
    BY <1>0 DEF Document, Stage
  <2>2. doc' = ApplyGated(d) /\ doc.stage = "setup" /\ UNCHANGED <<disk, toDoc, destroyed>>
    BY <1>2 DEF BecomeReady, hostVars, worldVars
  <2> HIDE DEF d
  <2>3. /\ doc'.registrations = doc.registrations /\ doc'.stage = "ready" /\ doc'.missed = doc.missed
        /\ doc'.memo = [f \in Files |->
             IF \E msg \in Range(doc.gated) : msg.type = "fs-change" /\ msg.file = f
               THEN None ELSE doc.config[f]]
    BY <2>1, <2>2, ApplyGatedKeeps
  <2>4. ASSUME NEW f \in Files, ~destroyed
        PROVE  Right(doc.memo[f], f, doc.missed)' \/ Coming(f, 0)
    <3>1. Right(doc.config[f], f, doc.missed) \/ Waits(f) \/ Coming(f, 0)
      BY <2>2, <2>4 DEF InSync
    <3>2. Waits(f) => \E msg \in Range(doc.gated) : msg.type = "fs-change" /\ msg.file = f
      <4>1. \A i \in 1 .. Len(doc.gated) : doc.gated[i] \in Range(doc.gated)
        BY <1>0 DEF Range
      <4>2. Notice(f).type = "fs-change" /\ Notice(f).file = f
        BY DEF Notice
      <4>. QED BY <4>1, <4>2 DEF Waits
    <3>3. doc'.memo[f] \in {None, doc.config[f]} /\ (Waits(f) => doc'.memo[f] = None)
      BY <2>3, <3>2
    <3>. QED BY <2>2, <2>3, <3>1, <3>3 DEF Right
  <2>. QED BY <1>1, <2>2, <2>3, <2>4
<1>3. ASSUME NEW f \in Files, Read(f)
      PROVE  InSync' /\ Heeds'
  <2>1. UNCHANGED <<disk, toDoc, destroyed>> /\ doc.stage = "ready"
        /\ doc' = [doc EXCEPT !.memo[f] = disk[f]]
    BY <1>3 DEF Read, hostVars, worldVars
  <2>2. /\ doc'.stage = "ready" /\ doc'.missed = doc.missed /\ doc'.registrations = doc.registrations
        /\ \A g \in Files : doc'.memo[g] = IF g = f THEN disk[f] ELSE doc.memo[g]
    BY <1>0, <2>1 DEF Document
  <2>3. \A g \in Files : ~destroyed => Right(doc.memo[g], g, doc.missed)' \/ Coming(g, 0)
    BY <2>1, <2>2 DEF InSync, Right
  <2>. QED BY <1>1, <2>1, <2>2, <2>3
<1>4. CASE CommitNavigation \/ StrayNavigation
  <2>1. \E stage \in {"loading", "blank"} : doc' = NewDocument(doc.id + 1, stage)
    BY <1>4 DEF CommitNavigation, StrayNavigation
  <2>2. toDoc' = <<>>
    BY <1>4 DEF CommitNavigation, StrayNavigation
  <2>3. /\ doc'.stage \in {"loading", "blank"} /\ doc'.registrations = 0 /\ doc'.port = FALSE
        /\ \A f \in Files : doc'.config[f] = None
    BY <2>1 DEF NewDocument
  <2>4. ~Registered'
    BY <2>3 DEF Registered
  <2>5. 1 .. Len(toDoc') = {}
    BY <2>2
  <2>. QED BY <2>3, <2>4, <2>5 DEF InSync, Heeds, Right
<1>. QED BY <1>2, <1>3, <1>4

LEMMA StepInSync ==
  ASSUME Typed, InSync, Heeds, [Next]_vars
  PROVE  InSync' /\ Heeds'
BY ReceiveInSync, OtherInSync, PostInSync, MemoryInSync DEF Next, Environment, System, Navigating

LEMMA InitInSync == Init => InSync /\ Heeds
<1> SUFFICES ASSUME Init PROVE InSync /\ Heeds
  OBVIOUS
<1>1. /\ doc.stage = "blank" /\ doc.registrations = 0 /\ doc.port = FALSE
      /\ \A f \in Files : doc.config[f] = None
  BY DEF Init, NewDocument
<1>2. 1 .. Len(toDoc) = {}
  BY DEF Init
<1>3. ~Registered
  BY <1>1 DEF Registered
<1>. QED BY <1>1, <1>2, <1>3 DEF InSync, Heeds, Right

\* Whatever a document remembers of a file is what the disk has, or the notice of the change
\* is on its way, unless the host's snapshot had changed before it was posted: hydration
\* undoes no invalidation (CachedFS.hydrate, SandpackInstance.bootstrap).
THEOREM MemoStaysInSync == Spec => []MemoInSync
<1>1. Init => InSync /\ Heeds
  BY InitInSync
<1>2. Typed /\ InSync => MemoInSync
  <2> SUFFICES ASSUME Typed, InSync, doc.stage = "ready", ~destroyed, NEW f \in Files
               PROVE  \/ doc.memo[f] \in {None, disk[f]} \cup (IF f \in doc.missed THEN Nat ELSE {})
                      \/ \E i \in 1..Len(toDoc) : toDoc[i] = [type |-> "fs-change", file |-> f]
    BY DEF MemoInSync
  <2>1. Right(doc.memo[f], f, doc.missed) \/ Coming(f, 0)
    BY DEF InSync
  <2>2. doc.memo[f] \in Nat
    BY DEF Typed, Document
  <2>. QED BY <2>1, <2>2 DEF Right, Coming, Notice
<1>. QED BY <1>1, <1>2, TypeCorrect, StepInSync, PTL DEF Spec

-----------------------------------------------------------------------------
(* Queues of messages about a thing *)

\* The last message of the queue that is about the thing is this one.
EndsIn(q, about, msg) ==
  \E k \in 1 .. Len(q) : q[k] = msg /\ \A i \in 1 .. Len(q) : i >= k /\ q[i] \in about => q[i] = msg
Silent(q, about) == \A i \in 1 .. Len(q) : q[i] \notin about
Posted(q, msg) == \E i \in 1 .. Len(q) : q[i] = msg

LEMMA Extended ==
  ASSUME NEW T, NEW q \in Seq(T), NEW r \in Seq(T), NEW about, NEW msg,
         \A i \in 1 .. Len(r) : r[i] \in about => r[i] = msg
  PROVE  /\ EndsIn(q, about, msg) => EndsIn(q \o r, about, msg)
         /\ Posted(r, msg) => EndsIn(q \o r, about, msg)
         /\ Silent(q, about) => Silent(q \o r, about) \/ EndsIn(q \o r, about, msg)
<1> DEFINE s == q \o r
<1>1. /\ Len(s) = Len(q) + Len(r) /\ Len(q) \in Nat /\ Len(r) \in Nat
      /\ \A i \in 1 .. Len(q) : i \in 1 .. Len(s) /\ s[i] = q[i]
      /\ \A i \in 1 .. Len(s) : i \notin 1 .. Len(q) =>
           i - Len(q) \in 1 .. Len(r) /\ s[i] = r[i - Len(q)]
      /\ \A j \in 1 .. Len(r) : j + Len(q) \in 1 .. Len(s) /\ s[j + Len(q)] = r[j]
  OBVIOUS
<1> HIDE DEF s
<1>2. \A i \in 1 .. Len(s) : i \notin 1 .. Len(q) /\ s[i] \in about => s[i] = msg
  BY <1>1
<1>3. ASSUME EndsIn(q, about, msg)
      PROVE  EndsIn(s, about, msg)
  <2>1. PICK k \in 1 .. Len(q) :
          q[k] = msg /\ \A i \in 1 .. Len(q) : i >= k /\ q[i] \in about => q[i] = msg
    BY <1>3 DEF EndsIn
  <2>2. \A i \in 1 .. Len(s) : i >= k /\ s[i] \in about => s[i] = msg
    BY <1>1, <1>2, <2>1
  <2>. QED BY <1>1, <2>1, <2>2 DEF EndsIn
<1>4. ASSUME Posted(r, msg)
      PROVE  EndsIn(s, about, msg)
  <2>1. PICK j \in 1 .. Len(r) : r[j] = msg
    BY <1>4 DEF Posted
  <2>2. j + Len(q) \in 1 .. Len(s) /\ s[j + Len(q)] = msg
    BY <1>1, <2>1
  <2>3. \A i \in 1 .. Len(s) : i >= j + Len(q) => i \notin 1 .. Len(q)
    BY <1>1
  <2>. QED BY <1>2, <2>2, <2>3 DEF EndsIn
<1>5. ASSUME Silent(q, about), ~Silent(s, about)
      PROVE  Posted(r, msg)
  <2>1. PICK i \in 1 .. Len(s) : s[i] \in about
    BY <1>5 DEF Silent
  <2>2. i \notin 1 .. Len(q)
    BY <1>1, <1>5, <2>1 DEF Silent
  <2>. QED BY <1>1, <1>2, <2>1, <2>2 DEF Posted
<1>. QED BY <1>3, <1>4, <1>5 DEF s

LEMMA Shortened ==
  ASSUME NEW T, NEW q \in Seq(T), q # <<>>, NEW about, NEW msg
  PROVE  /\ EndsIn(q, about, msg) =>
              EndsIn(Tail(q), about, msg) \/ (Head(q) = msg /\ Silent(Tail(q), about))
         /\ Silent(q, about) => Silent(Tail(q), about) /\ Head(q) \notin about
         /\ Posted(q, msg) => Posted(Tail(q), msg) \/ Head(q) = msg
<1> DEFINE s == Tail(q)
<1>1. /\ Len(q) = Len(s) + 1 /\ Len(s) \in Nat /\ Head(q) = q[1]
      /\ \A i \in 1 .. Len(s) : i + 1 \in 1 .. Len(q) /\ s[i] = q[i + 1]
  OBVIOUS
<1>2. \A j \in 1 .. Len(q) : j # 1 => j - 1 \in 1 .. Len(s) /\ s[j - 1] = q[j]
  OBVIOUS
<1> HIDE DEF s
<1>3. ASSUME EndsIn(q, about, msg), ~(Head(q) = msg /\ Silent(s, about))
      PROVE  EndsIn(s, about, msg)
  <2>1. PICK k \in 1 .. Len(q) :
          q[k] = msg /\ \A i \in 1 .. Len(q) : i >= k /\ q[i] \in about => q[i] = msg
    BY <1>3 DEF EndsIn
  <2>2. CASE k # 1
    <3>1. k - 1 \in 1 .. Len(s) /\ s[k - 1] = msg
      BY <1>2, <2>1, <2>2
    <3>2. \A i \in 1 .. Len(s) : i >= k - 1 /\ s[i] \in about => s[i] = msg
      BY <1>1, <2>1
    <3>. QED BY <3>1, <3>2 DEF EndsIn
  <2>3. CASE k = 1
    <3>1. \A i \in 1 .. Len(s) : s[i] \in about => s[i] = msg
      BY <1>1, <2>1, <2>3
    <3>2. PICK j \in 1 .. Len(s) : s[j] \in about
      BY <1>1, <1>3, <2>1, <2>3 DEF Silent
    <3>. QED BY <3>1, <3>2 DEF EndsIn
  <2>. QED BY <2>2, <2>3
<1>4. Silent(q, about) => Silent(s, about) /\ Head(q) \notin about
  <2>1. 1 \in 1 .. Len(q)
    BY <1>1
  <2>. QED BY <1>1, <2>1 DEF Silent
<1>5. Posted(q, msg) => Posted(s, msg) \/ Head(q) = msg
  BY <1>1, <1>2 DEF Posted
<1>. QED BY <1>3, <1>4, <1>5 DEF s

-----------------------------------------------------------------------------
(* What a document knows of its host *)

Asked(type) == Posted(toHost, [type |-> type, registered |-> TRUE])
PushOf(s) == [type : {"push"}, service : {s}, value : Nat]
About(m) == [type : {"mount-add"}, mount : {m}, fs : Nat, mode : Mode]
              \cup [type : {"mount-remove"}, mount : {m}]
Late == {"mounting", "setup", "ready"}

\* The pushed states are asked for when the port is there; whatever comes after is in order.
Knows ==
  ~destroyed /\ doc.stage \in Late =>
    \A s \in Services :
      \/ Asked("services")
      \/ EndsIn(toDoc, PushOf(s), PushMessage(s))
      \/ Silent(toDoc, PushOf(s)) /\ doc.known[s] = pushed[s]

KnowsRepo ==
  ~destroyed /\ doc.stage \in {"setup", "ready"} =>
    Asked("repo") \/ Posted(toDoc, [type |-> "repo-mount"]) \/ doc.repo

\* A mount there is has a filesystem.
Unreal(msg) == msg.type = "mount-add" /\ msg.fs = None
Real ==
  /\ \A m \in Mounts : Mounted(m) => hostMounts[m].fs # None
  /\ \A i \in 1 .. Len(toDoc) : ~Unreal(toDoc[i])
  /\ \A i \in 1 .. Len(doc.gated) : ~Unreal(doc.gated[i])
  /\ \A a \in doc.adding : a.fs # None

\* No handler of a mount starts before the document is ready; nothing waits afterwards.
Early ==
  /\ doc.stage # "ready" =>
       /\ doc.adding = {} /\ doc.removing = {} /\ doc.crossed = {}
       /\ doc.table = {} /\ doc.seen = {} /\ \A m \in Mounts : doc.mounted[m] = None
  /\ doc.stage = "ready" \/ ~Registered => doc.gated = <<>>

Handlers == doc.adding \cup doc.removing

\* A mount that is described is there, or the handler that took it has not ended.
Described ==
  /\ doc.seen = doc.table
  /\ \A x \in doc.table :
       doc.mounted[x.mount] # None \/ \E h \in Handlers : h.mount = x.mount /\ h.at = "directory"

\* Handlers of a mount none of whose messages met an unfinished one.
OneAtATime ==
  \A m \in Mounts \ doc.crossed :
    /\ \A g, h \in Handlers : g.mount = m /\ h.mount = m => g = h
    /\ \A h \in Handlers : h.mount = m /\ h.at = "directory" => doc.mounted[m] = None

\* What is there, when no message is on its way.
MountRight(m) ==
  IF Mounted(m)
    THEN \/ \E a \in doc.adding :
              a.mount = m /\ a.fs = hostMounts[m].fs /\ a.mode = hostMounts[m].mode
         \/ /\ \A h \in Handlers : h.mount # m
            /\ doc.mounted[m] = hostMounts[m].fs
            /\ [mount |-> m, mode |-> hostMounts[m].mode] \in doc.table
         \/ doc.stage \notin Late \/ Asked("mounts")
    ELSE /\ \A a \in doc.adding : a.mount # m
         /\ doc.mounted[m] = None \/ \E r \in doc.removing : r.mount = m /\ r.at = "hooks"

\* The last message about a mount is right, wherever it has got to.
Told(m) ==
  \/ EndsIn(toDoc, About(m), MountMessage(m))
  \/ /\ Silent(toDoc, About(m))
     /\ \/ EndsIn(doc.gated, About(m), MountMessage(m))
        \/ Silent(doc.gated, About(m)) /\ (m \in doc.crossed \/ MountRight(m))
AllTold == ~destroyed => \A m \in Mounts : Told(m)

Informed == Knows /\ KnowsRepo /\ Real /\ Early /\ Described /\ OneAtATime /\ AllTold

\* The step leaves alone what the document knows of its host.
SameKnowledge ==
  /\ doc'.gated = doc.gated /\ doc'.mounted = doc.mounted /\ doc'.adding = doc.adding
  /\ doc'.removing = doc.removing /\ doc'.table = doc.table /\ doc'.seen = doc.seen
  /\ doc'.crossed = doc.crossed /\ doc'.known = doc.known /\ doc'.repo = doc.repo
  /\ doc'.registrations = doc.registrations

Elsewhere == Change \cup Registration

LEMMA Nothing ==
  ASSUME Typed
  PROVE  toDoc = toDoc \o <<>> /\ <<>> \in Seq(ToDoc) /\ \A i \in 1 .. Len(<<>>) : FALSE
BY DEF Typed

LEMMA ToldFrame ==
  ASSUME Typed, UNCHANGED <<hostMounts, pushed>>, NEW msgs \in Seq(ToDoc), toDoc' = toDoc \o msgs,
         \A i \in 1 .. Len(msgs) : msgs[i] \in Elsewhere
  PROVE  /\ \A s \in Services :
              /\ EndsIn(toDoc, PushOf(s), PushMessage(s)) => EndsIn(toDoc, PushOf(s), PushMessage(s))'
              /\ Silent(toDoc, PushOf(s)) => Silent(toDoc, PushOf(s))'
         /\ \A m \in Mounts :
              /\ EndsIn(toDoc, About(m), MountMessage(m)) => EndsIn(toDoc, About(m), MountMessage(m))'
              /\ Silent(toDoc, About(m)) => Silent(toDoc, About(m))'
         /\ \A i \in 1 .. Len(toDoc') : Unreal(toDoc'[i]) => \E j \in 1 .. Len(toDoc) : Unreal(toDoc[j])
         /\ \A msg : Posted(toDoc, msg) => Posted(toDoc', msg)
<1>0. toDoc \in Seq(ToDoc)
  BY DEF Typed
<1>1. /\ Len(toDoc') = Len(toDoc) + Len(msgs) /\ Len(toDoc) \in Nat /\ Len(msgs) \in Nat
      /\ \A i \in 1 .. Len(toDoc) : i \in 1 .. Len(toDoc') /\ toDoc'[i] = toDoc[i]
      /\ \A i \in 1 .. Len(toDoc') : i \in 1 .. Len(toDoc) \/ toDoc'[i] \in Elsewhere
  BY <1>0
<1>2. ASSUME NEW about, NEW msg, \A other \in Elsewhere : other \notin about
      PROVE  /\ EndsIn(toDoc, about, msg) => EndsIn(toDoc', about, msg)
             /\ Silent(toDoc, about) => Silent(toDoc', about)
  <2>1. \A i \in 1 .. Len(msgs) : msgs[i] \in about => msgs[i] = msg
    BY <1>2
  <2>2. EndsIn(toDoc, about, msg) => EndsIn(toDoc', about, msg)
    BY <1>0, <2>1, Extended
  <2>3. Silent(toDoc, about) => Silent(toDoc', about)
    BY <1>1, <1>2 DEF Silent
  <2>. QED BY <2>2, <2>3
<1>3. ASSUME NEW other \in Elsewhere
      PROVE  /\ \A s : other \notin PushOf(s)
             /\ \A m : other \notin About(m)
             /\ ~Unreal(other)
  BY DEF Elsewhere, Change, Registration, PushOf, About, Unreal
<1>4. \A s \in Services : PushMessage(s)' = PushMessage(s)
  BY DEF PushMessage
<1>5. \A m \in Mounts : MountMessage(m)' = MountMessage(m)
  BY DEF MountMessage, Mounted
<1>6. \A s \in Services :
        /\ EndsIn(toDoc, PushOf(s), PushMessage(s)) => EndsIn(toDoc', PushOf(s), PushMessage(s)')
        /\ Silent(toDoc, PushOf(s)) => Silent(toDoc', PushOf(s))
  BY <1>2, <1>3, <1>4
<1>7. \A m \in Mounts :
        /\ EndsIn(toDoc, About(m), MountMessage(m)) => EndsIn(toDoc', About(m), MountMessage(m)')
        /\ Silent(toDoc, About(m)) => Silent(toDoc', About(m))
  BY <1>2, <1>3, <1>5
<1>8. \A msg : Posted(toDoc, msg) => Posted(toDoc', msg)
  BY <1>1 DEF Posted
<1>9. \A i \in 1 .. Len(toDoc') : Unreal(toDoc'[i]) => \E j \in 1 .. Len(toDoc) : Unreal(toDoc[j])
  BY <1>1, <1>3
<1>. QED BY <1>6, <1>7, <1>8, <1>9 DEF EndsIn, Silent, PushOf, About

LEMMA InformedFrame ==
  ASSUME Typed, Informed, destroyed' \in BOOLEAN, ~destroyed' => ~destroyed,
         UNCHANGED <<hostMounts, pushed>>, SameKnowledge,
         doc'.stage = "ready" <=> doc.stage = "ready",
         doc'.stage \in Late => doc.stage \in Late \/ (Asked("services")' /\ Asked("mounts")'),
         doc'.stage \in {"setup", "ready"} => doc.stage \in {"setup", "ready"} \/ Asked("repo")',
         \A type \in Requests : Asked(type) => Asked(type)',
         NEW msgs \in Seq(ToDoc), toDoc' = toDoc \o msgs,
         \A i \in 1 .. Len(msgs) : msgs[i] \in Elsewhere
  PROVE  Informed'
<1>0. Registered' = Registered /\ Handlers' = Handlers
  BY DEF SameKnowledge, Registered, Handlers
<1>1. "services" \in Requests /\ "mounts" \in Requests /\ "repo" \in Requests
  BY DEF Requests
<1>2. Knows'
  BY <1>1, ToldFrame DEF Informed, Knows, SameKnowledge, Late
<1>3. KnowsRepo'
  BY <1>1, ToldFrame DEF Informed, KnowsRepo, SameKnowledge
<1>4. Real'
  BY ToldFrame DEF Informed, Real, SameKnowledge, Mounted, Unreal
<1>5. Early'
  BY <1>0 DEF Informed, Early, SameKnowledge
<1>6. Described'
  BY <1>0 DEF Informed, Described, SameKnowledge
<1>7. OneAtATime'
  BY <1>0 DEF Informed, OneAtATime, SameKnowledge
<1>8. \A m \in Mounts : MountRight(m) => MountRight(m)'
  BY <1>0, <1>1 DEF MountRight, SameKnowledge, Mounted, Late
<1>9. \A m \in Mounts : MountMessage(m)' = MountMessage(m)
  BY DEF MountMessage, Mounted
<1>10. AllTold'
  <2> SUFFICES ASSUME ~destroyed', NEW m \in Mounts
               PROVE  Told(m)'
    BY DEF AllTold
  <2>1. Told(m)
    BY DEF Informed, AllTold
  <2>2. /\ EndsIn(doc.gated, About(m), MountMessage(m)) => EndsIn(doc.gated, About(m), MountMessage(m))'
        /\ Silent(doc.gated, About(m)) => Silent(doc.gated, About(m))'
    BY <1>9 DEF SameKnowledge, EndsIn, Silent, About
  <2>. QED BY <1>8, <2>1, <2>2, ToldFrame DEF Told, SameKnowledge
<1>. QED BY <1>2, <1>3, <1>4, <1>5, <1>6, <1>7, <1>10 DEF Informed

LEMMA AskedStays ==
  ASSUME Typed,
         \/ toHost' = toHost
         \/ toHost # <<>> /\ Head(toHost).type \notin Requests /\ toHost' = Tail(toHost)
         \/ \E msg : toHost' = Append(toHost, msg)
         \/ \E msg, more : toHost' = toHost \o <<msg, more>>
  PROVE  \A type \in Requests : Asked(type) => Asked(type)'
<1> SUFFICES ASSUME NEW type \in Requests, Asked(type) PROVE Asked(type)'
  OBVIOUS
<1> DEFINE ask == [type |-> type, registered |-> TRUE]
<1>0. toHost \in Seq(ToHost) /\ ask.type \in Requests
  BY DEF Typed
<1>1. PICK i \in 1 .. Len(toHost) : toHost[i] = ask
  BY DEF Asked, Posted
<1>2. CASE toHost' = toHost
  BY <1>1, <1>2 DEF Asked, Posted
<1>3. CASE toHost # <<>> /\ Head(toHost).type \notin Requests /\ toHost' = Tail(toHost)
  <2>1. Posted(toHost, ask) => Posted(Tail(toHost), ask) \/ Head(toHost) = ask
    <3> HIDE DEF ask
    <3>. QED BY <1>0, <1>3, Shortened
  <2>. QED BY <1>0, <1>1, <1>3, <2>1 DEF Asked, Posted
<1>4. CASE \E msg : toHost' = Append(toHost, msg)
  BY <1>0, <1>1, <1>4 DEF Asked, Posted
<1>5. CASE \E msg, more : toHost' = toHost \o <<msg, more>>
  BY <1>0, <1>1, <1>5 DEF Asked, Posted
<1>. QED BY <1>2, <1>3, <1>4, <1>5

\* Steps that are neither about pushed states nor about mounts.
LEMMA AsideInformed ==
  ASSUME Typed, Informed, Heeds,
         \/ HostRefresh \/ TakeSnapshot \/ HearInitialized \/ HearRequestRefresh
         \/ (\E c \in connecting : ConnectFails(c) \/ PortConnected(c) \/ Register(c))
         \/ (\E f \in Files : Edit(f) \/ Read(f)) \/ RequestRefresh
         \/ Boot \/ PortArrives \/ MountApp \/ UNCHANGED vars
  PROVE  Informed'
<1>0. doc \in Document /\ destroyed \in BOOLEAN
  BY DEF Typed
<1>1. ASSUME destroyed' \in BOOLEAN, ~destroyed' => ~destroyed, UNCHANGED <<hostMounts, pushed, toDoc>>,
             SameKnowledge, \A type \in Requests : Asked(type) => Asked(type)',
             \/ doc'.stage = doc.stage
             \/ doc.stage = "loading" /\ doc'.stage = "waiting"
             \/ doc.stage = "waiting" /\ doc'.stage = "mounting" /\ Asked("services")' /\ Asked("mounts")'
             \/ doc.stage = "mounting" /\ doc'.stage = "setup" /\ Asked("repo")'
      PROVE  Informed'
  <2>1. toDoc' = toDoc \o <<>>
    BY <1>1, Nothing
  <2>2. /\ doc'.stage = "ready" <=> doc.stage = "ready"
        /\ doc'.stage \in Late => doc.stage \in Late \/ (Asked("services")' /\ Asked("mounts")')
        /\ doc'.stage \in {"setup", "ready"} => doc.stage \in {"setup", "ready"} \/ Asked("repo")'
    BY <1>1 DEF Late
  <2>. QED BY <1>1, <2>1, <2>2, Nothing, InformedFrame
<1>2. ASSUME NEW msg \in Elsewhere, msg \in ToDoc, Dispatch(msg), UNCHANGED <<destroyed, hostMounts, pushed, doc, toHost>>
      PROVE  Informed'
  <2>1. SameKnowledge /\ \A type \in Requests : Asked(type) => Asked(type)'
    BY <1>2 DEF SameKnowledge, Asked
  <2>2. CASE toDoc' = toDoc
    BY <1>0, <1>1, <1>2, <2>1, <2>2
  <2>3. CASE toDoc' = Append(toDoc, msg)
    <3>1. toDoc \in Seq(ToDoc)
      BY DEF Typed
    <3>2. toDoc' = toDoc \o <<msg>> /\ <<msg>> \in Seq(ToDoc) /\ \A i \in 1 .. Len(<<msg>>) : <<msg>>[i] \in Elsewhere
      BY <1>2, <2>3, <3>1
    <3>. QED BY <1>0, <1>2, <2>1, <3>2, InformedFrame
  <2>. QED BY <1>2, <2>2, <2>3 DEF Dispatch
<1>3. CASE HostRefresh \/ TakeSnapshot
  <2>1. UNCHANGED <<destroyed, hostMounts, pushed, toDoc, doc, toHost>>
    BY <1>3 DEF HostRefresh, TakeSnapshot, hostVars, worldVars
  <2>. QED BY <1>0, <1>1, <2>1, AskedStays DEF SameKnowledge
<1>4. CASE HearInitialized \/ HearRequestRefresh
  <2>1. UNCHANGED <<hostMounts, pushed, toDoc, doc>> /\ destroyed' \in BOOLEAN /\ (~destroyed' => ~destroyed)
    BY <1>0, <1>4 DEF HearInitialized, HearRequestRefresh, OnChannel, AcceptBoot, RefuseBoot, Destroy, hostVars, worldVars
  <2>2. toHost # <<>> /\ Head(toHost).type \notin Requests /\ toHost' = Tail(toHost)
    BY <1>4 DEF HearInitialized, HearRequestRefresh, OnChannel, Requests
  <2>. QED BY <1>1, <2>1, <2>2, AskedStays DEF SameKnowledge
<1>5. ASSUME NEW c \in connecting, ConnectFails(c) \/ PortConnected(c) \/ Register(c)
      PROVE  Informed'
  <2>1. UNCHANGED <<destroyed, hostMounts, pushed, doc, toHost>>
    BY <1>5 DEF ConnectFails, PortConnected, Register, RegisterFrame, InitConfig, worldVars
  <2>2. CASE toDoc' = toDoc
    BY <1>0, <1>1, <2>1, <2>2, AskedStays DEF SameKnowledge
  <2>3. CASE Register(c) /\ ~Stale(c)
    <3> DEFINE msg == [type |-> "register-frame", worker |-> c.version, snapshot |-> snapshot,
                       missed |-> {f \in Files : snapshot[f] \notin {None, disk[f]}}]
    <3>1. c.version \in Nat /\ snapshot \in [Files -> Nat]
      BY DEF Typed
    <3>2. msg \in Registration
      BY <3>1 DEF Registration
    <3>3. msg \in Elsewhere /\ msg \in ToDoc
      BY <3>2 DEF Elsewhere, ToDoc
    <3>4. Dispatch(msg)
      BY <2>3 DEF Register, RegisterFrame, InitConfig
    <3> HIDE DEF msg
    <3>. QED BY <1>2, <2>1, <3>3, <3>4
  <2>. QED BY <1>5, <2>2, <2>3 DEF ConnectFails, PortConnected, Register, RegisterFrame, InitConfig
<1>6. ASSUME NEW f \in Files, Edit(f)
      PROVE  Informed'
  <2>1. UNCHANGED <<destroyed, hostMounts, pushed, doc, toHost>> /\ Dispatch(Notice(f))
    BY <1>6 DEF Edit, hostVars, Notice
  <2>2. Notice(f) \in Elsewhere /\ Notice(f) \in ToDoc
    BY DEF Notice, Elsewhere, ToDoc, Gated, Change
  <2>. QED BY <1>2, <2>1, <2>2
<1>7. CASE (\E f \in Files : Read(f)) \/ RequestRefresh \/ Boot
  <2>1. UNCHANGED <<destroyed, hostMounts, pushed, toDoc>>
    BY <1>7 DEF Read, RequestRefresh, Boot, hostVars, worldVars
  <2>2. SameKnowledge
    BY <1>0, <1>7 DEF Read, RequestRefresh, Boot, SameKnowledge, Document
  <2>3. doc'.stage = doc.stage \/ (doc.stage = "loading" /\ doc'.stage = "waiting")
    BY <1>0, <1>7 DEF Read, RequestRefresh, Boot, Document
  <2>4. toHost' = toHost \/ \E msg : toHost' = Append(toHost, msg)
    BY <1>7 DEF Read, RequestRefresh, Boot
  <2>. QED BY <1>0, <1>1, <2>1, <2>2, <2>3, <2>4, AskedStays
<1>8. CASE PortArrives
  <2>1. Registered
    BY <1>8 DEF PortArrives, Heeds
  <2>2. toHost' = toHost \o <<Message("services"), Message("mounts")>> /\ toHost \in Seq(ToHost)
    BY <1>8 DEF PortArrives, Typed
  <2>3. Asked("services")' /\ Asked("mounts")'
    <3>1. /\ Len(toHost) + 1 \in 1 .. Len(toHost') /\ toHost'[Len(toHost) + 1] = Message("services")
          /\ Len(toHost) + 2 \in 1 .. Len(toHost') /\ toHost'[Len(toHost) + 2] = Message("mounts")
      <4> DEFINE a == Message("services")
                 b == Message("mounts")
      <4>1. Len(toHost) \in Nat /\ toHost' = toHost \o <<a, b>>
        BY <2>2
      <4> HIDE DEF a, b
      <4>2. /\ Len(toHost) + 1 \in 1 .. Len(toHost') /\ toHost'[Len(toHost) + 1] = a
            /\ Len(toHost) + 2 \in 1 .. Len(toHost') /\ toHost'[Len(toHost) + 2] = b
        BY <2>2, <4>1
      <4>. QED BY <4>2 DEF a, b
    <3>2. /\ Message("services") = [type |-> "services", registered |-> TRUE]
          /\ Message("mounts") = [type |-> "mounts", registered |-> TRUE]
      BY <2>1 DEF Message, Registered
    <3>. QED BY <3>1, <3>2 DEF Asked, Posted
  <2>4. UNCHANGED <<destroyed, hostMounts, pushed, toDoc>> /\ SameKnowledge
        /\ doc.stage = "waiting" /\ doc'.stage = "mounting"
    BY <1>0, <1>8 DEF PortArrives, hostVars, worldVars, SameKnowledge, Document
  <2>. QED BY <1>0, <1>1, <2>2, <2>3, <2>4, AskedStays
<1>9. CASE MountApp
  <2>1. Registered
    BY <1>9 DEF MountApp, Heeds
  <2>2. toHost' = Append(toHost, Message("repo")) /\ toHost \in Seq(ToHost)
    BY <1>9 DEF MountApp, Typed
  <2>3. Asked("repo")'
    <3>1. Len(toHost) + 1 \in 1 .. Len(toHost') /\ toHost'[Len(toHost) + 1] = Message("repo")
      BY <2>2
    <3>2. Message("repo") = [type |-> "repo", registered |-> TRUE]
      BY <2>1 DEF Message, Registered
    <3>. QED BY <3>1, <3>2 DEF Asked, Posted
  <2>4. UNCHANGED <<destroyed, hostMounts, pushed, toDoc>> /\ SameKnowledge
        /\ doc.stage = "mounting" /\ doc'.stage = "setup"
    BY <1>0, <1>9 DEF MountApp, hostVars, worldVars, SameKnowledge, Document
  <2>. QED BY <1>0, <1>1, <2>2, <2>3, <2>4, AskedStays
<1>10. CASE UNCHANGED vars
  BY <1>0, <1>1, <1>10, AskedStays DEF vars, hostVars, worldVars, SameKnowledge
<1>. QED BY <1>3, <1>4, <1>5, <1>6, <1>7, <1>8, <1>9, <1>10

\* The document stays as it is: what does not depend on what the host says.
LEMMA SameDocument ==
  ASSUME Informed, doc' = doc
  PROVE  Early' /\ Described' /\ OneAtATime' /\ Handlers' = Handlers
<1>1. Handlers' = Handlers /\ (Registered' <=> Registered)
  BY DEF Handlers, Registered
<1>2. Early'
  BY <1>1 DEF Informed, Early
<1>3. Described'
  BY <1>1 DEF Informed, Described
<1>4. OneAtATime'
  BY <1>1 DEF Informed, OneAtATime
<1>. QED BY <1>1, <1>2, <1>3, <1>4

\* The host says what it has now.
LEMMA SpeaksInformed ==
  ASSUME Typed, Informed, ~destroyed, doc' = doc,
         NEW msgs \in Seq(ToDoc), toDoc' = toDoc \o msgs,
         \A s \in Services :
           /\ pushed'[s] = pushed[s] \/ Posted(msgs, PushMessage(s)')
           /\ \A i \in 1 .. Len(msgs) : msgs[i] \in PushOf(s) => msgs[i] = PushMessage(s)',
         \A m \in Mounts :
           /\ hostMounts'[m] = hostMounts[m] \/ Posted(msgs, MountMessage(m)')
           /\ \A i \in 1 .. Len(msgs) : msgs[i] \in About(m) => msgs[i] = MountMessage(m)'
           /\ Mounted(m)' => hostMounts'[m].fs # None,
         \A i \in 1 .. Len(msgs) : ~Unreal(msgs[i]),
         Asked("services") => Asked("services")' \/ \A s \in Services : Posted(msgs, PushMessage(s)'),
         Asked("mounts") =>
           Asked("mounts")' \/ \A m \in Mounts : Mounted(m)' => Posted(msgs, MountMessage(m)'),
         Asked("repo") => Asked("repo")' \/ Posted(msgs, [type |-> "repo-mount"])
  PROVE  Informed'
<1>0. toDoc \in Seq(ToDoc) /\ doc \in Document
  BY DEF Typed
<1>1. Early' /\ Described' /\ OneAtATime' /\ Handlers' = Handlers
  BY SameDocument
<1>2. /\ \A i \in 1 .. Len(toDoc) : i \in 1 .. Len(toDoc') /\ toDoc'[i] = toDoc[i]
      /\ \A i \in 1 .. Len(toDoc') : \/ i \in 1 .. Len(toDoc) /\ toDoc'[i] = toDoc[i]
                                     \/ \E j \in 1 .. Len(msgs) : toDoc'[i] = msgs[j]
      /\ \A j \in 1 .. Len(msgs) : \E i \in 1 .. Len(toDoc') : toDoc'[i] = msgs[j]
  <2>1. /\ Len(toDoc') = Len(toDoc) + Len(msgs) /\ Len(toDoc) \in Nat /\ Len(msgs) \in Nat
        /\ \A i \in 1 .. Len(toDoc) : i \in 1 .. Len(toDoc') /\ toDoc'[i] = toDoc[i]
        /\ \A i \in 1 .. Len(toDoc') : i \notin 1 .. Len(toDoc) =>
             i - Len(toDoc) \in 1 .. Len(msgs) /\ toDoc'[i] = msgs[i - Len(toDoc)]
        /\ \A j \in 1 .. Len(msgs) : j + Len(toDoc) \in 1 .. Len(toDoc') /\ toDoc'[j + Len(toDoc)] = msgs[j]
    BY <1>0
  <2>. QED BY <2>1
<1>3. Real'
  BY <1>2 DEF Informed, Real
<1>4. KnowsRepo'
  <2>1. ASSUME NEW msg, Posted(toDoc, msg) \/ Posted(msgs, msg)
        PROVE  Posted(toDoc', msg)
    <3>1. CASE Posted(toDoc, msg)
      BY <1>2, <3>1 DEF Posted
    <3>2. CASE Posted(msgs, msg)
      <4>1. PICK j \in 1 .. Len(msgs) : msgs[j] = msg
        BY <3>2 DEF Posted
      <4>2. PICK i \in 1 .. Len(toDoc') : toDoc'[i] = msgs[j]
        BY <1>2
      <4>. QED BY <4>1, <4>2 DEF Posted
    <3>. QED BY <2>1, <3>1, <3>2
  <2>2. Posted(toDoc', [type |-> "repo-mount"]) => Posted(toDoc, [type |-> "repo-mount"])'
    BY DEF Posted
  <2>. QED BY <2>1, <2>2 DEF Informed, KnowsRepo
<1>5. ASSUME NEW s \in Services
      PROVE  LET w == PushMessage(s)' IN
             /\ Posted(msgs, w) => EndsIn(toDoc', PushOf(s), w)
             /\ EndsIn(toDoc, PushOf(s), w) => EndsIn(toDoc', PushOf(s), w)
             /\ Silent(toDoc, PushOf(s)) => Silent(toDoc', PushOf(s)) \/ EndsIn(toDoc', PushOf(s), w)
  <2> DEFINE w == PushMessage(s)'
  <2>1. \A i \in 1 .. Len(msgs) : msgs[i] \in PushOf(s) => msgs[i] = w
    OBVIOUS
  <2> HIDE DEF w
  <2>2. /\ Posted(msgs, w) => EndsIn(toDoc', PushOf(s), w)
        /\ EndsIn(toDoc, PushOf(s), w) => EndsIn(toDoc', PushOf(s), w)
        /\ Silent(toDoc, PushOf(s)) => Silent(toDoc', PushOf(s)) \/ EndsIn(toDoc', PushOf(s), w)
    BY <1>0, <2>1, Extended
  <2>. QED BY <2>2 DEF w
<1>6. ASSUME NEW m \in Mounts
      PROVE  LET w == MountMessage(m)' IN
             /\ Posted(msgs, w) => EndsIn(toDoc', About(m), w)
             /\ EndsIn(toDoc, About(m), w) => EndsIn(toDoc', About(m), w)
             /\ Silent(toDoc, About(m)) => Silent(toDoc', About(m)) \/ EndsIn(toDoc', About(m), w)
  <2> DEFINE w == MountMessage(m)'
  <2>1. \A i \in 1 .. Len(msgs) : msgs[i] \in About(m) => msgs[i] = w
    OBVIOUS
  <2> HIDE DEF w
  <2>2. /\ Posted(msgs, w) => EndsIn(toDoc', About(m), w)
        /\ EndsIn(toDoc, About(m), w) => EndsIn(toDoc', About(m), w)
        /\ Silent(toDoc, About(m)) => Silent(toDoc', About(m)) \/ EndsIn(toDoc', About(m), w)
    BY <1>0, <2>1, Extended
  <2>. QED BY <2>2 DEF w
<1>7. Knows'
  <2> SUFFICES ASSUME ~destroyed', doc.stage \in Late, NEW s \in Services
               PROVE  \/ Asked("services")'
                      \/ EndsIn(toDoc', PushOf(s), PushMessage(s)')
                      \/ Silent(toDoc', PushOf(s)) /\ doc.known[s] = pushed'[s]
    BY DEF Knows, EndsIn, Silent, PushOf
  <2>1. CASE Posted(msgs, PushMessage(s)')
    BY <1>5, <2>1
  <2>2. CASE ~Posted(msgs, PushMessage(s)')
    <3>1. pushed'[s] = pushed[s] /\ PushMessage(s)' = PushMessage(s)
      BY <2>2 DEF PushMessage
    <3>2. \/ Asked("services")
          \/ EndsIn(toDoc, PushOf(s), PushMessage(s))
          \/ Silent(toDoc, PushOf(s)) /\ doc.known[s] = pushed[s]
      BY DEF Informed, Knows
    <3>3. Asked("services") => Asked("services")'
      BY <2>2
    <3>. QED BY <1>5, <3>1, <3>2, <3>3
  <2>. QED BY <2>1, <2>2
<1>8. AllTold'
  <2> SUFFICES ASSUME ~destroyed', NEW m \in Mounts
               PROVE  Told(m)'
    BY DEF AllTold
  <2>0. /\ EndsIn(toDoc, About(m), MountMessage(m))' <=> EndsIn(toDoc', About(m), MountMessage(m)')
        /\ EndsIn(doc.gated, About(m), MountMessage(m))' <=> EndsIn(doc.gated, About(m), MountMessage(m)')
        /\ Silent(toDoc, About(m))' <=> Silent(toDoc', About(m))
        /\ Silent(doc.gated, About(m))' <=> Silent(doc.gated, About(m))
    BY DEF EndsIn, Silent, About, Mode
  <2>1. CASE Posted(msgs, MountMessage(m)')
    BY <1>6, <2>0, <2>1 DEF Told
  <2>2. CASE ~Posted(msgs, MountMessage(m)')
    <3>1. hostMounts'[m] = hostMounts[m] /\ MountMessage(m)' = MountMessage(m) /\ (Mounted(m)' <=> Mounted(m))
      BY <2>2 DEF MountMessage, Mounted
    <3>2. Told(m)
      BY DEF Informed, AllTold
    <3>3. Mounted(m) => (Asked("mounts") => Asked("mounts")')
      BY <2>2, <3>1
    <3>4. MountRight(m) => MountRight(m)'
      BY <1>1, <3>1, <3>3 DEF MountRight, Late
    <3>. QED BY <1>6, <2>0, <3>1, <3>2, <3>4 DEF Told
  <2>. QED BY <2>1, <2>2
<1>. QED BY <1>1, <1>3, <1>4, <1>7, <1>8 DEF Informed

\* A destroyed client says nothing any more.
LEMMA MuteInformed ==
  ASSUME Typed, Informed, destroyed', doc' = doc, toDoc' = toDoc,
         \A m \in Mounts : Mounted(m)' => hostMounts'[m].fs # None
  PROVE  Informed'
<1>1. Early' /\ Described' /\ OneAtATime'
  BY SameDocument
<1>2. Real'
  BY DEF Informed, Real
<1>. QED BY <1>1, <1>2 DEF Informed, Knows, KnowsRepo, AllTold

LEMMA MountsReal ==
  ASSUME Typed, Informed, NEW m \in Mounts, HostMounts(m)
  PROVE  /\ \A n \in Mounts : Mounted(n)' => hostMounts'[n].fs # None
         /\ \A n \in Mounts : n # m => hostMounts'[n] = hostMounts[n]
<1>0. hostMounts \in [Mounts -> [fs : Nat, mode : Mode]]
  BY DEF Typed
<1> DEFINE mount == hostMounts[m]
<1>1. mount.fs \in Nat /\ mount.fs + 1 # 0
  BY <1>0
<1>2. \/ hostMounts' = [hostMounts EXCEPT ![m] = [fs |-> mount.fs + 1, mode |-> "rw"]]
      \/ \E mode \in {"ro", "gone"} : Mounted(m) /\ hostMounts' = [hostMounts EXCEPT ![m] = [mount EXCEPT !.mode = mode]]
  BY DEF HostMounts
<1>3. hostMounts'[m].fs # None \/ hostMounts'[m].mode = "gone"
  <2>1. Mounted(m) => mount.fs # None
    BY DEF Informed, Real
  <2>. QED BY <1>0, <1>1, <1>2, <2>1 DEF None
<1>4. \A n \in Mounts : n # m => hostMounts'[n] = hostMounts[n]
  BY <1>0, <1>2
<1>5. \A n \in Mounts : Mounted(n) => hostMounts[n].fs # None
  BY DEF Informed, Real
<1>. QED BY <1>3, <1>4, <1>5 DEF Mounted

LEMMA HostMountsInformed ==
  ASSUME Typed, Typed', Informed, NEW m \in Mounts, HostMounts(m)
  PROVE  Informed'
<1>1. UNCHANGED <<destroyed, doc, pushed, toHost>> /\ Dispatch(MountMessage(m)')
  BY DEF HostMounts, hostVars
<1>2. CASE destroyed
  BY <1>1, <1>2, MountsReal, MuteInformed DEF Dispatch
<1>3. CASE ~destroyed
  <2> DEFINE msg == MountMessage(m)'
             msgs == <<msg>>
  <2>1. /\ \A n \in Mounts : Mounted(n)' => hostMounts'[n].fs # None
        /\ \A n \in Mounts : n # m => hostMounts'[n] = hostMounts[n]
    BY MountsReal
  <2>2. \A n \in Mounts : n # m => msg \notin About(n)
    BY DEF MountMessage, About
  <2>3. \A s \in Services : msg \notin PushOf(s)
    BY DEF MountMessage, PushOf
  <2>4. ~Unreal(msg)
    BY <2>1 DEF MountMessage, Unreal
  <2>5. toDoc' = Append(toDoc, msg)
    BY <1>1, <1>3 DEF Dispatch
  <2>6. msg \in ToDoc
    <3>1. MountMessage(m)' \in ToDoc
      <4>1. hostMounts'[m].fs \in Nat /\ hostMounts'[m].mode \in Mode
        BY DEF Typed
      <4>2. [type |-> "mount-add", mount |-> m, fs |-> hostMounts'[m].fs, mode |-> hostMounts'[m].mode] \in MountAdd
        BY <4>1 DEF MountAdd
      <4>3. [type |-> "mount-remove", mount |-> m] \in MountRemove
        BY DEF MountRemove
      <4>. QED BY <4>2, <4>3 DEF MountMessage, ToDoc, Gated
    <3>. QED BY <3>1
  <2> HIDE DEF msg
  <2>7. msgs \in Seq(ToDoc) /\ Len(msgs) = 1 /\ msgs[1] = msg
    BY <2>6
  <2>8. toDoc' = toDoc \o msgs
    <3>1. toDoc \in Seq(ToDoc)
      BY DEF Typed
    <3>. QED BY <2>5, <2>6, <3>1
  <2>9. Posted(msgs, msg)
    BY <2>7 DEF Posted
  <2>10. \A i \in 1 .. Len(msgs) : msgs[i] = msg
    BY <2>7
  <2>11. \A type : Asked(type) => Asked(type)'
    BY <1>1 DEF Asked
  <2> HIDE DEF msgs
  <2>12. \A s \in Services :
           /\ pushed'[s] = pushed[s] \/ Posted(msgs, PushMessage(s)')
           /\ \A i \in 1 .. Len(msgs) : msgs[i] \in PushOf(s) => msgs[i] = PushMessage(s)'
    BY <1>1, <2>3, <2>10
  <2>13. \A n \in Mounts :
           /\ hostMounts'[n] = hostMounts[n] \/ Posted(msgs, MountMessage(n)')
           /\ \A i \in 1 .. Len(msgs) : msgs[i] \in About(n) => msgs[i] = MountMessage(n)'
           /\ Mounted(n)' => hostMounts'[n].fs # None
    BY <2>1, <2>2, <2>9, <2>10 DEF msg
  <2>. QED BY <1>1, <1>3, <2>4, <2>7, <2>8, <2>10, <2>11, <2>12, <2>13, SpeaksInformed
<1>. QED BY <1>2, <1>3

LEMMA HostPushesInformed ==
  ASSUME Typed, Typed', Informed, NEW s \in Services, HostPushes(s)
  PROVE  Informed'
<1>1. UNCHANGED <<destroyed, doc, hostMounts, toHost>> /\ Dispatch(PushMessage(s)')
      /\ pushed' = [pushed EXCEPT ![s] = @ + 1]
  BY DEF HostPushes, hostVars
<1>2. \A n \in Mounts : Mounted(n)' => hostMounts'[n].fs # None
  BY <1>1 DEF Informed, Real, Mounted
<1>3. CASE destroyed
  BY <1>1, <1>2, <1>3, MuteInformed DEF Dispatch
<1>4. CASE ~destroyed
  <2> DEFINE msg == PushMessage(s)'
             msgs == <<msg>>
  <2>1. \A t \in Services : t # s => msg \notin PushOf(t) /\ pushed'[t] = pushed[t]
    BY <1>1 DEF PushMessage, PushOf, Typed
  <2>2. \A m \in Mounts : msg \notin About(m)
    BY DEF PushMessage, About
  <2>3. ~Unreal(msg)
    BY DEF PushMessage, Unreal
  <2>4. toDoc' = Append(toDoc, msg)
    BY <1>1, <1>4 DEF Dispatch
  <2>5. msg \in ToDoc
    <3>1. pushed'[s] \in Nat
      BY DEF Typed
    <3>2. msg \in Push
      BY <3>1 DEF Push, PushMessage
    <3>. QED BY <3>2 DEF ToDoc
  <2> HIDE DEF msg
  <2>6. msgs \in Seq(ToDoc) /\ Len(msgs) = 1 /\ msgs[1] = msg
    BY <2>5
  <2>7. toDoc' = toDoc \o msgs
    <3>1. toDoc \in Seq(ToDoc)
      BY DEF Typed
    <3>. QED BY <2>4, <2>5, <3>1
  <2>8. Posted(msgs, msg)
    BY <2>6 DEF Posted
  <2>9. \A i \in 1 .. Len(msgs) : msgs[i] = msg
    BY <2>6
  <2>10. \A type : Asked(type) => Asked(type)'
    BY <1>1 DEF Asked
  <2> HIDE DEF msgs
  <2>11. \A t \in Services :
           /\ pushed'[t] = pushed[t] \/ Posted(msgs, PushMessage(t)')
           /\ \A i \in 1 .. Len(msgs) : msgs[i] \in PushOf(t) => msgs[i] = PushMessage(t)'
    BY <2>1, <2>8, <2>9 DEF msg
  <2>12. \A n \in Mounts :
           /\ hostMounts'[n] = hostMounts[n] \/ Posted(msgs, MountMessage(n)')
           /\ \A i \in 1 .. Len(msgs) : msgs[i] \in About(n) => msgs[i] = MountMessage(n)'
           /\ Mounted(n)' => hostMounts'[n].fs # None
    BY <1>1, <1>2, <2>2, <2>9
  <2>. QED BY <1>1, <1>4, <2>3, <2>6, <2>7, <2>9, <2>10, <2>11, <2>12, SpeaksInformed
<1>. QED BY <1>3, <1>4

LEMMA ListedAll ==
  ASSUME NEW S, IsFiniteSet(S), NEW x \in S
  PROVE  \E i \in 1 .. Len(SetToSeq(S)) : SetToSeq(S)[i] = x
<1> DEFINE n == Cardinality(S)
           f == SetToSeq(S)
<1>1. n \in Nat /\ ExistsBijection(1 .. n, S)
  BY FS_CardinalityType
<1>2. PICK g : g \in Bijection(1 .. n, S)
  BY <1>1 DEF ExistsBijection
<1>3. g \in [1 .. n -> S] /\ IsInjective(g)
  BY <1>2 DEF Bijection, Injection, IsInjective
<1>4. f \in [1 .. n -> S] /\ IsInjective(f)
  BY <1>3 DEF SetToSeq
<1>5. Len(f) = n
  BY Listed
<1> HIDE DEF f
<1>6. f \in Injection(1 .. n, S)
  BY <1>4 DEF Injection, IsInjective
<1>7. Cardinality(1 .. n) = n
  <2>1. 1 \in Int /\ n \in Int
    BY <1>1
  <2>2. Cardinality(1 .. n) = IF 1 > n THEN 0 ELSE n - 1 + 1
    BY <2>1, FS_Interval
  <2>. QED BY <1>1, <2>2
<1> HIDE DEF n
<1>8. f \in Surjection(1 .. n, S)
  BY <1>6, <1>7, FS_Injection DEF n
<1>9. \E i \in 1 .. n : f[i] = x
  BY <1>8 DEF Surjection
<1>. QED BY <1>5, <1>9 DEF f

\* The host's answers to a request say what the host has now.
LEMMA HearRequestInformed ==
  ASSUME Typed, Informed, HearRequest
  PROVE  Informed'
<1> DEFINE here == SetToSeq({m \in Mounts : Mounted(m)})
           services == [i \in 1 .. Cardinality(Services) |-> PushMessage(SetToSeq(Services)[i])]
           mounts == [i \in 1 .. Len(here) |-> MountMessage(here[i])]
           answers == CASE Head(toHost).type = "services" -> services
                        [] Head(toHost).type = "mounts" -> mounts
                        [] OTHER -> <<[type |-> "repo-mount"]>>
           msgs == IF destroyed \/ ~Head(toHost).registered THEN <<>> ELSE answers
           Says(q) ==
             /\ q \in Seq(ToDoc)
             /\ \A i \in 1 .. Len(q) :
                  \/ \E s \in Services : q[i] = PushMessage(s)
                  \/ \E m \in Mounts : Mounted(m) /\ q[i] = MountMessage(m)
                  \/ q[i] = [type |-> "repo-mount"]
<1>0. toHost \in Seq(ToHost) /\ toHost # <<>> /\ toDoc \in Seq(ToDoc)
  BY DEF Typed, HearRequest, OnChannel
<1>1. UNCHANGED <<destroyed, doc, hostMounts, pushed>> /\ toHost' = Tail(toHost)
      /\ Head(toHost).type \in Requests
  BY DEF HearRequest, OnChannel, hostVars, worldVars
<1>2. toDoc' = IF ~destroyed /\ Head(toHost).registered THEN toDoc \o answers ELSE toDoc
  BY Zenon DEF HearRequest, OnChannel
<1>3. toDoc' = toDoc \o msgs
  <2>1. CASE destroyed \/ ~Head(toHost).registered
    BY <1>2, <2>1, Nothing
  <2>2. CASE ~(destroyed \/ ~Head(toHost).registered)
    BY <1>2, <2>2
  <2>. QED BY <2>1, <2>2
<1>4. Says(services) /\ \A s \in Services : Posted(services, PushMessage(s))
  <2>1. /\ Cardinality(Services) \in Nat /\ Len(SetToSeq(Services)) = Cardinality(Services)
        /\ SetToSeq(Services) \in Seq(Services)
        /\ \A s \in Services : \E i \in 1 .. Len(SetToSeq(Services)) : SetToSeq(Services)[i] = s
    BY Listed, ListedAll, FiniteAssumption
  <2>2. \A i \in 1 .. Cardinality(Services) : SetToSeq(Services)[i] \in Services
    BY <2>1
  <2>3. services \in Seq(ToDoc) /\ Len(services) = Cardinality(Services)
    BY <2>1, <2>2, MessagesTyped
  <2>4. \A s \in Services : Posted(services, PushMessage(s))
    <3> SUFFICES ASSUME NEW s \in Services
                 PROVE  Posted(services, PushMessage(s))
      OBVIOUS
    <3>1. PICK i \in 1 .. Cardinality(Services) : SetToSeq(Services)[i] = s
      BY <2>1
    <3>. QED BY <2>3, <3>1 DEF Posted
  <2>5. \A i \in 1 .. Len(services) : \E s \in Services : services[i] = PushMessage(s)
    BY <2>2, <2>3
  <2> HIDE DEF services
  <2>. QED BY <2>3, <2>4, <2>5
<1>5. Says(mounts) /\ \A m \in Mounts : Mounted(m) => Posted(mounts, MountMessage(m))
  <2> DEFINE S == {m \in Mounts : Mounted(m)}
  <2>1. IsFiniteSet(S)
    BY FiniteAssumption, FS_Subset
  <2> HIDE DEF S
  <2>2. here \in Seq(S) /\ \A m \in S : \E i \in 1 .. Len(here) : here[i] = m
    BY <2>1, Listed, ListedAll DEF S
  <2> HIDE DEF here
  <2>3. \A i \in 1 .. Len(here) : here[i] \in S /\ here[i] \in Mounts /\ Mounted(here[i])
    BY <2>2 DEF S
  <2>4. mounts \in Seq(ToDoc) /\ Len(mounts) = Len(here)
    BY <2>2, <2>3, MessagesTyped
  <2>5. \A m \in Mounts : Mounted(m) => Posted(mounts, MountMessage(m))
    <3> SUFFICES ASSUME NEW m \in Mounts, Mounted(m)
                 PROVE  Posted(mounts, MountMessage(m))
      OBVIOUS
    <3>1. PICK i \in 1 .. Len(here) : here[i] = m
      BY <2>2 DEF S
    <3>. QED BY <2>4, <3>1 DEF Posted
  <2>6. \A i \in 1 .. Len(mounts) : \E m \in Mounts : Mounted(m) /\ mounts[i] = MountMessage(m)
    BY <2>3, <2>4
  <2> HIDE DEF mounts
  <2>. QED BY <2>4, <2>5, <2>6
<1>6. Says(<<[type |-> "repo-mount"]>>) /\ Posted(<<[type |-> "repo-mount"]>>, [type |-> "repo-mount"])
  BY DEF ToDoc, RepoMount, Posted
<1>7. Says(<<>>)
  OBVIOUS
<1> HIDE DEF services, mounts
<1>8. Says(msgs)
  BY <1>4, <1>5, <1>6, <1>7
<1>9. ASSUME NEW type \in Requests, Asked(type)
      PROVE  \/ Asked(type)'
             \/ Head(toHost) = [type |-> type, registered |-> TRUE]
  <2> DEFINE ask == [type |-> type, registered |-> TRUE]
  <2>1. Posted(toHost, ask)
    BY <1>9 DEF Asked
  <2> HIDE DEF ask
  <2>2. Posted(Tail(toHost), ask) \/ Head(toHost) = ask
    BY <1>0, <2>1, Shortened
  <2>. QED BY <1>1, <2>2 DEF Asked, Posted, ask
<1>10. CASE destroyed
  <2>1. \A m \in Mounts : Mounted(m)' => hostMounts'[m].fs # None
    BY <1>1 DEF Informed, Real, Mounted
  <2>. QED BY <1>1, <1>2, <1>10, <2>1, MuteInformed
<1>11. CASE ~destroyed
  <2>1. ASSUME NEW type \in Requests, Asked(type), ~Asked(type)'
        PROVE  Head(toHost).type = type /\ msgs = answers
    BY <1>9, <1>11, <2>1
  <2>2. "services" \in Requests /\ "mounts" \in Requests /\ "repo" \in Requests
    BY DEF Requests
  <2>3. Asked("services") => Asked("services")' \/ \A s \in Services : Posted(msgs, PushMessage(s))
    <3> SUFFICES ASSUME Asked("services"), ~Asked("services")'
                 PROVE  \A s \in Services : Posted(msgs, PushMessage(s))
      OBVIOUS
    <3>1. msgs = services
      BY <2>1, <2>2
    <3>. QED BY <1>4, <3>1
  <2>4. Asked("mounts") =>
          Asked("mounts")' \/ \A m \in Mounts : Mounted(m) => Posted(msgs, MountMessage(m))
    <3> SUFFICES ASSUME Asked("mounts"), ~Asked("mounts")'
                 PROVE  \A m \in Mounts : Mounted(m) => Posted(msgs, MountMessage(m))
      OBVIOUS
    <3>1. msgs = mounts
      BY <2>1, <2>2
    <3>. QED BY <1>5, <3>1
  <2>5. Asked("repo") => Asked("repo")' \/ Posted(msgs, [type |-> "repo-mount"])
    <3> SUFFICES ASSUME Asked("repo"), ~Asked("repo")'
                 PROVE  Posted(msgs, [type |-> "repo-mount"])
      OBVIOUS
    <3>1. msgs = <<[type |-> "repo-mount"]>>
      BY <2>1, <2>2
    <3>. QED BY <1>6, <3>1
  <2> HIDE DEF msgs
  <2>6. /\ \A s \in Services : PushMessage(s)' = PushMessage(s)
        /\ \A m \in Mounts : MountMessage(m)' = MountMessage(m) /\ (Mounted(m)' <=> Mounted(m))
    BY <1>1 DEF PushMessage, MountMessage, Mounted
  <2>7. \A m \in Mounts : Mounted(m) => hostMounts[m].fs # None
    BY DEF Informed, Real
  <2>8. /\ \A s \in Services, t \in Services : PushMessage(t) \in PushOf(s) => s = t
        /\ \A s \in Services, m \in Mounts : MountMessage(m) \notin PushOf(s) /\ PushMessage(s) \notin About(m)
        /\ \A m \in Mounts, n \in Mounts : MountMessage(m) \in About(n) => m = n
        /\ \A s \in Services : [type |-> "repo-mount"] \notin PushOf(s) /\ ~Unreal(PushMessage(s))
        /\ \A m \in Mounts : [type |-> "repo-mount"] \notin About(m) /\ (Mounted(m) => ~Unreal(MountMessage(m)))
        /\ ~Unreal([type |-> "repo-mount"])
    BY <2>7 DEF PushMessage, MountMessage, PushOf, About, Unreal
  <2>9. \A i \in 1 .. Len(msgs) :
          /\ \A s \in Services : msgs[i] \in PushOf(s) => msgs[i] = PushMessage(s)
          /\ \A m \in Mounts : msgs[i] \in About(m) => msgs[i] = MountMessage(m)
          /\ ~Unreal(msgs[i])
    BY <1>8, <2>8
  <2>10. \A s \in Services :
           /\ pushed'[s] = pushed[s] \/ Posted(msgs, PushMessage(s)')
           /\ \A i \in 1 .. Len(msgs) : msgs[i] \in PushOf(s) => msgs[i] = PushMessage(s)'
    BY <1>1, <2>6, <2>9
  <2>11. \A m \in Mounts :
           /\ hostMounts'[m] = hostMounts[m] \/ Posted(msgs, MountMessage(m)')
           /\ \A i \in 1 .. Len(msgs) : msgs[i] \in About(m) => msgs[i] = MountMessage(m)'
           /\ Mounted(m)' => hostMounts'[m].fs # None
    BY <1>1, <2>6, <2>7, <2>9
  <2>12. Asked("services") => Asked("services")' \/ \A s \in Services : Posted(msgs, PushMessage(s)')
    BY <2>3, <2>6
  <2>13. Asked("mounts") =>
           Asked("mounts")' \/ \A m \in Mounts : Mounted(m)' => Posted(msgs, MountMessage(m)')
    BY <2>4, <2>6
  <2>14. msgs \in Seq(ToDoc)
    BY <1>8
  <2>. QED BY <1>1, <1>3, <1>11, <2>5, <2>9, <2>10, <2>11, <2>12, <2>13, <2>14, SpeaksInformed
<1>. QED BY <1>10, <1>11

\* Another document: it knows nothing, and nothing has been said to it.
LEMMA NewInformed ==
  ASSUME Typed, Informed, CommitNavigation \/ StrayNavigation
  PROVE  Informed'
<1>1. PICK stage \in {"loading", "blank"} : doc' = NewDocument(doc.id + 1, stage)
  BY DEF CommitNavigation, StrayNavigation
<1>2. toDoc' = <<>> /\ UNCHANGED <<destroyed, hostMounts>>
  BY DEF CommitNavigation, StrayNavigation, hostVars, worldVars
<1>3. /\ doc'.stage \in {"loading", "blank"} /\ doc'.adding = {} /\ doc'.removing = {}
      /\ doc'.crossed = {} /\ doc'.table = {} /\ doc'.seen = {} /\ doc'.gated = <<>>
      /\ \A m \in Mounts : doc'.mounted[m] = None
  BY <1>1 DEF NewDocument
<1>4. 1 .. Len(toDoc') = {} /\ 1 .. Len(doc'.gated) = {}
  BY <1>2, <1>3
<1>5. Real'
  BY <1>2, <1>3, <1>4 DEF Informed, Real, Mounted
<1>6. Early' /\ Described' /\ OneAtATime' /\ Knows' /\ KnowsRepo'
  BY <1>3 DEF Early, Described, OneAtATime, Handlers, Knows, KnowsRepo, Late
<1>7. AllTold'
  <2> SUFFICES ASSUME NEW m \in Mounts
               PROVE  Told(m)'
    BY DEF AllTold
  <2>1. Silent(toDoc, About(m))' /\ Silent(doc.gated, About(m))'
    BY <1>4 DEF Silent
  <2>2. MountRight(m)'
    BY <1>3 DEF MountRight, Late
  <2>. QED BY <2>1, <2>2 DEF Told
<1>. QED BY <1>5, <1>6, <1>7 DEF Informed

\* What an end of a wait in a handler of a mount leaves alone.
LEMMA HandlerFrame ==
  ASSUME Typed, Informed, doc.stage = "ready",
         UNCHANGED <<destroyed, hostMounts, pushed, toDoc, toHost>>,
         doc'.stage = doc.stage, doc'.gated = doc.gated, doc'.crossed = doc.crossed,
         doc'.known = doc.known, doc'.repo = doc.repo,
         \A a \in doc'.adding : a.fs # None,
         Described', OneAtATime',
         \A m \in Mounts \ doc.crossed : MountRight(m) => MountRight(m)'
  PROVE  Informed'
<1>1. /\ \A s \in Services : PushMessage(s)' = PushMessage(s)
      /\ \A m \in Mounts : MountMessage(m)' = MountMessage(m) /\ (Mounted(m)' <=> Mounted(m))
  BY DEF PushMessage, MountMessage, Mounted
<1>2. /\ \A s \in Services :
           /\ EndsIn(toDoc, PushOf(s), PushMessage(s))' <=> EndsIn(toDoc, PushOf(s), PushMessage(s))
           /\ Silent(toDoc, PushOf(s))' <=> Silent(toDoc, PushOf(s))
      /\ \A m \in Mounts :
           /\ EndsIn(toDoc, About(m), MountMessage(m))' <=> EndsIn(toDoc, About(m), MountMessage(m))
           /\ EndsIn(doc.gated, About(m), MountMessage(m))' <=> EndsIn(doc.gated, About(m), MountMessage(m))
           /\ Silent(toDoc, About(m))' <=> Silent(toDoc, About(m))
           /\ Silent(doc.gated, About(m))' <=> Silent(doc.gated, About(m))
      /\ Posted(toDoc, [type |-> "repo-mount"])' <=> Posted(toDoc, [type |-> "repo-mount"])
      /\ \A type : Asked(type)' <=> Asked(type)
  BY <1>1 DEF EndsIn, Silent, Posted, Asked, PushOf, About, Mode
<1>3. Knows' /\ KnowsRepo'
  BY <1>2 DEF Informed, Knows, KnowsRepo
<1>4. Real' /\ Early'
  BY <1>1 DEF Informed, Real, Early
<1>5. AllTold'
  BY <1>2 DEF Informed, AllTold, Told
<1>. QED BY <1>3, <1>4, <1>5 DEF Informed

LEMMA AddingIsNotRemoving ==
  ASSUME NEW a \in Adding, NEW r \in Removing
  PROVE  a # r
<1>1. "fs" \in DOMAIN a
  BY DEF Adding
<1>2. "fs" \notin DOMAIN r
  BY DEF Removing
<1>. QED BY <1>1, <1>2

\* A handler moves on to its next await.
LEMMA HandlerMoves ==
  ASSUME Typed, Informed,
         \/ \E a \in doc.adding : MountAnswers(a)
         \/ \E r \in doc.removing : MountTaken(r)
  PROVE  Informed'
<1>0. doc \in Document /\ doc.adding \subseteq Adding /\ doc.removing \subseteq Removing
      /\ doc.mounted \in [Mounts -> Nat] /\ doc.table \subseteq Descriptor
  BY DEF Typed, Document
<1>1. \A a \in doc.adding, r \in doc.removing : a # r
  BY <1>0, AddingIsNotRemoving
<1>2. ASSUME NEW a \in doc.adding, MountAnswers(a)
      PROVE  Informed'
  <2> DEFINE m == a.mount
             b == [a EXCEPT !.at = "directory"]
  <2>0. a \in Adding /\ a.at = "connect" /\ m \in Mounts
    BY <1>0, <1>2 DEF MountAnswers, Adding
  <2>1. b.mount = m /\ b.fs = a.fs /\ b.mode = a.mode /\ b.at = "directory"
    BY <2>0 DEF Adding
  <2>2. UNCHANGED <<destroyed, hostMounts, pushed, toDoc, toHost>>
    BY <1>2 DEF MountAnswers, hostVars, worldVars
  <2>3. doc' = [doc EXCEPT !.mounted[m] = None, !.adding = (@ \ {a}) \cup {b}]
    BY <1>2 DEF MountAnswers
  <2>4. doc.stage = "ready"
    BY DEF Informed, Early
  <2> HIDE DEF b
  <2>5. /\ doc'.stage = doc.stage /\ doc'.gated = doc.gated /\ doc'.crossed = doc.crossed
        /\ doc'.known = doc.known /\ doc'.repo = doc.repo /\ doc'.table = doc.table /\ doc'.seen = doc.seen
        /\ doc'.removing = doc.removing /\ doc'.adding = (doc.adding \ {a}) \cup {b}
        /\ doc'.mounted = [doc.mounted EXCEPT ![m] = None]
    BY <1>0, <2>3 DEF Document
  <2>6. /\ doc'.mounted[m] = None
        /\ \A n \in Mounts : n # m => doc'.mounted[n] = doc.mounted[n]
        /\ \A h \in Handlers' : h = b \/ (h \in Handlers /\ h # a)
        /\ \A h \in Handlers : h # a => h \in Handlers'
        /\ a \in Handlers /\ b \in Handlers'
    BY <1>0, <1>1, <2>0, <2>5 DEF Handlers
  <2>7. \A x \in doc.adding : x.fs # None
    BY DEF Informed, Real
  <2>8. \A x \in doc'.adding : x.fs # None
    BY <2>1, <2>5, <2>7
  <2>9. Described'
    <3>1. \A x \in doc.table : x.mount \in Mounts
      BY <1>0 DEF Descriptor
    <3>. QED BY <2>0, <2>1, <2>5, <2>6, <3>1 DEF Informed, Described
  <2>10. OneAtATime'
    BY <2>0, <2>1, <2>5, <2>6 DEF Informed, OneAtATime
  <2>11. ASSUME NEW n \in Mounts \ doc.crossed, MountRight(n)
         PROVE  MountRight(n)'
    <3>1. Mounted(n)' <=> Mounted(n)
      BY <2>2 DEF Mounted
    <3>2. Asked("mounts")' <=> Asked("mounts")
      BY <2>2 DEF Asked
    <3>3. CASE n = m
      <4>1. \A h \in Handlers : h.mount = m => h = a
        BY <2>6, <3>3 DEF Informed, OneAtATime
      <4>2. \A x \in doc.adding : x \in Handlers
        BY DEF Handlers
      <4>. QED BY <2>1, <2>2, <2>4, <2>5, <2>6, <2>11, <3>1, <3>2, <3>3, <4>1, <4>2 DEF MountRight
    <3>4. CASE n # m
      <4>1. /\ \A x \in doc.adding : x.mount = n => x \in doc'.adding
            /\ \A x \in doc'.adding : x.mount = n => x \in doc.adding
            /\ \A h \in Handlers' : h.mount = n => h \in Handlers
        BY <2>1, <2>5, <2>6, <3>4
      <4>. QED BY <2>2, <2>5, <2>6, <2>11, <3>1, <3>2, <3>4, <4>1 DEF MountRight
    <3>. QED BY <3>3, <3>4
  <2>. QED BY <2>2, <2>4, <2>5, <2>8, <2>9, <2>10, <2>11, HandlerFrame
<1>3. ASSUME NEW r \in doc.removing, MountTaken(r)
      PROVE  Informed'
  <2> DEFINE m == r.mount
             b == [r EXCEPT !.at = "directory"]
  <2>0. r \in Removing /\ r.at = "hooks" /\ m \in Mounts
    BY <1>0, <1>3 DEF MountTaken, Removing
  <2>1. b.mount = m /\ b.at = "directory"
    BY <2>0 DEF Removing
  <2>2. UNCHANGED <<destroyed, hostMounts, pushed, toDoc, toHost>>
    BY <1>3 DEF MountTaken, hostVars, worldVars
  <2>3. doc' = [doc EXCEPT !.mounted[m] = None, !.removing = (@ \ {r}) \cup {b}]
    BY <1>3 DEF MountTaken
  <2>4. doc.stage = "ready"
    BY DEF Informed, Early
  <2> HIDE DEF b
  <2>5. /\ doc'.stage = doc.stage /\ doc'.gated = doc.gated /\ doc'.crossed = doc.crossed
        /\ doc'.known = doc.known /\ doc'.repo = doc.repo /\ doc'.table = doc.table /\ doc'.seen = doc.seen
        /\ doc'.adding = doc.adding /\ doc'.removing = (doc.removing \ {r}) \cup {b}
        /\ doc'.mounted = [doc.mounted EXCEPT ![m] = None]
    BY <1>0, <2>3 DEF Document
  <2>6. /\ doc'.mounted[m] = None
        /\ \A n \in Mounts : n # m => doc'.mounted[n] = doc.mounted[n]
        /\ \A h \in Handlers' : h = b \/ (h \in Handlers /\ h # r)
        /\ \A h \in Handlers : h # r => h \in Handlers'
        /\ r \in Handlers /\ b \in Handlers'
    BY <1>0, <1>1, <2>0, <2>5 DEF Handlers
  <2>7. \A x \in doc'.adding : x.fs # None
    BY <2>5 DEF Informed, Real
  <2>8. Described'
    <3>1. \A x \in doc.table : x.mount \in Mounts
      BY <1>0 DEF Descriptor
    <3>. QED BY <2>0, <2>1, <2>5, <2>6, <3>1 DEF Informed, Described
  <2>9. OneAtATime'
    BY <2>0, <2>1, <2>5, <2>6 DEF Informed, OneAtATime
  <2>10. ASSUME NEW n \in Mounts \ doc.crossed, MountRight(n)
         PROVE  MountRight(n)'
    <3>1. Mounted(n)' <=> Mounted(n)
      BY <2>2 DEF Mounted
    <3>2. Asked("mounts")' <=> Asked("mounts")
      BY <2>2 DEF Asked
    <3>3. CASE n = m
      <4>1. \A h \in Handlers : h.mount = m => h = r
        BY <2>6, <3>3 DEF Informed, OneAtATime
      <4>2. \A x \in doc.adding : x \in Handlers /\ x # r
        BY <1>1 DEF Handlers
      <4>. QED BY <2>1, <2>2, <2>4, <2>5, <2>6, <2>10, <3>1, <3>2, <3>3, <4>1, <4>2 DEF MountRight
    <3>4. CASE n # m
      <4>1. /\ \A x \in doc.removing : x.mount = n => x \in doc'.removing
            /\ \A h \in Handlers' : h.mount = n => h \in Handlers
        BY <2>1, <2>5, <2>6, <3>4
      <4>. QED BY <2>2, <2>5, <2>6, <2>10, <3>1, <3>2, <3>4, <4>1 DEF MountRight
    <3>. QED BY <3>3, <3>4
  <2>. QED BY <2>2, <2>4, <2>5, <2>7, <2>8, <2>9, <2>10, HandlerFrame
<1>. QED BY <1>2, <1>3

\* A handler ends.
LEMMA HandlerEnds ==
  ASSUME Typed, Informed,
         \/ \E a \in doc.adding : MountTimesOut(a) \/ MountPlaced(a)
         \/ \E r \in doc.removing : MountForgotten(r)
  PROVE  Informed'
<1>0. doc \in Document /\ doc.adding \subseteq Adding /\ doc.removing \subseteq Removing
      /\ doc.mounted \in [Mounts -> Nat] /\ doc.table \subseteq Descriptor
  BY DEF Typed, Document
<1>1. \A a \in doc.adding, r \in doc.removing : a # r
  BY <1>0, AddingIsNotRemoving
<1>2. \A x \in doc.table : x.mount \in Mounts
  BY <1>0 DEF Descriptor
<1>3. ASSUME NEW a \in doc.adding, MountTimesOut(a)
      PROVE  Informed'
  <2>0. a.at = "connect" /\ (~Mounted(a.mount) \/ hostMounts[a.mount].fs # a.fs)
        /\ doc' = [doc EXCEPT !.adding = @ \ {a}]
    BY <1>3 DEF MountTimesOut
  <2>1. UNCHANGED <<destroyed, hostMounts, pushed, toDoc, toHost>>
    BY <1>3 DEF MountTimesOut, hostVars, worldVars
  <2>2. doc.stage = "ready"
    BY DEF Informed, Early
  <2>3. /\ doc'.stage = doc.stage /\ doc'.gated = doc.gated /\ doc'.crossed = doc.crossed
        /\ doc'.known = doc.known /\ doc'.repo = doc.repo /\ doc'.table = doc.table /\ doc'.seen = doc.seen
        /\ doc'.removing = doc.removing /\ doc'.adding = doc.adding \ {a} /\ doc'.mounted = doc.mounted
    BY <1>0, <2>0 DEF Document
  <2>4. Handlers' = Handlers \ {a}
    BY <1>1, <2>3 DEF Handlers
  <2>5. \A x \in doc'.adding : x.fs # None
    BY <2>3 DEF Informed, Real
  <2>6. Described'
    BY <2>0, <2>3, <2>4 DEF Informed, Described
  <2>7. OneAtATime'
    BY <2>3, <2>4 DEF Informed, OneAtATime
  <2>8. ASSUME NEW n \in Mounts \ doc.crossed, MountRight(n)
        PROVE  MountRight(n)'
    <3>1. /\ Mounted(n)' <=> Mounted(n)
          /\ Asked("mounts")' <=> Asked("mounts")
      BY <2>1 DEF Mounted, Asked
    <3>. QED BY <2>0, <2>1, <2>3, <2>4, <2>8, <3>1 DEF MountRight
  <2>. QED BY <2>1, <2>2, <2>3, <2>5, <2>6, <2>7, <2>8, HandlerFrame
<1>4. ASSUME NEW a \in doc.adding, MountPlaced(a)
      PROVE  Informed'
  <2> DEFINE m == a.mount
             done == [doc EXCEPT !.adding = @ \ {a}]
             placed == [done EXCEPT !.mounted[m] = a.fs]
             next == {x \in doc.table : x.mount # m} \cup {[mount |-> m, mode |-> a.mode]}
  <2>0. a \in Adding /\ a.at = "directory" /\ m \in Mounts /\ a.fs # None /\ a.fs \in Nat
    BY <1>0, <1>4 DEF MountPlaced, Adding, Informed, Real
  <2>1. UNCHANGED <<destroyed, hostMounts, pushed, toDoc, toHost>>
    BY <1>4 DEF MountPlaced, hostVars, worldVars
  <2>2. doc.stage = "ready"
    BY DEF Informed, Early
  <2>3. doc' = IF doc.mounted[m] # None THEN done ELSE SetMounts(placed, next)
    BY <1>4 DEF MountPlaced
  <2>4. /\ done.stage = doc.stage /\ done.gated = doc.gated /\ done.crossed = doc.crossed
        /\ done.known = doc.known /\ done.repo = doc.repo /\ done.table = doc.table /\ done.seen = doc.seen
        /\ done.removing = doc.removing /\ done.adding = doc.adding \ {a} /\ done.mounted = doc.mounted
        /\ done \in Document
    BY <1>0 DEF Document
  <2> HIDE DEF done
  <2>5. /\ placed.stage = doc.stage /\ placed.gated = doc.gated /\ placed.crossed = doc.crossed
        /\ placed.known = doc.known /\ placed.repo = doc.repo /\ placed.table = doc.table /\ placed.seen = doc.seen
        /\ placed.removing = doc.removing /\ placed.adding = doc.adding \ {a}
        /\ placed.mounted = [doc.mounted EXCEPT ![m] = a.fs]
        /\ placed \in Document
    <3>1. [doc.mounted EXCEPT ![m] = a.fs] \in [Mounts -> Nat]
      BY <1>0, <2>0
    <3>. QED BY <2>0, <2>4, <3>1 DEF Document
  <2> HIDE DEF placed, next
  <2>6. /\ doc'.stage = doc.stage /\ doc'.gated = doc.gated /\ doc'.crossed = doc.crossed
        /\ doc'.known = doc.known /\ doc'.repo = doc.repo
        /\ doc'.removing = doc.removing /\ doc'.adding = doc.adding \ {a}
        /\ IF doc.mounted[m] # None
             THEN doc'.mounted = doc.mounted /\ doc'.table = doc.table /\ doc'.seen = doc.seen
             ELSE /\ doc'.mounted = [doc.mounted EXCEPT ![m] = a.fs]
                  /\ doc'.table = next /\ (doc.seen = doc.table => doc'.seen = next)
    <3>1. CASE doc.mounted[m] # None
      BY <2>3, <2>4, <3>1
    <3>2. CASE doc.mounted[m] = None
      <4>1. doc' = IF next = doc.table THEN placed ELSE [placed EXCEPT !.table = next, !.seen = next]
        BY <2>3, <2>5, <3>2 DEF SetMounts
      <4>. QED BY <2>5, <3>2, <4>1 DEF Document
    <3>. QED BY <3>1, <3>2
  <2>7. Handlers' = Handlers \ {a} /\ a \in Handlers
    BY <1>1, <2>6 DEF Handlers
  <2>8. \A x \in doc'.adding : x.fs # None
    BY <2>6 DEF Informed, Real
  <2>9. /\ doc'.mounted[m] # None
        /\ \A n \in Mounts : n # m => doc'.mounted[n] = doc.mounted[n]
        /\ doc.mounted[m] = None => doc'.mounted[m] = a.fs
    BY <1>0, <2>0, <2>6
  <2>10. /\ \A x \in doc'.table : x.mount = m \/ x \in doc.table
         /\ \A x \in doc.table : x.mount # m => x \in doc'.table
         /\ doc.mounted[m] = None => [mount |-> m, mode |-> a.mode] \in doc'.table
    BY <2>6 DEF next
  <2>11. Described'
    <3>1. doc.seen = doc.table
      BY DEF Informed, Described
    <3>2. doc'.seen = doc'.table
      BY <2>6, <3>1
    <3>. QED BY <1>2, <2>7, <2>9, <2>10, <3>2 DEF Informed, Described
  <2>12. OneAtATime'
    <3>1. \A h \in Handlers : m \notin doc.crossed /\ h.mount = m => h = a
      BY <2>0, <2>7 DEF Informed, OneAtATime
    <3>. QED BY <2>6, <2>7, <2>9, <3>1 DEF Informed, OneAtATime
  <2>13. ASSUME NEW n \in Mounts \ doc.crossed, MountRight(n)
         PROVE  MountRight(n)'
    <3>1. /\ Mounted(n)' <=> Mounted(n)
          /\ Asked("mounts")' <=> Asked("mounts")
      BY <2>1 DEF Mounted, Asked
    <3>2. CASE n = m
      <4>1. /\ \A h \in Handlers : h.mount = m => h = a
            /\ doc.mounted[m] = None
        BY <2>0, <2>7, <3>2 DEF Informed, OneAtATime
      <4>2. \A x \in doc.adding : x \in Handlers
        BY DEF Handlers
      <4>3. \A h \in Handlers' : h.mount # m
        BY <2>7, <4>1
      <4>. QED BY <2>1, <2>2, <2>6, <2>7, <2>9, <2>10, <2>13, <3>1, <3>2, <4>1, <4>2, <4>3 DEF MountRight
    <3>3. CASE n # m
      <4>1. \A x \in doc.adding : x.mount = n => x \in doc'.adding
        BY <2>6, <3>3
      <4>. QED BY <2>1, <2>6, <2>7, <2>9, <2>10, <2>13, <3>1, <3>3, <4>1 DEF MountRight
    <3>. QED BY <3>2, <3>3
  <2>. QED BY <2>1, <2>2, <2>6, <2>8, <2>11, <2>12, <2>13, HandlerFrame
<1>5. ASSUME NEW r \in doc.removing, MountForgotten(r)
      PROVE  Informed'
  <2> DEFINE m == r.mount
             done == [doc EXCEPT !.removing = @ \ {r}]
             next == {x \in doc.table : x.mount # m}
  <2>0. r \in Removing /\ r.at = "directory" /\ m \in Mounts
    BY <1>0, <1>5 DEF MountForgotten, Removing
  <2>1. UNCHANGED <<destroyed, hostMounts, pushed, toDoc, toHost>>
    BY <1>5 DEF MountForgotten, hostVars, worldVars
  <2>2. doc.stage = "ready"
    BY DEF Informed, Early
  <2>3. doc' = SetMounts(done, next)
    BY <1>5 DEF MountForgotten
  <2>4. /\ done.stage = doc.stage /\ done.gated = doc.gated /\ done.crossed = doc.crossed
        /\ done.known = doc.known /\ done.repo = doc.repo /\ done.table = doc.table /\ done.seen = doc.seen
        /\ done.removing = doc.removing \ {r} /\ done.adding = doc.adding /\ done.mounted = doc.mounted
        /\ done \in Document
    BY <1>0 DEF Document
  <2> HIDE DEF done, next
  <2>5. /\ doc'.stage = doc.stage /\ doc'.gated = doc.gated /\ doc'.crossed = doc.crossed
        /\ doc'.known = doc.known /\ doc'.repo = doc.repo /\ doc'.mounted = doc.mounted
        /\ doc'.removing = doc.removing \ {r} /\ doc'.adding = doc.adding
        /\ doc'.table = next /\ (doc.seen = doc.table => doc'.seen = next)
    <3>1. doc' = IF next = doc.table THEN done ELSE [done EXCEPT !.table = next, !.seen = next]
      BY <2>3, <2>4 DEF SetMounts
    <3>. QED BY <2>4, <3>1 DEF Document
  <2>6. Handlers' = Handlers \ {r} /\ r \in Handlers
    BY <1>1, <2>5 DEF Handlers
  <2>7. \A x \in doc'.adding : x.fs # None
    BY <2>5 DEF Informed, Real
  <2>8. \A x : x \in doc'.table <=> x \in doc.table /\ x.mount # m
    BY <2>5 DEF next
  <2>9. Described'
    <3>1. doc'.seen = doc'.table
      BY <2>5 DEF Informed, Described
    <3>. QED BY <2>5, <2>6, <2>8, <3>1 DEF Informed, Described
  <2>10. OneAtATime'
    BY <2>5, <2>6 DEF Informed, OneAtATime
  <2>11. ASSUME NEW n \in Mounts \ doc.crossed, MountRight(n)
         PROVE  MountRight(n)'
    <3>1. /\ Mounted(n)' <=> Mounted(n)
          /\ Asked("mounts")' <=> Asked("mounts")
      BY <2>1 DEF Mounted, Asked
    <3>2. CASE n = m
      <4>1. /\ \A h \in Handlers : h.mount = m => h = r
            /\ doc.mounted[m] = None
        BY <2>0, <2>6, <3>2 DEF Informed, OneAtATime
      <4>2. \A x \in doc.adding : x \in Handlers /\ x # r
        BY <1>1 DEF Handlers
      <4>. QED BY <2>1, <2>2, <2>5, <2>6, <2>11, <3>1, <3>2, <4>1, <4>2 DEF MountRight
    <3>3. CASE n # m
      <4>1. \A x \in doc.removing : x.mount = n => x \in doc'.removing
        BY <2>5, <3>3
      <4>2. [mount |-> n, mode |-> hostMounts[n].mode] \in doc.table
              => [mount |-> n, mode |-> hostMounts[n].mode] \in doc'.table
        BY <2>8, <3>3
      <4>. QED BY <2>1, <2>5, <2>6, <2>11, <3>1, <3>3, <4>1, <4>2 DEF MountRight
    <3>. QED BY <3>2, <3>3
  <2>. QED BY <2>1, <2>2, <2>5, <2>7, <2>9, <2>10, <2>11, HandlerFrame
<1>. QED BY <1>3, <1>4, <1>5

\* The message at the head of the queue: what it says, and what is left to be said.
Delivers(msg) ==
  /\ msg \in ToDoc /\ ~Unreal(msg) /\ UNCHANGED <<destroyed, hostMounts, pushed, toHost>>
  /\ \A s \in Services :
       /\ EndsIn(toDoc, PushOf(s), PushMessage(s)) =>
            EndsIn(toDoc, PushOf(s), PushMessage(s))'
              \/ (msg = PushMessage(s) /\ Silent(toDoc, PushOf(s))')
       /\ Silent(toDoc, PushOf(s)) => Silent(toDoc, PushOf(s))' /\ msg \notin PushOf(s)
  /\ \A m \in Mounts :
       /\ EndsIn(toDoc, About(m), MountMessage(m)) =>
            EndsIn(toDoc, About(m), MountMessage(m))'
              \/ (msg = MountMessage(m) /\ Silent(toDoc, About(m))')
       /\ Silent(toDoc, About(m)) => Silent(toDoc, About(m))' /\ msg \notin About(m)
       /\ MountMessage(m)' = MountMessage(m) /\ (Mounted(m)' <=> Mounted(m))
  /\ Posted(toDoc, [type |-> "repo-mount"]) =>
       Posted(toDoc, [type |-> "repo-mount"])' \/ msg = [type |-> "repo-mount"]
  /\ \A i \in 1 .. Len(toDoc') : ~Unreal(toDoc'[i])
  /\ \A type : Asked(type)' <=> Asked(type)

LEMMA Delivery ==
  ASSUME Typed, Informed, Receive
  PROVE  Delivers(Head(toDoc))
<1> DEFINE msg == Head(toDoc)
<1>0. toDoc \in Seq(ToDoc) /\ toDoc # <<>> /\ toDoc' = Tail(toDoc) /\ msg \in ToDoc
  BY DEF Typed, Receive
<1>1. UNCHANGED <<destroyed, hostMounts, pushed, toHost>>
  BY DEF Receive, hostVars, worldVars
<1>2. /\ \A s \in Services : PushMessage(s)' = PushMessage(s)
      /\ \A m \in Mounts : MountMessage(m)' = MountMessage(m) /\ (Mounted(m)' <=> Mounted(m))
  BY <1>1 DEF PushMessage, MountMessage, Mounted
<1>3. ~Unreal(msg) /\ \A i \in 1 .. Len(toDoc') : ~Unreal(toDoc'[i])
  <2>1. /\ 1 \in 1 .. Len(toDoc) /\ msg = toDoc[1]
        /\ \A i \in 1 .. Len(toDoc') : i + 1 \in 1 .. Len(toDoc) /\ toDoc'[i] = toDoc[i + 1]
    BY <1>0
  <2>2. \A i \in 1 .. Len(toDoc) : ~Unreal(toDoc[i])
    BY DEF Informed, Real
  <2> HIDE DEF msg
  <2>. QED BY <2>1, <2>2
<1>4. ASSUME NEW about, NEW w
      PROVE  /\ EndsIn(toDoc, about, w) => EndsIn(toDoc', about, w) \/ (msg = w /\ Silent(toDoc', about))
             /\ Silent(toDoc, about) => Silent(toDoc', about) /\ msg \notin about
             /\ Posted(toDoc, w) => Posted(toDoc', w) \/ msg = w
  BY <1>0, Shortened
<1> HIDE DEF msg
<1>5. ASSUME NEW s \in Services
      PROVE  /\ EndsIn(toDoc, PushOf(s), PushMessage(s)) =>
                  EndsIn(toDoc, PushOf(s), PushMessage(s))'
                    \/ (msg = PushMessage(s) /\ Silent(toDoc, PushOf(s))')
             /\ Silent(toDoc, PushOf(s)) => Silent(toDoc, PushOf(s))' /\ msg \notin PushOf(s)
  <2>1. /\ EndsIn(toDoc', PushOf(s), PushMessage(s)') <=> EndsIn(toDoc, PushOf(s), PushMessage(s))'
        /\ Silent(toDoc', PushOf(s)) <=> Silent(toDoc, PushOf(s))'
    BY DEF EndsIn, Silent, PushOf
  <2>. QED BY <1>2, <1>4, <2>1
<1>6. ASSUME NEW m \in Mounts
      PROVE  /\ EndsIn(toDoc, About(m), MountMessage(m)) =>
                  EndsIn(toDoc, About(m), MountMessage(m))'
                    \/ (msg = MountMessage(m) /\ Silent(toDoc, About(m))')
             /\ Silent(toDoc, About(m)) => Silent(toDoc, About(m))' /\ msg \notin About(m)
  <2>1. /\ EndsIn(toDoc', About(m), MountMessage(m)') <=> EndsIn(toDoc, About(m), MountMessage(m))'
        /\ Silent(toDoc', About(m)) <=> Silent(toDoc, About(m))'
    BY DEF EndsIn, Silent, About, Mode
  <2>. QED BY <1>2, <1>4, <2>1
<1>7. Posted(toDoc, [type |-> "repo-mount"]) =>
        Posted(toDoc, [type |-> "repo-mount"])' \/ msg = [type |-> "repo-mount"]
  <2>1. Posted(toDoc', [type |-> "repo-mount"]) <=> Posted(toDoc, [type |-> "repo-mount"])'
    BY DEF Posted
  <2>. QED BY <1>4, <2>1
<1>8. \A type : Asked(type)' <=> Asked(type)
  BY <1>1 DEF Asked, Posted
<1>9. msg \in ToDoc
  BY <1>0
<1>10. Delivers(msg)
  BY <1>1, <1>2, <1>3, <1>5, <1>6, <1>7, <1>8, <1>9 DEF Delivers
<1>. QED BY <1>10 DEF msg

\* A message to a document that does not heed it.
LEMMA DroppedInformed ==
  ASSUME Typed, Informed, Heeds, NEW msg, Delivers(msg), doc' = doc, ~Registered
  PROVE  Informed'
<1>1. doc.stage \notin Late /\ doc.stage # "ready" /\ doc.gated = <<>>
  BY DEF Heeds, Late, Informed, Early
<1>2. Early' /\ Described' /\ OneAtATime' /\ Handlers' = Handlers
  BY SameDocument
<1>3. Knows' /\ KnowsRepo'
  BY <1>1 DEF Knows, KnowsRepo, Late
<1>4. Real'
  BY DEF Informed, Real, Delivers
<1>5. AllTold'
  <2> SUFFICES ASSUME ~destroyed', NEW m \in Mounts
               PROVE  Told(m)'
    BY DEF AllTold
  <2>1. Told(m)
    BY DEF Informed, AllTold, Delivers
  <2>2. Silent(doc.gated, About(m))'
    <3>1. 1 .. Len(doc'.gated) = {}
      BY <1>1
    <3>. QED BY <3>1 DEF Silent
  <2>3. MountRight(m)'
    BY <1>1, <1>2 DEF MountRight, Informed, Early
  <2>. QED BY <2>1, <2>2, <2>3 DEF Told, Delivers
<1>. QED BY <1>2, <1>3, <1>4, <1>5 DEF Informed

\* A registration, a pushed state, the repo's address, or a change of a file that is
\* forgotten at once.
LEMMA LightInformed ==
  ASSUME Typed, Informed, Heeds, NEW msg, Delivers(msg), doc.stage \notin {"loading", "blank"},
         doc' = Handle(doc, msg),
         \/ msg.type \in {"register-frame", "push", "repo-mount"} \/ (msg.type = "fs-change" /\ doc.stage = "ready"),
         Registered'
  PROVE  Informed'
<1>0. doc \in Document /\ msg \in ToDoc /\ doc.known \in [Services -> Nat]
  BY DEF Typed, Document, Delivers
<1>1. \A m \in Mounts : msg \notin About(m)
  BY DEF About
<1>2. /\ doc'.gated = doc.gated /\ doc'.mounted = doc.mounted /\ doc'.adding = doc.adding
      /\ doc'.removing = doc.removing /\ doc'.table = doc.table /\ doc'.seen = doc.seen
      /\ doc'.crossed = doc.crossed /\ doc'.stage = doc.stage
      /\ doc'.repo = (doc.repo \/ (msg.type = "repo-mount" /\ doc.stage \in {"setup", "ready"}))
      /\ doc'.known = IF msg.type = "push" THEN [doc.known EXCEPT ![msg.service] = msg.value] ELSE doc.known
  <2>1. CASE msg.type = "register-frame"
    BY <1>0, <2>1 DEF Handle, HandleRepoMount, TakeRegistration, Document
  <2>2. CASE msg.type = "push"
    BY <1>0, <2>2 DEF Handle, HandleRepoMount, Document
  <2>3. CASE msg.type = "repo-mount"
    BY <1>0, <2>3 DEF Handle, HandleRepoMount, Document
  <2>4. CASE msg.type = "fs-change" /\ doc.stage = "ready"
    BY <1>0, <2>4 DEF Handle, HandleRepoMount, Apply, Forget, Document
  <2>. QED BY <2>1, <2>2, <2>3, <2>4
<1>3. Handlers' = Handlers
  BY <1>2 DEF Handlers
<1>4. Early' /\ Described' /\ OneAtATime'
  <2>1. Early'
    BY <1>2 DEF Informed, Early
  <2>2. Described'
    BY <1>2, <1>3 DEF Informed, Described
  <2>3. OneAtATime'
    BY <1>2, <1>3 DEF Informed, OneAtATime
  <2>. QED BY <2>1, <2>2, <2>3
<1>5. Real'
  BY <1>2 DEF Informed, Real, Delivers
<1>6. KnowsRepo'
  <2> SUFFICES ASSUME ~destroyed, doc.stage \in {"setup", "ready"}
               PROVE  Asked("repo")' \/ Posted(toDoc, [type |-> "repo-mount"])' \/ doc'.repo
    BY <1>2 DEF KnowsRepo, Delivers
  <2>1. Asked("repo") \/ Posted(toDoc, [type |-> "repo-mount"]) \/ doc.repo
    BY DEF Informed, KnowsRepo
  <2>2. doc.repo \/ msg.type = "repo-mount" => doc'.repo
    BY <1>2
  <2>3. msg = [type |-> "repo-mount"] => msg.type = "repo-mount"
    OBVIOUS
  <2>. QED BY <2>1, <2>2, <2>3 DEF Delivers
<1>7. Knows'
  <2> SUFFICES ASSUME ~destroyed, doc.stage \in Late, NEW s \in Services
               PROVE  \/ Asked("services")'
                      \/ EndsIn(toDoc, PushOf(s), PushMessage(s))'
                      \/ Silent(toDoc, PushOf(s))' /\ doc'.known[s] = pushed[s]
    BY <1>2 DEF Knows, Delivers
  <2>1. msg = PushMessage(s) => doc'.known[s] = pushed[s]
    BY <1>0, <1>2 DEF PushMessage
  <2>2. msg \notin PushOf(s) => doc'.known[s] = doc.known[s]
    <3>1. CASE msg.type = "push"
      <4>1. msg \in Push
        BY <1>0, <3>1 DEF ToDoc, Registration, Gated, Change, MountAdd, MountRemove, Push, RepoMount
      <4>2. msg.service # s => doc'.known[s] = doc.known[s]
        BY <1>0, <1>2, <3>1
      <4>3. msg.service = s => msg \in PushOf(s)
        BY <4>1 DEF Push, PushOf
      <4>. QED BY <4>2, <4>3
    <3>2. CASE msg.type # "push"
      BY <1>2, <3>2
    <3>. QED BY <3>1, <3>2
  <2>3. \/ Asked("services")
        \/ EndsIn(toDoc, PushOf(s), PushMessage(s))
        \/ Silent(toDoc, PushOf(s)) /\ doc.known[s] = pushed[s]
    BY DEF Informed, Knows
  <2>. QED BY <2>1, <2>2, <2>3 DEF Delivers
<1>8. AllTold'
  <2> SUFFICES ASSUME ~destroyed', NEW m \in Mounts
               PROVE  Told(m)'
    BY DEF AllTold
  <2>1. Told(m)
    BY DEF Informed, AllTold, Delivers
  <2>2. MountRight(m) => MountRight(m)'
    BY <1>2, <1>3 DEF MountRight, Delivers
  <2>3. /\ EndsIn(doc.gated, About(m), MountMessage(m))' <=> EndsIn(doc.gated, About(m), MountMessage(m))
        /\ Silent(doc.gated, About(m))' <=> Silent(doc.gated, About(m))
    BY <1>2 DEF EndsIn, Silent, About, Mode, Delivers
  <2>4. msg # MountMessage(m)
    BY DEF MountMessage
  <2>. QED BY <1>2, <2>1, <2>2, <2>3, <2>4 DEF Told, Delivers
<1>. QED BY <1>4, <1>5, <1>6, <1>7, <1>8 DEF Informed

\* A change or a mount that waits for the bundler.
LEMMA GatedInformed ==
  ASSUME Typed, Informed, NEW msg, Delivers(msg), Registered,
         doc.stage \notin {"loading", "blank", "ready"},
         msg.type \in {"fs-change", "mount-add", "mount-remove"}, doc' = Handle(doc, msg)
  PROVE  Informed'
<1>0. doc \in Document /\ doc.gated \in Seq(Gated) /\ msg \in Gated
  BY DEF Typed, Document, Delivers, ToDoc, Registration, Gated, Change, MountAdd, MountRemove, Push, RepoMount
<1>1. doc' = [doc EXCEPT !.gated = Append(@, msg)]
  BY DEF Handle, HandleRepoMount
<1>2. /\ doc'.mounted = doc.mounted /\ doc'.adding = doc.adding
      /\ doc'.removing = doc.removing /\ doc'.table = doc.table /\ doc'.seen = doc.seen
      /\ doc'.crossed = doc.crossed /\ doc'.stage = doc.stage /\ doc'.repo = doc.repo
      /\ doc'.known = doc.known /\ doc'.registrations = doc.registrations
      /\ doc'.gated = Append(doc.gated, msg)
  BY <1>0, <1>1 DEF Document
<1>3. Handlers' = Handlers /\ Registered'
  BY <1>2 DEF Handlers, Registered
<1>4. Early' /\ Described' /\ OneAtATime'
  <2>1. Early'
    BY <1>2, <1>3 DEF Informed, Early
  <2>2. Described'
    BY <1>2, <1>3 DEF Informed, Described
  <2>3. OneAtATime'
    BY <1>2, <1>3 DEF Informed, OneAtATime
  <2>. QED BY <2>1, <2>2, <2>3
<1>5. Real'
  <2>1. \A i \in 1 .. Len(doc'.gated) : doc'.gated[i] = msg \/ (i \in 1 .. Len(doc.gated) /\ doc'.gated[i] = doc.gated[i])
    BY <1>0, <1>2
  <2>. QED BY <1>2, <2>1 DEF Informed, Real, Delivers
<1>6. Knows' /\ KnowsRepo'
  <2>1. \A s \in Services : msg # PushMessage(s)
    BY DEF PushMessage
  <2>2. msg # [type |-> "repo-mount"]
    OBVIOUS
  <2>. QED BY <1>2, <2>1, <2>2 DEF Informed, Knows, KnowsRepo, Delivers
<1>7. AllTold'
  <2> SUFFICES ASSUME ~destroyed', NEW m \in Mounts
               PROVE  Told(m)'
    BY DEF AllTold
  <2> DEFINE w == MountMessage(m)
             msgs == <<msg>>
  <2>1. Told(m)
    BY DEF Informed, AllTold, Delivers
  <2>2. MountRight(m) => MountRight(m)'
    BY <1>2, <1>3 DEF MountRight, Delivers
  <2>3. w' = w
    BY DEF Delivers
  <2>4. /\ EndsIn(doc.gated, About(m), w)' <=> EndsIn(doc'.gated, About(m), w)
        /\ Silent(doc.gated, About(m))' <=> Silent(doc'.gated, About(m))
    BY <2>3 DEF EndsIn, Silent, About, Mode
  <2> HIDE DEF w
  <2>5. /\ msgs \in Seq(Gated) /\ doc'.gated = doc.gated \o msgs /\ Len(msgs) = 1 /\ msgs[1] = msg
        /\ \A i \in 1 .. Len(msgs) : msgs[i] = msg
    BY <1>0, <1>2
  <2>6. msg = w => Posted(msgs, w)
    BY <2>5 DEF Posted
  <2> HIDE DEF msgs
  <2>7. CASE msg = w
    <3>1. \A i \in 1 .. Len(msgs) : msgs[i] \in About(m) => msgs[i] = w
      BY <2>5, <2>7
    <3>2. EndsIn(doc'.gated, About(m), w)
      BY <1>0, <2>5, <2>6, <2>7, <3>1, Extended
    <3>3. EndsIn(toDoc, About(m), w)' \/ Silent(toDoc, About(m))'
      BY <2>1 DEF Told, Delivers, w
    <3>. QED BY <2>4, <3>2, <3>3 DEF Told, w
  <2>8. CASE msg # w /\ msg \in About(m)
    BY <2>1, <2>8 DEF Told, Delivers, w
  <2>9. CASE msg # w /\ msg \notin About(m)
    <3>1. \A i \in 1 .. Len(msgs) : msgs[i] \in About(m) => msgs[i] = w
      BY <2>5, <2>9
    <3>2. EndsIn(doc.gated, About(m), w) => EndsIn(doc'.gated, About(m), w)
      BY <1>0, <2>5, <3>1, Extended
    <3>3. Silent(doc.gated, About(m)) => Silent(doc'.gated, About(m)) \/ EndsIn(doc'.gated, About(m), w)
      BY <1>0, <2>5, <3>1, Extended
    <3>. QED BY <1>2, <2>1, <2>2, <2>4, <2>9, <3>2, <3>3 DEF Told, Delivers, w
  <2>. QED BY <2>7, <2>8, <2>9
<1>. QED BY <1>4, <1>5, <1>6, <1>7 DEF Informed

\* A mount comes or goes while the document is ready: its handler starts.
LEMMA StartInformed ==
  ASSUME Typed, Informed, NEW msg, Delivers(msg), doc.stage = "ready",
         msg.type \in {"mount-add", "mount-remove"}, doc' = Handle(doc, msg)
  PROVE  Informed'
<1> DEFINE m == msg.mount
           h == IF msg.type = "mount-add"
                  THEN [mount |-> m, fs |-> msg.fs, mode |-> msg.mode, at |-> "connect"]
                  ELSE [mount |-> m, at |-> "hooks"]
<1>0. doc \in Document /\ doc.adding \subseteq Adding /\ doc.removing \subseteq Removing
      /\ doc.table \subseteq Descriptor
  BY DEF Typed, Document
<1>1. msg \in MountAdd \cup MountRemove /\ m \in Mounts
  BY DEF Delivers, ToDoc, Registration, Gated, Change, MountAdd, MountRemove, Push, RepoMount
<1>2. msg \in About(m)
  BY <1>1 DEF MountAdd, MountRemove, About
<1>3. /\ doc'.mounted = doc.mounted /\ doc'.table = doc.table /\ doc'.seen = doc.seen
      /\ doc'.stage = doc.stage /\ doc'.repo = doc.repo /\ doc'.gated = doc.gated
      /\ doc'.known = doc.known /\ doc'.registrations = doc.registrations
      /\ doc'.crossed = IF Busy(doc, m) THEN doc.crossed \cup {m} ELSE doc.crossed
      /\ doc'.adding = IF msg.type = "mount-add" THEN doc.adding \cup {h} ELSE doc.adding
      /\ doc'.removing = IF msg.type = "mount-remove" THEN doc.removing \cup {h} ELSE doc.removing
  <2>1. CASE msg.type = "mount-add"
    <3>1. doc' = StartMount(doc, msg)
      BY <2>1 DEF Handle, HandleRepoMount, Apply
    <3>. QED BY <1>0, <2>1, <3>1 DEF StartMount, Document
  <2>2. CASE msg.type = "mount-remove"
    <3>1. doc' = StartRemove(doc, m)
      BY <2>2 DEF Handle, HandleRepoMount, Apply
    <3>. QED BY <1>0, <2>2, <3>1 DEF StartRemove, Document
  <2>. QED BY <2>1, <2>2
<1>4. h.mount = m /\ h.at # "directory"
  OBVIOUS
<1>5. Handlers' = Handlers \cup {h}
  BY <1>3 DEF Handlers
<1>6. Busy(doc, m) <=> \E g \in Handlers : g.mount = m
  BY DEF Busy, Handlers
<1>7. Early'
  BY <1>3 DEF Informed, Early
<1>8. Real'
  <2>1. \A a \in doc'.adding : a \in doc.adding \/ (a = h /\ msg.type = "mount-add")
    BY <1>3
  <2>2. msg.type = "mount-add" => h.fs # None
    BY DEF Delivers, Unreal
  <2> HIDE DEF h
  <2>. QED BY <1>3, <2>1, <2>2 DEF Informed, Real, Delivers
<1>9. Knows' /\ KnowsRepo'
  <2>1. \A s \in Services : msg # PushMessage(s)
    BY DEF PushMessage
  <2>2. msg # [type |-> "repo-mount"]
    OBVIOUS
  <2>. QED BY <1>3, <2>1, <2>2 DEF Informed, Knows, KnowsRepo, Delivers
<1>10. Described'
  <2> HIDE DEF h
  <2>. QED BY <1>3, <1>5 DEF Informed, Described
<1>11. OneAtATime'
  <2> HIDE DEF h, m
  <2>1. /\ \A n \in Mounts \ doc'.crossed : n \in Mounts \ doc.crossed
        /\ m \notin doc'.crossed => \A g \in Handlers : g.mount # m
    BY <1>3, <1>6
  <2>. QED BY <1>3, <1>4, <1>5, <2>1 DEF Informed, OneAtATime
<1>12. AllTold'
  <2> SUFFICES ASSUME ~destroyed', NEW n \in Mounts
               PROVE  Told(n)'
    BY DEF AllTold
  <2>1. Told(n)
    BY DEF Informed, AllTold, Delivers
  <2>2. doc.gated = <<>>
    BY DEF Informed, Early
  <2>3. Silent(doc.gated, About(n))' /\ ~EndsIn(doc.gated, About(n), MountMessage(n))
    <3>1. 1 .. Len(doc.gated) = {}
      BY <2>2
    <3>. QED BY <1>3, <3>1 DEF Silent, EndsIn
  <2>4. CASE n # m
    <3>1. msg # MountMessage(n)
      BY <2>4 DEF MountMessage
    <3>2. MountRight(n) => MountRight(n)'
      <4>1. /\ \A a \in doc'.adding : a.mount = n => a \in doc.adding
            /\ \A a \in doc.adding : a \in doc'.adding
            /\ \A r \in doc.removing : r \in doc'.removing
            /\ \A g \in Handlers' : g.mount = n => g \in Handlers
        BY <1>3, <1>4, <1>5, <2>4
      <4>. QED BY <1>3, <4>1 DEF MountRight, Delivers
    <3>3. n \in doc.crossed => n \in doc'.crossed
      BY <1>3
    <3>. QED BY <2>1, <2>3, <3>1, <3>2, <3>3 DEF Told, Delivers
  <2>5. CASE n = m
    <3>1. \/ EndsIn(toDoc, About(m), MountMessage(m))'
          \/ msg = MountMessage(m) /\ Silent(toDoc, About(m))'
      BY <1>2, <2>1, <2>5 DEF Told, Delivers
    <3>2. msg = MountMessage(m) => m \in doc'.crossed \/ MountRight(m)'
      <4> SUFFICES ASSUME msg = MountMessage(m), m \notin doc'.crossed
                   PROVE  MountRight(m)'
        OBVIOUS
      <4>1. \A g \in Handlers : g.mount # m
        BY <1>3, <1>6
      <4>2. Mounted(m)' <=> Mounted(m)
        BY <1>1 DEF Delivers
      <4>3. CASE Mounted(m)
        <5>1. msg.type = "mount-add" /\ msg.fs = hostMounts[m].fs /\ msg.mode = hostMounts[m].mode
          BY <4>3 DEF MountMessage
        <5>2. h \in doc'.adding /\ h.fs = hostMounts[m].fs /\ h.mode = hostMounts[m].mode
          BY <1>3, <5>1
        <5> HIDE DEF h
        <5>. QED BY <1>4, <4>2, <4>3, <5>2 DEF MountRight, Delivers
      <4>4. CASE ~Mounted(m)
        <5>1. msg.type = "mount-remove"
          BY <4>4 DEF MountMessage
        <5>2. h \in doc'.removing /\ h.at = "hooks" /\ doc'.adding = doc.adding
          BY <1>3, <5>1
        <5> HIDE DEF h
        <5>. QED BY <1>4, <4>1, <4>2, <4>4, <5>2 DEF MountRight, Handlers
      <4>. QED BY <4>3, <4>4
    <3>. QED BY <2>3, <2>5, <3>1, <3>2 DEF Told
  <2>. QED BY <2>4, <2>5
<1>. QED BY <1>7, <1>8, <1>9, <1>10, <1>11, <1>12 DEF Informed

LEMMA ReceiveInformed ==
  ASSUME Typed, Informed, Heeds, Receive
  PROVE  Informed'
<1> DEFINE msg == Head(toDoc)
<1>1. Delivers(msg)
  BY Delivery
<1>2. \/ doc.stage \in {"loading", "blank"} /\ doc' = doc
      \/ ~Registered /\ msg.type # "register-frame" /\ doc' = doc
      \/ /\ doc' = Handle(doc, msg) /\ doc.stage \notin {"loading", "blank"}
         /\ msg.type = "register-frame" \/ Registered
  BY DEF Receive
<1>3. doc \in Document /\ msg \in ToDoc
  BY <1>1 DEF Typed, Delivers
<1>4. msg.type \in {"register-frame", "fs-change", "mount-add", "mount-remove", "push", "repo-mount"}
  BY <1>3 DEF ToDoc, Registration, Gated, Change, MountAdd, MountRemove, Push, RepoMount
<1> HIDE DEF msg
<1>5. doc' = Handle(doc, msg) /\ (msg.type = "register-frame" \/ Registered) => Registered'
  <2>1. doc.registrations \in Nat
    BY <1>3 DEF Document
  <2>2. ASSUME doc' = Handle(doc, msg), msg.type = "register-frame"
        PROVE  Registered'
    <3>1. doc'.registrations = doc.registrations + 1
      BY <1>3, <2>2 DEF Handle, HandleRepoMount, TakeRegistration, Document
    <3>. QED BY <2>1, <3>1 DEF Registered
  <2>3. ASSUME doc' = Handle(doc, msg), msg.type # "register-frame", Registered
        PROVE  Registered'
    <3>1. doc'.registrations = doc.registrations
      BY <1>3, <2>3, HandleKeeps
    <3>. QED BY <2>3, <3>1 DEF Registered
  <2>. QED BY <2>2, <2>3
<1>6. CASE doc' = doc /\ ~Registered
  BY <1>1, <1>6, DroppedInformed
<1>7. CASE doc' = Handle(doc, msg) /\ doc.stage \notin {"loading", "blank"}
           /\ (msg.type = "register-frame" \/ Registered)
  <2>1. CASE msg.type \in {"register-frame", "push", "repo-mount"} \/ (msg.type = "fs-change" /\ doc.stage = "ready")
    BY <1>1, <1>5, <1>7, <2>1, LightInformed
  <2>2. CASE msg.type \in {"fs-change", "mount-add", "mount-remove"} /\ doc.stage # "ready"
    BY <1>1, <1>7, <2>2, GatedInformed
  <2>3. CASE msg.type \in {"mount-add", "mount-remove"} /\ doc.stage = "ready"
    BY <1>1, <1>7, <2>3, StartInformed
  <2>. QED BY <1>4, <2>1, <2>2, <2>3
<1>. QED BY <1>2, <1>6, <1>7 DEF Heeds

\* The document becomes ready: the handlers of what waited start together.
LEMMA ReadyInformed ==
  ASSUME Typed, Informed, BecomeReady
  PROVE  Informed'
<1> DEFINE d == [doc EXCEPT !.stage = "ready", !.memo = doc.config]
           q == doc.gated
           Add(msg) == [mount |-> msg.mount, fs |-> msg.fs, mode |-> msg.mode, at |-> "connect"]
           Taken(msg) == [mount |-> msg.mount, at |-> "hooks"]
           adding == {Add(msg) : msg \in {msg \in Range(q) : msg.type = "mount-add"}}
           removing == {Taken(msg) : msg \in {msg \in Range(q) : msg.type = "mount-remove"}}
           Of(m) == {i \in DOMAIN q : q[i].type # "fs-change" /\ q[i].mount = m}
           crossed == {m \in Mounts : \E i, j \in Of(m) : i # j}
<1>0. doc \in Document /\ q \in Seq(Gated) /\ doc.stage = "setup"
  BY DEF Typed, Document, BecomeReady
<1>1. UNCHANGED <<destroyed, hostMounts, pushed, toDoc, toHost>> /\ doc' = ApplyGated(d)
  BY DEF BecomeReady, hostVars, worldVars
<1>2. /\ doc.adding = {} /\ doc.removing = {} /\ doc.crossed = {}
      /\ doc.table = {} /\ doc.seen = {} /\ \A m \in Mounts : doc.mounted[m] = None
  BY <1>0 DEF Informed, Early
<1>3. /\ d \in Document /\ d.gated = q /\ d.mounted = doc.mounted /\ d.adding = {} /\ d.removing = {}
      /\ d.table = {} /\ d.seen = {} /\ d.crossed = {} /\ d.stage = "ready" /\ d.repo = doc.repo
      /\ d.known = doc.known
  BY <1>0, <1>2 DEF Document, Stage
<1> HIDE DEF d
<1>4. /\ doc'.mounted = doc.mounted /\ doc'.table = {} /\ doc'.seen = {} /\ doc'.stage = "ready"
      /\ doc'.repo = doc.repo /\ doc'.known = doc.known /\ doc'.gated = <<>>
      /\ doc'.crossed = crossed /\ doc'.adding = adding /\ doc'.removing = removing
  <2> DEFINE memo == [f \in Files |->
               IF \E msg \in {msg \in Range(d.gated) : msg.type = "fs-change"} : msg.file = f
                 THEN None ELSE d.memo[f]]
  <2>1. ApplyGated(d) =
          [d EXCEPT !.memo = memo,
             !.crossed = @ \cup {m \in Mounts :
                \E i, j \in {i \in DOMAIN d.gated : d.gated[i].type # "fs-change" /\ d.gated[i].mount = m} : i # j},
             !.adding = @ \cup {Add(msg) : msg \in {msg \in Range(d.gated) : msg.type = "mount-add"}},
             !.removing = @ \cup {Taken(msg) : msg \in {msg \in Range(d.gated) : msg.type = "mount-remove"}},
             !.gated = <<>>]
    BY Zenon DEF ApplyGated
  <2> DEFINE X == {m \in Mounts :
                \E i, j \in {i \in DOMAIN d.gated : d.gated[i].type # "fs-change" /\ d.gated[i].mount = m} : i # j}
             A == {Add(msg) : msg \in {msg \in Range(d.gated) : msg.type = "mount-add"}}
             R == {Taken(msg) : msg \in {msg \in Range(d.gated) : msg.type = "mount-remove"}}
  <2>2. X = crossed /\ A = adding /\ R = removing
    BY <1>3
  <2> HIDE DEF memo, X, A, R, crossed, adding, removing
  <2>3. ApplyGated(d) = [d EXCEPT !.memo = memo, !.crossed = d.crossed \cup X, !.adding = d.adding \cup A,
                                  !.removing = d.removing \cup R, !.gated = <<>>]
    BY <2>1 DEF X, A, R
  <2>. QED BY <1>1, <1>3, <2>2, <2>3 DEF Document
<1>5. /\ \A i \in 1 .. Len(q) : q[i] \in Gated /\ q[i] \in Range(q)
      /\ \A msg \in Range(q) : \E i \in 1 .. Len(q) : q[i] = msg
      /\ DOMAIN q = 1 .. Len(q)
  BY <1>0 DEF Range
<1>6. ASSUME NEW h \in Handlers'
      PROVE  \E i \in 1 .. Len(q) :
               /\ h.mount = q[i].mount /\ h.at # "directory" /\ q[i] \in About(h.mount)
               /\ \/ q[i].type = "mount-add" /\ h = Add(q[i]) /\ h \in adding
                  \/ q[i].type = "mount-remove" /\ h = Taken(q[i]) /\ h \in removing
  <2>1. CASE h \in adding
    <3>1. PICK msg \in Range(q) : msg.type = "mount-add" /\ h = Add(msg)
      BY <2>1
    <3>2. PICK i \in 1 .. Len(q) : q[i] = msg
      BY <1>5
    <3>3. msg \in MountAdd
      BY <1>5, <3>1, <3>2 DEF Gated, Change, MountRemove
    <3>4. msg \in About(h.mount)
      BY <3>1, <3>3 DEF MountAdd, About
    <3>. QED BY <2>1, <3>1, <3>2, <3>4
  <2>2. CASE h \in removing
    <3>1. PICK msg \in Range(q) : msg.type = "mount-remove" /\ h = Taken(msg)
      BY <2>2
    <3>2. PICK i \in 1 .. Len(q) : q[i] = msg
      BY <1>5
    <3>3. msg \in MountRemove
      BY <1>5, <3>1, <3>2 DEF Gated, Change, MountAdd
    <3>4. msg \in About(h.mount)
      BY <3>1, <3>3 DEF MountRemove, About
    <3>. QED BY <2>2, <3>1, <3>2, <3>4
  <2> HIDE DEF adding, removing
  <2>. QED BY <1>4, <2>1, <2>2 DEF Handlers
<1>7. ASSUME NEW m \in Mounts \ doc'.crossed, NEW i \in 1 .. Len(q), NEW j \in 1 .. Len(q),
             q[i].type # "fs-change", q[j].type # "fs-change", q[i].mount = m, q[j].mount = m
      PROVE  i = j
  BY <1>4, <1>5, <1>7
<1>8. Early' /\ Described'
  BY <1>4 DEF Early, Described
<1>9. OneAtATime'
  <2> SUFFICES ASSUME NEW m \in Mounts \ doc'.crossed
               PROVE  /\ \A g, h \in Handlers' : g.mount = m /\ h.mount = m => g = h
                      /\ \A h \in Handlers' : h.mount = m /\ h.at = "directory" => doc'.mounted[m] = None
    BY DEF OneAtATime
  <2>1. ASSUME NEW g \in Handlers', NEW h \in Handlers', g.mount = m, h.mount = m
        PROVE  g = h
    <3>1. PICK i \in 1 .. Len(q) :
             /\ g.mount = q[i].mount
             /\ \/ q[i].type = "mount-add" /\ g = Add(q[i])
                \/ q[i].type = "mount-remove" /\ g = Taken(q[i])
      BY <1>6
    <3>2. PICK j \in 1 .. Len(q) :
             /\ h.mount = q[j].mount
             /\ \/ q[j].type = "mount-add" /\ h = Add(q[j])
                \/ q[j].type = "mount-remove" /\ h = Taken(q[j])
      BY <1>6
    <3>3. i = j
      BY <1>7, <2>1, <3>1, <3>2
    <3>. QED BY <3>1, <3>2, <3>3
  <2>2. \A h \in Handlers' : h.at # "directory"
    BY <1>6
  <2>. QED BY <2>1, <2>2
<1>10. Real'
  <2>1. ASSUME NEW a \in doc'.adding
        PROVE  a.fs # None
    <3>1. PICK msg \in Range(q) : msg.type = "mount-add" /\ a = Add(msg)
      BY <1>4, <2>1
    <3>2. PICK i \in 1 .. Len(q) : q[i] = msg
      BY <1>5
    <3>3. ~Unreal(msg)
      BY <3>2 DEF Informed, Real
    <3>. QED BY <3>1, <3>3 DEF Unreal
  <2>2. 1 .. Len(doc'.gated) = {}
    BY <1>4
  <2>. QED BY <1>1, <2>1, <2>2 DEF Informed, Real, Mounted
<1>11. Knows' /\ KnowsRepo'
  <2>1. Knows'
    BY <1>0, <1>1, <1>4 DEF Informed, Knows, Late, EndsIn, Silent, PushOf, PushMessage, Asked, Posted
  <2>2. KnowsRepo'
    BY <1>0, <1>1, <1>4 DEF Informed, KnowsRepo, Asked, Posted
  <2>. QED BY <2>1, <2>2
<1>12. AllTold'
  <2> SUFFICES ASSUME ~destroyed', NEW m \in Mounts
               PROVE  Told(m)'
    BY DEF AllTold
  <2> DEFINE w == MountMessage(m)
  <2>1. w' = w /\ (Mounted(m)' <=> Mounted(m))
    BY <1>1 DEF MountMessage, Mounted
  <2>2. /\ EndsIn(toDoc, About(m), w)' <=> EndsIn(toDoc, About(m), w)
        /\ Silent(toDoc, About(m))' <=> Silent(toDoc, About(m))
        /\ Silent(doc.gated, About(m))'
    <3>1. 1 .. Len(doc'.gated) = {}
      BY <1>4
    <3>2. Silent(doc.gated, About(m))'
      BY <3>1 DEF Silent
    <3>. QED BY <1>1, <2>1, <3>2 DEF EndsIn, Silent, About, Mode
  <2>3. Told(m)
    BY <1>1 DEF Informed, AllTold
  <2>4. CASE EndsIn(toDoc, About(m), w)
    BY <2>2, <2>4 DEF Told
  <2>5. ASSUME EndsIn(q, About(m), w), m \notin doc'.crossed
        PROVE  MountRight(m)'
    <3>1. PICK k \in 1 .. Len(q) : q[k] = w
      BY <2>5 DEF EndsIn
    <3>2. w.mount = m /\ w.type # "fs-change"
      BY DEF MountMessage
    <3>3. CASE Mounted(m)
      <4>1. w.type = "mount-add" /\ w.fs = hostMounts[m].fs /\ w.mode = hostMounts[m].mode
        BY <3>3 DEF MountMessage
      <4>2. Add(w) \in adding /\ Add(w).mount = m /\ Add(w).fs = w.fs /\ Add(w).mode = w.mode
        BY <1>5, <3>1, <3>2, <4>1
      <4>. QED BY <1>1, <1>4, <2>1, <3>3, <4>1, <4>2 DEF MountRight
    <3>4. CASE ~Mounted(m)
      <4>1. w.type = "mount-remove"
        BY <3>4 DEF MountMessage
      <4>2. ASSUME NEW a \in doc'.adding, a.mount = m
            PROVE  FALSE
        <5>1. PICK msg \in Range(q) : msg.type = "mount-add" /\ a = Add(msg)
          BY <1>4, <4>2
        <5>2. PICK i \in 1 .. Len(q) : q[i] = msg
          BY <1>5
        <5>3. i = k
          BY <1>7, <2>5, <3>1, <3>2, <4>2, <5>1, <5>2
        <5>. QED BY <3>1, <4>1, <5>1, <5>2, <5>3
      <4>. QED BY <1>2, <1>4, <2>1, <3>4, <4>2 DEF MountRight
    <3>. QED BY <3>3, <3>4
  <2>6. ASSUME Silent(q, About(m)), MountRight(m)
        PROVE  MountRight(m)'
    <3>1. CASE Mounted(m)
      <4>1. Asked("mounts")
        BY <1>0, <1>2, <2>6, <3>1 DEF MountRight, Informed, Real, Late
      <4>2. Asked("mounts")'
        BY <1>1, <4>1 DEF Asked, Posted
      <4>. QED BY <2>1, <3>1, <4>2 DEF MountRight
    <3>2. CASE ~Mounted(m)
      <4>1. \A a \in doc'.adding : a.mount # m
        <5> SUFFICES ASSUME NEW a \in doc'.adding, a.mount = m
                     PROVE  FALSE
          OBVIOUS
        <5>1. a \in Handlers'
          BY DEF Handlers
        <5>2. PICK i \in 1 .. Len(q) : q[i] \in About(a.mount)
          BY <1>6, <5>1
        <5>. QED BY <2>6, <5>2 DEF Silent
      <4>. QED BY <1>2, <1>4, <2>1, <3>2, <4>1 DEF MountRight
    <3>. QED BY <3>1, <3>2
  <2>7. CASE Silent(toDoc, About(m)) /\ EndsIn(q, About(m), w)
    BY <2>2, <2>5, <2>7 DEF Told
  <2>8. CASE Silent(toDoc, About(m)) /\ Silent(q, About(m)) /\ (m \in doc.crossed \/ MountRight(m))
    BY <1>2, <2>2, <2>6, <2>8 DEF Told
  <2>. QED BY <2>3, <2>4, <2>7, <2>8 DEF Told
<1>. QED BY <1>8, <1>9, <1>10, <1>11, <1>12 DEF Informed

LEMMA StepInformed ==
  ASSUME Typed, Typed', Informed, Heeds, [Next]_vars
  PROVE  Informed'
BY AsideInformed, HostMountsInformed, HostPushesInformed, HearRequestInformed, NewInformed,
   HandlerMoves, HandlerEnds, ReceiveInformed, ReadyInformed DEF Next, Environment, System

LEMMA InformedAgrees ==
  ASSUME Typed, Informed
  PROVE  HostStateInSync
<1>1. TableAgrees
  <2>1. doc.seen = doc.table
    BY DEF Informed, Described
  <2>2. ASSUME AtRest, NEW x \in doc.table
        PROVE  x.mount \in {m \in Mounts : doc.mounted[m] # None}
    <3>1. x.mount \in Mounts
      <4>1. doc.table \subseteq Descriptor
        BY DEF Typed, Document
      <4>. QED BY <4>1 DEF Descriptor
    <3>2. Handlers = {}
      BY <2>2 DEF AtRest, Handlers
    <3>. QED BY <3>1, <3>2 DEF Informed, Described
  <2>. QED BY <2>1, <2>2 DEF TableAgrees
<1>2. ASSUME AtRest
      PROVE  /\ doc.known = pushed
             /\ doc.repo
             /\ \A m \in Mounts \ doc.crossed :
                  IF Mounted(m)
                    THEN /\ doc.mounted[m] = hostMounts[m].fs
                         /\ [mount |-> m, mode |-> hostMounts[m].mode] \in doc.table
                    ELSE doc.mounted[m] = None
  <2>1. /\ doc.stage = "ready" /\ ~destroyed /\ 1 .. Len(toHost) = {} /\ 1 .. Len(toDoc) = {}
        /\ Handlers = {} /\ doc.adding = {} /\ doc.removing = {}
    BY <1>2 DEF AtRest, Handlers
  <2>2. /\ \A type : ~Asked(type)
        /\ \A about, msg : ~EndsIn(toDoc, about, msg) /\ ~Posted(toDoc, msg)
    BY <2>1 DEF Asked, Posted, EndsIn
  <2>3. doc.known \in [Services -> Nat] /\ pushed \in [Services -> Nat]
    BY DEF Typed, Document
  <2>4. doc.known = pushed
    <3>1. \A s \in Services : doc.known[s] = pushed[s]
      BY <2>1, <2>2 DEF Informed, Knows, Late
    <3>. QED BY <2>3, <3>1
  <2>5. doc.repo
    BY <2>1, <2>2 DEF Informed, KnowsRepo
  <2>6. doc.gated = <<>>
    BY <2>1 DEF Informed, Early
  <2>7. \A about, msg : ~EndsIn(doc.gated, about, msg)
    <3>1. 1 .. Len(doc.gated) = {}
      BY <2>6
    <3>. QED BY <3>1 DEF EndsIn
  <2>8. \A m \in Mounts \ doc.crossed : MountRight(m)
    BY <2>1, <2>2, <2>7 DEF Informed, AllTold, Told
  <2>. QED BY <2>1, <2>2, <2>4, <2>5, <2>8 DEF MountRight, Late
<1>. QED BY <1>1, <1>2 DEF HostStateInSync

\* At rest a document has the host's state: every pushed value, the repo's address, and every
\* mount, with its mode, none of whose messages met an unfinished handler; and an app is never
\* told of a mount that is not there (handleMountAdd, handleMountRemove, MountService).
THEOREM HostStateStaysInSync == Spec => []HostStateInSync
<1>1. Init => Informed
  <2> SUFFICES ASSUME Init PROVE Informed
    OBVIOUS
  <2>1. /\ doc.stage = "blank" /\ doc.adding = {} /\ doc.removing = {}
        /\ doc.crossed = {} /\ doc.table = {} /\ doc.seen = {} /\ doc.gated = <<>>
        /\ \A m \in Mounts : doc.mounted[m] = None /\ ~Mounted(m)
    BY DEF Init, NewDocument, Mounted
  <2>2. 1 .. Len(toDoc) = {} /\ 1 .. Len(doc.gated) = {}
    BY <2>1 DEF Init
  <2>3. Knows /\ KnowsRepo /\ Early /\ Described /\ OneAtATime /\ Real
    BY <2>1, <2>2 DEF Knows, KnowsRepo, Late, Early, Described, OneAtATime, Handlers, Real
  <2>4. AllTold
    BY <2>1, <2>2 DEF AllTold, Told, Silent, MountRight
  <2>. QED BY <2>3, <2>4 DEF Informed
<1>2. Init => InSync /\ Heeds
  BY InitInSync
<1>. QED BY <1>1, <1>2, TypeCorrect, StepInSync, StepInformed, InformedAgrees, PTL DEF Spec
-----------------------------------------------------------------------------
(* Every document is served *)

ReloadRequest == [type |-> "request-refresh", registered |-> TRUE]
FirstWords == [type : {"initialized"}, registered : BOOLEAN]

\* A document that waits for its port has an `initialized` that is not heard, a handler of
\* it that is in force, or a registration on its way.
BootGoesOn ==
  loading = "none" /\ doc.stage = "waiting" /\ ~doc.port =>
    Boots(toHost) # {} \/ (\E c \in connecting : c.version = version) \/ ~NoFrames

\* The request of a document for another page is behind every `initialized`, and by the time
\* those are heard no boot is expected any more.
ReloadGoesOn ==
  /\ guard.expected <= Unheard + (IF loading = "ours" THEN 1 ELSE 0)
  /\ loading = "none" /\ doc.reloading => EndsIn(toHost, FirstWords, ReloadRequest)

UnderWay ==
  /\ ~destroyed => loading # "blank" /\ (doc.stage = "blank" => loading # "none")
  /\ doc.reloading => doc.stage = "ready"
  /\ ~destroyed /\ ~history.failed => BootGoesOn
  /\ ~destroyed /\ ~history.superseded => ReloadGoesOn

\* The guards of the steps System owes a document, but for those of its mounts.
GoesOn ==
  \/ loading # "none" \/ toHost # <<>> \/ toDoc # <<>> \/ connecting # {}
  \/ doc.stage \in {"loading", "mounting", "setup"}
  \/ doc.stage = "waiting" /\ doc.port

\* A document that has yet to be served is not alone.
NeverStranded == DocumentServed \/ GoesOn

LEMMA SomeBoots ==
  ASSUME NEW s \in Seq(ToHost)
  PROVE  Boots(s) # {} <=> Cardinality(Boots(s)) > 0
<1>1. Cardinality(Boots(s)) \in Nat /\ (Cardinality(Boots(s)) = 0 <=> Boots(s) = {})
  BY BootsFinite, FS_EmptySet
<1>. QED BY <1>1

LEMMA FramesStay ==
  ASSUME Typed, ~NoFrames,
         \/ toDoc' = toDoc
         \/ \E msg \in ToDoc : toDoc' = Append(toDoc, msg)
         \/ \E r \in Seq(ToDoc) : toDoc' = toDoc \o r
         \/ toDoc # <<>> /\ Head(toDoc).type # "register-frame" /\ toDoc' = Tail(toDoc)
  PROVE  ~NoFrames'
<1>0. toDoc \in Seq(ToDoc)
  BY DEF Typed
<1>1. PICK i \in 1 .. Len(toDoc) : toDoc[i].type = "register-frame"
  BY DEF NoFrames
<1>2. CASE toDoc' = toDoc
  BY <1>1, <1>2 DEF NoFrames
<1>3. ASSUME NEW r \in Seq(ToDoc), toDoc' = toDoc \o r
      PROVE  ~NoFrames'
  <2>1. i \in 1 .. Len(toDoc') /\ toDoc'[i] = toDoc[i]
    BY <1>0, <1>1, <1>3
  <2>. QED BY <1>1, <2>1 DEF NoFrames
<1>5. ASSUME NEW msg \in ToDoc, toDoc' = Append(toDoc, msg)
      PROVE  ~NoFrames'
  <2>1. i \in 1 .. Len(toDoc') /\ toDoc'[i] = toDoc[i]
    BY <1>0, <1>1, <1>5
  <2>. QED BY <1>1, <2>1 DEF NoFrames
<1>4. CASE toDoc # <<>> /\ Head(toDoc).type # "register-frame" /\ toDoc' = Tail(toDoc)
  <2>1. i # 1
    BY <1>0, <1>1, <1>4
  <2>2. i - 1 \in 1 .. Len(toDoc') /\ toDoc'[i - 1] = toDoc[i]
    BY <1>0, <1>1, <1>4, <2>1
  <2>. QED BY <1>1, <2>2 DEF NoFrames
<1>. QED BY <1>2, <1>3, <1>4, <1>5

LEMMA RequestStays ==
  ASSUME Typed, EndsIn(toHost, FirstWords, ReloadRequest),
         \/ toHost' = toHost
         \/ toHost # <<>> /\ Head(toHost) # ReloadRequest /\ toHost' = Tail(toHost)
  PROVE  EndsIn(toHost', FirstWords, ReloadRequest)
<1>1. CASE toHost' = toHost
  BY <1>1
<1>2. CASE toHost # <<>> /\ Head(toHost) # ReloadRequest /\ toHost' = Tail(toHost)
  <2>1. toHost \in Seq(ToHost)
    BY DEF Typed
  <2>. QED BY <1>2, <2>1, Shortened
<1>. QED BY <1>1, <1>2

\* The step of a document, or one that leaves it alone.
LEMMA QuietGoesOn ==
  ASSUME Typed, Typed', UnderWay, Quiet,
         doc'.stage = "waiting" => doc.stage = "waiting" /\ doc'.port = doc.port,
         doc'.stage = "waiting" /\ ~NoFrames => ~NoFrames',
         doc'.stage = "blank" => doc.stage = "blank",
         doc'.reloading => doc'.stage = "ready",
         loading = "none" /\ doc'.reloading /\ ~destroyed =>
           EndsIn(toHost', FirstWords, ReloadRequest) \/ (doc.reloading
             /\ \/ toHost' = toHost
                \/ toHost # <<>> /\ Head(toHost) # ReloadRequest /\ toHost' = Tail(toHost))
  PROVE  UnderWay'
<1>1. UNCHANGED <<guard, version, destroyed, connecting, loading>> /\ history' = history
      /\ Unheard' = Unheard
  BY DEF Quiet
<1>2. ~destroyed /\ ~history.failed => BootGoesOn'
  <2> SUFFICES ASSUME ~destroyed, ~history.failed, loading = "none", doc'.stage = "waiting", ~doc'.port
               PROVE  Boots(toHost') # {} \/ (\E c \in connecting : c.version = version) \/ ~NoFrames'
    BY <1>1 DEF BootGoesOn
  <2>1. Boots(toHost) # {} \/ (\E c \in connecting : c.version = version) \/ ~NoFrames
    BY DEF UnderWay, BootGoesOn
  <2>2. Boots(toHost) # {} => Boots(toHost') # {}
    <3>1. toHost \in Seq(ToHost) /\ toHost' \in Seq(ToHost)
      BY DEF Typed
    <3>2. /\ Cardinality(Boots(toHost)) \in Nat /\ Cardinality(Boots(toHost')) \in Nat
          /\ Boots(toHost) # {} <=> Cardinality(Boots(toHost)) > 0
          /\ Boots(toHost') # {} <=> Cardinality(Boots(toHost')) > 0
      BY <3>1, BootsFinite, SomeBoots
    <3>3. Unheard = Cardinality(Boots(toHost)) + 0
      BY DEF Unheard
    <3>4. Unheard' = Cardinality(Boots(toHost')) + 0
      BY DEF Unheard
    <3>. QED BY <1>1, <3>2, <3>3, <3>4
  <2>. QED BY <2>1, <2>2
<1>3. ~destroyed /\ ~history.superseded => ReloadGoesOn'
  BY <1>1, RequestStays DEF UnderWay, ReloadGoesOn
<1>. QED BY <1>1, <1>2, <1>3 DEF UnderWay

\* Steps that start, hear and register no document.
LEMMA AloneGoesOn ==
  ASSUME Typed, Typed', UnderWay, Heeds,
         \/ TakeSnapshot \/ HearRequest \/ PortArrives \/ MountApp \/ BecomeReady \/ RequestRefresh
         \/ \E f \in Files : Edit(f) \/ Read(f)
         \/ \E m \in Mounts : HostMounts(m)
         \/ \E s \in Services : HostPushes(s)
         \/ \E a \in doc.adding : MountAnswers(a) \/ MountTimesOut(a) \/ MountPlaced(a)
         \/ \E r \in doc.removing : MountTaken(r) \/ MountForgotten(r)
         \/ UNCHANGED vars
  PROVE  UnderWay'
<1>0. doc \in Document /\ toHost \in Seq(ToHost) /\ toDoc \in Seq(ToDoc) /\ toDoc' \in Seq(ToDoc)
  BY DEF Typed
<1>1. Quiet
  BY QuietSteps
<1>2. ASSUME doc'.stage = doc.stage, doc'.port = doc.port, doc'.reloading = doc.reloading,
             \/ toHost' = toHost
             \/ toHost # <<>> /\ Head(toHost) # ReloadRequest /\ toHost' = Tail(toHost),
             ~NoFrames => ~NoFrames'
      PROVE  UnderWay'
  BY <1>1, <1>2, QuietGoesOn DEF UnderWay
<1>3. CASE TakeSnapshot \/ (\E f \in Files : Edit(f)) \/ (\E m \in Mounts : HostMounts(m))
           \/ (\E s \in Services : HostPushes(s)) \/ UNCHANGED vars
  <2>1. doc' = doc /\ toHost' = toHost
    BY <1>3 DEF TakeSnapshot, Edit, HostMounts, HostPushes, vars
  <2>2. toDoc' = toDoc \/ \E msg : toDoc' = Append(toDoc, msg)
    BY <1>3 DEF TakeSnapshot, Edit, HostMounts, HostPushes, Dispatch, vars
  <2>3. \A i \in 1 .. Len(toDoc) : i \in 1 .. Len(toDoc') /\ toDoc'[i] = toDoc[i]
    BY <1>0, <2>2
  <2>4. ~NoFrames => ~NoFrames'
    BY <2>3 DEF NoFrames
  <2>. QED BY <1>2, <2>1, <2>4
<1>4. CASE HearRequest
  <2>1. doc' = doc /\ toHost # <<>> /\ toHost' = Tail(toHost) /\ Head(toHost).type \in Requests
    BY <1>4 DEF HearRequest
  <2>2. Head(toHost) # ReloadRequest
    BY <2>1 DEF ReloadRequest, Requests
  <2>3. ~NoFrames => ~NoFrames'
    BY <1>4, AnswersRegisterNone, FramesStay
  <2>. QED BY <1>2, <2>1, <2>2, <2>3
<1>5. CASE PortArrives \/ MountApp
  <2>1. /\ doc.stage \in {"waiting", "mounting"} /\ doc'.stage \in {"mounting", "setup"}
        /\ doc'.reloading = doc.reloading
    BY <1>0, <1>5 DEF PortArrives, MountApp, Document
  <2>2. ~doc'.reloading
    BY <2>1 DEF UnderWay
  <2>. QED BY <1>1, <2>1, <2>2, QuietGoesOn
<1>6. CASE BecomeReady
  <2>1. doc.stage = "setup" /\ doc'.stage = "ready" /\ doc'.reloading = doc.reloading
    <3>1. [doc EXCEPT !.stage = "ready", !.memo = doc.config] \in Document
      BY <1>0 DEF Document, Stage
    <3>. QED BY <1>0, <1>6, <3>1 DEF BecomeReady, ApplyGated, Document
  <2>2. ~doc'.reloading
    BY <2>1 DEF UnderWay
  <2>. QED BY <1>1, <2>1, <2>2, QuietGoesOn
<1>7. CASE RequestRefresh
  <2>1. /\ doc.stage = "ready" /\ doc'.stage = "ready"
        /\ toHost' = Append(toHost, Message("request-refresh"))
    BY <1>0, <1>7 DEF RequestRefresh, Document
  <2>2. Message("request-refresh") = ReloadRequest
    BY <2>1 DEF Message, ReloadRequest, Heeds, Registered
  <2>3. EndsIn(toHost', FirstWords, ReloadRequest)
    <3>1. toHost' = Append(toHost, ReloadRequest) /\ ReloadRequest \notin FirstWords
      BY <2>1, <2>2 DEF ReloadRequest, FirstWords
    <3> HIDE DEF ReloadRequest
    <3>2. Len(toHost') = Len(toHost) + 1 /\ toHost'[Len(toHost')] = ReloadRequest /\ Len(toHost') \in 1 .. Len(toHost')
      BY <1>0, <3>1
    <3>. QED BY <3>1, <3>2 DEF EndsIn
  <2>. QED BY <1>1, <2>1, <2>3, QuietGoesOn
<1>8. CASE \E f \in Files : Read(f)
  BY <1>0, <1>2, <1>8 DEF Read, NoFrames, Document
<1>9. ASSUME NEW a \in doc.adding, MountAnswers(a) \/ MountTimesOut(a) \/ MountPlaced(a)
      PROVE  UnderWay'
  <2>1. doc'.stage = doc.stage /\ doc'.port = doc.port /\ doc'.reloading = doc.reloading
    <3>1. CASE MountAnswers(a)
      BY ZenonT(60), <1>0, <3>1 DEF MountAnswers, Document
    <3>2. CASE MountTimesOut(a)
      BY ZenonT(60), <1>0, <3>2 DEF MountTimesOut, Document
    <3>3. CASE MountPlaced(a)
      BY ZenonT(60), <1>0, <3>3 DEF MountPlaced, SetMounts, Document
    <3>. QED BY <1>9, <3>1, <3>2, <3>3
  <2>2. toHost' = toHost /\ toDoc' = toDoc
    BY Zenon, <1>9 DEF MountAnswers, MountTimesOut, MountPlaced
  <2>3. NoFrames' = NoFrames
    BY <2>2 DEF NoFrames
  <2>. QED BY <1>2, <2>1, <2>2, <2>3
<1>10. ASSUME NEW r \in doc.removing, MountTaken(r) \/ MountForgotten(r)
       PROVE  UnderWay'
  <2>1. doc'.stage = doc.stage /\ doc'.port = doc.port /\ doc'.reloading = doc.reloading
    <3>1. CASE MountTaken(r)
      BY ZenonT(60), <1>0, <3>1 DEF MountTaken, Document
    <3>2. CASE MountForgotten(r)
      BY ZenonT(60), <1>0, <3>2 DEF MountForgotten, SetMounts, Document
    <3>. QED BY <1>10, <3>1, <3>2
  <2>2. toHost' = toHost /\ toDoc' = toDoc
    BY Zenon, <1>10 DEF MountTaken, MountForgotten
  <2>3. NoFrames' = NoFrames
    BY <2>2 DEF NoFrames
  <2>. QED BY <1>2, <2>1, <2>2, <2>3
<1>. QED BY <1>3, <1>4, <1>5, <1>6, <1>7, <1>8, <1>9, <1>10

\* A request for another page that is not honoured is not the last one of a document that
\* waits for one.
LEMMA RequestHeard ==
  ASSUME Typed, Typed', UnderWay, HearRequestRefresh, ~SetLocationURL
  PROVE  UnderWay'
<1>0. toHost \in Seq(ToHost) /\ toHost # <<>> /\ toHost' = Tail(toHost)
      /\ Head(toHost).type = "request-refresh" /\ UNCHANGED <<destroyed, doc, toDoc>>
  BY DEF Typed, HearRequestRefresh
<1>1. Quiet
  BY QuietSteps
<1>2. CASE Head(toHost) # ReloadRequest \/ destroyed \/ ~doc.reloading \/ loading # "none"
  <2>1. NoFrames' = NoFrames
    BY <1>0 DEF NoFrames
  <2>. QED BY <1>0, <1>1, <1>2, <2>1, QuietGoesOn DEF UnderWay
<1>3. CASE Head(toHost) = ReloadRequest /\ ~destroyed /\ doc.reloading /\ loading = "none"
  <2>1. guard.expected > 0 /\ guard.expected \in Nat
    BY <1>3 DEF HearRequestRefresh, OnChannel, ReloadRequest, Typed
  <2>2. doc.stage = "ready"
    BY <1>3 DEF UnderWay
  <2>3. ASSUME ~history.superseded
        PROVE  EndsIn(toHost', FirstWords, ReloadRequest)
    <3>1. EndsIn(toHost, FirstWords, ReloadRequest) /\ guard.expected <= Cardinality(Boots(toHost)) + 0 + 0
      BY <1>3, <2>2, <2>3 DEF UnderWay, ReloadGoesOn, Unheard
    <3>2. EndsIn(Tail(toHost), FirstWords, ReloadRequest)
            \/ (Head(toHost) = ReloadRequest /\ Silent(Tail(toHost), FirstWords))
      BY <1>0, <3>1, Shortened
    <3>3. ASSUME Silent(Tail(toHost), FirstWords)
          PROVE  FALSE
      <4>1. Tail(toHost) \in Seq(ToHost)
        BY <1>0
      <4>2. Boots(Tail(toHost)) = {}
        <5>1. ASSUME NEW i \in 1 .. Len(Tail(toHost)), Tail(toHost)[i].type = "initialized"
              PROVE  FALSE
          <6>1. Tail(toHost)[i] \in ToHost
            BY <4>1
          <6>2. Tail(toHost)[i] \in FirstWords
            BY <5>1, <6>1 DEF ToHost, FirstWords
          <6>. QED BY <3>3, <6>2 DEF Silent
        <5>. QED BY <5>1 DEF Boots
      <4>3. Cardinality(Boots(Tail(toHost))) = 0
        BY <4>2, FS_EmptySet
      <4>4. Cardinality(Boots(toHost)) = Cardinality(Boots(Tail(toHost))) + 0
        BY <1>0, BootsHeard
      <4>. QED BY <2>1, <3>1, <4>3, <4>4
    <3>. QED BY <1>0, <3>2, <3>3
  <2>4. /\ UNCHANGED <<guard, version, destroyed, connecting, loading>> /\ history' = history
        /\ Unheard' = Unheard
    BY <1>1 DEF Quiet
  <2>. QED BY <1>0, <2>2, <2>3, <2>4 DEF UnderWay, BootGoesOn, ReloadGoesOn
<1>. QED BY <1>2, <1>3

LEMMA ReceiveGoesOn ==
  ASSUME Typed, Typed', UnderWay, Heeds, Receive
  PROVE  UnderWay'
<1>0. /\ doc \in Document /\ toDoc \in Seq(ToDoc) /\ toDoc # <<>> /\ toDoc' = Tail(toDoc)
      /\ Head(toDoc) \in ToDoc /\ UNCHANGED <<hostVars, loading, toHost, history>>
  BY DEF Typed, Receive
<1>1. CASE Registering
  <2>1. Head(toDoc) \in Registration /\ Unheard' = Unheard /\ doc'.stage = doc.stage
        /\ doc.stage \notin {"loading", "blank"}
    BY <1>1, RegisteringDoes DEF Registering
  <2>2. doc' = TakeRegistration(doc, Head(toDoc))
    BY <1>1 DEF Registering, Receive, Handle, HandleRepoMount
  <2>3. doc'.port /\ doc'.reloading = doc.reloading
    BY <1>0, <2>2 DEF TakeRegistration, Document
  <2>. QED BY <1>0, <2>1, <2>3 DEF UnderWay, BootGoesOn, ReloadGoesOn, hostVars
<1>2. CASE ~Registering
  <2>1. Quiet
    BY <1>2, QuietSteps
  <2>2. /\ doc'.stage = doc.stage /\ doc'.port = doc.port /\ doc'.reloading = doc.reloading
        /\ doc.stage \in {"loading", "blank"} \/ Head(toDoc).type # "register-frame"
    <3>1. CASE doc' = doc /\ (doc.stage \in {"loading", "blank"} \/ Head(toDoc).type # "register-frame")
      BY <3>1
    <3>2. CASE doc' = Handle(doc, Head(toDoc)) /\ Head(toDoc).type # "register-frame"
      <4>1. doc'.stage = doc.stage
        BY <1>0, <3>2, HandleKeeps
      <4>2. doc'.port = doc.port /\ doc'.reloading = doc.reloading
        BY <1>0, <3>2 DEF Handle, HandleRepoMount, Apply, Forget, StartMount, StartRemove, Document
      <4>. QED BY <3>2, <4>1, <4>2
    <3>. QED BY <1>2, <3>1, <3>2 DEF Receive, Registering
  <2>3. doc.stage = "waiting" /\ ~NoFrames => ~NoFrames'
    BY <1>0, <2>2, FramesStay
  <2>. QED BY <1>0, <2>1, <2>2, <2>3, QuietGoesOn DEF UnderWay
<1>. QED BY <1>1, <1>2

\* The host navigates, and the browser does.
LEMMA NavigatingGoesOn ==
  ASSUME Typed, Typed', UnderWay, Heeds, Navigating \/ CommitNavigation \/ StrayNavigation
  PROVE  UnderWay'
<1>0. /\ Unheard \in Nat /\ guard.expected \in Nat /\ guard \in [expected : Nat, detached : BOOLEAN]
      /\ loading \in {"none", "ours", "blank"} /\ doc \in Document
  BY UnheardIs DEF Typed
<1>1. CASE Navigating
  <2>1. /\ Unheard' = Unheard /\ loading' = "ours" /\ UNCHANGED <<destroyed, doc>>
        /\ guard' = IF guard.detached THEN guard ELSE [guard EXCEPT !.expected = guard.expected + 1]
        /\ history'.superseded = (history.superseded \/ loading = "ours")
    BY <1>1, NavigatingUnheard DEF SetLocationURL, Typed
  <2>2. ~destroyed /\ ~history'.superseded => ReloadGoesOn'
    <3> SUFFICES ASSUME ~destroyed, ~history.superseded, loading # "ours"
                 PROVE  ReloadGoesOn'
      BY <2>1
    <3>1. guard.expected <= Unheard + 0
      BY <1>0 DEF UnderWay, ReloadGoesOn
    <3>2. guard'.expected <= Unheard + 1
      BY <1>0, <2>1, <3>1
    <3>. QED BY <2>1, <3>2 DEF ReloadGoesOn
  <2>. QED BY <2>1, <2>2 DEF UnderWay, BootGoesOn
<1>2. CASE CommitNavigation
  <2>1. /\ loading # "none" /\ loading' = "none" /\ UNCHANGED <<guard, destroyed>>
        /\ history'.superseded = (history.superseded \/ doc.stage = "loading")
        /\ doc'.stage = (IF loading = "blank" THEN "blank" ELSE "loading") /\ ~doc'.reloading
    BY <1>2 DEF CommitNavigation, Typed, hostVars, NewDocument
  <2>2. ~destroyed /\ ~history'.superseded => ReloadGoesOn'
    <3> SUFFICES ASSUME ~destroyed, ~history.superseded, doc.stage # "loading"
                 PROVE  ReloadGoesOn'
      BY <2>1
    <3>1. loading = "ours" /\ guard.expected <= Cardinality(Boots(toHost)) + 0 + 1
      BY <1>0, <2>1 DEF UnderWay, ReloadGoesOn, Unheard
    <3>2. Unheard' = Cardinality(Boots(toHost)) + 1 /\ Cardinality(Boots(toHost)) \in Nat
      BY <1>2, <3>1, CommitUnheard
    <3>. QED BY <1>0, <2>1, <3>1, <3>2 DEF ReloadGoesOn
  <2>. QED BY <1>0, <2>1, <2>2 DEF UnderWay, BootGoesOn
<1>3. CASE StrayNavigation
  <2>1. /\ loading = "none" /\ doc.stage \notin {"blank", "loading"}
        /\ UNCHANGED <<guard, destroyed, loading>> /\ history'.superseded = history.superseded
        /\ doc'.stage = "loading" /\ ~doc'.reloading
    BY <1>3 DEF StrayNavigation, Typed, hostVars, NewDocument
  <2>2. Unheard' = Cardinality(Boots(toHost)) + 1 /\ Cardinality(Boots(toHost)) \in Nat
        /\ Unheard = Cardinality(Boots(toHost)) + 0
    BY <1>3, <2>1, CommitUnheard DEF Unheard
  <2>. QED BY <1>0, <2>1, <2>2 DEF UnderWay, BootGoesOn, ReloadGoesOn
<1>. QED BY <1>1, <1>2, <1>3

LEMMA BootGoesOnStep ==
  ASSUME Typed, Typed', UnderWay, Boot
  PROVE  UnderWay'
<1>1. /\ doc.stage = "loading" /\ doc'.stage = "waiting" /\ doc'.reloading = doc.reloading
      /\ UNCHANGED <<hostVars, loading, history>> /\ toHost \in Seq(ToHost)
      /\ toHost' = Append(toHost, Message("initialized"))
  BY DEF Boot, Typed, Document
<1>2. Boots(toHost') # {}
  <2>1. Len(toHost') \in 1 .. Len(toHost') /\ toHost'[Len(toHost')].type = "initialized"
    BY <1>1 DEF Message
  <2>. QED BY <2>1 DEF Boots
<1>3. Unheard' = Unheard
  BY BootUnheardStays
<1>. QED BY <1>1, <1>2, <1>3 DEF UnderWay, BootGoesOn, ReloadGoesOn, hostVars

LEMMA HearInitializedGoesOn ==
  ASSUME Typed, Typed', UnderWay, HearInitialized
  PROVE  UnderWay'
<1>1. Unheard' = Unheard - 1 /\ Unheard' \in Nat /\ UNCHANGED <<history, doc, toDoc>>
      /\ toHost # <<>> /\ toHost' = Tail(toHost) /\ Head(toHost).type = "initialized"
  BY HeardUnheard DEF HearInitialized
<1>2. CASE destroyed'
  BY <1>1, <1>2 DEF UnderWay
<1>3. CASE ~destroyed'
  <2>1. ~destroyed /\ AcceptBoot
    BY <1>3 DEF HearInitialized, RefuseBoot, Destroy, hostVars
  <2>2. /\ guard' = [guard EXCEPT !.expected = guard.expected - 1]
        /\ connecting' = connecting \cup {[version |-> version', stage |-> "port"]}
        /\ UNCHANGED <<destroyed, loading>>
    BY <2>1 DEF AcceptBoot
  <2>3. \E c \in connecting' : c.version = version'
    <3> DEFINE new == [version |-> version', stage |-> "port"]
    <3>1. new.version = version' /\ new \in connecting'
      BY <2>2
    <3> HIDE DEF new
    <3>. QED BY <3>1
  <2>4. guard'.expected = guard.expected - 1 /\ guard.expected \in Nat /\ Unheard \in Nat
    BY <2>2, UnheardIs DEF Typed
  <2>5. EndsIn(toHost, FirstWords, ReloadRequest) => EndsIn(toHost', FirstWords, ReloadRequest)
    <3>1. Head(toHost) # ReloadRequest
      BY <1>1 DEF ReloadRequest
    <3>. QED BY <1>1, <3>1, RequestStays
  <2>. QED BY <1>1, <2>1, <2>2, <2>3, <2>4, <2>5 DEF UnderWay, BootGoesOn, ReloadGoesOn
<1>. QED BY <1>2, <1>3

LEMMA ConnectingGoesOn ==
  ASSUME Typed, Typed', UnderWay, NEW c \in connecting,
         ConnectFails(c) \/ PortConnected(c) \/ Register(c)
  PROVE  UnderWay'
<1>1. /\ Unheard' = Unheard /\ UNCHANGED <<guard, version, destroyed, loading, doc, toHost>>
      /\ history'.superseded = history.superseded
      /\ history'.failed = (history.failed \/ (ConnectFails(c) /\ ~Stale(c)))
  <2>1. Unheard' = Unheard /\ UNCHANGED <<guard, version, destroyed, loading, doc, toHost>>
    BY ConnectingUnheard DEF Connecting
  <2>2. CASE ConnectFails(c)
    BY <2>1, <2>2 DEF ConnectFails, Typed, Stale
  <2>3. CASE ~ConnectFails(c)
    BY <2>1, <2>3 DEF PortConnected, Register, Typed
  <2>. QED BY <2>2, <2>3
<1>2. ASSUME ~destroyed, ~history'.failed,
             Boots(toHost) # {} \/ (\E d \in connecting : d.version = version) \/ ~NoFrames
      PROVE  Boots(toHost) # {} \/ (\E d \in connecting' : d.version = version) \/ ~NoFrames'
  <2>1. toDoc \in Seq(ToDoc) /\ toDoc' \in Seq(ToDoc)
    BY DEF Typed
  <2>2. CASE Register(c) /\ ~Stale(c)
    <3>1. toDoc' = Append(toDoc, RegisterFrame(c.version, InitConfig))
      BY <1>2, <2>2 DEF Register, Dispatch
    <3>2. RegisterFrame(c.version, InitConfig).type = "register-frame"
      BY DEF RegisterFrame
    <3> DEFINE msg == RegisterFrame(c.version, InitConfig)
    <3> HIDE DEF msg
    <3>3. Len(toDoc') \in 1 .. Len(toDoc') /\ toDoc'[Len(toDoc')] = msg
      BY <2>1, <3>1 DEF msg
    <3>. QED BY <3>2, <3>3 DEF NoFrames, msg
  <2>3. CASE ~(Register(c) /\ ~Stale(c))
    <3>1. toDoc' = toDoc
      BY <2>3 DEF ConnectFails, PortConnected, Register
    <3>2. \A d \in connecting \ {c} : d \in connecting'
      BY DEF ConnectFails, PortConnected, Register
    <3>3. c.version = version => \E d \in connecting' : d.version = version
      <4> SUFFICES ASSUME c.version = version
                   PROVE  \E d \in connecting' : d.version = version
        OBVIOUS
      <4>1. ~Stale(c)
        BY <1>2 DEF Stale
      <4>2. PortConnected(c)
        BY <1>1, <1>2, <2>3, <4>1
      <4>3. [c EXCEPT !.stage = "config"] \in connecting' /\ [c EXCEPT !.stage = "config"].version = version
        BY <4>1, <4>2 DEF PortConnected, Typed
      <4>. QED BY <4>3
    <3>4. NoFrames' = NoFrames
      BY <3>1 DEF NoFrames
    <3>. QED BY <1>2, <3>2, <3>3, <3>4
  <2>. QED BY <2>2, <2>3
<1>3. ~destroyed' /\ ~history'.failed => BootGoesOn'
  BY <1>1, <1>2 DEF UnderWay, BootGoesOn
<1>4. ~destroyed' /\ ~history'.superseded => ReloadGoesOn'
  BY <1>1 DEF UnderWay, ReloadGoesOn
<1>. QED BY <1>1, <1>3, <1>4 DEF UnderWay

LEMMA StepGoesOn ==
  ASSUME Typed, Typed', UnderWay, Heeds, [Next]_vars
  PROVE  UnderWay'
<1>1. HearRequestRefresh => UnderWay'
  BY RequestHeard, NavigatingGoesOn DEF Navigating
<1>2. HostRefresh => UnderWay'
  BY NavigatingGoesOn DEF Navigating
<1>. QED BY <1>1, <1>2, AloneGoesOn, ReceiveGoesOn, NavigatingGoesOn, BootGoesOnStep,
            HearInitializedGoesOn, ConnectingGoesOn DEF Next, Environment, System

LEMMA NobodyIsAlone ==
  ASSUME Typed, UnderWay
  PROVE  NeverStranded
<1> SUFFICES ASSUME ~DocumentServed, ~GoesOn PROVE FALSE
  BY DEF NeverStranded
<1>1. /\ ~destroyed /\ ~history.failed /\ ~history.superseded
      /\ loading = "none" /\ toHost = <<>> /\ toDoc = <<>> /\ connecting = {}
      /\ doc.stage \notin {"loading", "mounting", "setup"} /\ ~(doc.stage = "waiting" /\ doc.port)
      /\ doc.stage = "ready" => doc.reloading
  BY DEF DocumentServed, GoesOn
<1>2. doc.stage \in {"waiting", "ready"}
  BY <1>1 DEF UnderWay, Typed, Document, Stage
<1>3. 1 .. Len(toHost) = {} /\ 1 .. Len(toDoc) = {}
  BY <1>1
<1>4. ~EndsIn(toHost, FirstWords, ReloadRequest) /\ Boots(toHost) = {} /\ NoFrames
  BY <1>3 DEF EndsIn, Boots, NoFrames
<1>. QED BY <1>1, <1>2, <1>4 DEF UnderWay, BootGoesOn, ReloadGoesOn

\* A document that has yet to be served is never left alone: its `initialized`, its handler
\* or its registration is under way, or its request is, and will find no boot expected - unless
\* the client is destroyed, connecting failed, or a navigation was superseded. It is what
\* EveryDocumentIsServed needs beside fairness (runtime/index.ts, InitializationGuard).
THEOREM NobodyIsStranded == Spec => [](UnderWay /\ NeverStranded)
<1>1. Init => UnderWay
  <2> SUFFICES ASSUME Init PROVE UnderWay
    OBVIOUS
  <2>1. /\ doc.stage = "blank" /\ ~doc.reloading /\ loading = "ours" /\ guard.expected = 1
    BY DEF Init, NewDocument
  <2>. QED BY <2>1, InitUnheard DEF UnderWay, BootGoesOn, ReloadGoesOn
<1>2. Init => InSync /\ Heeds
  BY InitInSync
<1>. QED BY <1>1, <1>2, TypeCorrect, StepInSync, StepGoesOn, NobodyIsAlone, PTL DEF Spec

-----------------------------------------------------------------------------
(* The transports of a booted document *)

FetchSpec == FetchInit /\ [][FetchNext]_fetchVars
BusSpec == BusInit /\ [][BusNext]_busVars

Fetch == [at : {"none", "match", "waiting", "verify", "net", "store", "served", "failed"},
          body : Bodies \cup {NoBody}, count : Nat, from : {"none", "cache", "net"}]
ParentFetch == [at : {"none", "unheard", "match", "verify", "net", "store", "cached", "fresh",
                      "refusal", "done"},
                body : Bodies \cup {NoBody}]

FetchTyped ==
  /\ fetchSetup \in {"local", "parent", "old", "refuses"}
  /\ fetchNet \in Bodies
  /\ fetchCache \in Bodies \cup {NoBody}
  /\ fetchBridge \in BOOLEAN
  /\ fetchCalls \in [Fetches -> Fetch]
  /\ fetchParent \in [Fetches -> ParentFetch]

\* What is checked, stored or served is a body, here and at the parent; a cached one was
\* checked against the pin; and a call that is still trying has attempts left.
Checked(c) ==
  /\ fetchCalls[c].at \in {"verify", "store", "served"} => fetchCalls[c].body # NoBody
  /\ fetchParent[c].at \in {"verify", "store", "cached", "fresh"} => fetchParent[c].body # NoBody
  /\ fetchParent[c].at = "cached" => Matches(c, fetchParent[c].body)
  /\ fetchCalls[c].at = "served" /\ fetchCalls[c].from = "cache" => Matches(c, fetchCalls[c].body)
  /\ fetchCalls[c].count <= (IF fetchCalls[c].at = "failed" THEN FetchRetries + 1 ELSE FetchRetries)

\* An answer has a body, and one from a cache, this document's or the parent's, is what the
\* caller pinned: FetchSettled, and that a call is answered at all.
AnswersAreWhole ==
  \A c \in Fetches : fetchCalls[c].at = "served" =>
    fetchCalls[c].body \in Bodies /\ FetchSettled(c)

\* The stages of a call, in order.
FetchStage ==
  [none |-> 0, match |-> 1, waiting |-> 1, verify |-> 2, net |-> 3, store |-> 4,
   served |-> 5, failed |-> 5]

\* A call's stages are passed in order, none twice but the network's, each attempt of which is
\* counted: whatever the parent answers late, a call does not return to what it gave up.
Moved(call, next) ==
  \/ next = call
  \/ FetchStage[call.at] < FetchStage[next.at] /\ call.count <= next.count
  \/ call.at = "net" /\ next.at = "net" /\ call.count < next.count /\ next.count <= FetchRetries

FetchesMoveOn == \A c \in Fetches : Moved(fetchCalls[c], fetchCalls'[c])

\* What a step of c leaves to the others.
Alone(c) ==
  \A d \in Fetches \ {c} : fetchCalls'[d] = fetchCalls[d] /\ fetchParent'[d] = fetchParent[d]

FetchDoes(c) == FetchTyped' /\ Checked(c)' /\ Alone(c) /\ Moved(fetchCalls[c], fetchCalls'[c])

LEMMA CallBecomes ==
  ASSUME FetchTyped, NEW c \in Fetches, NEW next \in Fetch,
         fetchCalls' = [fetchCalls EXCEPT ![c] = next]
  PROVE  /\ fetchCalls' \in [Fetches -> Fetch]
         /\ fetchCalls'[c] = next
         /\ \A d \in Fetches \ {c} : fetchCalls'[d] = fetchCalls[d]
BY DEF FetchTyped

LEMMA DocumentFetches ==
  ASSUME FetchTyped, NEW c \in Fetches, Checked(c),
         \/ FetchStarts(c) \/ CacheMatch(c) \/ VerifyHit(c) \/ NetAnswers(c) \/ NetFails(c)
         \/ NetRefuses(c) \/ CachePut(c) \/ BridgeTimesOut(c)
  PROVE  FetchDoes(c)
<1> USE TransportAssumption DEF FetchDoes, FetchTyped, Fetch, ParentFetch, Checked, Alone, Moved,
        FetchStage, fetchHost, FetchGoes, Serves, Bodies, NoBody, Matches, Failing
<1>1. CASE FetchStarts(c)
  BY <1>1 DEF FetchStarts
<1>2. CASE CacheMatch(c)
  <2> DEFINE at == IF fetchCache = NoBody THEN "net" ELSE "verify"
             next == [fetchCalls[c] EXCEPT !.at = at, !.body = fetchCache]
  <2>1. fetchCalls' = [fetchCalls EXCEPT ![c] = next] /\ fetchCalls[c] \in Fetch
    BY <1>2 DEF CacheMatch
  <2>2. next \in Fetch
    OBVIOUS
  <2>3. /\ next.at = at /\ next.body = fetchCache
        /\ next.count = fetchCalls[c].count
    BY <2>1
  <2> HIDE DEF next
  <2>. QED BY <1>2, <2>1, <2>2, <2>3, CallBecomes DEF CacheMatch
<1>3. CASE VerifyHit(c)
  BY <1>3 DEF VerifyHit
<1>4. CASE NetAnswers(c)
  <2> DEFINE stored == [fetchCalls[c] EXCEPT !.at = "store", !.body = fetchNet]
             served == [fetchCalls[c] EXCEPT !.at = "served", !.body = fetchNet, !.from = "net"]
  <2>1. /\ \/ fetchCalls' = [fetchCalls EXCEPT ![c] = stored]
           \/ fetchCalls' = [fetchCalls EXCEPT ![c] = served]
        /\ fetchCalls[c] \in Fetch
    BY <1>4 DEF NetAnswers
  <2>2. stored \in Fetch /\ served \in Fetch
    OBVIOUS
  <2>3. /\ stored.at = "store" /\ served.at = "served" /\ served.from = "net"
        /\ stored.body = fetchNet /\ served.body = fetchNet
        /\ stored.count = fetchCalls[c].count /\ served.count = fetchCalls[c].count
    BY <2>1
  <2> HIDE DEF stored, served
  <2>4. CASE fetchCalls' = [fetchCalls EXCEPT ![c] = stored]
    BY <1>4, <2>2, <2>3, <2>4, CallBecomes DEF NetAnswers
  <2>5. CASE fetchCalls' = [fetchCalls EXCEPT ![c] = served]
    BY <1>4, <2>2, <2>3, <2>5, CallBecomes DEF NetAnswers
  <2>. QED BY <2>1, <2>4, <2>5
<1>5. CASE NetFails(c)
  BY <1>5 DEF NetFails
<1>6. CASE NetRefuses(c)
  BY <1>6 DEF NetRefuses
<1>7. CASE CachePut(c)
  <2> DEFINE next == [fetchCalls[c] EXCEPT !.at = "served", !.body = fetchCalls[c].body,
                                           !.from = "net"]
  <2>1. fetchCalls' = [fetchCalls EXCEPT ![c] = next] /\ fetchCalls[c] \in Fetch
    BY <1>7 DEF CachePut
  <2>2. next \in Fetch
    OBVIOUS
  <2>3. /\ next.at = "served" /\ next.from = "net"
        /\ next.body = fetchCalls[c].body /\ next.count = fetchCalls[c].count
    BY <2>1
  <2> HIDE DEF next
  <2>4. fetchCache' \in {fetchCalls[c].body, fetchCache}
    BY <1>7 DEF CachePut
  <2>. QED BY <1>7, <2>1, <2>2, <2>3, <2>4, CallBecomes DEF CachePut
<1>8. CASE BridgeTimesOut(c)
  <2> DEFINE next == [fetchCalls[c] EXCEPT !.at = "net"]
  <2>1. fetchCalls' = [fetchCalls EXCEPT ![c] = next] /\ fetchCalls[c] \in Fetch
    BY <1>8 DEF BridgeTimesOut
  <2>2. next \in Fetch /\ next.at = "net" /\ next.count = fetchCalls[c].count
    BY <2>1
  <2> HIDE DEF next
  <2>3. /\ fetchCalls[c].at = "waiting" /\ fetchBridge' \in BOOLEAN
        /\ UNCHANGED <<fetchSetup, fetchNet, fetchCache, fetchParent>>
    BY <1>8 DEF BridgeTimesOut
  <2>. QED BY <2>1, <2>2, <2>3, CallBecomes
<1>. QED BY <1>1, <1>2, <1>3, <1>4, <1>5, <1>6, <1>7, <1>8

LEMMA ParentFetches ==
  ASSUME FetchTyped, NEW c \in Fetches, Checked(c),
         \/ ParentMatch(c) \/ ParentVerifies(c) \/ ParentFetched(c) \/ ParentFails(c)
         \/ ParentPuts(c) \/ ParentReplies(c)
  PROVE  FetchDoes(c)
<1> USE TransportAssumption DEF FetchDoes, FetchTyped, Fetch, ParentFetch, Checked, Alone, Moved,
        FetchStage, fetchHost, FetchGoes, Serves, Bodies, NoBody, Matches, Failing
<1>1. CASE ParentMatch(c)
  BY <1>1 DEF ParentMatch
<1>2. CASE ParentVerifies(c)
  BY <1>2 DEF ParentVerifies
<1>3. CASE ParentFetched(c)
  BY <1>3 DEF ParentFetched
<1>4. CASE ParentFails(c)
  BY <1>4 DEF ParentFails
<1>5. CASE ParentPuts(c)
  BY <1>5 DEF ParentPuts
<1>6. CASE ParentReplies(c)
  <2> DEFINE call == fetchCalls[c]
             asks == [call EXCEPT !.at = "net"]
             from == IF fetchParent[c].at = "cached" THEN "cache" ELSE "net"
             told == [call EXCEPT !.at = "served", !.body = fetchParent[c].body, !.from = from]
  <2>1. call \in Fetch /\ fetchParent[c] \in ParentFetch
    OBVIOUS
  <2>2. asks \in Fetch /\ asks.at = "net" /\ asks.count = call.count
    BY <2>1
  <2>3. /\ told \in Fetch /\ told.at = "served" /\ told.count = call.count
        /\ told.body = fetchParent[c].body /\ told.from = from
    BY <2>1
  <2>4. /\ fetchParent' = [fetchParent EXCEPT ![c].at = "done"]
        /\ UNCHANGED <<fetchSetup, fetchNet, fetchCache, fetchBridge>>
        /\ fetchParent[c].at \in {"cached", "fresh", "refusal"}
    BY <1>6 DEF ParentReplies
  <2>5. /\ fetchParent' \in [Fetches -> ParentFetch]
        /\ fetchParent'[c].at = "done"
        /\ \A d \in Fetches \ {c} : fetchParent'[d] = fetchParent[d]
    BY <2>4
  <2>6. CASE call.at # "waiting"
    <3>1. fetchCalls' = fetchCalls
      BY <1>6, <2>6 DEF ParentReplies
    <3>. QED BY <2>4, <2>5, <3>1
  <2>7. CASE call.at = "waiting" /\ fetchParent[c].at = "refusal"
    <3>1. fetchCalls' = [fetchCalls EXCEPT ![c] = asks]
      BY <1>6, <2>7 DEF ParentReplies
    <3> HIDE DEF asks
    <3>. QED BY <2>2, <2>4, <2>5, <2>7, <3>1, CallBecomes
  <2>8. CASE call.at = "waiting" /\ fetchParent[c].at # "refusal"
    <3>1. fetchCalls' = [fetchCalls EXCEPT ![c] = told]
      BY <1>6, <2>8 DEF ParentReplies
    <3> HIDE DEF told
    <3>. QED BY <2>3, <2>4, <2>5, <2>8, <3>1, CallBecomes
  <2>. QED BY <2>6, <2>7, <2>8
<1>. QED BY <1>1, <1>2, <1>3, <1>4, <1>5, <1>6

FetchInv == FetchTyped /\ \A c \in Fetches : Checked(c)

LEMMA InitFetch ==
  ASSUME FetchInit
  PROVE  FetchInv
BY TransportAssumption DEF FetchInit, FetchInv, FetchTyped, Fetch, ParentFetch, Checked, Bodies, NoBody

LEMMA StepFetch ==
  ASSUME FetchInv, [FetchNext]_fetchVars
  PROVE  FetchInv' /\ FetchesMoveOn
<1>1. CASE UNCHANGED fetchVars
  BY <1>1 DEF fetchVars, FetchInv, FetchTyped, Checked, FetchesMoveOn, Moved, Matches
<1>2. CASE UpstreamTurns
  BY <1>2 DEF UpstreamTurns, FetchInv, FetchTyped, Checked, FetchesMoveOn, Moved, Matches, Bodies
<1>3. ASSUME NEW c \in Fetches, FetchStep(c) \/ NetFails(c) \/ NetRefuses(c) \/ ParentFails(c)
      PROVE  FetchInv' /\ FetchesMoveOn
  <2>1. FetchDoes(c)
    BY <1>3, DocumentFetches, ParentFetches DEF FetchInv, FetchStep
  <2>2. \A d \in Fetches \ {c} : Checked(d)'
    BY <2>1 DEF FetchInv, FetchDoes, Alone, Checked, Matches
  <2>3. FetchesMoveOn
    BY <2>1 DEF FetchDoes, Alone, Moved, FetchesMoveOn
  <2>. QED BY <2>1, <2>2, <2>3 DEF FetchInv, FetchDoes
<1>. QED BY <1>1, <1>2, <1>3 DEF FetchNext

\* No cache, this document's or its parent's, passes on what a broken upstream or an earlier
\* pin left in it: an answer has a body, and one from a cache matches the caller's pin.
THEOREM CachesAnswerThePin == FetchSpec => []AnswersAreWhole
<1>1. FetchInv => AnswersAreWhole
  BY DEF FetchInv, FetchTyped, Fetch, Checked, AnswersAreWhole, FetchSettled
<1>. QED BY <1>1, InitFetch, StepFetch, PTL DEF FetchSpec

\* A call goes through its stages once, the network's with at most FetchRetries attempts after
\* the first, and is over when it is: the finite part of RequestsSettle, a fetch that moves
\* ends (retryFetch, fetchViaParent).
THEOREM FetchesAreFinite == FetchSpec => [][FetchesMoveOn]_fetchVars
<1>. QED BY InitFetch, StepFetch, PTL DEF FetchSpec

BusCall == [at : {"none", "sent", "lost", "late", "answered", "lateAnswer", "settled"},
            got : SUBSET {"answer", "timeout"}]

\* An open request has its entry, and with it its timer; one that timed out has none, and an
\* answered one keeps it.
Timed(t) ==
  LET call == busCalls[t] IN
  /\ call.at = "none" => t \notin busPending /\ call.got = {}
  /\ call.at \in {"sent", "lost", "answered"} => t \in busPending /\ call.got = {}
  /\ call.at \in {"late", "lateAnswer"} => t \notin busPending /\ call.got = {"timeout"}
  /\ call.at = "settled" => call.got = IF t \in busPending THEN {"answer"} ELSE {"timeout"}

BusInv ==
  /\ busWorker \in BOOLEAN
  /\ busCalls \in [Transforms -> BusCall]
  /\ \A t \in Transforms : Timed(t)

\* A transform is answered or times out, one of them; until then its timer runs, whatever
\* became of the worker.
TransformsEnd ==
  \A t \in Transforms :
    TransformSettled(t) \/ (t \in busPending /\ busCalls[t].at \in {"sent", "lost", "answered"})

\* Nothing is told twice, and nothing told is taken back.
ToldOnce ==
  \A t \in Transforms : busCalls[t].got # {} => busCalls'[t].got = busCalls[t].got

LEMMA StepBus ==
  ASSUME BusInv, [BusNext]_busVars
  PROVE  BusInv' /\ ToldOnce
<1> USE DEF BusInv, BusCall, Timed, ToldOnce
<1>1. CASE UNCHANGED busVars
  BY <1>1 DEF busVars
<1>2. CASE WorkerTerminated
  <2>1. busCalls' \in [Transforms -> BusCall]
    BY <1>2 DEF WorkerTerminated
  <2>2. ASSUME NEW t \in Transforms
        PROVE  Timed(t)' /\ busCalls'[t].got = busCalls[t].got
    BY <1>2 DEF WorkerTerminated
  <2>. QED BY <1>2, <2>1, <2>2 DEF WorkerTerminated
<1>3. ASSUME NEW t \in Transforms, BusStep(t)
      PROVE  BusInv' /\ ToldOnce
  <2>1. CASE Request(t)
    BY <1>3, <2>1 DEF Request
  <2>2. CASE WorkerAnswers(t)
    BY <1>3, <2>2 DEF WorkerAnswers
  <2>3. CASE AnswerArrives(t)
    BY <1>3, <2>3 DEF AnswerArrives
  <2>4. CASE RequestTimesOut(t)
    BY <1>3, <2>4 DEF RequestTimesOut
  <2>. QED BY <1>3, <2>1, <2>2, <2>3, <2>4 DEF BusStep
<1>. QED BY <1>1, <1>2, <1>3 DEF BusNext

LEMMA InitBus ==
  ASSUME BusInit
  PROVE  BusInv
BY DEF BusInit, BusInv, BusCall, Timed

\* Every transform that was asked for is answered, has timed out, or has a timer that runs,
\* with a worker that is slow, silent or gone: what RequestsSettle asks of the bus but for its
\* fairness (WorkerMessageBus.request).
THEOREM TransformsHaveAnEnd == BusSpec => []TransformsEnd
<1>1. BusInv => TransformsEnd
  BY DEF BusInv, BusCall, Timed, TransformsEnd, TransformSettled
<1>. QED BY <1>1, InitBus, StepBus, PTL DEF BusSpec

\* A transform that timed out is not answered as well, nor the other way round: a late answer
\* finds no entry, a late timer is cleared.
THEOREM TransformsSettleOnce == BusSpec => [][ToldOnce]_busVars
<1>. QED BY InitBus, StepBus, PTL DEF BusSpec
==============================================================================
