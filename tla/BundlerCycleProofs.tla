------------------------- MODULE BundlerCycleProofs -------------------------
(***************************************************************************)
(* Proofs about the compiles of a document: BundlerCycle, for every set of *)
(* modules, every bound and every choice of hot modules; BootScan, for any *)
(* files, sources, roots and packages.                                     *)
(***************************************************************************)
EXTENDS BundlerCycle, BootScan, FiniteSetTheorems, TLAPS

\* What is reported once a message is appended to the queue.
LEMMA RangeAppend ==
  ASSUME NEW S, NEW s \in Seq(S), NEW x \in S
  PROVE  Range(Append(s, x)) = Range(s) \cup {x}
<1>1. DOMAIN Append(s, x) = 1..(Len(s) + 1) /\ DOMAIN s = 1..Len(s)
  OBVIOUS
<1>2. \A i \in 1..Len(s) : Append(s, x)[i] = s[i]
  OBVIOUS
<1>3. Append(s, x)[Len(s) + 1] = x
  OBVIOUS
<1>4. 1..(Len(s) + 1) = 1..Len(s) \cup {Len(s) + 1}
  BY Len(s) \in Nat
<1>. QED BY <1>1, <1>2, <1>3, <1>4 DEF Range

\* What is reported once the oldest message is taken from the queue.
LEMMA RangeTail ==
  ASSUME NEW S, NEW s \in Seq(S), s # <<>>
  PROVE  /\ Tail(s) \in Seq(S) /\ Head(s) \in S
         /\ Range(s) \subseteq Range(Tail(s)) \cup {Head(s)}
<1>1. Len(s) \in Nat \ {0} /\ DOMAIN s = 1..Len(s) /\ DOMAIN Tail(s) = 1..(Len(s) - 1)
  OBVIOUS
<1>2. Head(s) = s[1] /\ \A i \in 1..(Len(s) - 1) : Tail(s)[i] = s[i + 1]
  OBVIOUS
<1>3. ASSUME NEW i \in 1..Len(s), i # 1
      PROVE  i - 1 \in 1..(Len(s) - 1) /\ s[i] = Tail(s)[i - 1]
  BY <1>1, <1>2, <1>3
<1>4. ASSUME NEW i \in 1..Len(s)
      PROVE  s[i] \in Range(Tail(s)) \cup {Head(s)}
  BY <1>1, <1>2, <1>3 DEF Range
<1>. QED BY <1>1, <1>4 DEF Range

-----------------------------------------------------------------------------
(* The state space *)

\* The empty values are values.
LEMMA EmptyTypes ==
  /\ NoContent \in Content /\ NoRead \in Read /\ NoTask \in Task
  /\ NoModule \in Module /\ NewModule \in Module
BY DEF NoContent, Content, NoRead, Read, NoTask, Task, NoModule, NewModule, Module

\* A new document is well typed.
LEMMA FreshTypes ==
  /\ FreshDocument.cache \in [Files -> Content]
  /\ FreshDocument.inflight \in [Files -> Read]
  /\ FreshDocument.mods \in [Sources -> Module]
  /\ FreshDocument.tasks \in [Sources -> Task]
BY EmptyTypes DEF FreshDocument

\* What the bundler does to a module leaves a module.
LEMMA ModuleTypes ==
  ASSUME NEW m \in Module, NEW c \in Content, NEW f \in Sources
  PROVE  /\ Reset(m) \in Module /\ Adopted(m, c) \in Module
         /\ Ran(m, f) \in Module /\ Failed(m) \in Module
         /\ [Reset(m) EXCEPT !.dirty = m.dirty] \in Module
<1>1. Reset(m) \in Module /\ [Reset(m) EXCEPT !.dirty = m.dirty] \in Module
  BY EmptyTypes DEF Reset, Module
<1>2. /\ [m EXCEPT !.error = TRUE, !.linked = TRUE] \in Module
      /\ [m EXCEPT !.error = TRUE, !.compiled = c] \in Module
      /\ [m EXCEPT !.compiled = c, !.linked = TRUE] \in Module
  BY DEF Module
<1>3. Adopted(m, c) \in Module
  BY <1>2 DEF Adopted
<1>4. Ran(m, f) \in Module
  <2>1. (f \in Hot) \in BOOLEAN
    OBVIOUS
  <2>. QED BY <2>1 DEF Ran, Module
<1>5. Failed(m) \in Module
  BY DEF Failed, Module
<1>. QED BY <1>1, <1>3, <1>4, <1>5

\* Starting transforms leaves a queue.
LEMMA EnqueueType ==
  ASSUME tasks \in [Sources -> Task], NEW S
  PROVE  Enqueue(S) \in [Sources -> Task]
BY EmptyTypes DEF Enqueue, Task

\* Reading a source leaves a modules map and a queue.
LEMMA SourceReadType ==
  ASSUME mods \in [Sources -> Module], tasks \in [Sources -> Task],
         NEW f \in Sources, NEW c \in Content, NEW found, SourceRead(f, c, found)
  PROVE  mods' \in [Sources -> Module] /\ tasks' \in [Sources -> Task]
<1>1. mods' \in [Sources -> Module]
  BY EmptyTypes DEF SourceRead
<1>2. \A p \in {"adopted", "babel"} : [phase |-> p, src |-> c, found |-> "none"] \in Task
  BY DEF Task
<1>3. PICK p \in {"adopted", "babel"} :
        tasks' = [tasks EXCEPT ![f] = [phase |-> p, src |-> c, found |-> "none"]]
  BY DEF SourceRead
<1>. QED BY <1>1, <1>2, <1>3

\* A transform whose source is not in the memo keeps what it found and waits.
ReadingBegins(f) ==
  tasks' = [tasks EXCEPT ![f] = [phase |-> "reading", src |-> NoContent, found |-> InMap(f)]]

LEMMA ReadingType ==
  ASSUME tasks \in [Sources -> Task], NEW f \in Sources, ReadingBegins(f)
  PROVE  /\ tasks' \in [Sources -> Task]
         /\ tasks'[f].phase = "reading" /\ tasks'[f].found = InMap(f)
         /\ \A g \in Sources \ {f} : tasks'[g] = tasks[g]
<1>1. InMap(f) \in {"none", "module", "refused"}
  BY DEF InMap
<1>2. [phase |-> "reading", src |-> NoContent, found |-> InMap(f)] \in Task
  BY <1>1, EmptyTypes DEF Task
<1>. QED BY <1>2 DEF ReadingBegins

\* The compile's own variables at the end of a compile.
RunTypeOK ==
  /\ pc \in PC
  /\ batch \in SUBSET Files
  /\ awaiting \in SUBSET Sources /\ walked \in SUBSET Sources
  /\ got \in Content /\ noop \in BOOLEAN
  /\ out \in {"none", "busy", "ok", "error"}
  /\ pc = "idle" => batch = {} /\ awaiting = {} /\ walked = {} /\ ~noop

LEMMA EndCompileType ==
  ASSUME NEW message \in {"busy", "ok", "error"}, EndCompile(message)
  PROVE  RunTypeOK'
BY EmptyTypes DEF EndCompile, RunTypeOK, PC

LEMMA InitType == Init => TypeOK
<1>. SUFFICES ASSUME Init PROVE TypeOK
  OBVIOUS
<1>1. \A f \in Files : First(f) \in Content
  BY KindsAssumption DEF First, Content
<1>2. FirstNotices \in Seq(Paths)
  <2>1. Pkg \in Paths
    BY DEF Paths, Files
  <2>2. <<Pkg>> \in Seq(Paths) /\ <<>> \in Seq(Paths)
    BY <2>1
  <2>. QED BY <2>2 DEF FirstNotices
<1>3. /\ cache \in [Files -> Content] /\ inflight \in [Files -> Read]
      /\ mods \in [Sources -> Module] /\ tasks \in [Sources -> Task]
  BY FreshTypes DEF Init
<1>. QED BY <1>1, <1>2, <1>3, EmptyTypes DEF Init, TypeOK, PC

\* Every step leaves a well-typed state.
LEMMA StepType == TypeOK /\ [Next]_vars => TypeOK'
<1>. SUFFICES ASSUME TypeOK, [Next]_vars PROVE TypeOK'
  OBVIOUS
<1>. USE EmptyTypes DEF TypeOK, hostVars, fsVars, bundleVars, runVars, Paths, Files
<1>1. ASSUME NEW f \in Paths, Edit(f) PROVE TypeOK'
  <2>1. edits' \in Nat /\ notices' \in Seq(Paths)
    BY <1>1 DEF Edit
  <2>2. ASSUME f \notin Vendored, NEW k \in Kinds[f]
        PROVE  [rev |-> edits + 2, kind |-> k] \in Content
    <3>1. k \in SourceKind \cup PkgKind
      BY <2>2, KindsAssumption
    <3>. QED BY <3>1 DEF Content
  <2>3. disk' \in [Files -> Content]
    BY <1>1, <2>2 DEF Edit
  <2>. QED BY <1>1, <2>1, <2>3 DEF Edit
<1>2. CASE DeliverChange
  <2>. DEFINE f == Head(notices)
  <2>1. Tail(notices) \in Seq(Paths) /\ f \in Paths
    BY <1>2, RangeTail DEF DeliverChange
  <2>2. cache' \in [Files -> Content] /\ pending' \in SUBSET Files /\ lost' \in SUBSET Files
    BY <1>2, <2>1 DEF DeliverChange
  <2>. QED BY <1>2, <2>1, <2>2 DEF DeliverChange
<1>3. CASE HostReload
  <2>1. FirstNotices \in Seq(Paths)
    <3>1. <<Pkg>> \in Seq(Paths) /\ <<>> \in Seq(Paths)
      OBVIOUS
    <3>. QED BY <3>1 DEF FirstNotices
  <2>. QED BY <1>3, <2>1, FreshTypes DEF HostReload, PC
<1>4. ASSUME NEW f \in Files, PortAnswer(f) PROVE TypeOK'
  BY <1>4 DEF PortAnswer, Read
<1>5. ASSUME NEW f \in Files, ReadDone(f) PROVE TypeOK'
  <2>1. inflight[f].content \in Content
    BY DEF Read
  <2>2. mods' \in [Sources -> Module] /\ tasks' \in [Sources -> Task]
    BY <1>5, <2>1, SourceReadType DEF ReadDone
  <2>. QED BY <1>5, <2>1, <2>2 DEF ReadDone
<1>6. ASSUME NEW f \in Files, ReadFails(f) PROVE TypeOK'
  <2>1. inflight' \in [Files -> Read] /\ tasks' \in [Sources -> Task] /\ lost' \in SUBSET Files
    BY <1>6 DEF ReadFails
  <2>2. RunTypeOK'
    <3>1. CASE EndCompile("error")
      BY <3>1, EndCompileType
    <3>2. CASE ~EndCompile("error")
      BY <1>6, <3>2 DEF ReadFails, RunTypeOK, Content, SourceKind, PkgKind
    <3>. QED BY <3>1, <3>2
  <2>. QED BY <1>6, <2>1, <2>2 DEF ReadFails, RunTypeOK
<1>7. ASSUME NEW f \in Sources, TaskRead(f) PROVE TypeOK'
  <2>1. mods' \in [Sources -> Module] /\ tasks' \in [Sources -> Task]
    <3>1. CASE SourceRead(f, cache[f], InMap(f))
      BY <3>1, SourceReadType
    <3>2. CASE ReadingBegins(f) /\ UNCHANGED mods
      BY <3>2, ReadingType
    <3>. QED BY <1>7, <3>1, <3>2 DEF TaskRead, ReadingBegins
  <2>2. inflight' = inflight \/ JoinRead(f)
    BY <1>7 DEF TaskRead
  <2>3. inflight' \in [Files -> Read]
    BY <2>2 DEF JoinRead, Read
  <2>. QED BY <1>7, <2>1, <2>3 DEF TaskRead
<1>8. ASSUME NEW f \in Sources, TaskTranspiled(f) PROVE TypeOK'
  <2>1. tasks[f].src \in Content
    BY DEF Task
  <2>2. mods' \in [Sources -> Module]
    BY <1>8, <2>1, ModuleTypes DEF TaskTranspiled
  <2>3. tasks' \in [Sources -> Task]
    BY <1>8 DEF TaskTranspiled, Task
  <2>4. installed' \in BOOLEAN
    BY <1>8 DEF TaskTranspiled, Resolvable
  <2>. QED BY <1>8, <2>2, <2>3, <2>4 DEF TaskTranspiled
<1>9. ASSUME NEW f \in Sources, TaskTimesOut(f) PROVE TypeOK'
  <2>1. tasks[f].src \in Content
    BY DEF Task
  <2>2. mods' \in [Sources -> Module]
    BY ZenonT(60), <1>9, <2>1 DEF TaskTimesOut, Module
  <2>3. tasks' \in [Sources -> Task]
    BY <1>9 DEF TaskTimesOut, Task
  <2>. QED BY <1>9, <2>2, <2>3 DEF TaskTimesOut
<1>10. ASSUME NEW f \in Sources, TaskDone(f) PROVE TypeOK'
  BY <1>10, EnqueueType DEF TaskDone
<1>11. CASE StartFirstLoad
  BY <1>11, FreshTypes DEF StartFirstLoad, PC
<1>12. CASE PresetReady
  <2>1. RunTypeOK'
    BY <1>12, EndCompileType DEF PresetReady, Goto, RunTypeOK, PC
  <2>. QED BY <1>12, <2>1 DEF PresetReady, RunTypeOK
<1>13. CASE StartUpdate
  <2>1. Changed \in SUBSET Sources
    BY DEF Changed
  <2>2. ASSUME ResetUntilCold
        PROVE  mods' \in [Sources -> Module] /\ tasks' \in [Sources -> Task] /\ RunTypeOK'
               /\ reloading' \in BOOLEAN /\ lost' \in SUBSET Files
    BY <2>1, <2>2, ModuleTypes, EnqueueType, EndCompileType DEF ResetUntilCold, Reload
  <2>3. ASSUME ResetChanged
        PROVE  mods' \in [Sources -> Module] /\ tasks' \in [Sources -> Task] /\ RunTypeOK'
               /\ reloading' \in BOOLEAN /\ lost' \in SUBSET Files
    BY <2>1, <2>3, ModuleTypes, EnqueueType DEF ResetChanged, Goto, RunTypeOK, PC
  <2>4. ASSUME Reload \/ EndCompile("busy")
        PROVE  RunTypeOK'
    BY <2>4, EndCompileType DEF Reload
  <2>. QED BY <1>13, <2>2, <2>3, <2>4 DEF StartUpdate, RunTypeOK, Reload
<1>14. CASE FirstDrain
  BY <1>14 DEF FirstDrain, Goto, PC
<1>15. CASE CompileReads
  <2>1. Wanted \subseteq Files
    BY DEF Wanted
  <2>. QED BY <1>15, <2>1 DEF CompileReads, JoinRead, Read
<1>16. CASE ChangesTransformed
  BY <1>16 DEF ChangesTransformed, Goto, PC
<1>17. CASE PackageJson
  <2>1. Have(Pkg).kind \in SourceKind \cup PkgKind \cup {"none"}
    BY DEF Have, Content
  <2>2. RunTypeOK'
    BY <1>17, EndCompileType DEF PackageJson, Reload, Goto, RunTypeOK, PC
  <2>. QED BY <1>17, <2>1, <2>2 DEF PackageJson, Reload, RunTypeOK
<1>18. CASE TransformEntry
  <2>1. tasks' \in [Sources -> Task]
    <3>1. PICK S : tasks' = Enqueue(S)
      BY <1>18 DEF TransformEntry
    <3>. QED BY <3>1, EnqueueType
  <2>2. awaiting' \in SUBSET Sources
    BY <1>18 DEF TransformEntry, Sources
  <2>. QED BY ZenonT(60), <1>18, <2>1, <2>2 DEF TransformEntry, Goto, PC
<1>19. CASE EntryTransformed
  BY <1>19 DEF EntryTransformed, Goto, PC
<1>20. ASSUME NEW f \in Sources, WalkModule(f) PROVE TypeOK'
  <2>1. RunTypeOK'
    BY <1>20, EndCompileType DEF WalkModule, RunTypeOK
  <2>. QED BY <1>20, <2>1 DEF WalkModule, RunTypeOK
<1>21. CASE GraphFinished
  BY <1>21 DEF GraphFinished, Goto, PC
<1>22. CASE ReplaceHtml
  <2>1. Have(Html) \in Content
    BY DEF Have
  <2>2. RunTypeOK'
    BY <1>22, EndCompileType DEF ReplaceHtml, Reload, Goto, RunTypeOK, PC
  <2>. QED BY <1>22, <2>1, <2>2 DEF ReplaceHtml, Reload, RunTypeOK
<1>23. CASE EvaluateNothing
  <2>1. RunTypeOK'
    BY <1>23, EndCompileType DEF EvaluateNothing
  <2>. QED BY <1>23, <2>1 DEF EvaluateNothing, RunTypeOK
<1>24. CASE Evaluate
  <2>1. RunTypeOK'
    BY <1>24, EndCompileType DEF Evaluate
  <2>2. mods' \in [Sources -> Module]
    BY <1>24, ModuleTypes DEF Evaluate
  <2>3. hasHMR' \in BOOLEAN
    BY <1>24 DEF Evaluate, EnablesHMR
  <2>. QED BY <1>24, <2>1, <2>2, <2>3 DEF Evaluate, RunTypeOK
<1>25. CASE EvaluateThrows
  <2>1. RunTypeOK'
    BY <1>25, EndCompileType DEF EvaluateThrows
  <2>2. mods' \in [Sources -> Module]
    <3>1. PICK x \in Throwers, before \in SUBSET (ToRun \ (Throwers \cup {Entry})) :
            mods' = [g \in Sources |->
                      IF g \in before THEN Ran(mods[g], g)
                      ELSE IF g = x \/ g \in ({Entry} \cap ToRun) THEN Failed(mods[g])
                      ELSE mods[g]]
      BY <1>25 DEF EvaluateThrows
    <3>2. ASSUME NEW g \in Sources
          PROVE  Ran(mods[g], g) \in Module /\ Failed(mods[g]) \in Module /\ mods[g] \in Module
      BY ModuleTypes
    <3>. QED BY <3>1, <3>2
  <2>3. hasHMR' \in BOOLEAN
    BY <1>25 DEF EvaluateThrows, EnablesHMR
  <2>. QED BY <1>25, <2>1, <2>2, <2>3 DEF EvaluateThrows, RunTypeOK
<1>26. CASE UNCHANGED vars
  BY <1>26 DEF vars
<1>. QED
  BY <1>1, <1>2, <1>3, <1>4, <1>5, <1>6, <1>7, <1>8, <1>9, <1>10, <1>11, <1>12, <1>13,
     <1>14, <1>15, <1>16, <1>17, <1>18, <1>19, <1>20, <1>21, <1>22, <1>23, <1>24, <1>25,
     <1>26 DEF Next, Document

\* Every reachable state is well typed (TypeOK): the shapes of the memo, the
\* modules map and the queue, and an ended compile holding nothing.
THEOREM TypeCorrect == Spec => []TypeOK
<1>1. Init => TypeOK
  BY InitType
<1>2. TypeOK /\ [Next]_vars => TypeOK'
  BY StepType
<1>. QED BY <1>1, <1>2, PTL DEF Spec

-----------------------------------------------------------------------------
(* The read memo *)

\* The memo is only as good as the reads that fill it: a read that was answered
\* before the file changed has the change still reported, or is in lost.
ReadsCoherent ==
  \A f \in Files :
    inflight[f].state = "answered" /\ inflight[f].content # disk[f] => f \in Reported \cup lost

CoherenceInv == CacheCoherent /\ ReadsCoherent

\* A step that neither writes, delivers, memoizes nor answers keeps it.
LEMMA CoherenceFrame ==
  ASSUME CoherenceInv, UNCHANGED <<disk, notices, cache>>, lost \subseteq lost',
         \A f \in Files : inflight'[f] = inflight[f] \/ inflight'[f].state # "answered"
  PROVE  CoherenceInv'
BY DEF CoherenceInv, CacheCoherent, ReadsCoherent, Reported

LEMMA CoherenceStep == TypeOK /\ CoherenceInv /\ [Next]_vars => CoherenceInv'
<1>. SUFFICES ASSUME TypeOK, CoherenceInv, [Next]_vars PROVE CoherenceInv'
  OBVIOUS
<1>. USE DEF hostVars, fsVars, bundleVars, runVars
<1>1. ASSUME NEW f \in Paths, Edit(f) PROVE CoherenceInv'
  <2>1. Reported' = Reported \cup {f}
    BY <1>1, RangeAppend DEF Edit, Reported, TypeOK
  <2>2. \A g \in Files : g # f => disk'[g] = disk[g]
    BY <1>1 DEF Edit, TypeOK
  <2>. QED BY <1>1, <2>1, <2>2 DEF Edit, CoherenceInv, CacheCoherent, ReadsCoherent
<1>2. CASE DeliverChange
  <2>. DEFINE h == Head(notices)
  <2>1. Reported \subseteq Reported' \cup {h}
    BY <1>2, RangeTail DEF DeliverChange, Reported, TypeOK
  <2>2. UNCHANGED <<disk, inflight>>
    BY <1>2 DEF DeliverChange
  <2>3. CASE h \in Vendored
    BY <1>2, <2>1, <2>2, <2>3, FilesAssumption
       DEF DeliverChange, CoherenceInv, CacheCoherent, ReadsCoherent
  <2>4. CASE h \notin Vendored
    <3>1. cache' = [cache EXCEPT ![h] = NoContent] /\ lost \subseteq lost'
      BY <1>2, <2>4 DEF DeliverChange
    <3>2. inflight[h].state = "answered" /\ inflight[h].content # disk[h] =>
            h \in Reported' \cup lost'
      BY <1>2, <2>4 DEF DeliverChange, Reported
    <3>3. CacheCoherent'
      BY <2>1, <2>2, <3>1 DEF CoherenceInv, CacheCoherent, TypeOK
    <3>4. ReadsCoherent'
      BY <2>1, <2>2, <3>1, <3>2 DEF CoherenceInv, ReadsCoherent
    <3>. QED BY <3>3, <3>4 DEF CoherenceInv
  <2>. QED BY <2>3, <2>4
<1>3. CASE HostReload
  BY <1>3 DEF HostReload, FreshDocument, NoRead, CoherenceInv, CacheCoherent, ReadsCoherent
<1>4. ASSUME NEW f \in Files, PortAnswer(f) PROVE CoherenceInv'
  <2>1. /\ UNCHANGED <<disk, notices, cache, lost>>
        /\ inflight'[f].content = disk[f]
        /\ \A g \in Files : g # f => inflight'[g] = inflight[g]
    BY <1>4 DEF PortAnswer, TypeOK
  <2>. QED BY <2>1 DEF CoherenceInv, CacheCoherent, ReadsCoherent, Reported
<1>5. ASSUME NEW f \in Files, ReadDone(f) PROVE CoherenceInv'
  <2>1. /\ UNCHANGED <<disk, notices, lost>>
        /\ inflight[f].state = "answered"
        /\ cache' = [cache EXCEPT ![f] = inflight[f].content]
        /\ inflight' = [inflight EXCEPT ![f] = NoRead]
    BY <1>5 DEF ReadDone
  <2>2. CacheCoherent'
    BY <2>1 DEF TypeOK, CoherenceInv, CacheCoherent, ReadsCoherent, Reported
  <2>3. ReadsCoherent'
    BY <2>1 DEF TypeOK, CoherenceInv, ReadsCoherent, Reported, NoRead
  <2>. QED BY <2>2, <2>3 DEF CoherenceInv
<1>6. ASSUME NEW f \in Files, ReadFails(f) PROVE CoherenceInv'
  <2>1. /\ UNCHANGED <<disk, notices, cache>>
        /\ inflight' = [inflight EXCEPT ![f] = NoRead]
        /\ lost \subseteq lost'
    BY <1>6 DEF ReadFails
  <2>. QED BY <2>1, CoherenceFrame DEF TypeOK, NoRead
<1>7. ASSUME NEW f \in Files, JoinRead(f), UNCHANGED <<disk, notices, cache, lost>>
      PROVE  CoherenceInv'
  <2>1. \A g \in Files : inflight'[g] = inflight[g] \/ inflight'[g].state # "answered"
    BY <1>7 DEF JoinRead, TypeOK, Read
  <2>. QED BY <1>7, <2>1, CoherenceFrame
<1>8. ASSUME NEW f \in Sources, TaskRead(f) PROVE CoherenceInv'
  <2>1. CASE JoinRead(f)
    BY <1>7, <1>8, <2>1 DEF TaskRead, Files
  <2>2. CASE UNCHANGED inflight
    BY <1>8, <2>2, CoherenceFrame DEF TaskRead
  <2>. QED BY <1>8, <2>1, <2>2 DEF TaskRead
<1>9. CASE CompileReads
  <2>1. Wanted \subseteq Files
    BY DEF Wanted, Files
  <2>. QED BY <1>7, <1>9, <2>1 DEF CompileReads
<1>10. ASSUME UNCHANGED <<disk, notices, cache, inflight>>, lost \subseteq lost'
       PROVE  CoherenceInv'
  BY <1>10, CoherenceFrame
<1>11. CASE \E f \in Sources : TaskTranspiled(f) \/ TaskTimesOut(f) \/ TaskDone(f) \/ WalkModule(f)
  BY <1>10, <1>11 DEF TaskTranspiled, TaskTimesOut, TaskDone, WalkModule
<1>12. CASE StartUpdate
  BY <1>10, <1>12 DEF StartUpdate, ResetUntilCold, ResetChanged
<1>13. CASE StartFirstLoad \/ PresetReady \/ FirstDrain
  BY <1>10, <1>13 DEF StartFirstLoad, PresetReady, FirstDrain
<1>14. CASE ChangesTransformed \/ PackageJson \/ TransformEntry \/ EntryTransformed
  BY <1>10, <1>14 DEF ChangesTransformed, PackageJson, TransformEntry, EntryTransformed
<1>15. CASE GraphFinished \/ ReplaceHtml \/ EvaluateNothing \/ Evaluate \/ EvaluateThrows
  BY <1>10, <1>15 DEF GraphFinished, ReplaceHtml, EvaluateNothing, Evaluate, EvaluateThrows
<1>16. CASE UNCHANGED vars
  BY <1>10, <1>16 DEF vars
<1>. QED
  BY <1>1, <1>2, <1>3, <1>4, <1>5, <1>6, <1>8, <1>9, <1>11, <1>12, <1>13, <1>14, <1>15,
     <1>16 DEF Next, Document

\* CacheCoherent, for every app and any number of edits and faults: the memo of
\* CachedFS never holds superseded content that no message is on its way to
\* evict, except for a read overtaken by its own fs-change.
THEOREM MemoCoherent == Spec => []CacheCoherent
<1>1. Init => CoherenceInv
  BY DEF Init, FreshDocument, NoRead, CoherenceInv, CacheCoherent, ReadsCoherent
<1>2. TypeOK /\ CoherenceInv /\ [Next]_vars => CoherenceInv'
  BY CoherenceStep
<1>3. CoherenceInv => CacheCoherent
  BY DEF CoherenceInv
<1>. QED BY <1>1, <1>2, <1>3, TypeCorrect, PTL DEF Spec

-----------------------------------------------------------------------------
(* What a transform found *)

\* Only a transform that reads remembers the module it found, which is in the document
\* unless a first load was tried again.
FoundInPlace ==
  \A f \in Sources :
    tasks[f].found # "none" => tasks[f].phase = "reading" /\ (mods[f].here \/ f \in lost)

\* A step that drops no module keeps it.
LEMMA FoundFrame ==
  ASSUME FoundInPlace, lost \subseteq lost',
         \A f \in Sources : /\ tasks'[f] = tasks[f] \/ tasks'[f].found = "none"
                            /\ mods[f].here => mods'[f].here \/ f \in lost'
  PROVE  FoundInPlace'
BY DEF FoundInPlace

LEMMA FoundStep ==
  ASSUME TypeOK, FoundInPlace, [Next]_vars
  PROVE  FoundInPlace'
<1>. USE DEF hostVars, fsVars, bundleVars, runVars
<1>1. ASSUME lost \subseteq lost', UNCHANGED tasks,
             \A f \in Sources : mods[f].here => mods'[f].here \/ f \in lost'
      PROVE  FoundInPlace'
  BY <1>1, FoundFrame
<1>2. ASSUME NEW S, tasks' = Enqueue(S), lost \subseteq lost',
             \A f \in Sources : mods[f].here => mods'[f].here
      PROVE  FoundInPlace'
  <2>1. \A f \in Sources : tasks'[f] = tasks[f] \/ tasks'[f].found = "none"
    BY <1>2 DEF Enqueue
  <2>. QED BY <1>2, <2>1, FoundFrame
<1>3. CASE HostReload
  BY <1>3 DEF HostReload, FreshDocument, NoTask, FoundInPlace
<1>4. ASSUME NEW f \in Sources, NEW c, NEW found, SourceRead(f, c, found), UNCHANGED lost
      PROVE  FoundInPlace'
  <2>1. \A g \in Sources : tasks'[g] = tasks[g] \/ tasks'[g].found = "none"
    BY <1>4 DEF SourceRead, TypeOK
  <2>2. NewModule.here = TRUE
    BY DEF NewModule, NoModule
  <2>3. \A g \in Sources : mods[g].here => mods'[g].here
    BY <1>4, <2>2 DEF SourceRead, TypeOK
  <2>. QED BY <1>4, <2>1, <2>3, FoundFrame
<1>5. ASSUME NEW f \in Files, ReadDone(f)
      PROVE  FoundInPlace'
  BY <1>1, <1>4, <1>5 DEF ReadDone
<1>6. ASSUME NEW f \in Sources, TaskRead(f)
      PROVE  FoundInPlace'
  <2>1. CASE SourceRead(f, cache[f], InMap(f))
    BY <1>4, <1>6, <2>1 DEF TaskRead
  <2>2. CASE ReadingBegins(f) /\ UNCHANGED mods
    <3>1. InMap(f) # "none" => mods[f].here
      BY DEF InMap
    <3>. QED BY <1>6, <2>2, <3>1, ReadingType DEF TaskRead, FoundInPlace, TypeOK
  <2>. QED BY <1>6, <2>1, <2>2 DEF TaskRead, ReadingBegins
<1>7. ASSUME NEW f \in Files, ReadFails(f)
      PROVE  FoundInPlace'
  <2>1. UNCHANGED mods /\ lost \subseteq lost'
    BY <1>7 DEF ReadFails
  <2>2. \A g \in Sources : tasks'[g] = tasks[g] \/ tasks'[g].found = "none"
    BY <1>7 DEF ReadFails, NoTask, TypeOK
  <2>. QED BY <2>1, <2>2, FoundFrame
<1>8. ASSUME NEW f \in Sources, TaskTranspiled(f) \/ TaskTimesOut(f)
      PROVE  FoundInPlace'
  <2>1. /\ tasks[f].phase = "babel" /\ lost \subseteq lost'
        /\ tasks' = [tasks EXCEPT ![f].phase = "adopted"]
    BY <1>8 DEF TaskTranspiled, TaskTimesOut
  <2>2. tasks[f].found = "none"
    BY <2>1 DEF FoundInPlace
  <2>3. \A g \in Sources : tasks'[g] = tasks[g] \/ tasks'[g].found = "none"
    BY <2>1, <2>2 DEF TypeOK, Task
  <2>4. mods[f] \in Module
    BY DEF TypeOK
  <2>5. Adopted(mods[f], tasks[f].src).here = mods[f].here
    BY <2>4 DEF Adopted, Module
  <2>6. \A g \in Sources : mods[g].here => mods'[g].here
    <3>1. CASE TaskTranspiled(f)
      BY <2>5, <3>1 DEF TaskTranspiled, TypeOK
    <3>2. CASE TaskTimesOut(f)
      BY <2>4, <3>2 DEF TaskTimesOut, TypeOK, Module
    <3>. QED BY <1>8, <3>1, <3>2
  <2>. QED BY <2>1, <2>3, <2>6, FoundFrame
<1>9. ASSUME NEW f \in Sources, TaskDone(f)
      PROVE  FoundInPlace'
  <2>1. PICK S : tasks' = [Enqueue(S) EXCEPT ![f] = NoTask]
    BY <1>9 DEF TaskDone
  <2>2. \A g \in Sources : tasks'[g] = tasks[g] \/ tasks'[g].found = "none"
    BY <2>1 DEF Enqueue, NoTask
  <2>. QED BY <1>9, <2>2, FoundFrame DEF TaskDone
<1>10. CASE StartFirstLoad
  <2>1. /\ UNCHANGED tasks /\ lost \subseteq lost'
        /\ \A f \in Sources : tasks[f].found # "none" => f \in lost'
    BY <1>10 DEF StartFirstLoad
  <2>. QED BY <2>1 DEF FoundInPlace
<1>11. CASE StartUpdate
  <2>1. \A f \in Sources : /\ Reset(mods[f]).here = mods[f].here
                           /\ [Reset(mods[f]) EXCEPT !.dirty = mods[f].dirty].here = mods[f].here
    BY DEF Reset, TypeOK, Module
  <2>2. CASE UNCHANGED <<mods, tasks, lost>>
    BY <1>1, <2>2
  <2>3. CASE ResetUntilCold
    <3>1. \A f \in Sources : mods[f].here => mods'[f].here
      BY <2>1, <2>3 DEF ResetUntilCold
    <3>. QED BY <1>2, <2>3, <3>1 DEF ResetUntilCold
  <2>4. CASE ResetChanged
    <3>1. \A f \in Sources : mods[f].here => mods'[f].here
      BY <2>1, <2>4 DEF ResetChanged
    <3>. QED BY <1>2, <2>4, <3>1 DEF ResetChanged
  <2>. QED BY <1>11, <2>2, <2>3, <2>4 DEF StartUpdate
<1>12. CASE Evaluate \/ EvaluateThrows
  <2>1. \A f \in Sources : Ran(mods[f], f).here = mods[f].here /\ Failed(mods[f]).here = mods[f].here
    BY DEF Ran, Failed, TypeOK, Module
  <2>2. \A f \in Sources : mods'[f] \in {mods[f], Ran(mods[f], f), Failed(mods[f])}
    BY <1>12 DEF Evaluate, EvaluateThrows
  <2>3. UNCHANGED <<tasks, lost>>
    BY <1>12 DEF Evaluate, EvaluateThrows
  <2>4. \A f \in Sources : mods[f].here => mods'[f].here
    BY <2>1, <2>2
  <2>. QED BY <1>1, <2>3, <2>4
<1>13. CASE TransformEntry
  BY <1>2, <1>13 DEF TransformEntry
<1>14. CASE (\E f \in Paths : Edit(f)) \/ (\E f \in Files : PortAnswer(f)) \/ CompileReads
            \/ (\E f \in Sources : WalkModule(f))
  BY <1>1, <1>14 DEF Edit, PortAnswer, CompileReads, WalkModule
<1>15. CASE DeliverChange \/ FirstDrain \/ PresetReady \/ ChangesTransformed \/ PackageJson
  BY <1>1, <1>15 DEF DeliverChange, FirstDrain, PresetReady, ChangesTransformed, PackageJson
<1>16. CASE EntryTransformed \/ GraphFinished \/ EvaluateNothing \/ ReplaceHtml
  BY <1>1, <1>16 DEF EntryTransformed, GraphFinished, EvaluateNothing, ReplaceHtml
<1>17. CASE UNCHANGED vars
  BY <1>1, <1>17 DEF vars
<1>. QED
  BY <1>3, <1>5, <1>6, <1>7, <1>8, <1>9, <1>10, <1>11, <1>12, <1>13, <1>14, <1>15, <1>16,
     <1>17 DEF Next, Document

-----------------------------------------------------------------------------
(* Stale code *)

\* Somebody still owes the update of f.
Owed(f) == reloading \/ f \in Reported \cup pending \cup lost

\* What is being transformed is the latest source, or the update is owed, and the module it
\* is for is in the document, unless a first load was tried again; a module that is not in
\* the document has no code to be stale.
TasksExplained ==
  \A f \in Sources :
    tasks[f].phase = "babel" => /\ mods[f].here \/ f \in lost
                                /\ tasks[f].src # disk[f] => Owed(f)
AbsentIsEmpty == \A f \in Sources : ~mods[f].here => mods[f].compiled = NoContent
StaleInv == StaleIsExplained /\ TasksExplained /\ AbsentIsEmpty

\* A step that brings no code and no source to a transform keeps it.
LEMMA StaleFrame ==
  ASSUME StaleInv, UNCHANGED disk, lost \subseteq lost', \A f \in Sources : Owed(f) => Owed(f)',
         \A f \in Sources :
           /\ tasks'[f].phase # "babel" \/ (tasks'[f] = tasks[f] /\ (mods'[f].here = mods[f].here \/ f \in lost'))
           /\ \/ mods'[f].compiled = NoContent
              \/ mods'[f].compiled = mods[f].compiled /\ mods'[f].here = mods[f].here
  PROVE  StaleInv'
BY DEF StaleInv, StaleIsExplained, TasksExplained, AbsentIsEmpty, Owed

LEMMA StaleStep ==
  ASSUME TypeOK, CoherenceInv, FoundInPlace, StaleInv, [Next]_vars
  PROVE  StaleInv'
<1>. USE DEF hostVars, fsVars, bundleVars, runVars
<1>1. ASSUME NEW f \in Paths, Edit(f)
      PROVE  StaleInv'
  <2>1. Reported' = Reported \cup {f}
    BY <1>1, RangeAppend DEF Edit, Reported, TypeOK
  <2>2. \A g \in Files : g # f => disk'[g] = disk[g]
    BY <1>1 DEF Edit, TypeOK
  <2>3. UNCHANGED <<mods, tasks, reloading, pending, lost>>
    BY <1>1 DEF Edit
  <2>4. \A g \in Sources : g \in Files
    BY DEF Files
  <2>. QED BY <2>1, <2>2, <2>3, <2>4
           DEF StaleInv, StaleIsExplained, TasksExplained, AbsentIsEmpty, Owed
<1>2. CASE DeliverChange
  <2>1. Reported \subseteq Reported' \cup {Head(notices)}
    BY <1>2, RangeTail DEF DeliverChange, Reported, TypeOK
  <2>2. /\ UNCHANGED <<disk, mods, tasks, reloading>>
        /\ pending \subseteq pending' /\ lost \subseteq lost'
        /\ Head(notices) \in Vendored \/ Head(notices) \in pending'
    BY <1>2 DEF DeliverChange
  <2>3. \A f \in Sources : f \notin Vendored
    BY FilesAssumption DEF Files
  <2>4. \A f \in Sources : Owed(f) => Owed(f)'
    BY <2>1, <2>2, <2>3 DEF Owed
  <2>. QED BY <2>2, <2>4, StaleFrame
<1>3. CASE HostReload
  <2>1. /\ \A f \in Sources : mods'[f].compiled = NoContent /\ tasks'[f].phase # "babel"
    BY <1>3 DEF HostReload, FreshDocument, NoModule, NoTask
  <2>. QED BY <2>1 DEF StaleInv, StaleIsExplained, TasksExplained, AbsentIsEmpty
\* A transform goes on with the source that was read.
<1>4. ASSUME NEW f \in Sources, NEW c, NEW found, SourceRead(f, c, found), c # disk[f] => f \in Reported \cup lost,
             found # "none" => mods[f].here \/ f \in lost,
             UNCHANGED <<disk, notices, reloading, pending, lost>>
      PROVE  StaleInv'
  <2>1. \A g \in Sources : Owed(g)' <=> Owed(g)
    BY <1>4 DEF Owed, Reported
  <2>2. /\ tasks'[f].phase = "babel" => tasks'[f].src = c
        /\ \A g \in Sources : g # f => tasks'[g] = tasks[g]
    BY <1>4 DEF SourceRead, TypeOK
  <2>3. \A g \in Sources :
          /\ \/ mods'[g].compiled = NoContent
             \/ mods'[g].compiled = mods[g].compiled /\ mods'[g].here = mods[g].here
          /\ mods[g].here => mods'[g].here
          /\ mods'[f].here \/ f \in lost
    BY <1>4 DEF SourceRead, NewModule, NoModule, TypeOK
  <2>4. TasksExplained'
    BY <1>4, <2>1, <2>2, <2>3 DEF StaleInv, TasksExplained, Owed
  <2>5. StaleIsExplained' /\ AbsentIsEmpty'
    BY <1>4, <2>1, <2>3 DEF StaleInv, StaleIsExplained, AbsentIsEmpty, Owed
  <2>. QED BY <2>4, <2>5 DEF StaleInv
<1>5. ASSUME UNCHANGED <<disk, notices, reloading, pending, mods>>, lost \subseteq lost',
             \A f \in Sources : tasks'[f] = tasks[f] \/ tasks'[f].phase # "babel"
      PROVE  StaleInv'
  BY <1>5, StaleFrame DEF Owed, Reported
<1>6. ASSUME NEW f \in Files, ReadDone(f)
      PROVE  StaleInv'
  <2>1. UNCHANGED <<disk, notices, reloading, pending, lost>>
    BY <1>6 DEF ReadDone
  <2>2. CASE f \in Sources /\ SourceRead(f, inflight[f].content, tasks[f].found)
    BY <1>4, <1>6, <2>1, <2>2 DEF ReadDone, CoherenceInv, ReadsCoherent, FoundInPlace
  <2>3. CASE UNCHANGED <<mods, tasks>>
    BY <1>5, <2>1, <2>3
  <2>. QED BY <1>6, <2>2, <2>3 DEF ReadDone
<1>7. ASSUME NEW f \in Sources, TaskRead(f)
      PROVE  StaleInv'
  <2>1. UNCHANGED <<disk, notices, reloading, pending, lost>>
    BY <1>7 DEF TaskRead
  <2>2. CASE SourceRead(f, cache[f], InMap(f)) /\ cache[f] # NoContent
    <3>1. InMap(f) # "none" => mods[f].here
      BY DEF InMap
    <3>. QED BY <1>4, <2>1, <2>2, <3>1 DEF CoherenceInv, CacheCoherent, Files
  <2>3. CASE ReadingBegins(f) /\ UNCHANGED mods
    <3>1. \A g \in Sources : tasks'[g] = tasks[g] \/ tasks'[g].phase # "babel"
      BY <2>3, ReadingType DEF TypeOK
    <3>. QED BY <1>5, <2>1, <2>3, <3>1
  <2>. QED BY <1>7, <2>2, <2>3 DEF TaskRead, ReadingBegins
<1>8. ASSUME NEW f \in Files, ReadFails(f)
      PROVE  StaleInv'
  <2>1. UNCHANGED <<disk, notices, reloading, pending, mods>> /\ lost \subseteq lost'
    BY <1>8 DEF ReadFails
  <2>2. tasks' = tasks \/ (f \in Sources /\ tasks' = [tasks EXCEPT ![f] = NoTask])
    BY <1>8 DEF ReadFails
  <2>. QED BY <1>5, <2>1, <2>2 DEF NoTask, TypeOK
\* Code is adopted.
<1>9. ASSUME NEW f \in Sources, NEW m, mods' = mods \/ mods' = [mods EXCEPT ![f] = m],
             m.compiled \in {mods[f].compiled, tasks[f].src}, m.here, mods' # mods => mods[f].here,
             tasks[f].phase = "babel", tasks' = [tasks EXCEPT ![f].phase = "adopted"],
             UNCHANGED <<disk, notices, reloading, pending>>, lost \subseteq lost'
      PROVE  StaleInv'
  <2>1. \A g \in Sources : Owed(g) => Owed(g)'
    BY <1>9 DEF Owed, Reported
  <2>2. tasks[f].src # disk[f] => Owed(f)
    BY <1>9 DEF StaleInv, TasksExplained
  <2>3. StaleIsExplained' /\ AbsentIsEmpty'
    BY <1>9, <2>1, <2>2 DEF StaleInv, StaleIsExplained, AbsentIsEmpty, Owed, TypeOK
  <2>4. TasksExplained'
    BY <1>9, <2>1 DEF StaleInv, TasksExplained, TypeOK
  <2>. QED BY <2>3, <2>4 DEF StaleInv
<1>10. ASSUME NEW f \in Sources, TaskTranspiled(f)
       PROVE  StaleInv'
  <2>1. /\ mods' = IF mods[f].here THEN [mods EXCEPT ![f] = Adopted(mods[f], tasks[f].src)] ELSE mods
        /\ tasks[f].phase = "babel" /\ tasks' = [tasks EXCEPT ![f].phase = "adopted"]
        /\ UNCHANGED <<disk, notices, reloading, pending, lost>>
    BY <1>10 DEF TaskTranspiled
  <2>2. mods[f] \in Module
    BY DEF TypeOK
  <2>3. mods[f].here => /\ Adopted(mods[f], tasks[f].src).here
                        /\ Adopted(mods[f], tasks[f].src).compiled \in {mods[f].compiled, tasks[f].src}
    BY <2>2 DEF Adopted, Module
  <2>4. CASE mods[f].here
    BY <1>9, <2>1, <2>3, <2>4
  <2>5. CASE ~mods[f].here
    <3>1. \A g \in Sources : tasks'[g] = tasks[g] \/ tasks'[g].phase # "babel"
      BY <2>1 DEF TypeOK
    <3>. QED BY <1>5, <2>1, <2>5, <3>1
  <2>. QED BY <2>4, <2>5
<1>11. ASSUME NEW f \in Sources, TaskTimesOut(f)
       PROVE  StaleInv'
  <2> DEFINE m == [mods[f] EXCEPT !.error = TRUE, !.compiled = tasks[f].src]
  <2>1. /\ tasks[f].phase = "babel" /\ tasks' = [tasks EXCEPT ![f].phase = "adopted"]
        /\ UNCHANGED <<disk, notices, reloading, pending>> /\ lost \subseteq lost'
    BY <1>11 DEF TaskTimesOut
  <2>2. mods[f] \in Module /\ f \in DOMAIN mods
    BY DEF TypeOK
  <2>3. mods' = IF mods[f].here THEN [mods EXCEPT ![f] = m] ELSE mods
    BY <1>11, <2>2 DEF TaskTimesOut, TypeOK
  <2>4. mods[f].here => m.here /\ m.compiled = tasks[f].src
    BY <2>2 DEF Module
  <2> HIDE DEF m
  <2>5. CASE mods[f].here
    BY <1>9, <2>1, <2>3, <2>4, <2>5
  <2>6. CASE ~mods[f].here
    <3>1. \A g \in Sources : tasks'[g] = tasks[g] \/ tasks'[g].phase # "babel"
      BY <2>1 DEF TypeOK
    <3>. QED BY <1>5, <2>1, <2>3, <2>6, <3>1
  <2>. QED BY <2>5, <2>6
<1>12. ASSUME NEW S, tasks' = Enqueue(S)
       PROVE  \A f \in Sources : tasks'[f] = tasks[f] \/ tasks'[f].phase # "babel"
  BY <1>12 DEF Enqueue
<1>13. ASSUME NEW f \in Sources, TaskDone(f)
       PROVE  StaleInv'
  <2>1. PICK S : tasks' = [Enqueue(S) EXCEPT ![f] = NoTask]
    BY <1>13 DEF TaskDone
  <2>2. \A g \in Sources : tasks'[g] = tasks[g] \/ tasks'[g].phase # "babel"
    BY <2>1 DEF Enqueue, NoTask
  <2>. QED BY <1>5, <1>13, <2>2 DEF TaskDone
<1>14. CASE StartFirstLoad
  <2>1. /\ \A f \in Sources : mods'[f].compiled = NoContent
        /\ UNCHANGED <<disk, notices, reloading, pending, tasks>> /\ lost \subseteq lost'
        /\ \A f \in Sources : tasks[f].phase = "babel" => f \in lost'
    BY <1>14 DEF StartFirstLoad, FreshDocument, NoModule
  <2>2. \A f \in Sources : Owed(f) => Owed(f)'
    BY <2>1 DEF Owed, Reported
  <2>. QED BY <2>1, <2>2, StaleFrame
\* The change set is drained: what was owed is reset, or the page goes.
<1>15. CASE StartUpdate
  <2>1. UNCHANGED <<disk, notices>>
    BY <1>15 DEF StartUpdate
  <2>2. CASE UNCHANGED <<pending, mods, tasks, reloading, lost>>
    BY <1>5, <2>1, <2>2
  <2>3. CASE Reload /\ UNCHANGED <<mods, tasks, lost>>
    BY <2>1, <2>3, StaleFrame DEF Reload, Owed
  <2>4. CASE ResetUntilCold
    <3>1. \A f \in Sources : tasks'[f] = tasks[f] \/ tasks'[f].phase # "babel"
      BY <1>12, <2>4 DEF ResetUntilCold
    <3>2. \A f \in Sources : /\ Reset(mods[f]).compiled = NoContent
                             /\ [Reset(mods[f]) EXCEPT !.dirty = mods[f].dirty].compiled = NoContent
      BY DEF Reset, TypeOK, Module
    <3>3. \A f \in Sources : /\ Reset(mods[f]).here = mods[f].here
                              /\ [Reset(mods[f]) EXCEPT !.dirty = mods[f].dirty].here = mods[f].here
      BY DEF Reset, TypeOK, Module
    <3>4. \A f \in Sources : mods'[f].here = mods[f].here
      BY <2>4, <3>3 DEF ResetUntilCold
    <3>5. \A f \in Sources : mods'[f].compiled = NoContent \/ mods'[f] = mods[f]
      BY <2>4, <3>2 DEF ResetUntilCold
    <3>6. reloading'
      BY <2>4 DEF ResetUntilCold, Reload
    <3>. QED BY <2>1, <2>4, <3>1, <3>5, <3>4, <3>6, StaleFrame DEF Owed, ResetUntilCold
  <2>5. CASE ResetChanged /\ ~reloading
    <3>1. \A f \in Sources : tasks'[f] = tasks[f] \/ tasks'[f].phase # "babel"
      BY <1>12, <2>5 DEF ResetChanged
    <3>2. \A f \in Sources : mods'[f] = IF f \in Changed THEN Reset(mods[f]) ELSE mods[f]
      BY <2>5 DEF ResetChanged
    <3>3. \A f \in Sources : /\ Reset(mods[f]).compiled = NoContent
                             /\ Reset(mods[f]).here = mods[f].here
      BY DEF Reset, TypeOK, Module
    <3>4. \A f \in Sources : f \in Changed \/ f \notin pending \/ ~mods[f].here
      BY DEF Changed
    <3>5. lost \subseteq lost' /\ UNCHANGED reloading
      BY <2>5 DEF ResetChanged
    <3>6. \A f \in Sources : f \in Changed /\ tasks[f].phase = "babel" /\ tasks[f].src # disk[f] =>
                              f \in lost'
      BY <2>5 DEF ResetChanged
    <3>7. \A f \in Sources : f \in Changed \/ (Owed(f) => Owed(f)') \/ ~mods[f].here
      BY <2>1, <3>4, <3>5 DEF Owed, Reported
    <3>8. StaleIsExplained' /\ AbsentIsEmpty'
      BY <2>1, <3>2, <3>3, <3>7 DEF StaleInv, StaleIsExplained, AbsentIsEmpty, Owed
    <3>9. TasksExplained'
      BY <2>1, <3>1, <3>2, <3>3, <3>5, <3>6, <3>7 DEF StaleInv, TasksExplained, Owed
    <3>. QED BY <3>8, <3>9 DEF StaleInv
  <2>. QED BY <1>15, <2>2, <2>3, <2>4, <2>5 DEF StartUpdate
<1>16. CASE FirstDrain
  <2>1. /\ UNCHANGED <<disk, notices, reloading, mods, tasks>> /\ lost \subseteq lost'
        /\ \A f \in Sources : f \in pending /\ (mods[f].here \/ tasks[f].phase = "babel") => f \in lost'
    BY <1>16 DEF FirstDrain
  <2>2. \A f \in Sources : (Owed(f) => Owed(f)') \/ (~mods[f].here /\ tasks[f].phase # "babel")
    BY <2>1 DEF Owed, Reported
  <2>. QED BY <2>1, <2>2 DEF StaleInv, StaleIsExplained, TasksExplained, AbsentIsEmpty, Owed
\* Evaluation leaves the code as it is.
<1>17. CASE Evaluate \/ EvaluateThrows
  <2>1. \A f \in Sources :
          /\ Ran(mods[f], f).compiled = mods[f].compiled /\ Ran(mods[f], f).here = mods[f].here
          /\ Failed(mods[f]).compiled = mods[f].compiled /\ Failed(mods[f]).here = mods[f].here
    BY DEF Ran, Failed, TypeOK, Module
  <2>2. \A f \in Sources : mods'[f] \in {mods[f], Ran(mods[f], f), Failed(mods[f])}
    BY <1>17 DEF Evaluate, EvaluateThrows
  <2>3. UNCHANGED <<disk, notices, reloading, pending, lost, tasks>>
    BY <1>17 DEF Evaluate, EvaluateThrows
  <2>4. \A f \in Sources : mods'[f].compiled = mods[f].compiled /\ mods'[f].here = mods[f].here
    BY <2>1, <2>2
  <2>. QED BY <2>3, <2>4, StaleFrame DEF Owed, Reported
<1>18. CASE TransformEntry
  <2>1. \A f \in Sources : tasks'[f] = tasks[f] \/ tasks'[f].phase # "babel"
    BY <1>12, <1>18 DEF TransformEntry
  <2>. QED BY <1>5, <1>18, <2>1 DEF TransformEntry
<1>19. CASE (\E f \in Files : PortAnswer(f)) \/ CompileReads \/ (\E f \in Sources : WalkModule(f))
  BY <1>5, <1>19 DEF PortAnswer, CompileReads, WalkModule
<1>20. CASE PresetReady \/ ChangesTransformed \/ EntryTransformed \/ GraphFinished \/ EvaluateNothing
  BY <1>5, <1>20 DEF PresetReady, ChangesTransformed, EntryTransformed, GraphFinished, EvaluateNothing
\* A change of package.json or of the HTML may ask for the reload.
<1>21. CASE PackageJson \/ ReplaceHtml
  <2>1. /\ UNCHANGED <<disk, notices, pending, mods, tasks, lost>>
        /\ reloading' \/ UNCHANGED reloading
    BY <1>21 DEF PackageJson, ReplaceHtml, Reload
  <2>. QED BY <2>1, StaleFrame DEF Owed, Reported
<1>22. CASE UNCHANGED vars
  BY <1>5, <1>22 DEF vars
<1>. QED
  BY <1>1, <1>2, <1>3, <1>6, <1>7, <1>8, <1>10, <1>11, <1>13, <1>14, <1>15, <1>16, <1>17,
     <1>18, <1>19, <1>20, <1>21, <1>22 DEF Next, Document

\* StaleIsExplained, for every app and any number of edits and faults: superseded code in a
\* module is never forgotten, whatever the order in which edits, reads, transforms, drains
\* and reloads interleave, but for the files in lost (CachedFS.markChanged, drainChanges,
\* Module.compile, Bundler.compile).
THEOREM NoStaleCode == Spec => []StaleIsExplained
<1>1. Init => CoherenceInv /\ FoundInPlace /\ StaleInv
  BY DEF Init, FreshDocument, NoRead, NoTask, NoModule, CoherenceInv, CacheCoherent, ReadsCoherent,
         FoundInPlace, StaleInv, StaleIsExplained, TasksExplained, AbsentIsEmpty
<1>2. TypeOK /\ CoherenceInv /\ FoundInPlace /\ StaleInv /\ [Next]_vars
        => CoherenceInv' /\ FoundInPlace' /\ StaleInv'
  BY CoherenceStep, FoundStep, StaleStep
<1>3. StaleInv => StaleIsExplained
  BY DEF StaleInv
<1>. QED BY <1>1, <1>2, <1>3, TypeCorrect, PTL DEF Spec

-----------------------------------------------------------------------------
(* The reload *)

\* While the page waits to be navigated no compile is under way but one that has
\* not yet looked.
ReloadInv == reloading => pc \in {"idle", "preset"} /\ awaiting = {}

LEMMA ReloadStep ==
  ASSUME TypeOK, ReloadInv, [Next]_vars
  PROVE  ReloadInv' /\ (reloading' => out' \in {out, "busy"})
<1>. USE DEF hostVars, fsVars, bundleVars, runVars, ReloadInv
<1>1. CASE HostReload
  BY <1>1 DEF HostReload
<1>2. CASE (\E f \in Paths : Edit(f)) \/ DeliverChange
  BY <1>2 DEF Edit, DeliverChange
<1>3. CASE \E f \in Files : PortAnswer(f) \/ ReadDone(f)
  BY <1>3 DEF PortAnswer, ReadDone
<1>4. CASE \E f \in Files : ReadFails(f)
  BY <1>4 DEF ReadFails, EndCompile
<1>5. CASE \E f \in Sources : TaskRead(f) \/ TaskTranspiled(f) \/ TaskTimesOut(f) \/ TaskDone(f)
  BY <1>5 DEF TaskRead, TaskTranspiled, TaskTimesOut, TaskDone
<1>6. CASE StartFirstLoad \/ PresetReady
  BY <1>6 DEF StartFirstLoad, PresetReady, EndCompile, Goto, TypeOK
<1>7. CASE StartUpdate
  BY <1>7 DEF StartUpdate, ResetUntilCold, ResetChanged, Reload, EndCompile
<1>8. CASE FirstDrain \/ CompileReads \/ ChangesTransformed
  BY <1>8 DEF FirstDrain, CompileReads, ChangesTransformed, Goto
<1>9. CASE PackageJson
  BY <1>9 DEF PackageJson, Reload, EndCompile, Goto
<1>10. CASE TransformEntry \/ EntryTransformed \/ GraphFinished
  BY <1>10 DEF TransformEntry, EntryTransformed, GraphFinished, Goto
<1>11. CASE \E f \in Sources : WalkModule(f)
  BY <1>11 DEF WalkModule, EndCompile
<1>12. CASE ReplaceHtml
  BY <1>12 DEF ReplaceHtml, Reload, EndCompile, Goto
<1>13. CASE EvaluateNothing \/ Evaluate \/ EvaluateThrows
  BY <1>13 DEF EvaluateNothing, Evaluate, EvaluateThrows, EndCompile
<1>14. CASE UNCHANGED vars
  BY <1>14 DEF vars
<1>. QED
  BY <1>1, <1>2, <1>3, <1>4, <1>5, <1>6, <1>7, <1>8, <1>9, <1>10, <1>11, <1>12, <1>13,
     <1>14 DEF Next, Document

\* NoTerminalWhileReloading, for every app and any number of edits and faults.
THEOREM NoFalseTerminal == Spec => NoTerminalWhileReloading
<1>1. Init => ReloadInv
  BY DEF Init, ReloadInv
<1>2. TypeOK /\ ReloadInv /\ [Next]_vars => ReloadInv'
  BY ReloadStep
<1>3. TypeOK /\ ReloadInv /\ [Next]_vars => [reloading' => out' \in {out, "busy"}]_vars
  BY ReloadStep
<1>. QED BY <1>1, <1>2, <1>3, TypeCorrect, PTL DEF Spec, NoTerminalWhileReloading

-----------------------------------------------------------------------------
(* What ran *)

\* The code of g threw when an update ran it, and nothing has touched it since: g is not
\* being transformed and did not accept updates, so its next change reloads the page.
Threw(g) == mods[g].compiled.kind = "throws" /\ ~mods[g].hot /\ tasks[g].phase = "none"

\* The modules that the evaluation of f runs.
Needs(f) == {f} \cup (IF f = Entry THEN Deps ELSE {})

\* A module that ran holds the code it ran, and is neither dirty nor transformed.
RanIsCurrent ==
  \A f \in Sources :
    /\ mods[f].eval # NoContent => mods[f].eval = mods[f].compiled /\ tasks[f].phase = "none"
    /\ mods[f].dirty => mods[f].eval = NoContent

\* A first load starts from modules that never ran; after it every module is in the map.
FirstLoadIsFresh ==
  /\ pc \in {"preset", "vendor"} => firstLoad
  /\ firstLoad /\ pc # "idle" => \A f \in Sources : mods[f].eval = NoContent
  /\ ~firstLoad => \A f \in Sources : mods[f].here

\* The walk passes modules that stay finished for as long as the compile lasts.
WalkedIsFinished ==
  /\ \A f \in walked : Finished(f) /\ tasks[f].phase = "none"
  /\ pc \notin {"walk", "html", "eval"} => walked = {}
  /\ pc \in {"html", "eval"} /\ ~noop => walked = Sources
  /\ noop => pc \in {"html", "eval"}

\* A module that has not run is dirty, or some code it needs threw.
BehindIsExplained ==
  ~firstLoad /\ ~reloading =>
    \A f \in Sources : mods[f].eval = NoContent /\ ~mods[f].dirty => \E g \in Needs(f) : Threw(g)

EvalInv == RanIsCurrent /\ FirstLoadIsFresh /\ WalkedIsFinished /\ BehindIsExplained

LEMMA InitEval == Init => EvalInv
<1>. SUFFICES ASSUME Init PROVE EvalInv
  OBVIOUS
<1>1. \A f \in Sources : mods[f].eval = NoContent /\ ~mods[f].dirty
  BY DEF Init, FreshDocument, NoModule
<1>. QED BY <1>1 DEF Init, EvalInv, RanIsCurrent, FirstLoadIsFresh, WalkedIsFinished, BehindIsExplained

\* A step that leaves the modules, the queue and the compile alone keeps it.
LEMMA EvalFrame ==
  ASSUME EvalInv, UNCHANGED <<mods, tasks, firstLoad, reloading, pc, walked, noop>>
  PROVE  EvalInv'
<1>1. RanIsCurrent' /\ FirstLoadIsFresh'
  BY DEF EvalInv, RanIsCurrent, FirstLoadIsFresh
<1>2. WalkedIsFinished'
  BY DEF EvalInv, WalkedIsFinished, Finished
<1>3. BehindIsExplained'
  BY DEF EvalInv, BehindIsExplained, Threw, Needs
<1>. QED BY <1>1, <1>2, <1>3 DEF EvalInv

\* A compile that gives up keeps it, with or without asking for a reload.
LEMMA EvalAbort ==
  ASSUME EvalInv, UNCHANGED <<mods, tasks, firstLoad>>, reloading => reloading',
         NEW message, EndCompile(message)
  PROVE  EvalInv'
<1>1. RanIsCurrent'
  BY DEF EvalInv, RanIsCurrent
<1>2. FirstLoadIsFresh' /\ WalkedIsFinished'
  BY DEF EvalInv, FirstLoadIsFresh, WalkedIsFinished, EndCompile
<1>3. BehindIsExplained'
  BY DEF EvalInv, BehindIsExplained, Threw, Needs
<1>. QED BY <1>1, <1>2, <1>3 DEF EvalInv

\* A compile that goes on to its next phase keeps it.
LEMMA EvalGoto ==
  ASSUME EvalInv, pc # "idle", UNCHANGED <<mods, tasks, firstLoad, reloading, noop>>,
         pc' \in {"preset", "vendor"} => firstLoad,
         walked' = walked \/ \E f \in Sources : /\ walked' = walked \cup {f}
                                                /\ Finished(f) /\ tasks[f].phase = "none",
         pc' \notin {"walk", "html", "eval"} => walked' = {},
         pc' \in {"html", "eval"} /\ ~noop => walked' = Sources,
         noop => pc' \in {"html", "eval"}
  PROVE  EvalInv'
<1>1. RanIsCurrent' /\ FirstLoadIsFresh'
  BY DEF EvalInv, RanIsCurrent, FirstLoadIsFresh
<1>2. WalkedIsFinished'
  <2>1. \A f \in walked' : f \in walked \/ (Finished(f) /\ tasks[f].phase = "none")
    OBVIOUS
  <2>2. \A f \in walked' : Finished(f)' /\ tasks'[f].phase = "none"
    BY <2>1 DEF EvalInv, WalkedIsFinished, Finished
  <2>. QED BY <2>2 DEF WalkedIsFinished
<1>3. BehindIsExplained'
  BY DEF EvalInv, BehindIsExplained, Threw, Needs
<1>. QED BY <1>1, <1>2, <1>3 DEF EvalInv

\* A step of the transform of f keeps it: f has not run, what it brings is for f alone, and
\* the transforms it starts are of modules without code.
LEMMA EvalTask ==
  ASSUME TypeOK, EvalInv, NEW f \in Sources, tasks[f].phase # "none",
         UNCHANGED <<firstLoad, reloading>>,
         \A g \in Sources \ {f} :
           mods'[g] = mods[g] /\ (tasks'[g] = tasks[g] \/ mods[g].compiled = NoContent),
         mods'[f].eval \in {mods[f].eval, NoContent}, mods'[f].dirty => mods[f].dirty,
         mods[f].here => mods'[f].here /\ mods'[f].dirty = mods[f].dirty,
         UNCHANGED <<pc, walked, noop>> \/ EndCompile("error")
  PROVE  EvalInv'
<1>1. mods[f].eval = NoContent /\ mods'[f].eval = NoContent
  BY DEF EvalInv, RanIsCurrent
<1>2. RanIsCurrent'
  BY <1>1 DEF EvalInv, RanIsCurrent
<1>3. pc' # "idle" => UNCHANGED <<pc, walked, noop>>
  BY DEF EndCompile
<1>4. FirstLoadIsFresh'
  <2>1. \A g \in Sources : /\ mods[g].here => mods'[g].here
                           /\ mods[g].eval = NoContent => mods'[g].eval = NoContent
    BY <1>1
  <2>. QED BY <1>3, <2>1 DEF EvalInv, FirstLoadIsFresh
<1>5. WalkedIsFinished'
  <2>1. walked' \subseteq walked /\ walked \subseteq Sources
    BY DEF EndCompile, TypeOK
  <2>2. f \notin walked
    BY DEF EvalInv, WalkedIsFinished
  <2>3. \A g \in walked : mods'[g] = mods[g] /\ tasks'[g] = tasks[g]
    BY <2>1, <2>2 DEF EvalInv, WalkedIsFinished, Finished
  <2>4. \A g \in walked' : Finished(g)' /\ tasks'[g].phase = "none"
    BY <2>1, <2>3 DEF EvalInv, WalkedIsFinished, Finished
  <2>. QED BY <1>3, <2>4 DEF EvalInv, WalkedIsFinished, EndCompile
<1>6. BehindIsExplained'
  <2>1. \A g \in Sources : Threw(g) => Threw(g)'
    BY DEF Threw, NoContent
  <2>2. ASSUME ~firstLoad', ~reloading', NEW g \in Sources, mods'[g].eval = NoContent, ~mods'[g].dirty
        PROVE  \E h \in Needs(g)' : Threw(h)'
    <3>1. mods[g].eval = NoContent /\ ~mods[g].dirty
      BY <1>1, <2>2 DEF EvalInv, FirstLoadIsFresh
    <3>2. PICK h \in Needs(g) : Threw(h)
      BY <2>2, <3>1 DEF EvalInv, BehindIsExplained
    <3>3. h \in Sources
      BY <3>2 DEF Needs, Sources
    <3>. QED BY <2>1, <3>2, <3>3 DEF Needs
  <2>. QED BY <2>2 DEF BehindIsExplained
<1>. QED BY <1>2, <1>4, <1>5, <1>6 DEF EvalInv

\* Starting from scratch, or a compile on a change set.
LEMMA EvalStart ==
  ASSUME TypeOK, EvalInv, StartFirstLoad \/ StartUpdate
  PROVE  EvalInv'
<1>. USE DEF hostVars, fsVars, bundleVars, runVars
<1>1. CASE StartFirstLoad
  <2>1. \A f \in Sources : mods'[f].eval = NoContent /\ ~mods'[f].dirty
    BY <1>1 DEF StartFirstLoad, FreshDocument, NoModule
  <2>2. /\ firstLoad' /\ pc' = "preset" /\ UNCHANGED <<walked, noop>>
        /\ walked = {} /\ ~noop
    BY <1>1 DEF StartFirstLoad, TypeOK
  <2>. QED BY <2>1, <2>2 DEF EvalInv, RanIsCurrent, FirstLoadIsFresh, WalkedIsFinished,
                             BehindIsExplained
<1>2. ASSUME NEW f \in Sources
      PROVE  /\ mods[f] \in Module
             /\ Reset(mods[f]).here = mods[f].here /\ Reset(mods[f]).hot = mods[f].hot
             /\ Reset(mods[f]).compiled = NoContent
             /\ Reset(mods[f]).eval = NoContent
             /\ [Reset(mods[f]) EXCEPT !.dirty = mods[f].dirty].eval = NoContent
             /\ [Reset(mods[f]) EXCEPT !.dirty = mods[f].dirty].here = mods[f].here
  <2>1. mods[f] \in Module
    BY DEF TypeOK
  <2>2. mods[f].compiled = NoContent => mods[f].eval = NoContent
    BY DEF EvalInv, RanIsCurrent
  <2>. QED BY <2>1, <2>2 DEF Reset, Module
<1>3. CASE StartUpdate /\ reloading
  <2>1. /\ UNCHANGED <<mods, tasks, firstLoad, reloading>> /\ ~firstLoad /\ reloading
        /\ pc' = "idle" /\ walked' = {} /\ ~noop'
    BY <1>3 DEF StartUpdate, EndCompile
  <2>. QED BY <2>1 DEF EvalInv, RanIsCurrent, FirstLoadIsFresh, WalkedIsFinished,
                       BehindIsExplained
<1>4. CASE StartUpdate /\ Reload /\ UNCHANGED <<mods, tasks>>
  <2>1. /\ UNCHANGED <<mods, tasks, firstLoad>> /\ ~firstLoad /\ reloading'
        /\ pc' = "idle" /\ walked' = {} /\ ~noop'
    BY <1>4 DEF StartUpdate, Reload, EndCompile
  <2>. QED BY <2>1 DEF EvalInv, RanIsCurrent, FirstLoadIsFresh, WalkedIsFinished,
                       BehindIsExplained
<1>5. CASE StartUpdate /\ ResetUntilCold
  <2>1. /\ UNCHANGED firstLoad /\ ~firstLoad /\ reloading'
        /\ pc' = "idle" /\ walked' = {} /\ ~noop'
    BY <1>5 DEF StartUpdate, ResetUntilCold, Reload, EndCompile
  <2>2. PICK f \in Changed, before \in SUBSET Changed :
          /\ mods' = [g \in Sources |->
                        IF g \in before THEN Reset(mods[g])
                        ELSE IF g = f THEN [Reset(mods[g]) EXCEPT !.dirty = mods[g].dirty]
                        ELSE mods[g]]
          /\ tasks' = Enqueue(before)
    BY <1>5 DEF ResetUntilCold
  <2>3. \A g \in Sources :
          \/ mods'[g] = mods[g] /\ tasks'[g] = tasks[g]
          \/ mods'[g].eval = NoContent /\ mods'[g].here = mods[g].here
    BY <1>2, <2>2 DEF Enqueue
  <2>4. RanIsCurrent'
    BY <2>3 DEF EvalInv, RanIsCurrent
  <2>. QED BY <2>1, <2>3, <2>4 DEF EvalInv, FirstLoadIsFresh, WalkedIsFinished,
                       BehindIsExplained
<1>6. CASE StartUpdate /\ ResetChanged /\ ~(\E f \in Changed : Cold(f)) /\ ~reloading
  <2>1. /\ mods' = [g \in Sources |-> IF g \in Changed THEN Reset(mods[g]) ELSE mods[g]]
        /\ tasks' = Enqueue(Changed)
    BY <1>6 DEF ResetChanged
  <2>2. /\ UNCHANGED <<firstLoad, reloading, walked>> /\ ~firstLoad
        /\ walked = {} /\ pc = "idle"
        /\ noop' = (pending = {}) /\ pc' = IF pending = {} THEN "html" ELSE "changed"
    BY <1>6 DEF StartUpdate, ResetChanged, Goto, TypeOK
  <2>3. \A g \in Sources :
          \/ mods'[g] = mods[g] /\ tasks'[g] = tasks[g] /\ g \notin Changed
          \/ /\ mods'[g].eval = NoContent /\ mods'[g].here = mods[g].here
             /\ mods'[g].hot = mods[g].hot
             /\ mods'[g] = Reset(mods[g]) /\ g \in Changed
    BY <1>2, <2>1 DEF Enqueue
  <2>4. RanIsCurrent' /\ FirstLoadIsFresh' /\ WalkedIsFinished'
    BY <2>2, <2>3 DEF EvalInv, RanIsCurrent, FirstLoadIsFresh, WalkedIsFinished
  <2>5. \A g \in Sources : Threw(g) => Threw(g)'
    <3>1. \A g \in Sources : Threw(g) => g \notin Changed
      BY <1>6 DEF Threw, Cold, NoContent
    <3>. QED BY <2>3, <3>1 DEF Threw
  <2>6. BehindIsExplained'
    <3>1. ASSUME ~firstLoad', ~reloading', NEW g \in Sources, mods'[g].eval = NoContent, ~mods'[g].dirty
          PROVE  \E h \in Needs(g)' : Threw(h)'
      <4>1. mods[g].eval = NoContent /\ ~mods[g].dirty
        <5>1. Reset(mods[g]).dirty = (mods[g].dirty \/ mods[g].compiled # NoContent)
          BY <1>2 DEF Reset, Module
        <5>2. mods[g].compiled = NoContent => mods[g].eval = NoContent
          BY DEF EvalInv, RanIsCurrent
        <5>3. mods[g].dirty => mods[g].eval = NoContent
          BY DEF EvalInv, RanIsCurrent
        <5>. QED BY <2>3, <3>1, <5>1, <5>2, <5>3
      <4>2. PICK h \in Needs(g) : Threw(h)
        BY <2>2, <3>1, <4>1, <1>6 DEF EvalInv, BehindIsExplained
      <4>3. h \in Sources
        BY <4>2 DEF Needs, Sources
      <4>. QED BY <2>5, <4>2, <4>3 DEF Needs
    <3>. QED BY <3>1 DEF BehindIsExplained
  <2>. QED BY <2>4, <2>6 DEF EvalInv
<1>. QED BY <1>1, <1>3, <1>4, <1>5, <1>6 DEF StartUpdate

\* An evaluation, of the whole graph or of what an update left dirty.
LEMMA EvalEvaluate ==
  ASSUME TypeOK, EvalInv, ReloadInv, EvaluateNothing \/ Evaluate \/ EvaluateThrows
  PROVE  EvalInv'
<1>. USE DEF hostVars, fsVars, bundleVars, runVars
<1>1. CASE EvaluateNothing
  BY <1>1, EvalAbort DEF EvaluateNothing
<1>2. ASSUME pc = "eval", ~noop, NEW f \in Sources
      PROVE  tasks[f].phase = "none" /\ Finished(f)
  BY <1>2 DEF EvalInv, WalkedIsFinished
<1>3. ASSUME NEW f \in Sources
      PROVE  /\ Ran(mods[f], f).eval = mods[f].compiled /\ Ran(mods[f], f).compiled = mods[f].compiled
             /\ ~Ran(mods[f], f).dirty
             /\ Ran(mods[f], f).here = mods[f].here /\ Ran(mods[f], f).error = mods[f].error
             /\ Failed(mods[f]).eval = mods[f].eval /\ Failed(mods[f]).compiled = mods[f].compiled
             /\ ~Failed(mods[f]).dirty /\ ~Failed(mods[f]).hot
             /\ Failed(mods[f]).here = mods[f].here /\ Failed(mods[f]).error = mods[f].error
  BY DEF Ran, Failed, TypeOK, Module
<1>4. ToRun \subseteq Sources /\ \A f \in Sources : Needs(f) \subseteq Sources
  BY DEF ToRun, Roots, Sources, Needs
\* What an evaluation does not run ran before, or is behind a thrower it does not run either.
<1>5. ASSUME pc = "eval", ~reloading, NEW f \in Sources, f \notin ToRun, mods[f].eval = NoContent
      PROVE  ~firstLoad /\ ~mods[f].dirty /\ \E g \in Needs(f) : Threw(g)
  <2>1. ~firstLoad
    <3>1. firstLoad => ToRun = Sources
      BY <1>5 DEF EvalInv, FirstLoadIsFresh, ToRun, Roots, Sources
    <3>. QED BY <1>5, <3>1
  <2>2. ~mods[f].dirty
    <3>1. f \notin Roots
      BY <1>5, <2>1 DEF ToRun, Roots, Sources
    <3>. QED BY <2>1, <3>1 DEF Roots
  <2>. QED BY <1>5, <2>1, <2>2 DEF EvalInv, BehindIsExplained
<1>6. CASE Evaluate /\ ~reloading
  <2>1. /\ UNCHANGED <<tasks, reloading>> /\ pc = "eval" /\ ~noop /\ ~firstLoad'
        /\ pc' = "idle" /\ walked' = {} /\ ~noop' /\ Throwers = {}
        /\ mods' = [f \in Sources |-> IF f \in ToRun THEN Ran(mods[f], f) ELSE mods[f]]
    BY <1>6 DEF Evaluate, EndCompile
  <2>2. \A f \in Sources : /\ mods'[f].compiled = mods[f].compiled /\ mods'[f].here = mods[f].here
                           /\ mods'[f].error = mods[f].error
    BY <1>3, <2>1
  <2>3. \A f \in Sources : f \in ToRun => mods'[f].eval = mods'[f].compiled /\ ~mods'[f].dirty
    BY <1>3, <2>1
  <2>4. \A f \in Sources : f \notin ToRun => mods'[f] = mods[f]
    BY <2>1
  <2>5. \A f \in Sources : tasks'[f].phase = "none" /\ Finished(f)'
    BY <1>2, <2>1, <2>2 DEF Finished
  <2>6. RanIsCurrent'
    BY <2>3, <2>4, <2>5 DEF EvalInv, RanIsCurrent
  <2>7. FirstLoadIsFresh' /\ WalkedIsFinished'
    BY <2>1, <2>5 DEF FirstLoadIsFresh, WalkedIsFinished, Finished
  <2>8. ASSUME NEW f \in Sources, mods'[f].eval = NoContent
        PROVE  \E g \in Needs(f) : Threw(g) /\ Threw(g)'
    <3>1. f \notin ToRun
      BY <2>3, <2>5, <2>8 DEF Finished
    <3>2. PICK g \in Needs(f) : Threw(g)
      BY <1>5, <1>6, <2>1, <2>4, <2>8, <3>1
    <3>3. g \notin ToRun
      BY <2>1, <3>2 DEF Throwers, Threw
    <3>. QED BY <1>4, <2>1, <2>4, <3>2, <3>3 DEF Threw
  <2>9. BehindIsExplained'
    BY <2>8 DEF BehindIsExplained, Needs
  <2>. QED BY <2>1, <2>6, <2>7, <2>9 DEF EvalInv
<1>7. CASE EvaluateThrows /\ ~reloading
  <2>1. PICK x \in Throwers, before \in SUBSET (ToRun \ (Throwers \cup {Entry})) :
          mods' = [f \in Sources |->
                     IF f \in before THEN Ran(mods[f], f)
                     ELSE IF f = x \/ f \in ({Entry} \cap ToRun) THEN Failed(mods[f])
                     ELSE mods[f]]
    BY <1>7 DEF EvaluateThrows
  <2>2. /\ UNCHANGED <<tasks, reloading, firstLoad>> /\ pc = "eval" /\ ~noop
        /\ pc' = "idle" /\ walked' = {} /\ ~noop'
    BY <1>7 DEF EvaluateThrows, EndCompile
  <2>3. x \in ToRun /\ x \in Sources /\ mods[x].compiled.kind = "throws"
    BY <1>4, <2>1 DEF Throwers
  <2>4. \A f \in Sources : /\ mods'[f].compiled = mods[f].compiled /\ mods'[f].here = mods[f].here
                           /\ mods'[f].error = mods[f].error
    <3>1. \A f \in Sources : mods'[f] \in {mods[f], Ran(mods[f], f), Failed(mods[f])}
      BY <2>1
    <3>. QED BY <1>3, <3>1
  <2>5. \A f \in before : mods'[f].eval = mods'[f].compiled /\ ~mods'[f].dirty
    BY <1>3, <1>4, <2>1
  <2>6. \A f \in Sources : f \notin before => mods'[f].eval = mods[f].eval
    BY <1>3, <2>1
  <2>7. \A f \in Sources : f \notin before /\ mods'[f].dirty => mods[f].dirty
    <3>1. \A f \in Sources : f \notin before => mods'[f] \in {mods[f], Failed(mods[f])}
      BY <2>1
    <3>. QED BY <1>3, <3>1
  <2>8. \A f \in Sources : tasks'[f].phase = "none" /\ Finished(f)'
    BY <1>2, <2>2, <2>4 DEF Finished
  <2>9. RanIsCurrent'
    BY <2>4, <2>5, <2>6, <2>7, <2>8 DEF EvalInv, RanIsCurrent
  <2>10. FirstLoadIsFresh' /\ WalkedIsFinished'
    BY <2>2, <2>4 DEF EvalInv, FirstLoadIsFresh, WalkedIsFinished
  <2>11. Threw(x)'
    <3>1. x \notin before
      BY <2>1
    <3>2. mods'[x] = Failed(mods[x])
      BY <2>1, <2>3, <3>1
    <3>. QED BY <1>3, <2>3, <2>8, <3>2 DEF Threw
  <2>12. ASSUME NEW g \in Sources, Threw(g), g \notin ToRun
         PROVE  Threw(g)'
    <3>1. g # x /\ g \notin before
      BY <2>1, <2>3, <2>12
    <3>2. mods'[g] = mods[g]
      BY <2>1, <2>12, <3>1
    <3>. QED BY <2>2, <2>12, <3>2 DEF Threw
  <2>13. ASSUME NEW g \in Sources, Threw(g)
         PROVE  Threw(g)'
    <3>1. g \notin before
      <4>1. g \in ToRun => g \in Throwers
        BY <2>13 DEF Throwers, Threw
      <4>. QED BY <2>1, <4>1
    <3>2. mods'[g] \in {mods[g], Failed(mods[g])}
      BY <2>1, <3>1
    <3>. QED BY <1>3, <2>2, <2>13, <3>2 DEF Threw
  <2>14. ASSUME ~firstLoad, NEW f \in Sources, mods'[f].eval = NoContent, ~mods'[f].dirty
         PROVE  \E g \in Needs(f) : Threw(g)'
    <3>1. f \notin before
      BY <2>5, <2>8, <2>14 DEF Finished
    <3>2. mods[f].eval = NoContent
      BY <2>6, <2>14, <3>1
    <3>3. CASE ~mods[f].dirty
      <4>1. PICK g \in Needs(f) : Threw(g)
        BY <1>7, <2>14, <3>2, <3>3 DEF EvalInv, BehindIsExplained
      <4>. QED BY <1>4, <2>13, <4>1
    <3>4. CASE mods[f].dirty
      <4>1. f = x \/ f = Entry
        <5>1. f # x /\ f # Entry => mods'[f] = mods[f]
          BY <2>1, <3>1
        <5>. QED BY <2>14, <3>4, <5>1
      <4>2. x \in Needs(f)
        BY <2>3, <4>1 DEF Needs, Sources
      <4>. QED BY <2>11, <4>2
    <3>. QED BY <3>3, <3>4
  <2>15. BehindIsExplained'
    BY <2>2, <2>14 DEF BehindIsExplained, Needs
  <2>. QED BY <2>9, <2>10, <2>15 DEF EvalInv
<1>8. Evaluate \/ EvaluateThrows => ~reloading
  BY DEF ReloadInv, Evaluate, EvaluateThrows
<1>. QED BY <1>1, <1>6, <1>7, <1>8

LEMMA EvalStep ==
  ASSUME TypeOK, ReloadInv, EvalInv, [Next]_vars
  PROVE  EvalInv'
<1>. USE DEF hostVars, fsVars, bundleVars, runVars
<1>1. CASE (\E f \in Paths : Edit(f)) \/ (\E f \in Files : PortAnswer(f)) \/ CompileReads
  BY <1>1, EvalFrame DEF Edit, PortAnswer, CompileReads
<1>2. CASE DeliverChange
  BY <1>2, EvalFrame DEF DeliverChange
<1>3. CASE HostReload
  <2>1. /\ \A f \in Sources : mods'[f].eval = NoContent /\ ~mods'[f].dirty
        /\ firstLoad' /\ pc' = "idle" /\ walked' = {} /\ ~noop'
    BY <1>3 DEF HostReload, FreshDocument, NoModule
  <2>. QED BY <2>1 DEF EvalInv, RanIsCurrent, FirstLoadIsFresh, WalkedIsFinished,
                       BehindIsExplained
\* A transform goes on with the source that was read.
<1>4. ASSUME NEW f \in Sources, NEW c, NEW found, SourceRead(f, c, found), tasks[f].phase # "none",
             UNCHANGED <<firstLoad, reloading, pc, walked, noop>>
      PROVE  EvalInv'
  <2>1. \A g \in Sources \ {f} : mods'[g] = mods[g] /\ tasks'[g] = tasks[g]
    BY <1>4 DEF SourceRead, TypeOK
  <2>2. \/ mods'[f] = mods[f]
        \/ ~mods[f].here /\ mods'[f].eval = NoContent /\ ~mods'[f].dirty
    BY <1>4 DEF SourceRead, NewModule, NoModule, TypeOK
  <2>. QED BY <1>4, <2>1, <2>2, EvalTask
<1>5. ASSUME NEW f \in Files, ReadDone(f)
      PROVE  EvalInv'
  <2>1. UNCHANGED <<firstLoad, reloading, pc, walked, noop>>
    BY <1>5 DEF ReadDone
  <2>2. CASE f \in Sources /\ tasks[f].phase = "reading" /\ SourceRead(f, inflight[f].content, tasks[f].found)
    BY <1>4, <2>1, <2>2
  <2>3. CASE UNCHANGED <<mods, tasks>>
    BY <2>1, <2>3, EvalFrame
  <2>. QED BY <1>5, <2>2, <2>3 DEF ReadDone
<1>6. ASSUME NEW f \in Files, ReadFails(f)
      PROVE  EvalInv'
  <2>1. UNCHANGED <<mods, firstLoad, reloading>>
    BY <1>6 DEF ReadFails
  <2>2. \/ UNCHANGED <<pc, walked, noop>>
        \/ EndCompile("error")
    BY <1>6 DEF ReadFails
  <2>3. CASE f \in Sources /\ tasks[f].phase = "reading"
    <3>1. \A g \in Sources \ {f} : mods'[g] = mods[g] /\ tasks'[g] = tasks[g]
      BY <1>6, <2>1, <2>3 DEF ReadFails, TypeOK
    <3>2. tasks[f].phase # "none"
      BY <2>3
    <3>. QED BY <2>1, <2>2, <2>3, <3>1, <3>2, EvalTask
  <2>4. CASE ~(f \in Sources /\ tasks[f].phase = "reading")
    <3>1. UNCHANGED tasks
      BY <1>6, <2>4 DEF ReadFails
    <3>2. CASE UNCHANGED <<pc, walked, noop>>
      BY <2>1, <3>1, <3>2, EvalFrame
    <3>3. CASE EndCompile("error")
      BY <2>1, <3>1, <3>3, EvalAbort
    <3>. QED BY <2>2, <3>2, <3>3
  <2>. QED BY <2>3, <2>4
<1>7. ASSUME NEW f \in Sources, TaskRead(f)
      PROVE  EvalInv'
  <2>1. UNCHANGED <<firstLoad, reloading, pc, walked, noop>>
        /\ tasks[f].phase # "none"
    BY <1>7 DEF TaskRead
  <2>2. CASE SourceRead(f, cache[f], InMap(f))
    BY <1>4, <2>1, <2>2
  <2>3. CASE ReadingBegins(f) /\ UNCHANGED mods
    <3>1. \A g \in Sources \ {f} : mods'[g] = mods[g] /\ tasks'[g] = tasks[g]
      BY <2>3, ReadingType DEF TypeOK
    <3>. QED BY <2>1, <2>3, <3>1, EvalTask
  <2>. QED BY <1>7, <2>2, <2>3 DEF TaskRead, ReadingBegins
<1>8. ASSUME NEW f \in Sources, TaskTranspiled(f) \/ TaskTimesOut(f)
      PROVE  EvalInv'
  <2>1. UNCHANGED <<firstLoad, reloading, pc, walked, noop>>
        /\ tasks[f].phase # "none"
    BY <1>8 DEF TaskTranspiled, TaskTimesOut
  <2>2. \A g \in Sources \ {f} : mods'[g] = mods[g] /\ tasks'[g] = tasks[g]
    BY <1>8 DEF TaskTranspiled, TaskTimesOut, TypeOK
  <2>3. mods[f] \in Module /\ f \in DOMAIN mods
    BY DEF TypeOK
  <2>4. /\ Adopted(mods[f], tasks[f].src).eval = mods[f].eval
        /\ Adopted(mods[f], tasks[f].src).dirty = mods[f].dirty
        /\ Adopted(mods[f], tasks[f].src).here = mods[f].here
    BY <2>3 DEF Adopted, Module
  <2>5. /\ mods'[f].eval = mods[f].eval /\ mods'[f].dirty = mods[f].dirty
        /\ mods'[f].here = mods[f].here
    <3>1. CASE TaskTranspiled(f)
      BY <2>3, <2>4, <3>1 DEF TaskTranspiled
    <3>2. CASE TaskTimesOut(f)
      BY <2>3, <3>2 DEF TaskTimesOut, TypeOK, Module
    <3>. QED BY <1>8, <3>1, <3>2
  <2>. QED BY <2>1, <2>2, <2>5, EvalTask
<1>9. ASSUME NEW f \in Sources, TaskDone(f)
      PROVE  EvalInv'
  <2>1. UNCHANGED <<mods, firstLoad, reloading, pc, walked, noop>>
        /\ tasks[f].phase # "none"
    BY <1>9 DEF TaskDone
  <2>2. PICK S \in SUBSET {d \in Deps : mods[d].compiled = NoContent} :
          tasks' = [Enqueue(S) EXCEPT ![f] = NoTask]
    BY <1>9 DEF TaskDone
  <2>3. \A g \in Sources \ {f} : tasks'[g] = tasks[g] \/ mods[g].compiled = NoContent
    BY <2>2 DEF Enqueue
  <2>. QED BY <2>1, <2>3, EvalTask
<1>10. CASE StartFirstLoad \/ StartUpdate
  BY <1>10, EvalStart
<1>11. CASE PresetReady
  <2>1. pc # "idle" /\ UNCHANGED <<mods, tasks, firstLoad, reloading>>
        /\ walked = {} /\ ~noop /\ firstLoad
    BY <1>11 DEF PresetReady, EvalInv, FirstLoadIsFresh, WalkedIsFinished
  <2>2. CASE EndCompile("busy")
    BY <2>1, <2>2, EvalAbort
  <2>3. CASE Goto("vendor") /\ UNCHANGED <<walked, noop>>
    BY <2>1, <2>3, EvalGoto DEF Goto
  <2>. QED BY <1>11, <2>2, <2>3 DEF PresetReady
<1>12. CASE FirstDrain
  <2>1. pc # "idle" /\ UNCHANGED <<mods, tasks, firstLoad, reloading, walked, noop>>
        /\ walked = {} /\ ~noop /\ firstLoad /\ pc' = "pkg"
    BY <1>12 DEF FirstDrain, Goto, EvalInv, FirstLoadIsFresh, WalkedIsFinished
  <2>. QED BY <2>1, EvalGoto
<1>13. CASE ChangesTransformed
  <2>1. pc # "idle" /\ UNCHANGED <<mods, tasks, firstLoad, reloading, walked, noop>>
        /\ walked = {} /\ ~noop /\ pc' \in {"pkg", "entry"}
    BY <1>13 DEF ChangesTransformed, Goto, EvalInv, WalkedIsFinished
  <2>. QED BY <2>1, EvalGoto
<1>14. CASE PackageJson
  <2>1. pc # "idle" /\ UNCHANGED <<mods, tasks, firstLoad>> /\ walked = {} /\ ~noop
    BY <1>14 DEF PackageJson, EvalInv, WalkedIsFinished
  <2>2. CASE Reload
    BY <2>1, <2>2, EvalAbort DEF Reload
  <2>3. CASE Goto("entry") /\ UNCHANGED <<reloading, walked, noop>>
    BY <2>1, <2>3, EvalGoto DEF Goto
  <2>. QED BY <1>14, <2>2, <2>3 DEF PackageJson
\* The entry is transformed only when it has no code.
<1>15. CASE TransformEntry
  <2>1. /\ UNCHANGED <<mods, firstLoad, reloading, walked, noop>>
        /\ walked = {} /\ ~noop /\ pc = "entry" /\ pc' = "entryWait"
    BY <1>15 DEF TransformEntry, Goto, EvalInv, WalkedIsFinished
  <2>2. \A g \in Sources : tasks'[g] = tasks[g] \/ mods[g].compiled = NoContent
    BY <1>15 DEF TransformEntry, Enqueue
  <2>3. RanIsCurrent'
    BY <2>1, <2>2 DEF EvalInv, RanIsCurrent
  <2>4. \A g \in Sources : Threw(g) => Threw(g)'
    BY <2>1, <2>2 DEF Threw, NoContent
  <2>5. \A g \in Sources : Needs(g) \subseteq Sources
    BY DEF Needs, Sources
  <2>6. BehindIsExplained'
    BY <2>1, <2>4, <2>5 DEF EvalInv, BehindIsExplained, Needs
  <2>. QED BY <2>1, <2>3, <2>6
           DEF EvalInv, FirstLoadIsFresh, WalkedIsFinished
<1>16. CASE EntryTransformed
  <2>1. pc # "idle" /\ UNCHANGED <<mods, tasks, firstLoad, reloading, walked, noop>>
        /\ walked = {} /\ ~noop /\ pc' = "walk"
    BY <1>16 DEF EntryTransformed, Goto, EvalInv, WalkedIsFinished
  <2>. QED BY <2>1, EvalGoto
<1>17. ASSUME NEW f \in Sources, WalkModule(f)
       PROVE  EvalInv'
  <2>1. pc = "walk" /\ UNCHANGED <<mods, tasks, firstLoad, reloading>> /\ ~noop
        /\ tasks[f].phase = "none"
    BY <1>17 DEF WalkModule, EvalInv, WalkedIsFinished
  <2>2. CASE EndCompile("error")
    BY <2>1, <2>2, EvalAbort
  <2>3. CASE Finished(f) /\ walked' = walked \cup {f} /\ UNCHANGED <<pc, noop>>
    BY <2>1, <2>3, EvalGoto
  <2>. QED BY <1>17, <2>2, <2>3 DEF WalkModule
<1>18. CASE GraphFinished
  <2>1. pc # "idle" /\ UNCHANGED <<mods, tasks, firstLoad, reloading, walked, noop>>
        /\ walked = Sources /\ ~noop /\ pc' = "html"
    BY <1>18 DEF GraphFinished, Goto, EvalInv, WalkedIsFinished
  <2>. QED BY <2>1, EvalGoto
<1>19. CASE ReplaceHtml
  <2>1. pc = "html" /\ UNCHANGED <<mods, tasks, firstLoad>>
        /\ (~noop => walked = Sources)
    BY <1>19 DEF ReplaceHtml, EvalInv, WalkedIsFinished
  <2>2. CASE Reload
    BY <2>1, <2>2, EvalAbort DEF Reload
  <2>3. CASE Goto("eval") /\ UNCHANGED <<reloading, walked, noop>>
    BY <2>1, <2>3, EvalGoto DEF Goto
  <2>. QED BY <1>19, <2>2, <2>3 DEF ReplaceHtml
<1>20. CASE EvaluateNothing \/ Evaluate \/ EvaluateThrows
  BY <1>20, EvalEvaluate
<1>21. CASE UNCHANGED vars
  BY <1>21, EvalFrame DEF vars
<1>. QED
  BY <1>1, <1>2, <1>3, <1>5, <1>6, <1>7, <1>8, <1>9, <1>10, <1>11, <1>12, <1>13, <1>14, <1>15,
     <1>16, <1>17, <1>18, <1>19, <1>20, <1>21 DEF Next, Document

\* An evaluation that comes to its end has run every module that is not behind a thrower.
LEMMA EvaluateLeaves ==
  ASSUME TypeOK, ReloadInv, EvalInv, Evaluate
  PROVE  \A f \in Sources :
           /\ Finished(f)' /\ tasks'[f].phase = "none"
           /\ \/ mods'[f].eval = mods'[f].compiled
              \/ mods'[f].eval = NoContent /\ \E g \in Needs(f) : Threw(g)'
<1>1. /\ pc = "eval" /\ ~noop /\ UNCHANGED <<tasks, reloading>> /\ ~firstLoad'
      /\ \A f \in Sources : mods'[f] = IF f \in ToRun THEN Ran(mods[f], f) ELSE mods[f]
  BY DEF Evaluate
<1>2. EvalInv' /\ ~reloading'
  BY <1>1, EvalEvaluate DEF ReloadInv
<1>3. \A f \in Sources : /\ Ran(mods[f], f).here = mods[f].here
                         /\ Ran(mods[f], f).error = mods[f].error
                         /\ Ran(mods[f], f).compiled = mods[f].compiled
                         /\ ~Ran(mods[f], f).dirty
  BY DEF Ran, TypeOK, Module
<1>4. \A f \in Sources : Finished(f) /\ tasks[f].phase = "none"
  BY <1>1 DEF EvalInv, WalkedIsFinished
<1>5. \A f \in Sources : Finished(f)' /\ tasks'[f].phase = "none"
  BY <1>1, <1>3, <1>4 DEF Finished
<1>6. \A f \in Sources : ~mods'[f].dirty
  <2>1. ASSUME NEW f \in Sources, f \notin ToRun PROVE ~mods[f].dirty
    <3>1. CASE firstLoad
      BY <1>1, <2>1, <3>1 DEF ToRun, Roots, Sources, EvalInv, FirstLoadIsFresh
    <3>2. CASE ~firstLoad
      BY <2>1, <3>2 DEF ToRun, Roots, Sources, EvalInv, RanIsCurrent
    <3>. QED BY <3>1, <3>2
  <2>. QED BY <1>1, <1>3, <2>1
<1>7. \A f \in Sources : mods'[f].eval = NoContent => \E g \in Needs(f)' : Threw(g)'
  BY <1>1, <1>2, <1>6 DEF EvalInv, BehindIsExplained
<1>8. \A f \in Sources : mods'[f].eval # NoContent => mods'[f].eval = mods'[f].compiled
  BY <1>2 DEF EvalInv, RanIsCurrent
<1>. QED BY <1>5, <1>7, <1>8 DEF Needs
-----------------------------------------------------------------------------
(* What done(ok) means *)

\* Nothing is transformed, and every module ran or is behind a thrower.
Settled ==
  \A f \in Sources :
    /\ tasks[f].phase = "none" /\ Finished(f)
    /\ \/ mods[f].eval = mods[f].compiled
       \/ mods[f].eval = NoContent /\ \E g \in Needs(f) : mods[g].compiled.kind = "throws"
SaidOk == out = "ok" /\ pc = "idle"
OkIsSettled == SaidOk \/ noop => Settled

\* With nothing ignored, a compile that finds no change follows one that said ok.
NothingToDo == ~firstLoad /\ ~reloading /\ timer /\ pending = {}
NoopFollowsOk == NothingToDo => SaidOk

OkInv == OkIsSettled /\ NoopFollowsOk

LEMMA OkStep ==
  ASSUME TypeOK, ReloadInv, EvalInv, OkInv, Vendored = {}, [Next]_vars
  PROVE  OkInv'
<1>. USE DEF hostVars, fsVars, bundleVars, runVars
\* No compile ended and none has nothing to do.
<1>1. ASSUME ~SaidOk', ~noop', NothingToDo' => SaidOk'
      PROVE  OkInv'
  BY <1>1 DEF OkInv, OkIsSettled, NoopFollowsOk
\* The modules and the queue are as they were.
<1>2. ASSUME UNCHANGED <<mods, tasks>>, SaidOk' => SaidOk, noop' => noop,
             NothingToDo' => NothingToDo /\ (SaidOk => SaidOk')
      PROVE  OkInv'
  <2>1. Settled => Settled'
    BY <1>2 DEF Settled, Finished, Needs
  <2>. QED BY <1>2, <2>1 DEF OkInv, OkIsSettled, NoopFollowsOk
<1>3. CASE \/ \E f \in Paths : Edit(f)
           \/ \E f \in Files : PortAnswer(f)
           \/ CompileReads
  BY <1>2, <1>3 DEF Edit, PortAnswer, CompileReads, SaidOk, NothingToDo
\* Every delivered change is pending: none is ignored.
<1>4. CASE DeliverChange
  <2>1. pending' # {} /\ UNCHANGED <<mods, tasks, pc, noop, out>>
    BY <1>4 DEF DeliverChange
  <2>. QED BY <1>2, <2>1 DEF SaidOk, NothingToDo
<1>5. CASE HostReload
  BY <1>1, <1>5 DEF HostReload, SaidOk, NothingToDo
\* While something is transformed the last message is not ok.
<1>6. ASSUME NEW f \in Sources, tasks[f].phase # "none", UNCHANGED <<firstLoad, reloading, timer, pending>>,
             UNCHANGED <<pc, noop, out>> \/ EndCompile("error")
      PROVE  OkInv'
  <2>1. ~SaidOk /\ ~noop /\ ~NothingToDo
    BY <1>6 DEF OkInv, OkIsSettled, NoopFollowsOk, Settled
  <2>. QED BY <1>1, <1>6, <2>1 DEF SaidOk, NothingToDo, EndCompile
<1>7. ASSUME NEW f \in Files, ReadDone(f)
      PROVE  OkInv'
  <2>1. UNCHANGED <<firstLoad, reloading, timer, pending, pc, noop, out>>
    BY <1>7 DEF ReadDone
  <2>2. CASE f \in Sources /\ tasks[f].phase = "reading"
    BY <1>6, <2>1, <2>2
  <2>3. CASE UNCHANGED <<mods, tasks>>
    BY <1>2, <2>1, <2>3 DEF SaidOk, NothingToDo
  <2>. QED BY <1>7, <2>2, <2>3 DEF ReadDone
<1>8. ASSUME NEW f \in Files, ReadFails(f)
      PROVE  OkInv'
  <2>1. UNCHANGED <<mods, firstLoad, reloading, pending, timer>>
    BY <1>8 DEF ReadFails
  <2>2. \/ UNCHANGED <<pc, noop, out>>
        \/ EndCompile("error") /\ pc # "idle"
    BY <1>8 DEF ReadFails, TypeOK
  <2>3. CASE f \in Sources /\ tasks[f].phase = "reading"
    BY <1>6, <2>1, <2>2, <2>3
  <2>4. CASE UNCHANGED tasks
    BY <1>2, <2>1, <2>2, <2>4 DEF SaidOk, NothingToDo, EndCompile
  <2>. QED BY <1>8, <2>3, <2>4 DEF ReadFails
<1>9. CASE \E f \in Sources : TaskRead(f) \/ TaskTranspiled(f) \/ TaskTimesOut(f) \/ TaskDone(f)
  <2>1. PICK f \in Sources : TaskRead(f) \/ TaskTranspiled(f) \/ TaskTimesOut(f) \/ TaskDone(f)
    BY <1>9
  <2>2. /\ tasks[f].phase # "none"
        /\ UNCHANGED <<firstLoad, reloading, timer, pending, pc, noop, out>>
    BY <2>1 DEF TaskRead, TaskTranspiled, TaskTimesOut, TaskDone
  <2>. QED BY <1>6, <2>2
<1>10. CASE StartFirstLoad
  <2>1. ~SaidOk' /\ ~NothingToDo' /\ ~noop'
    BY <1>10 DEF StartFirstLoad, SaidOk, NothingToDo, TypeOK
  <2>. QED BY <1>1, <2>1
\* A compile that finds no change leaves the modules as they are.
<1>11. CASE StartUpdate
  <2>1. ~timer' /\ timer /\ pc = "idle" /\ ~firstLoad
    BY <1>11 DEF StartUpdate
  <2>2. CASE EndCompile("busy")
    BY <1>1, <2>1, <2>2 DEF EndCompile, SaidOk, NothingToDo
  <2>3. CASE ResetChanged /\ ~reloading /\ pending # {}
    BY <1>1, <2>1, <2>3 DEF ResetChanged, SaidOk, NothingToDo
  <2>4. CASE ResetChanged /\ ~reloading /\ pending = {}
    <3>1. Changed = {} /\ mods \in [Sources -> Module] /\ tasks \in [Sources -> Task]
      BY <2>4 DEF Changed, TypeOK
    <3>2. mods' = mods /\ tasks' = tasks
      BY <2>4, <3>1 DEF ResetChanged, Enqueue
    <3>3. Settled
      BY <2>1, <2>4 DEF OkInv, OkIsSettled, NoopFollowsOk, NothingToDo
    <3>4. Settled'
      BY <3>2, <3>3 DEF Settled, Finished, Needs
    <3>. QED BY <2>1, <3>4 DEF OkInv, OkIsSettled, NoopFollowsOk, NothingToDo
  <2>. QED BY <1>11, <2>2, <2>3, <2>4 DEF StartUpdate, Reload, ResetUntilCold
\* A compile goes on, or ends without ok.
<1>12. ASSUME pc # "idle", pc' # "idle" \/ out' # "ok", noop' => noop,
              UNCHANGED <<mods, tasks, timer, firstLoad>>, reloading => reloading',
              pending' = pending \/ firstLoad
       PROVE  OkInv'
  BY <1>2, <1>12 DEF SaidOk, NothingToDo
<1>13. CASE PresetReady \/ FirstDrain \/ ChangesTransformed
  <2>1. pc = "vendor" => firstLoad
    BY DEF EvalInv, FirstLoadIsFresh
  <2>. QED BY <1>12, <1>13, <2>1 DEF PresetReady, FirstDrain, ChangesTransformed, Goto, EndCompile
<1>14. CASE PackageJson \/ EntryTransformed \/ GraphFinished \/ ReplaceHtml
  BY <1>12, <1>14 DEF PackageJson, EntryTransformed, GraphFinished, ReplaceHtml, Goto, Reload, EndCompile
<1>15. CASE \E f \in Sources : WalkModule(f)
  BY <1>12, <1>15 DEF WalkModule, EndCompile
<1>16. CASE TransformEntry
  <2>1. ~noop /\ ~NothingToDo
    BY <1>16 DEF TransformEntry, EvalInv, WalkedIsFinished, OkInv, NoopFollowsOk, SaidOk
  <2>. QED BY <1>1, <1>16, <2>1 DEF TransformEntry, Goto, SaidOk, NothingToDo
<1>17. CASE EvaluateNothing
  <2>1. Settled
    BY <1>17 DEF EvaluateNothing, OkInv, OkIsSettled
  <2>2. UNCHANGED <<mods, tasks>> /\ SaidOk' /\ ~noop'
    BY <1>17 DEF EvaluateNothing, EndCompile, SaidOk
  <2>3. Settled'
    BY <2>1, <2>2 DEF Settled, Finished, Needs
  <2>. QED BY <2>2, <2>3 DEF OkInv, OkIsSettled, NoopFollowsOk
<1>18. CASE Evaluate
  <2>1. Settled'
    BY <1>18, EvaluateLeaves DEF Settled, Threw, Needs
  <2>2. SaidOk'
    BY <1>18 DEF Evaluate, EndCompile, SaidOk
  <2>. QED BY <2>1, <2>2 DEF OkInv, OkIsSettled, NoopFollowsOk
<1>19. CASE EvaluateThrows
  <2>1. ~NothingToDo
    BY <1>19 DEF EvaluateThrows, OkInv, NoopFollowsOk, SaidOk
  <2>. QED BY <1>1, <1>19, <2>1 DEF EvaluateThrows, EndCompile, SaidOk, NothingToDo
<1>20. CASE UNCHANGED vars
  BY <1>2, <1>20 DEF vars, SaidOk, NothingToDo
<1>. QED
  BY <1>3, <1>4, <1>5, <1>7, <1>8, <1>9, <1>10, <1>11, <1>13, <1>14, <1>15, <1>16, <1>17,
     <1>18, <1>19, <1>20 DEF Next, Document

\* OkMeansEvaluated, for every app and any number of edits and faults, of a document whose
\* host writes nothing under node_modules (a change there is announced and then ignored:
\* README, findings): whatever the order in which edits, transforms and failed updates
\* interleave, done(ok) is only said of modules that all compiled and ran their latest code,
\* or stay behind code that threw (index.ts runCompile, Bundler.compile, Module.evaluate).
THEOREM OkIsTrue == Vendored = {} => (Spec => []OkMeansEvaluated)
<1>. SUFFICES ASSUME Vendored = {} PROVE Spec => []OkMeansEvaluated
  OBVIOUS
<1>1. Init => ReloadInv /\ EvalInv /\ OkInv
  BY InitEval DEF Init, ReloadInv, OkInv, OkIsSettled, NoopFollowsOk, NothingToDo, SaidOk
<1>2. TypeOK /\ ReloadInv /\ EvalInv /\ OkInv /\ [Next]_vars => ReloadInv' /\ EvalInv' /\ OkInv'
  BY ReloadStep, EvalStep, OkStep
<1>3. OkInv => OkMeansEvaluated
  BY DEF OkInv, OkIsSettled, SaidOk, Settled, Finished, Needs, OkMeansEvaluated
<1>. QED BY <1>1, <1>2, <1>3, TypeCorrect, PTL DEF Spec
-----------------------------------------------------------------------------
(* A document at rest *)

\* No content that is read or transformed is the absent one.
ContentsAreReal ==
  /\ \A f \in Files : /\ disk[f] # NoContent
                      /\ inflight[f].state = "answered" => inflight[f].content # NoContent
  /\ \A f \in Sources : tasks[f].phase = "babel" => tasks[f].src # NoContent

\* The transform of f left something: code, an error, or f is among the lost.
Outcome(f) == mods[f].compiled # NoContent \/ mods[f].error \/ f \in lost \/ reloading
Live(f)    == tasks[f].phase # "none" \/ Outcome(f)

\* A module is transformed when it has no code, and the transform leaves an outcome.
TransformsHaveOutcome ==
  \A f \in Sources : /\ tasks[f].phase \in {"queued", "reading", "babel"} => mods[f].compiled = NoContent
                     /\ tasks[f].phase = "adopted" => Outcome(f)

\* An entry whose imports are known has started all of them; what the walk comes to has
\* been started.
ImportsAreStarted ==
  /\ \A f \in Sources : mods[f].compiled # NoContent /\ ~mods[f].error => mods[f].linked
  /\ mods[Entry].linked /\ tasks[Entry].phase # "adopted" => \A d \in Deps : Live(d)
  /\ pc \in {"entryWait", "walk"} => Live(Entry)

\* A module in error holds the error of what is on the disk, or an update is owed.
ErrorsAreExplained ==
  \A f \in Sources : /\ mods[f].error => mods[f].here
                     /\ mods[f].error => Owed(f) \/ disk[f].kind \in {"syntax", "needs"}
LinkInv == ContentsAreReal /\ TransformsHaveOutcome /\ ImportsAreStarted /\ ErrorsAreExplained

LEMMA RealStep ==
  ASSUME TypeOK, ContentsAreReal, [Next]_vars
  PROVE  ContentsAreReal'
<1>. USE DEF hostVars, fsVars, bundleVars, runVars
\* The disk, the answers and the transforms are as they were, or gone.
<1>1. ASSUME UNCHANGED disk,
             \A f \in Files : inflight'[f] = inflight[f] \/ inflight'[f].state # "answered",
             \A f \in Sources : tasks'[f] = tasks[f] \/ tasks'[f].phase # "babel"
      PROVE  ContentsAreReal'
  BY <1>1 DEF ContentsAreReal
<1>2. ASSUME NEW S, tasks' = Enqueue(S)
      PROVE  \A f \in Sources : tasks'[f] = tasks[f] \/ tasks'[f].phase # "babel"
  BY <1>2 DEF Enqueue
<1>3. ASSUME NEW f \in Files, JoinRead(f)
      PROVE  \A g \in Files : inflight'[g] = inflight[g] \/ inflight'[g].state # "answered"
  BY <1>3 DEF JoinRead, TypeOK, Read
<1>4. ASSUME NEW f \in Sources, NEW c, NEW found, SourceRead(f, c, found), c # NoContent
      PROVE  \A g \in Sources : tasks'[g] = tasks[g] \/ tasks'[g].src # NoContent
  BY <1>4 DEF SourceRead, TypeOK
<1>5. ASSUME NEW f \in Paths, Edit(f)
      PROVE  ContentsAreReal'
  <2>1. edits + 2 # 0
    BY DEF TypeOK
  <2>2. \A g \in Files : disk'[g] = disk[g] \/ disk'[g].rev # 0
    BY <1>5, <2>1 DEF Edit, TypeOK
  <2>3. \A g \in Files : disk'[g] # NoContent
    BY <2>2 DEF ContentsAreReal, NoContent
  <2>. QED BY <1>5, <2>3 DEF Edit, ContentsAreReal
<1>6. CASE HostReload
  BY <1>6 DEF HostReload, FreshDocument, NoRead, NoTask, ContentsAreReal
<1>7. ASSUME NEW f \in Files, PortAnswer(f)
      PROVE  ContentsAreReal'
  BY <1>7 DEF PortAnswer, ContentsAreReal, TypeOK
<1>8. ASSUME NEW f \in Files, ReadDone(f)
      PROVE  ContentsAreReal'
  <2>1. inflight[f].content # NoContent /\ UNCHANGED disk
    BY <1>8 DEF ReadDone, ContentsAreReal
  <2>2. \A g \in Files : inflight'[g] = inflight[g] \/ inflight'[g].state # "answered"
    BY <1>8 DEF ReadDone, NoRead, TypeOK
  <2>3. \A g \in Sources : tasks'[g] = tasks[g] \/ tasks'[g].src # NoContent
    BY <1>4, <1>8, <2>1 DEF ReadDone
  <2>. QED BY <2>1, <2>2, <2>3 DEF ContentsAreReal
<1>9. ASSUME NEW f \in Sources, TaskRead(f)
      PROVE  ContentsAreReal'
  <2>1. CASE SourceRead(f, cache[f], InMap(f)) /\ cache[f] # NoContent
    <3>1. \A g \in Sources : tasks'[g] = tasks[g] \/ tasks'[g].src # NoContent
      BY <1>4, <2>1
    <3>2. UNCHANGED <<disk, inflight>>
      BY <1>9, <2>1 DEF TaskRead
    <3>. QED BY <3>1, <3>2 DEF ContentsAreReal
  <2>2. CASE ReadingBegins(f) /\ JoinRead(f)
    <3>1. \A g \in Sources : tasks'[g] = tasks[g] \/ tasks'[g].phase # "babel"
      BY <2>2, ReadingType DEF TypeOK
    <3>. QED BY <1>1, <1>3, <1>9, <2>2, <3>1 DEF TaskRead, Files
  <2>. QED BY <1>9, <2>1, <2>2 DEF TaskRead, ReadingBegins
<1>10. ASSUME NEW f \in Files, ReadFails(f)
       PROVE  ContentsAreReal'
  BY <1>1, <1>10 DEF ReadFails, NoRead, NoTask, TypeOK
<1>11. ASSUME NEW f \in Sources, TaskTranspiled(f) \/ TaskTimesOut(f)
       PROVE  ContentsAreReal'
  <2>1. UNCHANGED <<disk, inflight>> /\ tasks' = [tasks EXCEPT ![f].phase = "adopted"]
    BY <1>11 DEF TaskTranspiled, TaskTimesOut
  <2>2. \A g \in Sources : tasks'[g] = tasks[g] \/ tasks'[g].phase # "babel"
    BY <2>1 DEF TypeOK
  <2>. QED BY <1>1, <2>1, <2>2
<1>12. ASSUME NEW f \in Sources, TaskDone(f)
       PROVE  ContentsAreReal'
  <2>1. PICK S : tasks' = [Enqueue(S) EXCEPT ![f] = NoTask]
    BY <1>12 DEF TaskDone
  <2>2. \A g \in Sources : tasks'[g] = tasks[g] \/ tasks'[g].phase # "babel"
    BY <2>1 DEF Enqueue, NoTask
  <2>. QED BY <1>1, <1>12, <2>2 DEF TaskDone
<1>13. CASE StartUpdate
  BY <1>1, <1>2, <1>13 DEF StartUpdate, ResetUntilCold, ResetChanged
<1>14. CASE CompileReads
  <2>1. Wanted \subseteq Files
    BY DEF Wanted, Files
  <2>. QED BY <1>1, <1>3, <1>14, <2>1 DEF CompileReads
<1>15. CASE TransformEntry
  BY <1>1, <1>2, <1>15 DEF TransformEntry
<1>16. CASE DeliverChange \/ StartFirstLoad \/ PresetReady \/ FirstDrain \/ ChangesTransformed
  BY <1>1, <1>16 DEF DeliverChange, StartFirstLoad, PresetReady, FirstDrain, ChangesTransformed
<1>17. CASE PackageJson \/ EntryTransformed \/ GraphFinished \/ ReplaceHtml \/ \E f \in Sources : WalkModule(f)
  BY <1>1, <1>17 DEF PackageJson, EntryTransformed, GraphFinished, ReplaceHtml, WalkModule
<1>18. CASE EvaluateNothing \/ Evaluate \/ EvaluateThrows
  BY <1>1, <1>18 DEF EvaluateNothing, Evaluate, EvaluateThrows
<1>19. CASE UNCHANGED vars
  BY <1>1, <1>19 DEF vars
<1>. QED
  BY <1>5, <1>6, <1>7, <1>8, <1>9, <1>10, <1>11, <1>12, <1>13, <1>14, <1>15, <1>16, <1>17,
     <1>18, <1>19 DEF Next, Document

\* A step that leaves the code and the errors of the modules as they are keeps it, when
\* what it starts to transform has no code and what it settles has an outcome.
LEMMA LinkFrame ==
  ASSUME LinkInv, ContentsAreReal',
         \A f \in Sources : disk'[f] = disk[f] \/ Owed(f)',
         lost \subseteq lost', reloading => reloading', \A f \in Sources : Owed(f) => Owed(f)',
         \A f \in Sources :
           /\ mods'[f].compiled = mods[f].compiled /\ mods'[f].error = mods[f].error
           /\ mods[f].here => mods'[f].here
           /\ mods'[f].linked => mods[f].linked
           /\ mods[f].compiled # NoContent => mods'[f].linked = mods[f].linked,
         \A f \in Sources :
           \/ tasks'[f] = tasks[f]
           \/ /\ tasks'[f].phase \in {"queued", "reading", "babel"} /\ mods[f].compiled = NoContent
              /\ tasks[f].phase # "adopted"
           \/ tasks'[f].phase \in {"adopted", "none"} /\ Outcome(f)',
         tasks[Entry].phase = "adopted" /\ tasks'[Entry].phase = "none" /\ mods'[Entry].linked =>
           \A d \in Deps : Live(d)',
         pc' \in {"entryWait", "walk"} => pc \in {"entryWait", "walk"} \/ Live(Entry)'
  PROVE  LinkInv'
<1>1. \A f \in Sources : Outcome(f) => Outcome(f)'
  BY DEF Outcome
<1>2. \A f \in Sources : Live(f) => Live(f)'
  BY <1>1 DEF Live, Outcome
<1>3. TransformsHaveOutcome'
  BY <1>1 DEF LinkInv, TransformsHaveOutcome
<1>4. ImportsAreStarted'
  <2>1. Entry \in Sources /\ Deps \subseteq Sources
    BY DEF Sources
  <2>2. \A f \in Sources : mods'[f].compiled # NoContent /\ ~mods'[f].error => mods'[f].linked
    BY DEF LinkInv, ImportsAreStarted
  <2>3. ASSUME mods'[Entry].linked, tasks'[Entry].phase # "adopted"
        PROVE  \A d \in Deps : Live(d)'
    <3>1. CASE tasks[Entry].phase # "adopted"
      BY <1>2, <2>1, <2>3, <3>1 DEF LinkInv, ImportsAreStarted
    <3>2. CASE tasks[Entry].phase = "adopted"
      <4>1. tasks'[Entry].phase = "none"
        BY <2>1, <2>3, <3>2
      <4>. QED BY <2>3, <3>2, <4>1
    <3>. QED BY <3>1, <3>2
  <2>4. pc' \in {"entryWait", "walk"} => Live(Entry)'
    BY <1>2, <2>1 DEF LinkInv, ImportsAreStarted
  <2>. QED BY <2>2, <2>3, <2>4 DEF ImportsAreStarted
<1>5. ErrorsAreExplained'
  BY DEF LinkInv, ErrorsAreExplained
<1>. QED BY <1>3, <1>4, <1>5 DEF LinkInv

\* The adoption of what the transformer made of f keeps it.
LEMMA LinkAdopt ==
  ASSUME LinkInv, ContentsAreReal', TypeOK, NEW f \in Sources,
         UNCHANGED <<disk, reloading, pc>>, lost \subseteq lost', \A g \in Sources : Owed(g) => Owed(g)',
         \A g \in Sources : g # f => mods'[g] = mods[g] /\ tasks'[g] = tasks[g],
         tasks[f].phase = "babel", tasks'[f].phase = "adopted", Outcome(f)',
         mods'[f].compiled # NoContent /\ ~mods'[f].error => mods'[f].linked,
         mods'[f].error => /\ mods'[f].here
                           /\ Owed(f)' \/ disk[f].kind \in {"syntax", "needs"}
  PROVE  LinkInv'
<1>1. \A g \in Sources : Live(g) => Live(g)'
  <2>1. Live(f)'
    BY DEF Live
  <2>2. \A g \in Sources : g # f /\ Live(g) => Live(g)'
    BY DEF Live, Outcome
  <2>. QED BY <2>1, <2>2
<1>2. TransformsHaveOutcome'
  <2>1. \A g \in Sources : g # f /\ Outcome(g) => Outcome(g)'
    BY DEF Outcome
  <2>. QED BY <2>1 DEF LinkInv, TransformsHaveOutcome
<1>3. ImportsAreStarted'
  <2>1. Entry \in Sources /\ Deps \subseteq Sources
    BY DEF Sources
  <2>2. \A g \in Sources : mods'[g].compiled # NoContent /\ ~mods'[g].error => mods'[g].linked
    BY DEF LinkInv, ImportsAreStarted
  <2>3. mods'[Entry].linked /\ tasks'[Entry].phase # "adopted" => \A d \in Deps : Live(d)'
    BY <1>1, <2>1 DEF LinkInv, ImportsAreStarted
  <2>4. pc' \in {"entryWait", "walk"} => Live(Entry)'
    BY <1>1, <2>1 DEF LinkInv, ImportsAreStarted
  <2>. QED BY <2>2, <2>3, <2>4 DEF ImportsAreStarted
<1>4. ErrorsAreExplained'
  BY DEF LinkInv, ErrorsAreExplained
<1>. QED BY <1>2, <1>3, <1>4 DEF LinkInv

\* A compile on a change set: what it resets is transformed again.
LEMMA LinkStart ==
  ASSUME TypeOK, StaleInv, LinkInv, ContentsAreReal', StartUpdate
  PROVE  LinkInv'
<1>. USE DEF hostVars, fsVars, bundleVars, runVars
<1>1. Entry \in Sources /\ Deps \subseteq Sources /\ UNCHANGED <<disk, notices>> /\ pc = "idle"
  BY DEF Sources, StartUpdate
<1>2. ASSUME NEW f \in Sources
      PROVE  /\ mods[f] \in Module
             /\ Reset(mods[f]).here = mods[f].here /\ Reset(mods[f]).linked = mods[f].linked
             /\ Reset(mods[f]).compiled = NoContent /\ ~Reset(mods[f]).error
             /\ [Reset(mods[f]) EXCEPT !.dirty = mods[f].dirty].compiled = NoContent
             /\ ~[Reset(mods[f]) EXCEPT !.dirty = mods[f].dirty].error
  <2>1. mods[f] \in Module
    BY DEF TypeOK
  <2>. QED BY <2>1 DEF Reset, Module
<1>3. CASE UNCHANGED <<mods, tasks>> /\ lost' = lost /\ (reloading' \/ UNCHANGED <<pending, reloading>>) /\ pc' = "idle"
  <2>1. \A f \in Sources : Owed(f) => Owed(f)'
    BY <1>1, <1>3 DEF Owed, Reported
  <2>. QED BY <1>1, <1>3, <2>1, LinkFrame DEF Owed
<1>4. CASE ResetUntilCold
  <2>1. reloading' /\ pc' = "idle"
    BY <1>4 DEF ResetUntilCold, Reload, EndCompile
  <2>2. PICK f \in Changed, before \in SUBSET Changed :
          /\ mods' = [g \in Sources |->
                        IF g \in before THEN Reset(mods[g])
                        ELSE IF g = f THEN [Reset(mods[g]) EXCEPT !.dirty = mods[g].dirty]
                        ELSE mods[g]]
          /\ tasks' = Enqueue(before)
    BY <1>4 DEF ResetUntilCold
  <2>3. \A g \in Sources :
          \/ mods'[g] = mods[g] /\ tasks'[g] = tasks[g]
          \/ mods'[g].compiled = NoContent /\ ~mods'[g].error
    BY <1>2, <2>2 DEF Enqueue
  <2>4. TransformsHaveOutcome'
    BY <2>1, <2>3 DEF LinkInv, TransformsHaveOutcome, Outcome
  <2>5. ImportsAreStarted'
    BY <2>1, <2>3 DEF LinkInv, ImportsAreStarted, Live, Outcome
  <2>6. ErrorsAreExplained'
    BY <2>1, <2>3 DEF LinkInv, ErrorsAreExplained, Owed
  <2>. QED BY <2>4, <2>5, <2>6 DEF LinkInv
<1>5. CASE ResetChanged
  <2>1. /\ mods' = [g \in Sources |-> IF g \in Changed THEN Reset(mods[g]) ELSE mods[g]]
        /\ tasks' = Enqueue(Changed) /\ UNCHANGED reloading /\ lost \subseteq lost'
        /\ pc' \in {"html", "changed"}
        /\ \A g \in Changed : tasks[g].phase = "adopted" => g \in lost'
    BY <1>5 DEF ResetChanged, Goto
  <2>2. \A g \in Sources \ Changed : mods'[g] = mods[g] /\ tasks'[g] = tasks[g]
    BY <2>1 DEF Enqueue
  <2>3. ASSUME NEW g \in Changed
        PROVE  /\ g \in Sources /\ mods'[g] = Reset(mods[g])
               /\ mods'[g].compiled = NoContent /\ ~mods'[g].error
               /\ mods'[g].here = mods[g].here /\ mods'[g].linked = mods[g].linked
    BY <1>2, <2>1 DEF Changed
  <2>4. \A g \in Changed : \/ tasks'[g] = tasks[g] /\ tasks[g].phase # "none"
                           \/ tasks'[g].phase = "queued" /\ tasks[g].phase = "none"
    BY <2>1, <2>3 DEF Enqueue
  <2>5. \A g \in Sources \ Changed : Outcome(g) => Outcome(g)'
    BY <2>1, <2>2 DEF Outcome
  <2>6. \A g \in Sources : Live(g) => Live(g)'
    <3>1. \A g \in Changed : Live(g)'
      BY <2>4 DEF Live
    <3>2. \A g \in Sources \ Changed : Live(g) => Live(g)'
      BY <2>2, <2>5 DEF Live
    <3>. QED BY <3>1, <3>2
  <2>7. TransformsHaveOutcome'
    <3>1. \A g \in Changed : /\ mods'[g].compiled = NoContent
                             /\ tasks'[g].phase = "adopted" => Outcome(g)'
      BY <2>1, <2>3, <2>4 DEF Outcome
    <3>2. \A g \in Sources \ Changed :
            /\ tasks'[g].phase \in {"queued", "reading", "babel"} => mods'[g].compiled = NoContent
            /\ tasks'[g].phase = "adopted" => Outcome(g)'
      BY <2>2, <2>5 DEF LinkInv, TransformsHaveOutcome
    <3>. QED BY <3>1, <3>2 DEF TransformsHaveOutcome
  <2>8. ImportsAreStarted'
    <3>1. \A g \in Sources : mods'[g].compiled # NoContent /\ ~mods'[g].error => mods'[g].linked
      BY <2>2, <2>3 DEF LinkInv, ImportsAreStarted
    <3>2. mods'[Entry].linked = mods[Entry].linked
      BY <1>1, <2>2, <2>3
    <3>3. tasks'[Entry].phase # "adopted" => tasks[Entry].phase # "adopted"
      BY <1>1, <2>2, <2>4
    <3>4. mods'[Entry].linked /\ tasks'[Entry].phase # "adopted" => \A d \in Deps : Live(d)'
      BY <1>1, <2>6, <3>2, <3>3 DEF LinkInv, ImportsAreStarted
    <3>. QED BY <2>1, <3>1, <3>4 DEF ImportsAreStarted
  <2>9. ErrorsAreExplained'
    <3>1. ASSUME NEW g \in Sources, mods'[g].error
          PROVE  mods'[g].here /\ (Owed(g)' \/ disk'[g].kind \in {"syntax", "needs"})
      <4>1. g \notin Changed /\ mods'[g] = mods[g]
        BY <2>2, <2>3, <3>1
      <4>2. mods[g].here /\ g \notin pending
        BY <3>1, <4>1 DEF LinkInv, ErrorsAreExplained, Changed
      <4>3. Owed(g) => Owed(g)'
        BY <1>1, <2>1, <4>2 DEF Owed, Reported
      <4>. QED BY <1>1, <3>1, <4>1, <4>2, <4>3 DEF LinkInv, ErrorsAreExplained
    <3>. QED BY <3>1 DEF ErrorsAreExplained
  <2>. QED BY <2>7, <2>8, <2>9 DEF LinkInv
<1>6. CASE Reload /\ UNCHANGED <<mods, tasks, lost>>
  BY <1>3, <1>6 DEF Reload, EndCompile
<1>. QED BY <1>3, <1>4, <1>5, <1>6 DEF StartUpdate, EndCompile

LEMMA LinkStep ==
  ASSUME TypeOK, CoherenceInv, FoundInPlace, StaleInv, LinkInv, [Next]_vars
  PROVE  LinkInv'
<1>. USE DEF hostVars, fsVars, bundleVars, runVars
<1>1. ContentsAreReal' /\ Entry \in Sources /\ Deps \subseteq Sources /\ Entry \notin Deps
  BY RealStep, FilesAssumption DEF LinkInv, Sources
\* The modules are as they were; a transform may have gone on or been given up.
<1>2. ASSUME UNCHANGED mods,
             \A f \in Sources : disk'[f] = disk[f] \/ Owed(f)',
             lost \subseteq lost', reloading => reloading', \A f \in Sources : Owed(f) => Owed(f)',
             \A f \in Sources :
               \/ tasks'[f] = tasks[f]
               \/ tasks'[f].phase = "reading" /\ tasks[f].phase = "queued"
               \/ tasks'[f].phase = "none" /\ tasks[f].phase = "reading" /\ f \in lost',
             pc' \in {"entryWait", "walk"} => pc \in {"entryWait", "walk"}
      PROVE  LinkInv'
  <2>1. \A f \in Sources :
           \/ tasks'[f] = tasks[f]
           \/ /\ tasks'[f].phase \in {"queued", "reading", "babel"} /\ mods[f].compiled = NoContent
              /\ tasks[f].phase # "adopted"
           \/ tasks'[f].phase \in {"adopted", "none"} /\ Outcome(f)'
    BY <1>2 DEF LinkInv, TransformsHaveOutcome, Outcome
  <2>2. ~(tasks[Entry].phase = "adopted" /\ tasks'[Entry].phase = "none")
    BY <1>1, <1>2
  <2>. QED BY <1>1, <1>2, <2>1, <2>2, LinkFrame
<1>3. ASSUME UNCHANGED <<notices, reloading>>, pending \subseteq pending', lost \subseteq lost'
      PROVE  \A f \in Sources : Owed(f) => Owed(f)'
  BY <1>3 DEF Owed, Reported
<1>4. ASSUME NEW f \in Paths, Edit(f)
      PROVE  LinkInv'
  <2>1. Reported' = Reported \cup {f}
    BY <1>4, RangeAppend DEF Edit, Reported, TypeOK
  <2>2. \A g \in Sources : g \in Files
    BY DEF Files
  <2>3. UNCHANGED <<mods, tasks, reloading, pending, lost, pc>>
    BY <1>4 DEF Edit
  <2>4. \A g \in Sources : disk'[g] = disk[g] \/ Owed(g)'
    BY <1>4, <2>1, <2>2 DEF Edit, Owed, TypeOK
  <2>5. \A g \in Sources : Owed(g) => Owed(g)'
    BY <2>1, <2>3 DEF Owed
  <2>. QED BY <1>2, <2>3, <2>4, <2>5
<1>5. CASE DeliverChange
  <2>1. Reported \subseteq Reported' \cup {Head(notices)}
    BY <1>5, RangeTail DEF DeliverChange, Reported, TypeOK
  <2>2. /\ UNCHANGED <<disk, mods, tasks, reloading, pc>>
        /\ pending \subseteq pending' /\ lost \subseteq lost'
        /\ Head(notices) \in Vendored \/ Head(notices) \in pending'
    BY <1>5 DEF DeliverChange
  <2>3. \A g \in Sources : Owed(g) => Owed(g)'
    BY <2>1, <2>2, FilesAssumption DEF Owed, Files
  <2>. QED BY <1>2, <2>2, <2>3
<1>6. CASE HostReload
  <2>1. \A f \in Sources : /\ mods'[f].compiled = NoContent /\ ~mods'[f].error /\ ~mods'[f].linked
                           /\ tasks'[f].phase = "none"
    BY <1>6 DEF HostReload, FreshDocument, NoModule, NoTask
  <2>2. pc' = "idle"
    BY <1>6 DEF HostReload
  <2>. QED BY <1>1, <2>1, <2>2 DEF LinkInv, TransformsHaveOutcome, ImportsAreStarted, ErrorsAreExplained
\* A transform goes on with the source that was read.
<1>7. ASSUME NEW f \in Sources, NEW c, NEW found, SourceRead(f, c, found), tasks[f].phase \in {"queued", "reading"},
             found # "none" => mods[f].here \/ f \in lost,
             UNCHANGED <<disk, notices, reloading, pending, lost, pc>>
      PROVE  LinkInv'
  <2>1. \A g \in Sources : g # f => mods'[g] = mods[g] /\ tasks'[g] = tasks[g]
    BY <1>7 DEF SourceRead, TypeOK
  <2>2. /\ \/ tasks'[f].phase = "babel"
           \/ tasks'[f].phase = "adopted" /\ (mods[f].error \/ f \in lost)
        /\ mods'[f] = mods[f] \/ (~mods[f].here /\ mods'[f] = NewModule)
    BY <1>7 DEF SourceRead, TypeOK
  <2>3. ~mods[f].here => mods[f].compiled = NoContent /\ mods[f].error = FALSE
    BY DEF TypeOK, Module, LinkInv, ErrorsAreExplained, StaleInv, AbsentIsEmpty
  <2>4. /\ NewModule.compiled = NoContent /\ NewModule.error = FALSE /\ NewModule.here = TRUE
        /\ NewModule.linked = FALSE
    BY DEF NewModule, NoModule
  <2>5. /\ mods'[f].compiled = mods[f].compiled /\ mods'[f].error = mods[f].error
        /\ mods[f].here => mods'[f].here
        /\ mods'[f].linked => mods[f].linked
        /\ mods[f].compiled # NoContent => mods'[f].linked = mods[f].linked
    BY <2>2, <2>3, <2>4
  <2>6. mods[f].compiled = NoContent
    BY <1>7 DEF LinkInv, TransformsHaveOutcome
  <2>7. mods[f].error \/ f \in lost => Outcome(f)'
    BY <1>7, <2>5 DEF Outcome
  <2>8. \A g \in Sources :
           \/ tasks'[g] = tasks[g]
           \/ /\ tasks'[g].phase \in {"queued", "reading", "babel"} /\ mods[g].compiled = NoContent
              /\ tasks[g].phase # "adopted"
           \/ tasks'[g].phase \in {"adopted", "none"} /\ Outcome(g)'
    BY <1>7, <2>1, <2>2, <2>6, <2>7
  <2>9. \A g \in Sources :
           /\ mods'[g].compiled = mods[g].compiled /\ mods'[g].error = mods[g].error
           /\ mods[g].here => mods'[g].here
           /\ mods'[g].linked => mods[g].linked
           /\ mods[g].compiled # NoContent => mods'[g].linked = mods[g].linked
    BY <2>1, <2>5
  <2>10. ~(tasks[Entry].phase = "adopted" /\ tasks'[Entry].phase = "none")
    BY <1>1, <2>1, <2>2, <1>7
  <2>11. \A g \in Sources : Owed(g) => Owed(g)'
    BY <1>3, <1>7
  <2>. QED BY <1>1, <1>7, <2>8, <2>9, <2>10, <2>11, LinkFrame
<1>8. ASSUME NEW f \in Files, ReadDone(f)
      PROVE  LinkInv'
  <2>1. UNCHANGED <<disk, notices, reloading, pending, lost, pc>>
    BY <1>8 DEF ReadDone
  <2>2. CASE f \in Sources /\ tasks[f].phase = "reading" /\ SourceRead(f, inflight[f].content, tasks[f].found)
    BY <1>7, <2>1, <2>2 DEF FoundInPlace
  <2>3. CASE UNCHANGED <<mods, tasks>>
    BY <1>2, <1>3, <2>1, <2>3
  <2>. QED BY <1>8, <2>2, <2>3 DEF ReadDone
<1>9. ASSUME NEW f \in Files, ReadFails(f)
      PROVE  LinkInv'
  <2>1. UNCHANGED <<disk, mods, notices, reloading, pending>> /\ lost \subseteq lost'
    BY <1>9 DEF ReadFails
  <2>2. pc' = pc \/ pc' = "idle"
    BY <1>9 DEF ReadFails, EndCompile
  <2>3. f \in Sources => f # Pkg
    BY FilesAssumption
  <2>4. \A g \in Sources : \/ tasks'[g] = tasks[g]
                           \/ tasks'[g].phase = "none" /\ tasks[g].phase = "reading" /\ g \in lost'
    BY <1>9, <2>3 DEF ReadFails, NoTask, TypeOK
  <2>. QED BY <1>2, <1>3, <2>1, <2>2, <2>4
<1>10. ASSUME NEW f \in Sources, TaskRead(f)
       PROVE  LinkInv'
  <2>1. UNCHANGED <<disk, notices, reloading, pending, lost, pc>> /\ tasks[f].phase = "queued"
    BY <1>10 DEF TaskRead
  <2>2. CASE SourceRead(f, cache[f], InMap(f))
    <3>1. InMap(f) # "none" => mods[f].here
      BY DEF InMap
    <3>. QED BY <1>7, <2>1, <2>2, <3>1
  <2>3. CASE ReadingBegins(f) /\ UNCHANGED mods
    <3>1. \A g \in Sources : \/ tasks'[g] = tasks[g]
                             \/ tasks'[g].phase = "reading" /\ tasks[g].phase = "queued"
      BY <2>1, <2>3, ReadingType DEF TypeOK
    <3>. QED BY <1>2, <1>3, <2>1, <2>3, <3>1
  <2>. QED BY <1>10, <2>2, <2>3 DEF TaskRead, ReadingBegins
<1>11. ASSUME NEW f \in Sources, TaskTranspiled(f) \/ TaskTimesOut(f)
       PROVE  LinkInv'
  <2>1. /\ UNCHANGED <<disk, notices, reloading, pending, pc>> /\ lost \subseteq lost'
        /\ tasks[f].phase = "babel" /\ tasks' = [tasks EXCEPT ![f].phase = "adopted"]
    BY <1>11 DEF TaskTranspiled, TaskTimesOut
  <2>2. \A g \in Sources : Owed(g) => Owed(g)'
    BY <1>3, <2>1
  <2>3. \A g \in Sources : g # f => mods'[g] = mods[g] /\ tasks'[g] = tasks[g]
    BY <1>11 DEF TaskTranspiled, TaskTimesOut, TypeOK
  <2>4. tasks'[f].phase = "adopted"
    BY <2>1 DEF TypeOK
  <2>5. /\ mods[f] \in Module /\ tasks[f].src # NoContent
        /\ tasks[f].src # disk[f] => Owed(f)
        /\ mods[f].here \/ f \in lost
    BY <2>1 DEF TypeOK, LinkInv, ContentsAreReal, StaleInv, TasksExplained
  <2>6. CASE ~mods[f].here
    <3>1. mods' = mods /\ ~mods[f].error /\ mods[f].compiled = NoContent /\ f \in lost'
      BY <1>11, <2>1, <2>5, <2>6
         DEF TaskTranspiled, TaskTimesOut, LinkInv, ErrorsAreExplained, StaleInv, AbsentIsEmpty
    <3>. QED BY <1>1, <2>1, <2>2, <2>3, <2>4, <3>1, LinkAdopt DEF Outcome
  <2>7. CASE mods[f].here /\ TaskTimesOut(f)
    <3>1. /\ mods'[f].compiled = tasks[f].src /\ mods'[f].error /\ mods'[f].here /\ f \in lost'
      BY <2>5, <2>7 DEF TaskTimesOut, TypeOK, Module
    <3>. QED BY <1>1, <2>1, <2>2, <2>3, <2>4, <3>1, LinkAdopt DEF Outcome, Owed
  <2>8. CASE mods[f].here /\ TaskTranspiled(f)
    <3>. DEFINE c == tasks[f].src  m == Adopted(mods[f], c)
    <3>1. mods'[f] = m
      BY <2>8 DEF TaskTranspiled, TypeOK
    <3>2. m.here
      BY <2>5, <2>8 DEF Adopted, Module
    <3>3. CASE c.kind = "needs" /\ ~Resolvable
      <4>1. m.error /\ m.linked
        BY <2>5, <3>3 DEF Adopted, Module
      <4>. QED BY <1>1, <2>1, <2>2, <2>3, <2>4, <2>5, <3>1, <3>2, <3>3, <4>1, LinkAdopt DEF Outcome
    <3>4. CASE ~(c.kind = "needs" /\ ~Resolvable) /\ c.kind = "syntax"
      <4>1. m.error
        BY <2>5, <3>4 DEF Adopted, Module
      <4>. QED BY <1>1, <2>1, <2>2, <2>3, <2>4, <2>5, <3>1, <3>2, <3>4, <4>1, LinkAdopt DEF Outcome
    <3>5. CASE ~(c.kind = "needs" /\ ~Resolvable) /\ c.kind # "syntax"
      <4>1. m.linked /\ m.compiled = c /\ m.error = mods[f].error
        BY <2>5, <3>5 DEF Adopted, Module
      <4>2. m.error => Owed(f)' \/ disk[f].kind \in {"syntax", "needs"}
        BY <2>2, <4>1 DEF LinkInv, ErrorsAreExplained
      <4>. QED BY <1>1, <2>1, <2>2, <2>3, <2>4, <2>5, <3>1, <3>2, <4>1, <4>2, LinkAdopt DEF Outcome
    <3>. QED BY <3>3, <3>4, <3>5
  <2>. QED BY <1>11, <2>6, <2>7, <2>8
<1>12. ASSUME NEW f \in Sources, TaskDone(f)
       PROVE  LinkInv'
  <2>1. UNCHANGED <<disk, mods, notices, reloading, pending, lost, pc>> /\ tasks[f].phase = "adopted"
    BY <1>12 DEF TaskDone
  <2>. DEFINE found == mods[f].linked \/ (~mods[f].here /\ tasks[f].src.kind # "syntax")
              started == IF f = Entry /\ found THEN {d \in Deps : mods[d].compiled = NoContent} ELSE {}
  <2>2. tasks' = [Enqueue(started) EXCEPT ![f] = NoTask]
    BY <1>12 DEF TaskDone
  <2>3. /\ tasks'[f].phase = "none"
        /\ \A g \in Sources : g # f =>
             \/ tasks'[g] = tasks[g]
             \/ tasks'[g].phase = "queued" /\ mods[g].compiled = NoContent /\ tasks[g].phase = "none"
        /\ \A g \in Sources : g # f /\ g \in started => tasks'[g].phase # "none"
    BY <2>2 DEF Enqueue, NoTask
  <2>4. Outcome(f)'
    BY <2>1 DEF LinkInv, TransformsHaveOutcome, Outcome
  <2>5. f = Entry /\ mods'[Entry].linked => \A d \in Deps : Live(d)'
    <3>1. ASSUME f = Entry, mods[Entry].linked, NEW d \in Deps
          PROVE  Live(d)'
      <4>1. CASE mods[d].compiled = NoContent
        <5>1. d \in started /\ d # f /\ d \in Sources
          BY <1>1, <3>1, <4>1
        <5>. QED BY <2>3, <5>1 DEF Live
      <4>2. CASE mods[d].compiled # NoContent
        BY <2>1, <4>2 DEF Live, Outcome
      <4>. QED BY <4>1, <4>2
    <3>. QED BY <2>1, <3>1
  <2>6. tasks[Entry].phase = "adopted" /\ tasks'[Entry].phase = "none" /\ mods'[Entry].linked =>
          \A d \in Deps : Live(d)'
    BY <1>1, <2>3, <2>5
  <2>7. \A g \in Sources :
           \/ tasks'[g] = tasks[g]
           \/ /\ tasks'[g].phase \in {"queued", "reading", "babel"} /\ mods[g].compiled = NoContent
              /\ tasks[g].phase # "adopted"
           \/ tasks'[g].phase \in {"adopted", "none"} /\ Outcome(g)'
    BY <2>3, <2>4
  <2>8. \A g \in Sources : Owed(g) => Owed(g)'
    BY <1>3, <2>1
  <2>. HIDE DEF found, started
  <2>. QED BY <1>1, <2>1, <2>6, <2>7, <2>8, LinkFrame
<1>13. CASE StartFirstLoad
  <2>1. /\ \A f \in Sources : mods'[f].compiled = NoContent /\ ~mods'[f].error /\ ~mods'[f].linked
        /\ UNCHANGED tasks /\ pc' = "preset"
        /\ \A f \in Sources : tasks[f].phase = "adopted" => f \in lost'
    BY <1>13 DEF StartFirstLoad, FreshDocument, NoModule
  <2>. QED BY <1>1, <2>1 DEF LinkInv, TransformsHaveOutcome, ImportsAreStarted, ErrorsAreExplained, Outcome
<1>14. CASE StartUpdate
  BY <1>1, <1>14, LinkStart
\* What is drained is among the lost when the module it is for is in the document.
<1>15. CASE FirstDrain
  <2>1. /\ UNCHANGED <<disk, notices, reloading, mods, tasks>> /\ lost \subseteq lost' /\ pc' = "pkg"
        /\ \A f \in Sources : f \in pending /\ mods[f].here => f \in lost'
    BY <1>15 DEF FirstDrain, Goto
  <2>2. \A f \in Sources : mods[f].here /\ Owed(f) => Owed(f)'
    BY <2>1 DEF Owed, Reported
  <2>3. ErrorsAreExplained'
    BY <2>1, <2>2 DEF LinkInv, ErrorsAreExplained
  <2>4. TransformsHaveOutcome' /\ ImportsAreStarted'
    BY <1>1, <2>1 DEF LinkInv, TransformsHaveOutcome, ImportsAreStarted, Outcome, Live
  <2>. QED BY <1>1, <2>3, <2>4 DEF LinkInv
<1>16. CASE TransformEntry
  <2>. DEFINE todo == IF mods[Entry].compiled = NoContent THEN {Entry} ELSE {}
  <2>1. UNCHANGED <<disk, mods, notices, reloading, pending, lost>> /\ tasks' = Enqueue(todo)
    BY <1>16 DEF TransformEntry
  <2>2. \A g \in Sources :
           \/ tasks'[g] = tasks[g]
           \/ tasks'[g].phase = "queued" /\ mods[g].compiled = NoContent /\ tasks[g].phase = "none"
    BY <2>1 DEF Enqueue
  <2>3. Live(Entry)'
    <3>1. CASE mods[Entry].compiled = NoContent
      <4>1. tasks'[Entry].phase # "none"
        BY <1>1, <2>1, <3>1 DEF Enqueue
      <4>. QED BY <4>1 DEF Live
    <3>2. CASE mods[Entry].compiled # NoContent
      BY <2>1, <3>2 DEF Live, Outcome
    <3>. QED BY <3>1, <3>2
  <2>4. \A g \in Sources : Owed(g) => Owed(g)'
    BY <1>3, <2>1
  <2>. HIDE DEF todo
  <2>5. ~(tasks[Entry].phase = "adopted" /\ tasks'[Entry].phase = "none")
    BY <1>1, <2>2
  <2>. QED BY <1>1, <2>1, <2>2, <2>3, <2>4, <2>5, LinkFrame
\* Evaluation leaves code and errors as they are.
<1>17. CASE Evaluate \/ EvaluateThrows
  <2>1. \A f \in Sources :
          /\ Ran(mods[f], f).compiled = mods[f].compiled /\ Ran(mods[f], f).here = mods[f].here
          /\ Ran(mods[f], f).error = mods[f].error /\ Ran(mods[f], f).linked = mods[f].linked
          /\ Failed(mods[f]).compiled = mods[f].compiled /\ Failed(mods[f]).here = mods[f].here
          /\ Failed(mods[f]).error = mods[f].error /\ Failed(mods[f]).linked = mods[f].linked
    BY DEF Ran, Failed, TypeOK, Module
  <2>2. \A f \in Sources : mods'[f] \in {mods[f], Ran(mods[f], f), Failed(mods[f])}
    BY <1>17 DEF Evaluate, EvaluateThrows
  <2>3. UNCHANGED <<disk, notices, reloading, pending, lost, tasks>> /\ pc' = "idle"
    BY <1>17 DEF Evaluate, EvaluateThrows, EndCompile
  <2>4. \A f \in Sources : /\ mods'[f].compiled = mods[f].compiled /\ mods'[f].here = mods[f].here
                           /\ mods'[f].error = mods[f].error /\ mods'[f].linked = mods[f].linked
    BY <2>1, <2>2
  <2>5. \A f \in Sources : Owed(f) => Owed(f)'
    BY <1>3, <2>3
  <2>. QED BY <1>1, <2>3, <2>4, <2>5, LinkFrame
<1>18. CASE (\E f \in Files : PortAnswer(f)) \/ CompileReads \/ EvaluateNothing
  BY <1>2, <1>3, <1>18 DEF PortAnswer, CompileReads, EvaluateNothing, EndCompile
<1>19. CASE PresetReady \/ ChangesTransformed \/ EntryTransformed \/ GraphFinished
  BY <1>2, <1>3, <1>19 DEF PresetReady, ChangesTransformed, EntryTransformed, GraphFinished, Goto, EndCompile
<1>20. CASE \E f \in Sources : WalkModule(f)
  BY <1>2, <1>3, <1>20 DEF WalkModule, EndCompile
<1>21. CASE PackageJson \/ ReplaceHtml
  <2>1. /\ UNCHANGED <<disk, notices, pending, mods, tasks, lost>>
        /\ reloading' \/ UNCHANGED reloading
        /\ pc' \in {"idle", "entry", "eval"}
    BY <1>21 DEF PackageJson, ReplaceHtml, Reload, Goto, EndCompile
  <2>2. \A f \in Sources : Owed(f) => Owed(f)'
    BY <2>1 DEF Owed, Reported
  <2>. QED BY <1>2, <2>1, <2>2
<1>22. CASE UNCHANGED vars
  BY <1>2, <1>3, <1>22 DEF vars
<1>. QED
  BY <1>4, <1>5, <1>6, <1>8, <1>9, <1>10, <1>11, <1>12, <1>13, <1>14, <1>15, <1>16, <1>17,
     <1>18, <1>19, <1>20, <1>21, <1>22 DEF Next, Document
\* A module that makes a compile fail, and goes on to until something changes it.
Bad(f) == mods[f].error \/ (mods[f].compiled.kind = "throws" /\ tasks[f].phase = "none")
Failing == reloading \/ lost # {} \/ \E f \in Sources : Bad(f)
AllRan == \A f \in Sources : tasks[f].phase = "none" /\ Finished(f) /\ mods[f].eval = mods[f].compiled

\* Between compiles, the last message is explained by the modules.
MessageIsExplained ==
  /\ out = "none" => firstLoad /\ timer /\ pc = "idle"
  /\ out = "busy" /\ pc = "idle" => reloading
  /\ out = "error" /\ pc = "idle" => Failing
  /\ (out \in {"ok", "error"} /\ pc = "idle") \/ noop => Failing \/ AllRan
ChangesAreDrained == pending # {} => timer \/ reloading \/ lost # {} \/ pc \in {"preset", "vendor"}
DoneInv == MessageIsExplained /\ ChangesAreDrained

\* A step that leaves the compile where it is keeps it.
LEMMA DoneFrame ==
  ASSUME DoneInv, UNCHANGED <<firstLoad, pc, noop, out>>, timer => timer',
         pending' = pending \/ timer', lost \subseteq lost', reloading => reloading',
         \A f \in Sources : Bad(f) => Bad(f)',
         AllRan => AllRan'
  PROVE  DoneInv'
<1>1. Failing => Failing'
  BY DEF Failing
<1>2. MessageIsExplained'
  BY <1>1 DEF DoneInv, MessageIsExplained
<1>3. ChangesAreDrained'
  BY DEF DoneInv, ChangesAreDrained
<1>. QED BY <1>2, <1>3 DEF DoneInv

\* A compile that goes on, or that ends with a message its modules explain, keeps it.
LEMMA DoneRun ==
  ASSUME DoneInv, pc # "idle", UNCHANGED timer,
         pending' = {} \/ (pending' = pending /\ (pc \in {"preset", "vendor"} => pc' \in {"preset", "vendor"} \/ reloading')),
         lost \subseteq lost', reloading => reloading',
         \/ pc' # "idle" /\ UNCHANGED <<mods, tasks, noop, out>>
         \/ EndCompile("busy") /\ reloading'
         \/ EndCompile("error") /\ Failing'
         \/ EndCompile("ok") /\ (Failing' \/ AllRan')
  PROVE  DoneInv'
<1>1. CASE pc' # "idle" /\ UNCHANGED <<mods, tasks, noop, out>>
  <2>1. Failing => Failing'
    BY <1>1 DEF Failing, Bad
  <2>2. AllRan => AllRan'
    BY <1>1 DEF AllRan, Finished
  <2>. QED BY <1>1, <2>1, <2>2 DEF DoneInv, MessageIsExplained, ChangesAreDrained
<1>2. CASE EndCompile("busy") /\ reloading'
  BY <1>2 DEF DoneInv, MessageIsExplained, ChangesAreDrained, EndCompile
<1>3. CASE EndCompile("error") /\ Failing'
  BY <1>3 DEF DoneInv, MessageIsExplained, ChangesAreDrained, EndCompile
<1>4. CASE EndCompile("ok") /\ (Failing' \/ AllRan')
  BY <1>4 DEF DoneInv, MessageIsExplained, ChangesAreDrained, EndCompile
<1>. QED BY <1>1, <1>2, <1>3, <1>4

\* The walk fails on a module in error, or on one whose transform is among the lost.
LEMMA WalkFails ==
  ASSUME StaleInv, LinkInv, EvalInv, NEW f \in Sources, pc = "walk",
         f # Entry => Entry \in walked, tasks[f].phase = "none", ~Finished(f)
  PROVE  Failing
<1>1. f \in Deps \/ f = Entry
  BY DEF Sources
<1>2. Live(f)
  <2>1. CASE f = Entry
    BY <2>1 DEF LinkInv, ImportsAreStarted
  <2>2. CASE f \in Deps /\ f # Entry
    <3>1. Finished(Entry) /\ tasks[Entry].phase = "none" /\ Entry \in Sources
      BY <2>2 DEF EvalInv, WalkedIsFinished, Sources
    <3>. QED BY <2>2, <3>1 DEF LinkInv, ImportsAreStarted, Finished
  <2>. QED BY <1>1, <2>1, <2>2
<1>3. Outcome(f)
  BY <1>2 DEF Live
<1>4. ~mods[f].here => mods[f].compiled = NoContent
  BY DEF StaleInv, AbsentIsEmpty
<1>. QED BY <1>3, <1>4 DEF Outcome, Finished, Failing, Bad

LEMMA DoneStep ==
  ASSUME TypeOK, ReloadInv, StaleInv, LinkInv, EvalInv, DoneInv, [Next]_vars
  PROVE  DoneInv'
<1>. USE DEF hostVars, fsVars, bundleVars, runVars
\* The modules are as they were, and what is started to be transformed has no code.
<1>1. ASSUME UNCHANGED <<mods, tasks, firstLoad, pc, noop, out, lost, reloading>>, timer => timer',
             pending' = pending \/ timer'
      PROVE  DoneInv'
  BY <1>1, DoneFrame DEF Bad, AllRan, Finished
\* A transform goes on: it is not of a module that threw.
<1>2. ASSUME UNCHANGED <<firstLoad, pc, noop, out, timer, pending, reloading>>, lost \subseteq lost',
             NEW f \in Sources, tasks[f].phase # "none",
             \A g \in Sources : /\ mods[g].error => mods'[g].error
                                /\ g # f => mods'[g] = mods[g]
                                /\ g # f => tasks'[g] = tasks[g] \/ mods[g].compiled = NoContent
      PROVE  DoneInv'
  <2>1. \A g \in Sources : Bad(g) => Bad(g)'
    BY <1>2 DEF Bad, NoContent
  <2>2. ~AllRan
    BY <1>2 DEF AllRan
  <2>. QED BY <1>2, <2>1, <2>2, DoneFrame
<1>3. CASE \/ \E f \in Paths : Edit(f)
           \/ \E f \in Files : PortAnswer(f)
           \/ CompileReads
  BY <1>1, <1>3 DEF Edit, PortAnswer, CompileReads
<1>4. CASE DeliverChange
  <2>1. UNCHANGED <<mods, tasks, firstLoad, pc, noop, out, reloading>> /\ timer' /\ lost \subseteq lost'
    BY <1>4 DEF DeliverChange
  <2>. QED BY <2>1, DoneFrame DEF Bad, AllRan, Finished
<1>5. CASE HostReload
  BY <1>5 DEF HostReload, DoneInv, MessageIsExplained, ChangesAreDrained
<1>6. ASSUME NEW f \in Sources, NEW c, NEW found, SourceRead(f, c, found), tasks[f].phase # "none",
             UNCHANGED <<firstLoad, pc, noop, out, timer, pending, reloading, lost>>
      PROVE  DoneInv'
  <2>1. \A g \in Sources : g # f => mods'[g] = mods[g] /\ tasks'[g] = tasks[g]
    BY <1>6 DEF SourceRead, TypeOK
  <2>2. mods[f].error => mods'[f].error
    BY <1>6 DEF SourceRead, LinkInv, ErrorsAreExplained
  <2>. QED BY <1>2, <1>6, <2>1, <2>2
<1>7. ASSUME NEW f \in Files, ReadDone(f)
      PROVE  DoneInv'
  <2>1. UNCHANGED <<firstLoad, pc, noop, out, timer, pending, reloading, lost>>
    BY <1>7 DEF ReadDone
  <2>2. CASE f \in Sources /\ tasks[f].phase = "reading" /\ SourceRead(f, inflight[f].content, tasks[f].found)
    BY <1>6, <2>1, <2>2
  <2>3. CASE UNCHANGED <<mods, tasks>>
    BY <1>1, <2>1, <2>3
  <2>. QED BY <1>7, <2>2, <2>3 DEF ReadDone
\* A read that fails leaves its file among the lost, and may end the compile.
<1>8. ASSUME NEW f \in Files, ReadFails(f)
      PROVE  DoneInv'
  <2>1. UNCHANGED <<mods, firstLoad, reloading, pending, timer>> /\ lost \subseteq lost'
    BY <1>8 DEF ReadFails
  <2>2. tasks' = tasks \/ (f \in Sources /\ tasks[f].phase = "reading" /\ tasks' = [tasks EXCEPT ![f] = NoTask])
    BY <1>8 DEF ReadFails
  <2>3. CASE UNCHANGED <<pc, noop, out>>
    <3>1. CASE tasks' = tasks
      BY <2>1, <2>3, <3>1, DoneFrame DEF Bad, AllRan, Finished
    <3>2. CASE f \in Sources /\ tasks[f].phase = "reading" /\ tasks' = [tasks EXCEPT ![f] = NoTask]
      <4>1. \A g \in Sources : g # f => tasks'[g] = tasks[g]
        BY <3>2 DEF TypeOK
      <4>. QED BY <1>2, <2>1, <2>3, <3>2, <4>1
    <3>. QED BY <2>2, <3>1, <3>2
  <2>4. CASE EndCompile("error") /\ (f \in awaiting \/ (f = Pkg /\ pc = "pkg"))
    <3>1. pc # "idle" /\ (f = Pkg => pc # "vendor")
      BY <2>4, FilesAssumption DEF TypeOK
    <3>2. f \in lost'
      BY <1>8, <3>1 DEF ReadFails
    <3>3. Failing'
      BY <3>2 DEF Failing
    <3>4. ChangesAreDrained'
      BY <3>2 DEF ChangesAreDrained
    <3>. QED BY <2>4, <3>3, <3>4 DEF DoneInv, MessageIsExplained, EndCompile
  <2>. QED BY <1>8, <2>3, <2>4 DEF ReadFails
<1>9. ASSUME NEW f \in Sources, TaskRead(f)
      PROVE  DoneInv'
  <2>1. UNCHANGED <<firstLoad, pc, noop, out, timer, pending, reloading, lost>> /\ tasks[f].phase # "none"
    BY <1>9 DEF TaskRead
  <2>2. CASE SourceRead(f, cache[f], InMap(f))
    BY <1>6, <2>1, <2>2
  <2>3. CASE ReadingBegins(f) /\ UNCHANGED mods
    <3>1. \A g \in Sources : g # f => tasks'[g] = tasks[g]
      BY <2>3, ReadingType DEF TypeOK
    <3>. QED BY <1>2, <2>1, <2>3, <3>1
  <2>. QED BY <1>9, <2>2, <2>3 DEF TaskRead, ReadingBegins
<1>10. ASSUME NEW f \in Sources, TaskTranspiled(f) \/ TaskTimesOut(f)
       PROVE  DoneInv'
  <2>1. UNCHANGED <<firstLoad, pc, noop, out, timer, pending, reloading>> /\ lost \subseteq lost'
        /\ tasks[f].phase # "none"
    BY <1>10 DEF TaskTranspiled, TaskTimesOut
  <2>2. \A g \in Sources : g # f => mods'[g] = mods[g] /\ tasks'[g] = tasks[g]
    BY <1>10 DEF TaskTranspiled, TaskTimesOut, TypeOK
  <2>3. mods[f] \in Module
    BY DEF TypeOK
  <2>4. mods[f].error => Adopted(mods[f], tasks[f].src).error
    BY <2>3 DEF Adopted, Module
  <2>5. mods[f].error => mods'[f].error
    <3>1. CASE TaskTranspiled(f)
      BY <2>4, <3>1 DEF TaskTranspiled, TypeOK
    <3>2. CASE TaskTimesOut(f)
      BY <2>3, <3>2 DEF TaskTimesOut, TypeOK, Module
    <3>. QED BY <1>10, <3>1, <3>2
  <2>. QED BY <1>2, <2>1, <2>2, <2>5
<1>11. ASSUME NEW f \in Sources, TaskDone(f)
       PROVE  DoneInv'
  <2>1. UNCHANGED <<mods, firstLoad, pc, noop, out, timer, pending, reloading, lost>> /\ tasks[f].phase # "none"
    BY <1>11 DEF TaskDone
  <2>2. PICK S \in SUBSET {d \in Deps : mods[d].compiled = NoContent} :
          tasks' = [Enqueue(S) EXCEPT ![f] = NoTask]
    BY <1>11 DEF TaskDone
  <2>3. \A g \in Sources : g # f => tasks'[g] = tasks[g] \/ mods[g].compiled = NoContent
    BY <2>2 DEF Enqueue
  <2>. QED BY <1>2, <2>1, <2>3
<1>12. CASE StartFirstLoad
  BY <1>12 DEF StartFirstLoad, DoneInv, MessageIsExplained, ChangesAreDrained, TypeOK
<1>13. CASE StartUpdate
  <2>1. timer /\ pc = "idle" /\ ~firstLoad /\ ~noop /\ UNCHANGED firstLoad
    BY <1>13 DEF StartUpdate, TypeOK
  <2>2. CASE reloading' /\ EndCompile("busy")
    BY <2>2 DEF DoneInv, MessageIsExplained, ChangesAreDrained, EndCompile
  <2>3. CASE ResetChanged /\ ~reloading /\ pending' = {}
    <3>1. out' = "busy" /\ pc' # "idle" /\ noop' = (pending = {})
      BY <2>3 DEF ResetChanged, Goto
    <3>2. ASSUME pending = {}
          PROVE  Failing' \/ AllRan'
      <4>1. Changed = {} /\ mods \in [Sources -> Module] /\ tasks \in [Sources -> Task]
        BY <3>2 DEF Changed, TypeOK
      <4>2. mods' = mods /\ tasks' = tasks /\ lost \subseteq lost' /\ UNCHANGED reloading
        BY <2>3, <4>1 DEF ResetChanged, Enqueue
      <4>3. out \in {"ok", "error"}
        BY <2>1, <2>3 DEF DoneInv, MessageIsExplained, TypeOK
      <4>4. Failing \/ AllRan
        BY <2>1, <4>3 DEF DoneInv, MessageIsExplained
      <4>5. Failing => Failing'
        BY <4>2 DEF Failing, Bad
      <4>6. AllRan => AllRan'
        BY <4>2 DEF AllRan, Finished
      <4>. QED BY <4>4, <4>5, <4>6
    <3>. QED BY <2>3, <3>1, <3>2 DEF DoneInv, MessageIsExplained, ChangesAreDrained
  <2>. QED BY <1>13, <2>2, <2>3 DEF StartUpdate, Reload, ResetUntilCold
<1>14. CASE PresetReady \/ FirstDrain
  BY <1>14, DoneRun DEF PresetReady, FirstDrain, Goto
<1>15. CASE ChangesTransformed \/ EntryTransformed \/ GraphFinished
  BY <1>15, DoneRun DEF ChangesTransformed, EntryTransformed, GraphFinished, Goto
<1>16. CASE PackageJson
  BY <1>16, DoneRun DEF PackageJson, Reload, Goto
<1>17. CASE ReplaceHtml
  BY <1>17, DoneRun DEF ReplaceHtml, Reload, Goto
<1>18. CASE TransformEntry
  <2>1. ~noop /\ pc = "entry" /\ pc' = "entryWait" /\ UNCHANGED <<noop, out, pending, timer, lost, reloading, firstLoad>>
    BY <1>18 DEF TransformEntry, Goto, EvalInv, WalkedIsFinished
  <2>. QED BY <2>1 DEF DoneInv, MessageIsExplained, ChangesAreDrained
<1>19. ASSUME NEW f \in Sources, WalkModule(f)
       PROVE  DoneInv'
  <2>1. pc = "walk" /\ UNCHANGED <<mods, tasks, firstLoad, reloading, timer, pending, lost>>
    BY <1>19 DEF WalkModule
  <2>2. CASE Finished(f)
    BY <1>19, <2>1, <2>2, DoneRun DEF WalkModule
  <2>3. CASE ~Finished(f)
    <3>1. EndCompile("error") /\ Failing
      BY <1>19, <2>1, <2>3, WalkFails DEF WalkModule
    <3>2. Failing'
      BY <2>1, <3>1 DEF Failing, Bad
    <3>. QED BY <2>1, <3>1, <3>2, DoneRun
  <2>. QED BY <2>2, <2>3
<1>20. CASE EvaluateNothing
  <2>1. pc = "eval" /\ noop /\ EndCompile("ok")
        /\ UNCHANGED <<mods, tasks, firstLoad, reloading, timer, pending, lost>>
    BY <1>20 DEF EvaluateNothing
  <2>2. Failing \/ AllRan
    BY <2>1 DEF DoneInv, MessageIsExplained
  <2>3. Failing' \/ AllRan'
    BY <2>1, <2>2 DEF Failing, Bad, AllRan, Finished
  <2>. QED BY <2>1, <2>3, DoneRun
<1>21. CASE Evaluate
  <2>1. pc = "eval" /\ EndCompile("ok") /\ UNCHANGED <<reloading, timer, pending, lost>>
    BY <1>21 DEF Evaluate
  <2>2. Failing' \/ AllRan'
    <3>1. ASSUME NEW f \in Sources, mods'[f].eval # mods'[f].compiled
          PROVE  Failing'
      <4>1. PICK g \in Needs(f) : Threw(g)'
        BY <1>21, <3>1, EvaluateLeaves
      <4>2. g \in Sources
        BY <4>1 DEF Needs, Sources
      <4>. QED BY <4>1, <4>2 DEF Threw, Failing, Bad
    <3>2. \A f \in Sources : Finished(f)' /\ tasks'[f].phase = "none"
      BY <1>21, EvaluateLeaves
    <3>. QED BY <3>1, <3>2 DEF AllRan
  <2>. QED BY <2>1, <2>2, DoneRun
<1>22. CASE EvaluateThrows
  <2>1. pc = "eval" /\ ~noop /\ EndCompile("error") /\ UNCHANGED <<reloading, timer, pending, lost, tasks>>
    BY <1>22 DEF EvaluateThrows
  <2>2. PICK x \in Throwers, before \in SUBSET (ToRun \ (Throwers \cup {Entry})) :
          mods' = [f \in Sources |->
                     IF f \in before THEN Ran(mods[f], f)
                     ELSE IF f = x \/ f \in ({Entry} \cap ToRun) THEN Failed(mods[f])
                     ELSE mods[f]]
    BY <1>22 DEF EvaluateThrows
  <2>3. x \in Sources /\ mods[x].compiled.kind = "throws" /\ x \notin before
    BY <2>2 DEF Throwers, ToRun, Roots, Sources
  <2>4. mods'[x].compiled = mods[x].compiled
    <3>1. mods'[x] = Failed(mods[x])
      BY <2>2, <2>3
    <3>2. Failed(mods[x]).compiled = mods[x].compiled
      BY <2>3 DEF Failed, TypeOK, Module
    <3>. QED BY <3>1, <3>2
  <2>5. tasks'[x].phase = "none"
    BY <2>1, <2>3 DEF EvalInv, WalkedIsFinished
  <2>6. Failing'
    BY <2>3, <2>4, <2>5 DEF Failing, Bad
  <2>. QED BY <2>1, <2>6, DoneRun
<1>23. CASE UNCHANGED vars
  BY <1>1, <1>23 DEF vars
<1>. QED
  BY <1>3, <1>4, <1>5, <1>7, <1>8, <1>9, <1>10, <1>11, <1>12, <1>13, <1>14, <1>15, <1>16,
     <1>17, <1>18, <1>19, <1>20, <1>21, <1>22, <1>23 DEF Next, Document
\* What compile itself read is what is on the disk, or an update is owed.
GotIsExplained ==
  /\ pc = "pkg" /\ got \notin {NoContent, disk[Pkg]} => Owed(Pkg)
  /\ pc = "html" /\ got \notin {NoContent, disk[Html]} => Owed(Html)

\* A compile awaits transforms in two of its phases.
AwaitsInPhase == awaiting # {} => pc \in {"changed", "entryWait"}

\* The page and the declared range are those of the disk, or an update is owed, or the
\* compile under way has not come to them yet.
PageIsExplained ==
  lastHTML # disk[Html] =>
    \/ Owed(Html)
    \/ pc \notin {"idle", "eval"}
    \/ pc = "idle" /\ out \in {"none", "error"}
RangeIsExplained ==
  declared # disk[Pkg].kind =>
    \/ Owed(Pkg)
    \/ pc \in {"preset", "vendor", "pkg"}
    \/ pc = "changed" /\ Pkg \in batch
    \/ pc = "idle" /\ out = "none"
PageInv == AwaitsInPhase /\ GotIsExplained /\ PageIsExplained /\ RangeIsExplained

\* A step that leaves the compile where it is keeps it.
LEMMA PageFrame ==
  ASSUME PageInv, UNCHANGED <<pc, out, batch, awaiting, lastHTML, declared>>,
         \A f \in {Html, Pkg} : /\ Owed(f) => Owed(f)'
                                /\ disk'[f] = disk[f] \/ Owed(f)',
         \/ UNCHANGED got
         \/ pc = "pkg" /\ (got' = disk'[Pkg] \/ Owed(Pkg)')
         \/ pc = "html" /\ (got' = disk'[Html] \/ Owed(Html)')
         \/ pc = "vendor"
  PROVE  PageInv'
<1>1. AwaitsInPhase'
  BY DEF PageInv, AwaitsInPhase
<1>2. GotIsExplained'
  BY DEF PageInv, GotIsExplained
<1>3. PageIsExplained' /\ RangeIsExplained'
  BY DEF PageInv, PageIsExplained, RangeIsExplained
<1>. QED BY <1>1, <1>2, <1>3 DEF PageInv

\* What compile has of a file is what is on the disk, or an update is owed.
LEMMA HaveIsExplained ==
  ASSUME CoherenceInv, PageInv
  PROVE  /\ pc = "pkg" /\ Have(Pkg) \notin {NoContent, disk[Pkg]} => Owed(Pkg)
         /\ pc = "html" /\ Have(Html) \notin {NoContent, disk[Html]} => Owed(Html)
BY DEF CoherenceInv, CacheCoherent, PageInv, GotIsExplained, Have, Owed, Files

LEMMA PageStep ==
  ASSUME TypeOK, CoherenceInv, LinkInv, DoneInv, PageInv, [Next]_vars
  PROVE  PageInv'
<1>. USE DEF hostVars, fsVars, bundleVars, runVars
<1>1. ASSUME UNCHANGED <<notices, pending>>, lost \subseteq lost', reloading => reloading'
      PROVE  \A f \in {Html, Pkg} : Owed(f) => Owed(f)'
  BY <1>1 DEF Owed, Reported
<1>2. Html \in Files /\ Pkg \in Files /\ Html # Pkg /\ Html \notin Vendored /\ Pkg \notin Vendored
      /\ Html \notin Sources /\ Pkg \notin Sources
  BY FilesAssumption DEF Files
<1>3. ASSUME NEW f \in Paths, Edit(f)
      PROVE  PageInv'
  <2>1. Reported' = Reported \cup {f}
    BY <1>3, RangeAppend DEF Edit, Reported, TypeOK
  <2>2. UNCHANGED <<reloading, pending, lost, pc, out, batch, awaiting, lastHTML, declared, got>>
    BY <1>3 DEF Edit
  <2>3. \A g \in {Html, Pkg} : disk'[g] = disk[g] \/ Owed(g)'
    BY <1>2, <1>3, <2>1 DEF Edit, Owed, TypeOK
  <2>4. \A g \in {Html, Pkg} : Owed(g) => Owed(g)'
    BY <2>1, <2>2 DEF Owed
  <2>. QED BY <2>2, <2>3, <2>4, PageFrame
<1>4. CASE DeliverChange
  <2>1. Reported \subseteq Reported' \cup {Head(notices)}
    BY <1>4, RangeTail DEF DeliverChange, Reported, TypeOK
  <2>2. /\ UNCHANGED <<disk, reloading, pc, out, batch, awaiting, lastHTML, declared, got>>
        /\ pending \subseteq pending' /\ lost \subseteq lost'
        /\ Head(notices) \in Vendored \/ Head(notices) \in pending'
    BY <1>4 DEF DeliverChange
  <2>3. \A g \in {Html, Pkg} : Owed(g) => Owed(g)'
    BY <1>2, <2>1, <2>2 DEF Owed
  <2>. QED BY <2>2, <2>3, PageFrame
<1>5. CASE HostReload
  BY <1>5 DEF HostReload, PageInv, AwaitsInPhase, GotIsExplained, PageIsExplained, RangeIsExplained
<1>6. ASSUME UNCHANGED <<disk, notices, pending, pc, out, batch, awaiting, lastHTML, declared, got>>,
             lost \subseteq lost', reloading => reloading'
      PROVE  PageInv'
  BY <1>1, <1>6, PageFrame
<1>7. ASSUME NEW f \in Files, ReadDone(f)
      PROVE  PageInv'
  <2>1. UNCHANGED <<disk, notices, reloading, pending, pc, out, batch, awaiting, lastHTML, declared, lost>>
        /\ inflight[f].state = "answered"
        /\ got' = IF f \in Wanted THEN inflight[f].content ELSE got
    BY <1>7 DEF ReadDone
  <2>2. got' = got \/ (f \in Wanted /\ (got' = disk'[f] \/ Owed(f)'))
    BY <2>1 DEF CoherenceInv, ReadsCoherent, Owed, Reported
  <2>3. f \in Wanted => \/ f = Pkg /\ pc \in {"vendor", "pkg"}
                        \/ f = Html /\ pc = "html"
    BY DEF Wanted
  <2>. QED BY <1>1, <2>1, <2>2, <2>3, PageFrame
\* A read that fails while compile waits for it leaves the file among the lost.
<1>8. ASSUME NEW f \in Files, ReadFails(f)
      PROVE  PageInv'
  <2>1. UNCHANGED <<disk, notices, reloading, pending, lastHTML, declared>> /\ lost \subseteq lost'
        /\ (~(f = Pkg /\ pc = "vendor") => f \in lost' /\ (batch \cap {Pkg}) \subseteq lost')
    BY <1>8 DEF ReadFails
  <2>2. CASE EndCompile("error") /\ (f \in awaiting \/ (f = Pkg /\ pc = "pkg"))
    <3>1. pc' = "idle" /\ out' = "error" /\ awaiting' = {}
      BY <2>2 DEF EndCompile
    <3>2. pc \in {"changed", "entryWait", "pkg"} /\ (pc = "pkg" => f = Pkg)
      BY <2>2 DEF PageInv, AwaitsInPhase
    <3>3. \A g \in {Html, Pkg} : Owed(g) => Owed(g)'
      BY <1>1, <2>1
    <3>4. pc = "changed" /\ Pkg \in batch => Owed(Pkg)'
      BY <2>1 DEF Owed
    <3>5. pc = "pkg" => Owed(Pkg)'
      BY <2>1, <3>2 DEF Owed
    <3>6. RangeIsExplained'
      BY <2>1, <3>2, <3>3, <3>4, <3>5 DEF PageInv, RangeIsExplained
    <3>. QED BY <3>1, <3>6 DEF PageInv, AwaitsInPhase, GotIsExplained, PageIsExplained
  <2>3. CASE UNCHANGED <<pc, out, batch, awaiting>>
             /\ (UNCHANGED got \/ pc = "vendor" \/ (pc = "html" /\ f = Html))
    <3>1. pc = "html" /\ f = Html => Owed(Html)'
      BY <1>2, <2>1 DEF Owed
    <3>. QED BY <1>1, <2>1, <2>3, <3>1, PageFrame
  <2>4. \/ EndCompile("error") /\ (f \in awaiting \/ (f = Pkg /\ pc = "pkg"))
        \/ /\ UNCHANGED <<pc, out, batch, awaiting>>
           /\ (UNCHANGED got \/ pc = "vendor" \/ (pc = "html" /\ f = Html))
    BY <1>8 DEF ReadFails
  <2>. QED BY <2>2, <2>3, <2>4
<1>9. CASE \E f \in Sources : TaskRead(f) \/ TaskTranspiled(f) \/ TaskTimesOut(f)
  BY <1>6, <1>9 DEF TaskRead, TaskTranspiled, TaskTimesOut
\* A transform that settles is awaited no more.
<1>10. ASSUME NEW f \in Sources, TaskDone(f)
       PROVE  PageInv'
  <2>1. UNCHANGED <<disk, notices, reloading, pending, pc, out, batch, lastHTML, declared, got, lost>>
        /\ awaiting' \subseteq awaiting
    BY <1>10 DEF TaskDone
  <2>2. \A g \in {Html, Pkg} : Owed(g) => Owed(g)'
    BY <1>1, <2>1
  <2>. QED BY <2>1, <2>2
           DEF PageInv, AwaitsInPhase, GotIsExplained, PageIsExplained, RangeIsExplained
<1>11. CASE StartFirstLoad
  <2>1. pc' = "preset" /\ UNCHANGED awaiting /\ awaiting = {}
    BY <1>11 DEF StartFirstLoad, TypeOK
  <2>. QED BY <2>1 DEF PageInv, AwaitsInPhase, GotIsExplained, PageIsExplained, RangeIsExplained
\* A page that goes owes everything.
<1>12. ASSUME reloading', EndCompile("busy")
       PROVE  PageInv'
  BY <1>12 DEF EndCompile, PageInv, AwaitsInPhase, GotIsExplained, PageIsExplained, RangeIsExplained, Owed
\* The change set is drained into the batch of the compile.
<1>13. CASE StartUpdate
  <2>1. CASE ResetChanged /\ ~reloading
    <3>1. /\ batch' = pending /\ awaiting' = Changed /\ got' = NoContent /\ pc = "idle" /\ ~firstLoad
          /\ pc' = IF pending = {} THEN "html" ELSE "changed"
          /\ UNCHANGED <<disk, notices, reloading, lastHTML, declared>> /\ lost \subseteq lost'
      BY <1>13, <2>1 DEF StartUpdate, ResetChanged, Goto
    <3>2. Changed # {} => pending # {}
      BY DEF Changed
    <3>3. out # "none"
      BY <3>1 DEF DoneInv, MessageIsExplained
    <3>4. Pkg \notin pending /\ Owed(Pkg) => Owed(Pkg)'
      BY <3>1 DEF Owed, Reported
    <3>5. RangeIsExplained'
      BY <3>1, <3>3, <3>4 DEF PageInv, RangeIsExplained
    <3>. QED BY <3>1, <3>2, <3>5 DEF PageInv, AwaitsInPhase, GotIsExplained, PageIsExplained
  <2>. QED BY <1>12, <1>13, <2>1 DEF StartUpdate, Reload, ResetUntilCold
<1>14. CASE PresetReady
  <2>1. CASE reloading
    BY <1>12, <1>14, <2>1 DEF PresetReady
  <2>2. CASE ~reloading
    <3>1. pc' = "vendor" /\ UNCHANGED awaiting /\ pc = "preset"
      BY <1>14, <2>2 DEF PresetReady, Goto
    <3>. QED BY <3>1 DEF PageInv, AwaitsInPhase, GotIsExplained, PageIsExplained, RangeIsExplained
  <2>. QED BY <2>1, <2>2
<1>15. CASE FirstDrain
  <2>1. pc' = "pkg" /\ UNCHANGED awaiting /\ pc = "vendor" /\ got' = NoContent
    BY <1>15 DEF FirstDrain, Goto
  <2>. QED BY <2>1 DEF PageInv, AwaitsInPhase, GotIsExplained, PageIsExplained, RangeIsExplained
\* A compile goes on to a phase in which it reads nothing, and has the range it needs.
<1>16. ASSUME UNCHANGED <<disk, notices, reloading, pending, lost, lastHTML, declared>>,
              pc \in {"changed", "entry", "entryWait", "walk"}, pc = "changed" => Pkg \notin batch,
              awaiting' # {} => pc' = "entryWait",
              \/ pc' \in {"entry", "entryWait", "walk", "html"} /\ got' = NoContent
              \/ pc' = "walk" /\ UNCHANGED got
              \/ pc' = "idle" /\ out' = "error"
       PROVE  PageInv'
  <2>1. \A g \in {Html, Pkg} : Owed(g) => Owed(g)'
    BY <1>1, <1>16
  <2>2. RangeIsExplained'
    BY <1>16, <2>1 DEF PageInv, RangeIsExplained
  <2>. QED BY <1>16, <2>2 DEF PageInv, AwaitsInPhase, GotIsExplained, PageIsExplained
<1>17. CASE ChangesTransformed
  <2>1. UNCHANGED <<disk, notices, reloading, pending, lost, lastHTML, declared>>
        /\ pc = "changed" /\ awaiting' = {} /\ got' = NoContent
        /\ pc' = IF Pkg \in batch THEN "pkg" ELSE "entry"
    BY <1>17 DEF ChangesTransformed, Goto
  <2>2. CASE Pkg \in batch
    BY <2>1, <2>2 DEF PageInv, AwaitsInPhase, GotIsExplained, PageIsExplained, RangeIsExplained
  <2>3. CASE Pkg \notin batch
    BY <1>16, <2>1, <2>3
  <2>. QED BY <2>2, <2>3
<1>18. CASE TransformEntry \/ EntryTransformed \/ GraphFinished \/ \E f \in Sources : WalkModule(f)
  <2>1. pc \in {"walk", "entry"} => awaiting = {}
    BY DEF PageInv, AwaitsInPhase
  <2>. QED BY <1>16, <1>18, <2>1
           DEF TransformEntry, EntryTransformed, GraphFinished, WalkModule, Goto, EndCompile
<1>19. CASE PackageJson
  <2>1. CASE Reload
    BY <1>12, <2>1 DEF Reload
  <2>2. CASE ~Reload
    <3>1. /\ pc = "pkg" /\ declared' = Have(Pkg).kind /\ Have(Pkg) # NoContent /\ pc' = "entry"
          /\ UNCHANGED <<disk, notices, reloading, pending, lost, lastHTML, awaiting>> /\ got' = NoContent
      BY <1>19, <2>2 DEF PackageJson, Goto
    <3>2. Owed(Pkg) => Owed(Pkg)'
      BY <1>1, <3>1
    <3>3. RangeIsExplained'
      BY <3>1, <3>2, HaveIsExplained DEF RangeIsExplained
    <3>. QED BY <3>1, <3>3 DEF PageInv, AwaitsInPhase, GotIsExplained, PageIsExplained
  <2>. QED BY <2>1, <2>2
<1>20. CASE ReplaceHtml
  <2>1. CASE Reload
    BY <1>12, <2>1 DEF Reload
  <2>2. CASE ~Reload
    <3>1. /\ pc = "html" /\ lastHTML' = Have(Html) /\ Have(Html) # NoContent /\ pc' = "eval"
          /\ UNCHANGED <<disk, notices, reloading, pending, lost, declared, awaiting>> /\ got' = NoContent
      BY <1>20, <2>2 DEF ReplaceHtml, Goto
    <3>2. \A g \in {Html, Pkg} : Owed(g) => Owed(g)'
      BY <1>1, <3>1
    <3>3. PageIsExplained' /\ RangeIsExplained'
      BY <3>1, <3>2, HaveIsExplained DEF PageInv, PageIsExplained, RangeIsExplained
    <3>. QED BY <3>1, <3>3 DEF PageInv, AwaitsInPhase, GotIsExplained
  <2>. QED BY <2>1, <2>2
<1>21. CASE EvaluateNothing \/ Evaluate \/ EvaluateThrows
  <2>1. UNCHANGED <<disk, notices, reloading, pending, lost, lastHTML, declared>>
        /\ pc = "eval" /\ pc' = "idle" /\ awaiting' = {}
    BY <1>21 DEF EvaluateNothing, Evaluate, EvaluateThrows, EndCompile
  <2>2. \A g \in {Html, Pkg} : Owed(g) => Owed(g)'
    BY <1>1, <2>1
  <2>. QED BY <2>1, <2>2
           DEF PageInv, AwaitsInPhase, GotIsExplained, PageIsExplained, RangeIsExplained
<1>22. CASE (\E f \in Files : PortAnswer(f)) \/ CompileReads
  BY <1>6, <1>22 DEF PortAnswer, CompileReads
<1>23. CASE UNCHANGED vars
  BY <1>6, <1>23 DEF vars
<1>. QED
  BY <1>3, <1>4, <1>5, <1>7, <1>8, <1>9, <1>10, <1>11, <1>13, <1>14, <1>15, <1>17,
     <1>18, <1>19, <1>20, <1>21, <1>22, <1>23 DEF Next, Document

\* At rest and with nothing owed, every module runs the code that is on the disk.
LEMMA RestShowsDisk ==
  ASSUME TypeOK, StaleInv, LinkInv, DoneInv, PageInv, Quiescent, Clean, lost = {}, Refused = {}
  PROVE  ShowsDisk
<1>1. \A f \in Sources \cup {Html, Pkg} : ~Owed(f)
  BY DEF Quiescent, DoneInv, ChangesAreDrained, Owed, Reported, Range
<1>2. ASSUME NEW f \in Sources
      PROVE  mods[f].compiled \in {NoContent, disk[f]} /\ disk[f].kind \in {"good", "needs"}
  <2>1. mods[f].compiled \in {NoContent, disk[f]}
    BY <1>1 DEF StaleInv, StaleIsExplained, Owed
  <2>. QED BY <2>1 DEF Clean
<1>3. ASSUME NEW f \in Sources
      PROVE  ~Bad(f)
  <2>1. ~mods[f].error
    BY <1>1, <1>2 DEF LinkInv, ErrorsAreExplained, Refused
  <2>2. mods[f].compiled.kind # "throws"
    BY <1>2 DEF NoContent
  <2>. QED BY <2>1, <2>2 DEF Bad
<1>4. ~Failing /\ pc = "idle" /\ ~timer
  BY <1>3 DEF Failing, Quiescent
<1>5. out = "ok"
  BY <1>4 DEF DoneInv, MessageIsExplained, TypeOK, Failing
<1>6. AllRan
  BY <1>4, <1>5 DEF DoneInv, MessageIsExplained
<1>7. \A f \in Sources : mods[f].compiled = disk[f] /\ mods[f].eval = disk[f]
  BY <1>2, <1>6 DEF AllRan, Finished
<1>8. lastHTML = disk[Html] /\ declared = disk[Pkg].kind
  BY <1>1, <1>4, <1>5 DEF PageInv, PageIsExplained, RangeIsExplained
<1>. QED BY <1>5, <1>7, <1>8 DEF ShowsDisk

\* Convergence, for every app and any number of edits and faults: once nothing is under way,
\* the preview shows what is on the disk, whatever the order in which edits, messages, reads,
\* transforms, failed compiles and reloads interleaved, but for the files in lost and the
\* imports refused before package.json listed their package (Bundler.compile, runCompile,
\* processPackageJSON, replaceHTML).
THEOREM PreviewConverges == Spec => []Convergence
<1>1. Init => CoherenceInv /\ FoundInPlace /\ StaleInv /\ ReloadInv /\ EvalInv /\ LinkInv
              /\ DoneInv /\ PageInv
  <2>. SUFFICES ASSUME Init
                PROVE  /\ CoherenceInv /\ FoundInPlace /\ StaleInv /\ ReloadInv /\ EvalInv
                       /\ LinkInv /\ DoneInv /\ PageInv
    OBVIOUS
  <2>1. CoherenceInv /\ FoundInPlace /\ StaleInv /\ ReloadInv
    BY DEF Init, FreshDocument, NoRead, NoTask, NoModule, CoherenceInv, CacheCoherent, ReadsCoherent,
           FoundInPlace, StaleInv, StaleIsExplained, TasksExplained, AbsentIsEmpty, ReloadInv
  <2>2. ContentsAreReal
    BY DEF Init, FreshDocument, NoRead, NoTask, First, NoContent, ContentsAreReal
  <2>3. TransformsHaveOutcome /\ ImportsAreStarted /\ ErrorsAreExplained
    <3>1. \A f \in Sources : /\ mods[f].compiled = NoContent /\ ~mods[f].error /\ ~mods[f].linked
                             /\ tasks[f].phase = "none"
      BY DEF Init, FreshDocument, NoModule, NoTask
    <3>2. Entry \in Sources /\ pc = "idle"
      BY DEF Init, Sources
    <3>. QED BY <3>1, <3>2 DEF TransformsHaveOutcome, ImportsAreStarted, ErrorsAreExplained
  <2>4. DoneInv
    BY DEF Init, DoneInv, MessageIsExplained, ChangesAreDrained
  <2>5. PageInv
    BY DEF Init, PageInv, AwaitsInPhase, GotIsExplained, PageIsExplained, RangeIsExplained
  <2>. QED BY <2>1, <2>2, <2>3, <2>4, <2>5, InitEval DEF LinkInv
<1>2. TypeOK /\ CoherenceInv /\ FoundInPlace /\ StaleInv /\ ReloadInv /\ EvalInv /\ LinkInv
        /\ DoneInv /\ PageInv /\ [Next]_vars =>
      /\ CoherenceInv' /\ FoundInPlace' /\ StaleInv' /\ ReloadInv' /\ EvalInv' /\ LinkInv'
      /\ DoneInv' /\ PageInv'
  BY CoherenceStep, FoundStep, StaleStep, ReloadStep, EvalStep, LinkStep, DoneStep, PageStep
<1>3. TypeOK /\ StaleInv /\ LinkInv /\ DoneInv /\ PageInv => Convergence
  BY RestShowsDisk DEF Convergence
<1>. QED BY <1>1, <1>2, <1>3, TypeCorrect, PTL DEF Spec


-----------------------------------------------------------------------------
(* Nothing hangs *)

\* A transform that reads has a read on its way, and what compile awaits runs.
Underway ==
  /\ \A f \in Sources : tasks[f].phase = "reading" => inflight[f].state # "none"
  /\ \A f \in awaiting : tasks[f].phase # "none"

\* The guards of the document's steps and of the host's reload: those of the messages, the
\* reads and the transforms; then that of each phase of compile.
Runnable ==
  \/ notices # <<>> \/ reloading
  \/ \E f \in Files : inflight[f].state \in {"asked", "answered"}
  \/ \E f \in Sources : tasks[f].phase \in {"queued", "babel", "adopted"}
  \/ timer /\ pc = "idle"
  \/ pc \in {"preset", "entry"}
  \/ pc \in {"changed", "entryWait"} /\ awaiting = {}
  \/ pc \in {"vendor", "pkg"} /\ Have(Pkg) # NoContent
  \/ pc = "html" /\ Have(Html) # NoContent
  \/ got = NoContent /\ \E f \in Wanted : cache[f] = NoContent /\ inflight[f].state = "none"
  \/ pc = "walk" /\ walked = Sources
  \/ pc = "walk" /\ \E f \in Sources \ walked :
       (f # Entry => Entry \in walked) /\ tasks[f].phase = "none"
  \/ pc = "eval" /\ (noop \/ Throwers = {})
  \/ pc = "eval" /\ \E x \in Throwers, before \in SUBSET (ToRun \ (Throwers \cup {Entry})) :
       x = Entry => before = ToRun \ {Entry}

\* A document with something left to do can do something.
NeverStuck == Quiescent \/ Runnable

\* Steps that start and end no transform and no read, and await nothing more.
LEMMA UnderwayFrame ==
  ASSUME Underway, UNCHANGED <<inflight, tasks>>, awaiting' \subseteq awaiting
  PROVE  Underway'
BY DEF Underway

\* Starting transforms: those of S run, and none reads that did not.
LEMMA EnqueueRuns ==
  ASSUME TypeOK, NEW S
  PROVE  \A f \in Sources :
           /\ Enqueue(S)[f].phase \in {tasks[f].phase, "queued"}
           /\ f \in S \/ tasks[f].phase # "none" => Enqueue(S)[f].phase # "none"
BY DEF Enqueue

LEMMA UnderwayReads ==
  ASSUME TypeOK, Underway, NEW f \in Files, PortAnswer(f) \/ ReadDone(f) \/ ReadFails(f)
  PROVE  Underway'
<1>1. /\ inflight \in [Files -> Read] /\ tasks \in [Sources -> Task] /\ awaiting \subseteq Sources
      /\ Sources \subseteq Files
  BY DEF TypeOK, Files
<1>2. CASE PortAnswer(f)
  <2>1. inflight' = [inflight EXCEPT ![f] = [state |-> "answered", content |-> disk[f]]]
        /\ UNCHANGED <<tasks, awaiting>>
    BY <1>2 DEF PortAnswer, runVars
  <2>2. inflight'[f].state = "answered" /\ \A g \in Files \ {f} : inflight'[g] = inflight[g]
    BY <1>1, <2>1
  <2>. QED BY <1>1, <2>1, <2>2 DEF Underway
<1>3. CASE ReadDone(f)
  <2>1. /\ inflight' = [inflight EXCEPT ![f] = NoRead] /\ UNCHANGED awaiting
        /\ IF f \in Sources /\ tasks[f].phase = "reading"
             THEN SourceRead(f, inflight[f].content, tasks[f].found) ELSE UNCHANGED tasks
    BY <1>3 DEF ReadDone
  <2>2. \A g \in Files \ {f} : inflight'[g] = inflight[g]
    BY <1>1, <2>1
  <2>3. CASE f \in Sources /\ tasks[f].phase = "reading"
    <3>1. /\ tasks'[f].phase \in {"adopted", "babel"}
          /\ \A g \in Sources \ {f} : tasks'[g] = tasks[g]
      BY <1>1, <2>1, <2>3 DEF SourceRead
    <3>. QED BY <1>1, <2>1, <2>2, <3>1 DEF Underway
  <2>4. CASE ~(f \in Sources /\ tasks[f].phase = "reading")
    BY <1>1, <2>1, <2>2, <2>4 DEF Underway
  <2>. QED BY <2>3, <2>4
<1>4. CASE ReadFails(f)
  <2>1. /\ inflight' = [inflight EXCEPT ![f] = NoRead]
        /\ tasks' = IF f \in Sources /\ tasks[f].phase = "reading"
                      THEN [tasks EXCEPT ![f] = NoTask] ELSE tasks
    BY <1>4 DEF ReadFails
  <2>2. awaiting' = {} \/ (awaiting' = awaiting /\ f \notin awaiting)
    <3>1. f \in awaiting => f \notin {Pkg, Html}
      BY <1>1, FilesAssumption
    <3>2. CASE f \in awaiting
      <4>1. ~(f = Pkg /\ pc = "vendor") /\ ~(f = Html /\ pc = "html")
        BY <3>1, <3>2
      <4>2. EndCompile("error")
        BY <1>4, <3>2, <4>1 DEF ReadFails
      <4>. QED BY <4>2 DEF EndCompile
    <3>3. CASE f \notin awaiting
      BY <1>4, <3>3, FilesAssumption DEF ReadFails, EndCompile, runVars
    <3>. QED BY <3>2, <3>3
  <2>3. /\ \A g \in Files \ {f} : inflight'[g] = inflight[g]
        /\ \A g \in Sources \ {f} : tasks'[g] = tasks[g]
        /\ f \in Sources => tasks'[f].phase # "reading"
    BY <1>1, <2>1 DEF NoTask
  <2>. QED BY <1>1, <2>1, <2>2, <2>3 DEF Underway
<1>. QED BY <1>2, <1>3, <1>4

LEMMA UnderwayTasks ==
  ASSUME TypeOK, Underway, NEW f \in Sources,
         TaskRead(f) \/ TaskTranspiled(f) \/ TaskTimesOut(f) \/ TaskDone(f)
  PROVE  Underway'
<1>1. /\ inflight \in [Files -> Read] /\ tasks \in [Sources -> Task] /\ awaiting \subseteq Sources
      /\ Sources \subseteq Files
  BY DEF TypeOK, Files
<1>2. CASE TaskRead(f)
  <2>1. UNCHANGED awaiting
    BY <1>2 DEF TaskRead, runVars
  <2>2. CASE cache[f] # NoContent
    <3>1. SourceRead(f, cache[f], InMap(f)) /\ UNCHANGED inflight
      BY <1>2, <2>2 DEF TaskRead
    <3>2. /\ tasks'[f].phase \in {"adopted", "babel"}
          /\ \A g \in Sources \ {f} : tasks'[g] = tasks[g]
      BY <1>1, <3>1 DEF SourceRead
    <3>. QED BY <1>1, <2>1, <3>1, <3>2 DEF Underway
  <2>3. CASE cache[f] = NoContent
    <3>1. ReadingBegins(f) /\ JoinRead(f)
      BY <1>2, <2>3 DEF TaskRead, ReadingBegins
    <3>2. tasks'[f].phase = "reading" /\ \A g \in Sources \ {f} : tasks'[g] = tasks[g]
      BY <1>1, <3>1, ReadingType
    <3>3. /\ inflight'[f].state # "none"
          /\ \A g \in Files \ {f} : inflight'[g] = inflight[g]
      BY <1>1, <3>1 DEF JoinRead, Read
    <3>. QED BY <1>1, <2>1, <3>2, <3>3 DEF Underway
  <2>. QED BY <2>2, <2>3
<1>3. CASE TaskTranspiled(f) \/ TaskTimesOut(f)
  <2>1. tasks' = [tasks EXCEPT ![f].phase = "adopted"] /\ UNCHANGED <<inflight, awaiting>>
    BY <1>3 DEF TaskTranspiled, TaskTimesOut, runVars, fsVars
  <2>2. tasks'[f].phase = "adopted" /\ \A g \in Sources \ {f} : tasks'[g] = tasks[g]
    BY <1>1, <2>1 DEF Task
  <2>. QED BY <1>1, <2>1, <2>2 DEF Underway
<1>4. CASE TaskDone(f)
  <2>1. PICK S : tasks' = [Enqueue(S) EXCEPT ![f] = NoTask]
    BY <1>4 DEF TaskDone
  <2>2. awaiting' = awaiting \ {f} /\ UNCHANGED inflight
    BY <1>4 DEF TaskDone, fsVars
  <2>3. /\ tasks'[f].phase = "none"
        /\ \A g \in Sources \ {f} : tasks'[g] = Enqueue(S)[g]
    BY <1>1, <2>1, EnqueueType DEF NoTask
  <2>. QED BY <1>1, <2>2, <2>3, EnqueueRuns DEF Underway
<1>. QED BY <1>2, <1>3, <1>4

LEMMA UnderwayCompile ==
  ASSUME TypeOK, Underway, StartUpdate \/ TransformEntry \/ CompileReads
  PROVE  Underway'
<1>1. /\ inflight \in [Files -> Read] /\ tasks \in [Sources -> Task] /\ awaiting \subseteq Sources
      /\ Sources \subseteq Files
  BY DEF TypeOK, Files
<1>2. ASSUME NEW S, tasks' = Enqueue(S), awaiting' \subseteq S \cap Sources, UNCHANGED inflight
      PROVE  Underway'
  BY <1>1, <1>2, EnqueueRuns DEF Underway
<1>3. CASE StartUpdate
  <2>1. UNCHANGED inflight
    BY <1>3 DEF StartUpdate
  <2>2. CASE UNCHANGED tasks /\ awaiting' = {}
    BY <2>1, <2>2, UnderwayFrame
  <2>3. CASE ResetUntilCold
    <3>1. PICK before : tasks' = Enqueue(before)
      BY <2>3 DEF ResetUntilCold
    <3>2. awaiting' = {}
      BY <2>3 DEF ResetUntilCold, Reload, EndCompile
    <3>. QED BY <1>2, <2>1, <3>1, <3>2
  <2>4. CASE ResetChanged
    BY <1>2, <2>1, <2>4 DEF ResetChanged, Changed
  <2>. QED BY <1>3, <2>2, <2>3, <2>4 DEF StartUpdate, Reload, EndCompile
<1>4. CASE TransformEntry
  BY <1>2, <1>4 DEF TransformEntry, fsVars, Sources
<1>5. CASE CompileReads
  <2>1. PICK f \in Wanted : inflight[f].state = "none" /\ JoinRead(f)
    BY <1>5 DEF CompileReads
  <2>2. f \in Files /\ UNCHANGED <<tasks, awaiting>>
    BY <1>5, <2>1 DEF CompileReads, Wanted, Files, runVars
  <2>3. inflight'[f].state = "asked" /\ \A g \in Files \ {f} : inflight'[g] = inflight[g]
    BY <1>1, <2>1, <2>2 DEF JoinRead, Read
  <2>. QED BY <1>1, <2>2, <2>3 DEF Underway
<1>. QED BY <1>3, <1>4, <1>5

LEMMA UnderwayStep ==
  ASSUME TypeOK, Underway, [Next]_vars
  PROVE  Underway'
<1>1. CASE HostReload
  <2>1. awaiting' = {} /\ \A f \in Sources : tasks'[f].phase = "none"
    BY <1>1 DEF HostReload, FreshDocument, NoTask
  <2>. QED BY <2>1 DEF Underway
<1>2. CASE \/ \E f \in Paths : Edit(f)
           \/ \E f \in Sources : WalkModule(f)
           \/ DeliverChange \/ StartFirstLoad \/ PresetReady \/ FirstDrain \/ ChangesTransformed
           \/ EntryTransformed \/ GraphFinished
  <2>1. UNCHANGED <<inflight, tasks>> /\ awaiting' \in {awaiting, {}}
    BY <1>2 DEF Edit, WalkModule, DeliverChange, StartFirstLoad, PresetReady, FirstDrain,
                ChangesTransformed, EntryTransformed, GraphFinished, EndCompile, fsVars, runVars
  <2>. QED BY <2>1, UnderwayFrame
<1>3. CASE PackageJson \/ ReplaceHtml \/ EvaluateNothing \/ Evaluate \/ EvaluateThrows
  <2>1. UNCHANGED <<inflight, tasks>> /\ awaiting' \in {awaiting, {}}
    BY <1>3 DEF PackageJson, ReplaceHtml, EvaluateNothing, Evaluate, EvaluateThrows, Reload,
                EndCompile, fsVars
  <2>. QED BY <2>1, UnderwayFrame
<1>4. CASE UNCHANGED vars
  BY <1>4, UnderwayFrame DEF vars, fsVars, runVars
<1>. QED BY <1>1, <1>2, <1>3, <1>4, UnderwayReads, UnderwayTasks, UnderwayCompile
         DEF Next, Document

LEMMA UnderwayRuns ==
  ASSUME TypeOK, Underway, ~Quiescent
  PROVE  Runnable
<1> SUFFICES ASSUME ~Runnable PROVE FALSE
  OBVIOUS
<1>1. /\ notices = <<>> /\ ~reloading
      /\ \A f \in Files : inflight[f].state = "none"
  BY DEF Runnable, TypeOK, Read
<1>2. \A f \in Sources : tasks[f].phase = "none"
  <2>1. \A f \in Sources : tasks[f].phase \in {"none", "reading"}
    BY DEF Runnable, TypeOK, Task
  <2>2. \A f \in Sources : f \in Files
    BY DEF Files
  <2>. QED BY <1>1, <2>1, <2>2 DEF Underway
<1>3. awaiting = {}
  BY <1>2 DEF Underway, TypeOK
<1>4. pc # "idle"
  BY <1>1, <1>2 DEF Runnable, Quiescent
<1>5. pc \in {"vendor", "pkg", "html", "walk", "eval"}
  BY <1>3, <1>4 DEF Runnable, TypeOK, PC
<1>6. pc \notin {"vendor", "pkg", "html"}
  <2>1. ASSUME NEW f \in Wanted
        PROVE  Have(f) # NoContent
    BY <1>1, <2>1 DEF Runnable, Have, Wanted, Files
  <2>. QED BY <2>1 DEF Runnable, Wanted
<1>7. pc # "walk"
  <2> SUFFICES ASSUME pc = "walk" PROVE FALSE
    OBVIOUS
  <2>1. walked # Sources /\ walked \subseteq Sources
    BY DEF Runnable, TypeOK
  <2>2. CASE Entry \in walked
    BY <1>2, <2>1, <2>2 DEF Runnable
  <2>3. CASE Entry \notin walked
    BY <1>2, <2>3 DEF Runnable, Sources
  <2>. QED BY <2>2, <2>3
<1>8. pc # "eval"
  <2> SUFFICES ASSUME pc = "eval" PROVE FALSE
    OBVIOUS
  <2>1. ASSUME NEW x \in Throwers, NEW before \in SUBSET (ToRun \ (Throwers \cup {Entry})),
               x = Entry => before = ToRun \ {Entry}
        PROVE  FALSE
    BY <2>1 DEF Runnable
  <2>2. PICK x \in Throwers : TRUE
    BY DEF Runnable
  <2>3. CASE \E y \in Throwers : y # Entry
    BY <2>1, <2>3
  <2>4. CASE Throwers = {Entry}
    <3>1. ToRun \ {Entry} \in SUBSET (ToRun \ (Throwers \cup {Entry}))
      BY <2>4
    <3>. QED BY <2>1, <2>2, <2>4, <3>1
  <2>. QED BY <2>2, <2>3, <2>4
<1>. QED BY <1>5, <1>6, <1>7, <1>8

\* Until a document is at rest one of its own steps, or the host's reload, has a guard that
\* holds: no compile waits for a transform nobody runs, no transform for a read nobody
\* answers, and no phase of compile for a file nobody asks for. What Settles needs beside
\* fairness (transformModule, moduleFinishedPromise, CachedFS.readFileAsync).
THEOREM NothingHangs == Spec => []NeverStuck
<1>1. Init => Underway
  BY DEF Init, Underway, FreshDocument, NoTask
<1>2. TypeOK /\ Underway => NeverStuck
  BY UnderwayRuns DEF NeverStuck
<1>. QED BY <1>1, <1>2, InitType, StepType, UnderwayStep, PTL DEF Spec
-----------------------------------------------------------------------------
(* BootScan: the scan and the compile that uses it *)

ScanNames == ScanFiles \cup ScanPackages
ScanStages == {"none", "reading", "transforming", "following"}
LinkStages == {"none", "reading", "transforming", "linking"}
BootStages == {"roots", "scan", "runtimes", "runtime", "entry", "app", "effects", "effect", "done", "failed"}

BootTyped ==
  /\ scanDisk \in [ScanFiles -> ScanSource]
  /\ scanWalk \in [seen : SUBSET ScanFiles, queue : SUBSET ScanFiles, external : SUBSET ScanNames]
  /\ scanTasks \in [ScanFiles -> [at : ScanStages, source : ScanSource, todo : SUBSET ScanNames]]
  /\ scanKept \in [ScanFiles -> [source : ScanSource, ok : BOOLEAN]]
  /\ bootMods \in [ScanFiles -> [source : ScanSource, code : ScanSource, error : BOOLEAN]]
  /\ bootTasks \in [ScanFiles -> [at : LinkStages, source : ScanSource, todo : SUBSET ScanNames]]
  /\ bootDoc \in [at : BootStages, entry : SUBSET ScanFiles, roots : Seq(ScanFiles),
                  installed : SUBSET ScanPackages, demanded : SUBSET ScanPackages, lost : BOOLEAN,
                  effects : SUBSET ScanPackages, edits : Nat, faults : Nat]

\* A module in the queue has no code; its transform is of what was last read.
CodeFollows ==
  \A f \in ScanFiles :
    /\ bootTasks[f].at # "none" => bootMods[f].code = NoSource
    /\ bootTasks[f].at \in {"transforming", "linking"} =>
         bootTasks[f].source = bootMods[f].source /\ bootMods[f].source.there
    /\ bootMods[f].code \in {NoSource, bootMods[f].source}

LEMMA BootParts ==
  /\ NoSource \in ScanSource /\ ~NoSource.there /\ DependenciesOf(NoSource) = {}
  /\ Resting \in [at : ScanStages, source : ScanSource, todo : SUBSET ScanNames]
  /\ Resting \in [at : LinkStages, source : ScanSource, todo : SUBSET ScanNames]
  /\ Resting.at = "none" /\ [Resting EXCEPT !.at = "reading"].at = "reading"
  /\ [Resting EXCEPT !.at = "reading"] \in [at : ScanStages, source : ScanSource, todo : SUBSET ScanNames]
  /\ [Resting EXCEPT !.at = "reading"] \in [at : LinkStages, source : ScanSource, todo : SUBSET ScanNames]
  /\ NotKept \in [source : ScanSource, ok : BOOLEAN]
  /\ Unloaded \in [source : ScanSource, code : ScanSource, error : BOOLEAN]
  /\ Unloaded.code = NoSource
  /\ \A source \in ScanSource : DependenciesOf(source) \subseteq ScanNames
  /\ \A source \in ScanSource : SideEffects(source) \subseteq ScanNames
<1>1. NoSource \in ScanSource /\ ~NoSource.there
  BY DEF NoSource, ScanSource
<1>2. \A source \in ScanSource : \A i \in source.imports : i.of \in ScanNames
  BY DEF ScanSource, ImportClause, ScanNames
<1>3. DependenciesOf(NoSource) = {}
  BY DEF NoSource, DependenciesOf
<1>. QED
  BY <1>1, <1>2, <1>3
  DEF Resting, NotKept, Unloaded, ScanStages, LinkStages, DependenciesOf, SideEffects

LEMMA FirstThereTyped ==
  ASSUME NEW files \in Seq(ScanFiles)
  PROVE  FirstThere(files) \subseteq ScanFiles /\ IsFiniteSet(FirstThere(files))
         /\ \A f \in FirstThere(files) : Resolves(f)
<1>1. FirstThere(files) \subseteq ScanFiles
  BY DEF FirstThere
<1>2. IsFiniteSet(FirstThere(files))
  BY <1>1, FS_Subset, ScanAssumption
<1>3. \A f \in FirstThere(files) : Resolves(f)
  BY DEF FirstThere
<1>. QED BY <1>1, <1>2, <1>3

LEMMA ShimTyped ==
  ASSUME BootTyped, NEW entry \in SUBSET ScanFiles
  PROVE  /\ ShimImports(entry) \subseteq ScanNames
         /\ ShimModules(entry) \subseteq ScanFiles /\ IsFiniteSet(ShimModules(entry))
         /\ \A f \in ShimModules(entry) : Resolves(f)
<1>1. FirstThere(ScanShims) \subseteq ScanFiles
  BY FirstThereTyped, ScanAssumption
<1>2. ShimImports(entry) \subseteq ScanNames
  BY <1>1, BootParts DEF ShimImports, BootTyped
<1>3. ShimModules(entry) \subseteq ScanFiles /\ \A f \in ShimModules(entry) : Resolves(f)
  BY DEF ShimModules
<1>. QED BY <1>2, <1>3, FS_Subset, ScanAssumption

LEMMA SequenceOf ==
  ASSUME NEW S, IsFiniteSet(S)
  PROVE  /\ SetToSeq(S) \in Seq(S)
         /\ \A x \in S : \E i \in 1 .. Len(SetToSeq(S)) : SetToSeq(S)[i] = x
<1> DEFINE n == Cardinality(S)
           f == SetToSeq(S)
<1>1. n \in Nat /\ ExistsBijection(1 .. n, S)
  BY FS_CardinalityType
<1>2. PICK g : g \in Bijection(1 .. n, S)
  BY <1>1 DEF ExistsBijection
<1>3. g \in [1 .. n -> S] /\ IsInjective(g)
  BY <1>2 DEF Bijection, Injection, IsInjective
<1>4. f \in [1 .. n -> S] /\ IsInjective(f)
  BY <1>3 DEF SetToSeq
<1> HIDE DEF f
<1>5. f \in Seq(S) /\ Len(f) = n
  BY <1>1, <1>4
<1>6. f \in Injection(1 .. n, S)
  BY <1>4 DEF Injection, IsInjective
<1>7. Cardinality(1 .. n) = n
  <2>1. 1 \in Int /\ n \in Int
    BY <1>1
  <2>. QED BY <2>1, <1>1, FS_Interval
<1>8. f \in Surjection(1 .. n, S)
  BY <1>6, <1>7, <1>1, FS_Interval, FS_Surjection, FS_Injection
<1>. QED BY <1>5, <1>8 DEF Surjection, f

ScanTask == [at : ScanStages, source : ScanSource, todo : SUBSET ScanNames]
BootTask == [at : LinkStages, source : ScanSource, todo : SUBSET ScanNames]
Kept == [source : ScanSource, ok : BOOLEAN]
BootModule == [source : ScanSource, code : ScanSource, error : BOOLEAN]
BootDocument ==
  [at : BootStages, entry : SUBSET ScanFiles, roots : Seq(ScanFiles),
   installed : SUBSET ScanPackages, demanded : SUBSET ScanPackages, lost : BOOLEAN,
   effects : SUBSET ScanPackages, edits : Nat, faults : Nat]

LEMMA BootInitTyped == ScanInit => BootTyped
<1> SUFFICES ASSUME ScanInit PROVE BootTyped
  OBVIOUS
<1>1. scanDisk \in [ScanFiles -> ScanSource]
  BY ScanAssumption DEF ScanInit
<1>2. bootDoc \in BootDocument
  BY DEF ScanInit, BootDocument, BootStages
<1>. QED BY <1>1, <1>2, BootParts DEF ScanInit, BootTyped, BootDocument

LEMMA FaultTyped ==
  ASSUME BootTyped
  PROVE  Fault \in BootDocument /\ ScanFault \in BootDocument
         /\ Fault.at = bootDoc.at /\ ScanFault.at = bootDoc.at
         /\ Fault.roots = bootDoc.roots /\ Fault.lost = bootDoc.lost /\ ScanFault.lost
<1>1. bootDoc \in BootDocument /\ bootDoc.faults + 1 \in Nat
  BY DEF BootTyped, BootDocument
<1>2. Fault \in BootDocument /\ Fault.at = bootDoc.at /\ Fault.roots = bootDoc.roots
      /\ Fault.lost = bootDoc.lost
  BY <1>1 DEF Fault, BootDocument
<1>3. ScanFault \in BootDocument /\ ScanFault.at = Fault.at /\ ScanFault.lost
  BY <1>2 DEF ScanFault, BootDocument
<1>. QED BY <1>2, <1>3

LEMMA ScanStepTyped == BootTyped /\ [ScanNext]_scanVars => BootTyped'
<1> SUFFICES ASSUME BootTyped, [ScanNext]_scanVars PROVE BootTyped'
  OBVIOUS
<1>1. CASE ScanRoots
  <2>1. PICK unread \in BOOLEAN :
          LET entry == FirstThere(ScanEntries)
              roots == Range(ScanRuntimes) \cup entry \cup (IF unread THEN {} ELSE ShimModules(entry))
          IN /\ scanWalk' = IF entry = {} THEN scanWalk
                            ELSE [scanWalk EXCEPT !.seen = roots, !.queue = roots]
             /\ bootDoc' = [(IF unread THEN ScanFault ELSE bootDoc) EXCEPT !.at = "scan",
                                                                          !.lost = @ \/ entry = {}]
    BY <1>1 DEF ScanRoots
  <2> DEFINE entry == FirstThere(ScanEntries)
             roots == Range(ScanRuntimes) \cup entry \cup (IF unread THEN {} ELSE ShimModules(entry))
             none == entry = {}
  <2>2. entry \in SUBSET ScanFiles
    BY FirstThereTyped, ScanAssumption
  <2>3. Range(ScanRuntimes) \subseteq ScanFiles
    BY ScanAssumption DEF Range
  <2>4. roots \in SUBSET ScanFiles
    BY <2>2, <2>3, ShimTyped
  <2> HIDE DEF entry, roots
  <2>5. scanWalk' \in [seen : SUBSET ScanFiles, queue : SUBSET ScanFiles, external : SUBSET ScanNames]
    BY <2>1, <2>4 DEF BootTyped, entry, roots
  <2>6. PICK doc \in BootDocument, gone \in BOOLEAN : bootDoc' = [doc EXCEPT !.at = "scan", !.lost = gone]
    <3> DEFINE doc == IF unread THEN ScanFault ELSE bootDoc
               gone == doc.lost \/ entry = {}
    <3>1. doc \in BootDocument /\ gone \in BOOLEAN
      BY FaultTyped DEF BootTyped, BootDocument
    <3>2. bootDoc' = [doc EXCEPT !.at = "scan", !.lost = gone]
      BY <2>1 DEF entry
    <3>. QED BY <3>1, <3>2
  <2>7. bootDoc' \in BootDocument
    BY <2>6 DEF BootDocument, BootStages
  <2>. QED BY <1>1, <2>5, <2>7 DEF ScanRoots, BootTyped, BootDocument
<1>2. CASE NextBatch
  <2>1. scanTasks' \in [ScanFiles -> ScanTask]
    BY <1>2, BootParts DEF NextBatch, ScanTask
  <2>2. scanWalk' \in [seen : SUBSET ScanFiles, queue : SUBSET ScanFiles, external : SUBSET ScanNames]
    BY <1>2 DEF NextBatch, BootTyped
  <2>. QED BY <1>2, <2>1, <2>2 DEF NextBatch, BootTyped, ScanTask
<1>3. CASE BootInstall
  <2>1. scanWalk.external \cap ScanDeclared \in SUBSET ScanPackages
    BY ScanAssumption
  <2>2. bootDoc' \in BootDocument
    BY <1>3, <2>1, ScanAssumption DEF BootInstall, BootTyped, BootDocument, BootStages
  <2>. QED BY <1>3, <2>2 DEF BootInstall, BootTyped, BootDocument
<1>4. CASE NextRoot
  <2>1. bootTasks' \in [ScanFiles -> BootTask]
    BY <1>4, BootParts DEF NextRoot, BootTyped, BootTask, Enqueued
  <2>2. bootDoc' \in BootDocument
    <3>1. PICK stage \in BootStages : bootDoc' = [bootDoc EXCEPT !.at = stage]
      BY <1>4 DEF NextRoot, BootStages
    <3>. QED BY <3>1 DEF BootTyped, BootDocument
  <2>. QED BY <1>4, <2>1, <2>2 DEF NextRoot, BootTyped, BootDocument, BootTask
<1>5. CASE RootEnds
  <2>1. bootDoc' \in BootDocument
    <3>1. Tail(bootDoc.roots) \in Seq(ScanFiles) /\ <<>> \in Seq(ScanFiles)
      <4>1. CASE bootDoc.roots = <<>>
        BY <4>1
      <4>2. CASE bootDoc.roots # <<>>
        BY <4>2 DEF BootTyped
      <4>. QED BY <4>1, <4>2
    <3>2. bootDoc.at \in DOMAIN Stage => Stage[bootDoc.at] \in BootStages
      BY DEF Stage, BootStages
    <3>3. \/ bootDoc' = [bootDoc EXCEPT !.at = Stage[@], !.roots = Tail(@)]
          \/ bootDoc' = [bootDoc EXCEPT !.at = "effects", !.roots = Tail(@)]
          \/ bootDoc' = [bootDoc EXCEPT !.at = "failed", !.roots = <<>>]
      BY <1>5 DEF RootEnds
    <3>4. bootDoc.at \in DOMAIN Stage
      BY <1>5 DEF RootEnds
    <3>5. "effects" \in BootStages /\ "failed" \in BootStages
      BY DEF BootStages
    <3>6. bootDoc \in BootDocument
      BY DEF BootTyped, BootDocument
    <3>. QED BY <3>1, <3>2, <3>3, <3>4, <3>5, <3>6 DEF BootDocument
  <2>. QED BY <1>5, <2>1 DEF RootEnds, BootTyped, BootDocument
<1>6. CASE NextStage
  <2>1. bootDoc' \in BootDocument
    <3>1. CASE bootDoc.at = "runtimes"
      <4>1. FirstThere(ScanEntries) \in SUBSET ScanFiles /\ SetToSeq(FirstThere(ScanEntries)) \in Seq(ScanFiles)
        BY FirstThereTyped, SequenceOf, ScanAssumption
      <4>2. bootDoc' = [bootDoc EXCEPT !.at = IF FirstThere(ScanEntries) = {} THEN "failed" ELSE "entry",
                           !.entry = FirstThere(ScanEntries), !.roots = SetToSeq(FirstThere(ScanEntries))]
        BY <1>6, <3>1 DEF NextStage
      <4>. QED BY <4>1, <4>2 DEF BootTyped, BootDocument, BootStages
    <3>2. CASE bootDoc.at = "entry"
      <4> DEFINE imports == ShimImports(bootDoc.entry)
                 modules == SetToSeq(ShimModules(bootDoc.entry))
                 effects == imports \cap ScanDeclared
      <4>1. modules \in Seq(ScanFiles) /\ effects \in SUBSET ScanPackages
        <5>1. bootDoc.entry \in SUBSET ScanFiles
          BY DEF BootTyped
        <5>2. ShimModules(bootDoc.entry) \subseteq ScanFiles /\ IsFiniteSet(ShimModules(bootDoc.entry))
          BY <5>1, ShimTyped
        <5>3. modules \in Seq(ShimModules(bootDoc.entry))
          BY <5>2, SequenceOf
        <5>. QED BY <5>2, <5>3, ScanAssumption
      <4>2. Demand(bootDoc, imports \cap ScanPackages) \in BootDocument
        BY ScanAssumption DEF Demand, BootTyped, BootDocument
      <4>3. \/ bootDoc' = [Demand(bootDoc, imports \cap ScanPackages) EXCEPT
                             !.at = "effects", !.roots = modules, !.effects = effects]
            \/ bootDoc' = [Fault EXCEPT !.at = "effects"]
        BY <1>6, <3>2 DEF NextStage
      <4> HIDE DEF imports, modules, effects
      <4>. QED BY <4>1, <4>2, <4>3, FaultTyped DEF BootDocument, BootStages
    <3>3. CASE bootDoc.at = "effects"
      BY <1>6, <3>3 DEF NextStage, BootTyped, BootDocument, BootStages
    <3>. QED BY <1>6, <3>1, <3>2, <3>3 DEF NextStage
  <2>2. scanKept' \in [ScanFiles -> Kept]
    BY <1>6, BootParts DEF NextStage, BootTyped, Kept
  <2>. QED BY <1>6, <2>1, <2>2 DEF NextStage, BootTyped, BootDocument, Kept
<1>7. ASSUME NEW f \in ScanFiles, NEW source \in ScanSources[f], ScanEdit(f, source) PROVE BootTyped'
  <2>1. scanDisk' \in [ScanFiles -> ScanSource]
    BY <1>7, ScanAssumption DEF ScanEdit, BootTyped
  <2>2. bootDoc' \in BootDocument
    <3>1. bootDoc.edits + 1 \in Nat /\ bootDoc \in BootDocument
      BY DEF BootTyped, BootDocument
    <3>. QED BY <1>7, <3>1 DEF ScanEdit, BootDocument
  <2>. QED BY <1>7, <2>1, <2>2 DEF ScanEdit, BootTyped, BootDocument
<1>8. ASSUME NEW f \in ScanFiles, ScanRead(f) PROVE BootTyped'
  <2>1. DependenciesOf(scanDisk[f]) \in SUBSET ScanNames
    BY BootParts DEF BootTyped
  <2>2. scanTasks' \in [ScanFiles -> ScanTask]
    BY <1>8, <2>1 DEF ScanRead, BootTyped, ScanTask, ScanStages
  <2>. QED BY <1>8, <2>2 DEF ScanRead, BootTyped, ScanTask
<1>9. ASSUME NEW f \in ScanFiles, ScanTransforms(f) PROVE BootTyped'
  <2>1. DependenciesOf(scanTasks[f].source) \in SUBSET ScanNames
    BY BootParts DEF BootTyped
  <2>2. scanTasks' \in [ScanFiles -> ScanTask]
    <3>1. [scanTasks[f] EXCEPT !.at = "following", !.todo = DependenciesOf(scanTasks[f].source)] \in ScanTask
      <4>1. \A t \in ScanTask, todo \in SUBSET ScanNames :
              [t EXCEPT !.at = "following", !.todo = todo] \in ScanTask
        BY DEF ScanTask, ScanStages
      <4>2. scanTasks[f] \in ScanTask
        BY DEF BootTyped, ScanTask
      <4>. QED BY <2>1, <4>1, <4>2
    <3>2. scanTasks' = [scanTasks EXCEPT ![f] =
                          [@ EXCEPT !.at = "following", !.todo = DependenciesOf(scanTasks[f].source)]]
      BY <1>9 DEF ScanTransforms, BootTyped
    <3>. QED BY <3>1, <3>2 DEF BootTyped, ScanTask
  <2>3. scanKept' \in [ScanFiles -> Kept]
    BY <1>9 DEF ScanTransforms, BootTyped, Kept
  <2>. QED BY <1>9, <2>2, <2>3 DEF ScanTransforms, BootTyped, ScanTask, Kept
<1>10. ASSUME NEW f \in ScanFiles, ScanFails(f) PROVE BootTyped'
  <2>1. scanTasks' \in [ScanFiles -> ScanTask]
    BY <1>10, BootParts DEF ScanFails, BootTyped, ScanTask
  <2>2. scanKept' \in [ScanFiles -> Kept]
    <3>1. [source |-> scanTasks[f].source, ok |-> FALSE] \in Kept
      BY DEF BootTyped, Kept
    <3>2. scanKept' = scanKept \/ scanKept' = [scanKept EXCEPT ![f] = [source |-> scanTasks[f].source, ok |-> FALSE]]
      BY <1>10 DEF ScanFails
    <3>. QED BY <3>1, <3>2 DEF BootTyped, Kept
  <2>3. bootDoc' \in BootDocument
    BY <1>10, FaultTyped DEF ScanFails, BootTyped, BootDocument
  <2>. QED BY <1>10, <2>1, <2>2, <2>3 DEF ScanFails, BootTyped, ScanTask, Kept, BootDocument
<1>11. ASSUME NEW f \in ScanFiles, AllFollowed(f) PROVE BootTyped'
  <2>1. scanTasks' \in [ScanFiles -> ScanTask]
    BY <1>11, BootParts DEF AllFollowed, BootTyped, ScanTask
  <2>. QED BY <1>11, <2>1 DEF AllFollowed, BootTyped, ScanTask
<1>12. ASSUME NEW f \in ScanFiles, BootRead(f) PROVE BootTyped'
  <2>1. Linking(scanKept[f].source) \in BootTask
    BY BootParts DEF Linking, BootTyped, BootTask, LinkStages
  <2>2. bootTasks' \in [ScanFiles -> BootTask]
    BY <1>12, <2>1, BootParts DEF BootRead, BootTyped, BootTask, LinkStages
  <2>3. bootMods' \in [ScanFiles -> BootModule]
    <3>1. scanDisk[f] \in ScanSource
      BY DEF BootTyped
    <3>2. [Unloaded EXCEPT !.source = scanDisk[f], !.error = TRUE] \in BootModule
      BY <3>1, BootParts DEF BootModule
    <3>3. [bootMods[f] EXCEPT !.source = scanDisk[f]] \in BootModule
      BY <3>1 DEF BootTyped, BootModule
    <3>4. \/ bootMods' = [bootMods EXCEPT ![f].source = scanDisk[f]]
          \/ bootMods' = [bootMods EXCEPT ![f] = [Unloaded EXCEPT !.source = scanDisk[f], !.error = TRUE]]
      BY <1>12 DEF BootRead
    <3>5. bootMods \in [ScanFiles -> BootModule]
      BY DEF BootTyped, BootModule
    <3>. QED BY <3>2, <3>3, <3>4, <3>5
  <2>4. scanKept' \in [ScanFiles -> Kept]
    BY <1>12, BootParts DEF BootRead, BootTyped, Kept
  <2>. QED BY <1>12, <2>2, <2>3, <2>4 DEF BootRead, BootTyped, BootTask, BootModule, Kept
<1>13. ASSUME NEW f \in ScanFiles, BootTransforms(f) PROVE BootTyped'
  <2>1. Linking(bootTasks[f].source) \in BootTask
    BY BootParts DEF Linking, BootTyped, BootTask, LinkStages
  <2>2. bootTasks' \in [ScanFiles -> BootTask]
    BY <1>13, <2>1 DEF BootTransforms, BootTyped, BootTask
  <2>. QED BY <1>13, <2>2 DEF BootTransforms, BootTyped, BootTask
<1>14. ASSUME NEW f \in ScanFiles, BootFails(f) PROVE BootTyped'
  <2>1. bootTasks' \in [ScanFiles -> BootTask]
    BY <1>14, BootParts DEF BootFails, BootTyped, BootTask
  <2>2. bootMods' \in [ScanFiles -> BootModule]
    <3>1. [bootMods[f] EXCEPT !.error = TRUE] \in BootModule
      BY DEF BootTyped, BootModule
    <3>2. bootMods \in [ScanFiles -> BootModule]
      BY DEF BootTyped, BootModule
    <3>3. bootMods' = bootMods \/ bootMods' = [bootMods EXCEPT ![f].error = TRUE]
      BY <1>14 DEF BootFails
    <3>. QED BY <3>1, <3>2, <3>3
  <2>3. bootDoc' \in BootDocument
    BY <1>14, FaultTyped DEF BootFails, BootTyped, BootDocument
  <2>. QED BY <1>14, <2>1, <2>2, <2>3 DEF BootFails, BootTyped, BootTask, BootModule, BootDocument
<1>15. ASSUME NEW f \in ScanFiles, BootLinked(f) PROVE BootTyped'
  <2>1. bootMods' \in [ScanFiles -> BootModule]
    BY <1>15 DEF BootLinked, BootTyped, BootModule
  <2>2. bootTasks' \in [ScanFiles -> BootTask]
    <3> DEFINE rest == [bootTasks EXCEPT ![f] = Resting]
    <3>1. rest \in [ScanFiles -> BootTask]
      BY BootParts DEF BootTyped, BootTask
    <3> HIDE DEF rest
    <3>2. \A files : Enqueued(rest, files) \in [ScanFiles -> BootTask]
      BY <3>1, BootParts DEF Enqueued, BootTask
    <3>. QED BY <1>15, <3>2 DEF BootLinked, rest
  <2>. QED BY <1>15, <2>1, <2>2 DEF BootLinked, BootTyped, BootTask, BootModule
<1>16. ASSUME NEW f \in ScanFiles, NEW s \in scanTasks[f].todo, Follow(f, s) PROVE BootTyped'
  <2>1. s \in ScanNames
    BY DEF BootTyped
  <2>2. scanWalk' \in [seen : SUBSET ScanFiles, queue : SUBSET ScanFiles, external : SUBSET ScanNames]
    <3>1. s \notin ScanPackages => s \in ScanFiles
      BY <2>1 DEF ScanNames
    <3>. QED BY <1>16, <2>1, <3>1 DEF Follow, Followed, BootTyped
  <2>3. bootDoc' \in BootDocument
    BY <1>16, <2>1 DEF Follow, BootTyped, BootDocument
  <2>4. scanTasks' \in [ScanFiles -> ScanTask]
    <3>1. [scanTasks[f] EXCEPT !.todo = @ \ {s}] \in ScanTask
      <4>1. \A t \in ScanTask, todo \in SUBSET ScanNames : [t EXCEPT !.todo = todo] \in ScanTask
        BY DEF ScanTask
      <4>2. scanTasks[f] \in ScanTask /\ scanTasks[f].todo \ {s} \in SUBSET ScanNames
        BY DEF BootTyped, ScanTask
      <4>. QED BY <4>1, <4>2
    <3>2. scanTasks \in [ScanFiles -> ScanTask]
      BY DEF BootTyped, ScanTask
    <3>3. scanTasks' = [scanTasks EXCEPT ![f].todo = @ \ {s}]
      BY <1>16 DEF Follow
    <3>. QED BY <3>1, <3>2, <3>3
  <2>. QED BY <1>16, <2>2, <2>3, <2>4 DEF Follow, BootTyped, ScanTask, BootDocument
<1>17. ASSUME NEW f \in ScanFiles, NEW s \in bootTasks[f].todo, BootLink(f, s) PROVE BootTyped'
  <2>1. Demand(bootDoc, {s} \cap ScanPackages) \in BootDocument
    BY ScanAssumption DEF Demand, BootTyped, BootDocument
  <2>2. bootDoc' \in BootDocument
    BY <1>17, <2>1 DEF BootLink, BootTyped, BootDocument
  <2>3. bootTasks' \in [ScanFiles -> BootTask]
    <3>1. [bootTasks[f] EXCEPT !.todo = @ \ {s}] \in BootTask /\ Resting \in BootTask
      BY BootParts DEF BootTyped, BootTask
    <3>2. bootTasks \in [ScanFiles -> BootTask]
      BY DEF BootTyped, BootTask
    <3>3. \/ bootTasks' = [bootTasks EXCEPT ![f].todo = @ \ {s}]
          \/ bootTasks' = [bootTasks EXCEPT ![f] = Resting]
      BY <1>17 DEF BootLink
    <3>. QED BY <3>1, <3>2, <3>3
  <2>. QED BY <1>17, <2>2, <2>3 DEF BootLink, BootTyped, BootTask, BootModule, BootDocument
<1>19. ASSUME NEW f \in ScanFiles, LinkFails(f) PROVE BootTyped'
  <2>1. \A packages : Demand(bootDoc, packages) \in BootDocument
    BY ScanAssumption DEF Demand, BootTyped, BootDocument
  <2>2. bootDoc' \in BootDocument
    BY <1>19, <2>1 DEF LinkFails
  <2>3. bootTasks' \in [ScanFiles -> BootTask]
    <3> DEFINE rest == [bootTasks EXCEPT ![f] = Resting]
    <3>1. rest \in [ScanFiles -> BootTask]
      BY BootParts DEF BootTyped, BootTask
    <3>2. \E files : bootTasks' = Enqueued(rest, files)
      BY <1>19 DEF LinkFails
    <3> HIDE DEF rest
    <3>3. \A files : Enqueued(rest, files) \in [ScanFiles -> BootTask]
      BY <3>1, BootParts DEF Enqueued, BootTask
    <3>. QED BY <3>2, <3>3
  <2>4. bootMods' \in [ScanFiles -> BootModule]
    <3>1. [bootMods[f] EXCEPT !.error = TRUE] \in BootModule
      BY DEF BootTyped, BootModule
    <3>2. bootMods \in [ScanFiles -> BootModule]
      BY DEF BootTyped, BootModule
    <3>3. bootMods' = [bootMods EXCEPT ![f].error = TRUE]
      BY <1>19 DEF LinkFails
    <3>. QED BY <3>1, <3>2, <3>3
  <2>. QED BY <1>19, <2>2, <2>3, <2>4 DEF LinkFails, BootTyped, BootTask, BootModule, BootDocument
<1>18. CASE UNCHANGED scanVars
  BY <1>18 DEF scanVars, BootTyped
<1>. QED
  BY <1>1, <1>2, <1>3, <1>4, <1>5, <1>6, <1>7, <1>8, <1>9, <1>10, <1>11, <1>12, <1>13, <1>14,
     <1>15, <1>16, <1>17, <1>18, <1>19
  DEF ScanNext

-----------------------------------------------------------------------------
(* What a step does to one module *)

Moved(g) ==
  \/ bootTasks'[g] = bootTasks[g] /\ bootMods'[g] = bootMods[g]
  \/ \* it is put into the queue
     /\ bootTasks[g].at = "none" /\ bootMods[g].code = NoSource
     /\ bootTasks'[g].at = "reading" /\ bootMods'[g] = bootMods[g]
  \/ \* it is read
     /\ bootTasks[g].at = "reading" /\ Resolves(g)
     /\ bootTasks'[g].at \in {"transforming", "linking"} /\ bootTasks'[g].source = scanDisk[g]
     /\ bootTasks'[g].at = "linking" => bootTasks'[g].todo = DependenciesOf(scanDisk[g])
     /\ bootMods'[g].source = scanDisk[g]
     /\ bootMods'[g].code = bootMods[g].code /\ bootMods'[g].error = bootMods[g].error
  \/ \* it is transformed
     /\ bootTasks[g].at = "transforming" /\ bootTasks'[g].at = "linking"
     /\ bootTasks'[g].source = bootTasks[g].source
     /\ bootTasks'[g].todo = DependenciesOf(bootTasks[g].source)
     /\ bootMods'[g] = bootMods[g]
  \/ \* an import is resolved
     /\ bootTasks[g].at = "linking" /\ bootTasks'[g].at = "linking"
     /\ bootTasks'[g].source = bootTasks[g].source
     /\ \E s \in bootTasks[g].todo : Available(s) /\ bootTasks'[g].todo = bootTasks[g].todo \ {s}
     /\ bootMods'[g] = bootMods[g]
  \/ \* it is compiled
     /\ bootTasks[g].at = "linking" /\ bootTasks[g].todo = {} /\ bootTasks'[g].at = "none"
     /\ bootMods'[g].code = bootTasks[g].source
     /\ bootMods'[g].source = bootMods[g].source /\ bootMods'[g].error = bootMods[g].error
     /\ \A h \in (DependenciesOf(bootTasks[g].source) \cap ScanFiles) \ {g} :
          bootTasks'[h].at # "none" \/ bootMods[h].code # NoSource
  \/ \* it is given up
     /\ bootTasks[g].at # "none" /\ bootTasks'[g].at = "none"
     /\ bootMods'[g].code \in {NoSource, bootMods[g].code}
     /\ \/ bootMods'[g].error
        \/ bootTasks[g].at = "reading" /\ bootMods'[g] = bootMods[g]
           /\ (~Resolves(g) \/ bootDoc'.faults > 0)

LEMMA EnqueuedMoves ==
  ASSUME NEW queue \in [ScanFiles -> BootTask], NEW files, NEW g \in ScanFiles
  PROVE  \/ Enqueued(queue, files)[g] = queue[g] /\ (g \in files => queue[g].at # "none" \/ bootMods[g].code # NoSource)
         \/ /\ queue[g].at = "none" /\ bootMods[g].code = NoSource
            /\ Enqueued(queue, files)[g].at = "reading"
BY BootParts DEF Enqueued

LEMMA Moves ==
  ASSUME BootTyped, [ScanNext]_scanVars, NEW g \in ScanFiles
  PROVE  Moved(g)
<1> USE DEF Moved
<1>0. /\ bootTasks \in [ScanFiles -> BootTask] /\ bootMods \in [ScanFiles -> BootModule]
      /\ bootDoc \in BootDocument
  BY DEF BootTyped, BootTask, BootModule, BootDocument
<1>1. CASE NextRoot
  BY <1>0, <1>1, EnqueuedMoves DEF NextRoot
<1>2. ASSUME NEW f \in ScanFiles, BootRead(f) PROVE Moved(g)
  <2>1. CASE g # f
    BY <1>0, <1>2, <2>1 DEF BootRead
  <2>2. CASE g = f /\ bootMods[f].error
    BY <1>0, <1>2, <2>2, BootParts DEF BootRead, BootModule
  <2>3. CASE g = f /\ ~bootMods[f].error /\ Adopts(f, scanDisk[f]) /\ ~scanKept[f].ok
    <3>1. bootMods'[f] = [Unloaded EXCEPT !.source = scanDisk[f], !.error = TRUE]
          /\ bootTasks'[f] = Resting
      BY <1>0, <1>2, <2>3 DEF BootRead
    <3>2. bootMods'[f].code = NoSource /\ bootMods'[f].error
      BY <3>1, BootParts DEF Unloaded
    <3>. QED BY <1>2, <2>3, <3>1, <3>2, BootParts DEF BootRead
  <2>4. CASE g = f /\ ~bootMods[f].error /\ ~(Adopts(f, scanDisk[f]) /\ ~scanKept[f].ok)
    <3> DEFINE task == IF Adopts(g, scanDisk[g]) THEN Linking(scanKept[g].source)
                       ELSE [at |-> "transforming", source |-> scanDisk[g], todo |-> {}]
    <3>1. /\ bootMods' = [bootMods EXCEPT ![g].source = scanDisk[g]]
          /\ bootTasks' = [bootTasks EXCEPT ![g] = task]
          /\ Resolves(g) /\ bootTasks[g].at = "reading"
      BY <1>2, <2>4 DEF BootRead
    <3>2. /\ task.at \in {"transforming", "linking"} /\ task.source = scanDisk[g]
          /\ task.at = "linking" => task.todo = DependenciesOf(scanDisk[g])
      <4>1. CASE Adopts(g, scanDisk[g])
        <5>1. scanKept[g].source = scanDisk[g]
          BY <4>1 DEF Adopts
        <5>. QED BY <4>1, <5>1 DEF Linking
      <4>2. CASE ~Adopts(g, scanDisk[g])
        BY <4>2
      <4>. QED BY <4>1, <4>2
    <3> HIDE DEF task
    <3>3. bootTasks'[g] = task
      BY <1>0, <3>1
    <3>4. /\ bootMods'[g].source = scanDisk[g] /\ bootMods'[g].code = bootMods[g].code
          /\ bootMods'[g].error = bootMods[g].error
      BY <1>0, <3>1 DEF BootModule
    <3>. QED BY <3>1, <3>2, <3>3, <3>4
  <2>. QED BY <2>1, <2>2, <2>3, <2>4
<1>3. ASSUME NEW f \in ScanFiles, BootTransforms(f) PROVE Moved(g)
  BY <1>0, <1>3 DEF BootTransforms, Linking
<1>4. ASSUME NEW f \in ScanFiles, BootFails(f) PROVE Moved(g)
  <2>1. CASE g # f
    BY <1>0, <1>4, <2>1 DEF BootFails
  <2>2. bootTasks'[f] = Resting /\ bootTasks[f].at # "none"
    BY <1>0, <1>4 DEF BootFails
  <2>3. CASE bootTasks[f].at = "reading" /\ ~Resolves(f) /\ UNCHANGED bootMods
    BY <2>1, <2>2, <2>3, BootParts
  <2>4. CASE bootTasks[f].at = "reading" /\ bootDoc' = Fault /\ UNCHANGED bootMods
    <3>1. Fault.faults > 0
      BY <1>0 DEF Fault, BootDocument
    <3>. QED BY <2>1, <2>2, <2>4, <3>1, BootParts
  <2>5. CASE bootMods' = [bootMods EXCEPT ![f].error = TRUE]
    <3>1. bootMods'[f].error /\ bootMods'[f].code = bootMods[f].code
      BY <1>0, <2>5 DEF BootModule
    <3>. QED BY <2>1, <2>2, <3>1, BootParts
  <2>. QED BY <1>4, <2>3, <2>4, <2>5 DEF BootFails
<1>5. ASSUME NEW f \in ScanFiles, BootLinked(f) PROVE Moved(g)
  <2> DEFINE rest == [bootTasks EXCEPT ![f] = Resting]
             needs == (DependenciesOf(bootTasks[f].source) \cap ScanFiles) \ {f}
  <2>1. rest \in [ScanFiles -> BootTask] /\ rest[f] = Resting
        /\ \A h \in ScanFiles : h # f => rest[h] = bootTasks[h]
    BY <1>0, BootParts DEF BootTask
  <2>2. bootTasks' = Enqueued(rest, needs)
    BY <1>5 DEF BootLinked
  <2>3. f \notin needs /\ needs \subseteq ScanFiles
    OBVIOUS
  <2>4. bootTasks'[f] = Resting
    BY <2>1, <2>2, <2>3, BootParts DEF Enqueued
  <2>5. \A h \in needs : bootTasks'[h].at # "none" \/ bootMods[h].code # NoSource
    <3> SUFFICES ASSUME NEW h \in needs PROVE bootTasks'[h].at # "none" \/ bootMods[h].code # NoSource
      OBVIOUS
    <3>1. h \in ScanFiles
      BY <2>3
    <3> HIDE DEF rest, needs
    <3>2. \/ Enqueued(rest, needs)[h].at # "none" \/ bootMods[h].code # NoSource
      BY <2>1, <3>1, EnqueuedMoves
    <3>. QED BY <2>2, <3>2
  <2>6. /\ bootMods'[f].code = bootTasks[f].source /\ bootMods'[f].source = bootMods[f].source
        /\ bootMods'[f].error = bootMods[f].error
        /\ \A h \in ScanFiles : h # f => bootMods'[h] = bootMods[h]
    BY <1>0, <1>5 DEF BootLinked, BootModule
  <2>7. CASE g = f
    BY <1>5, <2>4, <2>5, <2>6, <2>7, BootParts DEF BootLinked
  <2>8. CASE g # f
    <3> HIDE DEF rest, needs
    <3>1. rest[g] = bootTasks[g] /\ bootMods'[g] = bootMods[g]
      BY <2>1, <2>6, <2>8
    <3>. QED BY <2>1, <2>2, <3>1, EnqueuedMoves
  <2>. QED BY <2>7, <2>8
<1>6. ASSUME NEW f \in ScanFiles, NEW s \in bootTasks[f].todo, BootLink(f, s) PROVE Moved(g)
  <2>1. CASE g # f
    BY <1>0, <1>6, <2>1 DEF BootLink
  <2>2. CASE g = f
    <3>1. /\ bootTasks'[f] = [bootTasks[f] EXCEPT !.todo = @ \ {s}] /\ bootMods' = bootMods
          /\ bootTasks[f].at = "linking" /\ Available(s)
      BY <1>0, <1>6, <2>2 DEF BootLink
    <3>2. /\ bootTasks'[f].at = bootTasks[f].at /\ bootTasks'[f].source = bootTasks[f].source
          /\ bootTasks'[f].todo = bootTasks[f].todo \ {s}
      BY <1>0, <3>1 DEF BootTask
    <3>. QED BY <2>2, <3>1, <3>2
  <2>. QED BY <2>1, <2>2
<1>13. ASSUME NEW f \in ScanFiles, LinkFails(f) PROVE Moved(g)
  <2> DEFINE rest == [bootTasks EXCEPT ![f] = Resting]
  <2>1. rest \in [ScanFiles -> BootTask] /\ rest[f] = Resting
        /\ \A h \in ScanFiles : h # f => rest[h] = bootTasks[h]
    BY <1>0, BootParts DEF BootTask
  <2>2. PICK files : bootTasks' = Enqueued(rest, files) /\ f \notin files
    BY <1>13 DEF LinkFails
  <2>3. bootTasks[f].at = "linking" /\ bootMods' = [bootMods EXCEPT ![f].error = TRUE]
    BY <1>13 DEF LinkFails
  <2> HIDE DEF rest
  <2>4. bootTasks'[f] = Resting
    BY <2>1, <2>2, BootParts DEF Enqueued
  <2>5. /\ bootMods'[f].error /\ bootMods'[f].code = bootMods[f].code
        /\ \A h \in ScanFiles : h # f => bootMods'[h] = bootMods[h]
    BY <1>0, <2>3 DEF BootModule
  <2>6. CASE g = f
    BY <2>3, <2>4, <2>5, <2>6, BootParts
  <2>7. CASE g # f
    <3>1. rest[g] = bootTasks[g] /\ bootMods'[g] = bootMods[g]
      BY <2>1, <2>5, <2>7
    <3>. QED BY <2>1, <2>2, <3>1, EnqueuedMoves
  <2>. QED BY <2>6, <2>7
<1>7. ASSUME UNCHANGED <<bootTasks, bootMods>> PROVE Moved(g)
  BY <1>7
<1>8. CASE UNCHANGED scanVars
  BY <1>7, <1>8 DEF scanVars
<1>9. CASE ScanRoots \/ NextBatch \/ BootInstall \/ RootEnds \/ NextStage
  BY <1>7, <1>9 DEF ScanRoots, NextBatch, BootInstall, RootEnds, NextStage
<1>10. ASSUME NEW f \in ScanFiles, NEW source \in ScanSources[f], ScanEdit(f, source) PROVE Moved(g)
  BY <1>7, <1>10 DEF ScanEdit
<1>11. ASSUME NEW f \in ScanFiles, ScanRead(f) \/ ScanTransforms(f) \/ ScanFails(f) \/ AllFollowed(f)
       PROVE  Moved(g)
  BY <1>7, <1>11 DEF ScanRead, ScanTransforms, ScanFails, AllFollowed
<1>12. ASSUME NEW f \in ScanFiles, NEW s \in scanTasks[f].todo, Follow(f, s) PROVE Moved(g)
  BY <1>7, <1>12 DEF Follow
<1> USE DEF Moved
<1>. QED
  BY <1>1, <1>2, <1>3, <1>4, <1>5, <1>6, <1>8, <1>9, <1>10, <1>11, <1>12, <1>13 DEF ScanNext

LEMMA CodeKept == BootTyped /\ CodeFollows /\ [ScanNext]_scanVars => CodeFollows'
<1> SUFFICES ASSUME BootTyped, CodeFollows, [ScanNext]_scanVars, NEW g \in ScanFiles
    PROVE  /\ bootTasks'[g].at # "none" => bootMods'[g].code = NoSource
           /\ bootTasks'[g].at \in {"transforming", "linking"} =>
                bootTasks'[g].source = bootMods'[g].source /\ bootMods'[g].source.there
           /\ bootMods'[g].code \in {NoSource, bootMods'[g].source}
  BY DEF CodeFollows
<1>1. Moved(g)
  BY Moves
<1>2. /\ bootTasks[g].at # "none" => bootMods[g].code = NoSource
      /\ bootTasks[g].at \in {"transforming", "linking"} =>
           bootTasks[g].source = bootMods[g].source /\ bootMods[g].source.there
      /\ bootMods[g].code \in {NoSource, bootMods[g].source}
  BY DEF CodeFollows
<1>. QED BY <1>1, <1>2 DEF Moved, Resolves

-----------------------------------------------------------------------------
(* The walk *)

\* What the walk starts at, and what it may not leave out, on the disk as it is.
StartRoots ==
  Range(ScanRuntimes) \cup FirstThere(ScanEntries) \cup ShimModules(FirstThere(ScanEntries))
NeedsOf(f) == DependenciesOf(scanDisk[f])
Passed(s) == IF s \in ScanPackages THEN s \in scanWalk.external
             ELSE Resolves(s) => s \in scanWalk.seen
ClosedUnder(P) ==
  StartRoots \subseteq P
  /\ \A g \in P : \A h \in NeedsOf(g) \cap ScanFiles : Resolves(g) /\ Resolves(h) => h \in P

\* As long as nothing is lost: what was seen has been followed, or will be; and what was
\* found has been found there.
WalkStarts ==
  /\ bootDoc.at = "roots" => /\ scanWalk.seen = {} /\ scanWalk.external = {} /\ scanWalk.queue = {}
                             /\ NotScanning(scanTasks)
  /\ bootDoc.at # "roots" => StartRoots \subseteq scanWalk.seen
  /\ bootDoc.at \notin {"roots", "scan"} => scanWalk.queue = {} /\ NotScanning(scanTasks)
WalkFollows ==
  /\ scanWalk.queue \subseteq scanWalk.seen
  /\ \A f \in ScanFiles :
       /\ scanTasks[f].at # "none" => f \in scanWalk.seen
       /\ scanTasks[f].at \in {"transforming", "following"} =>
            scanTasks[f].source = scanDisk[f] /\ Resolves(f)
       /\ scanTasks[f].at = "following" =>
            /\ scanTasks[f].todo \subseteq NeedsOf(f)
            /\ \A s \in NeedsOf(f) \ scanTasks[f].todo : Passed(s)
  /\ \A f \in scanWalk.seen :
       f \in scanWalk.queue \/ scanTasks[f].at # "none" \/ (Resolves(f) => \A s \in NeedsOf(f) : Passed(s))
WalkFinds ==
  /\ \A s \in scanWalk.external \cap ScanPackages :
       \E f \in scanWalk.seen : Resolves(f) /\ s \in NeedsOf(f)
  /\ \A P \in SUBSET ScanFiles : ClosedUnder(P) => scanWalk.seen \subseteq P

LEMMA NothingLost ==
  ASSUME BootTyped, [ScanNext]_scanVars, ~bootDoc'.lost
  PROVE  ~bootDoc.lost /\ scanDisk' = scanDisk
<1>0. bootDoc \in BootDocument
  BY DEF BootTyped, BootDocument
<1>1. CASE ScanRoots
  <2>1. PICK doc \in {bootDoc, ScanFault}, gone \in BOOLEAN : bootDoc' = [doc EXCEPT !.at = "scan", !.lost = doc.lost \/ gone]
    BY <1>1 DEF ScanRoots
  <2>2. doc \in BootDocument /\ (doc = ScanFault => doc.lost)
    BY <1>0, FaultTyped
  <2>3. bootDoc'.lost = (doc.lost \/ gone)
    BY <2>1, <2>2 DEF BootDocument
  <2>. QED BY <1>1, <2>1, <2>2, <2>3 DEF ScanRoots
<1>2. CASE NextBatch \/ BootInstall \/ NextRoot \/ RootEnds
  BY <1>0, <1>2 DEF NextBatch, BootInstall, NextRoot, RootEnds, BootDocument
<1>3. CASE NextStage
  <2>1. CASE bootDoc.at = "runtimes"
    BY <1>0, <1>3, <2>1 DEF NextStage, BootDocument
  <2>2. CASE bootDoc.at = "entry"
    BY <1>0, <1>3, <2>2, FaultTyped DEF NextStage, BootDocument, Demand
  <2>3. CASE bootDoc.at = "effects"
    BY <1>0, <1>3, <2>3 DEF NextStage, BootDocument
  <2>. QED BY <1>3, <2>1, <2>2, <2>3 DEF NextStage
<1>4. ASSUME NEW f \in ScanFiles, NEW source \in ScanSources[f], ScanEdit(f, source) PROVE FALSE
  BY <1>0, <1>4 DEF ScanEdit, BootDocument
<1>5. ASSUME NEW f \in ScanFiles, ScanRead(f) \/ ScanTransforms(f) \/ AllFollowed(f)
               \/ BootRead(f) \/ BootTransforms(f) \/ BootLinked(f)
      PROVE  ~bootDoc.lost /\ scanDisk' = scanDisk
  BY <1>5 DEF ScanRead, ScanTransforms, AllFollowed, BootRead, BootTransforms, BootLinked
<1>6. ASSUME NEW f \in ScanFiles, ScanFails(f) \/ BootFails(f)
      PROVE  ~bootDoc.lost /\ scanDisk' = scanDisk
  BY <1>6, FaultTyped DEF ScanFails, BootFails
<1>7. ASSUME NEW f \in ScanFiles, NEW s \in scanTasks[f].todo, Follow(f, s)
      PROVE  ~bootDoc.lost /\ scanDisk' = scanDisk
  BY <1>0, <1>7 DEF Follow, BootDocument
<1>8. ASSUME NEW f \in ScanFiles, NEW s \in bootTasks[f].todo, BootLink(f, s)
      PROVE  ~bootDoc.lost /\ scanDisk' = scanDisk
  BY <1>0, <1>8 DEF BootLink, Demand, BootDocument
<1>9. ASSUME NEW f \in ScanFiles, LinkFails(f)
      PROVE  ~bootDoc.lost /\ scanDisk' = scanDisk
  BY <1>0, <1>9 DEF LinkFails, Demand, BootDocument
<1>10. CASE UNCHANGED scanVars
  BY <1>10 DEF scanVars
<1>. QED BY <1>1, <1>2, <1>3, <1>4, <1>5, <1>6, <1>7, <1>8, <1>9, <1>10 DEF ScanNext

LEMMA SameDisk ==
  ASSUME scanDisk' = scanDisk
  PROVE  /\ StartRoots' = StartRoots
         /\ \A f : NeedsOf(f)' = NeedsOf(f) /\ (Resolves(f)' <=> Resolves(f))
         /\ \A P : ClosedUnder(P)' <=> ClosedUnder(P)
         /\ \A files : FirstThere(files)' = FirstThere(files)
         /\ \A entry : ShimModules(entry)' = ShimModules(entry)
<1>1. \A f : NeedsOf(f)' = NeedsOf(f) /\ (Resolves(f)' <=> Resolves(f))
  BY DEF NeedsOf, Resolves
<1>2. \A files : FirstThere(files)' = FirstThere(files)
  BY <1>1 DEF FirstThere, Resolves
<1>3. \A entry : ShimModules(entry)' = ShimModules(entry)
  BY <1>1, <1>2 DEF ShimModules, ShimImports, Resolves
<1>4. StartRoots' = StartRoots
  BY <1>2, <1>3 DEF StartRoots
<1>5. \A P : ClosedUnder(P)' <=> ClosedUnder(P)
  BY <1>1, <1>4 DEF ClosedUnder
<1>. QED BY <1>1, <1>2, <1>3, <1>4, <1>5

Walking(stage) == stage \in {"roots", "scan"}
WalkRests ==
  /\ UNCHANGED <<scanWalk, scanTasks>>
  /\ bootDoc'.at = bootDoc.at \/ (~Walking(bootDoc.at) /\ ~Walking(bootDoc'.at))

LEMMA WalkCases ==
  ASSUME BootTyped, [ScanNext]_scanVars
  PROVE  \/ ScanRoots \/ NextBatch \/ BootInstall \/ WalkRests
         \/ \E f \in ScanFiles : \/ ScanRead(f) \/ ScanTransforms(f) \/ ScanFails(f) \/ AllFollowed(f)
                                 \/ \E s \in scanTasks[f].todo : Follow(f, s)
<1> USE DEF WalkRests
<1>0. bootDoc \in BootDocument
  BY DEF BootTyped, BootDocument
<1>1. CASE NextRoot
  BY <1>0, <1>1 DEF NextRoot, BootDocument, Walking
<1>2. CASE RootEnds
  <2>1. bootDoc.at \in {"runtime", "app", "effect"}
    BY <1>2 DEF RootEnds, Stage
  <2>2. bootDoc'.at \in {"runtimes", "entry", "effects", "failed"}
    <3>1. \/ bootDoc' = [bootDoc EXCEPT !.at = Stage[@], !.roots = Tail(@)]
          \/ bootDoc' = [bootDoc EXCEPT !.at = "effects", !.roots = Tail(@)]
          \/ bootDoc' = [bootDoc EXCEPT !.at = "failed", !.roots = <<>>]
      BY <1>2 DEF RootEnds
    <3>2. Stage[bootDoc.at] \in {"runtimes", "entry", "effects"}
      BY <2>1 DEF Stage
    <3>. QED BY <1>0, <3>1, <3>2 DEF BootDocument
  <2>. QED BY <1>2, <2>1, <2>2 DEF RootEnds, Walking
<1>3. CASE NextStage
  <2>1. bootDoc.at \in {"runtimes", "entry", "effects"} /\ UNCHANGED <<scanWalk, scanTasks>>
    BY <1>3 DEF NextStage
  <2>2. bootDoc'.at \in {"entry", "effects", "done", "failed"}
    <3>1. CASE bootDoc.at = "runtimes"
      BY <1>0, <1>3, <3>1 DEF NextStage, BootDocument
    <3>2. CASE bootDoc.at = "entry"
      BY <1>0, <1>3, <3>2, FaultTyped DEF NextStage, BootDocument, Demand
    <3>3. CASE bootDoc.at = "effects"
      BY <1>0, <1>3, <3>3 DEF NextStage, BootDocument
    <3>. QED BY <2>1, <3>1, <3>2, <3>3
  <2>. QED BY <2>1, <2>2 DEF Walking
<1>4. ASSUME NEW f \in ScanFiles, NEW source \in ScanSources[f], ScanEdit(f, source) PROVE WalkRests
  BY <1>0, <1>4 DEF ScanEdit, BootDocument
<1>5. ASSUME NEW f \in ScanFiles, BootRead(f) \/ BootTransforms(f) \/ BootLinked(f) PROVE WalkRests
  BY <1>5 DEF BootRead, BootTransforms, BootLinked
<1>6. ASSUME NEW f \in ScanFiles, BootFails(f) PROVE WalkRests
  BY <1>6, FaultTyped DEF BootFails
<1>7. ASSUME NEW f \in ScanFiles, NEW s \in bootTasks[f].todo, BootLink(f, s) PROVE WalkRests
  BY <1>0, <1>7 DEF BootLink, Demand, BootDocument
<1>8. ASSUME NEW f \in ScanFiles, LinkFails(f) PROVE WalkRests
  BY <1>0, <1>8 DEF LinkFails, Demand, BootDocument
<1>9. CASE UNCHANGED scanVars
  BY <1>9 DEF scanVars
<1>. QED BY <1>1, <1>2, <1>3, <1>4, <1>5, <1>6, <1>7, <1>8, <1>9 DEF ScanNext

LEMMA RootsWalk ==
  ASSUME BootTyped, ScanRoots, ~bootDoc'.lost, scanDisk' = scanDisk
  PROVE  /\ scanWalk' = [scanWalk EXCEPT !.seen = StartRoots, !.queue = StartRoots]
         /\ bootDoc.at = "roots" /\ bootDoc'.at = "scan" /\ scanTasks' = scanTasks
         /\ StartRoots \subseteq ScanFiles
<1>1. PICK unread \in BOOLEAN :
        LET entry == FirstThere(ScanEntries)
            roots == Range(ScanRuntimes) \cup entry \cup (IF unread THEN {} ELSE ShimModules(entry))
        IN /\ scanWalk' = IF entry = {} THEN scanWalk
                          ELSE [scanWalk EXCEPT !.seen = roots, !.queue = roots]
           /\ bootDoc' = [(IF unread THEN ScanFault ELSE bootDoc) EXCEPT !.at = "scan",
                                                                        !.lost = @ \/ entry = {}]
  BY DEF ScanRoots
<1> DEFINE entry == FirstThere(ScanEntries)
           none == entry = {}
           doc == IF unread THEN ScanFault ELSE bootDoc
<1>2. doc \in BootDocument /\ (unread => doc.lost)
  BY FaultTyped DEF BootTyped, BootDocument
<1>3. bootDoc' = [doc EXCEPT !.at = "scan", !.lost = doc.lost \/ none]
  BY <1>1
<1> HIDE DEF doc, none
<1>4. bootDoc'.lost = (doc.lost \/ none) /\ bootDoc'.at = "scan"
  BY <1>2, <1>3 DEF BootDocument
<1>5. ~unread /\ ~none
  BY <1>2, <1>4
<1>6. scanWalk' = [scanWalk EXCEPT !.seen = StartRoots, !.queue = StartRoots]
  BY <1>1, <1>5 DEF StartRoots, none
<1>7. entry \in SUBSET ScanFiles /\ Range(ScanRuntimes) \subseteq ScanFiles
  BY FirstThereTyped, ScanAssumption DEF Range
<1>8. StartRoots \subseteq ScanFiles
  BY <1>7, ShimTyped DEF StartRoots
<1>. QED BY <1>4, <1>6, <1>8 DEF ScanRoots

LEMMA FollowDoes ==
  ASSUME BootTyped, NEW f \in ScanFiles, NEW s \in scanTasks[f].todo, Follow(f, s), ~bootDoc'.lost
  PROVE  /\ \/ \* a package, or nothing
               /\ s \in ScanPackages \/ ~Resolves(s)
               /\ scanWalk'.seen = scanWalk.seen /\ scanWalk'.queue = scanWalk.queue
               /\ scanWalk'.external = scanWalk.external \cup {s}
            \/ \* a module to be scanned
               /\ s \in ScanFiles /\ s \notin ScanPackages /\ Resolves(s)
               /\ scanWalk'.seen = scanWalk.seen \cup {s} /\ scanWalk'.queue = scanWalk.queue \cup {s}
               /\ scanWalk'.external = scanWalk.external
            \/ \* one that was seen
               /\ s \in scanWalk.seen /\ s \notin ScanPackages /\ scanWalk' = scanWalk
         /\ \A g \in ScanFiles : g # f => scanTasks'[g] = scanTasks[g]
         /\ scanTasks[f].at = "following" /\ scanTasks'[f].at = "following"
         /\ scanTasks'[f].source = scanTasks[f].source /\ scanTasks'[f].todo = scanTasks[f].todo \ {s}
<1>1. s \in ScanNames /\ bootDoc \in BootDocument
  BY DEF BootTyped, BootDocument
<1>2. scanWalk' = Followed(scanWalk, s)
  BY DEF Follow
<1>3. bootDoc'.lost = (bootDoc.lost \/ (s \in ScanFiles /\ Resolves(s) /\ s \notin scanWalk'.seen))
  BY <1>1 DEF Follow, BootDocument
<1>4. s \in ScanFiles /\ Resolves(s) => s \in scanWalk'.seen
  BY <1>3
<1>5. /\ \A g \in ScanFiles : g # f => scanTasks'[g] = scanTasks[g]
      /\ scanTasks[f].at = "following" /\ scanTasks'[f].at = "following"
      /\ scanTasks'[f].source = scanTasks[f].source /\ scanTasks'[f].todo = scanTasks[f].todo \ {s}
  BY DEF Follow, BootTyped
<1>6. CASE s \in ScanPackages \/ ~Resolves(s)
  <2>1. scanWalk' = [scanWalk EXCEPT !.external = @ \cup {s}]
    BY <1>2, <1>6 DEF Followed
  <2>2. scanWalk'.seen = scanWalk.seen /\ scanWalk'.queue = scanWalk.queue
        /\ scanWalk'.external = scanWalk.external \cup {s}
    BY <2>1 DEF BootTyped
  <2>. QED BY <1>5, <1>6, <2>2
<1>7. CASE ~(s \in ScanPackages \/ ~Resolves(s))
  <2>1. s \in ScanFiles
    BY <1>1, <1>7 DEF ScanNames
  <2>2. scanWalk' = [scanWalk EXCEPT !.seen = @ \cup {s}, !.queue = @ \cup {s}] \/ scanWalk' = scanWalk
    BY <1>2, <1>7 DEF Followed
  <2>3. CASE scanWalk' = [scanWalk EXCEPT !.seen = @ \cup {s}, !.queue = @ \cup {s}]
    <3>1. scanWalk'.seen = scanWalk.seen \cup {s} /\ scanWalk'.queue = scanWalk.queue \cup {s}
          /\ scanWalk'.external = scanWalk.external
      BY <2>3 DEF BootTyped
    <3>. QED BY <1>5, <1>7, <2>1, <3>1
  <2>4. CASE scanWalk' = scanWalk
    <3>1. s \in scanWalk.seen
      BY <1>4, <1>7, <2>1, <2>4
    <3>. QED BY <1>5, <1>7, <2>4, <3>1
  <2>. QED BY <2>2, <2>3, <2>4
<1>. QED BY <1>6, <1>7

LEMMA WalkStartsStep ==
  ASSUME BootTyped, WalkStarts, [ScanNext]_scanVars, ~bootDoc'.lost
  PROVE  WalkStarts'
<1>0. ~bootDoc.lost /\ scanDisk' = scanDisk /\ StartRoots' = StartRoots /\ bootDoc \in BootDocument
  BY NothingLost, SameDisk DEF BootTyped, BootDocument
<1>1. CASE ScanRoots
  BY <1>0, <1>1, RootsWalk DEF WalkStarts, BootTyped
<1>2. CASE NextBatch
  BY <1>0, <1>2 DEF NextBatch, WalkStarts, BootTyped
<1>3. CASE BootInstall
  BY <1>0, <1>3 DEF BootInstall, WalkEnds, WalkStarts, BootDocument
<1>4. CASE WalkRests
  BY <1>0, <1>4 DEF WalkRests, WalkStarts, Walking, NotScanning
<1>5. ASSUME NEW f \in ScanFiles, scanTasks[f].at # "none",
             UNCHANGED <<scanWalk>>, bootDoc'.at = bootDoc.at
      PROVE  WalkStarts'
  BY <1>0, <1>5 DEF WalkStarts, NotScanning
<1>6. ASSUME NEW f \in ScanFiles, ScanRead(f) \/ ScanTransforms(f) \/ AllFollowed(f)
      PROVE  WalkStarts'
  BY <1>5, <1>6 DEF ScanRead, ScanTransforms, AllFollowed
<1>7. ASSUME NEW f \in ScanFiles, ScanFails(f) PROVE WalkStarts'
  BY <1>5, <1>7, FaultTyped DEF ScanFails
<1>8. ASSUME NEW f \in ScanFiles, NEW s \in scanTasks[f].todo, Follow(f, s) PROVE WalkStarts'
  <2>1. bootDoc'.at = bootDoc.at /\ bootDoc.at = "scan"
    BY <1>0, <1>8 DEF Follow, BootDocument, WalkStarts, NotScanning, BootStages
  <2>2. scanWalk.seen \subseteq scanWalk'.seen
    BY <1>8, FollowDoes
  <2>. QED BY <1>0, <2>1, <2>2 DEF WalkStarts
<1>. QED BY <1>1, <1>2, <1>3, <1>4, <1>6, <1>7, <1>8, WalkCases

LEMMA WalkFollowsStep ==
  ASSUME BootTyped, WalkStarts, WalkFollows, [ScanNext]_scanVars, ~bootDoc'.lost
  PROVE  WalkFollows'
<1>0. /\ ~bootDoc.lost /\ scanDisk' = scanDisk
      /\ \A f : NeedsOf(f)' = NeedsOf(f) /\ (Resolves(f)' <=> Resolves(f))
  BY NothingLost, SameDisk
<1>1. CASE ScanRoots
  <2>1. /\ scanWalk'.seen = StartRoots /\ scanWalk'.queue = StartRoots
        /\ scanTasks' = scanTasks /\ NotScanning(scanTasks)
    BY <1>0, <1>1, RootsWalk DEF WalkStarts, BootTyped
  <2>. QED BY <2>1 DEF WalkFollows, NotScanning
<1>2. CASE NextBatch
  <2>1. /\ scanWalk'.seen = scanWalk.seen /\ scanWalk'.queue = {} /\ scanWalk'.external = scanWalk.external
        /\ NotScanning(scanTasks) /\ scanWalk.queue \subseteq ScanFiles /\ scanWalk.seen \subseteq ScanFiles
    BY <1>2 DEF NextBatch, BootTyped
  <2>2. \A f \in ScanFiles : scanTasks'[f].at = IF f \in scanWalk.queue THEN "reading" ELSE "none"
    BY <1>2, BootParts DEF NextBatch
  <2>3. \A s : Passed(s)' <=> Passed(s)
    BY <1>0, <2>1 DEF Passed
  <2>. QED BY <1>0, <2>1, <2>2, <2>3 DEF WalkFollows, NotScanning
<1>3. ASSUME UNCHANGED <<scanWalk, scanTasks>> PROVE WalkFollows'
  <2>1. \A s : Passed(s)' <=> Passed(s)
    BY <1>0, <1>3 DEF Passed
  <2>. QED BY <1>0, <1>3, <2>1 DEF WalkFollows
<1>4. ASSUME NEW f \in ScanFiles, UNCHANGED scanWalk, scanTasks[f].at # "none",
             \A g \in ScanFiles : g # f => scanTasks'[g] = scanTasks[g],
             scanTasks'[f].at \in {"transforming", "following"} =>
                  scanTasks'[f].source = scanDisk[f] /\ Resolves(f),
             scanTasks'[f].at = "following" => scanTasks'[f].todo = NeedsOf(f),
             scanTasks'[f].at = "none" /\ Resolves(f) => \A s \in NeedsOf(f) : Passed(s)
      PROVE  WalkFollows'
  <2>1. \A s : Passed(s)' <=> Passed(s)
    BY <1>0, <1>4 DEF Passed
  <2>2. scanWalk.seen \subseteq ScanFiles /\ f \in scanWalk.seen
    BY <1>4 DEF BootTyped, WalkFollows
  <2>3. scanWalk'.queue \subseteq scanWalk'.seen
    BY <1>4 DEF WalkFollows
  <2>4. ASSUME NEW g \in ScanFiles
        PROVE  /\ scanTasks'[g].at # "none" => g \in scanWalk'.seen
               /\ scanTasks'[g].at \in {"transforming", "following"} =>
                    scanTasks'[g].source = scanDisk'[g] /\ Resolves(g)'
               /\ scanTasks'[g].at = "following" =>
                    /\ scanTasks'[g].todo \subseteq NeedsOf(g)'
                    /\ \A s \in NeedsOf(g)' \ scanTasks'[g].todo : Passed(s)'
    <3>1. CASE g = f
      BY <1>0, <1>4, <2>2, <3>1
    <3>2. CASE g # f
      BY <1>0, <1>4, <2>1, <3>2 DEF WalkFollows
    <3>. QED BY <3>1, <3>2
  <2>5. ASSUME NEW g \in scanWalk'.seen
        PROVE  g \in scanWalk'.queue \/ scanTasks'[g].at # "none"
               \/ (Resolves(g)' => \A s \in NeedsOf(g)' : Passed(s)')
    <3>1. CASE g = f
      BY <1>0, <1>4, <2>1, <3>1
    <3>2. CASE g # f
      BY <1>0, <1>4, <2>1, <2>2, <3>2 DEF WalkFollows
    <3>. QED BY <3>1, <3>2
  <2>. QED BY <2>3, <2>4, <2>5 DEF WalkFollows
<1>5. ASSUME NEW f \in ScanFiles, ScanRead(f) PROVE WalkFollows'
  <2>1. /\ \A g \in ScanFiles : g # f => scanTasks'[g] = scanTasks[g]
        /\ scanTasks'[f].source = scanDisk[f] /\ Resolves(f) /\ UNCHANGED scanWalk
        /\ scanTasks'[f].at \in {"transforming", "following"} /\ scanTasks[f].at # "none"
        /\ scanTasks'[f].at = "following" => scanTasks'[f].todo = NeedsOf(f)
    BY <1>5 DEF ScanRead, BootTyped, NeedsOf
  <2>. QED BY <1>4, <2>1
<1>6. ASSUME NEW f \in ScanFiles, ScanTransforms(f) PROVE WalkFollows'
  <2>1. scanTasks[f].source = scanDisk[f] /\ Resolves(f) /\ scanTasks[f].at # "none"
    BY <1>6 DEF ScanTransforms, WalkFollows
  <2>2. /\ \A g \in ScanFiles : g # f => scanTasks'[g] = scanTasks[g]
        /\ scanTasks'[f].at = "following" /\ scanTasks'[f].source = scanTasks[f].source
        /\ scanTasks'[f].todo = DependenciesOf(scanTasks[f].source) /\ UNCHANGED scanWalk
    BY <1>6 DEF ScanTransforms, BootTyped
  <2>. QED BY <1>4, <2>1, <2>2 DEF NeedsOf
<1>7. ASSUME NEW f \in ScanFiles, ScanFails(f) PROVE WalkFollows'
  <2>1. bootDoc' # ScanFault
    BY FaultTyped
  <2>2. scanTasks[f].at = "reading" /\ ~Resolves(f) /\ UNCHANGED scanWalk
        /\ scanTasks' = [scanTasks EXCEPT ![f] = Resting]
    BY <1>7, <2>1 DEF ScanFails
  <2>3. /\ \A g \in ScanFiles : g # f => scanTasks'[g] = scanTasks[g]
        /\ scanTasks'[f].at = "none"
    BY <2>2, BootParts DEF BootTyped
  <2>. QED BY <1>4, <2>2, <2>3
<1>8. ASSUME NEW f \in ScanFiles, AllFollowed(f) PROVE WalkFollows'
  <2>1. \A s \in NeedsOf(f) : Passed(s)
    BY <1>8 DEF AllFollowed, WalkFollows
  <2>2. /\ \A g \in ScanFiles : g # f => scanTasks'[g] = scanTasks[g]
        /\ scanTasks'[f].at = "none" /\ scanTasks[f].at # "none" /\ UNCHANGED scanWalk
    BY <1>8, BootParts DEF AllFollowed, BootTyped
  <2>. QED BY <1>4, <2>1, <2>2
<1>9. ASSUME NEW f \in ScanFiles, NEW s \in scanTasks[f].todo, Follow(f, s) PROVE WalkFollows'
  <2>1. /\ \A g \in ScanFiles : g # f => scanTasks'[g] = scanTasks[g]
        /\ scanTasks[f].at = "following" /\ scanTasks'[f].at = "following"
        /\ scanTasks'[f].source = scanTasks[f].source /\ scanTasks'[f].todo = scanTasks[f].todo \ {s}
    BY <1>9, FollowDoes
  <2>2. /\ scanWalk.seen \subseteq scanWalk'.seen
        /\ \A x \in scanWalk'.seen : x \in scanWalk.seen \/ x \in scanWalk'.queue
        /\ scanWalk.queue \subseteq scanWalk'.queue
        /\ \A x \in scanWalk'.queue : x \in scanWalk.queue \/ x \in scanWalk'.seen
        /\ scanWalk.external \subseteq scanWalk'.external
        /\ s \in ScanPackages => s \in scanWalk'.external
        /\ s \notin ScanPackages /\ Resolves(s) => s \in scanWalk'.seen
    <3>. QED BY <1>9, FollowDoes
  <2>3. Passed(s)' /\ \A x : Passed(x) => Passed(x)'
    BY <1>0, <2>2 DEF Passed
  <2>4. scanWalk'.queue \subseteq scanWalk'.seen
    BY <2>2 DEF WalkFollows
  <2>5. ASSUME NEW g \in ScanFiles
        PROVE  /\ scanTasks'[g].at # "none" => g \in scanWalk'.seen
               /\ scanTasks'[g].at \in {"transforming", "following"} =>
                    scanTasks'[g].source = scanDisk'[g] /\ Resolves(g)'
               /\ scanTasks'[g].at = "following" =>
                    /\ scanTasks'[g].todo \subseteq NeedsOf(g)'
                    /\ \A x \in NeedsOf(g)' \ scanTasks'[g].todo : Passed(x)'
    <3>1. CASE g = f
      <4>1. scanTasks[g].source = scanDisk[g] /\ Resolves(g) /\ g \in scanWalk.seen
            /\ scanTasks[g].todo \subseteq NeedsOf(g)
            /\ \A x \in NeedsOf(g) \ scanTasks[g].todo : Passed(x)
        BY <2>1, <3>1 DEF WalkFollows
      <4>2. \A x \in NeedsOf(g) \ scanTasks'[g].todo : Passed(x)'
        BY <2>1, <2>3, <3>1, <4>1
      <4>. QED BY <1>0, <2>1, <2>2, <3>1, <4>1, <4>2
    <3>2. CASE g # f
      BY <1>0, <2>1, <2>2, <2>3, <3>2 DEF WalkFollows
    <3>. QED BY <3>1, <3>2
  <2>6. ASSUME NEW g \in scanWalk'.seen
        PROVE  g \in scanWalk'.queue \/ scanTasks'[g].at # "none"
               \/ (Resolves(g)' => \A x \in NeedsOf(g)' : Passed(x)')
    <3>0. scanWalk.seen \subseteq ScanFiles
      BY DEF BootTyped
    <3>1. CASE g = f
      BY <2>1, <3>1
    <3>2. CASE g # f
      BY <1>0, <2>1, <2>2, <2>3, <3>0, <3>2 DEF WalkFollows
    <3>. QED BY <3>1, <3>2
  <2>. QED BY <2>4, <2>5, <2>6 DEF WalkFollows
<1>10. CASE BootInstall
  BY <1>3, <1>10 DEF BootInstall
<1>11. CASE WalkRests
  BY <1>3, <1>11 DEF WalkRests
<1>. QED BY <1>1, <1>2, <1>5, <1>6, <1>7, <1>8, <1>9, <1>10, <1>11, WalkCases

LEMMA WalkFindsStep ==
  ASSUME BootTyped, WalkStarts, WalkFollows, WalkFinds, [ScanNext]_scanVars, ~bootDoc'.lost
  PROVE  WalkFinds'
<1>0. /\ ~bootDoc.lost /\ scanDisk' = scanDisk
      /\ \A f : NeedsOf(f)' = NeedsOf(f) /\ (Resolves(f)' <=> Resolves(f))
      /\ \A P : ClosedUnder(P)' <=> ClosedUnder(P)
  BY NothingLost, SameDisk
<1>1. CASE ScanRoots
  <2>1. scanWalk'.seen = StartRoots /\ scanWalk'.external = {}
    BY <1>0, <1>1, RootsWalk DEF WalkStarts, BootTyped
  <2>2. \A P \in SUBSET ScanFiles : ClosedUnder(P) => StartRoots \subseteq P
    BY DEF ClosedUnder
  <2>. QED BY <1>0, <2>1, <2>2 DEF WalkFinds
<1>2. ASSUME scanWalk'.seen = scanWalk.seen, scanWalk'.external = scanWalk.external PROVE WalkFinds'
  BY <1>0, <1>2 DEF WalkFinds
<1>3. CASE NextBatch
  BY <1>2, <1>3 DEF NextBatch, BootTyped
<1>4. ASSUME NEW f \in ScanFiles, ScanRead(f) \/ ScanTransforms(f) \/ ScanFails(f) \/ AllFollowed(f)
      PROVE  WalkFinds'
  BY <1>2, <1>4 DEF ScanRead, ScanTransforms, ScanFails, AllFollowed
<1>5. CASE BootInstall \/ WalkRests
  BY <1>2, <1>5 DEF BootInstall, WalkRests
<1>6. ASSUME NEW f \in ScanFiles, NEW s \in scanTasks[f].todo, Follow(f, s) PROVE WalkFinds'
  <2>1. scanTasks[f].at = "following"
    BY <1>6, FollowDoes
  <2>2. f \in scanWalk.seen /\ Resolves(f) /\ s \in NeedsOf(f)
    BY <2>1 DEF WalkFollows
  <2>3. /\ scanWalk.seen \subseteq scanWalk'.seen
        /\ \A x \in scanWalk'.external : x \in scanWalk.external \/ x = s
        /\ \A x \in scanWalk'.seen : x \in scanWalk.seen \/ (x = s /\ x \in ScanFiles /\ Resolves(x))
    BY <1>6, FollowDoes
  <2>4. ASSUME NEW x \in scanWalk'.external \cap ScanPackages
        PROVE  \E g \in scanWalk'.seen : Resolves(g)' /\ x \in NeedsOf(g)'
    <3>1. CASE x = s
      BY <1>0, <2>2, <2>3, <3>1
    <3>2. CASE x \in scanWalk.external
      BY <1>0, <2>3, <3>2 DEF WalkFinds
    <3>. QED BY <2>3, <3>1, <3>2
  <2>5. ASSUME NEW P \in SUBSET ScanFiles, ClosedUnder(P) PROVE scanWalk'.seen \subseteq P
    <3>1. scanWalk.seen \subseteq P
      BY <2>5 DEF WalkFinds
    <3>2. s \in ScanFiles /\ Resolves(s) => s \in P
      BY <2>2, <2>5, <3>1 DEF ClosedUnder
    <3>. QED BY <2>3, <3>1, <3>2
  <2>. QED BY <1>0, <2>4, <2>5 DEF WalkFinds
<1>. QED BY <1>1, <1>3, <1>4, <1>5, <1>6, WalkCases

-----------------------------------------------------------------------------
(* What a step does to the document *)

RootsLeft == Range(bootDoc.roots)

LEMMA RootsParts ==
  /\ Range(<<>>) = {}
  /\ \A s \in Seq(ScanFiles) : s # <<>> =>
       /\ Head(s) \in ScanFiles /\ Head(s) \in Range(s) /\ Tail(s) \in Seq(ScanFiles)
       /\ Range(s) = {Head(s)} \cup Range(Tail(s))
  /\ \A S \in SUBSET ScanFiles : Range(SetToSeq(S)) = S
<1>1. Range(<<>>) = {}
  BY DEF Range
<1>2. ASSUME NEW s \in Seq(ScanFiles), s # <<>>
      PROVE  /\ Head(s) \in ScanFiles /\ Head(s) \in Range(s) /\ Tail(s) \in Seq(ScanFiles)
             /\ Range(s) = {Head(s)} \cup Range(Tail(s))
  <2>1. /\ Len(s) \in Nat /\ Len(s) > 0 /\ Head(s) = s[1] /\ Tail(s) \in Seq(ScanFiles)
        /\ Len(Tail(s)) = Len(s) - 1 /\ DOMAIN s = 1 .. Len(s) /\ DOMAIN Tail(s) = 1 .. Len(s) - 1
        /\ \A i \in 1 .. Len(s) - 1 : Tail(s)[i] = s[i + 1]
        /\ \A i \in 1 .. Len(s) : s[i] \in ScanFiles
    BY <1>2
  <2>2. Range(s) \subseteq {Head(s)} \cup Range(Tail(s))
    <3> SUFFICES ASSUME NEW i \in 1 .. Len(s) PROVE s[i] = Head(s) \/ s[i] \in Range(Tail(s))
      BY <2>1 DEF Range
    <3>1. i = 1 \/ (i - 1 \in 1 .. Len(s) - 1 /\ Tail(s)[i - 1] = s[i])
      BY <2>1
    <3>. QED BY <2>1, <3>1 DEF Range
  <2>3. Head(s) \in Range(s)
    BY <2>1 DEF Range
  <2>4. Range(Tail(s)) \subseteq Range(s)
    <3> SUFFICES ASSUME NEW i \in 1 .. Len(s) - 1 PROVE Tail(s)[i] \in Range(s)
      BY <2>1 DEF Range
    <3>1. i + 1 \in 1 .. Len(s) /\ Tail(s)[i] = s[i + 1]
      BY <2>1
    <3>. QED BY <2>1, <3>1 DEF Range
  <2>. QED BY <2>1, <2>2, <2>3, <2>4
<1>3. ASSUME NEW S \in SUBSET ScanFiles PROVE Range(SetToSeq(S)) = S
  <2>1. IsFiniteSet(S)
    BY FS_Subset, ScanAssumption
  <2>2. /\ SetToSeq(S) \in Seq(S)
        /\ \A x \in S : \E i \in 1 .. Len(SetToSeq(S)) : SetToSeq(S)[i] = x
    BY <2>1, SequenceOf
  <2>. QED BY <2>2 DEF Range
<1>. QED BY <1>1, <1>2, <1>3

AsksNothing ==
  /\ bootDoc'.installed = bootDoc.installed /\ bootDoc'.demanded = bootDoc.demanded
  /\ bootDoc'.effects = bootDoc.effects
Entered(f) == bootTasks[f].at # "none" \/ bootMods[f].code # NoSource

DocRests ==
  /\ bootDoc'.at = bootDoc.at /\ bootDoc'.roots = bootDoc.roots /\ bootDoc'.entry = bootDoc.entry
  /\ AsksNothing
DocLinks ==
  /\ bootDoc'.at = bootDoc.at /\ bootDoc'.roots = bootDoc.roots /\ bootDoc'.entry = bootDoc.entry
  /\ \E f \in ScanFiles : \E names \in SUBSET bootTasks[f].todo :
       /\ bootTasks[f].at = "linking"
       /\ bootDoc'.installed = bootDoc.installed \cup (names \cap ScanDeclared)
       /\ bootDoc'.demanded = bootDoc.demanded \cup ((names \cap ScanDeclared) \ bootDoc.installed)
       /\ bootDoc'.effects = bootDoc.effects
DocScans ==
  /\ bootDoc.at = "roots" /\ bootDoc'.at = "scan"
  /\ bootDoc'.roots = bootDoc.roots /\ bootDoc'.entry = bootDoc.entry /\ AsksNothing
DocInstalls ==
  /\ bootDoc.at = "scan" /\ bootDoc'.at = "runtimes" /\ scanWalk' = scanWalk
  /\ bootDoc'.roots = ScanRuntimes /\ bootDoc'.entry = bootDoc.entry
  /\ bootDoc'.installed = scanWalk.external \cap ScanDeclared
  /\ bootDoc'.demanded = bootDoc.demanded /\ bootDoc'.effects = bootDoc.effects
DocBegins ==
  /\ bootDoc.roots # <<>> /\ bootDoc'.roots = bootDoc.roots /\ bootDoc'.entry = bootDoc.entry
  /\ AsksNothing /\ Entered(Head(bootDoc.roots))'
  /\ \/ bootDoc.at = "runtimes" /\ bootDoc'.at = "runtime"
     \/ bootDoc.at = "entry" /\ bootDoc'.at = "app"
     \/ bootDoc.at = "effects" /\ bootDoc'.at = "effect"
DocEnds ==
  /\ bootDoc'.roots = Tail(bootDoc.roots) /\ bootDoc'.entry = bootDoc.entry /\ AsksNothing
  /\ \/ bootDoc.at = "runtime" /\ bootDoc'.at = "runtimes"
     \/ bootDoc.at = "app" /\ bootDoc'.at = "entry"
     \/ bootDoc.at = "effect" /\ bootDoc'.at = "effects"
  /\ bootMods' = bootMods
  /\ \/ \A f \in Visited(Head(bootDoc.roots)) : bootMods[f].code # NoSource
     \/ bootDoc.at = "effect" /\ \E f \in Visited(Head(bootDoc.roots)) : ~Entered(f)
DocFails ==
  /\ ~Walking(bootDoc.at) /\ bootDoc'.at = "failed" /\ bootDoc'.roots = <<>> /\ AsksNothing
DocEnters ==
  /\ bootDoc.at = "runtimes" /\ bootDoc'.at = "entry" /\ bootDoc.roots = <<>>
  /\ bootDoc'.entry = FirstThere(ScanEntries) /\ bootDoc'.roots = SetToSeq(FirstThere(ScanEntries))
  /\ AsksNothing
DocShims ==
  /\ bootDoc.at = "entry" /\ bootDoc'.at = "effects" /\ bootDoc.roots = <<>>
  /\ bootDoc'.entry = bootDoc.entry
  /\ \/ /\ bootDoc'.roots = SetToSeq(ShimModules(bootDoc.entry))
        /\ bootDoc'.effects = ShimImports(bootDoc.entry) \cap ScanDeclared
        /\ bootDoc'.installed = bootDoc.installed \cup bootDoc'.effects
        /\ bootDoc'.demanded = bootDoc.demanded \cup (bootDoc'.effects \ bootDoc.installed)
     \/ bootDoc'.faults # 0 /\ bootDoc'.roots = bootDoc.roots /\ AsksNothing
DocDone ==
  /\ bootDoc.at = "effects" /\ bootDoc'.at = "done" /\ bootDoc.roots = <<>>
  /\ bootDoc'.roots = bootDoc.roots /\ bootDoc'.entry = bootDoc.entry /\ AsksNothing

DocMoved ==
  /\ bootDoc.faults \in Nat /\ (bootDoc'.faults = 0 => bootDoc.faults = 0)
  /\ \/ DocRests \/ DocLinks \/ DocScans \/ DocInstalls \/ DocBegins \/ DocEnds \/ DocFails
     \/ DocEnters \/ DocShims \/ DocDone

LEMMA DocMoves == BootTyped /\ [ScanNext]_scanVars => DocMoved
<1> SUFFICES ASSUME BootTyped, [ScanNext]_scanVars PROVE DocMoved
  OBVIOUS
<1>0. /\ bootDoc \in BootDocument /\ bootTasks \in [ScanFiles -> BootTask]
      /\ ScanDeclared \subseteq ScanPackages
  BY ScanAssumption DEF BootTyped, BootDocument, BootTask
<1>a. ASSUME NEW doc \in {bootDoc, Fault, ScanFault}
      PROVE  /\ doc \in BootDocument
             /\ doc.at = bootDoc.at /\ doc.roots = bootDoc.roots /\ doc.entry = bootDoc.entry
             /\ doc.installed = bootDoc.installed /\ doc.demanded = bootDoc.demanded
             /\ doc.effects = bootDoc.effects
             /\ doc.faults = 0 => bootDoc.faults = 0
  <2>1. CASE doc = bootDoc
    BY <1>0, <2>1
  <2>2. /\ Fault.at = bootDoc.at /\ Fault.roots = bootDoc.roots /\ Fault.entry = bootDoc.entry
        /\ Fault.installed = bootDoc.installed /\ Fault.demanded = bootDoc.demanded
        /\ Fault.effects = bootDoc.effects /\ (Fault.faults = 0 => bootDoc.faults = 0)
        /\ Fault \in BootDocument
    <3>1. bootDoc.faults \in Nat
      BY <1>0 DEF BootDocument
    <3>2. Fault.faults = bootDoc.faults + 1
      BY <1>0 DEF Fault, BootDocument
    <3>3. Fault.faults # 0
      BY <3>1, <3>2
    <3>4. /\ Fault.entry = bootDoc.entry /\ Fault.installed = bootDoc.installed
          /\ Fault.demanded = bootDoc.demanded /\ Fault.effects = bootDoc.effects
      BY <1>0 DEF Fault, BootDocument
    <3>. QED BY <3>3, <3>4, FaultTyped
  <2>3. CASE doc = Fault
    BY <2>2, <2>3
  <2>4. CASE doc = ScanFault
    <3>1. /\ ScanFault.at = Fault.at /\ ScanFault.roots = Fault.roots /\ ScanFault.entry = Fault.entry
          /\ ScanFault.installed = Fault.installed /\ ScanFault.demanded = Fault.demanded
          /\ ScanFault.effects = Fault.effects /\ ScanFault.faults = Fault.faults
      BY <2>2 DEF ScanFault, BootDocument
    <3>. QED BY <2>2, <2>4, <3>1, FaultTyped
  <2>. QED BY <2>1, <2>3, <2>4
<1>b. ASSUME bootDoc' \in {bootDoc, Fault, ScanFault} PROVE DocMoved
  <2>1. DocRests /\ (bootDoc'.faults = 0 => bootDoc.faults = 0)
    BY <1>a, <1>b DEF DocRests, AsksNothing
  <2>. QED BY <1>0, <2>1 DEF DocMoved, BootDocument
<1>c. bootDoc.faults \in Nat
  BY <1>0 DEF BootDocument
<1>1. CASE ScanRoots
  <2>1. PICK doc \in {bootDoc, ScanFault}, more \in BOOLEAN : bootDoc' = [doc EXCEPT !.at = "scan", !.lost = doc.lost \/ more]
    BY <1>1 DEF ScanRoots
  <2>2. /\ bootDoc'.at = "scan" /\ bootDoc'.roots = doc.roots /\ bootDoc'.entry = doc.entry
        /\ bootDoc'.installed = doc.installed /\ bootDoc'.demanded = doc.demanded
        /\ bootDoc'.effects = doc.effects /\ bootDoc'.faults = doc.faults
    BY <1>a, <2>1 DEF BootDocument
  <2>3. DocScans /\ (bootDoc'.faults = 0 => bootDoc.faults = 0)
    BY <1>1, <1>a, <2>2 DEF ScanRoots, DocScans, AsksNothing
  <2>. QED BY <1>c, <2>3 DEF DocMoved
<1>2. CASE NextBatch
  BY <1>b, <1>2 DEF NextBatch
<1>3. CASE BootInstall
  <2>1. DocInstalls /\ bootDoc'.faults = bootDoc.faults
    BY <1>0, <1>3 DEF BootInstall, DocInstalls, BootDocument
  <2>. QED BY <1>c, <2>1 DEF DocMoved
<1>4. CASE NextRoot
  <2>1. PICK next \in BootStages :
          /\ bootDoc' = [bootDoc EXCEPT !.at = next]
          /\ \/ bootDoc.at = "runtimes" /\ next = "runtime"
             \/ bootDoc.at = "entry" /\ next = "app"
             \/ bootDoc.at = "effects" /\ next = "effect"
    BY <1>4 DEF NextRoot, BootStages
  <2>2. /\ bootDoc'.at = next /\ bootDoc'.roots = bootDoc.roots /\ bootDoc'.entry = bootDoc.entry
        /\ AsksNothing /\ bootDoc'.faults = bootDoc.faults
    BY <1>0, <2>1 DEF AsksNothing, BootDocument
  <2>3. bootDoc.roots # <<>> /\ Head(bootDoc.roots) \in ScanFiles
    BY <1>0, <1>4, RootsParts DEF NextRoot, BootDocument
  <2>4. Entered(Head(bootDoc.roots))'
    <3> DEFINE h == Head(bootDoc.roots)
    <3>1. /\ bootTasks' = Enqueued(bootTasks, {h}) /\ bootMods' = bootMods
      BY <1>4 DEF NextRoot
    <3>2. bootTasks'[h].at # "none" \/ bootMods[h].code # NoSource
      <4>1. h \in ScanFiles /\ h \in {h}
        BY <2>3
      <4> HIDE DEF h
      <4>2. \/ /\ Enqueued(bootTasks, {h})[h] = bootTasks[h]
               /\ bootTasks[h].at # "none" \/ bootMods[h].code # NoSource
            \/ Enqueued(bootTasks, {h})[h].at = "reading"
        BY <1>0, <4>1, EnqueuedMoves
      <4>. QED BY <3>1, <4>2
    <3>3. Head(bootDoc'.roots) = h
      BY <2>2
    <3>. QED BY <3>1, <3>2, <3>3 DEF Entered
  <2>5. DocBegins
    BY <2>1, <2>2, <2>3, <2>4 DEF DocBegins
  <2>. QED BY <1>c, <2>2, <2>5 DEF DocMoved
<1>5. CASE RootEnds
  <2>0. bootDoc.at \in {"runtime", "app", "effect"} /\ bootMods' = bootMods
    BY <1>5 DEF RootEnds, Stage
  <2>1. CASE /\ \A f \in Visited(Head(bootDoc.roots)) : bootTasks[f].at = "none" /\ bootMods[f].code # NoSource
             /\ bootDoc' = [bootDoc EXCEPT !.at = Stage[@], !.roots = Tail(@)]
    <3>1. PICK next \in BootStages :
            /\ next = Stage[bootDoc.at]
            /\ \/ bootDoc.at = "runtime" /\ next = "runtimes"
               \/ bootDoc.at = "app" /\ next = "entry"
               \/ bootDoc.at = "effect" /\ next = "effects"
      BY <2>0 DEF Stage, BootStages
    <3>2. bootDoc' = [bootDoc EXCEPT !.at = next, !.roots = Tail(bootDoc.roots)]
      BY <2>1, <3>1
    <3>3. /\ bootDoc'.at = next /\ bootDoc'.roots = Tail(bootDoc.roots)
          /\ bootDoc'.entry = bootDoc.entry /\ AsksNothing /\ bootDoc'.faults = bootDoc.faults
      BY <1>0, <3>2 DEF AsksNothing, BootDocument
    <3>4. DocEnds
      BY <2>0, <2>1, <3>1, <3>3 DEF DocEnds
    <3>. QED BY <1>c, <3>3, <3>4 DEF DocMoved
  <2>2. CASE /\ \E f \in Visited(Head(bootDoc.roots)) : bootTasks[f].at = "none" /\ bootMods[f].code = NoSource
             /\ bootDoc.at = "effect"
             /\ bootDoc' = [bootDoc EXCEPT !.at = "effects", !.roots = Tail(@)]
    <3>1. /\ bootDoc'.at = "effects" /\ bootDoc'.roots = Tail(bootDoc.roots)
          /\ bootDoc'.entry = bootDoc.entry /\ AsksNothing /\ bootDoc'.faults = bootDoc.faults
      BY <1>0, <2>2 DEF AsksNothing, BootDocument
    <3>2. \E f \in Visited(Head(bootDoc.roots)) : ~Entered(f)
      BY <2>2 DEF Entered
    <3>3. DocEnds
      BY <2>0, <2>2, <3>1, <3>2 DEF DocEnds
    <3>. QED BY <1>c, <3>1, <3>3 DEF DocMoved
  <2>3. CASE bootDoc' = [bootDoc EXCEPT !.at = "failed", !.roots = <<>>]
    <3>1. DocFails /\ bootDoc'.faults = bootDoc.faults
      BY <1>0, <2>0, <2>3 DEF DocFails, Walking, AsksNothing, BootDocument
    <3>. QED BY <1>c, <3>1 DEF DocMoved
  <2>. QED BY <1>5, <2>1, <2>2, <2>3 DEF RootEnds
<1>6. CASE NextStage
  <2>1. CASE bootDoc.at = "runtimes"
    <3> DEFINE first == FirstThere(ScanEntries)
               order == SetToSeq(first)
    <3>1. bootDoc' = [bootDoc EXCEPT !.at = IF first = {} THEN "failed" ELSE "entry",
                                     !.entry = first, !.roots = order]
      BY <1>6, <2>1 DEF NextStage
    <3>2. bootDoc.roots = <<>>
      BY <1>6 DEF NextStage
    <3>3. first = {} => order = <<>>
      <4>1. SetToSeq({}) \in Seq({})
        BY SequenceOf, FS_EmptySet
      <4>2. ASSUME NEW s \in Seq({}) PROVE s = <<>>
        <5>1. Len(s) = 0 \/ s[1] \in {}
          OBVIOUS
        <5>. QED BY <5>1
      <4>. QED BY <4>1, <4>2
    <3> HIDE DEF first, order
    <3>4. /\ bootDoc'.at = IF first = {} THEN "failed" ELSE "entry"
          /\ bootDoc'.entry = first /\ bootDoc'.roots = order /\ AsksNothing
          /\ bootDoc'.faults = bootDoc.faults
      BY <1>0, <3>1 DEF AsksNothing, BootDocument
    <3>5. DocFails \/ DocEnters
      BY <2>1, <3>2, <3>3, <3>4 DEF DocFails, DocEnters, Walking, first, order
    <3>. QED BY <1>c, <3>4, <3>5 DEF DocMoved
  <2>2. CASE bootDoc.at = "entry"
    <3> DEFINE told == ShimImports(bootDoc.entry)
               order == SetToSeq(ShimModules(bootDoc.entry))
               more == told \cap ScanDeclared
    <3>0. bootDoc.roots = <<>>
      BY <1>6 DEF NextStage
    <3>1. CASE bootDoc' = [Demand(bootDoc, told \cap ScanPackages) EXCEPT
                             !.at = "effects", !.roots = order, !.effects = more]
      <4>1. told \cap ScanPackages \cap ScanDeclared = more
        BY <1>0
      <4> HIDE DEF told, order, more
      <4>2. Demand(bootDoc, told \cap ScanPackages) =
              [bootDoc EXCEPT !.installed = bootDoc.installed \cup more,
                              !.demanded = bootDoc.demanded \cup (more \ bootDoc.installed)]
        BY <4>1 DEF Demand
      <4>3. /\ bootDoc'.at = "effects" /\ bootDoc'.roots = order /\ bootDoc'.effects = more
            /\ bootDoc'.entry = bootDoc.entry /\ bootDoc'.faults = bootDoc.faults
            /\ bootDoc'.installed = bootDoc.installed \cup more
            /\ bootDoc'.demanded = bootDoc.demanded \cup (more \ bootDoc.installed)
        BY <1>0, <3>1, <4>2 DEF BootDocument
      <4>4. DocShims
        BY <2>2, <3>0, <4>3 DEF DocShims, told, order, more
      <4>. QED BY <1>c, <4>3, <4>4 DEF DocMoved
    <3>2. CASE bootDoc' = [Fault EXCEPT !.at = "effects"]
      <4>1. /\ bootDoc'.at = "effects" /\ bootDoc'.roots = bootDoc.roots
            /\ bootDoc'.entry = bootDoc.entry /\ bootDoc'.faults = Fault.faults /\ AsksNothing
        BY <1>a, <3>2 DEF AsksNothing, BootDocument
      <4>2. Fault.faults # 0
        BY <1>0 DEF Fault, BootDocument
      <4>3. DocShims
        BY <2>2, <3>0, <4>1, <4>2 DEF DocShims
      <4>. QED BY <1>c, <4>1, <4>2, <4>3 DEF DocMoved
    <3>. QED BY <1>6, <2>2, <3>1, <3>2 DEF NextStage
  <2>3. CASE bootDoc.at = "effects"
    <3>1. DocDone /\ bootDoc'.faults = bootDoc.faults
      BY <1>0, <1>6, <2>3 DEF NextStage, DocDone, AsksNothing, BootDocument
    <3>. QED BY <1>c, <3>1 DEF DocMoved
  <2>. QED BY <1>6, <2>1, <2>2, <2>3 DEF NextStage
<1>7. ASSUME NEW f \in ScanFiles, NEW source \in ScanSources[f], ScanEdit(f, source) PROVE DocMoved
  <2>1. DocRests /\ bootDoc'.faults = bootDoc.faults
    BY <1>0, <1>7 DEF ScanEdit, DocRests, AsksNothing, BootDocument
  <2>. QED BY <1>c, <2>1 DEF DocMoved
<1>8. ASSUME NEW f \in ScanFiles,
             ScanRead(f) \/ ScanTransforms(f) \/ AllFollowed(f) \/ BootRead(f) \/ BootTransforms(f)
             \/ BootLinked(f) \/ ScanFails(f) \/ BootFails(f)
      PROVE  DocMoved
  BY <1>b, <1>8 DEF ScanRead, ScanTransforms, AllFollowed, BootRead, BootTransforms, BootLinked,
     ScanFails, BootFails
<1>9. ASSUME NEW f \in ScanFiles, NEW s \in scanTasks[f].todo, Follow(f, s) PROVE DocMoved
  <2>1. PICK more : bootDoc' = [bootDoc EXCEPT !.lost = more]
    BY <1>9 DEF Follow
  <2>2. DocRests /\ bootDoc'.faults = bootDoc.faults
    BY <1>0, <2>1 DEF DocRests, AsksNothing, BootDocument
  <2>. QED BY <1>c, <2>2 DEF DocMoved
<1>10. ASSUME NEW f \in ScanFiles, NEW names \in SUBSET bootTasks[f].todo,
              bootTasks[f].at = "linking", bootDoc' = Demand(bootDoc, names \cap ScanPackages)
       PROVE  DocMoved
  <2>1. names \cap ScanPackages \cap ScanDeclared = names \cap ScanDeclared
    BY <1>0
  <2>2. bootDoc' = [bootDoc EXCEPT !.installed = bootDoc.installed \cup (names \cap ScanDeclared),
                      !.demanded = bootDoc.demanded \cup ((names \cap ScanDeclared) \ bootDoc.installed)]
    BY <1>10, <2>1 DEF Demand
  <2>3. /\ bootDoc'.at = bootDoc.at /\ bootDoc'.roots = bootDoc.roots /\ bootDoc'.entry = bootDoc.entry
        /\ bootDoc'.installed = bootDoc.installed \cup (names \cap ScanDeclared)
        /\ bootDoc'.demanded = bootDoc.demanded \cup ((names \cap ScanDeclared) \ bootDoc.installed)
        /\ bootDoc'.effects = bootDoc.effects /\ bootDoc'.faults = bootDoc.faults
    BY <1>0, <2>2 DEF BootDocument
  <2>4. DocLinks
    BY <1>10, <2>3 DEF DocLinks
  <2>. QED BY <1>c, <2>3, <2>4 DEF DocMoved
<1>12. ASSUME NEW f \in ScanFiles, NEW s \in bootTasks[f].todo, BootLink(f, s) PROVE DocMoved
  BY <1>10, <1>12 DEF BootLink
<1>13. ASSUME NEW f \in ScanFiles, LinkFails(f) PROVE DocMoved
  BY <1>10, <1>13 DEF LinkFails
<1>11. CASE UNCHANGED scanVars
  BY <1>b, <1>11 DEF scanVars
<1>. QED BY <1>1, <1>2, <1>3, <1>4, <1>5, <1>6, <1>7, <1>8, <1>9, <1>11, <1>12, <1>13
         DEF ScanNext

-----------------------------------------------------------------------------
(* What is asked for, and what is compiled *)

ShimRoots == ShimModules(FirstThere(ScanEntries))

\* What compile goes through is what the scan started at.
Rooted ==
  /\ bootDoc.at \in {"runtime", "app", "effect"} => bootDoc.roots # <<>>
  /\ bootDoc.at = "done" => bootDoc.roots = <<>>
  /\ RootsLeft \subseteq StartRoots
  /\ bootDoc.at \in {"effects", "effect"} => RootsLeft \subseteq ShimRoots
  /\ bootDoc.at \in {"entry", "app", "effects", "effect", "done"} => bootDoc.entry = FirstThere(ScanEntries)

\* What compile comes to has been seen by the scan, with what it needs.
Reached ==
  /\ Walking(bootDoc.at) => \A f \in ScanFiles : ~Entered(f)
  /\ \A f \in ScanFiles :
       /\ Entered(f) => f \in scanWalk.seen
       /\ bootTasks[f].at \in {"transforming", "linking"} =>
            bootTasks[f].source = scanDisk[f] /\ Resolves(f)
       /\ bootTasks[f].at = "linking" =>
            /\ bootTasks[f].todo \subseteq NeedsOf(f)
            /\ \A s \in NeedsOf(f) \ bootTasks[f].todo : Available(s)
       /\ bootMods[f].code # NoSource =>
            /\ bootMods[f].code = scanDisk[f] /\ Resolves(f)
            /\ \A s \in NeedsOf(f) : Available(s)

\* What is installed is what the scan found, and what the shim imports.
Asked ==
  /\ Walking(bootDoc.at) => bootDoc.installed = {} /\ bootDoc.demanded = {}
  /\ ~Walking(bootDoc.at) => scanWalk.external \cap ScanDeclared \subseteq bootDoc.installed
  /\ bootDoc.at \notin {"effects", "effect", "done", "failed"} => bootDoc.effects = {}
  /\ bootDoc.installed \ bootDoc.effects \subseteq scanWalk.external
  /\ bootDoc.demanded \subseteq bootDoc.effects

LEMMA Entering ==
  ASSUME BootTyped, [ScanNext]_scanVars, NEW g \in ScanFiles, ~Entered(g), Entered(g)'
  PROVE  \/ ~Walking(bootDoc.at) /\ bootDoc.roots # <<>> /\ g = Head(bootDoc.roots)
         \/ \E f \in ScanFiles : /\ bootTasks[f].at = "linking"
                                 /\ \/ g \in DependenciesOf(bootTasks[f].source) \ bootTasks[f].todo
                                    \/ g \in bootTasks[f].todo /\ Available(g)
<1>0. /\ bootTasks \in [ScanFiles -> BootTask] /\ bootMods \in [ScanFiles -> BootModule]
      /\ bootTasks[g].at = "none" /\ bootMods[g].code = NoSource
  BY DEF BootTyped, BootTask, BootModule, Entered
<1>1. bootTasks'[g].at # "none"
  BY <1>0, Moves DEF Moved, Entered
<1>2. CASE NextRoot
  <2>1. bootTasks' = Enqueued(bootTasks, {Head(bootDoc.roots)})
        /\ bootDoc.at \in {"runtimes", "entry", "effects"} /\ bootDoc.roots # <<>>
    BY <1>2 DEF NextRoot
  <2>2. g \in {Head(bootDoc.roots)}
    BY <1>0, <1>1, <2>1 DEF Enqueued
  <2>. QED BY <2>1, <2>2 DEF Walking
<1>3. ASSUME NEW f \in ScanFiles, BootLinked(f)
      PROVE  \E h \in ScanFiles : /\ bootTasks[h].at = "linking"
                                  /\ g \in DependenciesOf(bootTasks[h].source) \ bootTasks[h].todo
  <2> DEFINE other == [bootTasks EXCEPT ![f] = Resting]
             more == (DependenciesOf(bootTasks[f].source) \cap ScanFiles) \ {f}
  <2>1. bootTasks' = Enqueued(other, more) /\ bootTasks[f].at = "linking" /\ bootTasks[f].todo = {}
    BY <1>3 DEF BootLinked
  <2>2. other[g].at = "none"
    BY <1>0, BootParts
  <2> HIDE DEF other, more
  <2>3. g \in more
    BY <1>1, <2>1, <2>2 DEF Enqueued
  <2>. QED BY <2>1, <2>3 DEF more
<1>4. ASSUME NEW f \in ScanFiles, bootTasks[f].at # "none",
             \A h \in ScanFiles : h # f => bootTasks'[h] = bootTasks[h]
      PROVE  FALSE
  BY <1>0, <1>1, <1>4
<1>5. ASSUME NEW f \in ScanFiles, BootRead(f) \/ BootTransforms(f) \/ BootFails(f) PROVE FALSE
  <2>1. bootTasks[f].at # "none" /\ \A h \in ScanFiles : h # f => bootTasks'[h] = bootTasks[h]
    BY <1>0, <1>5 DEF BootRead, BootTransforms, BootFails
  <2>. QED BY <1>4, <2>1
<1>13. ASSUME NEW f \in ScanFiles, LinkFails(f)
       PROVE  \E h \in ScanFiles :
                /\ bootTasks[h].at = "linking"
                /\ \/ g \in DependenciesOf(bootTasks[h].source) \ bootTasks[h].todo
                   \/ g \in bootTasks[h].todo /\ Available(g)
  <2> DEFINE other == [bootTasks EXCEPT ![f] = Resting]
             added(late) == (DependenciesOf(bootTasks[f].source) \ bootTasks[f].todo) \cup late
             more(late) == (added(late) \cap ScanFiles) \ {f}
  <2>1. PICK late \in SUBSET {s \in bootTasks[f].todo \cap ScanFiles : Available(s)} :
          bootTasks' = Enqueued(other, more(late))
    BY <1>13 DEF LinkFails
  <2>2. other[g].at = "none"
    BY <1>0, BootParts
  <2> HIDE DEF other, more, added
  <2>3. g \in more(late)
    BY <1>1, <2>1, <2>2 DEF Enqueued
  <2>4. bootTasks[f].at = "linking"
    BY <1>13 DEF LinkFails
  <2>. QED BY <2>1, <2>3, <2>4 DEF more, added
<1>6. ASSUME NEW f \in ScanFiles, NEW s \in bootTasks[f].todo, BootLink(f, s) PROVE FALSE
  <2>1. bootTasks[f].at # "none" /\ \A h \in ScanFiles : h # f => bootTasks'[h] = bootTasks[h]
    BY <1>0, <1>6 DEF BootLink
  <2>. QED BY <1>4, <2>1
<1>7. ~UNCHANGED bootTasks
  BY <1>0, <1>1
<1>8. CASE UNCHANGED scanVars
  BY <1>7, <1>8 DEF scanVars
<1>9. CASE ScanRoots \/ NextBatch \/ BootInstall \/ RootEnds \/ NextStage
  BY <1>7, <1>9 DEF ScanRoots, NextBatch, BootInstall, RootEnds, NextStage
<1>10. ASSUME NEW f \in ScanFiles, NEW source \in ScanSources[f], ScanEdit(f, source) PROVE FALSE
  BY <1>7, <1>10 DEF ScanEdit
<1>11. ASSUME NEW f \in ScanFiles, ScanRead(f) \/ ScanTransforms(f) \/ ScanFails(f) \/ AllFollowed(f)
       PROVE  FALSE
  BY <1>7, <1>11 DEF ScanRead, ScanTransforms, ScanFails, AllFollowed
<1>12. ASSUME NEW f \in ScanFiles, NEW s \in scanTasks[f].todo, Follow(f, s) PROVE FALSE
  BY <1>7, <1>12 DEF Follow
<1>. QED BY <1>2, <1>3, <1>5, <1>6, <1>8, <1>9, <1>10, <1>11, <1>12, <1>13 DEF ScanNext

LEMMA Scanned ==
  ASSUME WalkStarts, WalkFollows, ~Walking(bootDoc.at), NEW f \in ScanFiles,
         f \in scanWalk.seen, Resolves(f), NEW s \in NeedsOf(f)
  PROVE  Passed(s)
BY DEF WalkStarts, WalkFollows, Walking, NotScanning

LEMMA WalkGrows ==
  ASSUME BootTyped, WalkStarts, [ScanNext]_scanVars, ~bootDoc'.lost
  PROVE  scanWalk.seen \subseteq scanWalk'.seen /\ (~Walking(bootDoc.at) => scanWalk' = scanWalk)
<1>1. CASE ScanRoots
  BY <1>1 DEF ScanRoots, WalkStarts, Walking
<1>2. CASE NextBatch
  BY <1>2 DEF NextBatch, BootTyped, Walking
<1>3. CASE BootInstall \/ WalkRests
  BY <1>3 DEF BootInstall, WalkRests
<1>4. ASSUME NEW f \in ScanFiles, ScanRead(f) \/ ScanTransforms(f) \/ ScanFails(f) \/ AllFollowed(f)
      PROVE  scanWalk' = scanWalk
  BY <1>4 DEF ScanRead, ScanTransforms, ScanFails, AllFollowed
<1>5. ASSUME NEW f \in ScanFiles, NEW s \in scanTasks[f].todo, Follow(f, s)
      PROVE  scanWalk.seen \subseteq scanWalk'.seen /\ Walking(bootDoc.at)
  <2>1. scanTasks[f].at # "none" /\ scanWalk.seen \subseteq scanWalk'.seen
    BY <1>5, FollowDoes
  <2>. QED BY <2>1 DEF WalkStarts, Walking, NotScanning
<1>. QED BY <1>1, <1>2, <1>3, <1>4, <1>5, WalkCases

LEMMA RootedStep ==
  ASSUME BootTyped, Rooted, [ScanNext]_scanVars, ~bootDoc'.lost
  PROVE  Rooted'
<1>1. scanDisk' = scanDisk /\ DocMoved /\ bootDoc.roots \in Seq(ScanFiles)
  BY NothingLost, DocMoves DEF BootTyped
<1> DEFINE first == FirstThere(ScanEntries)
<1>2. StartRoots' = StartRoots /\ FirstThere(ScanEntries)' = FirstThere(ScanEntries)
  BY <1>1, SameDisk
<1>3. ShimRoots' = ShimRoots
  <2>1. \A e : ShimModules(e)' = ShimModules(e)
    BY <1>1, SameDisk
  <2>. QED BY <1>2, <2>1 DEF ShimRoots
<1>4. first \in SUBSET ScanFiles /\ ShimRoots \in SUBSET ScanFiles
  <2>1. first \in SUBSET ScanFiles
    BY FirstThereTyped, ScanAssumption
  <2>. QED BY <2>1, ShimTyped DEF ShimRoots
<1>5. /\ Range(ScanRuntimes) \subseteq StartRoots /\ first \subseteq StartRoots
      /\ ShimRoots \subseteq StartRoots
  BY DEF StartRoots, ShimRoots
<1>6. RootsLeft' = Range(bootDoc'.roots)
  BY DEF RootsLeft
<1>7. /\ bootDoc.roots # <<>> => Range(Tail(bootDoc.roots)) \subseteq RootsLeft
      /\ Range(SetToSeq(first)) = first /\ Range(SetToSeq(ShimRoots)) = ShimRoots
  BY <1>1, <1>4, RootsParts DEF RootsLeft
<1> HIDE DEF first
<1>8. CASE DocRests \/ DocLinks
  <2>1. /\ bootDoc'.at = bootDoc.at /\ bootDoc'.roots = bootDoc.roots /\ bootDoc'.entry = bootDoc.entry
    BY <1>8 DEF DocRests, DocLinks
  <2>. QED BY <1>2, <1>3, <1>6, <2>1 DEF Rooted, RootsLeft
<1>9. CASE DocScans
  BY <1>2, <1>3, <1>6, <1>9 DEF DocScans, Rooted, RootsLeft
<1>10. CASE DocInstalls
  BY <1>2, <1>3, <1>5, <1>6, <1>10 DEF DocInstalls, Rooted
<1>11. CASE DocBegins
  BY <1>2, <1>3, <1>6, <1>11 DEF DocBegins, Rooted, RootsLeft
<1>12. CASE DocEnds
  <2>1. bootDoc.roots # <<>> /\ RootsLeft' \subseteq RootsLeft
    BY <1>6, <1>7, <1>12 DEF DocEnds, Rooted
  <2>. QED BY <1>2, <1>3, <1>12, <2>1 DEF DocEnds, Rooted
<1>13. CASE DocFails
  <2>1. RootsLeft' = {}
    BY <1>6, <1>13, RootsParts DEF DocFails
  <2>. QED BY <1>13, <2>1 DEF DocFails, Rooted
<1>14. CASE DocEnters
  BY <1>2, <1>3, <1>5, <1>6, <1>7, <1>14 DEF DocEnters, Rooted, first
<1>15. CASE DocShims
  <2>1. bootDoc.entry = FirstThere(ScanEntries)
    BY <1>15 DEF DocShims, Rooted
  <2>2. ShimModules(bootDoc.entry) = ShimRoots
    BY <2>1 DEF ShimRoots
  <2>3. RootsLeft' \in {ShimRoots, {}}
    BY <1>6, <1>7, <1>15, <2>2, RootsParts DEF DocShims
  <2>. QED BY <1>2, <1>3, <1>5, <1>15, <2>1, <2>3 DEF DocShims, Rooted
<1>16. CASE DocDone
  BY <1>2, <1>3, <1>6, <1>16 DEF DocDone, Rooted, RootsLeft
<1>. QED BY <1>1, <1>8, <1>9, <1>10, <1>11, <1>12, <1>13, <1>14, <1>15, <1>16 DEF DocMoved

LEMMA ReachedStep ==
  ASSUME BootTyped, CodeFollows, WalkStarts, WalkFollows, Rooted, Reached, [ScanNext]_scanVars,
         ~bootDoc'.lost
  PROVE  Reached'
<1>0. /\ scanDisk' = scanDisk /\ DocMoved /\ bootDoc.roots \in Seq(ScanFiles)
      /\ \A f : NeedsOf(f)' = NeedsOf(f) /\ (Resolves(f)' <=> Resolves(f))
  BY NothingLost, DocMoves, SameDisk DEF BootTyped
<1>1. Walking(bootDoc'.at) => Walking(bootDoc.at)
  BY <1>0 DEF DocMoved, DocRests, DocLinks, DocScans, DocInstalls, DocBegins, DocEnds, DocFails,
     DocEnters, DocShims, DocDone, Walking
<1>2. ASSUME NEW g \in ScanFiles, ~Entered(g), Entered(g)'
      PROVE  ~Walking(bootDoc.at) /\ g \in scanWalk.seen
  <2>1. CASE ~Walking(bootDoc.at) /\ bootDoc.roots # <<>> /\ g = Head(bootDoc.roots)
    <3>1. g \in RootsLeft
      BY <1>0, <2>1, RootsParts DEF RootsLeft
    <3>2. g \in StartRoots
      BY <3>1 DEF Rooted
    <3>. QED BY <2>1, <3>2 DEF WalkStarts, Walking
  <2>2. ASSUME NEW f \in ScanFiles, bootTasks[f].at = "linking",
               \/ g \in DependenciesOf(bootTasks[f].source) \ bootTasks[f].todo
               \/ g \in bootTasks[f].todo /\ Available(g)
        PROVE  ~Walking(bootDoc.at) /\ g \in scanWalk.seen
    <3>1. Entered(f) /\ f \in scanWalk.seen /\ Resolves(f) /\ bootTasks[f].source = scanDisk[f]
      BY <2>2 DEF Reached, Entered
    <3>2. ~Walking(bootDoc.at)
      BY <3>1 DEF Reached
    <3>3. g \in NeedsOf(f) /\ Available(g)
      BY <2>2, <3>1 DEF Reached, NeedsOf
    <3>4. Passed(g)
      BY <3>1, <3>2, <3>3, Scanned
    <3>5. g \notin ScanPackages /\ g \notin ScanDeclared
      BY ScanAssumption
    <3>. QED BY <3>2, <3>3, <3>4, <3>5 DEF Available, Passed
  <2>. QED BY <1>2, <2>1, <2>2, Entering
<1>3. Walking(bootDoc'.at) => \A f \in ScanFiles : ~Entered(f)'
  BY <1>1, <1>2 DEF Reached
<1>4. scanWalk.seen \subseteq scanWalk'.seen
  BY WalkGrows
<1>5. \A s : Available(s)' <=> Available(s)
  BY <1>0 DEF Available
<1>6. ASSUME NEW g \in ScanFiles
      PROVE  /\ Entered(g)' => g \in scanWalk'.seen
             /\ bootTasks'[g].at \in {"transforming", "linking"} =>
                  bootTasks'[g].source = scanDisk[g] /\ Resolves(g)
             /\ bootTasks'[g].at = "linking" =>
                  /\ bootTasks'[g].todo \subseteq NeedsOf(g)
                  /\ \A s \in NeedsOf(g) \ bootTasks'[g].todo : Available(s)
             /\ bootMods'[g].code # NoSource =>
                  /\ bootMods'[g].code = scanDisk[g] /\ Resolves(g)
                  /\ \A s \in NeedsOf(g) : Available(s)
  <2>0. /\ bootTasks[g].at \in {"transforming", "linking"} =>
             bootTasks[g].source = scanDisk[g] /\ Resolves(g)
        /\ bootTasks[g].at = "linking" =>
             /\ bootTasks[g].todo \subseteq NeedsOf(g)
             /\ \A s \in NeedsOf(g) \ bootTasks[g].todo : Available(s)
        /\ bootMods[g].code # NoSource =>
             /\ bootMods[g].code = scanDisk[g] /\ Resolves(g)
             /\ \A s \in NeedsOf(g) : Available(s)
        /\ NeedsOf(g) = DependenciesOf(scanDisk[g])
    BY DEF Reached, NeedsOf
  <2>1. Entered(g)' => g \in scanWalk'.seen
    BY <1>2, <1>4 DEF Reached
  <2>2. Moved(g)
    BY Moves
  <2>3. bootTasks'[g].at \in {"transforming", "linking"} =>
          bootTasks'[g].source = scanDisk[g] /\ Resolves(g)
    BY <2>0, <2>2 DEF Moved
  <2>4. bootTasks'[g].at = "linking" =>
          /\ bootTasks'[g].todo \subseteq NeedsOf(g)
          /\ \A s \in NeedsOf(g) \ bootTasks'[g].todo : Available(s)
    <3>1. CASE \E s \in bootTasks[g].todo : /\ Available(s)
                                            /\ bootTasks[g].at = "linking"
                                            /\ bootTasks'[g].todo = bootTasks[g].todo \ {s}
      BY <2>0, <3>1 DEF Available
    <3>2. CASE bootTasks'[g] = bootTasks[g]
      BY <2>0, <3>2
    <3>3. CASE bootTasks'[g].at = "linking" => bootTasks'[g].todo = NeedsOf(g)
      BY <3>3
    <3>. QED BY <2>0, <2>2, <3>1, <3>2, <3>3 DEF Moved
  <2>5. bootMods'[g].code # NoSource =>
          /\ bootMods'[g].code = scanDisk[g] /\ Resolves(g)
          /\ \A s \in NeedsOf(g) : Available(s)
    <3>1. CASE bootMods'[g].code \in {NoSource, bootMods[g].code}
      BY <2>0, <3>1
    <3>2. CASE /\ bootTasks[g].at = "linking" /\ bootTasks[g].todo = {}
               /\ bootMods'[g].code = bootTasks[g].source
      BY <2>0, <3>2
    <3>. QED BY <2>2, <3>1, <3>2 DEF Moved
  <2>. QED BY <2>1, <2>3, <2>4, <2>5
<1>. QED BY <1>0, <1>3, <1>5, <1>6 DEF Reached

LEMMA AskedStep ==
  ASSUME BootTyped, WalkStarts, WalkFollows, Rooted, Reached, Asked, [ScanNext]_scanVars,
         ~bootDoc'.lost
  PROVE  Asked'
<1>0. /\ DocMoved /\ ScanDeclared \subseteq ScanPackages
      /\ (~Walking(bootDoc.at) => scanWalk' = scanWalk)
  BY DocMoves, WalkGrows, ScanAssumption
<1>1. CASE DocRests
  BY <1>0, <1>1 DEF DocRests, AsksNothing, Asked
<1>2. CASE DocLinks
  <2>a. PICK f \in ScanFiles : \E names \in SUBSET bootTasks[f].todo :
          /\ bootTasks[f].at = "linking"
          /\ bootDoc'.installed = bootDoc.installed \cup (names \cap ScanDeclared)
          /\ bootDoc'.demanded = bootDoc.demanded \cup ((names \cap ScanDeclared) \ bootDoc.installed)
          /\ bootDoc'.effects = bootDoc.effects
    BY <1>2 DEF DocLinks
  <2>1. PICK names \in SUBSET bootTasks[f].todo :
          /\ bootTasks[f].at = "linking"
          /\ bootDoc'.installed = bootDoc.installed \cup (names \cap ScanDeclared)
          /\ bootDoc'.demanded = bootDoc.demanded \cup ((names \cap ScanDeclared) \ bootDoc.installed)
          /\ bootDoc'.effects = bootDoc.effects
    BY <2>a
  <2>2. Entered(f) /\ f \in scanWalk.seen /\ Resolves(f) /\ names \subseteq NeedsOf(f)
    BY <2>1 DEF Reached, Entered
  <2>3. ~Walking(bootDoc.at)
    BY <2>2 DEF Reached
  <2>4. \A s \in names : Passed(s)
    BY <2>2, <2>3, Scanned
  <2>5. names \cap ScanDeclared \subseteq bootDoc.installed
    BY <1>0, <2>3, <2>4 DEF Passed, Asked
  <2>6. bootDoc'.installed = bootDoc.installed /\ bootDoc'.demanded = bootDoc.demanded
        /\ bootDoc'.at = bootDoc.at
    BY <1>2, <2>1, <2>5 DEF DocLinks
  <2>. QED BY <1>0, <2>1, <2>3, <2>6 DEF Asked
<1>3. CASE DocScans
  BY <1>0, <1>3 DEF DocScans, AsksNothing, Asked, Walking
<1>4. CASE DocInstalls
  BY <1>0, <1>4 DEF DocInstalls, Asked, Walking
<1>5. CASE DocBegins
  BY <1>0, <1>5 DEF DocBegins, AsksNothing, Asked, Walking
<1>6. CASE DocEnds
  BY <1>0, <1>6 DEF DocEnds, AsksNothing, Asked, Walking
<1>7. CASE DocFails
  BY <1>0, <1>7 DEF DocFails, AsksNothing, Asked, Walking
<1>8. CASE DocEnters
  BY <1>0, <1>8 DEF DocEnters, AsksNothing, Asked, Walking
<1>9. CASE DocShims
  BY <1>0, <1>9 DEF DocShims, AsksNothing, Asked, Walking
<1>10. CASE DocDone
  BY <1>0, <1>10 DEF DocDone, AsksNothing, Asked, Walking
<1>. QED BY <1>0, <1>1, <1>2, <1>3, <1>4, <1>5, <1>6, <1>7, <1>8, <1>9, <1>10 DEF DocMoved

-----------------------------------------------------------------------------
(* A first compile in which nothing fails *)

NoneFailed == ~bootDoc.lost /\ bootDoc.faults = 0 /\ \A f \in ScanFiles : ~bootMods[f].error

CodeClosed(P) ==
  \A g \in P : bootMods[g].code # NoSource
               /\ DependenciesOf(bootMods[g].code) \cap ScanFiles \subseteq P
GraphCompiled(f) == \E P \in SUBSET ScanFiles : f \in P /\ CodeClosed(P)
RootOwed(r) == GraphCompiled(r) \/ r \in RootsLeft

\* What a compiled module imports is compiled or under way, and so is the side effect compile
\* waits for.
Begun ==
  /\ \A f \in ScanFiles : bootMods[f].code # NoSource =>
       \A h \in NeedsOf(f) \cap ScanFiles : Entered(h)
  /\ bootDoc.at = "effect" => Entered(Head(bootDoc.roots))

\* The graphs compile has been through are compiled.
Owes ==
  /\ ~Walking(bootDoc.at) /\ bootDoc.at # "failed" => \A r \in Range(ScanRuntimes) : RootOwed(r)
  /\ bootDoc.at \in {"entry", "app", "effects", "effect", "done"} =>
       \A r \in FirstThere(ScanEntries) : RootOwed(r)
  /\ bootDoc.at \in {"effects", "effect", "done"} => \A r \in ShimRoots : RootOwed(r)

LEMMA NoneFailedBefore ==
  ASSUME BootTyped, CodeFollows, [ScanNext]_scanVars, NoneFailed'
  PROVE  NoneFailed /\ \A f \in ScanFiles : Entered(f) /\ Resolves(f) => Entered(f)'
<1>1. ~bootDoc.lost /\ bootDoc.faults = 0
  BY NothingLost, DocMoves DEF NoneFailed, DocMoved
<1>2. ASSUME NEW f \in ScanFiles PROVE ~bootMods[f].error /\ (Entered(f) /\ Resolves(f) => Entered(f)')
  <2>1. Moved(f) /\ ~bootMods'[f].error /\ bootDoc'.faults = 0
    BY Moves DEF NoneFailed
  <2>2. \A a : ~(a = 0 /\ a > 0)
    OBVIOUS
  <2>3. bootTasks[f].at = "linking" => bootTasks[f].source # NoSource
    BY BootParts DEF CodeFollows
  <2>4. ~bootMods[f].error
    BY <2>1, <2>2 DEF Moved
  <2>5. Entered(f) /\ Resolves(f) => bootTasks'[f].at # "none" \/ bootMods'[f].code # NoSource
    BY <2>1, <2>2, <2>3 DEF Moved, Entered
  <2>. QED BY <2>4, <2>5 DEF Entered
<1>. QED BY <1>1, <1>2 DEF NoneFailed

LEMMA CompiledStays ==
  ASSUME BootTyped, CodeFollows, [ScanNext]_scanVars
  PROVE  \A f : GraphCompiled(f) => GraphCompiled(f)'
<1>1. ASSUME NEW g \in ScanFiles, bootMods[g].code # NoSource PROVE bootMods'[g].code = bootMods[g].code
  <2>1. Moved(g) /\ bootTasks[g].at = "none"
    BY <1>1, Moves DEF CodeFollows
  <2>. QED BY <1>1, <2>1 DEF Moved
<1>2. ASSUME NEW P \in SUBSET ScanFiles, CodeClosed(P) PROVE CodeClosed(P)'
  BY <1>1, <1>2 DEF CodeClosed
<1>. QED BY <1>2 DEF GraphCompiled

LEMMA RootFinished ==
  ASSUME NEW root \in ScanFiles, \A f \in Visited(root) : bootMods[f].code # NoSource
  PROVE  GraphCompiled(root)
<1>1. root \in Visited(root) /\ Visited(root) \subseteq ScanFiles
  BY DEF Visited
<1>2. ASSUME NEW g \in Visited(root), NEW h \in DependenciesOf(bootMods[g].code) \cap ScanFiles
      PROVE  h \in Visited(root)
  BY <1>2 DEF Visited
<1>. QED BY <1>1, <1>2 DEF GraphCompiled, CodeClosed

LEMMA BegunStep ==
  ASSUME BootTyped, CodeFollows, Rooted, Reached, Begun, [ScanNext]_scanVars, NoneFailed'
  PROVE  Begun'
<1>0. /\ scanDisk' = scanDisk /\ DocMoved /\ bootDoc.roots \in Seq(ScanFiles)
      /\ \A f : NeedsOf(f)' = NeedsOf(f) /\ (Resolves(f)' <=> Resolves(f))
      /\ \A f \in ScanFiles : Entered(f) /\ Resolves(f) => Entered(f)'
  BY NothingLost, DocMoves, SameDisk, NoneFailedBefore DEF BootTyped, NoneFailed
<1>1. ASSUME NEW f \in ScanFiles, bootMods'[f].code # NoSource, NEW h \in NeedsOf(f) \cap ScanFiles
      PROVE  Entered(h)'
  <2>0. Moved(f)
    BY Moves
  <2>1. CASE bootMods[f].code # NoSource
    <3>1. Available(h) /\ h \notin ScanDeclared
      BY <2>1, ScanAssumption DEF Reached
    <3>. QED BY <1>0, <2>1, <3>1 DEF Begun, Available
  <2>2. CASE bootMods[f].code = NoSource
    <3>1. /\ bootTasks[f].at = "linking" /\ bootMods'[f].code = bootTasks[f].source
          /\ \A x \in (DependenciesOf(bootTasks[f].source) \cap ScanFiles) \ {f} :
               bootTasks'[x].at # "none" \/ bootMods[x].code # NoSource
      BY <1>1, <2>0, <2>2, BootParts DEF Moved
    <3>2. bootTasks[f].source = scanDisk[f]
      BY <3>1 DEF Reached
    <3>3. CASE h = f
      BY <1>1, <3>3 DEF Entered
    <3>4. CASE h # f
      <4>1. bootTasks'[h].at # "none" \/ bootMods[h].code # NoSource
        BY <3>1, <3>2, <3>4 DEF NeedsOf
      <4>2. CASE bootMods[h].code # NoSource
        <5>1. Resolves(h)
          BY <4>2 DEF Reached
        <5>. QED BY <1>0, <4>2, <5>1 DEF Entered
      <4>. QED BY <4>1, <4>2 DEF Entered
    <3>. QED BY <3>3, <3>4
  <2>. QED BY <2>1, <2>2
<1>2. ASSUME bootDoc'.at = "effect" PROVE Entered(Head(bootDoc.roots))'
  <2>1. CASE DocBegins
    BY <2>1 DEF DocBegins
  <2>2. CASE bootDoc.at = "effect" /\ bootDoc'.roots = bootDoc.roots
    <3>1. bootDoc.roots # <<>> /\ Head(bootDoc.roots) \in RootsLeft
      BY <1>0, <2>2, RootsParts DEF Rooted, RootsLeft
    <3>2. Head(bootDoc.roots) \in ShimRoots
      BY <2>2, <3>1 DEF Rooted
    <3>3. Head(bootDoc.roots) \in ScanFiles /\ Resolves(Head(bootDoc.roots))
      BY <3>2 DEF ShimRoots, ShimModules
    <3>4. Entered(Head(bootDoc.roots))
      BY <2>2 DEF Begun
    <3>. QED BY <1>0, <2>2, <3>3, <3>4 DEF Entered
  <2>. QED
    BY <1>0, <1>2, <2>1, <2>2
    DEF DocMoved, DocRests, DocLinks, DocScans, DocInstalls, DocEnds, DocFails, DocEnters, DocShims, DocDone
<1>. QED BY <1>0, <1>1, <1>2 DEF Begun

LEMMA OwesStep ==
  ASSUME BootTyped, CodeFollows, Rooted, Reached, Begun, Owes, [ScanNext]_scanVars, NoneFailed'
  PROVE  Owes'
<1>0. /\ scanDisk' = scanDisk /\ DocMoved /\ bootDoc.roots \in Seq(ScanFiles)
      /\ ~bootDoc'.lost /\ bootDoc'.faults = 0
  BY NothingLost, DocMoves DEF BootTyped, NoneFailed
<1>1. FirstThere(ScanEntries)' = FirstThere(ScanEntries) /\ ShimRoots' = ShimRoots
  <2>1. \A e : ShimModules(e)' = ShimModules(e)
    BY <1>0, SameDisk
  <2>2. FirstThere(ScanEntries)' = FirstThere(ScanEntries)
    BY <1>0, SameDisk
  <2>. QED BY <2>1, <2>2 DEF ShimRoots
<1>2. \A f : GraphCompiled(f) => GraphCompiled(f)'
  BY CompiledStays
<1>3. RootsLeft' = Range(bootDoc'.roots)
  BY DEF RootsLeft
<1>4. ASSUME RootsLeft \subseteq RootsLeft' PROVE \A r : RootOwed(r) => RootOwed(r)'
  BY <1>2, <1>4 DEF RootOwed
<1>5. ASSUME bootDoc.roots = <<>> PROVE \A r : RootOwed(r) => RootOwed(r)'
  <2>1. RootsLeft = {}
    BY <1>5, RootsParts DEF RootsLeft
  <2>. QED BY <1>4, <2>1
<1>6. CASE DocRests \/ DocLinks
  <2>1. bootDoc'.at = bootDoc.at /\ bootDoc'.roots = bootDoc.roots
    BY <1>6 DEF DocRests, DocLinks
  <2>2. \A r : RootOwed(r) => RootOwed(r)'
    BY <1>3, <1>4, <2>1 DEF RootsLeft
  <2>. QED BY <1>1, <2>1, <2>2 DEF Owes
<1>7. CASE DocScans
  BY <1>7 DEF DocScans, Owes, Walking
<1>8. CASE DocInstalls
  <2>1. \A r \in Range(ScanRuntimes) : RootOwed(r)'
    BY <1>3, <1>8 DEF DocInstalls, RootOwed
  <2>. QED BY <1>8, <2>1 DEF DocInstalls, Owes
<1>9. CASE DocBegins
  <2>1. \A r : RootOwed(r) => RootOwed(r)'
    BY <1>3, <1>4, <1>9 DEF DocBegins, RootsLeft
  <2>. QED BY <1>1, <1>9, <2>1 DEF DocBegins, Owes, Walking
<1>10. CASE DocEnds
  <2> DEFINE root == Head(bootDoc.roots)
  <2>1. /\ bootDoc.roots # <<>> /\ root \in ScanFiles /\ root \in RootsLeft
        /\ RootsLeft = {root} \cup RootsLeft'
    BY <1>0, <1>3, <1>10, RootsParts DEF DocEnds, Rooted, RootsLeft
  <2>2. GraphCompiled(root)
    <3>1. CASE \A f \in Visited(root) : bootMods[f].code # NoSource
      BY <2>1, <3>1, RootFinished
    <3>2. CASE bootDoc.at = "effect" /\ \E f \in Visited(root) : ~Entered(f)
      <4> DEFINE begun == {g \in ScanFiles : Entered(g)}
      <4>1. root \in begun
        BY <2>1, <3>2 DEF Begun
      <4>2. ASSUME NEW g \in begun, NEW h \in DependenciesOf(bootMods[g].code) \cap ScanFiles
            PROVE  h \in begun
        <5>1. bootMods[g].code # NoSource
          BY <4>2, BootParts
        <5>2. bootMods[g].code = scanDisk[g]
          BY <5>1 DEF Reached
        <5>3. h \in NeedsOf(g) \cap ScanFiles
          BY <4>2, <5>2 DEF NeedsOf
        <5>. QED BY <5>1, <5>3 DEF Begun
      <4>3. Visited(root) \subseteq begun
        <5>1. begun \in SUBSET ScanFiles
          OBVIOUS
        <5>2. \A g \in begun : DependenciesOf(bootMods[g].code) \cap ScanFiles \subseteq begun
          BY <4>2
        <5> HIDE DEF begun
        <5>. QED BY <4>1, <5>1, <5>2 DEF Visited
      <4>. QED BY <3>2, <4>3
    <3>. QED BY <1>10, <3>1, <3>2 DEF DocEnds
  <2>3. \A r : RootOwed(r) => RootOwed(r)'
    BY <1>2, <2>1, <2>2 DEF RootOwed
  <2>. QED BY <1>1, <1>10, <2>3 DEF DocEnds, Owes, Walking
<1>11. CASE DocFails
  BY <1>11 DEF DocFails, Owes
<1>12. CASE DocEnters
  <2>1. \A r : RootOwed(r) => RootOwed(r)'
    BY <1>5, <1>12 DEF DocEnters
  <2>2. FirstThere(ScanEntries) \in SUBSET ScanFiles
    BY FirstThereTyped, ScanAssumption
  <2>3. RootsLeft' = FirstThere(ScanEntries)
    BY <1>3, <1>12, <2>2, RootsParts DEF DocEnters
  <2>. QED BY <1>1, <1>12, <2>1, <2>3 DEF DocEnters, Owes, Walking, RootOwed
<1>13. CASE DocShims
  <2>1. \A r : RootOwed(r) => RootOwed(r)'
    BY <1>5, <1>13 DEF DocShims
  <2>2. bootDoc.entry = FirstThere(ScanEntries)
    BY <1>13 DEF DocShims, Rooted
  <2>3. ShimRoots \in SUBSET ScanFiles
    BY DEF ShimRoots, ShimModules
  <2>4. RootsLeft' = ShimRoots
    BY <1>0, <1>3, <1>13, <2>2, <2>3, RootsParts DEF DocShims, ShimRoots
  <2>. QED BY <1>1, <1>13, <2>1, <2>4 DEF DocShims, Owes, Walking, RootOwed
<1>14. CASE DocDone
  <2>1. \A r : RootOwed(r) => RootOwed(r)'
    BY <1>5, <1>14 DEF DocDone
  <2>. QED BY <1>1, <1>14, <2>1 DEF DocDone, Owes, Walking
<1>. QED
  BY <1>0, <1>6, <1>7, <1>8, <1>9, <1>10, <1>11, <1>12, <1>13, <1>14 DEF DocMoved

-----------------------------------------------------------------------------
(* The invariant *)

BootInv ==
  /\ BootTyped /\ CodeFollows
  /\ ~bootDoc.lost =>
       WalkStarts /\ WalkFollows /\ WalkFinds /\ Rooted /\ Reached /\ Asked
  /\ NoneFailed => Begun /\ Owes

LEMMA BootInvInit == ScanInit => BootInv
<1> SUFFICES ASSUME ScanInit PROVE BootInv
  OBVIOUS
<1>1. /\ BootTyped
      /\ \A f \in ScanFiles : /\ bootTasks[f] = Resting /\ bootMods[f] = Unloaded
                              /\ scanTasks[f] = Resting
      /\ scanWalk.seen = {} /\ scanWalk.queue = {} /\ scanWalk.external = {}
      /\ bootDoc.at = "roots" /\ bootDoc.roots = <<>> /\ bootDoc.installed = {}
      /\ bootDoc.demanded = {} /\ bootDoc.effects = {}
  BY BootInitTyped DEF ScanInit
<1>2. CodeFollows
  BY <1>1, BootParts DEF CodeFollows
<1>3. WalkStarts /\ WalkFollows /\ WalkFinds
  BY <1>1, BootParts DEF WalkStarts, WalkFollows, WalkFinds, NotScanning
<1>4. Rooted
  BY <1>1, RootsParts DEF Rooted, RootsLeft
<1>5. Reached
  BY <1>1, BootParts DEF Reached, Entered
<1>6. Asked
  BY <1>1 DEF Asked, Walking
<1>7. Begun /\ Owes
  BY <1>1, BootParts DEF Begun, Owes, Walking
<1>. QED BY <1>1, <1>2, <1>3, <1>4, <1>5, <1>6, <1>7 DEF BootInv

LEMMA BootInvStep == BootInv /\ [ScanNext]_scanVars => BootInv'
<1> SUFFICES ASSUME BootInv, [ScanNext]_scanVars PROVE BootInv'
  OBVIOUS
<1>1. BootTyped' /\ CodeFollows'
  BY ScanStepTyped, CodeKept DEF BootInv
<1>2. ASSUME ~bootDoc'.lost
      PROVE  (WalkStarts /\ WalkFollows /\ WalkFinds /\ Rooted /\ Reached /\ Asked)'
  <2>1. /\ BootTyped /\ CodeFollows /\ WalkStarts /\ WalkFollows /\ WalkFinds
        /\ Rooted /\ Reached /\ Asked
    BY <1>2, NothingLost DEF BootInv
  <2>. QED
    BY <1>2, <2>1, WalkStartsStep, WalkFollowsStep, WalkFindsStep, RootedStep, ReachedStep, AskedStep
<1>3. ASSUME NoneFailed' PROVE (Begun /\ Owes)'
  <2>1. NoneFailed /\ BootTyped /\ CodeFollows
    BY <1>3, NoneFailedBefore DEF BootInv
  <2>2. Rooted /\ Reached /\ Begun /\ Owes
    BY <2>1 DEF BootInv, NoneFailed
  <2>. QED BY <1>3, <2>1, <2>2, BegunStep, OwesStep
<1>. QED BY <1>1, <1>2, <1>3 DEF BootInv

LEMMA CompiledIsExact ==
  ASSUME BootInv, NoneFailed, bootDoc.at = "done"
  PROVE  bootDoc.installed \ bootDoc.effects \subseteq
           UNION {DependenciesOf(bootMods[f].code) : f \in ScanFiles}
<1>0. /\ BootTyped /\ WalkStarts /\ WalkFinds /\ Rooted /\ Reached /\ Asked /\ Owes
  BY DEF BootInv, NoneFailed
<1>1. RootsLeft = {}
  BY <1>0, RootsParts DEF Rooted, RootsLeft
<1> DEFINE all == {f \in ScanFiles : GraphCompiled(f)}
<1>2. StartRoots \subseteq all
  <2>1. \A r \in StartRoots : GraphCompiled(r)
    BY <1>0, <1>1 DEF Owes, RootOwed, StartRoots, ShimRoots, Walking
  <2>2. StartRoots \subseteq ScanFiles
    BY <2>1 DEF GraphCompiled
  <2>. QED BY <2>1, <2>2
<1>3. ASSUME NEW g \in all
      PROVE  bootMods[g].code = scanDisk[g] /\ NeedsOf(g) \cap ScanFiles \subseteq all
  <2>1. PICK P \in SUBSET ScanFiles : g \in P /\ CodeClosed(P)
    BY DEF GraphCompiled
  <2>2. bootMods[g].code = scanDisk[g]
    BY <1>0, <2>1 DEF CodeClosed, Reached
  <2>3. NeedsOf(g) \cap ScanFiles \subseteq P
    BY <2>1, <2>2 DEF CodeClosed, NeedsOf
  <2>4. P \subseteq all
    BY <2>1 DEF GraphCompiled
  <2>. QED BY <2>2, <2>3, <2>4
<1>4. all \in SUBSET ScanFiles /\ ClosedUnder(all)
  BY <1>2, <1>3 DEF ClosedUnder
<1>5. scanWalk.seen \subseteq all
  BY <1>0, <1>4 DEF WalkFinds
<1> HIDE DEF all
<1>6. ASSUME NEW s \in bootDoc.installed \ bootDoc.effects
      PROVE  \E f \in ScanFiles : s \in DependenciesOf(bootMods[f].code)
  <2>1. s \in scanWalk.external \cap ScanPackages
    BY <1>0 DEF Asked, BootTyped
  <2>2. PICK f \in scanWalk.seen : s \in NeedsOf(f)
    BY <1>0, <2>1 DEF WalkFinds
  <2>3. f \in ScanFiles /\ bootMods[f].code = scanDisk[f]
    BY <1>0, <1>3, <1>4, <1>5
  <2>. QED BY <2>2, <2>3 DEF NeedsOf
<1>. QED BY <1>6

\* Whatever the disk holds and in whatever order reads, transforms and edits come: unless the
\* scan lost track, nothing is installed on demand but what the shim imports for its side
\* effects, nothing that no module imports is installed, and no module runs the code of a
\* source it did not read.
THEOREM FirstCompileIsServed == ScanSpec => []BootServesCompile
<1>1. BootInv => BootServesCompile
  <2> SUFFICES ASSUME BootInv PROVE BootServesCompile
    OBVIOUS
  <2>1. AdoptedIsCurrent
    BY DEF BootInv, CodeFollows, AdoptedIsCurrent
  <2>2. ~bootDoc.lost => bootDoc.demanded \subseteq bootDoc.effects
    BY DEF BootInv, Asked
  <2>3. RequestIsExact
    BY <2>2, CompiledIsExact DEF RequestIsExact, NoneFailed
  <2>. QED BY <2>1, <2>3 DEF BootServesCompile
<1>. QED BY <1>1, BootInvInit, BootInvStep, PTL DEF ScanSpec
==============================================================================
