------------------------ MODULE ArtifactStoreProofs ------------------------
(***************************************************************************)
(* Proofs about ArtifactStore for any app, any cache zip and any number of *)
(* edits, failed compiles and verifications.                               *)
(***************************************************************************)
EXTENDS ArtifactStore, TLAPS

-----------------------------------------------------------------------------
(* The inductive invariant *)

Code == [rev : Nat, genuine : BOOLEAN]
Module == [here : BOOLEAN, code : Code, imports : Nat]
Consulting == {"delete", "isFile", "read"}
InWork == {"compile", "write"}
Task == [at : {"none", "source"} \cup Consulting \cup InWork, rev : Nat, mine : BOOLEAN]
Store == [recorded : [ArtPaths -> Nat], deleting : [ArtPaths -> Nat], todo : SUBSET ArtPaths,
          seeded : SUBSET ArtPaths, consumed : SUBSET ArtPaths, distrusted : BOOLEAN]
Verify == [at : {"none", "scheduled", "source", "entry", "compare"}, sample : SUBSET ArtPaths,
           path : SUBSET ArtPaths, source : Nat, entry : Code]
History == [edits : Nat, unnoticed : SUBSET ArtPaths, edited : SUBSET ArtPaths,
            alarm : SUBSET ArtPaths, raced : SUBSET ArtPaths]

Typed ==
  /\ artSetup \in Setup
  /\ artDisk \in [ArtPaths -> Nat]
  /\ artPending \in SUBSET ArtPaths
  /\ artModules \in [ArtPaths -> Module]
  /\ artTasks \in [ArtPaths -> Task]
  /\ artEntries \in [ArtPaths -> Code]
  /\ artStore \in Store
  /\ artCompile \in [at : {"seed", "copy", "load", "idle"}, first : BOOLEAN]
  /\ artVerify \in Verify
  /\ artHistory \in History

\* No change of p is on its way, nor was one missed.
Settled(p) == p \notin artPending \cup artHistory.unnoticed

\* Then all there is of p is of its source: the module, what is being compiled, and the entry,
\* unless nobody will consult it again, because the module stays in the document.
Current(p) ==
  Settled(p) =>
    /\ artModules[p].code.rev \in {0, artDisk[p]}
    /\ artTasks[p].at \in InWork => artTasks[p].rev = artDisk[p]
    /\ artEntries[p] # NoCode =>
         artEntries[p].rev = artDisk[p] \/ (artModules[p].here /\ ~artCompile.first)
    /\ artCompile.at \in {"seed", "copy"} /\ p \notin artSetup.dirty => artDisk[p] = Committed

\* Only a module that is not there is consulted, and what is left to seed is seedable.
Orderly(p) ==
  /\ artTasks[p].at \in Consulting => ~artModules[p].here
  /\ p \in artStore.todo => artCompile.at = "copy" /\ p \in Seedable

\* The imports on record are the entry's, until its deletion has begun.
Recorded(p) ==
  /\ p \notin artHistory.raced => artModules[p].imports = artModules[p].code.rev
  /\ artEntries[p] # NoCode /\ artStore.deleting[p] = 0 =>
       artStore.recorded[p] = artEntries[p].rev
  /\ artTasks[p].at \in {"isFile", "read"} => artStore.deleting[p] = 0 \/ p \in artHistory.raced

\* Code made from p's source, which has not changed in this document.
Made(code, p) == code.rev = artDisk[p] /\ (code.genuine \/ artSetup.entries[p] = "tampered")

\* Without an edit nothing that is compared differs but by tampering.
Just(p) ==
  /\ p \in artHistory.alarm => artSetup.entries[p] = "tampered" \/ p \in artHistory.edited
  /\ p \notin artHistory.edited =>
       /\ p \notin artSetup.dirty => artDisk[p] = Committed
       /\ artTasks[p].at \in InWork => artTasks[p].rev = artDisk[p]
       /\ artEntries[p] # NoCode => Made(artEntries[p], p)
       /\ p \in artVerify.path /\ artVerify.at \in {"entry", "compare"} =>
            artVerify.source = artDisk[p]
       /\ p \in artVerify.path /\ artVerify.at = "compare" => Made(artVerify.entry, p)
OnePath == \A p, q \in artVerify.path : p = q
-----------------------------------------------------------------------------
(* Types *)

LEMMA CodeTyped ==
  /\ NoCode \in Code /\ Absent \in Module /\ Uncompiled \in Module /\ NoTransform \in Task
  /\ \A rev \in Nat : Live(rev) \in Code
  /\ \A code \in Code, imports \in Nat : Loaded(code, imports) \in Module
  /\ \A p \in ArtPaths : Begun(p) \in Task
  /\ Transform("source") \in Task
BY DEF NoCode, Code, Absent, Uncompiled, Loaded, Module, NoTransform, Task, Live, Begun, Transform,
       Consulting, InWork

LEMMA InitTyped ==
  ASSUME ArtInit
  PROVE  Typed
<1>1. artSetup \in Setup
  BY ArtSetupsAssumption DEF ArtInit
<1>2. artSetup.marked \in BOOLEAN
  BY <1>1 DEF Setup
<1>3. artStore \in Store /\ artVerify \in Verify /\ artHistory \in History
  BY <1>2, CodeTyped DEF ArtInit, Store, Verify, History
<1>4. artDisk \in [ArtPaths -> Nat] /\ artCompile \in [at : {"seed", "copy", "load", "idle"}, first : BOOLEAN]
  BY DEF ArtInit, Committed
<1>. QED BY <1>1, <1>3, <1>4, CodeTyped DEF ArtInit, Typed

LEMMA InvalidatedDoes ==
  ASSUME Typed, NEW S \in SUBSET ArtPaths
  PROVE  LET store == Invalidated(artStore, S) IN
         /\ store \in Store /\ store.todo = artStore.todo /\ store.consumed = artStore.consumed
         /\ store.seeded = artStore.seeded /\ store.distrusted = artStore.distrusted
         /\ \A p \in S : store.deleting[p] = artStore.deleting[p] + 1
         /\ \A p \in ArtPaths \ S : /\ store.deleting[p] = artStore.deleting[p]
                                    /\ store.recorded[p] = artStore.recorded[p]
<1> DEFINE recorded == [p \in ArtPaths |-> IF p \in S THEN 0 ELSE artStore.recorded[p]]
           deleting == [p \in ArtPaths |-> IF p \in S THEN artStore.deleting[p] + 1 ELSE artStore.deleting[p]]
<1>1. Invalidated(artStore, S) = [artStore EXCEPT !.recorded = recorded, !.deleting = deleting]
  BY Zenon DEF Invalidated
<1>2. artStore \in Store
  BY DEF Typed
<1>3. recorded \in [ArtPaths -> Nat] /\ deleting \in [ArtPaths -> Nat]
  BY <1>2 DEF Store
<1>4. /\ \A p \in S : deleting[p] = artStore.deleting[p] + 1
      /\ \A p \in ArtPaths \ S : deleting[p] = artStore.deleting[p] /\ recorded[p] = artStore.recorded[p]
  OBVIOUS
<1> HIDE DEF recorded, deleting
<1>. QED BY <1>1, <1>2, <1>3, <1>4 DEF Store

LEMMA StepTyped ==
  ASSUME Typed, [ArtNext]_artVars
  PROVE  Typed'
<1>. USE DEF Typed, artBundler
<1>1. CASE SeedBegins
  <2>1. Seedable \in SUBSET ArtPaths
    BY DEF Seedable
  <2>. QED BY <1>1, <2>1 DEF SeedBegins, Store
<1>2. ASSUME NEW p \in ArtPaths, SeedEntry(p)
      PROVE  Typed'
  <2>1. artEntries' \in [ArtPaths -> Code]
    BY <1>2 DEF SeedEntry, Code, Committed
  <2>2. artStore' \in Store
    BY <1>2 DEF SeedEntry, Store, Committed
  <2>. QED BY <1>2, <2>1, <2>2 DEF SeedEntry
<1>3. ASSUME NEW p \in ArtPaths, SeedSkips(p)
      PROVE  Typed'
  BY <1>3 DEF SeedSkips, Store
<1>4. CASE SeedEnds \/ CompileFails
  BY <1>4 DEF SeedEnds, CompileFails
<1>5. ASSUME NEW p \in ArtPaths, DeleteDone(p)
      PROVE  Typed'
  <2>1. artStore' \in Store
    BY <1>5 DEF DeleteDone, Store
  <2>. QED BY <1>5, <2>1, CodeTyped DEF DeleteDone
<1>6. ASSUME NEW p \in ArtPaths, Load(p) \/ ConsultIsFile(p) \/ CompileError(p)
      PROVE  Typed'
  <2>1. CASE Load(p)
    BY <2>1, CodeTyped DEF Load
  <2>2. CASE ConsultIsFile(p)
    <3>1. PICK at \in {"source", "read"} : artTasks' = [artTasks EXCEPT ![p].at = at]
      BY <2>2, Zenon DEF ConsultIsFile
    <3>2. artTasks' \in [ArtPaths -> Task]
      BY <3>1 DEF Task, Consulting
    <3>. QED BY <2>2, <3>2 DEF ConsultIsFile
  <2>3. CASE CompileError(p)
    BY <2>3, CodeTyped DEF CompileError
  <2>. QED BY <1>6, <2>1, <2>2, <2>3
<1>7. ASSUME NEW p \in ArtPaths, ConsultReads(p)
      PROVE  Typed'
  <2>1. artModules' \in [ArtPaths -> Module]
    BY <1>7, CodeTyped DEF ConsultReads, Store
  <2>2. artStore' \in Store
    BY <1>7 DEF ConsultReads, Store
  <2>. QED BY <1>7, <2>1, <2>2, CodeTyped DEF ConsultReads
<1>8. ASSUME NEW p \in ArtPaths, SourceRead(p)
      PROVE  Typed'
  <2>1. artTasks' \in [ArtPaths -> Task]
    BY <1>8 DEF SourceRead, Task, InWork, Module
  <2>2. artModules' \in [ArtPaths -> Module]
    BY <1>8, CodeTyped DEF SourceRead
  <2>. QED BY <1>8, <2>1, <2>2 DEF SourceRead
<1>9. ASSUME NEW p \in ArtPaths, Compiled(p)
      PROVE  Typed'
  <2>1. artTasks' \in [ArtPaths -> Task]
    BY <1>9 DEF Compiled, Task, InWork
  <2>2. artTasks[p].rev \in Nat
    BY DEF Task
  <2>3. artModules' \in [ArtPaths -> Module]
    BY <1>9, <2>2, CodeTyped DEF Compiled
  <2>. QED BY <1>9, <2>1, <2>3 DEF Compiled
<1>10. ASSUME NEW p \in ArtPaths, WrittenThrough(p)
       PROVE  Typed'
  <2>1. artTasks[p].rev \in Nat
    BY DEF Task
  <2>2. artStore' \in Store
    BY <1>10, <2>1 DEF WrittenThrough, Store
  <2>. QED BY <1>10, <2>1, <2>2, CodeTyped DEF WrittenThrough
<1>11. ASSUME NEW p \in ArtPaths, ArtEdit(p)
       PROVE  Typed'
  <2>1. artDisk' \in [ArtPaths -> Nat]
    <3>1. artDisk[p] + 1 \in Nat
      OBVIOUS
    <3>2. artDisk' = [artDisk EXCEPT ![p] = artDisk[p] + 1]
      BY <1>11, Zenon DEF ArtEdit
    <3>. QED BY <3>1, <3>2
  <2>2. artHistory' \in History
    <3>1. artHistory.edits + 1 \in Nat /\ artHistory.edited \cup {p} \in SUBSET ArtPaths
      BY DEF History
    <3>2. artHistory' = [artHistory EXCEPT !.edited = artHistory.edited \cup {p},
                                           !.edits = artHistory.edits + 1]
      BY <1>11, Zenon DEF ArtEdit
    <3>. QED BY <3>1, <3>2 DEF History
  <2>. QED BY <1>11, <2>1, <2>2 DEF ArtEdit
<1>12. CASE CompileEnds
  BY <1>12 DEF CompileEnds, Verify
<1>13. CASE FirstLoadAgain
  <2>1. artTasks' \in [ArtPaths -> Task]
    BY <1>13 DEF FirstLoadAgain, Task
  <2>. QED BY <1>13, <2>1, CodeTyped DEF FirstLoadAgain, History
<1>14. CASE Update
  <2> DEFINE known == {p \in artPending : artModules[p].here}
             reset == {p \in known : artModules[p].code # NoCode}
  <2>1. reset \in SUBSET ArtPaths /\ artStore' = Invalidated(artStore, reset)
    BY <1>14 DEF Update
  <2>2. artHistory' = [artHistory EXCEPT
             !.unnoticed = (artHistory.unnoticed \ reset) \cup (artPending \ reset) \cup (reset \cap Running)]
    BY <1>14 DEF Update
  <2>3. artModules' = [p \in ArtPaths |-> IF p \in reset THEN Uncompiled ELSE artModules[p]]
    BY <1>14 DEF Update
  <2>4. artTasks' \in [ArtPaths -> Task]
    BY <1>14, CodeTyped DEF Update
  <2> HIDE DEF known, reset
  <2>5. artStore' \in Store
    BY <2>1, InvalidatedDoes
  <2>6. artHistory' \in History
    BY <2>1, <2>2 DEF History
  <2>. QED BY <1>14, <2>3, <2>4, <2>5, <2>6, CodeTyped DEF Update
<1>15. CASE VerifyStarts
  <2>1. artStore.consumed \in SUBSET ArtPaths
    BY DEF Store
  <2>. QED BY <1>15, <2>1 DEF VerifyStarts, Verify
<1>16. ASSUME NEW p \in ArtPaths, VerifyReadsSource(p) \/ VerifyReadsEntry(p)
       PROVE  Typed'
  <2>1. CASE VerifyReadsSource(p)
    BY <2>1 DEF VerifyReadsSource, Verify
  <2>2. CASE VerifyReadsEntry(p)
    <3>1. artEntries[p] \in Code
      OBVIOUS
    <3>2. artVerify' \in Verify
      BY <2>2, <3>1 DEF VerifyReadsEntry, Verify
    <3>. QED BY <2>2, <3>2 DEF VerifyReadsEntry
  <2>. QED BY <1>16, <2>1, <2>2
<1>17. ASSUME NEW p \in ArtPaths, VerifyCompares(p)
       PROVE  Typed'
  <2>1. artVerify' \in Verify
    <3>1. \/ artVerify' = [artVerify EXCEPT !.at = "source", !.sample = artVerify.sample \ {p}]
          \/ artVerify' = [artVerify EXCEPT !.at = "none"]
      BY <1>17, Zenon DEF VerifyCompares
    <3>. QED BY ZenonT(60), <3>1 DEF Verify
  <2>2. artStore.consumed \in SUBSET ArtPaths
    BY DEF Store
  <2>3. Discarded(artStore) \in Store
    <3>1. Invalidated(artStore, artStore.consumed) \in Store
      BY <2>2, InvalidatedDoes
    <3>. QED BY <3>1 DEF Discarded, Store
  <2>4. artHistory' \in History
    <3> DEFINE raced == artHistory.raced \cup {q \in artStore.consumed : artTasks[q].at \in {"isFile", "read"}}
    <3>1. raced \in SUBSET ArtPaths
      BY <2>2 DEF History
    <3>2. artHistory' = artHistory \/ artHistory' = [artHistory EXCEPT !.alarm = artHistory.alarm \cup {p}, !.raced = raced]
      BY <1>17, Zenon DEF VerifyCompares
    <3>3. artHistory.alarm \cup {p} \in SUBSET ArtPaths
      BY DEF History
    <3> HIDE DEF raced
    <3>. QED BY <3>1, <3>2, <3>3 DEF History
  <2>. QED BY <1>17, <2>1, <2>3, <2>4 DEF VerifyCompares
<1>18. CASE UNCHANGED artVars
  BY <1>18 DEF artVars
<1>. QED BY <1>1, <1>2, <1>3, <1>4, <1>5, <1>6, <1>7, <1>8, <1>9, <1>10, <1>11, <1>12, <1>13,
            <1>14, <1>15, <1>16, <1>17, <1>18 DEF ArtNext

\* Modules, transforms, entries, the store and the verification keep their types through any
\* sequence of loads, edits, failed compiles and verifications.
THEOREM TypeCorrect == ArtSpec => []Typed
<1>. QED BY InitTyped, StepTyped, PTL DEF ArtSpec
-----------------------------------------------------------------------------
(* Invariants *)

Inv(p) == Current(p) /\ Orderly(p) /\ Recorded(p) /\ Just(p)

LEMMA InitInv ==
  ASSUME ArtInit, Typed
  PROVE  OnePath /\ \A p \in ArtPaths : Inv(p)
BY DEF ArtInit, OnePath, Inv, Current, Settled, Orderly, Recorded, Just, Absent, NoCode, NoTransform,
       Consulting, InWork, Committed

\* A step that touches neither p's source, module, transform and entry nor what is known of them.
LEMMA Frame ==
  ASSUME Typed, Typed', NEW p \in ArtPaths, Inv(p),
         UNCHANGED <<artSetup, artDisk[p], artModules[p], artEntries[p], artTasks[p],
                     artStore.recorded[p], artStore.deleting[p]>>,
         Settled(p)' => Settled(p),
         artCompile'.first => artCompile.first,
         artCompile.at \notin {"seed", "copy"} => artCompile'.at \notin {"seed", "copy"},
         p \in artStore'.todo => artCompile'.at = "copy" /\ p \in Seedable,
         artHistory.edited \subseteq artHistory'.edited, artHistory'.alarm = artHistory.alarm,
         artHistory.raced \subseteq artHistory'.raced, artVerify' = artVerify
  PROVE  Inv(p)'
<1>1. Current(p)'
  BY DEF Inv, Current
<1>2. Orderly(p)'
  BY DEF Inv, Orderly, Seedable
<1>3. Recorded(p)'
  BY DEF Inv, Recorded
<1>4. Just(p)'
  BY DEF Inv, Just, Made
<1>. QED BY <1>1, <1>2, <1>3, <1>4 DEF Inv

LEMMA StepInv ==
  ASSUME Typed, Typed', OnePath, \A p \in ArtPaths : Inv(p), [ArtNext]_artVars
  PROVE  OnePath' /\ \A p \in ArtPaths : Inv(p)'
<1>. USE DEF artBundler, Typed
<1>0. OnePath'
  <2>1. artVerify'.path = artVerify.path \/ \E p \in ArtPaths : artVerify'.path = {p}
    <3>1. artVerify' = artVerify => artVerify'.path = artVerify.path
      OBVIOUS
    <3>2. CASE CompileEnds \/ VerifyStarts
      BY <3>2 DEF CompileEnds, VerifyStarts, Verify
    <3>3. ASSUME NEW p \in ArtPaths, VerifyReadsSource(p) \/ VerifyReadsEntry(p) \/ VerifyCompares(p)
          PROVE  artVerify'.path = artVerify.path \/ artVerify'.path = {p}
      BY <3>3 DEF VerifyReadsSource, VerifyReadsEntry, VerifyCompares, Verify
    <3>. QED BY <3>1, <3>2, <3>3
             DEF ArtNext, SeedBegins, SeedEnds, CompileFails, FirstLoadAgain, Update, SeedEntry,
                 SeedSkips, DeleteDone, Load, ConsultIsFile, ConsultReads, SourceRead, Compiled,
                 CompileError, WrittenThrough, ArtEdit, artVars
  <2>. QED BY <2>1 DEF OnePath
<1>. SUFFICES \A p \in ArtPaths : Inv(p)'
  BY <1>0
<1>1. CASE SeedBegins
  <2>1. ASSUME NEW q \in ArtPaths
        PROVE  Inv(q)'
    <3>1. /\ UNCHANGED <<artSetup, artDisk, artModules, artEntries, artTasks, artPending, artHistory, artVerify>>
          /\ artCompile.at = "seed" /\ artCompile'.at = "copy" /\ artCompile'.first = artCompile.first
      BY <1>1 DEF SeedBegins
    <3>2. /\ artStore'.recorded = artStore.recorded /\ artStore'.deleting = artStore.deleting
          /\ artStore'.todo \subseteq Seedable
      BY <1>1 DEF SeedBegins, Store
    <3>. QED BY <3>1, <3>2 DEF Inv, Current, Settled, Orderly, Recorded, Just, Made, Seedable
  <2>. QED BY <2>1
<1>2. ASSUME NEW p \in ArtPaths, SeedEntry(p)
      PROVE  \A q \in ArtPaths : Inv(q)'
  <2>1. ASSUME NEW q \in ArtPaths, q # p
        PROVE  Inv(q)'
    BY <1>2, <2>1, Frame DEF SeedEntry, Settled, Inv, Orderly, Store
  <2>2. Inv(p)'
    <3>1. /\ UNCHANGED <<artSetup, artDisk, artModules, artTasks, artPending, artCompile, artHistory, artVerify>>
          /\ artCompile.at = "copy" /\ p \in artStore.todo
          /\ artEntries'[p].rev = Committed
          /\ artEntries'[p].genuine \/ artSetup.entries[p] # "genuine"
      BY <1>2 DEF SeedEntry
    <3>2. /\ artStore'.recorded[p] = Committed /\ artStore'.deleting = artStore.deleting
          /\ artStore'.todo = artStore.todo \ {p}
      BY <1>2 DEF SeedEntry, Store
    <3>3. p \in Seedable
      BY <3>1 DEF Inv, Orderly
    <3>. QED BY <3>1, <3>2, <3>3 DEF Inv, Current, Settled, Orderly, Recorded, Just, Made, Seedable
  <2>. QED BY <2>1, <2>2
<1>3. ASSUME NEW p \in ArtPaths, SeedSkips(p)
      PROVE  \A q \in ArtPaths : Inv(q)'
  BY <1>3, Frame DEF SeedSkips, Settled, Inv, Orderly, Store
<1>4. CASE SeedEnds \/ CompileFails
  <2>1. /\ UNCHANGED <<artSetup, artDisk, artModules, artTasks, artEntries, artPending, artStore,
                        artHistory, artVerify>>
        /\ artCompile'.at \in {"load", "idle"} /\ artCompile'.first = artCompile.first
    BY <1>4 DEF SeedEnds, CompileFails
  <2>2. \A q \in ArtPaths : q \notin artStore.todo
    BY <1>4 DEF SeedEnds, CompileFails, Inv, Orderly
  <2>. QED BY <2>1, <2>2, Frame DEF Settled
<1>5. ASSUME NEW p \in ArtPaths, DeleteDone(p)
      PROVE  \A q \in ArtPaths : Inv(q)'
  <2>1. ASSUME NEW q \in ArtPaths, q # p
        PROVE  Inv(q)'
    BY <1>5, <2>1, Frame DEF DeleteDone, Settled, Inv, Orderly, Store
  <2>2. Inv(p)'
    <3>1. /\ UNCHANGED <<artSetup, artDisk, artModules, artTasks, artPending, artCompile, artHistory, artVerify>>
          /\ artStore.deleting[p] > 0 /\ artEntries'[p] = NoCode
      BY <1>5 DEF DeleteDone
    <3>2. artStore'.deleting[p] = artStore.deleting[p] - 1 /\ artStore'.todo = artStore.todo
      BY <1>5 DEF DeleteDone, Store
    <3>3. artStore.deleting[p] \in Nat
      BY DEF Store
    <3>. QED BY <3>1, <3>2, <3>3 DEF Inv, Current, Settled, Orderly, Recorded, Just, Made, Seedable
  <2>. QED BY <2>1, <2>2
<1>6. ASSUME NEW p \in ArtPaths, Load(p)
      PROVE  \A q \in ArtPaths : Inv(q)'
  <2>1. ASSUME NEW q \in ArtPaths, q # p
        PROVE  Inv(q)'
    BY <1>6, <2>1, Frame DEF Load, Settled, Inv, Orderly
  <2>2. Inv(p)'
    <3>1. /\ UNCHANGED <<artSetup, artDisk, artModules, artEntries, artStore, artPending, artCompile, artHistory, artVerify>>
          /\ artTasks'[p] = Begun(p)
      BY <1>6 DEF Load
    <3>2. /\ Begun(p).at \notin InWork
          /\ Begun(p).at \in Consulting => ~artModules[p].here
          /\ Begun(p).at \in {"isFile", "read"} => ~(artStore.deleting[p] > 0)
      BY DEF Begun, Transform, InWork, Consulting
    <3>3. artStore.deleting[p] \in Nat
      BY DEF Store
    <3>. QED BY <3>1, <3>2, <3>3 DEF Inv, Current, Settled, Orderly, Recorded, Just, Made, Seedable
  <2>. QED BY <2>1, <2>2
<1>7. ASSUME NEW p \in ArtPaths, ConsultIsFile(p)
      PROVE  \A q \in ArtPaths : Inv(q)'
  <2>1. ASSUME NEW q \in ArtPaths, q # p
        PROVE  Inv(q)'
    BY <1>7, <2>1, Frame DEF ConsultIsFile, Settled, Inv, Orderly
  <2>2. Inv(p)'
    <3>1. /\ UNCHANGED <<artSetup, artDisk, artModules, artEntries, artStore, artPending, artCompile, artHistory, artVerify>>
          /\ artTasks[p].at = "isFile" \/ (artTasks[p].at = "delete" /\ artStore.deleting[p] = 0)
      BY <1>7 DEF ConsultIsFile
    <3>2. artTasks'[p].at \in {"source", "read"}
      BY <1>7 DEF ConsultIsFile, Task
    <3>. QED BY <3>1, <3>2 DEF Inv, Current, Settled, Orderly, Recorded, Just, Made, Seedable, InWork, Consulting
  <2>. QED BY <2>1, <2>2
<1>8. ASSUME NEW p \in ArtPaths, ConsultReads(p)
      PROVE  \A q \in ArtPaths : Inv(q)'
  <2>1. ASSUME NEW q \in ArtPaths, q # p
        PROVE  Inv(q)'
    BY <1>8, <2>1, Frame DEF ConsultReads, Settled, Inv, Orderly, Store
  <2>2. Inv(p)'
    <3>1. /\ UNCHANGED <<artSetup, artDisk, artEntries, artPending, artCompile, artHistory, artVerify>>
          /\ artTasks[p].at = "read" /\ artTasks'[p] = NoTransform
          /\ \/ artModules'[p] = artModules[p]
             \/ /\ artModules'[p] = Loaded(artEntries[p], artStore.recorded[p])
                /\ artEntries[p] # NoCode
      BY <1>8 DEF ConsultReads
    <3>2. /\ artStore'.recorded = artStore.recorded /\ artStore'.deleting = artStore.deleting
          /\ artStore'.todo = artStore.todo
      BY <1>8 DEF ConsultReads, Store
    <3>3. ~artModules[p].here
      BY <3>1 DEF Inv, Orderly, Consulting
    <3>4. /\ Loaded(artEntries[p], artStore.recorded[p]).code = artEntries[p]
          /\ Loaded(artEntries[p], artStore.recorded[p]).imports = artStore.recorded[p]
      BY DEF Loaded
    <3>5. NoTransform.at = "none"
      BY DEF NoTransform
    <3>6. Current(p)'
      BY <3>1, <3>3, <3>4, <3>5 DEF Inv, Current, Settled, InWork
    <3>7. Orderly(p)' /\ Recorded(p)'
      BY <3>1, <3>2, <3>4, <3>5 DEF Inv, Orderly, Recorded, Consulting, Seedable
    <3>8. Just(p)'
      BY <3>1, <3>5 DEF Inv, Just, Made, InWork
    <3>. QED BY <3>6, <3>7, <3>8 DEF Inv
  <2>. QED BY <2>1, <2>2
<1>9. ASSUME NEW p \in ArtPaths, SourceRead(p)
      PROVE  \A q \in ArtPaths : Inv(q)'
  <2>1. ASSUME NEW q \in ArtPaths, q # p
        PROVE  Inv(q)'
    BY <1>9, <2>1, Frame DEF SourceRead, Settled, Inv, Orderly
  <2>2. Inv(p)'
    <3>1. /\ UNCHANGED <<artSetup, artDisk, artEntries, artStore, artPending, artCompile, artHistory, artVerify>>
          /\ artTasks'[p].at = "compile" /\ artTasks'[p].rev = artDisk[p]
          /\ artModules'[p] = IF artModules[p].here THEN artModules[p] ELSE Uncompiled
      BY <1>9 DEF SourceRead
    <3>2. Uncompiled.code = NoCode /\ Uncompiled.imports = 0 /\ NoCode.rev = 0
      BY DEF Uncompiled, Loaded, NoCode
    <3>3. Current(p)' /\ Just(p)'
      BY <3>1, <3>2 DEF Inv, Current, Settled, Just, Made
    <3>4. Orderly(p)' /\ Recorded(p)'
      BY <3>1, <3>2 DEF Inv, Orderly, Recorded, Consulting, Seedable
    <3>. QED BY <3>3, <3>4 DEF Inv
  <2>. QED BY <2>1, <2>2
<1>10. ASSUME NEW p \in ArtPaths, Compiled(p)
      PROVE  \A q \in ArtPaths : Inv(q)'
  <2>1. ASSUME NEW q \in ArtPaths, q # p
        PROVE  Inv(q)'
    BY <1>10, <2>1, Frame DEF Compiled, Settled, Inv, Orderly
  <2>2. Inv(p)'
    <3>1. /\ UNCHANGED <<artSetup, artDisk, artEntries, artStore, artPending, artCompile, artHistory, artVerify>>
          /\ artTasks[p].at = "compile"
          /\ \/ artModules'[p] = artModules[p]
             \/ artModules'[p] = Loaded(Live(artTasks[p].rev), artTasks[p].rev)
      BY <1>10 DEF Compiled
    <3>2. artTasks'[p].at = "write" /\ artTasks'[p].rev = artTasks[p].rev
      BY <1>10 DEF Compiled, Task
    <3>3. LET m == Loaded(Live(artTasks[p].rev), artTasks[p].rev)
          IN  m.code.rev = artTasks[p].rev /\ m.imports = artTasks[p].rev /\ m.here
      BY DEF Loaded, Live
    <3>4. Current(p)' /\ Just(p)'
      BY <3>1, <3>2, <3>3 DEF Inv, Current, Settled, Just, Made, InWork
    <3>5. Orderly(p)' /\ Recorded(p)'
      BY <3>1, <3>2, <3>3 DEF Inv, Orderly, Recorded, Consulting, Seedable
    <3>. QED BY <3>4, <3>5 DEF Inv
  <2>. QED BY <2>1, <2>2
<1>11. ASSUME NEW p \in ArtPaths, CompileError(p)
      PROVE  \A q \in ArtPaths : Inv(q)'
  <2>1. ASSUME NEW q \in ArtPaths, q # p
        PROVE  Inv(q)'
    BY <1>11, <2>1, Frame DEF CompileError, Settled, Inv, Orderly
  <2>2. Inv(p)'
    <3>1. /\ UNCHANGED <<artSetup, artDisk, artModules, artEntries, artStore, artPending, artCompile, artHistory, artVerify>>
          /\ artTasks'[p].at = "none"
      BY <1>11 DEF CompileError, NoTransform
    <3>. QED BY <3>1 DEF Inv, Current, Settled, Orderly, Recorded, Just, Made, Seedable, InWork, Consulting
  <2>. QED BY <2>1, <2>2
<1>12. ASSUME NEW p \in ArtPaths, WrittenThrough(p)
      PROVE  \A q \in ArtPaths : Inv(q)'
  <2>1. ASSUME NEW q \in ArtPaths, q # p
        PROVE  Inv(q)'
    BY <1>12, <2>1, Frame DEF WrittenThrough, Settled, Inv, Orderly, Store
  <2>2. Inv(p)'
    <3>1. /\ UNCHANGED <<artSetup, artDisk, artModules, artPending, artCompile, artHistory, artVerify>>
          /\ artTasks[p].at = "write" /\ artTasks'[p].at = "none"
          /\ artEntries'[p].rev = artTasks[p].rev /\ artEntries'[p].genuine
      BY <1>12 DEF WrittenThrough, NoTransform, Live
    <3>2. /\ artStore'.recorded[p] = artTasks[p].rev /\ artStore'.deleting = artStore.deleting
          /\ artStore'.todo = artStore.todo
      BY <1>12 DEF WrittenThrough, Store
    <3>. QED BY <3>1, <3>2 DEF Inv, Current, Settled, Orderly, Recorded, Just, Made, Seedable, InWork, Consulting
  <2>. QED BY <2>1, <2>2
<1>13. ASSUME NEW p \in ArtPaths, ArtEdit(p)
      PROVE  \A q \in ArtPaths : Inv(q)'
  <2>1. ASSUME NEW q \in ArtPaths, q # p
        PROVE  Inv(q)'
    BY <1>13, <2>1, Frame DEF ArtEdit, Settled, Inv, Orderly, History
  <2>2. Inv(p)'
    <3>1. /\ UNCHANGED <<artSetup, artModules, artTasks, artEntries, artStore, artCompile, artVerify>>
          /\ p \in artPending'
      BY <1>13 DEF ArtEdit
    <3>2. /\ p \in artHistory'.edited /\ artHistory'.alarm = artHistory.alarm
          /\ artHistory'.raced = artHistory.raced
      BY <1>13 DEF ArtEdit, History
    <3>. QED BY <3>1, <3>2 DEF Inv, Current, Settled, Orderly, Recorded, Just, Seedable
  <2>. QED BY <2>1, <2>2
<1>14. CASE CompileEnds
  <2>1. /\ UNCHANGED <<artSetup, artDisk, artModules, artTasks, artEntries, artStore, artPending, artHistory>>
        /\ artCompile.at = "load" /\ artCompile'.at = "idle" /\ ~artCompile'.first
        /\ artVerify' \in {artVerify, [artVerify EXCEPT !.at = "scheduled"]}
    BY <1>14 DEF CompileEnds
  <2>2. artVerify' = artVerify \/ artVerify'.at = "scheduled"
    BY <2>1 DEF Verify
  <2>3. ASSUME NEW q \in ArtPaths
        PROVE  Inv(q)'
    <3>1. Current(q)' /\ Recorded(q)'
      BY <2>1 DEF Inv, Current, Settled, Recorded
    <3>2. Orderly(q)' /\ Just(q)'
      BY <2>1, <2>2 DEF Inv, Orderly, Just, Made, Seedable
    <3>. QED BY <3>1, <3>2 DEF Inv
  <2>. QED BY <2>3
<1>15. CASE FirstLoadAgain
  <2>1. ASSUME NEW q \in ArtPaths
        PROVE  Inv(q)'
    <3>1. /\ UNCHANGED <<artSetup, artDisk, artEntries, artStore, artVerify>>
          /\ artCompile.at = "idle" /\ artCompile.first /\ artModules'[q] = Absent
          /\ artCompile' = [artCompile EXCEPT !.at = "load"] /\ artPending' = {}
      BY <1>15 DEF FirstLoadAgain
    <3>2. artTasks'[q].at = artTasks[q].at /\ artTasks'[q].rev = artTasks[q].rev
      BY <1>15 DEF FirstLoadAgain, Task
    <3>3. /\ artHistory'.unnoticed = artHistory.unnoticed \cup artPending
          /\ artHistory'.edited = artHistory.edited /\ artHistory'.alarm = artHistory.alarm
          /\ artHistory'.raced = artHistory.raced
      BY <1>15 DEF FirstLoadAgain, History
    <3>4. ~Absent.here /\ Absent.code.rev = 0 /\ Absent.imports = 0
      BY DEF Absent, NoCode
    <3>5. Current(q)'
      BY <3>1, <3>2, <3>3, <3>4 DEF Inv, Current, Settled
    <3>6. Orderly(q)' /\ Recorded(q)'
      BY <3>1, <3>2, <3>3, <3>4 DEF Inv, Orderly, Recorded
    <3>7. Just(q)'
      BY <3>1, <3>2, <3>3 DEF Inv, Just, Made
    <3>. QED BY <3>5, <3>6, <3>7 DEF Inv
  <2>. QED BY <2>1
<1>16. CASE Update
  <2> DEFINE known == {p \in artPending : artModules[p].here}
             reset == {p \in known : artModules[p].code # NoCode}
  <2>1. /\ UNCHANGED <<artSetup, artDisk, artEntries, artVerify>>
        /\ artCompile.at = "idle" /\ ~artCompile.first
        /\ artCompile' = [artCompile EXCEPT !.at = "load"] /\ artPending' = {}
        /\ artStore' = Invalidated(artStore, reset)
        /\ \A q \in ArtPaths : artModules'[q] = IF q \in reset THEN Uncompiled ELSE artModules[q]
        /\ \A q \in ArtPaths : artTasks'[q] = IF q \in known \ Running THEN Begun(q) ELSE artTasks[q]
    BY <1>16 DEF Update
  <2>2. /\ artHistory'.unnoticed =
             (artHistory.unnoticed \ reset) \cup (artPending \ reset) \cup (reset \cap Running)
        /\ artHistory'.edited = artHistory.edited /\ artHistory'.alarm = artHistory.alarm
        /\ artHistory'.raced = artHistory.raced
    BY <1>16 DEF Update, History
  <2>3. /\ reset \subseteq known /\ known \subseteq artPending /\ reset \in SUBSET ArtPaths
        /\ \A q \in known : q \in ArtPaths /\ artModules[q].here
    OBVIOUS
  <2> HIDE DEF known, reset
  <2>4. /\ artStore'.todo = artStore.todo
        /\ \A q \in ArtPaths \ reset : /\ artStore'.deleting[q] = artStore.deleting[q]
                                      /\ artStore'.recorded[q] = artStore.recorded[q]
        /\ \A q \in reset : artStore'.deleting[q] = artStore.deleting[q] + 1
    BY <2>1, <2>3, InvalidatedDoes
  <2>5. ASSUME NEW q \in reset
        PROVE  Inv(q)'
    <3>1. /\ artModules'[q].code.rev = 0 /\ artModules'[q].imports = 0 /\ artModules'[q].here
          /\ q \in ArtPaths /\ q \in known /\ artModules[q].here
      BY <2>1, <2>3 DEF Uncompiled, Loaded, NoCode
    <3>2. artTasks[q].at \notin Consulting
      BY <3>1 DEF Inv, Orderly
    <3>3. artTasks'[q].at = "source" \/ (artTasks'[q] = artTasks[q] /\ q \in artHistory'.unnoticed)
      BY <2>1, <2>2, <3>1 DEF Begun, Transform
    <3>4. artStore'.deleting[q] # 0
      <4>1. artStore.deleting[q] \in Nat
        BY <3>1 DEF Store
      <4>. QED BY <2>4, <4>1
    <3>5. Current(q)'
      BY <2>1, <3>1, <3>3 DEF Current, Settled, InWork
    <3>6. Orderly(q)' /\ Recorded(q)'
      BY <2>1, <2>2, <2>4, <3>1, <3>2, <3>3, <3>4 DEF Inv, Orderly, Recorded, Consulting, Seedable
    <3>7. Just(q)'
      BY <2>1, <2>2, <3>1, <3>3 DEF Inv, Just, Made, InWork
    <3>. QED BY <3>5, <3>6, <3>7 DEF Inv
  <2>6. ASSUME NEW q \in ArtPaths \ reset
        PROVE  Inv(q)'
    <3>1. artModules'[q] = artModules[q] /\ (Settled(q)' => Settled(q))
      BY <2>1, <2>2 DEF Settled
    <3>2. artTasks'[q] = artTasks[q] \/ (artTasks'[q].at = "source" /\ artModules[q].here)
      BY <2>1, <2>3 DEF Begun, Transform
    <3>3. Current(q)'
      BY <2>1, <3>1, <3>2 DEF Inv, Current, InWork
    <3>4. Orderly(q)' /\ Recorded(q)'
      BY <2>1, <2>2, <2>4, <3>1, <3>2 DEF Inv, Orderly, Recorded, Consulting, Seedable
    <3>5. Just(q)'
      BY <2>1, <2>2, <3>1, <3>2 DEF Inv, Just, Made, InWork
    <3>. QED BY <3>3, <3>4, <3>5 DEF Inv
  <2>. QED BY <2>5, <2>6
\* The verification.
<1>17. ASSUME UNCHANGED <<artSetup, artDisk, artBundler, artEntries, artStore, artHistory>>,
              \A q \in ArtPaths : Just(q)'
       PROVE  \A q \in ArtPaths : Inv(q)'
  BY <1>17 DEF Inv, Current, Settled, Orderly, Recorded, Seedable
<1>18. CASE VerifyStarts
  <2>1. artVerify'.at = "source"
    BY <1>18 DEF VerifyStarts, Verify
  <2>. QED BY <1>17, <1>18, <2>1 DEF VerifyStarts, Inv, Just, Made
<1>19. ASSUME NEW p \in ArtPaths, VerifyReadsSource(p)
       PROVE  \A q \in ArtPaths : Inv(q)'
  <2>1. artVerify'.at = "entry" /\ artVerify'.path = {p} /\ artVerify'.source = artDisk[p]
    BY <1>19 DEF VerifyReadsSource, Verify
  <2>. QED BY <1>17, <1>19, <2>1 DEF VerifyReadsSource, Inv, Just, Made
<1>20. ASSUME NEW p \in ArtPaths, VerifyReadsEntry(p)
       PROVE  \A q \in ArtPaths : Inv(q)'
  <2>1. /\ UNCHANGED <<artSetup, artDisk, artBundler, artEntries, artStore, artHistory>>
        /\ artVerify.at = "entry" /\ p \in artVerify.path
    BY <1>20 DEF VerifyReadsEntry
  <2>2. /\ artVerify'.path = artVerify.path /\ artVerify'.source = artVerify.source
        /\ \/ artVerify'.at = "source"
           \/ artVerify'.at = "compare" /\ artVerify'.entry = artEntries[p] /\ artEntries[p] # NoCode
    BY <1>20 DEF VerifyReadsEntry, Verify
  <2>3. \A q \in artVerify.path : q = p
    BY <2>1 DEF OnePath
  <2>4. \A q \in ArtPaths : Just(q)'
    BY <2>1, <2>2, <2>3 DEF Inv, Just, Made
  <2>. QED BY <1>17, <2>1, <2>4
<1>21. ASSUME NEW p \in ArtPaths, VerifyCompares(p), artVerify.entry = Live(artVerify.source)
       PROVE  \A q \in ArtPaths : Inv(q)'
  <2>1. /\ UNCHANGED <<artSetup, artDisk, artBundler, artEntries, artStore, artHistory>>
    BY <1>21 DEF VerifyCompares
  <2>2. artVerify'.at = "source"
    BY <1>21 DEF VerifyCompares, Verify
  <2>. QED BY <1>17, <2>1, <2>2 DEF Inv, Just, Made
\* The section is condemned.
<1>22. ASSUME NEW p \in ArtPaths, VerifyCompares(p), artVerify.entry # Live(artVerify.source)
       PROVE  \A q \in ArtPaths : Inv(q)'
  <2> DEFINE raced == {q \in artStore.consumed : artTasks[q].at \in {"isFile", "read"}}
  <2>1. /\ UNCHANGED <<artSetup, artDisk, artBundler, artEntries>>
        /\ artVerify.at = "compare" /\ p \in artVerify.path /\ artStore' = Discarded(artStore)
    BY <1>22 DEF VerifyCompares
  <2>2. artVerify'.at = "none"
    BY <1>22 DEF VerifyCompares, Verify
  <2>3. /\ artHistory'.unnoticed = artHistory.unnoticed /\ artHistory'.edited = artHistory.edited
        /\ artHistory'.alarm = artHistory.alarm \cup {p}
        /\ artHistory'.raced = artHistory.raced \cup raced
    BY <1>22 DEF VerifyCompares, History
  <2>4. artSetup.entries[p] = "tampered" \/ p \in artHistory.edited
    <3>1. artVerify.entry \in Code
      BY DEF Verify
    <3>2. p \notin artHistory.edited => artVerify.source = artDisk[p] /\ Made(artVerify.entry, p)
      BY <2>1 DEF Inv, Just
    <3>3. artVerify.entry.genuine /\ artVerify.entry.rev = artVerify.source =>
            artVerify.entry = Live(artVerify.source)
      BY <3>1 DEF Code, Live
    <3>. QED BY <1>22, <3>2, <3>3 DEF Made
  <2>5. artStore.consumed \in SUBSET ArtPaths
    BY DEF Store
  <2>6. /\ artStore'.todo = artStore.todo
        /\ \A q \in ArtPaths \ artStore.consumed : /\ artStore'.deleting[q] = artStore.deleting[q]
                                                  /\ artStore'.recorded[q] = artStore.recorded[q]
        /\ \A q \in artStore.consumed : artStore'.deleting[q] = artStore.deleting[q] + 1
    <3>1. Invalidated(artStore, artStore.consumed) \in Store
      BY <2>5, InvalidatedDoes
    <3>2. /\ artStore'.todo = Invalidated(artStore, artStore.consumed).todo
          /\ artStore'.deleting = Invalidated(artStore, artStore.consumed).deleting
          /\ artStore'.recorded = Invalidated(artStore, artStore.consumed).recorded
      BY <2>1, <3>1 DEF Discarded, Store
    <3>. QED BY <2>5, <3>2, InvalidatedDoes
  <2>7. ASSUME NEW q \in ArtPaths
        PROVE  Inv(q)'
    <3>1. Current(q)'
      BY <2>1, <2>3 DEF Inv, Current, Settled
    <3>2. Orderly(q)'
      BY <2>1, <2>6 DEF Inv, Orderly, Seedable
    <3>3. Recorded(q)'
      <4>1. artStore.deleting[q] \in Nat
        BY DEF Store
      <4>2. q \in artStore.consumed => artStore'.deleting[q] # 0
        BY <2>6, <4>1
      <4>. QED BY <2>1, <2>3, <2>6, <4>2 DEF Inv, Recorded
    <3>4. Just(q)'
      BY <2>1, <2>2, <2>3, <2>4 DEF Inv, Just, Made
    <3>. QED BY <3>1, <3>2, <3>3, <3>4 DEF Inv
  <2>. QED BY <2>7
<1>23. CASE UNCHANGED artVars
  BY <1>23, Frame DEF artVars, Settled, Inv, Orderly
<1>. QED BY <1>1, <1>2, <1>3, <1>4, <1>5, <1>6, <1>7, <1>8, <1>9, <1>10, <1>11, <1>12, <1>13,
            <1>14, <1>15, <1>16, <1>18, <1>19, <1>20, <1>21, <1>22, <1>23 DEF ArtNext

\* For any app, cache zip, edits and failures: a module holds the code of its source, the imports
\* of its code, and no artifact is condemned that was neither tampered with nor edited under the
\* check, but for the changes and the race the property names (ArtifactStore.seed, consult,
\* writeThrough, invalidate, verify).
THEOREM ServedStaysCurrent == ArtSpec => []ServedIsCurrent
<1> DEFINE I == Typed /\ OnePath /\ \A p \in ArtPaths : Inv(p)
<1>1. ArtInit => I
  BY InitTyped, InitInv
<1>2. I /\ [ArtNext]_artVars => I'
  BY StepTyped, StepInv
<1>3. I => ServedIsCurrent
  BY DEF Inv, Current, Settled, Recorded, Just, ServedIsCurrent, HeldIsCurrent, HeldKnowsImports,
         AlarmIsJust, Typed, History
<1>. QED BY <1>1, <1>2, <1>3, PTL DEF ArtSpec
=============================================================================
