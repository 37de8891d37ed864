--------------------------- MODULE DepTreeProofs ---------------------------
(***************************************************************************)
(* Proofs about DepTree for every registry, every query, every set of pins *)
(* and every limit.                                                        *)
(***************************************************************************)
EXTENDS DepTree, FiniteSetTheorems, TLAPS

-----------------------------------------------------------------------------
(* The state space *)

\* Requests asks for packages at ranges.
LEMMA RequestsType ==
  ASSUME NEW n \in Names, NEW r \in Releases, NEW entries \in SUBSET Entries
  PROVE  Requests(n, r, entries) \subseteq Request
<1>1. \A m \in Names : Imported(n, r, entries, m) \subseteq Entries
  BY RegistryAssumption DEF Imported
<1>2. \A m \in Names : Declares[n][r][m] \in Ranges
  BY RegistryAssumption
<1>. QED BY <1>1, <1>2 DEF Requests, Request

\* What a request leaves of its name is a name's state.
LEMMA RecordedType ==
  ASSUME TypeOK, NEW q \in Request
  PROVE  Recorded(q) \in NameState
BY DEF TypeOK, Recorded, NameState, Request, Unknown

\* The task that resolves the new name of q, and the one that expands the
\* entries q adds to a resolved name.
Resolution(q, t) ==
  /\ ~states[q.name].known /\ ~Skipped(q.name)
  /\ t \in Task /\ t.name = q.name /\ t.todo = {} /\ t.expands = {}
  /\ t.phase = "resolving" /\ t.range = RangeOf(q) /\ t.range \in Ranges
Expansion(q, t) ==
  /\ states[q.name].known /\ states[q.name].release # None /\ Added(q) # {}
  /\ t \in Task /\ t.name = q.name /\ t.todo = {} /\ t.expands = Added(q)
  /\ t.phase = "expanding" /\ t.range = None /\ t.release = states[q.name].release

\* A request spawns one of them, or nothing because there is nothing to do now.
LEMMA SpawnedCases ==
  ASSUME TypeOK, NEW q \in Request
  PROVE  \/ /\ Spawned(q) = <<>>
            /\ \/ states[q.name].known /\ (Added(q) = {} \/ states[q.name].release = None)
               \/ ~states[q.name].known /\ Skipped(q.name)
         \/ \E t \in Task : Spawned(q) = <<t>> /\ (Resolution(q, t) \/ Expansion(q, t))
<1> DEFINE task == [name |-> q.name, range |-> None, release |-> states[q.name].release,
                    expands |-> Added(q), todo |-> {}, phase |-> "expanding"]
           new == [task EXCEPT !.range = RangeOf(q), !.expands = {}, !.phase = "resolving"]
<1>1. q.name \in Names /\ q.range \in Ranges /\ q.entries \subseteq Entries
  BY DEF Request
<1>2. states[q.name] \in NameState
  BY <1>1 DEF TypeOK
<1>3. task \in Task
  BY <1>1, <1>2 DEF Task, NameState, Added
<1>4. RangeOf(q) \in Ranges
  BY <1>1, QueryAssumption DEF RangeOf
<1>5. /\ new \in Task /\ new.name = q.name /\ new.todo = {} /\ new.phase = "resolving"
      /\ new.range = RangeOf(q) /\ new.expands = {}
  BY <1>1, <1>2, <1>4 DEF Task, NameState
<1>6. CASE states[q.name].known
  <2>1. CASE Added(q) = {} \/ states[q.name].release = None
    BY <1>6, <2>1 DEF Spawned
  <2>2. CASE ~(Added(q) = {} \/ states[q.name].release = None)
    <3>1. Spawned(q) = <<task>>
      BY <1>6, <2>2 DEF Spawned
    <3>. QED BY <3>1, <1>3, <1>6, <2>2 DEF Expansion
  <2>. QED BY <2>1, <2>2
<1>7. CASE ~states[q.name].known
  <2>1. CASE Skipped(q.name)
    BY <1>7, <2>1 DEF Spawned
  <2>2. CASE ~Skipped(q.name)
    <3>1. Spawned(q) = <<new>>
      BY <1>7, <2>2 DEF Spawned
    <3>. QED BY <3>1, <1>4, <1>5, <1>7, <2>2 DEF Resolution
  <2>. QED BY <2>1, <2>2
<1>. QED BY <1>6, <1>7

-----------------------------------------------------------------------------
(* What the steps do, without the sequence of tasks *)

\* What AddRoot and TaskAdds have in common: request q is added, at most one
\* task appears, and no other task loses a request it has yet to add.
AddStep(q) ==
  /\ q \in Request
  /\ q \in rest \/ \E i \in DOMAIN tasks : tasks[i].phase = "adding" /\ q \in tasks[i].todo
  /\ states' = [states EXCEPT ![q.name] = Recorded(q)]
  /\ tasks' \in Seq(Task)
  /\ Len(tasks') \in {Len(tasks), Len(tasks) + 1}
  /\ \A i \in DOMAIN tasks :
       /\ tasks'[i].name = tasks[i].name /\ tasks'[i].range = tasks[i].range
       /\ tasks'[i].release = tasks[i].release /\ tasks'[i].expands = tasks[i].expands
       /\ tasks'[i].phase = tasks[i].phase
       /\ tasks'[i].todo \subseteq tasks[i].todo
       /\ tasks[i].todo \ {q} \subseteq tasks'[i].todo
       /\ tasks[i].todo = {} \/ tasks[i].phase # "adding" => tasks'[i] = tasks[i]
  /\ \A i \in DOMAIN tasks' \ DOMAIN tasks : Resolution(q, tasks'[i]) \/ Expansion(q, tasks'[i])
  /\ Len(tasks') = Len(tasks) =>
       \/ states[q.name].known /\ (Added(q) = {} \/ states[q.name].release = None)
       \/ ~states[q.name].known /\ Skipped(q.name)
  /\ rest' \subseteq rest /\ rest \ {q} \subseteq rest'
  /\ UNCHANGED <<joined, error, result, faults>>

\* Adding a request that spawns after the tasks ts.
LEMMA SpawnAfter ==
  ASSUME TypeOK, NEW q \in Request, NEW ts \in Seq(Task), Len(ts) = Len(tasks),
         tasks' = ts \o Spawned(q)
  PROVE  /\ tasks' \in Seq(Task)
         /\ Len(tasks') \in {Len(tasks), Len(tasks) + 1}
         /\ \A i \in DOMAIN tasks : tasks'[i] = ts[i]
         /\ \A i \in DOMAIN tasks' \ DOMAIN tasks : Resolution(q, tasks'[i]) \/ Expansion(q, tasks'[i])
         /\ Len(tasks') = Len(tasks) =>
              \/ states[q.name].known /\ (Added(q) = {} \/ states[q.name].release = None)
              \/ ~states[q.name].known /\ Skipped(q.name)
<1>0. tasks \in Seq(Task) /\ Len(tasks) \in Nat
  BY DEF TypeOK
<1>1. CASE Spawned(q) = <<>>
  <2>1. tasks' = ts
    BY <1>1
  <2>2. \A t : Spawned(q) # <<t>>
    BY <1>1
  <2>. QED BY <1>0, <2>1, <2>2, SpawnedCases
<1>2. ASSUME NEW t \in Task, Spawned(q) = <<t>>, Resolution(q, t) \/ Expansion(q, t)
      PROVE  /\ tasks' \in Seq(Task) /\ Len(tasks') = Len(tasks) + 1
             /\ \A i \in DOMAIN tasks : tasks'[i] = ts[i]
             /\ \A i \in DOMAIN tasks' \ DOMAIN tasks : tasks'[i] = t
  BY <1>0, <1>2
<1>. QED BY <1>0, <1>1, <1>2, SpawnedCases

LEMMA AddRootStep ==
  ASSUME TypeOK, NEW q \in rest, AddRoot(q)
  PROVE  AddStep(q)
<1>1. tasks \in Seq(Task) /\ q \in Request /\ tasks' = tasks \o Spawned(q)
  BY DEF TypeOK, AddRoot
<1>. QED BY <1>1, SpawnAfter DEF AddStep, AddRoot

LEMMA TaskAddsStep ==
  ASSUME TypeOK, NEW i \in DOMAIN tasks, NEW q \in tasks[i].todo, TaskAdds(i, q)
  PROVE  AddStep(q)
<1> DEFINE ts == [tasks EXCEPT ![i].todo = @ \ {q}]
<1>1. tasks \in Seq(Task)
  BY DEF TypeOK
<1>2. tasks[i] \in Task
  BY <1>1
<1>3. q \in Request
  BY <1>2 DEF Task
<1>4. ts[i] = [tasks[i] EXCEPT !.todo = @ \ {q}] /\ \A j \in DOMAIN tasks : j # i => ts[j] = tasks[j]
  BY <1>1
<1>5. /\ ts[i] \in Task /\ ts[i].todo = tasks[i].todo \ {q}
      /\ ts[i].name = tasks[i].name /\ ts[i].range = tasks[i].range
      /\ ts[i].release = tasks[i].release /\ ts[i].expands = tasks[i].expands
      /\ ts[i].phase = tasks[i].phase
  BY <1>2, <1>4 DEF Task
<1>6. ts \in Seq(Task) /\ Len(ts) = Len(tasks)
  BY <1>1, <1>5
<1>7. tasks' = ts \o Spawned(q)
  BY DEF TaskAdds
<1> HIDE DEF ts
<1>8. \A j \in DOMAIN tasks : tasks'[j] = ts[j]
  BY <1>3, <1>6, <1>7, SpawnAfter
<1>. QED BY <1>3, <1>4, <1>5, <1>6, <1>7, <1>8, SpawnAfter DEF AddStep, TaskAdds

\* A task that goes on with release r, and one that fails; the others stay.
Follows(i, r, entries) ==
  /\ tasks' \in Seq(Task) /\ Len(tasks') = Len(tasks)
  /\ \A j \in DOMAIN tasks : j # i => tasks'[j] = tasks[j]
  /\ tasks'[i].name = tasks[i].name /\ tasks'[i].range = tasks[i].range
  /\ tasks'[i].release = r /\ tasks'[i].expands = entries
  /\ tasks'[i].todo = Requests(tasks[i].name, r, entries) /\ tasks'[i].phase = "adding"
Fails(i) ==
  /\ tasks' \in Seq(Task) /\ Len(tasks') = Len(tasks)
  /\ \A j \in DOMAIN tasks : j # i => tasks'[j] = tasks[j]
  /\ tasks'[i].name = tasks[i].name /\ tasks'[i].range = tasks[i].range
  /\ tasks'[i].release = tasks[i].release /\ tasks'[i].expands = tasks[i].expands
  /\ tasks'[i].todo = tasks[i].todo /\ tasks'[i].phase = "failed"

LEMMA FollowStep ==
  ASSUME TypeOK, NEW i \in DOMAIN tasks, NEW r \in Releases, NEW entries \in SUBSET Entries,
         Follow(i, r, entries)
  PROVE  Follows(i, r, entries)
<1>1. tasks \in Seq(Task)
  BY DEF TypeOK
<1>2. tasks[i] \in Task
  BY <1>1
<1> DEFINE t == [name |-> tasks[i].name, range |-> tasks[i].range, release |-> r,
                 expands |-> entries, todo |-> Requests(tasks[i].name, r, entries),
                 phase |-> "adding"]
<1>3. t \in Task
  BY <1>2, RequestsType DEF Task
<1>4. tasks' = [tasks EXCEPT ![i] = t]
  BY DEF Follow
<1>5. t.name = tasks[i].name /\ t.range = tasks[i].range /\ t.release = r /\ t.expands = entries
      /\ t.todo = Requests(tasks[i].name, r, entries) /\ t.phase = "adding"
  OBVIOUS
<1> HIDE DEF t
<1>. QED BY <1>1, <1>3, <1>4, <1>5 DEF Follows

LEMMA FailStep ==
  ASSUME TypeOK, NEW i \in DOMAIN tasks, Fail(i)
  PROVE  Fails(i)
<1>1. tasks \in Seq(Task) /\ tasks' = [tasks EXCEPT ![i].phase = "failed"]
  BY DEF TypeOK, Fail
<1>2. tasks[i] \in Task
  BY <1>1
<1> DEFINE t == [tasks[i] EXCEPT !.phase = "failed"]
<1>3. /\ t \in Task /\ t.name = tasks[i].name /\ t.range = tasks[i].range
      /\ t.release = tasks[i].release /\ t.expands = tasks[i].expands
      /\ t.todo = tasks[i].todo /\ t.phase = "failed"
  BY <1>2 DEF Task
<1>4. tasks' = [tasks EXCEPT ![i] = t]
  BY <1>1
<1> HIDE DEF t
<1>. QED BY <1>1, <1>3, <1>4 DEF Fails

\* The names known grow by the request's, and only below the limit.
LEMMA KnownGrows ==
  ASSUME TypeOK, NEW q \in Request, states' = [states EXCEPT ![q.name] = Recorded(q)]
  PROVE  /\ IsFiniteSet(Known) /\ IsFiniteSet(Known') /\ Known \subseteq Known'
         /\ Cardinality(Known) <= Cardinality(Known')
         /\ Cardinality(Known') <= Limit + 1
<1>1. IsFiniteSet(Known) /\ Cardinality(Known) \in Nat
  BY QueryAssumption, FS_Subset, FS_CardinalityType DEF Known
<1>2. q.name \in Names /\ states \in [Names -> NameState] /\ Cardinality(Known) <= Limit + 1
  BY DEF Request, TypeOK
<1>3. CASE Known' = Known
  BY <1>1, <1>2, <1>3
<1>4. CASE Known' # Known
  <2>1. \A n \in Names : n # q.name => states'[n] = states[n]
    BY <1>2
  <2>2. states'[q.name] = Recorded(q)
    BY <1>2
  <2>3. states[q.name].known => Recorded(q).known
    BY <1>2 DEF Recorded, NameState
  <2>4. ~states[q.name].known /\ Recorded(q).known
    BY <1>2, <1>4, <2>1, <2>2, <2>3 DEF Known, NameState
  <2>5. Known' = Known \cup {q.name} /\ q.name \notin Known
    BY <1>2, <2>1, <2>2, <2>4 DEF Known
  <2>6. ~Skipped(q.name)
    BY <2>4 DEF Recorded, Unknown
  <2>7. IsFiniteSet(Known') /\ Cardinality(Known') = Cardinality(Known) + 1
    BY <1>1, <2>5, FS_AddElement
  <2>. QED BY <1>1, <2>5, <2>6, <2>7, DepTreeBoundsAssumption DEF Skipped
<1>. QED BY <1>3, <1>4

-----------------------------------------------------------------------------
(* The inductive invariant of names and tasks *)

\* A task's name is known and records what the task expands; a resolving task's
\* name has no release, any other one goes on with its name's release.
Shape ==
  /\ rest \subseteq Roots
  /\ \A n \in Names : ~states[n].known => states[n] = Unknown
  /\ \A i \in DOMAIN tasks :
       LET t == tasks[i] IN
       /\ states[t.name].known /\ t.expands \subseteq states[t.name].entries
       /\ t.phase = "resolving" =>
            t.range \in Ranges /\ t.expands = {} /\ states[t.name].release = None
       /\ t.phase \in {"expanding", "adding"} =>
            t.release # None /\ states[t.name].release = t.release

\* A name without release has one task.
Alone ==
  \A i, j \in DOMAIN tasks :
    i # j /\ tasks[i].name = tasks[j].name => states[tasks[i].name].release # None

Core == TypeOK /\ Shape /\ Alone

LEMMA CoreInit == Init => Core
<1> SUFFICES ASSUME Init PROVE Core
  OBVIOUS
<1>1. Known = {}
  BY DEF Init, Known, Unknown
<1>2. Cardinality(Known) <= Limit + 1
  BY <1>1, FS_EmptySet, DepTreeBoundsAssumption
<1>3. Unknown \in NameState
  BY DEF NameState, Unknown
<1>4. states \in [Names -> NameState]
  BY <1>3 DEF Init
<1>5. tasks \in Seq(Task) /\ joined \in 0..Len(tasks)
  BY DEF Init
<1>6. TypeOK
  BY <1>2, <1>4, <1>5, QueryAssumption DEF Init, TypeOK
<1>. QED BY <1>6 DEF Init, Core, Shape, Alone, Unknown

\* A step adds a request, lets a task go on or fail, or leaves the tasks alone.
LEMMA StepCases ==
  ASSUME Core, [Next]_vars
  PROVE  \/ \E q \in Request : AddStep(q)
         \/ \E i \in DOMAIN tasks :
              \/ \E r \in Releases : Resolve(i, r) /\ Follows(i, r, states[tasks[i].name].entries)
              \/ /\ Expand(i) /\ tasks[i].release \in Releases
                 /\ Follows(i, tasks[i].release, tasks[i].expands)
              \/ Fail(i) /\ Fails(i)
         \/ Join \/ Return \/ UNCHANGED vars
<1>0. TypeOK /\ \A i \in DOMAIN tasks : tasks[i] \in Task
  BY DEF Core, TypeOK
<1>1. ASSUME NEW q \in rest, AddRoot(q)
      PROVE  AddStep(q) /\ q \in Request
  BY <1>0, <1>1, AddRootStep DEF AddStep
<1>2. ASSUME NEW i \in DOMAIN tasks, NEW q \in tasks[i].todo, TaskAdds(i, q)
      PROVE  AddStep(q) /\ q \in Request
  BY <1>0, <1>2, TaskAddsStep DEF AddStep
<1>3. ASSUME NEW i \in DOMAIN tasks, NEW r \in Releases, Resolve(i, r)
      PROVE  Follows(i, r, states[tasks[i].name].entries)
  <2>1. tasks[i].name \in Names /\ states[tasks[i].name].entries \in SUBSET Entries
    BY <1>0 DEF Task, TypeOK, NameState
  <2>. QED BY <1>0, <1>3, <2>1, FollowStep DEF Resolve
<1>4. ASSUME NEW i \in DOMAIN tasks, Expand(i)
      PROVE  tasks[i].release \in Releases /\ Follows(i, tasks[i].release, tasks[i].expands)
  <2>1. tasks[i].release # None /\ tasks[i].release \in Releases \cup {None}
        /\ tasks[i].expands \in SUBSET Entries
    BY <1>0, <1>4 DEF Core, Shape, Expand, Task
  <2>. QED BY <1>0, <1>4, <2>1, FollowStep DEF Expand
<1>5. ASSUME NEW i \in DOMAIN tasks, Fail(i)
      PROVE  Fails(i)
  BY <1>0, <1>5, FailStep
<1>. QED BY <1>1, <1>2, <1>3, <1>4, <1>5 DEF Next, Progress

LEMMA AddCore ==
  ASSUME Core, NEW q \in Request, AddStep(q)
  PROVE  Core'
<1>1. q.name \in Names /\ q.entries \subseteq Entries
  BY DEF Request
<1>2. /\ states \in [Names -> NameState] /\ states' \in [Names -> NameState]
      /\ states'[q.name] = Recorded(q) /\ \A n \in Names : n # q.name => states'[n] = states[n]
  BY <1>1, RecordedType DEF Core, TypeOK, AddStep
<1>3. \A i \in DOMAIN tasks : tasks[i].name \in Names
  <2>1. \A i \in DOMAIN tasks : tasks[i] \in Task
    BY DEF Core, TypeOK
  <2>. QED BY <2>1 DEF Task
<1>4. TypeOK'
  <2>1. Cardinality(Known') <= Limit + 1
    BY KnownGrows DEF Core, AddStep
  <2>2. /\ tasks' \in Seq(Task) /\ rest' \subseteq Request /\ joined' \in 0..Len(tasks')
        /\ error' \in BOOLEAN /\ result' \in {"none", "ok", "error"} /\ faults' \in Nat
    BY DEF Core, TypeOK, AddStep
  <2>. QED BY <1>2, <2>1, <2>2 DEF TypeOK
<1>5. \A n \in Names :
        /\ states[n].known => /\ states'[n].known /\ states'[n].release = states[n].release
                              /\ states[n].entries \subseteq states'[n].entries
        /\ ~states'[n].known => states'[n] = Unknown
  <2>1. ASSUME states[q.name].known
        PROVE  /\ states'[q.name].known /\ states'[q.name].release = states[q.name].release
               /\ states[q.name].entries \subseteq states'[q.name].entries
    BY <1>1, <1>2, <2>1 DEF Recorded, NameState
  <2>2. ASSUME ~states'[q.name].known
        PROVE  states'[q.name] = Unknown
    BY <1>1, <1>2, <2>1, <2>2 DEF Recorded, NameState, Unknown
  <2>. QED BY <1>1, <1>2, <2>1, <2>2 DEF Core, Shape
<1>6. ASSUME NEW i \in DOMAIN tasks' \ DOMAIN tasks, Resolution(q, tasks'[i])
      PROVE  /\ states'[q.name].known /\ states'[q.name].release = None
             /\ \A j \in DOMAIN tasks : tasks[j].name # q.name
  BY <1>1, <1>2, <1>6 DEF Recorded, Resolution, Unknown, Core, Shape
<1>7. ASSUME NEW i \in DOMAIN tasks' \ DOMAIN tasks, Expansion(q, tasks'[i])
      PROVE  /\ states'[q.name].known /\ states'[q.name].release = states[q.name].release
             /\ Added(q) \subseteq states'[q.name].entries
  BY <1>1, <1>2, <1>7 DEF Recorded, Expansion, Added, NameState
<1>8. Shape'
  <2>1. rest' \subseteq Roots
    BY DEF AddStep, Core, Shape
  <2>2. ASSUME NEW i \in DOMAIN tasks
        PROVE  Shape!3!(i)'
    BY <1>3, <1>5 DEF AddStep, Core, Shape
  <2>3. ASSUME NEW i \in DOMAIN tasks', i \notin DOMAIN tasks
        PROVE  Shape!3!(i)'
    BY <1>6, <1>7, <2>3 DEF AddStep, Resolution, Expansion
  <2>. QED BY <2>1, <2>2, <2>3, <1>5 DEF Shape
<1>9. Alone'
  <2> SUFFICES ASSUME NEW i \in DOMAIN tasks', NEW j \in DOMAIN tasks', i # j,
                      tasks'[i].name = tasks'[j].name
               PROVE  states'[tasks'[i].name].release # None
    BY DEF Alone
  <2>1. CASE i \in DOMAIN tasks /\ j \in DOMAIN tasks
    BY <2>1, <1>3, <1>5 DEF AddStep, Core, Shape, Alone
  <2>2. ASSUME NEW k \in DOMAIN tasks' \ DOMAIN tasks, NEW l \in DOMAIN tasks,
               tasks'[k].name = tasks'[l].name
        PROVE  states'[tasks'[k].name].release # None
    <3>1. CASE Resolution(q, tasks'[k])
      <4>1. tasks'[l].name = tasks[l].name
        BY DEF AddStep
      <4>2. tasks'[k].name = q.name
        BY <3>1 DEF Resolution
      <4>3. tasks[l].name # q.name
        BY <3>1, <1>6
      <4>. QED BY <2>2, <4>1, <4>2, <4>3
    <3>2. CASE Expansion(q, tasks'[k])
      BY <3>2, <1>7 DEF Expansion
    <3>. QED BY <3>1, <3>2 DEF AddStep
  <2>3. i \in DOMAIN tasks \/ j \in DOMAIN tasks
    BY DEF AddStep, Core, TypeOK
  <2>. QED BY <2>1, <2>2, <2>3
<1>. QED BY <1>4, <1>8, <1>9 DEF Core

LEMMA FollowCore ==
  ASSUME Core, NEW i \in DOMAIN tasks, NEW r \in Releases,
         \/ Resolve(i, r) /\ Follows(i, r, states[tasks[i].name].entries)
         \/ Expand(i) /\ r = tasks[i].release /\ Follows(i, r, tasks[i].expands)
  PROVE  Core'
<1>1. tasks[i] \in Task /\ r # None
  BY NoneAssumption DEF Core, TypeOK
<1>2. \A j \in DOMAIN tasks : tasks[j].name \in Names
  <2>1. \A j \in DOMAIN tasks : tasks[j] \in Task
    BY DEF Core, TypeOK
  <2>. QED BY <2>1 DEF Task
<1>3. states \in [Names -> NameState] /\ tasks \in Seq(Task)
  BY DEF Core, TypeOK
<1>4. /\ states' \in [Names -> NameState]
      /\ \A n \in Names : /\ states'[n].known = states[n].known
                          /\ states'[n].entries = states[n].entries
                          /\ n # tasks[i].name => states'[n] = states[n]
      /\ states'[tasks[i].name].release = r
  <2>1. CASE Resolve(i, r)
    BY <2>1, <1>2, <1>3 DEF Resolve, NameState
  <2>2. CASE Expand(i) /\ r = tasks[i].release
    BY <2>2, <1>2, <1>3 DEF Expand, Core, Shape
  <2>. QED BY <2>1, <2>2
<1>5. /\ UNCHANGED <<rest, joined, error, result, faults>>
      /\ tasks' \in Seq(Task) /\ Len(tasks') = Len(tasks)
      /\ \A j \in DOMAIN tasks : tasks'[j].name = tasks[j].name /\ (j # i => tasks'[j] = tasks[j])
      /\ tasks'[i].release = r /\ tasks'[i].phase = "adding"
      /\ tasks'[i].expands \subseteq states[tasks[i].name].entries
  BY DEF Resolve, Expand, Follows, Core, Shape
<1>6. DOMAIN tasks' = DOMAIN tasks
  BY <1>3, <1>5
<1>7. TypeOK'
  <2>1. Known' = Known
    BY <1>4 DEF Known
  <2>. QED BY <2>1, <1>4, <1>5 DEF Core, TypeOK
<1>8. \A j \in DOMAIN tasks : j # i /\ tasks[j].name = tasks[i].name =>
        tasks[j].phase # "resolving" /\ (tasks[j].phase \in {"expanding", "adding"} => tasks[j].release = r)
  <2>1. CASE Resolve(i, r)
    BY <2>1 DEF Resolve, Core, Shape, Alone
  <2>2. CASE Expand(i) /\ r = tasks[i].release
    BY <2>2 DEF Expand, Core, Shape
  <2>. QED BY <2>1, <2>2
<1>9. Shape'
  <2>1. ASSUME NEW n \in Names, ~states'[n].known
        PROVE  states'[n] = Unknown
    BY <2>1, <1>2, <1>4 DEF Core, Shape
  <2>2. ASSUME NEW j \in DOMAIN tasks, j # i
        PROVE  Shape!3!(j)'
    BY <2>2, <1>2, <1>4, <1>5, <1>8 DEF Core, Shape
  <2>3. Shape!3!(i)'
    BY <1>1, <1>2, <1>4, <1>5 DEF Core, Shape
  <2>. QED BY <2>1, <2>2, <2>3, <1>5, <1>6 DEF Core, Shape
<1>10. Alone'
  BY <1>1, <1>2, <1>4, <1>5, <1>6 DEF Core, Alone
<1>. QED BY <1>7, <1>9, <1>10 DEF Core

LEMMA FailCore ==
  ASSUME Core, NEW i \in DOMAIN tasks, Fail(i), Fails(i)
  PROVE  Core'
<1>1. /\ UNCHANGED <<states, rest, joined, result>> /\ error' = TRUE /\ faults' \in Nat
  BY DEF Fail, Core, TypeOK
<1>2. tasks \in Seq(Task) /\ DOMAIN tasks' = DOMAIN tasks
  BY DEF Core, TypeOK, Fails
<1>3. TypeOK'
  <2>1. Known' = Known
    BY <1>1 DEF Known
  <2>. QED BY <2>1, <1>1 DEF Core, TypeOK, Fails
<1>4. Shape'
  <2>1. ASSUME NEW j \in DOMAIN tasks
        PROVE  Shape!3!(j)'
    BY <1>1 DEF Fails, Core, Shape
  <2>. QED BY <2>1, <1>1, <1>2 DEF Core, Shape
<1>5. Alone'
  BY <1>1, <1>2 DEF Fails, Core, Alone
<1>. QED BY <1>3, <1>4, <1>5 DEF Core

\* Names and tasks fit together throughout.
LEMMA CoreStep == Core /\ [Next]_vars => Core'
<1> SUFFICES ASSUME Core, [Next]_vars PROVE Core'
  OBVIOUS
<1>1. ASSUME UNCHANGED <<states, tasks, rest, error, faults>>, joined' \in 0..Len(tasks),
             result' \in {"none", "ok", "error"}
      PROVE  Core'
  <2>1. TypeOK'
    BY <1>1 DEF Core, TypeOK, Known
  <2>. QED BY <2>1, <1>1 DEF Core, Shape, Alone
<1>2. CASE Join \/ Return \/ UNCHANGED vars
  BY <1>1, <1>2 DEF Join, Return, vars, Core, TypeOK
<1>. QED BY <1>2, AddCore, FollowCore, FailCore, StepCases

\* Every state of the collection is a state of its types, and no more names are
\* known than the limit and the one that exceeds it.
THEOREM TypeCorrect == Spec => []TypeOK
<1>1. Core => TypeOK
  BY DEF Core
<1>. QED BY CoreInit, CoreStep, <1>1, PTL DEF Spec

-----------------------------------------------------------------------------
(* What steps do to names *)

LEMMA TaskNames ==
  ASSUME Core
  PROVE  /\ tasks \in Seq(Task) /\ \A i \in DOMAIN tasks : tasks[i] \in Task /\ tasks[i].name \in Names
         /\ states \in [Names -> NameState]
<1>1. tasks \in Seq(Task) /\ \A i \in DOMAIN tasks : tasks[i] \in Task
  BY DEF Core, TypeOK
<1>. QED BY <1>1 DEF Core, TypeOK, Task

\* A request adds its entries to its name, unless the name is not followed.
LEMMA AddNames ==
  ASSUME Core, NEW q \in Request, AddStep(q)
  PROVE  /\ q.name \in Names
         /\ \A n \in Names : /\ states'[n].release = states[n].release
                             /\ states[n].known => states'[n].known
                             /\ states[n].entries \subseteq states'[n].entries
                             /\ n # q.name => states'[n] = states[n]
         /\ states'[q.name].known => states'[q.name].entries = states[q.name].entries \cup q.entries
         /\ states'[q.name].known <=> states[q.name].known \/ ~Skipped(q.name)
<1>1. q.name \in Names /\ states \in [Names -> NameState]
  BY DEF Request, Core, TypeOK
<1>2. states'[q.name] = Recorded(q) /\ \A n \in Names : n # q.name => states'[n] = states[n]
  BY <1>1 DEF AddStep
<1>3. CASE states[q.name].known
  BY <1>1, <1>2, <1>3 DEF Recorded, NameState
<1>4. CASE ~states[q.name].known
  <2>1. states[q.name] = Unknown
    BY <1>1, <1>4 DEF Core, Shape
  <2>2. CASE Skipped(q.name)
    BY <1>1, <1>2, <1>4, <2>1, <2>2 DEF Recorded, Unknown
  <2>3. CASE ~Skipped(q.name)
    <3>1. Recorded(q).known /\ Recorded(q).release = None /\ Recorded(q).entries = q.entries
      BY <1>4, <2>3 DEF Recorded, Unknown
    <3>2. states[q.name].release = None /\ states[q.name].entries = {}
      BY <2>1 DEF Unknown
    <3>. QED BY <1>1, <1>2, <1>4, <2>3, <3>1, <3>2
  <2>. QED BY <2>2, <2>3
<1>. QED BY <1>3, <1>4

\* A task that goes on fixes the release of its name, or finds it fixed.
LEMMA FollowNames ==
  ASSUME Core, NEW i \in DOMAIN tasks, NEW r \in Releases,
         \/ Resolve(i, r) /\ Follows(i, r, states[tasks[i].name].entries)
         \/ Expand(i) /\ r = tasks[i].release /\ Follows(i, r, tasks[i].expands)
  PROVE  /\ \A n \in Names : /\ states'[n].known = states[n].known
                             /\ states'[n].entries = states[n].entries
                             /\ n # tasks[i].name => states'[n].release = states[n].release
         /\ states'[tasks[i].name].release = r
         /\ states[tasks[i].name].release # None => states[tasks[i].name].release = r
<1>1. tasks[i].name \in Names /\ states \in [Names -> NameState]
  BY TaskNames
<1>2. CASE Resolve(i, r)
  BY <1>1, <1>2 DEF Resolve, NameState, Core, Shape
<1>3. CASE Expand(i) /\ r = tasks[i].release
  BY <1>1, <1>3 DEF Expand, Core, Shape
<1>. QED BY <1>2, <1>3

-----------------------------------------------------------------------------
(* No work is done twice *)

\* A request expands only what no task of its name expands yet.
LEMMA AddNoWorkTwice ==
  ASSUME Core, NoWorkTwice, NEW q \in Request, AddStep(q)
  PROVE  NoWorkTwice'
<1>1. ASSUME NEW i \in DOMAIN tasks' \ DOMAIN tasks, NEW j \in DOMAIN tasks,
             tasks'[i].name = tasks'[j].name
      PROVE  tasks'[i].expands \cap tasks'[j].expands = {} /\ tasks'[i].range = None
  <2>1. tasks'[j].name = tasks[j].name /\ tasks'[j].expands = tasks[j].expands
    BY DEF AddStep
  <2>2. CASE Resolution(q, tasks'[i])
    <3>1. tasks'[i].name = q.name /\ ~states[q.name].known
      BY <2>2 DEF Resolution
    <3>. QED BY <1>1, <2>1, <3>1 DEF Core, Shape
  <2>3. CASE Expansion(q, tasks'[i])
    <3>1. tasks'[i].name = q.name /\ tasks'[i].expands = Added(q) /\ tasks'[i].range = None
      BY <2>3 DEF Expansion
    <3>2. tasks[j].expands \subseteq states[q.name].entries
      BY <1>1, <2>1, <3>1 DEF Core, Shape
    <3>. QED BY <2>1, <3>1, <3>2 DEF Added
  <2>. QED BY <2>2, <2>3 DEF AddStep
<1>2. ASSUME NEW i \in DOMAIN tasks', NEW j \in DOMAIN tasks', i # j
      PROVE  i \in DOMAIN tasks \/ j \in DOMAIN tasks
  BY <1>2 DEF AddStep, Core, TypeOK
<1>3. \A i, j \in DOMAIN tasks : i # j /\ tasks'[i].name = tasks'[j].name =>
        /\ tasks'[i].expands \cap tasks'[j].expands = {}
        /\ tasks'[i].range = None \/ tasks'[j].range = None
  BY DEF AddStep, NoWorkTwice
<1>. QED BY <1>1, <1>2, <1>3 DEF NoWorkTwice

\* A task expands its entries alone, whatever the interleaving.
THEOREM NoWorkRepeated == Spec => []NoWorkTwice
<1>1. Init => NoWorkTwice
  BY DEF Init, NoWorkTwice
<1>2. Core /\ NoWorkTwice /\ [Next]_vars => NoWorkTwice'
  <2> SUFFICES ASSUME Core, NoWorkTwice, [Next]_vars PROVE NoWorkTwice'
    OBVIOUS
  <2>1. ASSUME NEW i \in DOMAIN tasks, NEW r \in Releases,
               \/ Resolve(i, r) /\ Follows(i, r, states[tasks[i].name].entries)
               \/ Expand(i) /\ r = tasks[i].release /\ Follows(i, r, tasks[i].expands)
        PROVE  NoWorkTwice'
    <3>1. DOMAIN tasks' = DOMAIN tasks
      BY <2>1 DEF Follows, Core, TypeOK
    <3>2. CASE Resolve(i, r) /\ Follows(i, r, states[tasks[i].name].entries)
      <4>1. \A j \in DOMAIN tasks : j # i => tasks[j].name # tasks[i].name
        BY <3>2 DEF Resolve, Core, Shape, Alone
      <4>. QED BY <3>1, <3>2, <4>1 DEF Follows, NoWorkTwice
    <3>3. CASE Expand(i) /\ Follows(i, r, tasks[i].expands)
      BY <3>1, <3>3 DEF Follows, NoWorkTwice
    <3>. QED BY <2>1, <3>2, <3>3
  <2>2. ASSUME NEW i \in DOMAIN tasks, Fails(i)
        PROVE  NoWorkTwice'
    <3>1. DOMAIN tasks' = DOMAIN tasks
      BY <2>2 DEF Fails, Core, TypeOK
    <3>. QED BY <2>2, <3>1 DEF Fails, NoWorkTwice
  <2>3. CASE Join \/ Return \/ UNCHANGED vars
    BY <2>3 DEF Join, Return, vars, NoWorkTwice
  <2>. QED BY <2>1, <2>2, <2>3, AddNoWorkTwice, StepCases
<1>. QED BY <1>1, <1>2, CoreInit, CoreStep, PTL DEF Spec

-----------------------------------------------------------------------------
(* The answer waits for every task *)

\* Joined tasks are done, and with the answer all are joined.
Joining ==
  /\ \A i \in 1..joined : Done(tasks[i])
  /\ result # "none" => rest = {} /\ joined = Len(tasks)

\* After the answer nothing moves.
LEMMA Answered ==
  ASSUME Core, Joining, result # "none"
  PROVE  /\ rest = {} /\ \A i \in DOMAIN tasks : Done(tasks[i])
         /\ \A q \in Request : ~AddStep(q)
         /\ \A i \in DOMAIN tasks : ~Fail(i) /\ ~Expand(i) /\ \A r \in Releases : ~Resolve(i, r)
<1>1. rest = {} /\ \A i \in DOMAIN tasks : Done(tasks[i])
  BY TaskNames DEF Joining
<1>. QED BY <1>1 DEF Done, AddStep, Fail, Expand, Resolve

LEMMA JoiningStep == Core /\ Joining /\ [Next]_vars => Joining'
<1> SUFFICES ASSUME Core, Joining, [Next]_vars PROVE Joining'
  OBVIOUS
<1>0. tasks \in Seq(Task) /\ joined \in 0..Len(tasks) /\ 1..joined \subseteq DOMAIN tasks
  BY DEF Core, TypeOK
<1>1. ASSUME NEW q \in Request, AddStep(q)
      PROVE  Joining'
  <2>1. result = "none" /\ result' = "none" /\ joined' = joined
    BY <1>1, Answered DEF AddStep
  <2>2. \A i \in 1..joined : tasks'[i] = tasks[i]
    BY <1>0, <1>1 DEF AddStep, Joining, Done
  <2>. QED BY <2>1, <2>2 DEF Joining
<1>2. ASSUME NEW i \in DOMAIN tasks, tasks[i].phase \in {"resolving", "expanding"},
             UNCHANGED <<joined, result, rest>>,
             \A j \in DOMAIN tasks : j # i => tasks'[j] = tasks[j], result = "none"
      PROVE  Joining'
  BY <1>0, <1>2 DEF Joining, Done
<1>3. ASSUME NEW i \in DOMAIN tasks, NEW r \in Releases,
             Resolve(i, r) /\ Follows(i, r, states[tasks[i].name].entries)
      PROVE  Joining'
  BY <1>2, <1>3, Answered DEF Resolve, Follows
<1>4. ASSUME NEW i \in DOMAIN tasks, Expand(i), Follows(i, tasks[i].release, tasks[i].expands)
      PROVE  Joining'
  BY <1>2, <1>4, Answered DEF Expand, Follows
<1>5. ASSUME NEW i \in DOMAIN tasks, Fail(i), Fails(i)
      PROVE  Joining'
  BY <1>2, <1>5, Answered DEF Fail, Fails
<1>6. CASE Join
  BY <1>0, <1>6 DEF Join, Joining
<1>7. CASE Return
  BY <1>7 DEF Return, Joining
<1>8. CASE UNCHANGED vars
  BY <1>8 DEF vars, Joining
<1>. QED BY <1>1, <1>3, <1>4, <1>5, <1>6, <1>7, <1>8, StepCases

\* The collection answers when none of its tasks runs any more.
THEOREM NoTaskLeftBehind == Spec => []NoTaskLeft
<1>1. Init => Joining
  BY DEF Init, Joining
<1>2. Core /\ Joining => NoTaskLeft
  BY Answered DEF NoTaskLeft
<1>. QED BY <1>1, <1>2, CoreInit, CoreStep, JoiningStep, PTL DEF Spec

-----------------------------------------------------------------------------
(* Pins win *)

\* A pinned name is resolved in the range of its pin.
Pinned ==
  \A i \in DOMAIN tasks :
    tasks[i].phase = "resolving" /\ Pins[tasks[i].name] # None => tasks[i].range = Pins[tasks[i].name]

\* The pin of a name decides its release, for every pin of the query.
THEOREM PinsAlwaysWin == Spec => []PinsWin
<1>1. Init => Pinned /\ PinsWin
  BY DEF Init, Pinned, PinsWin, Known, Unknown
<1>2. Core /\ Pinned /\ PinsWin /\ [Next]_vars => Pinned' /\ PinsWin'
  <2> SUFFICES ASSUME Core, Pinned, PinsWin, [Next]_vars PROVE Pinned' /\ PinsWin'
    OBVIOUS
  <2>1. ASSUME NEW q \in Request, AddStep(q)
        PROVE  Pinned' /\ PinsWin'
    <3>1. ASSUME NEW i \in DOMAIN tasks' \ DOMAIN tasks, tasks'[i].phase = "resolving",
                 Pins[tasks'[i].name] # None
          PROVE  tasks'[i].range = Pins[tasks'[i].name]
      BY <2>1, <3>1 DEF AddStep, Resolution, Expansion, RangeOf
    <3>2. Pinned'
      BY <2>1, <3>1 DEF AddStep, Pinned
    <3>3. ASSUME NEW n \in Names, states'[n].known, states'[n].release # None
          PROVE  states[n].known
      <4>1. states[n].release # None
        BY <2>1, <3>3, AddNames
      <4>2. ~states[n].known => states[n] = Unknown
        BY DEF Core, Shape
      <4>. QED BY <4>1, <4>2 DEF Unknown
    <3>4. PinsWin'
      BY <2>1, <3>3, AddNames DEF PinsWin, Known
    <3>. QED BY <3>2, <3>4
  <2>2. ASSUME NEW i \in DOMAIN tasks, NEW r \in Releases,
               \/ Resolve(i, r) /\ Follows(i, r, states[tasks[i].name].entries)
               \/ Expand(i) /\ r = tasks[i].release /\ Follows(i, r, tasks[i].expands)
        PROVE  Pinned' /\ PinsWin'
    <3>1. DOMAIN tasks' = DOMAIN tasks /\ tasks'[i].phase = "adding"
          /\ \A j \in DOMAIN tasks : j # i => tasks'[j] = tasks[j]
      BY <2>2 DEF Follows, Core, TypeOK
    <3>2. Pinned'
      BY <3>1 DEF Pinned
    <3>3. Pins[tasks[i].name] # None => r \in Offers[tasks[i].name][Pins[tasks[i].name]]
      <4>1. CASE Resolve(i, r)
        BY <4>1 DEF Resolve, Pinned
      <4>2. CASE Expand(i) /\ r = tasks[i].release
        BY <4>2, TaskNames DEF Expand, PinsWin, Known, Core, Shape
      <4>. QED BY <2>2, <4>1, <4>2
    <3>4. PinsWin'
      BY <2>2, <3>3, FollowNames DEF PinsWin, Known
    <3>. QED BY <3>2, <3>4
  <2>3. ASSUME NEW i \in DOMAIN tasks, Fail(i), Fails(i)
        PROVE  Pinned' /\ PinsWin'
    <3>1. DOMAIN tasks' = DOMAIN tasks
      BY <2>3 DEF Fails, Core, TypeOK
    <3>. QED BY <2>3, <3>1 DEF Fail, Fails, Pinned, PinsWin, Known
  <2>4. CASE Join \/ Return \/ UNCHANGED vars
    BY <2>4 DEF Join, Return, vars, Pinned, PinsWin, Known
  <2>. QED BY <2>1, <2>2, <2>3, <2>4, StepCases
<1>. QED BY <1>1, <1>2, CoreInit, CoreStep, PTL DEF Spec

-----------------------------------------------------------------------------
(* Nothing is in the tree that no import needs *)

\* What is recorded, and what tasks have yet to add, is in every closed set.
Needed(S) ==
  /\ \A n \in Known : states[n].entries \subseteq S[n]
  /\ \A i \in DOMAIN tasks : \A q \in tasks[i].todo : q.entries \subseteq S[q.name]
AllNeeded == \A S \in [Names -> SUBSET Entries] : Closed(S) => Needed(S)

LEMMA AddNeeded ==
  ASSUME Core, AllNeeded, NEW q \in Request, AddStep(q)
  PROVE  AllNeeded'
<1> SUFFICES ASSUME NEW S \in [Names -> SUBSET Entries], Closed(S)' PROVE Needed(S)'
  BY DEF AllNeeded
<1>1. Closed(S)
  BY AddNames DEF Closed
<1>2. Needed(S)
  BY <1>1 DEF AllNeeded
<1>3. q.entries \subseteq S[q.name]
  <2>1. q \in rest => q \in Roots
    BY DEF Core, Shape
  <2>. QED BY <2>1, <1>1, <1>2 DEF AddStep, Closed, Needed
<1>4. ASSUME NEW n \in Names, states'[n].known
      PROVE  states'[n].entries \subseteq S[n]
  <2>1. states[n].entries \subseteq S[n]
    <3>1. ~states[n].known => states[n].entries = {}
      BY DEF Core, Shape, Unknown
    <3>. QED BY <1>2, <3>1 DEF Needed, Known
  <2>. QED BY <1>3, <1>4, <2>1, AddNames
<1>5. ASSUME NEW i \in DOMAIN tasks', NEW p \in tasks'[i].todo
      PROVE  p.entries \subseteq S[p.name]
  BY <1>2 DEF AddStep, Resolution, Expansion, Needed
<1>. QED BY <1>4, <1>5 DEF Needed, Known

LEMMA FollowNeeded ==
  ASSUME Core, AllNeeded, NEW i \in DOMAIN tasks, NEW r \in Releases,
         \/ Resolve(i, r) /\ Follows(i, r, states[tasks[i].name].entries)
         \/ Expand(i) /\ r = tasks[i].release /\ Follows(i, r, tasks[i].expands)
  PROVE  AllNeeded'
<1> SUFFICES ASSUME NEW S \in [Names -> SUBSET Entries], Closed(S)' PROVE Needed(S)'
  BY DEF AllNeeded
<1> DEFINE n == tasks[i].name
<1>0. n \in Names /\ r # None /\ states[n].known
  BY TaskNames, NoneAssumption DEF Core, Shape
<1>1. Closed(S)
  BY <1>0, FollowNames DEF Closed
<1>2. Needed(S)
  BY <1>1 DEF AllNeeded
<1>3. tasks'[i].expands \subseteq S[n] /\ tasks'[i].todo = Requests(n, r, tasks'[i].expands)
  BY <1>0, <1>2 DEF Follows, Needed, Known, Core, Shape
<1>4. \A e \in S[n] : \A m \in Names : Imports[n][r][e][m] \subseteq S[m]
  <2>1. states'[n].release = r
    BY FollowNames
  <2>. QED BY <1>0, <2>1 DEF Closed
<1>5. ASSUME NEW q \in tasks'[i].todo
      PROVE  q.entries \subseteq S[q.name]
  BY <1>3, <1>4 DEF Requests, Imported
<1>6. DOMAIN tasks' = DOMAIN tasks /\ \A j \in DOMAIN tasks : j # i => tasks'[j] = tasks[j]
  BY DEF Follows, Core, TypeOK
<1>. QED BY <1>2, <1>5, <1>6, FollowNames DEF Needed, Known

\* The tree holds only what the query and the imports of the resolved releases
\* ask for.
THEOREM NothingElse == Spec => []NothingUnneeded
<1>1. Init => AllNeeded
  BY DEF Init, AllNeeded, Needed, Known, Unknown
<1>2. Core /\ AllNeeded /\ [Next]_vars => AllNeeded'
  <2> SUFFICES ASSUME Core, AllNeeded, [Next]_vars PROVE AllNeeded'
    OBVIOUS
  <2>1. ASSUME NEW i \in DOMAIN tasks, Fail(i), Fails(i)
        PROVE  AllNeeded'
    <3>1. DOMAIN tasks' = DOMAIN tasks /\ \A j \in DOMAIN tasks : tasks'[j].todo = tasks[j].todo
      BY <2>1 DEF Fails, Core, TypeOK
    <3>. QED BY <2>1, <3>1 DEF Fail, AllNeeded, Needed, Closed, Known
  <2>2. CASE Join \/ Return \/ UNCHANGED vars
    BY <2>2 DEF Join, Return, vars, AllNeeded, Needed, Closed, Known
  <2>. QED BY <2>1, <2>2, AddNeeded, FollowNeeded, StepCases
<1>3. AllNeeded => NothingUnneeded
  BY DEF AllNeeded, Needed, NothingUnneeded
<1>. QED BY <1>1, <1>2, <1>3, CoreInit, CoreStep, PTL DEF Spec

-----------------------------------------------------------------------------
(* The tree is complete *)

\* Request q needs nothing more: its name is known with its entries, or never
\* followed.
Taken(q) == \A x \in q.entries : Followed(q.name, x)

\* Who still has to see to what is missing: the root requests not added, the
\* resolutions and expansions of names and entries, the requests of tasks.
Cover ==
  /\ \A q \in Roots : q \in rest \/ Taken(q)
  /\ \A n \in Known : states[n].release = None =>
       \E i \in DOMAIN tasks : tasks[i].name = n /\ tasks[i].phase \in {"resolving", "failed"}
  /\ \A n \in Known : \A e \in states[n].entries : states[n].release # None =>
       \E i \in DOMAIN tasks : tasks[i].name = n /\ e \in tasks[i].expands
  /\ \A i \in DOMAIN tasks : tasks[i].phase = "adding" =>
       \A q \in Requests(tasks[i].name, tasks[i].release, tasks[i].expands) :
         q \in tasks[i].todo \/ Taken(q)
  /\ (\E i \in DOMAIN tasks : tasks[i].phase = "failed") => error
  /\ result = "ok" => ~error

\* What is followed stays so: entries are never dropped, and a name refused once
\* is never taken.
LEMMA AddTaken ==
  ASSUME Core, NEW q \in Request, AddStep(q), NEW p \in Request
  PROVE  /\ Taken(p) => Taken(p)'
         /\ Taken(q)'
<1>1. q.name \in Names /\ p.name \in Names
  BY DEF Request
<1>2. \A n \in Names : Skipped(n) => Skipped(n)'
  <2>1. Cardinality(Known) \in Nat /\ Cardinality(Known') \in Nat
        /\ Cardinality(Known) <= Cardinality(Known')
    BY KnownGrows, FS_CardinalityType DEF Core, AddStep
  <2>. QED BY <2>1, DepTreeBoundsAssumption DEF Skipped
<1>3. ASSUME Taken(p)
      PROVE  Taken(p)'
  <2> SUFFICES ASSUME NEW x \in p.entries PROVE Followed(p.name, x)'
    BY DEF Taken
  <2>1. Followed(p.name, x)
    BY <1>3 DEF Taken
  <2>2. CASE states[p.name].known
    BY <1>1, <2>1, <2>2, AddNames DEF Followed
  <2>3. CASE ~states[p.name].known
    BY <1>1, <1>2, <2>1, <2>3, AddNames DEF Followed
  <2>. QED BY <2>2, <2>3
<1>4. Taken(q)'
  BY <1>1, <1>2, AddNames DEF Taken, Followed
<1>. QED BY <1>3, <1>4

LEMMA AddCover ==
  ASSUME Core, Joining, Cover, NEW q \in Request, AddStep(q)
  PROVE  Cover'
<1>1. result' = "none" /\ error' = error
  BY Answered DEF AddStep
<1>2. /\ DOMAIN tasks \subseteq DOMAIN tasks'
      /\ \A i \in DOMAIN tasks :
           /\ tasks'[i].name = tasks[i].name /\ tasks'[i].release = tasks[i].release
           /\ tasks'[i].expands = tasks[i].expands /\ tasks'[i].phase = tasks[i].phase
           /\ tasks[i].todo \subseteq tasks'[i].todo \cup {q}
      /\ \A i \in DOMAIN tasks' \ DOMAIN tasks : tasks'[i].phase \in {"resolving", "expanding"}
  BY TaskNames DEF AddStep, Resolution, Expansion
<1>3. Taken(q)' /\ \A p \in Request : Taken(p) => Taken(p)'
  BY AddTaken
<1>4. \A p \in Roots : p \in rest' \/ Taken(p)'
  BY <1>3, QueryAssumption DEF Cover, AddStep
<1>5. Len(tasks') # Len(tasks) =>
        \E i \in DOMAIN tasks' : Resolution(q, tasks'[i]) \/ Expansion(q, tasks'[i])
  <2>1. Len(tasks') # Len(tasks) => Len(tasks) + 1 \in DOMAIN tasks' \ DOMAIN tasks
    BY TaskNames DEF AddStep
  <2>. QED BY <2>1 DEF AddStep
<1>6. ASSUME NEW n \in Names, states'[n].known, states'[n].release = None
      PROVE  \E i \in DOMAIN tasks' : tasks'[i].name = n /\ tasks'[i].phase \in {"resolving", "failed"}
  <2>1. states[n].release = None
    BY <1>6, AddNames
  <2>2. CASE states[n].known
    BY <1>2, <2>1, <2>2 DEF Cover, Known
  <2>3. CASE ~states[n].known
    <3>1. n = q.name /\ ~Skipped(q.name) /\ ~states[q.name].known
      BY <1>6, <2>3, AddNames
    <3>2. Len(tasks') # Len(tasks)
      BY <3>1 DEF AddStep
    <3>. QED BY <1>5, <3>1, <3>2 DEF Resolution, Expansion
  <2>. QED BY <2>2, <2>3
<1>7. ASSUME NEW n \in Names, states'[n].known, NEW e \in states'[n].entries, states'[n].release # None
      PROVE  \E i \in DOMAIN tasks' : tasks'[i].name = n /\ e \in tasks'[i].expands
  <2>1. states[n].release # None /\ states[n].known
    <3>1. states[n].release # None
      BY <1>7, AddNames
    <3>. QED BY <3>1 DEF Core, Shape, Unknown
  <2>2. CASE e \in states[n].entries
    BY <1>2, <2>1, <2>2 DEF Cover, Known
  <2>3. CASE e \notin states[n].entries
    <3>1. n = q.name /\ e \in Added(q)
      BY <1>7, <2>3, AddNames DEF Added
    <3>2. Len(tasks') # Len(tasks)
      BY <2>1, <3>1 DEF AddStep
    <3>. QED BY <1>5, <2>1, <3>1, <3>2 DEF Resolution, Expansion
  <2>. QED BY <2>2, <2>3
<1>8. ASSUME NEW i \in DOMAIN tasks', tasks'[i].phase = "adding",
             NEW p \in Requests(tasks'[i].name, tasks'[i].release, tasks'[i].expands)
      PROVE  p \in tasks'[i].todo \/ Taken(p)'
  <2>1. i \in DOMAIN tasks /\ tasks[i].phase = "adding"
    BY <1>2, <1>8
  <2>2. tasks[i].release \in Releases /\ tasks[i].expands \in SUBSET Entries
    BY <2>1, TaskNames DEF Task, Core, Shape
  <2>3. p \in Request
    BY <1>2, <1>8, <2>1, <2>2, TaskNames, RequestsType
  <2>. QED BY <1>2, <1>3, <1>8, <2>1, <2>3 DEF Cover
<1>9. (\E i \in DOMAIN tasks' : tasks'[i].phase = "failed") => error
  BY <1>2 DEF Cover
<1>. QED BY <1>1, <1>4, <1>6, <1>7, <1>8, <1>9 DEF Cover, Known

LEMMA FollowCover ==
  ASSUME Core, Joining, Cover, NEW i \in DOMAIN tasks, NEW r \in Releases,
         \/ Resolve(i, r) /\ Follows(i, r, states[tasks[i].name].entries)
         \/ Expand(i) /\ r = tasks[i].release /\ Follows(i, r, tasks[i].expands)
  PROVE  Cover'
<1>1. /\ UNCHANGED <<rest, error, result>> /\ DOMAIN tasks' = DOMAIN tasks
      /\ \A j \in DOMAIN tasks : tasks'[j].name = tasks[j].name /\ (j # i => tasks'[j] = tasks[j])
      /\ tasks'[i].release = r /\ tasks'[i].phase = "adding"
      /\ tasks'[i].todo = Requests(tasks[i].name, r, tasks'[i].expands)
      /\ tasks[i].expands \subseteq tasks'[i].expands
  BY DEF Resolve, Expand, Follows, Core, Shape, TypeOK
<1>2. \A q \in Request : Taken(q) => Taken(q)'
  <2>1. Known' = Known
    BY FollowNames DEF Known
  <2>. QED BY <2>1, FollowNames DEF Request, Taken, Followed, Skipped
<1>3. r # None /\ tasks[i].name \in Names
  BY NoneAssumption, TaskNames
<1>4. ASSUME NEW n \in Names, states'[n].known, states'[n].release = None
      PROVE  \E j \in DOMAIN tasks : tasks'[j].name = n /\ tasks'[j].phase \in {"resolving", "failed"}
  <2>1. n # tasks[i].name /\ states[n].known /\ states[n].release = None
    BY <1>3, <1>4, FollowNames
  <2>. QED BY <1>1, <2>1 DEF Cover, Known
<1>5. ASSUME NEW n \in Names, states'[n].known, NEW e \in states'[n].entries, states'[n].release # None
      PROVE  \E j \in DOMAIN tasks : tasks'[j].name = n /\ e \in tasks'[j].expands
  <2>1. states[n].known /\ e \in states[n].entries
    BY <1>5, FollowNames
  <2>2. CASE states[n].release # None
    BY <1>1, <2>1, <2>2 DEF Cover, Known
  <2>3. CASE states[n].release = None
    <3>1. n = tasks[i].name
      BY <1>5, <2>3, FollowNames
    <3>2. ~Expand(i)
      BY <2>3, <3>1 DEF Expand, Core, Shape
    <3>. QED BY <1>1, <2>1, <3>1, <3>2 DEF Follows
  <2>. QED BY <2>2, <2>3
<1>6. ASSUME NEW j \in DOMAIN tasks, j # i, tasks[j].phase = "adding",
             NEW q \in Requests(tasks[j].name, tasks[j].release, tasks[j].expands)
      PROVE  q \in tasks[j].todo \/ Taken(q)'
  <2>1. tasks[j].release \in Releases /\ tasks[j].expands \in SUBSET Entries
    BY <1>6, TaskNames DEF Task, Core, Shape
  <2>2. q \in Request
    BY <2>1, <1>6, TaskNames, RequestsType
  <2>. QED BY <1>2, <1>6, <2>2 DEF Cover
<1>7. ASSUME NEW j \in DOMAIN tasks, tasks'[j].phase = "adding",
             NEW q \in Requests(tasks'[j].name, tasks'[j].release, tasks'[j].expands)
      PROVE  q \in tasks'[j].todo \/ Taken(q)'
  BY <1>1, <1>6, <1>7
<1>8. \A q \in Roots : q \in rest' \/ Taken(q)'
  BY <1>1, <1>2, QueryAssumption DEF Cover
<1>9. (\E j \in DOMAIN tasks : tasks'[j].phase = "failed") => error
  BY <1>1 DEF Cover
<1>. QED BY <1>1, <1>4, <1>5, <1>7, <1>8, <1>9 DEF Cover, Known

\* An answered tree holds every import of every entry of every name in it.
THEOREM CompleteTree == Spec => []Complete
<1>1. Init => Cover
  BY DEF Init, Cover, Known, Unknown
<1>2. Core /\ Joining /\ Cover /\ [Next]_vars => Cover'
  <2> SUFFICES ASSUME Core, Joining, Cover, [Next]_vars PROVE Cover'
    OBVIOUS
  <2>1. ASSUME NEW i \in DOMAIN tasks, Fail(i), Fails(i)
        PROVE  Cover'
    <3>1. DOMAIN tasks' = DOMAIN tasks /\ error' /\ result' # "ok" /\ UNCHANGED <<states, rest>>
      BY <2>1, Answered DEF Fail, Fails, Core, TypeOK
    <3>2. \A q : Taken(q)' <=> Taken(q)
      BY <3>1 DEF Taken, Followed, Skipped, Known
    <3>3. \A j \in DOMAIN tasks : tasks'[j].name = tasks[j].name /\ tasks'[j].expands = tasks[j].expands
                                /\ (tasks'[j].phase = "failed" \/ tasks'[j] = tasks[j])
      BY <2>1 DEF Fails
    <3>. QED BY <3>1, <3>2, <3>3 DEF Cover, Known
  <2>2. ASSUME UNCHANGED <<states, tasks, rest, error>>, result' = "ok" => ~error
        PROVE  Cover'
    <3>1. \A q : Taken(q)' <=> Taken(q)
      BY <2>2 DEF Taken, Followed, Skipped, Known
    <3>. QED BY <2>2, <3>1 DEF Cover, Known
  <2>3. CASE Join \/ Return \/ UNCHANGED vars
    BY <2>2, <2>3 DEF Join, Return, vars, Cover
  <2>. QED BY <2>1, <2>3, AddCover, FollowCover, StepCases
<1>3. Core /\ Joining /\ Cover => Complete
  <2> SUFFICES ASSUME Core, Joining, Cover, result = "ok" PROVE Complete
    BY DEF Complete
  <2>1. rest = {} /\ \A i \in DOMAIN tasks : tasks[i].phase = "adding" /\ tasks[i].todo = {}
    BY Answered DEF Done, Cover
  <2>2. \A q \in Roots : \A x \in q.entries : Followed(q.name, x)
    BY <2>1 DEF Cover, Taken
  <2>3. \A n \in Known : states[n].release # None
    BY <2>1 DEF Cover
  <2>4. ASSUME NEW n \in Known, NEW e \in states[n].entries, NEW m \in Names,
               NEW x \in Imports[n][states[n].release][e][m]
        PROVE  Followed(m, x)
    <3>1. PICK i \in DOMAIN tasks : tasks[i].name = n /\ e \in tasks[i].expands
      BY <2>3 DEF Cover
    <3>2. tasks[i].release = states[n].release
      BY <2>1, <3>1 DEF Core, Shape
    <3>3. x \in Imported(n, states[n].release, tasks[i].expands, m)
      BY <3>1 DEF Imported
    <3>4. \E q \in Requests(n, states[n].release, tasks[i].expands) : q.name = m /\ x \in q.entries
      <4> DEFINE es == Imported(n, states[n].release, tasks[i].expands, m)
                 q == [name |-> m, range |-> Declares[n][states[n].release][m], entries |-> es]
      <4>1. q \in Requests(n, states[n].release, tasks[i].expands)
        BY <3>3 DEF Requests
      <4>2. q.name = m /\ x \in q.entries
        BY <3>3
      <4>. QED BY <4>1, <4>2
    <3>. QED BY <2>1, <3>1, <3>2, <3>4 DEF Cover, Taken
  <2>. QED BY <2>2, <2>3, <2>4 DEF Complete
<1>4. Init => Joining
  BY DEF Init, Joining
<1>. QED BY <1>1, <1>2, <1>3, <1>4, CoreInit, CoreStep, JoiningStep, PTL DEF Spec

\* An answered tree is the closure of the query, for any registry, packages, pins and limit,
\* in whatever order tasks record, resolve, expand, fail and are joined.
THEOREM TreeIsExact == Spec => []ExactTree
<1>1. Complete /\ NothingUnneeded => ExactTree
  BY DEF ExactTree
<1>. QED BY <1>1, CompleteTree, NothingElse, PTL
-----------------------------------------------------------------------------
(* The collection ends *)

\* A task that has not ended goes on: its package is there, or it failed, or it has fewer
\* requests to add.
Later(s, t) ==
  \/ t = s
  \/ s.phase \in {"resolving", "expanding"} /\ t.name = s.name /\ t.phase \in {"adding", "failed"}
  \/ /\ s.phase = "adding" /\ t.phase = "adding" /\ t.name = s.name
     /\ t.release = s.release /\ t.expands = s.expands /\ t.todo \subseteq s.todo

\* Nothing a step has done is undone: a name stays in the tree with its release and its
\* entries, no task starts again, no handle is awaited twice, the answer stands. A new task
\* has something new to do, a name or entries that the tree did not have.
MovesOn ==
  /\ \A n \in Known :
       /\ n \in Known' /\ states[n].entries \subseteq states'[n].entries
       /\ states[n].release # None => states'[n].release = states[n].release
  /\ \A i \in DOMAIN tasks : i \in DOMAIN tasks' /\ Later(tasks[i], tasks'[i])
  /\ \A i \in DOMAIN tasks' \ DOMAIN tasks :
       LET n == tasks'[i].name IN
       /\ i = Len(tasks) + 1
       /\ n \in Known' /\ (n \notin Known \/ states'[n].entries # states[n].entries)
  /\ rest' \subseteq rest /\ joined <= joined'
  /\ result # "none" => result' = result

\* While there is no answer, a request, a task, or the awaiting of one is what is next.
GoesOn ==
  \/ result # "none" \/ rest # {} \/ joined = Len(tasks) \/ Done(tasks[joined + 1])
  \/ \E i \in DOMAIN tasks : \/ tasks[i].phase \in {"resolving", "expanding"}
                             \/ tasks[i].phase = "adding" /\ tasks[i].todo # {}

LEMMA AddMovesOn ==
  ASSUME Core, Joining, NEW q \in Request, AddStep(q)
  PROVE  MovesOn
<1>1. /\ q.name \in Names /\ q.entries \subseteq Entries /\ states \in [Names -> NameState]
      /\ tasks \in Seq(Task) /\ tasks' \in Seq(Task) /\ joined \in Nat
  BY DEF Core, TypeOK, Request, AddStep
<1>2. states'[q.name] = Recorded(q) /\ \A n \in Names : n # q.name => states'[n] = states[n]
  BY <1>1 DEF AddStep
<1>3. states[q.name] \in NameState
  BY <1>1
<1>4. \A n \in Known :
        /\ n \in Known' /\ states[n].entries \subseteq states'[n].entries
        /\ states[n].release # None => states'[n].release = states[n].release
  <2>1. ASSUME states[q.name].known
        PROVE  /\ Recorded(q).known /\ Recorded(q).release = states[q.name].release
               /\ Recorded(q).entries = states[q.name].entries \cup q.entries
    BY <1>3, <2>1 DEF Recorded, NameState
  <2>. QED BY <1>1, <1>2, <2>1 DEF Known
<1>5. \A i \in DOMAIN tasks : i \in DOMAIN tasks' /\ Later(tasks[i], tasks'[i])
  <2>1. Len(tasks) <= Len(tasks')
    BY <1>1 DEF AddStep
  <2>. QED BY <1>1, <2>1 DEF AddStep, Later
<1>6. ASSUME NEW i \in DOMAIN tasks' \ DOMAIN tasks
      PROVE  LET n == tasks'[i].name IN
             /\ i = Len(tasks) + 1
             /\ n \in Known' /\ (n \notin Known \/ states'[n].entries # states[n].entries)
  <2>1. i = Len(tasks) + 1
    BY <1>1, <1>6 DEF AddStep
  <2>2. Resolution(q, tasks'[i]) \/ Expansion(q, tasks'[i])
    BY <1>6 DEF AddStep
  <2>3. CASE Resolution(q, tasks'[i])
    <3>1. Recorded(q).known
      BY <2>3 DEF Resolution, Recorded, Unknown
    <3>. QED BY <1>1, <1>2, <2>1, <2>3, <3>1 DEF Resolution, Known
  <2>4. CASE Expansion(q, tasks'[i])
    <3>1. Recorded(q).known /\ Recorded(q).entries = states[q.name].entries \cup q.entries
      BY <1>3, <2>4 DEF Expansion, Recorded, NameState
    <3>2. Recorded(q).entries # states[q.name].entries
      BY <2>4, <3>1 DEF Expansion, Added
    <3>. QED BY <1>1, <1>2, <2>1, <2>4, <3>1, <3>2 DEF Expansion, Known
  <2>. QED BY <2>2, <2>3, <2>4
<1>. QED BY <1>1, <1>4, <1>5, <1>6 DEF MovesOn, AddStep

LEMMA StepMovesOn == Core /\ Joining /\ [Next]_vars => MovesOn
<1> SUFFICES ASSUME Core, Joining, [Next]_vars PROVE MovesOn
  OBVIOUS
<1>0. tasks \in Seq(Task) /\ joined \in Nat /\ states \in [Names -> NameState]
  BY DEF Core, TypeOK
<1>1. ASSUME NEW i \in DOMAIN tasks, tasks[i].phase \in {"resolving", "expanding"},
             tasks' \in Seq(Task), Len(tasks') = Len(tasks),
             \A j \in DOMAIN tasks : j # i => tasks'[j] = tasks[j],
             tasks'[i].name = tasks[i].name, tasks'[i].phase \in {"adding", "failed"},
             \A n \in Known : /\ n \in Known' /\ states[n].entries \subseteq states'[n].entries
                              /\ states[n].release # None => states'[n].release = states[n].release,
             UNCHANGED <<rest, joined, result>>
      PROVE  MovesOn
  <2>1. \A j \in DOMAIN tasks : j \in DOMAIN tasks' /\ Later(tasks[j], tasks'[j])
    BY <1>0, <1>1 DEF Later
  <2>2. DOMAIN tasks' \ DOMAIN tasks = {}
    BY <1>0, <1>1
  <2>. QED BY <1>0, <1>1, <2>1, <2>2 DEF MovesOn
<1>2. ASSUME NEW i \in DOMAIN tasks, NEW r \in Releases,
             Resolve(i, r), Follows(i, r, states[tasks[i].name].entries)
      PROVE  MovesOn
  <2>1. tasks[i].name \in Names /\ states[tasks[i].name].release = None /\ states[tasks[i].name] \in NameState
    <3>1. tasks[i] \in Task
      BY <1>0
    <3>2. tasks[i].name \in Names
      BY <3>1 DEF Task
    <3>. QED BY <1>0, <1>2, <3>2 DEF Resolve, Core, Shape
  <2> DEFINE next == [states[tasks[i].name] EXCEPT !.release = r]
  <2>2. states' = [states EXCEPT ![tasks[i].name] = next]
    BY <1>2 DEF Resolve
  <2>3. next.known = states[tasks[i].name].known /\ next.entries = states[tasks[i].name].entries
    BY <2>1 DEF NameState
  <2> HIDE DEF next
  <2>4. \A n \in Known : /\ n \in Known' /\ states[n].entries \subseteq states'[n].entries
                         /\ states[n].release # None => states'[n].release = states[n].release
    BY <1>0, <2>1, <2>2, <2>3 DEF Known
  <2>. QED BY <1>1, <1>2, <2>4 DEF Resolve, Follows
<1>3. ASSUME NEW i \in DOMAIN tasks, Expand(i), Follows(i, tasks[i].release, tasks[i].expands)
      PROVE  MovesOn
  BY <1>1, <1>3 DEF Expand, Follows, Known
<1>4. ASSUME NEW i \in DOMAIN tasks, Fail(i), Fails(i)
      PROVE  MovesOn
  BY <1>1, <1>4 DEF Fail, Fails, Known
<1>5. CASE Join \/ Return \/ UNCHANGED vars
  <2>1. UNCHANGED <<states, tasks, rest>> /\ joined <= joined' /\ (result # "none" => result' = result)
    BY <1>0, <1>5 DEF Join, Return, vars
  <2>. QED BY <2>1 DEF MovesOn, Later, Known
<1>. QED BY <1>2, <1>3, <1>4, <1>5, AddMovesOn, StepCases

\* A collection always has a next step, and no step undoes what an earlier one did, packages
\* that import each other or themselves included: with names and entries finite it ends, and
\* with fairness it answers (spawn_resolve, spawn_expand, try_collect).
THEOREM CollectionMovesOn == Spec => []GoesOn /\ [][MovesOn]_vars
<1>1. Init => Joining
  BY DEF Init, Joining
<1>2. Core /\ Joining => GoesOn
  <2> SUFFICES ASSUME Core, Joining, ~GoesOn PROVE FALSE
    OBVIOUS
  <2>1. tasks \in Seq(Task) /\ joined \in 0..Len(tasks) /\ joined # Len(tasks)
    BY DEF Core, TypeOK, GoesOn
  <2>2. joined + 1 \in DOMAIN tasks
    BY <2>1
  <2>3. tasks[joined + 1] \in Task
    BY <2>1, <2>2
  <2>4. tasks[joined + 1].phase \in {"resolving", "expanding", "adding", "failed"}
    BY <2>3 DEF Task
  <2>. QED BY <2>2, <2>4 DEF GoesOn, Done
<1>. QED BY <1>1, <1>2, CoreInit, CoreStep, JoiningStep, StepMovesOn, PTL DEF Spec
=============================================================================
