------------------------------ MODULE DepTree ------------------------------
(***************************************************************************)
(* One /dep_tree request of the CDN: DepTreeCollector's concurrent tasks,  *)
(* which resolve names to releases and follow the imports of the entries   *)
(* asked of them, and try_collect, which joins them and answers.           *)
(*                                                                         *)
(* Tasks run on several threads; an action is what runs under one lock of  *)
(* `states`, with what the same task does next that no other task can      *)
(* tell.  Versions are releases, package sources are entry points, and a   *)
(* name is pushed to `dependencies` exactly when it gets its release.      *)
(***************************************************************************)
EXTENDS Naturals, Sequences, FiniteSets

CONSTANTS
  Names,     \* install names
  Entries,   \* package entries: `.`, `./client`, ...
  Ranges,    \* ranges and tags
  Releases,
  None,      \* no release, no range
  Offers,    \* Offers[n][range]: the releases the registry may resolve it to
  Imports,   \* Imports[n][r][e][m]: the entries of m that the files of entry e of
             \* release r, installed as n, import
  Declares,  \* Declares[n][r][m]: the range that release gives m
  Pins,      \* Pins[n]: the range that overrides every request, or None
  Roots,     \* the requests of the query, one per name
  Ignored,   \* names that are never followed: @types/ and names npm cannot have
  Limit,     \* known names beyond which no other is followed (500)
  MaxFaults  \* bound on failed resolutions and loads

Request == [name : Names, range : Ranges, entries : SUBSET Entries]

ASSUME NoneAssumption == None \notin Releases \cup Ranges
ASSUME RegistryAssumption ==
  /\ Offers \in [Names -> [Ranges -> SUBSET Releases]]
  /\ Imports \in [Names -> [Releases -> [Entries -> [Names -> SUBSET Entries]]]]
  /\ Declares \in [Names -> [Releases -> [Names -> Ranges]]]
ASSUME QueryAssumption ==
  /\ Pins \in [Names -> Ranges \cup {None}] /\ Roots \subseteq Request
  /\ Ignored \subseteq Names /\ IsFiniteSet(Names)
ASSUME DepTreeBoundsAssumption == Limit \in Nat /\ MaxFaults \in Nat

VARIABLES
  states,  \* NameState per name
  tasks,   \* the tasks spawned so far, in the order of their handles
  rest,    \* root requests not added yet
  joined,  \* handles try_collect has awaited
  error,   \* first_error is set
  result,  \* none yet, ok or error
  faults

vars == <<states, tasks, rest, joined, error, result, faults>>

\* resolved and entries; known is the name's presence in the map.
NameState == [known : BOOLEAN, release : Releases \cup {None}, entries : SUBSET Entries]
Unknown   == [known |-> FALSE, release |-> None, entries |-> {}]
Known     == {n \in Names : states[n].known}

\* A task resolves a name or loads the release to expand further entries; then
\* it adds, one by one, the requests the imports of these entries make.
Task == [name : Names, range : Ranges \cup {None}, release : Releases \cup {None},
         expands : SUBSET Entries, todo : SUBSET Request,
         phase : {"resolving", "expanding", "adding", "failed"}]

\* Seeded fault: a task that recorded an error is awaited for ever.
Done_NotFailed(t) == t.phase = "adding" /\ t.todo = {}

Done(t) == t.phase = "failed" \/ (t.phase = "adding" /\ t.todo = {})

TypeOK ==
  /\ states \in [Names -> NameState]
  /\ Cardinality(Known) <= Limit + 1
  /\ tasks \in Seq(Task)
  /\ rest \subseteq Request
  /\ joined \in 0..Len(tasks)
  /\ error \in BOOLEAN /\ result \in {"none", "ok", "error"}
  /\ faults \in Nat

Init ==
  /\ states = [n \in Names |-> Unknown]
  /\ tasks = <<>> /\ rest = Roots /\ joined = 0
  /\ error = FALSE /\ result = "none" /\ faults = 0

-----------------------------------------------------------------------------
(* add_dep_requests *)

\* The entries of m that the closure of `entries` imports.
Imported(n, r, entries, m) == UNION {Imports[n][r][e][m] : e \in entries}

\* closure_requests: one request per package the closure imports.  An import at
\* a range that is no specifier makes none: it counts as no import.
Requests(n, r, entries) ==
  {[name |-> m, range |-> Declares[n][r][m], entries |-> Imported(n, r, entries, m)] :
     m \in {x \in Names : Imported(n, r, entries, x) # {}}}

\* Seeded fault: pins override the query's requests only.
RangeOf_RootPins(q) == IF Pins[q.name] = None \/ q \notin Roots THEN q.range ELSE Pins[q.name]

\* apply_pin
RangeOf(q) == IF Pins[q.name] = None THEN q.range ELSE Pins[q.name]

\* should_skip
Skipped(n) == n \in Ignored \/ Cardinality(Known) > Limit

\* The entries a request adds to a known name.
Added(q) == q.entries \ states[q.name].entries

\* Seeded fault: entries that arrive while the name is still resolving are not
\* recorded.
Recorded_IfResolved(q) ==
  IF ~states[q.name].known
  THEN IF Skipped(q.name) THEN Unknown ELSE [Unknown EXCEPT !.known = TRUE, !.entries = q.entries]
  ELSE IF states[q.name].release = None THEN states[q.name]
  ELSE [states[q.name] EXCEPT !.entries = @ \cup q.entries]

\* What the request makes of its name's state.
Recorded(q) ==
  IF states[q.name].known THEN [states[q.name] EXCEPT !.entries = @ \cup q.entries]
  ELSE IF Skipped(q.name) THEN Unknown
  ELSE [Unknown EXCEPT !.known = TRUE, !.entries = q.entries]

\* Seeded fault: an expansion reloads every entry of the request.
Spawned_WholeRequest(q) ==
  LET task == [name |-> q.name, range |-> None, release |-> states[q.name].release,
               expands |-> q.entries, todo |-> {}, phase |-> "expanding"] IN
  IF states[q.name].known
  THEN IF Added(q) = {} \/ states[q.name].release = None THEN <<>> ELSE <<task>>
  ELSE IF Skipped(q.name) THEN <<>>
  ELSE <<[task EXCEPT !.range = RangeOf(q), !.expands = {}, !.phase = "resolving"]>>

\* The task it spawns: a new name is resolved; new entries of a resolved one are
\* expanded, those of a name still resolving are left to its resolution.
Spawned(q) ==
  LET task == [name |-> q.name, range |-> None, release |-> states[q.name].release,
               expands |-> Added(q), todo |-> {}, phase |-> "expanding"] IN
  IF states[q.name].known
  THEN IF Added(q) = {} \/ states[q.name].release = None THEN <<>> ELSE <<task>>
  ELSE IF Skipped(q.name) THEN <<>>
  ELSE <<[task EXCEPT !.range = RangeOf(q), !.expands = {}, !.phase = "resolving"]>>

AddRoot(q) ==
  /\ q \in rest
  /\ rest' = rest \ {q}
  /\ states' = [states EXCEPT ![q.name] = Recorded(q)]
  /\ tasks' = tasks \o Spawned(q)
  /\ UNCHANGED <<joined, error, result, faults>>

TaskAdds(i, q) ==
  /\ tasks[i].phase = "adding" /\ q \in tasks[i].todo
  /\ states' = [states EXCEPT ![q.name] = Recorded(q)]
  /\ tasks' = [tasks EXCEPT ![i].todo = @ \ {q}] \o Spawned(q)
  /\ UNCHANGED <<rest, joined, error, result, faults>>

-----------------------------------------------------------------------------
(* The tasks *)

\* Task i goes on with release r of its name, to follow `entries`.
Follow(i, r, entries) ==
  LET n == tasks[i].name IN
  tasks' = [tasks EXCEPT ![i] = [name |-> n, range |-> @.range, release |-> r, expands |-> entries,
                                 todo |-> Requests(n, r, entries), phase |-> "adding"]]

\* spawn_resolve's task: the release is fixed and the entries recorded so far
\* are read under one lock.
Resolve(i, r) ==
  /\ tasks[i].phase = "resolving" /\ r \in Offers[tasks[i].name][tasks[i].range]
  /\ states' = [states EXCEPT ![tasks[i].name].release = r]
  /\ Follow(i, r, states[tasks[i].name].entries)
  /\ UNCHANGED <<rest, joined, error, result, faults>>

\* spawn_expand's task
Expand(i) ==
  /\ tasks[i].phase = "expanding"
  /\ Follow(i, tasks[i].release, tasks[i].expands)
  /\ UNCHANGED <<states, rest, joined, error, result, faults>>

\* No release in range, or the manifest or the package cannot be had.
Fail(i) ==
  /\ tasks[i].phase \in {"resolving", "expanding"}
  /\ IF tasks[i].phase = "resolving" /\ Offers[tasks[i].name][tasks[i].range] = {}
     THEN UNCHANGED faults ELSE faults < MaxFaults /\ faults' = faults + 1
  /\ tasks' = [tasks EXCEPT ![i].phase = "failed"]
  /\ error' = TRUE
  /\ UNCHANGED <<states, rest, joined, result>>

-----------------------------------------------------------------------------
(* try_collect *)

Join ==
  /\ rest = {} /\ joined < Len(tasks) /\ Done(tasks[joined + 1])
  /\ joined' = joined + 1
  /\ UNCHANGED <<states, tasks, rest, error, result, faults>>

Return ==
  /\ rest = {} /\ result = "none" /\ joined = Len(tasks)
  /\ result' = IF error THEN "error" ELSE "ok"
  /\ UNCHANGED <<states, tasks, rest, joined, error, faults>>

Progress ==
  \/ \E q \in rest : AddRoot(q)
  \/ \E i \in DOMAIN tasks : \/ \E q \in tasks[i].todo : TaskAdds(i, q)
                             \/ \E r \in Releases : Resolve(i, r)
                             \/ Expand(i) \/ Fail(i)
  \/ Join \/ Return

Next == Progress

\* Threads run, requests to the registry are answered or fail.
Spec == Init /\ [][Next]_vars /\ WF_vars(Progress)

-----------------------------------------------------------------------------
(* Properties *)

\* Entry x of m is in the tree, or m is not followed.
Followed(m, x) == IF states[m].known THEN x \in states[m].entries ELSE Skipped(m)

\* An answered tree is complete (get_dependencies: "the resolved tree, each
\* package with every entry requested from it", collect_dep_tree.rs:285): every
\* name has its release, and every import of every entry is in the tree, however
\* requests and resolutions interleaved.
Complete ==
  result = "ok" =>
    /\ \A q \in Roots : \A x \in q.entries : Followed(q.name, x)
    /\ \A n \in Known :
         /\ states[n].release # None
         /\ \A e \in states[n].entries :
              \A m \in Names : \A x \in Imports[n][states[n].release][e][m] : Followed(m, x)

\* Nothing is in the tree that no import needs: it is within every set of
\* entries that holds the query's and is closed under the resolved imports.
Closed(S) ==
  /\ \A q \in Roots : q.entries \subseteq S[q.name]
  /\ \A n \in Names : \A e \in S[n] : \A m \in Names :
       states[n].release # None => Imports[n][states[n].release][e][m] \subseteq S[m]

NothingUnneeded ==
  \A S \in [Names -> SUBSET Entries] :
    Closed(S) => \A n \in Known : states[n].entries \subseteq S[n]

\* Of concurrent resolutions that record, limit and join in any order, the answer is the same
\* tree: all of the closure of the query, and nothing else.
ExactTree == Complete /\ NothingUnneeded

\* No entry is expanded twice and no name is resolved twice, so that packages
\* importing each other, or themselves, do not keep the collection going.
NoWorkTwice ==
  \A i, j \in DOMAIN tasks :
    i # j /\ tasks[i].name = tasks[j].name =>
      /\ tasks[i].expands \cap tasks[j].expands = {}
      /\ tasks[i].range = None \/ tasks[j].range = None

\* The declared version of a pinned name wins over what its importers ask for,
\* at any depth and whoever asks first (collect_dep_tree.rs:150).
PinsWin ==
  \A n \in Known : Pins[n] # None /\ states[n].release # None =>
                     states[n].release \in Offers[n][Pins[n]]

\* The answer is computed when no task of the collection runs any more.
NoTaskLeft == result # "none" => \A i \in DOMAIN tasks : Done(tasks[i])

\* The request is answered.
Answers == <>(result # "none")

=============================================================================
