----------------------------- MODULE HotModules -----------------------------
(***************************************************************************)
(* The modules of one preview document while updates are applied to them   *)
(* in place: what resetCompilation, evaluate and require do to one another *)
(* (Module.ts, Evaluation.ts, circularImport.ts), with the module.hot API  *)
(* their code calls while it runs (hot.ts, HMR.ts) and the postlude the    *)
(* transpiler appends to every component file (react-refresh/wrap.ts).     *)
(*                                                                         *)
(* Evaluation is synchronous: one module's code runs another's.  An action *)
(* is one call the running code makes; between the first load's or the     *)
(* sweep's first and last call nothing else runs.  How a change reaches a  *)
(* compile is the subject of BundlerCycle: here a transform is one step,   *)
(* and the graph is deep, where there it is flat.                          *)
(***************************************************************************)
EXTENDS Integers, Sequences, SequencesExt, FiniteSets

CONSTANTS
  HotOrder,     \* the modules map in insertion order, the entry first
  HotScripts,   \* HotScripts[m]: what the code of m may do, in the order of its calls
  HotEdits      \* bound on edits

HotSources == {HotOrder[i] : i \in DOMAIN HotOrder}

\* A call of running code: require a module, accept or decline updates of its own or of a
\* module it names, register a dispose handler that keeps what it exports, throw, or the
\* postlude of a file whose exports have that signature (NoExports: not all components).
Call == [op : {"require", "acceptDep", "declineDep"}, of : HotSources]
        \cup [op : {"accept", "decline", "throw"}]
        \cup [op : {"dispose", "postlude"}, keeps : Nat]

Requires(script) == {call.of : call \in {c \in Range(script) : c.op = "require"}}

\* The entry is one of them, and reaches them all in every version: the modules map holds
\* what its graph does.
ASSUME HotAssumption ==
  /\ HotEdits \in Nat
  /\ HotOrder \in Seq(HotSources) /\ HotOrder # <<>>
  /\ \A m \in HotSources : HotScripts[m] \subseteq Seq(Call)
  /\ \A reached \in SUBSET HotSources :
       (HotOrder[1] \in reached
        /\ \A m \in reached : \E script \in HotScripts[m] : Requires(script) \subseteq reached)
       => reached = HotSources

NoExports == 0              \* hot.data without prevExports
Unevaluated == -1
NullCode == 0           \* the revision of `compiled` before a transform brings one
NotCompiled == [rev |-> NullCode, script |-> <<>>]

VARIABLES
  hotSource,    \* the sources: revision and calls
  hotMods,      \* Bundler.modules
  hotImporters, \* Bundler.initiators
  hotStack,     \* evaluationStack, each module with the calls it has still to make
  hotQueue,     \* the transform queue
  hotLater,     \* accept and decline of other modules, whose paths are being resolved
  hotDoc,       \* what the bundler is at, and its flags
  hotHistory    \* observations

hotVars == <<hotSource, hotMods, hotImporters, hotStack, hotQueue, hotLater, hotDoc, hotHistory>>

\* HotContext.hmrConfig; `handler` is what its dispose handler will keep (-1: none).
NoHandler == -1
NoHmr == [here |-> FALSE, type |-> "none", dirty |-> FALSE, handler |-> NoHandler, data |-> NoExports]
Ensured(hmr) == [hmr EXCEPT !.here = TRUE]
HotModule(source) == [code |-> source, eval |-> Unevaluated, hmr |-> NoHmr]

NoHistory == [left |-> {}, owed |-> [m \in HotSources |-> 0], retried |-> FALSE]

HotInit ==
  /\ \E first \in [HotSources -> UNION {HotScripts[m] : m \in HotSources}] :
       /\ \A m \in HotSources : first[m] \in HotScripts[m]
       /\ hotSource = [m \in HotSources |-> [rev |-> 1, script |-> first[m]]]
  /\ hotMods = [m \in HotSources |-> HotModule(NotCompiled)]
  /\ hotImporters = [m \in HotSources |-> {}]
  /\ hotStack = <<>> /\ hotQueue = {} /\ hotLater = {}
  /\ hotDoc = [at |-> "start", next |-> 1, first |-> TRUE, hmr |-> FALSE, reloading |-> FALSE,
               ok |-> FALSE, changed |-> {}, edits |-> 0]
  /\ hotHistory = NoHistory

IsHot(m) == hotMods[m].hmr.type = "accept"
Cold(m) == hotMods[m].code # NotCompiled /\ ~IsHot(m)
\* Nothing runs synchronously: promises may settle.
Yields == hotDoc.at \in {"start", "idle", "compiling"}
----------------------------------------------------------------------------
(* Compiles. *)

\* The file changes, and the document is told.
HotEdit(m, script) ==
  /\ Yields /\ hotDoc.edits < HotEdits /\ script # hotSource[m].script
  /\ hotSource' = [hotSource EXCEPT ![m] = [rev |-> hotDoc.edits + 2, script |-> script]]
  /\ hotDoc' = [hotDoc EXCEPT !.edits = @ + 1, !.changed = @ \cup {m}]
  /\ UNCHANGED <<hotMods, hotImporters, hotStack, hotQueue, hotLater, hotHistory>>

\* A first load, or one more after one that failed: the modules map is new, and what was
\* evaluated is not disposed. All modules are transformed; the entry runs.
FirstLoad ==
  /\ hotDoc.at = "start" \/ (hotDoc.at = "idle" /\ hotDoc.first /\ hotDoc.changed # {})
  /\ ~hotDoc.reloading
  /\ hotMods' = [m \in HotSources |-> HotModule(hotSource[m])]
  /\ hotImporters' = [m \in HotSources |->
       hotImporters[m] \cup {n \in HotSources : m \in Requires(hotSource[n].script)}]
  /\ hotDoc' = [hotDoc EXCEPT !.at = "first", !.next = 1, !.changed = {}]
  /\ hotHistory' = [hotHistory EXCEPT !.retried = \E m \in HotSources : hotHistory.owed[m] > 0,
                                      !.left = {}]
  /\ UNCHANGED <<hotSource, hotStack, hotQueue, hotLater>>

\* resetCompilation; the caller deals with a module that is not hot.
ResetModule(module) ==
  IF module.code = NotCompiled THEN module
  ELSE [module EXCEPT !.code = NotCompiled, !.eval = Unevaluated,
                      !.hmr.dirty = @ \/ module.hmr.type = "accept"]

\* One that was reset while it ran, and not transformed since, keeps what that run gave.
PassedOver(module) == module.code = NotCompiled /\ module.eval # Unevaluated

\* A later compile resets what changed and transforms it; without HMR, or at the first
\* module that is not hot, it asks for a new document.
HotCompile ==
  /\ hotDoc.at = "idle" /\ ~hotDoc.first /\ ~hotDoc.reloading /\ hotDoc.changed # {}
  /\ IF ~hotDoc.hmr \/ \E m \in hotDoc.changed : Cold(m)
       THEN /\ hotDoc' = [hotDoc EXCEPT !.reloading = TRUE, !.changed = {}]
            /\ UNCHANGED <<hotMods, hotQueue, hotHistory>>
       ELSE /\ hotDoc' = [hotDoc EXCEPT !.at = "compiling", !.changed = {}]
            /\ hotMods' = [m \in HotSources |->
                 IF m \in hotDoc.changed THEN ResetModule(hotMods[m]) ELSE hotMods[m]]
            /\ hotQueue' = hotQueue \cup hotDoc.changed
            /\ hotHistory' = [hotHistory EXCEPT
                 !.left = @ \cup {m \in hotDoc.changed : PassedOver(hotMods[m])}]
  /\ UNCHANGED <<hotSource, hotImporters, hotStack, hotLater>>

Transformed(m) ==
  /\ Yields /\ m \in hotQueue
  /\ hotQueue' = hotQueue \ {m}
  /\ hotMods' = [hotMods EXCEPT ![m].code = hotSource[m]]
  /\ hotImporters' = [n \in HotSources |->
       IF n \in Requires(hotSource[m].script) THEN hotImporters[n] \cup {m} ELSE hotImporters[n]]
  /\ UNCHANGED <<hotSource, hotStack, hotLater, hotDoc, hotHistory>>

\* moduleFinishedPromise has passed the whole graph. A reload that was asked for meanwhile
\* ends the compile here.
GraphFinished ==
  /\ hotDoc.at = "compiling" /\ hotQueue = {}
  /\ hotDoc' = IF hotDoc.reloading THEN [hotDoc EXCEPT !.at = "idle", !.ok = FALSE]
               ELSE [hotDoc EXCEPT !.at = "sweep", !.next = 1]
  /\ UNCHANGED <<hotSource, hotMods, hotImporters, hotStack, hotQueue, hotLater, hotHistory>>

\* The host navigates.
HotReload ==
  /\ hotDoc.reloading /\ hotDoc.at = "idle"
  /\ hotMods' = [m \in HotSources |-> HotModule(NotCompiled)]
  /\ hotImporters' = [m \in HotSources |-> {}]
  /\ hotStack' = <<>> /\ hotQueue' = {} /\ hotLater' = {}
  /\ hotDoc' = [hotDoc EXCEPT !.at = "start", !.first = TRUE, !.hmr = FALSE, !.reloading = FALSE,
                              !.ok = FALSE, !.changed = {}]
  /\ hotHistory' = NoHistory
  /\ UNCHANGED hotSource
----------------------------------------------------------------------------
(* Module.evaluate. *)

OnStack == {hotStack[i].module : i \in DOMAIN hotStack}

\* An error unwinds the whole stack: no module on it is evaluated, the modules the sweep
\* has not come to stay dirty, and the compile fails.
Throws ==
  /\ hotStack' = <<>>
  /\ hotDoc' = [hotDoc EXCEPT !.at = "idle", !.ok = FALSE]
  /\ hotHistory' = [hotHistory EXCEPT !.left = @ \cup OnStack]
  /\ UNCHANGED <<hotMods, hotQueue, hotLater>>

\* HotContext.clone: the new evaluation inherits the data and nothing else.
Clone(hmr) == IF hmr.here THEN [NoHmr EXCEPT !.here = TRUE, !.data = hmr.data] ELSE NoHmr

\* callDisposeHandler.
Disposed(hmr) == IF hmr.handler = NoHandler THEN hmr
                 ELSE [hmr EXCEPT !.data = hmr.handler, !.handler = NoHandler]

\* Seeded fault: the context is replaced before its dispose handler is called.
Evaluates_Undisposed(m, stack) ==
  /\ hotStack' = Append(stack, [module |-> m, rev |-> hotMods[m].code.rev,
                                rest |-> hotMods[m].code.script])
  /\ hotMods' = [hotMods EXCEPT ![m].hmr = Clone(@)]
  /\ UNCHANGED hotHistory

\* The code of m is run, what there is of it: the handler of the evaluation before is
\* called first.
Evaluates(m, stack) ==
  /\ hotStack' = Append(stack, [module |-> m, rev |-> hotMods[m].code.rev,
                                rest |-> hotMods[m].code.script])
  /\ hotMods' = [hotMods EXCEPT ![m].hmr = Clone(Disposed(@))]
  /\ hotHistory' = [hotHistory EXCEPT
       !.owed[m] = IF hotMods[m].hmr.handler = NoHandler THEN @ ELSE @ - 1]

\* evaluate: an evaluation there is, a cycle of requires (detectCycle), or a new one.
EvaluateModule(m, stack) ==
  \/ /\ hotMods[m].eval # Unevaluated
     /\ hotStack' = stack /\ UNCHANGED <<hotMods, hotQueue, hotLater, hotDoc, hotHistory>>
  \/ hotMods[m].eval = Unevaluated /\ m \in OnStack /\ Throws
  \/ /\ hotMods[m].eval = Unevaluated /\ m \notin OnStack
     /\ Evaluates(m, stack) /\ UNCHANGED <<hotQueue, hotLater, hotDoc>>

\* The entry; then the first load is over.
RunEntry ==
  /\ hotDoc.at = "first" /\ hotStack = <<>>
  /\ IF hotMods[HotOrder[1]].eval = Unevaluated
       THEN EvaluateModule(HotOrder[1], <<>>)
       ELSE /\ hotDoc' = [hotDoc EXCEPT !.at = "idle", !.first = FALSE, !.ok = ~hotDoc.reloading]
            /\ UNCHANGED <<hotMods, hotStack, hotQueue, hotLater, hotHistory>>
  /\ UNCHANGED <<hotSource, hotImporters>>

\* The sweep over the modules map evaluates what is dirty.
SweepOn ==
  /\ hotDoc.at = "sweep" /\ hotStack = <<>> /\ hotDoc.next \in DOMAIN HotOrder
  /\ LET m == HotOrder[hotDoc.next] IN
       IF hotMods[m].hmr.dirty /\ hotMods[m].eval = Unevaluated
         THEN Evaluates(m, <<>>) ELSE UNCHANGED <<hotMods, hotStack, hotHistory>>
  /\ hotDoc' = [hotDoc EXCEPT !.next = @ + 1]
  /\ UNCHANGED <<hotSource, hotImporters, hotQueue, hotLater>>

\* The second sweep, over the invalidated modules, takes Object.values of a Map: there are
\* none. The message done is sent unless the page is about to go.
SweepEnds ==
  /\ hotDoc.at = "sweep" /\ hotStack = <<>> /\ hotDoc.next \notin DOMAIN HotOrder
  /\ hotDoc' = [hotDoc EXCEPT !.at = "idle", !.ok = ~hotDoc.reloading]
  /\ UNCHANGED <<hotSource, hotMods, hotImporters, hotStack, hotQueue, hotLater, hotHistory>>

\* The running code has made its last call.
Returns ==
  /\ hotStack # <<>> /\ Last(hotStack).rest = <<>>
  /\ LET m == Last(hotStack).module IN
     /\ hotMods' = [hotMods EXCEPT ![m].eval = Last(hotStack).rev,
                                   ![m].hmr.dirty = @ /\ ~IsHot(m)]
     /\ hotHistory' = IF Last(hotStack).rev = NullCode THEN hotHistory
                      ELSE [hotHistory EXCEPT !.left = @ \ {m}]
  /\ hotStack' = Front(hotStack)
  /\ UNCHANGED <<hotSource, hotImporters, hotQueue, hotLater, hotDoc>>
----------------------------------------------------------------------------
(* The calls of running code. *)

\* The stack after the call that m, the running module, makes now.
CallMade == Append(Front(hotStack), [Last(hotStack) EXCEPT !.rest = Tail(@)])
Calls(m, op) ==
  hotStack # <<>> /\ Last(hotStack).module = m /\ Last(hotStack).rest # <<>>
  /\ Head(Last(hotStack).rest).op = op
Of == Head(Last(hotStack).rest).of
Keeps == Head(Last(hotStack).rest).keeps

Require(m) ==
  /\ Calls(m, "require")
  /\ EvaluateModule(Of, CallMade)
  /\ UNCHANGED <<hotSource, hotImporters>>

\* accept() and dispose(cb) on m's own context.
Accepted(hmr) == [Ensured(hmr) EXCEPT !.type = "accept", !.data = NoExports]
WithHandler(hmr, keeps) == [Ensured(hmr) EXCEPT !.handler = keeps]
Owes(m, keeps) ==
  IF keeps = NoHandler \/ hotMods[m].hmr.handler # NoHandler THEN hotHistory.owed
  ELSE [hotHistory.owed EXCEPT ![m] = @ + 1]

SetsHmr(m, hmr, keeps) ==
  /\ hotMods' = [hotMods EXCEPT ![m].hmr = hmr]
  /\ hotHistory' = [hotHistory EXCEPT !.owed = Owes(m, keeps)]
  /\ hotDoc' = [hotDoc EXCEPT !.hmr = @ \/ hmr.here]
  /\ hotStack' = CallMade
  /\ UNCHANGED <<hotSource, hotImporters, hotQueue, hotLater>>

AcceptSelf(m) == Calls(m, "accept") /\ SetsHmr(m, Accepted(hotMods[m].hmr), NoHandler)
Dispose(m) == Calls(m, "dispose") /\ SetsHmr(m, WithHandler(hotMods[m].hmr, Keeps), Keeps)

\* accept(path, cb), decline(path): the path is resolved first.
OtherModule(m) ==
  /\ Calls(m, "acceptDep") \/ Calls(m, "declineDep")
  /\ hotLater' = hotLater \cup {Head(Last(hotStack).rest)}
  /\ hotStack' = CallMade
  /\ UNCHANGED <<hotSource, hotMods, hotImporters, hotQueue, hotDoc, hotHistory>>

Declined(module) == ResetModule([module EXCEPT !.hmr = [Ensured(@) EXCEPT !.type = "decline"]])

\* decline(): the module is reset while it runs, and a module that is not hot reloads the
\* page, in every document again.
DeclineSelf(m) ==
  /\ Calls(m, "decline")
  /\ hotMods' = [hotMods EXCEPT ![m] = Declined(@)]
  /\ hotDoc' = [hotDoc EXCEPT !.hmr = TRUE, !.reloading = @ \/ hotMods[m].code # NotCompiled]
  /\ hotStack' = CallMade
  /\ UNCHANGED <<hotSource, hotImporters, hotQueue, hotLater, hotHistory>>

\* The path is resolved, and a module is there: accept makes it hot until its next
\* evaluation, and the callback it leaves there with it.
AcceptLands(call) ==
  /\ Yields /\ call \in hotLater /\ call.op = "acceptDep"
  /\ hotLater' = hotLater \ {call}
  /\ hotMods' = [hotMods EXCEPT ![call.of].hmr = [Ensured(@) EXCEPT !.type = "accept"]]
  /\ hotDoc' = [hotDoc EXCEPT !.hmr = TRUE]
  /\ UNCHANGED <<hotSource, hotImporters, hotStack, hotQueue, hotHistory>>

DeclineLands(call) ==
  /\ Yields /\ call \in hotLater /\ call.op = "declineDep"
  /\ hotLater' = hotLater \ {call}
  /\ hotMods' = [hotMods EXCEPT ![call.of] = Declined(@)]
  /\ hotDoc' = [hotDoc EXCEPT !.hmr = TRUE, !.reloading = @ \/ hotMods[call.of].code # NotCompiled]
  /\ UNCHANGED <<hotSource, hotImporters, hotStack, hotQueue, hotHistory>>

Throw(m) == Calls(m, "throw") /\ Throws /\ UNCHANGED <<hotSource, hotImporters>>

\* A file that exports components, and nothing else; of the exports only the signature counts.
IsReactRefreshBoundary(signature) == signature # NoExports

\* The postlude of a component file keeps its exports for the next evaluation. A file
\* whose exports are not those of the evaluation before invalidates itself instead of
\* accepting updates, and so does one that was a component file.
KeptExports(m, signature) == IF IsReactRefreshBoundary(signature) THEN signature ELSE NoHandler
Invalidates(m, signature) == hotMods[m].hmr.here /\ hotMods[m].hmr.data # signature
PostludeHmr(m, signature) ==
  IF ~IsReactRefreshBoundary(signature) THEN hotMods[m].hmr
  ELSE IF Invalidates(m, signature) THEN WithHandler(hotMods[m].hmr, signature)
  ELSE Accepted(WithHandler(hotMods[m].hmr, signature))

PostludeAccepts(m) ==
  /\ Calls(m, "postlude") /\ ~Invalidates(m, Keeps)
  /\ SetsHmr(m, PostludeHmr(m, Keeps), KeptExports(m, Keeps))

\* invalidate: the importers are reset, wherever the sweep is, and if one of them is not
\* hot the page is reloaded. Nothing evaluates them after this sweep.
PostludeInvalidates(m) ==
  LET importers == hotImporters[m]
      mine == [hotMods EXCEPT ![m].hmr = PostludeHmr(m, Keeps)]
      Kill(n) == n \in importers /\ mine[n].code # NotCompiled
  IN
  /\ Calls(m, "postlude") /\ Invalidates(m, Keeps)
  /\ hotMods' = [n \in HotSources |-> IF n \in importers THEN ResetModule(mine[n]) ELSE mine[n]]
  /\ hotQueue' = hotQueue \cup {n \in HotSources : Kill(n) /\ mine[n].hmr.type = "accept"}
  /\ hotDoc' = [hotDoc EXCEPT !.hmr = TRUE,
       !.reloading = @ \/ \E n \in HotSources : Kill(n) /\ mine[n].hmr.type # "accept"]
  /\ hotHistory' = [hotHistory EXCEPT !.owed = Owes(m, KeptExports(m, Keeps)),
                                      !.left = @ \cup {n \in HotSources : Kill(n)}]
  /\ hotStack' = CallMade
  /\ UNCHANGED <<hotSource, hotImporters, hotLater>>

HotNext ==
  \/ FirstLoad \/ HotCompile \/ GraphFinished \/ HotReload
  \/ RunEntry \/ SweepOn \/ SweepEnds \/ Returns
  \/ \E call \in hotLater : AcceptLands(call) \/ DeclineLands(call)
  \/ \E m \in HotSources :
       \/ \E script \in HotScripts[m] : HotEdit(m, script)
       \/ Transformed(m) \/ Require(m) \/ AcceptSelf(m) \/ Dispose(m) \/ OtherModule(m)
       \/ DeclineSelf(m) \/ Throw(m) \/ PostludeAccepts(m) \/ PostludeInvalidates(m)

HotSpec == HotInit /\ [][HotNext]_hotVars
----------------------------------------------------------------------------
(* Properties. *)

\* When an update is reported as applied, every module runs the code of its source: what
\* changed was evaluated, whoever required it and wherever the sweep was. Excepted (`left`)
\* are an importer that an invalidated module reset, which waits for the next update
\* (bundler.ts:1453), one whose evaluation a throwing dependency cut short, which is
\* not dirty any more and which later updates pass by (Module.ts:189), and one reset while
\* it ran: it has no code when its next change is drained, so that resetCompilation
\* leaves it its evaluation (Module.ts:129).
UpdatesReachModules ==
  hotDoc.at = "idle" /\ hotDoc.ok /\ ~hotDoc.reloading /\ hotDoc.changed = {} =>
    \A m \in HotSources \ hotHistory.left : hotMods[m].eval = hotSource[m].rev

\* An evaluation that has registered a dispose handler is disposed of exactly once, before
\* the next one of its module: no timer or listener of an evaluation outlives the module's
\* handle on it, through errors, resets and invalidations, until the page goes. A failed
\* first load that is tried again forgets its handlers (index.ts:547).
EffectsAreDisposed ==
  ~hotHistory.retried =>
    \A m \in HotSources :
      hotHistory.owed[m] = IF hotMods[m].hmr.handler = NoHandler THEN 0 ELSE 1

UpdatesLand == UpdatesReachModules /\ EffectsAreDisposed
============================================================================
