----------------------------- MODULE Transport -----------------------------
(***************************************************************************)
(* The two request and response transports of a preview document:          *)
(* retryFetch with its immutable cache and the bridge to the parent's      *)
(* (utils/fetch.ts, protocol/iframe.ts, and on the host's side             *)
(* file-resolver-protocol.ts and immutable-fetch-protocol.ts), and the     *)
(* WorkerMessageBus that carries transforms to the Babel worker.           *)
(*                                                                         *)
(* Fetches run concurrently, in one document or in several that share the  *)
(* cache; an action is what runs between two awaits.  One immutable URL is *)
(* modelled.  Its body is "good", the bytes the pins name, or "bad": what  *)
(* a broken upstream served, or what a re-pinned version was before.       *)
(***************************************************************************)
EXTENDS Naturals

CONSTANTS
  Fetches,         \* calls of retryFetch
  Pinned,          \* those with a pinnedSri
  FetchRetries,    \* maxRetries
  FetchFaults,     \* bound on failed attempts, and on turns of the upstream
  Transforms       \* requests to the Babel worker

ASSUME TransportAssumption ==
  Pinned \subseteq Fetches /\ FetchRetries \in Nat /\ FetchFaults \in Nat

VARIABLES
  fetchSetup,   \* where the cache is: "local" CacheStorage, the "parent", or nowhere:
                \* a parent that predates the protocol ("old") or refuses the URL ("refuses")
  fetchNet,     \* what the upstream serves now
  fetchCache,   \* the cache's entry
  fetchBridge,  \* parentImmutableFetch is defined
  fetchCalls,   \* the calls, in the document
  fetchParent,  \* their requests, at the parent
  fetchFaults,
  busWorker,    \* the worker is alive
  busPending,   \* pendingRequests
  busCalls      \* the transforms

fetchHost == <<fetchNet, fetchCache, fetchFaults>>
fetchVars == <<fetchSetup, fetchNet, fetchCache, fetchBridge, fetchCalls, fetchParent, fetchFaults>>
busVars == <<busWorker, busPending, busCalls>>

NoBody == "none"
Bodies == {"good", "bad"}
\* responseMatchesSri, matchesIntegrity: an unpinned call takes everything.
Matches(c, body) == c \in Pinned => body = "good"

FetchInit ==
  /\ fetchSetup \in {"local", "parent", "old", "refuses"}
  /\ fetchNet \in Bodies
  /\ fetchCache \in Bodies \cup {NoBody}
  /\ fetchBridge = TRUE
  /\ fetchCalls = [c \in Fetches |-> [at |-> "none", body |-> NoBody, count |-> 0, from |-> "none"]]
  /\ fetchParent = [c \in Fetches |-> [at |-> "none", body |-> NoBody]]
  /\ fetchFaults = 0
----------------------------------------------------------------------------
(* retryFetch. *)

FetchGoes(c, at) == fetchCalls' = [fetchCalls EXCEPT ![c].at = at]
Serves(c, body, from) ==
  fetchCalls' = [fetchCalls EXCEPT ![c].at = "served", ![c].body = body, ![c].from = from]
Failing == fetchFaults < FetchFaults /\ fetchFaults' = fetchFaults + 1

\* The cache opens, or the parent is asked: protocolRequest, against a timer. Without
\* either, the network.
FetchStarts(c) ==
  /\ fetchCalls[c].at = "none"
  /\ FetchGoes(c, CASE fetchSetup = "local" -> "match"
                    [] fetchSetup # "local" /\ fetchBridge -> "waiting"
                    [] OTHER -> "net")
  /\ fetchParent' = [fetchParent EXCEPT ![c].at =
       IF ~fetchBridge THEN "none"
       ELSE CASE fetchSetup = "local"   -> "none"
              [] fetchSetup = "parent"  -> "match"
              [] fetchSetup = "refuses" -> "refusal"
              [] OTHER                  -> "unheard"]
  /\ UNCHANGED <<fetchSetup, fetchHost, fetchBridge>>

CacheMatch(c) ==
  /\ fetchCalls[c].at = "match"
  /\ fetchCalls' = [fetchCalls EXCEPT
       ![c].at = IF fetchCache = NoBody THEN "net" ELSE "verify", ![c].body = fetchCache]
  /\ UNCHANGED <<fetchSetup, fetchHost, fetchBridge, fetchParent>>

\* Seeded fault: a hit is served as it is.
VerifyHit_Trusting(c) ==
  /\ fetchCalls[c].at = "verify"
  /\ Serves(c, fetchCalls[c].body, "cache")
  /\ UNCHANGED <<fetchSetup, fetchHost, fetchBridge, fetchParent>>

\* The hit is hashed; one that differs from the pin is evicted, whatever is there by now.
VerifyHit(c) ==
  /\ fetchCalls[c].at = "verify"
  /\ IF Matches(c, fetchCalls[c].body)
       THEN Serves(c, fetchCalls[c].body, "cache") /\ UNCHANGED fetchCache
       ELSE FetchGoes(c, "net") /\ fetchCache' = NoBody
  /\ UNCHANGED <<fetchSetup, fetchNet, fetchFaults, fetchBridge, fetchParent>>

\* retryFetchUncached gets the body; behind a local cache it is still to be stored.
NetAnswers(c) ==
  /\ fetchCalls[c].at = "net"
  /\ IF fetchSetup = "local"
       THEN fetchCalls' = [fetchCalls EXCEPT ![c].at = "store", ![c].body = fetchNet]
       ELSE Serves(c, fetchNet, "net")
  /\ UNCHANGED <<fetchSetup, fetchHost, fetchBridge, fetchParent>>

\* A retryable status, or no answer: another attempt after a delay, up to maxRetries.
NetFails(c) ==
  /\ fetchCalls[c].at = "net" /\ Failing
  /\ fetchCalls' = [fetchCalls EXCEPT
       ![c].at = IF fetchCalls[c].count < FetchRetries THEN "net" ELSE "failed", ![c].count = @ + 1]
  /\ UNCHANGED <<fetchSetup, fetchNet, fetchCache, fetchBridge, fetchParent>>

\* Any other status ends the call.
NetRefuses(c) ==
  /\ fetchCalls[c].at = "net" /\ Failing
  /\ FetchGoes(c, "failed")
  /\ UNCHANGED <<fetchSetup, fetchNet, fetchCache, fetchBridge, fetchParent>>

\* Only what matches the pin is stored, if the store has room; the body is returned
\* either way, for its caller to judge.
CachePut(c) ==
  /\ fetchCalls[c].at = "store"
  /\ Serves(c, fetchCalls[c].body, "net")
  /\ fetchCache' \in IF Matches(c, fetchCalls[c].body) THEN {fetchCalls[c].body, fetchCache}
                     ELSE {fetchCache}
  /\ UNCHANGED <<fetchSetup, fetchNet, fetchFaults, fetchBridge, fetchParent>>
----------------------------------------------------------------------------
(* fetchViaParent, and handleImmutableFetch at the parent. *)

ParentMatch(c) ==
  /\ fetchParent[c].at = "match"
  /\ fetchParent' = [fetchParent EXCEPT
       ![c].at = IF fetchCache = NoBody THEN "net" ELSE "verify", ![c].body = fetchCache]
  /\ UNCHANGED <<fetchSetup, fetchHost, fetchBridge, fetchCalls>>

ParentVerifies(c) ==
  /\ fetchParent[c].at = "verify"
  /\ IF Matches(c, fetchParent[c].body)
       THEN fetchParent' = [fetchParent EXCEPT ![c].at = "cached"] /\ UNCHANGED fetchCache
       ELSE fetchParent' = [fetchParent EXCEPT ![c].at = "net"] /\ fetchCache' = NoBody
  /\ UNCHANGED <<fetchSetup, fetchNet, fetchFaults, fetchBridge, fetchCalls>>

ParentFetched(c) ==
  /\ fetchParent[c].at = "net"
  /\ fetchParent' = [fetchParent EXCEPT ![c].at = "store", ![c].body = fetchNet]
  /\ UNCHANGED <<fetchSetup, fetchHost, fetchBridge, fetchCalls>>

\* A status, or a redirect out of the allowlist: the parent does not retry.
ParentFails(c) ==
  /\ fetchParent[c].at = "net" /\ Failing
  /\ fetchParent' = [fetchParent EXCEPT ![c].at = "refusal"]
  /\ UNCHANGED <<fetchSetup, fetchNet, fetchCache, fetchBridge, fetchCalls>>

ParentPuts(c) ==
  /\ fetchParent[c].at = "store"
  /\ fetchParent' = [fetchParent EXCEPT ![c].at = "fresh"]
  /\ fetchCache' \in IF Matches(c, fetchParent[c].body) THEN {fetchParent[c].body, fetchCache}
                     ELSE {fetchCache}
  /\ UNCHANGED <<fetchSetup, fetchNet, fetchFaults, fetchBridge, fetchCalls>>

\* The answer finds its call by msgId. A refusal sends the call to the network, and the
\* answer to a call that timed out is nobody's.
ParentReplies(c) ==
  /\ fetchParent[c].at \in {"cached", "fresh", "refusal"}
  /\ fetchParent' = [fetchParent EXCEPT ![c].at = "done"]
  /\ IF fetchCalls[c].at # "waiting" THEN UNCHANGED fetchCalls
     ELSE IF fetchParent[c].at = "refusal" THEN FetchGoes(c, "net")
     ELSE Serves(c, fetchParent[c].body, IF fetchParent[c].at = "cached" THEN "cache" ELSE "net")
  /\ UNCHANGED <<fetchSetup, fetchHost, fetchBridge>>

\* PARENT_FETCH_TIMEOUT_MS: the call goes to the network, and later ones go there at
\* once, however well the parent is.
BridgeTimesOut(c) ==
  /\ fetchCalls[c].at = "waiting"
  /\ fetchBridge' = FALSE
  /\ FetchGoes(c, "net")
  /\ UNCHANGED <<fetchSetup, fetchHost, fetchParent>>

UpstreamTurns ==
  /\ Failing
  /\ fetchNet' = IF fetchNet = "good" THEN "bad" ELSE "good"
  /\ UNCHANGED <<fetchSetup, fetchCache, fetchBridge, fetchCalls, fetchParent>>

FetchStep(c) ==
  \/ FetchStarts(c) \/ CacheMatch(c) \/ VerifyHit(c) \/ NetAnswers(c) \/ CachePut(c)
  \/ ParentMatch(c) \/ ParentVerifies(c) \/ ParentFetched(c) \/ ParentPuts(c)
  \/ ParentReplies(c) \/ BridgeTimesOut(c)
FetchNext ==
  \/ UpstreamTurns
  \/ \E c \in Fetches : FetchStep(c) \/ NetFails(c) \/ NetRefuses(c) \/ ParentFails(c)
----------------------------------------------------------------------------
(* WorkerMessageBus. A message names its request by id, which no other has. *)

BusInit ==
  /\ busWorker = TRUE
  /\ busPending = {}
  /\ busCalls = [t \in Transforms |-> [at |-> "none", got |-> {}]]

\* request arms a timer and posts the message; one to a dead worker is lost.
Request(t) ==
  /\ busCalls[t].at = "none"
  /\ busPending' = busPending \cup {t}
  /\ busCalls' = [busCalls EXCEPT ![t].at = IF busWorker THEN "sent" ELSE "lost"]
  /\ UNCHANGED busWorker

\* The worker answers in any order, with a result or an error.
WorkerAnswers(t) ==
  /\ busWorker /\ busCalls[t].at \in {"sent", "late"}
  /\ busCalls' = [busCalls EXCEPT ![t].at = IF @ = "sent" THEN "answered" ELSE "lateAnswer"]
  /\ UNCHANGED <<busWorker, busPending>>

\* The entry of an answered request stays in pendingRequests; one that timed out has none.
AnswerArrives(t) ==
  /\ busCalls[t].at \in {"answered", "lateAnswer"}
  /\ busCalls' = [busCalls EXCEPT
       ![t].at = "settled", ![t].got = IF t \in busPending THEN @ \cup {"answer"} ELSE @]
  /\ UNCHANGED <<busWorker, busPending>>

\* timeoutMs: the transform becomes a CompilationError.
RequestTimesOut(t) ==
  /\ t \in busPending /\ busCalls[t].at \in {"sent", "answered", "lost"}
  /\ busPending' = busPending \ {t}
  /\ busCalls' = [busCalls EXCEPT
       ![t].at = CASE @ = "sent" -> "late" [] @ = "answered" -> "lateAnswer" [] OTHER -> "settled",
       ![t].got = @ \cup {"timeout"}]
  /\ UNCHANGED busWorker

\* The host terminates the worker of a document that was replaced or registered again.
WorkerTerminated ==
  /\ busWorker /\ busWorker' = FALSE
  /\ busCalls' = [t \in Transforms |-> CASE busCalls[t].at = "sent" -> [busCalls[t] EXCEPT !.at = "lost"]
                                         [] busCalls[t].at = "late" -> [busCalls[t] EXCEPT !.at = "settled"]
                                         [] OTHER -> busCalls[t]]
  /\ UNCHANGED busPending

BusStep(t) == Request(t) \/ WorkerAnswers(t) \/ AnswerArrives(t) \/ RequestTimesOut(t)
BusNext == WorkerTerminated \/ \E t \in Transforms : BusStep(t)
----------------------------------------------------------------------------
(* Properties. *)

\* The body of an answer is what the caller pinned, or it comes from the network: no
\* cache passes on what a broken upstream or an earlier pin left in it.
FetchSettled(c) ==
  \/ fetchCalls[c].at \in {"none", "failed"}
  \/ fetchCalls[c].at = "served" /\ (fetchCalls[c].from = "cache" => Matches(c, fetchCalls[c].body))

\* A transform was answered or timed out: one of them, for good.
TransformSettled(t) ==
  \/ busCalls[t].at = "none"
  \/ \E how \in {"answer", "timeout"} : busCalls[t].got = {how}

\* Every fetch gets such an answer, with a parent that is silent, slow or refuses, and
\* every transform settles, exactly once, with a worker that is slow or gone: the timers
\* of the bridge and of the bus are all that ends the wait (fetch.ts:123,
\* WorkerMessageBus.ts:101). A call is made once here and stays settled.
RequestsSettle ==
  []<>((\A c \in Fetches : FetchSettled(c)) /\ (\A t \in Transforms : TransformSettled(t)))
============================================================================
