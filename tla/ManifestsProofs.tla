--------------------------- MODULE ManifestsProofs ---------------------------
(***************************************************************************)
(* Proofs about the releases a document runs, at both ends.  Manifests, at *)
(* the CDN: for any number of concurrent requests, any history of npm, and *)
(* any number of failed downloads and evictions.  PackageSupply, in the    *)
(* document: for all packages, releases, shapes and sidecars, and any      *)
(* number of compiles, edits, releases published and failures.             *)
(***************************************************************************)
EXTENDS Manifests, PackageSupply, WellFoundedInduction, TLAPS

-----------------------------------------------------------------------------
(* The inductive invariant *)

Stage == {"none", "hasLru", "hasRow", "age", "refresh", "missing", "fetch", "refetch", "write",
          "pop",
          "getLru", "getRow", "put", "choose", "found", "notFound", "failed"}
\* Ahead of the first download; past the age test and the download; and with a manifest
\* read from the store.
Ahead == {"none", "hasLru", "hasRow", "age", "refresh"}
Past == {"pop", "getLru", "getRow", "put", "choose", "missing", "found", "notFound", "failed"}
InHand == {"put", "choose", "found"}

Request == [at : Stage, kind : Kinds, wants : Nat, rev : Nat, again : BOOLEAN,
            floor : Nat, npm : Nat, aged : BOOLEAN, held : BOOLEAN]

Typed ==
  /\ manNpm \in Nat \ {0}
  /\ manRow \in [rev : Nat, old : BOOLEAN]
  /\ manLru \in Nat
  /\ manCalls \in [ManRequests -> Request]
  /\ manHistory \in [spoiled : BOOLEAN, newest : Nat, faults : Nat]

\* Nothing is newer than npm, and no download on its way is older than what was the oldest
\* when a request came.
Bounded ==
  /\ manRow.rev <= manNpm
  /\ \A r \in ManRequests :
       LET call == manCalls[r] IN
       /\ call.npm <= manNpm
       /\ call.at # "none" => call.wants <= manNpm
       /\ call.at \in Ahead => ~call.again
       /\ call.at = "write" => call.rev # Unknown /\ call.rev <= manNpm
       /\ call.at \in InHand => call.rev # Unknown /\ call.rev <= manNpm
  /\ \A q, r \in ManRequests : manCalls[q].at = "write" => manCalls[r].npm <= manCalls[q].rev
  /\ \A r \in ManRequests : manCalls[r].at = "write" => manCalls[r].wants <= manCalls[r].rev

\* The store holds the newest download written, in both places, unless a writer has still to
\* tell the LRU.
InStep ==
  /\ manRow.rev \in {Unknown, manHistory.newest}
  /\ manLru # Unknown => Popping \/ manLru = manRow.rev

\* A row that was old has been replaced by what npm had when the request came, or removed.
Caught(call) == manRow.rev = Unknown \/ call.npm <= manRow.rev

Follows(r) ==
  LET call == manCalls[r] IN
  /\ call.floor <= manHistory.newest
  /\ manLru # Unknown => call.floor <= manLru
  /\ call.at \in InHand => call.floor <= call.rev
  /\ call.kind = "tag" /\ call.aged =>
       /\ manRow.old \/ Caught(call)
       /\ call.at \in Past => call.held \/ Caught(call)
       /\ call.at \in InHand => call.held \/ call.npm <= call.rev
  /\ call.again /\ ~call.held =>
       /\ call.at \in Past => call.wants <= manHistory.newest
       /\ call.at \in InHand => call.wants <= call.rev
  /\ call.at = "notFound" => call.held \/ ManEmpty \cap (call.wants .. manNpm) # {}

Following == ~manHistory.spoiled => InStep /\ \A r \in ManRequests : Follows(r)
-----------------------------------------------------------------------------
(* Types and bounds *)

LEMMA MinIsLeast ==
  ASSUME NEW S \in SUBSET Nat, S # {}
  PROVE  Min(S) \in S /\ \A n \in S : Min(S) <= n
<1>1. PICK m \in S : \A n \in S : <<n, m>> \notin OpToRel(<, Nat)
  BY WFMin, NatLessThanWellFounded, Zenon
<1>2. ASSUME NEW n \in S
      PROVE  m <= n
  <2>1. <<n, m>> \in Nat \X Nat /\ <<n, m>> \notin OpToRel(<, Nat)
    BY <1>1, Zenon
  <2>2. ~(n < m)
    BY <2>1, Zenon DEF OpToRel
  <2>. QED BY <2>2
<1>3. m \in S /\ \A n \in S : m <= n
  BY <1>1, <1>2
<1>. QED BY <1>3 DEF Min

LEMMA OldestIsOldest ==
  ASSUME Typed
  PROVE  /\ Oldest \in Nat /\ Oldest <= manNpm
         /\ \A q \in ManRequests : manCalls[q].at = "write" => Oldest <= manCalls[q].rev
<1> DEFINE coming == {manCalls[r].rev : r \in {q \in ManRequests : manCalls[q].at = "write"}}
           S == {manNpm} \cup coming
<1>1. S \in SUBSET Nat /\ S # {} /\ manNpm \in S
  BY DEF Typed, Request
<1>2. \A q \in ManRequests : manCalls[q].at = "write" => manCalls[q].rev \in S
  OBVIOUS
<1>3. Oldest = Min(S)
  BY DEF Oldest
<1> HIDE DEF S
<1>. QED BY <1>1, <1>2, <1>3, MinIsLeast

LEMMA InitTyped ==
  ASSUME ManInit
  PROVE  Typed /\ Bounded
<1>1. Typed
  <2>1. manRow \in [rev : Nat, old : BOOLEAN]
    BY DEF ManInit, Unknown
  <2>2. NoCall \in Request
    BY DEF NoCall, Request, Stage, Kinds, Unknown
  <2>3. manHistory \in [spoiled : BOOLEAN, newest : Nat, faults : Nat]
    BY <2>1 DEF ManInit
  <2>4. manCalls \in [ManRequests -> Request]
    BY <2>2 DEF ManInit
  <2>. QED BY <2>1, <2>3, <2>4 DEF ManInit, Typed, Unknown
<1>2. Bounded
  BY DEF ManInit, Bounded, Ahead, InHand, NoCall, Unknown
<1>. QED BY <1>1, <1>2

Moves(r) ==
  \/ \E kind \in Kinds, v \in Revision : Ask(r, kind, v)
  \/ HasInLru(r) \/ HasInRow(r) \/ TestAge(r) \/ RefreshPackage(r)
  \/ Downloaded(r) \/ DownloadFails(r) \/ WriteRow(r) \/ PopLru(r) \/ DeletePackage(r)
  \/ GetFromLru(r) \/ GetFromRow(r) \/ PutIntoLru(r) \/ Choose(r)

\* One request moves at a time.
LEMMA OthersStay ==
  ASSUME Typed, NEW r \in ManRequests, Moves(r)
  PROVE  \A q \in ManRequests \ {r} : manCalls'[q] = manCalls[q]
BY DEF Moves, Ask, HasInLru, HasInRow, TestAge, RefreshPackage, Downloaded, DownloadFails,
       WriteRow, PopLru, DeletePackage, GetFromLru, GetFromRow, PutIntoLru, Choose, Goes,
       GoesWith, Typed

LEMMA RequestTyped ==
  ASSUME Typed, NEW r \in ManRequests
  PROVE  /\ manCalls[r] \in Request
         /\ \A call \in Request : [manCalls EXCEPT ![r] = call] \in [ManRequests -> Request]
BY DEF Typed

\* What each step does to the request that takes it.
LEMMA AskKnows ==
  ASSUME Typed, NEW v \in Revision
  PROVE  Written \in Nat /\ Oldest \in Nat /\ v \in Nat /\ manRow.old \in BOOLEAN
<1>1. Oldest \in Nat /\ Written \in Nat /\ v \in Nat
  BY OldestIsOldest, ManAssumption DEF Written, Revision, Unknown, Typed
<1>2. manRow.old \in BOOLEAN
  BY DEF Typed
<1>. QED BY <1>1, <1>2

LEMMA GoesDoes ==
  ASSUME Typed, NEW r \in ManRequests,
         \/ HasInLru(r) \/ HasInRow(r) \/ TestAge(r) \/ WriteRow(r) \/ PopLru(r)
         \/ DeletePackage(r) \/ PutIntoLru(r) \/ Choose(r)
  PROVE  \E at \in Stage : manCalls' = [manCalls EXCEPT ![r] = [@ EXCEPT !.at = at]]
BY Zenon DEF HasInLru, HasInRow, TestAge, WriteRow, PopLru, DeletePackage, PutIntoLru, Choose,
             Goes, IsThere, Stage

LEMMA RefreshDoes ==
  ASSUME Typed, NEW r \in ManRequests, RefreshPackage(r)
  PROVE  \E at \in Stage : manCalls' = [manCalls EXCEPT ![r] =
           [@ EXCEPT !.at = at, !.again = manCalls[r].at = "missing", !.held = manCalls[r].held \/ manRefreshed]]
<1> DEFINE stage == IF manCalls[r].at = "refresh"
                      THEN IF manRefreshed THEN "getLru" ELSE "refetch"
                      ELSE IF manRefreshed THEN "notFound" ELSE "fetch"
<1>1. stage \in Stage
  BY Zenon DEF Stage
<1>2. manCalls' = [manCalls EXCEPT ![r] = [@ EXCEPT
        !.at = stage, !.again = manCalls[r].at = "missing", !.held = manCalls[r].held \/ manRefreshed]]
  BY DEF RefreshPackage
<1> HIDE DEF stage
<1>. QED BY <1>1, <1>2, Zenon

LEMMA DownloadedDoes ==
  ASSUME Typed, NEW r \in ManRequests, Downloaded(r) \/ GetFromRow(r)
  PROVE  \E at \in Stage, rev \in Nat :
           manCalls' = [manCalls EXCEPT ![r] = [@ EXCEPT !.at = at, !.rev = rev]]
<1>1. manNpm \in Nat /\ manRow.rev \in Nat
  BY DEF Typed
<1>. QED BY <1>1, Zenon DEF Downloaded, GetFromRow, GoesWith, Stage

LEMMA DownloadFailsDoes ==
  ASSUME Typed, NEW r \in ManRequests, DownloadFails(r)
  PROVE  \E at \in Stage :
           manCalls' = [manCalls EXCEPT ![r] = [@ EXCEPT !.at = at, !.held = TRUE]]
BY Zenon DEF DownloadFails, Stage

LEMMA GetFromLruDoes ==
  ASSUME Typed, NEW r \in ManRequests, GetFromLru(r)
  PROVE  \E at \in Stage : manCalls' = [manCalls EXCEPT ![r] =
           [@ EXCEPT !.at = at, !.rev = manLru, !.held = manCalls[r].held \/ Popping]]
BY Zenon DEF GetFromLru, Stage

LEMMA CallsTyped ==
  ASSUME Typed, NEW r \in ManRequests, Moves(r)
  PROVE  manCalls' \in [ManRequests -> Request]
<1>0. manCalls[r] \in Request /\ manNpm \in Nat /\ manLru \in Nat
  BY DEF Typed
<1>1. ASSUME NEW kind \in Kinds, NEW v \in Revision, Ask(r, kind, v)
      PROVE  \E call \in Request : manCalls' = [manCalls EXCEPT ![r] = call]
  <2>1. Written \in Nat /\ Oldest \in Nat /\ v \in Nat /\ manRow.old \in BOOLEAN
    BY AskKnows
  <2>2. [NoCall EXCEPT !.at = "hasLru", !.kind = kind, !.wants = v,
                       !.floor = Written, !.npm = Oldest, !.aged = manRow.old] \in Request
    BY <2>1 DEF NoCall, Request, Stage, Kinds, Unknown
  <2>. QED BY <1>1, <2>2, Zenon DEF Ask
<1>2. CASE \/ HasInLru(r) \/ HasInRow(r) \/ TestAge(r) \/ WriteRow(r) \/ PopLru(r)
           \/ DeletePackage(r) \/ PutIntoLru(r) \/ Choose(r)
  <2>1. PICK at \in Stage : manCalls' = [manCalls EXCEPT ![r] = [@ EXCEPT !.at = at]]
    BY <1>2, GoesDoes, Zenon
  <2>2. [manCalls[r] EXCEPT !.at = at] \in Request
    BY <1>0 DEF Request
  <2>. QED BY <2>1, <2>2, RequestTyped, Zenon
<1>3. CASE RefreshPackage(r)
  <2>1. PICK at \in Stage : manCalls' = [manCalls EXCEPT ![r] =
           [@ EXCEPT !.at = at, !.again = manCalls[r].at = "missing", !.held = manCalls[r].held \/ manRefreshed]]
    BY <1>3, RefreshDoes
  <2>2. [manCalls[r] EXCEPT !.at = at, !.again = manCalls[r].at = "missing",
                            !.held = manCalls[r].held \/ manRefreshed] \in Request
    BY <1>0 DEF Request
  <2>. QED BY <2>1, <2>2, RequestTyped, Zenon
<1>4. CASE Downloaded(r) \/ GetFromRow(r)
  <2>1. PICK at \in Stage, rev \in Nat :
           manCalls' = [manCalls EXCEPT ![r] = [@ EXCEPT !.at = at, !.rev = rev]]
    BY <1>4, DownloadedDoes, Zenon
  <2>2. [manCalls[r] EXCEPT !.at = at, !.rev = rev] \in Request
    BY <1>0 DEF Request
  <2>. QED BY <2>1, <2>2, RequestTyped, Zenon
<1>5. CASE DownloadFails(r)
  <2>1. PICK at \in Stage :
           manCalls' = [manCalls EXCEPT ![r] = [@ EXCEPT !.at = at, !.held = TRUE]]
    BY <1>5, DownloadFailsDoes, Zenon
  <2>2. [manCalls[r] EXCEPT !.at = at, !.held = TRUE] \in Request
    BY <1>0 DEF Request
  <2>. QED BY <2>1, <2>2, RequestTyped, Zenon
<1>6. CASE GetFromLru(r)
  <2>1. PICK at \in Stage : manCalls' = [manCalls EXCEPT ![r] =
           [@ EXCEPT !.at = at, !.rev = manLru, !.held = manCalls[r].held \/ Popping]]
    BY <1>6, GetFromLruDoes
  <2>2. [manCalls[r] EXCEPT !.at = at, !.rev = manLru, !.held = manCalls[r].held \/ Popping] \in Request
    BY <1>0 DEF Request
  <2>. QED BY <2>1, <2>2, RequestTyped, Zenon
<1>. QED BY <1>1, <1>2, <1>3, <1>4, <1>5, <1>6, RequestTyped DEF Moves

LEMMA HistoryTyped ==
  ASSUME Typed, NEW r \in ManRequests, Moves(r)
  PROVE  manHistory' \in [spoiled : BOOLEAN, newest : Nat, faults : Nat]
<1>0. manCalls[r].rev \in Nat
  BY DEF Typed, Request
<1>1. CASE WriteRow(r) \/ DeletePackage(r)
  BY <1>0, <1>1 DEF WriteRow, DeletePackage, WithWrite, Typed
<1>2. CASE PutIntoLru(r)
  BY <1>2 DEF PutIntoLru, Typed
<1>3. CASE DownloadFails(r)
  BY <1>3 DEF DownloadFails, Typed
<1>4. CASE manHistory' = manHistory
  BY <1>4 DEF Typed
<1>. QED BY <1>1, <1>2, <1>3, <1>4
         DEF Moves, Ask, HasInLru, HasInRow, TestAge, RefreshPackage, Downloaded, PopLru,
             GetFromLru, GetFromRow, Choose

LEMMA StoreTyped ==
  ASSUME Typed, NEW r \in ManRequests, Moves(r)
  PROVE  manNpm' = manNpm /\ manRow' \in [rev : Nat, old : BOOLEAN] /\ manLru' \in Nat
<1>0. manCalls[r].rev \in Nat
  BY DEF Typed, Request
<1>1. CASE WriteRow(r)
  BY <1>0, <1>1 DEF WriteRow, Typed
<1>2. CASE DeletePackage(r)
  BY <1>2 DEF DeletePackage, Unknown, Typed
<1>3. CASE PopLru(r) \/ PutIntoLru(r)
  BY <1>0, <1>3 DEF PopLru, PutIntoLru, Unknown, Typed
<1>4. CASE manNpm' = manNpm /\ manRow' = manRow /\ manLru' = manLru
  BY <1>4 DEF Typed
<1>. QED BY <1>1, <1>2, <1>3, <1>4
         DEF Moves, Ask, HasInLru, HasInRow, TestAge, RefreshPackage, Downloaded, DownloadFails,
             GetFromLru, GetFromRow, Choose, manStore

LEMMA StepTyped ==
  ASSUME Typed, [ManNext]_manVars
  PROVE  Typed'
<1>1. CASE UNCHANGED manVars
  BY <1>1 DEF manVars, manStore, Typed
<1>2. CASE NpmPublishes
  BY <1>2 DEF NpmPublishes, manStore, Typed
<1>3. CASE MinutePasses \/ ManEvict
  BY <1>3 DEF MinutePasses, ManEvict, Unknown, Typed
<1>4. CASE DayPasses
  <2>1. manRow' \in [rev : Nat, old : BOOLEAN]
    BY <1>4 DEF DayPasses, Typed
  <2>. QED BY <1>4, <2>1 DEF DayPasses, Typed
<1>5. ASSUME NEW r \in ManRequests, Moves(r)
      PROVE  Typed'
  BY <1>5, CallsTyped, HistoryTyped, StoreTyped DEF Typed
<1>. QED BY <1>1, <1>2, <1>3, <1>4, <1>5 DEF ManNext, Moves

\* The row, the LRU and every request keep their types through any interleaving of requests,
\* downloads and evictions.
THEOREM TypeCorrect == ManSpec => []Typed
<1>. QED BY InitTyped, StepTyped, PTL DEF ManSpec
-----------------------------------------------------------------------------
(* What each step does *)

\* What was asked stays.
Keeps(r) ==
  /\ manCalls'[r].kind = manCalls[r].kind /\ manCalls'[r].wants = manCalls[r].wants
  /\ manCalls'[r].floor = manCalls[r].floor /\ manCalls'[r].npm = manCalls[r].npm
  /\ manCalls'[r].aged = manCalls[r].aged
KeepsAll(r) ==
  /\ Keeps(r) /\ manCalls'[r].rev = manCalls[r].rev
  /\ manCalls'[r].again = manCalls[r].again /\ manCalls'[r].held = manCalls[r].held

LEMMA GoesKeeps ==
  ASSUME Typed, NEW r \in ManRequests, NEW at, Goes(r, at)
  PROVE  KeepsAll(r) /\ manCalls'[r].at = at
<1>1. manCalls' = [manCalls EXCEPT ![r] = [manCalls[r] EXCEPT !.at = at]]
  BY Zenon DEF Goes
<1>2. manCalls'[r] = [manCalls[r] EXCEPT !.at = at]
  BY <1>1, Zenon DEF Typed
<1>3. manCalls[r] \in Request
  BY DEF Typed
<1>. QED BY <1>2, <1>3 DEF Keeps, KeepsAll, Request

LEMMA GoesWithKeeps ==
  ASSUME Typed, NEW r \in ManRequests, NEW at, NEW rev, GoesWith(r, at, rev)
  PROVE  /\ Keeps(r) /\ manCalls'[r].at = at /\ manCalls'[r].rev = rev
         /\ manCalls'[r].again = manCalls[r].again /\ manCalls'[r].held = manCalls[r].held
<1>1. manCalls'[r] = [manCalls[r] EXCEPT !.at = at, !.rev = rev]
  BY Zenon DEF GoesWith, Typed
<1>2. manCalls[r] \in Request
  BY DEF Typed
<1>. QED BY <1>1, <1>2 DEF Keeps, Request

LEMMA AskDoes ==
  ASSUME Typed, NEW r \in ManRequests, NEW kind \in Kinds, NEW v \in Revision, Ask(r, kind, v)
  PROVE  /\ manCalls'[r].at = "hasLru" /\ manCalls'[r].wants = v /\ v <= manNpm
         /\ manCalls'[r].floor = Written /\ manCalls'[r].npm = Oldest
         /\ manCalls'[r].aged = manRow.old /\ ~manCalls'[r].again
         /\ manCalls[r].at = "none" /\ UNCHANGED <<manNpm, manRow, manLru, manHistory>>
<1>1. manCalls'[r] = [NoCall EXCEPT !.at = "hasLru", !.kind = kind, !.wants = v,
                       !.floor = Written, !.npm = Oldest, !.aged = manRow.old]
  BY Zenon DEF Ask, Typed
<1>2. manCalls[r].at = "none" /\ v <= manNpm /\ UNCHANGED <<manNpm, manRow, manLru, manHistory>>
  BY DEF Ask, manStore
<1>. QED BY <1>1, <1>2 DEF NoCall

LEMMA LookupDoes ==
  ASSUME Typed, NEW r \in ManRequests, HasInLru(r) \/ HasInRow(r) \/ TestAge(r)
  PROVE  /\ KeepsAll(r) /\ manCalls[r].at \in {"hasLru", "hasRow", "age"}
         /\ manCalls'[r].at \in {"hasRow", "age", "refresh", "fetch", "getLru"}
         /\ manCalls'[r].at = "getLru" /\ manCalls[r].kind = "tag" => ~manRow.old
         /\ UNCHANGED <<manNpm, manRow, manLru, manHistory>>
<1>1. CASE HasInLru(r)
  <2>1. KeepsAll(r) /\ manCalls'[r].at = IF manLru = Unknown THEN "hasRow" ELSE IsThere(r)
    BY <1>1, GoesKeeps, Zenon DEF HasInLru
  <2>. QED BY <1>1, <2>1 DEF HasInLru, IsThere, manStore
<1>2. CASE HasInRow(r)
  <2>1. KeepsAll(r) /\ manCalls'[r].at = IF manRow.rev = Unknown THEN "fetch" ELSE IsThere(r)
    BY <1>2, GoesKeeps, Zenon DEF HasInRow
  <2>. QED BY <1>2, <2>1 DEF HasInRow, IsThere, manStore
<1>3. CASE TestAge(r)
  <2>1. KeepsAll(r) /\ manCalls'[r].at = IF manRow.old \/ manRow.rev = Unknown THEN "refresh" ELSE "getLru"
    BY <1>3, GoesKeeps, Zenon DEF TestAge
  <2>. QED BY <1>3, <2>1 DEF TestAge, manStore
<1>. QED BY <1>1, <1>2, <1>3

LEMMA RefreshPackageDoes ==
  ASSUME Typed, NEW r \in ManRequests, RefreshPackage(r)
  PROVE  /\ Keeps(r) /\ manCalls[r].at \in {"refresh", "missing"}
         /\ \/ manCalls'[r].at \in {"fetch", "refetch"}
            \/ manCalls'[r].at \in {"getLru", "notFound"} /\ manCalls'[r].held
         /\ UNCHANGED <<manNpm, manRow, manLru, manHistory>>
<1> DEFINE stage == IF manCalls[r].at = "refresh"
                      THEN IF manRefreshed THEN "getLru" ELSE "refetch"
                      ELSE IF manRefreshed THEN "notFound" ELSE "fetch"
<1>1. stage \in {"fetch", "refetch"} \/ (stage \in {"getLru", "notFound"} /\ manRefreshed)
  OBVIOUS
<1>2. manCalls'[r] = [manCalls[r] EXCEPT !.at = stage, !.again = manCalls[r].at = "missing",
                                         !.held = manCalls[r].held \/ manRefreshed]
  BY Zenon DEF RefreshPackage, Typed
<1> HIDE DEF stage
<1>3. manCalls[r] \in Request
  BY DEF Typed
<1>4. /\ manCalls'[r].at = stage /\ Keeps(r)
      /\ manCalls'[r].held <=> manCalls[r].held \/ manRefreshed
  BY <1>2, <1>3 DEF Request, Keeps
<1>. QED BY <1>1, <1>4 DEF RefreshPackage

LEMMA DownloadFailsKeeps ==
  ASSUME Typed, NEW r \in ManRequests, DownloadFails(r)
  PROVE  /\ Keeps(r) /\ manCalls[r].at \in {"fetch", "refetch"}
         /\ manCalls'[r].at \in {"getLru", "failed"} /\ manCalls'[r].held
         /\ manHistory'.spoiled = manHistory.spoiled /\ manHistory'.newest = manHistory.newest
         /\ UNCHANGED <<manNpm, manRow, manLru>>
<1>1. PICK at \in {"getLru", "failed"} :
        manCalls' = [manCalls EXCEPT ![r] = [manCalls[r] EXCEPT !.at = at, !.held = TRUE]]
  BY Zenon DEF DownloadFails
<1>2. manCalls'[r] = [manCalls[r] EXCEPT !.at = at, !.held = TRUE]
  BY <1>1, Zenon DEF Typed
<1>3. manCalls[r] \in Request
  BY DEF Typed
<1>4. manCalls'[r].at = at /\ Keeps(r) /\ manCalls'[r].held
  BY <1>2, <1>3 DEF Request, Keeps
<1>. QED BY <1>4 DEF DownloadFails, manStore, Typed

LEMMA WriteDoes ==
  ASSUME Typed, NEW r \in ManRequests, WriteRow(r) \/ DeletePackage(r)
  PROVE  /\ KeepsAll(r) /\ manCalls[r].at = "write"
         /\ \/ manCalls'[r].at = "pop" /\ manRow'.rev = manCalls[r].rev /\ manLru' = manLru
            \/ manCalls'[r].at = "getLru" /\ manRow'.rev = Unknown /\ manLru' = Unknown
         /\ manHistory'.newest = manCalls[r].rev
         /\ manHistory'.spoiled <=> manHistory.spoiled \/ manCalls[r].rev < manHistory.newest
         /\ manNpm' = manNpm
<1>1. /\ manHistory'.newest = manCalls[r].rev
      /\ manHistory'.spoiled <=> manHistory.spoiled \/ manCalls[r].rev < manHistory.newest
  BY DEF WriteRow, DeletePackage, WithWrite, Typed
<1>2. CASE WriteRow(r)
  <2>1. KeepsAll(r) /\ manCalls'[r].at = "pop"
    BY <1>2, GoesKeeps DEF WriteRow
  <2>. QED BY <1>1, <1>2, <2>1 DEF WriteRow
<1>3. CASE DeletePackage(r)
  <2>1. KeepsAll(r) /\ manCalls'[r].at = "getLru"
    BY <1>3, GoesKeeps DEF DeletePackage
  <2>. QED BY <1>1, <1>3, <2>1 DEF DeletePackage
<1>. QED BY <1>2, <1>3

LEMMA GetFromLruKeeps ==
  ASSUME Typed, NEW r \in ManRequests, GetFromLru(r)
  PROVE  /\ Keeps(r) /\ manCalls[r].at = "getLru"
         /\ manCalls'[r].at = IF manLru = Unknown THEN "getRow" ELSE "choose"
         /\ manCalls'[r].rev = manLru /\ manCalls'[r].again = manCalls[r].again
         /\ manCalls'[r].held <=> manCalls[r].held \/ Popping
         /\ UNCHANGED <<manNpm, manRow, manLru, manHistory>>
<1>1. manCalls'[r] = [manCalls[r] EXCEPT !.at = IF manLru = Unknown THEN "getRow" ELSE "choose",
                                         !.rev = manLru, !.held = manCalls[r].held \/ Popping]
  BY Zenon DEF GetFromLru, Typed
<1>2. manCalls[r] \in Request
  BY DEF Typed
<1>3. /\ Keeps(r) /\ manCalls'[r].rev = manLru /\ manCalls'[r].again = manCalls[r].again
      /\ manCalls'[r].at = IF manLru = Unknown THEN "getRow" ELSE "choose"
      /\ manCalls'[r].held <=> manCalls[r].held \/ Popping
  BY <1>1, <1>2 DEF Request, Keeps
<1>. QED BY <1>3 DEF GetFromLru, manStore

LEMMA ChooseDoes ==
  ASSUME Typed, NEW r \in ManRequests, Choose(r)
  PROVE  /\ KeepsAll(r) /\ manCalls[r].at = "choose"
         /\ \/ manCalls'[r].at \in {"found", "missing"}
            \/ /\ manCalls'[r].at = "notFound" /\ manCalls[r].again
               /\ ~Lists(manCalls[r].rev, manCalls[r].wants)
         /\ UNCHANGED <<manNpm, manRow, manLru, manHistory>>
<1>1. /\ KeepsAll(r)
      /\ manCalls'[r].at = IF Lists(manCalls[r].rev, manCalls[r].wants) THEN "found"
                           ELSE IF manCalls[r].again THEN "notFound" ELSE "missing"
  BY GoesKeeps, Zenon DEF Choose
<1>. QED BY <1>1 DEF Choose, manStore
-----------------------------------------------------------------------------
(* Bounds *)

CallBounded(r) ==
  /\ manCalls[r].npm <= manNpm
  /\ manCalls[r].at # "none" => manCalls[r].wants <= manNpm
  /\ manCalls[r].at \in Ahead => ~manCalls[r].again
  /\ manCalls[r].at = "write" => manCalls[r].rev # Unknown /\ manCalls[r].rev <= manNpm
  /\ manCalls[r].at \in InHand => manCalls[r].rev # Unknown /\ manCalls[r].rev <= manNpm
  /\ manCalls[r].at = "write" => manCalls[r].wants <= manCalls[r].rev

\* A move of one request leaves it within bounds, and asks for nothing that a download on
\* its way is too old for.
LEMMA MoveBounded ==
  ASSUME Typed, Bounded, manLru <= manNpm, NEW r \in ManRequests, Moves(r)
  PROVE  /\ manNpm' = manNpm /\ manRow'.rev <= manNpm /\ manLru' <= manNpm
         /\ CallBounded(r)'
         /\ manCalls'[r].at = "write" =>
              manCalls'[r].rev = manNpm \/ (manCalls[r].at = "write" /\ manCalls'[r] = manCalls[r])
         /\ manCalls'[r].npm = manCalls[r].npm \/ manCalls'[r].npm = Oldest
<1> USE DEF CallBounded, Keeps, KeepsAll, Ahead, InHand, Unknown
<1>0. /\ manNpm \in Nat /\ manRow.rev \in Nat /\ manLru \in Nat
      /\ manCalls[r].rev \in Nat /\ manCalls[r].wants \in Nat /\ manCalls[r].npm \in Nat
      /\ manCalls[r].at \in Stage
  BY DEF Typed, Request
<1>00. CallBounded(r) /\ manRow.rev <= manNpm
  BY DEF Bounded
<1>1. ASSUME NEW kind \in Kinds, NEW v \in Revision, Ask(r, kind, v)
      PROVE  /\ manNpm' = manNpm /\ manRow' = manRow /\ manLru' = manLru
             /\ CallBounded(r)' /\ manCalls'[r].at # "write" /\ manCalls'[r].npm = Oldest
  BY <1>0, <1>1, AskDoes, OldestIsOldest
<1>2. CASE HasInLru(r) \/ HasInRow(r) \/ TestAge(r)
  BY <1>0, <1>00, <1>2, LookupDoes
<1>3. CASE RefreshPackage(r)
  <2>1. manCalls'[r].at \in Ahead => FALSE
    BY <1>3, RefreshPackageDoes
  <2>. QED BY <1>0, <1>00, <1>3, <2>1, RefreshPackageDoes
<1>4. CASE Downloaded(r)
  <2>1. /\ Keeps(r) /\ manCalls'[r].at = "write" /\ manCalls'[r].rev = manNpm
        /\ manCalls[r].at \in {"fetch", "refetch"} /\ UNCHANGED <<manNpm, manRow, manLru>>
    BY <1>4, GoesWithKeeps DEF Downloaded, manStore
  <2>2. manNpm # 0
    BY DEF Typed
  <2>. QED BY <1>0, <1>00, <2>1, <2>2
<1>5. CASE DownloadFails(r)
  BY <1>0, <1>00, <1>5, DownloadFailsKeeps
<1>6. CASE WriteRow(r) \/ DeletePackage(r)
  BY <1>0, <1>00, <1>6, WriteDoes
<1>7. CASE PopLru(r)
  <2>1. /\ KeepsAll(r) /\ manCalls'[r].at = "getLru" /\ manCalls[r].at = "pop"
        /\ manLru' = Unknown /\ UNCHANGED <<manNpm, manRow>>
    BY <1>7, GoesKeeps DEF PopLru
  <2>. QED BY <1>0, <1>00, <2>1
<1>8. CASE GetFromLru(r)
  BY <1>0, <1>00, <1>8, GetFromLruKeeps
<1>9. CASE GetFromRow(r)
  <2>1. /\ Keeps(r) /\ manCalls'[r].at = IF manRow.rev = Unknown THEN "failed" ELSE "put"
        /\ manCalls'[r].rev = manRow.rev
        /\ manCalls[r].at = "getRow" /\ UNCHANGED <<manNpm, manRow, manLru>>
    BY <1>9, GoesWithKeeps DEF GetFromRow, manStore
  <2>. QED BY <1>0, <1>00, <2>1
<1>10. CASE PutIntoLru(r)
  <2>1. /\ KeepsAll(r) /\ manCalls'[r].at = "choose" /\ manCalls[r].at = "put"
        /\ manLru' = manCalls[r].rev /\ UNCHANGED <<manNpm, manRow>>
    BY <1>10, GoesKeeps DEF PutIntoLru
  <2>. QED BY <1>0, <1>00, <2>1
<1>11. CASE Choose(r)
  BY <1>0, <1>00, <1>11, ChooseDoes
<1>. QED BY <1>0, <1>00, <1>1, <1>2, <1>3, <1>4, <1>5, <1>6, <1>7, <1>8, <1>9, <1>10, <1>11 DEF Moves

LEMMA StepBounded ==
  ASSUME Typed, Bounded, manLru <= manNpm, [ManNext]_manVars
  PROVE  Bounded' /\ (manLru <= manNpm)' /\ manNpm <= manNpm'
<1>0. manNpm \in Nat /\ manRow.rev \in Nat /\ \A r \in ManRequests : manCalls[r] \in Request
  BY DEF Typed
<1>1. CASE manNpm <= manNpm' /\ manNpm' \in Nat /\ manRow'.rev = manRow.rev
           /\ manLru' \in {manLru, Unknown} /\ manCalls' = manCalls
  <2>1. manLru' <= manNpm'
    BY <1>0, <1>1 DEF Unknown, Typed
  <2>2. \A r \in ManRequests : manCalls[r].npm \in Nat /\ manCalls[r].wants \in Nat /\ manCalls[r].rev \in Nat
    BY <1>0 DEF Request
  <2>. QED BY <1>0, <1>1, <2>1, <2>2 DEF Bounded
<1>2. ASSUME NEW r \in ManRequests, Moves(r)
      PROVE  Bounded' /\ (manLru <= manNpm)' /\ manNpm' = manNpm
  <2>1. /\ manNpm' = manNpm /\ manRow'.rev <= manNpm /\ manLru' <= manNpm /\ CallBounded(r)'
        /\ manCalls'[r].at = "write" =>
             manCalls'[r].rev = manNpm \/ (manCalls[r].at = "write" /\ manCalls'[r] = manCalls[r])
        /\ manCalls'[r].npm = manCalls[r].npm \/ manCalls'[r].npm = Oldest
    BY <1>2, MoveBounded
  <2>2. \A q \in ManRequests \ {r} : manCalls'[q] = manCalls[q]
    BY <1>2, OthersStay
  <2>3. \A q \in ManRequests : CallBounded(q)
    BY DEF Bounded, CallBounded
  <2>4. \A q \in ManRequests : CallBounded(q)'
    BY <2>1, <2>2, <2>3 DEF CallBounded
  <2>5. /\ \A q \in ManRequests : manCalls[q].at = "write" => Oldest <= manCalls[q].rev
        /\ Oldest \in Nat /\ Oldest <= manNpm
    BY OldestIsOldest
  <2>6. ASSUME NEW q \in ManRequests, NEW p \in ManRequests, manCalls'[q].at = "write"
        PROVE  manCalls'[p].npm <= manCalls'[q].rev
    <3>1. manCalls'[q].rev = manNpm \/ (manCalls[q].at = "write" /\ manCalls'[q].rev = manCalls[q].rev)
      BY <2>1, <2>2, <2>6
    <3>2. manCalls'[p].npm = manCalls[p].npm \/ manCalls'[p].npm = Oldest
      BY <2>1, <2>2
    <3>3. manCalls[p].npm <= manNpm
      BY <2>3 DEF CallBounded
    <3>4. manCalls[q].at = "write" => manCalls[p].npm <= manCalls[q].rev /\ Oldest <= manCalls[q].rev
      BY <2>5 DEF Bounded
    <3>. QED BY <2>5, <3>1, <3>2, <3>3, <3>4
  <2>. QED BY <2>1, <2>4, <2>6 DEF Bounded, CallBounded
<1>3. CASE UNCHANGED manVars
  BY <1>0, <1>1, <1>3 DEF manVars, manStore
<1>4. CASE NpmPublishes
  BY <1>0, <1>1, <1>4 DEF NpmPublishes, manStore
<1>5. CASE MinutePasses \/ ManEvict
  BY <1>0, <1>1, <1>5 DEF MinutePasses, ManEvict
<1>6. CASE DayPasses
  <2>1. manRow'.rev = manRow.rev
    BY <1>6 DEF DayPasses, Typed
  <2>. QED BY <1>0, <1>1, <1>6, <2>1 DEF DayPasses
<1>. QED BY <1>0, <1>2, <1>3, <1>4, <1>5, <1>6 DEF ManNext, Moves
-----------------------------------------------------------------------------
(* Answers follow npm *)

\* Where the store may go: its newest download only gets newer, the LRU never goes back, and
\* no row is replaced by one that is too old for a request there is.
Forward ==
  /\ manNpm <= manNpm' /\ manHistory.newest <= manHistory'.newest
  /\ manLru' \in {Unknown, manLru, manHistory'.newest}
  /\ \/ manRow' = manRow
     \/ manRow'.rev = manRow.rev /\ manRow'.old
     \/ manRow'.rev = Unknown
     \/ \A q \in ManRequests : manCalls[q].npm <= manRow'.rev

LEMMA PoppingStays ==
  ASSUME Typed, NEW r \in ManRequests, Moves(r), manCalls[r].at # "pop" \/ manCalls'[r].at = "pop",
         Popping
  PROVE  Popping'
<1>1. PICK q \in ManRequests : manCalls[q].at = "pop"
  BY DEF Popping
<1>2. manCalls'[q].at = "pop"
  BY <1>1, OthersStay
<1>. QED BY <1>2 DEF Popping

LEMMA StoreForward ==
  ASSUME Typed, Bounded, ~manHistory.spoiled => InStep, [ManNext]_manVars, ~manHistory'.spoiled
  PROVE  ~manHistory.spoiled /\ Forward /\ InStep'
<1>0. /\ manNpm \in Nat /\ manRow.rev \in Nat /\ manLru \in Nat /\ manHistory.newest \in Nat
      /\ \A r \in ManRequests : manCalls[r].rev \in Nat /\ manCalls[r].npm \in Nat
  BY DEF Typed, Request
<1>1. CASE /\ manNpm <= manNpm' /\ manHistory' = manHistory /\ manCalls' = manCalls
           /\ manLru' \in {manLru, Unknown}
           /\ manRow' = manRow \/ (manRow'.rev = manRow.rev /\ manRow'.old)
  BY <1>0, <1>1 DEF Forward, InStep, Popping, Unknown
<1>2. ASSUME NEW r \in ManRequests, Moves(r)
      PROVE  ~manHistory.spoiled /\ Forward /\ InStep'
  <2>1. ASSUME manCalls[r].at # "pop", UNCHANGED <<manNpm, manRow, manLru>>,
               manHistory'.spoiled = manHistory.spoiled, manHistory'.newest = manHistory.newest
        PROVE  ~manHistory.spoiled /\ Forward /\ InStep'
    BY <1>0, <1>2, <2>1, PoppingStays DEF Forward, InStep, Unknown
  <2>2. ASSUME NEW kind \in Kinds, NEW v \in Revision, Ask(r, kind, v)
        PROVE  ~manHistory.spoiled /\ Forward /\ InStep'
    BY <2>1, <2>2, AskDoes
  <2>3. CASE HasInLru(r) \/ HasInRow(r) \/ TestAge(r)
    BY <2>1, <2>3, LookupDoes
  <2>4. CASE RefreshPackage(r)
    BY <2>1, <2>4, RefreshPackageDoes
  <2>5. CASE Downloaded(r) \/ GetFromRow(r)
    BY <2>1, <2>5 DEF Downloaded, GetFromRow, manStore
  <2>6. CASE DownloadFails(r)
    BY <2>1, <2>6, DownloadFailsKeeps
  <2>7. CASE WriteRow(r) \/ DeletePackage(r)
    <3>1. /\ manCalls[r].at = "write"
          /\ \/ manCalls'[r].at = "pop" /\ manRow'.rev = manCalls[r].rev /\ manLru' = manLru
             \/ manRow'.rev = Unknown /\ manLru' = Unknown
          /\ manHistory'.newest = manCalls[r].rev /\ manNpm' = manNpm
          /\ ~manHistory.spoiled /\ ~(manCalls[r].rev < manHistory.newest)
      BY <2>7, WriteDoes
    <3>2. \A q \in ManRequests : manCalls[q].npm <= manCalls[r].rev
      BY <3>1 DEF Bounded
    <3>3. manCalls'[r].at = "pop" => Popping'
      BY DEF Popping
    <3>. QED BY <1>0, <3>1, <3>2, <3>3 DEF Forward, InStep
  <2>8. CASE PopLru(r)
    BY <1>0, <2>8 DEF PopLru, Forward, InStep, Unknown
  <2>9. CASE GetFromLru(r)
    BY <2>1, <2>9, GetFromLruKeeps
  <2>10. CASE PutIntoLru(r)
    <3>1. /\ manLru' = manCalls[r].rev /\ manCalls[r].at = "put" /\ UNCHANGED <<manNpm, manRow>>
          /\ manHistory'.newest = manHistory.newest
          /\ manHistory'.spoiled <=> manHistory.spoiled \/ manCalls[r].rev # manRow.rev
      BY <2>10 DEF PutIntoLru, Typed
    <3>2. manCalls[r].rev # Unknown
      BY <3>1 DEF Bounded, InHand
    <3>. QED BY <1>0, <3>1, <3>2 DEF Forward, InStep
  <2>11. CASE Choose(r)
    BY <2>1, <2>11, ChooseDoes
  <2>. QED BY <1>2, <2>2, <2>3, <2>4, <2>5, <2>6, <2>7, <2>8, <2>9, <2>10, <2>11 DEF Moves
<1>3. CASE UNCHANGED manVars
  BY <1>0, <1>1, <1>3 DEF manVars, manStore
<1>4. CASE NpmPublishes
  BY <1>0, <1>1, <1>4 DEF NpmPublishes, manStore
<1>5. CASE MinutePasses \/ ManEvict
  BY <1>0, <1>1, <1>5 DEF MinutePasses, ManEvict
<1>6. CASE DayPasses
  <2>1. manRow'.rev = manRow.rev /\ manRow'.old
    BY <1>6 DEF DayPasses, Typed
  <2>. QED BY <1>0, <1>1, <1>6, <2>1 DEF DayPasses
<1>. QED BY <1>2, <1>3, <1>4, <1>5, <1>6 DEF ManNext, Moves

\* What Follows says of a request, by how far it is.
OnItsWay(r) ==
  /\ manCalls[r].floor <= manHistory.newest
  /\ manLru # Unknown => manCalls[r].floor <= manLru
  /\ manCalls[r].kind = "tag" /\ manCalls[r].aged => manRow.old \/ Caught(manCalls[r])
Through(r) ==
  /\ manCalls[r].kind = "tag" /\ manCalls[r].aged => manCalls[r].held \/ Caught(manCalls[r])
  /\ manCalls[r].again => manCalls[r].held \/ manCalls[r].wants <= manHistory.newest
Read(r) ==
  /\ manCalls[r].floor <= manCalls[r].rev
  /\ manCalls[r].kind = "tag" /\ manCalls[r].aged =>
       manCalls[r].held \/ manCalls[r].npm <= manCalls[r].rev
  /\ manCalls[r].again => manCalls[r].held \/ manCalls[r].wants <= manCalls[r].rev
Excused(r) == manCalls[r].held \/ ManEmpty \cap (manCalls[r].wants .. manNpm) # {}

LEMMA FollowsIs ==
  ASSUME Typed, NEW r \in ManRequests
  PROVE  Follows(r) <=> /\ OnItsWay(r)
                        /\ manCalls[r].at \in Past => Through(r)
                        /\ manCalls[r].at \in InHand => Read(r)
                        /\ manCalls[r].at = "notFound" => Excused(r)
<1>1. manCalls[r] \in Request
  BY DEF Typed
<1>. QED BY <1>1 DEF Follows, OnItsWay, Through, Read, Excused, Request, Past, InHand

\* ... and of its next state.
LEMMA FollowsIsNext ==
  ASSUME Typed', NEW r \in ManRequests,
         OnItsWay(r)', manCalls'[r].at \in Past => Through(r)',
         manCalls'[r].at \in InHand => Read(r)', manCalls'[r].at = "notFound" => Excused(r)'
  PROVE  Follows(r)'
<1>1. manCalls'[r] \in Request
  BY DEF Typed
<1>. QED BY <1>1 DEF Follows, OnItsWay, Through, Read, Excused, Request, Past, InHand

LEMMA OnItsWayStays ==
  ASSUME Typed, Typed', NEW r \in ManRequests, Keeps(r), Forward, OnItsWay(r)
  PROVE  OnItsWay(r)'
<1>1. /\ manCalls[r].floor \in Nat /\ manCalls[r].npm \in Nat /\ manLru \in Nat
      /\ manHistory.newest \in Nat /\ manHistory'.newest \in Nat /\ manRow'.rev \in Nat
  BY DEF Typed, Request
<1>2. /\ manCalls'[r].floor <= manHistory'.newest
      /\ manLru' # Unknown => manCalls'[r].floor <= manLru'
  BY <1>1 DEF OnItsWay, Keeps, Forward, Unknown
<1>3. manCalls'[r].kind = "tag" /\ manCalls'[r].aged => manRow'.old \/ Caught(manCalls[r])'
  BY <1>1 DEF OnItsWay, Keeps, Forward, Unknown, Caught
<1>. QED BY <1>2, <1>3 DEF OnItsWay

\* A request that goes no further than it was: another one's move, or a step that reads nothing.
LEMMA Kept ==
  ASSUME Typed, Typed', NEW r \in ManRequests, KeepsAll(r), Forward, Follows(r),
         manCalls'[r].at \in Past => manCalls[r].at \in Past \/ Through(r),
         manCalls'[r].at \in InHand => manCalls[r].at \in InHand,
         manCalls'[r].at = "notFound" => manCalls[r].at = "notFound" \/ Excused(r)
  PROVE  Follows(r)'
<1>1. /\ manCalls[r].wants \in Nat /\ manCalls[r].npm \in Nat /\ manNpm \in Nat /\ manNpm' \in Nat
      /\ manHistory.newest \in Nat /\ manHistory'.newest \in Nat /\ manRow'.rev \in Nat
  BY DEF Typed, Request
<1>2. OnItsWay(r)'
  BY FollowsIs, OnItsWayStays DEF KeepsAll
<1>3. ASSUME Through(r)
      PROVE  Through(r)'
  <2>1. Caught(manCalls[r]) => Caught(manCalls[r])'
    BY <1>1 DEF Caught, Forward, Keeps, KeepsAll, Unknown
  <2>. QED BY <1>1, <1>3, <2>1 DEF Through, Forward, Keeps, KeepsAll
<1>4. Read(r) => Read(r)'
  BY DEF Read, Keeps, KeepsAll
<1>5. ASSUME Excused(r)
      PROVE  Excused(r)'
  <2>1. (manCalls[r].wants .. manNpm) \subseteq (manCalls'[r].wants .. manNpm')
    BY <1>1 DEF Forward, Keeps, KeepsAll
  <2>. QED BY <1>5, <2>1, Zenon DEF Excused, KeepsAll
<1>6. /\ manCalls[r].at \in Past => Through(r)
      /\ manCalls[r].at \in InHand => Read(r)
      /\ manCalls[r].at = "notFound" => Excused(r)
  BY FollowsIs
<1>. QED BY <1>2, <1>3, <1>4, <1>5, <1>6, FollowsIsNext

LEMMA AskFollows ==
  ASSUME Typed, Typed', InStep, Forward, NEW r \in ManRequests,
         NEW kind \in Kinds, NEW v \in Revision, Ask(r, kind, v)
  PROVE  Follows(r)'
<1>1. /\ manCalls'[r].at = "hasLru" /\ manCalls'[r].floor = Written
      /\ manCalls'[r].aged = manRow.old /\ UNCHANGED <<manRow, manLru, manHistory>>
  BY AskDoes
<1>2. /\ manRow.rev \in Nat /\ manLru \in Nat /\ manHistory.newest \in Nat
  BY DEF Typed
<1>3. Written <= manHistory.newest /\ (manLru # Unknown => Written <= manLru)
  BY <1>2 DEF InStep, Written, Unknown
<1>4. OnItsWay(r)'
  BY <1>1, <1>3 DEF OnItsWay
<1>. QED BY <1>1, <1>4, FollowsIsNext DEF Past, InHand

LEMMA GetFromLruFollows ==
  ASSUME Typed, Typed', InStep, Forward, NEW r \in ManRequests, Follows(r), GetFromLru(r)
  PROVE  Follows(r)'
<1>1. /\ Keeps(r) /\ manCalls[r].at = "getLru"
      /\ manCalls'[r].at = IF manLru = Unknown THEN "getRow" ELSE "choose"
      /\ manCalls'[r].rev = manLru /\ manCalls'[r].again = manCalls[r].again
      /\ manCalls'[r].held <=> manCalls[r].held \/ Popping
      /\ UNCHANGED <<manNpm, manRow, manLru, manHistory>>
  BY GetFromLruKeeps
<1>2. OnItsWay(r) /\ Through(r)
  BY <1>1, FollowsIs DEF Past
<1>3. OnItsWay(r)'
  BY <1>1, <1>2, OnItsWayStays
<1>4. Through(r)'
  BY <1>1, <1>2 DEF Through, Caught, Keeps
<1>5. manLru # Unknown => Read(r)'
  <2>1. manLru # Unknown => manCalls[r].floor <= manLru
    BY <1>2 DEF OnItsWay
  <2>2. manLru # Unknown /\ ~Popping => manLru = manRow.rev /\ manLru = manHistory.newest
    BY DEF InStep
  <2>. QED BY <1>1, <1>2, <2>1, <2>2 DEF Read, Through, Caught, Keeps
<1>. QED BY <1>1, <1>3, <1>4, <1>5, FollowsIsNext DEF InHand

LEMMA GetFromRowFollows ==
  ASSUME Typed, Typed', InStep, Forward, NEW r \in ManRequests, Follows(r), GetFromRow(r)
  PROVE  Follows(r)'
<1>1. /\ Keeps(r) /\ manCalls[r].at = "getRow"
      /\ manCalls'[r].at = IF manRow.rev = Unknown THEN "failed" ELSE "put"
      /\ manCalls'[r].rev = manRow.rev /\ manCalls'[r].again = manCalls[r].again
      /\ manCalls'[r].held = manCalls[r].held /\ UNCHANGED <<manNpm, manRow, manLru, manHistory>>
  BY GoesWithKeeps DEF GetFromRow, manStore
<1>2. OnItsWay(r) /\ Through(r)
  BY <1>1, FollowsIs DEF Past
<1>3. OnItsWay(r)'
  BY <1>1, <1>2, OnItsWayStays
<1>4. Through(r)'
  BY <1>1, <1>2 DEF Through, Caught, Keeps
<1>5. manRow.rev # Unknown => Read(r)'
  BY <1>1, <1>2 DEF InStep, OnItsWay, Read, Through, Caught, Keeps
<1>. QED BY <1>1, <1>3, <1>4, <1>5, FollowsIsNext DEF InHand

LEMMA WriteFollows ==
  ASSUME Typed, Typed', Bounded, Forward, NEW r \in ManRequests, Follows(r),
         WriteRow(r) \/ DeletePackage(r)
  PROVE  Follows(r)'
<1>1. /\ KeepsAll(r) /\ manCalls[r].at = "write" /\ manCalls'[r].at \in {"pop", "getLru"}
      /\ manRow'.rev = manCalls[r].rev \/ manRow'.rev = Unknown
      /\ manHistory'.newest = manCalls[r].rev
  BY WriteDoes
<1>2. OnItsWay(r)'
  BY <1>1, FollowsIs, OnItsWayStays DEF KeepsAll
<1>3. manCalls[r].npm <= manCalls[r].rev /\ manCalls[r].wants <= manCalls[r].rev
  BY <1>1 DEF Bounded
<1>4. Through(r)'
  BY <1>1, <1>3 DEF Through, Caught, Keeps, KeepsAll
<1>. QED BY <1>1, <1>2, <1>4, FollowsIsNext DEF InHand

LEMMA ChooseFollows ==
  ASSUME Typed, Typed', Bounded, Forward, NEW r \in ManRequests, Follows(r), Choose(r)
  PROVE  Follows(r)'
<1>1. /\ KeepsAll(r) /\ manCalls[r].at = "choose"
      /\ \/ manCalls'[r].at \in {"found", "missing"}
         \/ /\ manCalls'[r].at = "notFound" /\ manCalls[r].again
            /\ ~Lists(manCalls[r].rev, manCalls[r].wants)
  BY ChooseDoes
<1>2. /\ manCalls[r].rev \in Nat /\ manCalls[r].wants \in Nat /\ manNpm \in Nat
  BY DEF Typed, Request
<1>3. Read(r)
  BY <1>1, FollowsIs DEF InHand
<1>4. manCalls[r].rev # Unknown /\ manCalls[r].rev <= manNpm
  BY <1>1 DEF Bounded, InHand
<1>5. ASSUME manCalls'[r].at = "notFound", ~manCalls[r].held
      PROVE  Excused(r)
  <2>1. manCalls[r].wants <= manCalls[r].rev
    BY <1>1, <1>3, <1>5 DEF Read
  <2>2. manCalls[r].rev \in ManEmpty
    BY <1>1, <1>4, <1>5, <2>1 DEF Lists
  <2>3. manCalls[r].rev \in manCalls[r].wants .. manNpm
    BY <1>2, <1>4, <2>1
  <2>. QED BY <2>2, <2>3 DEF Excused
<1>6. Excused(r) \/ manCalls'[r].at # "notFound"
  BY <1>5 DEF Excused
<1>. QED BY <1>1, <1>6, Kept DEF Past, InHand

\* The request that moves.
LEMMA MoverFollows ==
  ASSUME Typed, Typed', Bounded, InStep, Forward, NEW r \in ManRequests, Follows(r), Moves(r)
  PROVE  Follows(r)'
<1>1. ASSUME NEW kind \in Kinds, NEW v \in Revision, Ask(r, kind, v)
      PROVE  Follows(r)'
  BY <1>1, AskFollows
<1>2. CASE HasInLru(r) \/ HasInRow(r) \/ TestAge(r)
  <2>1. /\ KeepsAll(r) /\ manCalls[r].at \in {"hasLru", "hasRow", "age"}
        /\ manCalls'[r].at \in {"hasRow", "age", "refresh", "fetch", "getLru"}
        /\ manCalls'[r].at = "getLru" /\ manCalls[r].kind = "tag" => ~manRow.old
    BY <1>2, LookupDoes
  <2>2. ~manCalls[r].again
    BY <2>1 DEF Bounded, Ahead
  <2>3. OnItsWay(r)
    BY FollowsIs
  <2>4. manCalls'[r].at \in Past => Through(r)
    BY <2>1, <2>2, <2>3 DEF Past, OnItsWay, Through
  <2>. QED BY <2>1, <2>4, Kept DEF InHand
<1>3. CASE RefreshPackage(r)
  <2>1. /\ Keeps(r)
        /\ \/ manCalls'[r].at \in {"fetch", "refetch"}
           \/ manCalls'[r].at \in {"getLru", "notFound"} /\ manCalls'[r].held
    BY <1>3, RefreshPackageDoes
  <2>2. OnItsWay(r)'
    BY <2>1, FollowsIs, OnItsWayStays
  <2>3. manCalls'[r].at \notin {"fetch", "refetch"} => Through(r)' /\ Excused(r)'
    BY <2>1 DEF Through, Excused
  <2>. QED BY <2>1, <2>2, <2>3, FollowsIsNext DEF Past, InHand
<1>4. CASE Downloaded(r)
  <2>1. Keeps(r) /\ manCalls'[r].at = "write"
    BY <1>4, GoesWithKeeps DEF Downloaded
  <2>2. OnItsWay(r)'
    BY <2>1, FollowsIs, OnItsWayStays
  <2>. QED BY <2>1, <2>2, FollowsIsNext DEF Past, InHand
<1>5. CASE DownloadFails(r)
  <2>1. Keeps(r) /\ manCalls'[r].at \in {"getLru", "failed"} /\ manCalls'[r].held
    BY <1>5, DownloadFailsKeeps
  <2>2. OnItsWay(r)'
    BY <2>1, FollowsIs, OnItsWayStays
  <2>3. Through(r)'
    BY <2>1 DEF Through
  <2>. QED BY <2>1, <2>2, <2>3, FollowsIsNext DEF InHand
<1>6. CASE WriteRow(r) \/ DeletePackage(r)
  BY <1>6, WriteFollows
<1>7. CASE PopLru(r)
  <2>1. KeepsAll(r) /\ manCalls'[r].at = "getLru" /\ manCalls[r].at = "pop"
    BY <1>7, GoesKeeps DEF PopLru
  <2>. QED BY <2>1, Kept DEF Past, InHand
<1>8. CASE GetFromLru(r)
  BY <1>8, GetFromLruFollows
<1>9. CASE GetFromRow(r)
  BY <1>9, GetFromRowFollows
<1>10. CASE PutIntoLru(r)
  <2>1. KeepsAll(r) /\ manCalls'[r].at = "choose" /\ manCalls[r].at = "put"
    BY <1>10, GoesKeeps DEF PutIntoLru
  <2>. QED BY <2>1, Kept DEF Past, InHand
<1>11. CASE Choose(r)
  BY <1>11, ChooseFollows
<1>. QED BY <1>1, <1>2, <1>3, <1>4, <1>5, <1>6, <1>7, <1>8, <1>9, <1>10, <1>11 DEF Moves

LEMMA InitFollows ==
  ASSUME ManInit
  PROVE  manLru <= manNpm /\ Following
<1>1. /\ manNpm = 1 /\ manLru = Unknown /\ manCalls = [r \in ManRequests |-> NoCall]
      /\ manRow.rev \in {Unknown, 1} /\ manHistory.newest = manRow.rev
  BY DEF ManInit
<1>2. InStep
  BY <1>1 DEF InStep
<1>3. \A r \in ManRequests : Follows(r)
  BY <1>1 DEF Follows, NoCall, Past, InHand, Unknown
<1>. QED BY <1>1, <1>2, <1>3 DEF Following, Unknown

LEMMA StepFollows ==
  ASSUME Typed, Typed', Bounded, Following, [ManNext]_manVars
  PROVE  Following'
<1> SUFFICES ASSUME ~manHistory'.spoiled
             PROVE  InStep' /\ \A r \in ManRequests : Follows(r)'
  BY DEF Following
<1>1. ~manHistory.spoiled /\ Forward /\ InStep'
  BY StoreForward DEF Following
<1>2. InStep /\ \A r \in ManRequests : Follows(r)
  BY <1>1 DEF Following
<1>3. ASSUME NEW q \in ManRequests, manCalls'[q] = manCalls[q]
      PROVE  Follows(q)'
  <2>1. KeepsAll(q) /\ manCalls'[q].at = manCalls[q].at
    BY <1>3 DEF Keeps, KeepsAll
  <2>. QED BY <1>1, <1>2, <2>1, Kept
<1>4. CASE manCalls' = manCalls
  BY <1>1, <1>3, <1>4
<1>5. ASSUME NEW r \in ManRequests, Moves(r)
      PROVE  \A q \in ManRequests : Follows(q)'
  <2>1. Follows(r)'
    BY <1>1, <1>2, <1>5, MoverFollows
  <2>2. \A q \in ManRequests \ {r} : Follows(q)'
    BY <1>3, <1>5, OthersStay
  <2>. QED BY <2>1, <2>2
<1>6. manCalls' = manCalls \/ \E r \in ManRequests : Moves(r)
  BY DEF ManNext, Moves, NpmPublishes, MinutePasses, DayPasses, ManEvict, manVars
<1>. QED BY <1>1, <1>4, <1>5, <1>6

LEMMA FollowingFollows ==
  ASSUME Typed, Bounded, Following
  PROVE  TagsFollowNpm
<1>1. ASSUME NEW r \in ManRequests, ~manHistory.spoiled
      PROVE  /\ manCalls[r].at = "found" =>
                  /\ manCalls[r].rev >= manCalls[r].floor
                  /\ manCalls[r].kind = "tag" /\ manCalls[r].aged =>
                       manCalls[r].rev >= manCalls[r].npm \/ manCalls[r].held
             /\ manCalls[r].at = "notFound" => Excused(r)
  <2>1. manCalls[r].at = "found" => Read(r)
    BY <1>1, FollowsIs DEF Following, InHand
  <2>2. manCalls[r].at = "notFound" => Excused(r)
    BY <1>1, FollowsIs DEF Following
  <2>3. manCalls[r].rev \in Nat /\ manCalls[r].floor \in Nat /\ manCalls[r].npm \in Nat
    BY DEF Typed, Request
  <2>. QED BY <2>1, <2>2, <2>3 DEF Read
<1>. QED BY <1>1 DEF TagsFollowNpm, FollowNpm, Excused

\* For any number of requests on any number of threads: a request, whatever it asks for, is
\* answered from no older manifest than the store had written when it came; a tag whose row
\* was old is chosen in what npm had then; and a published version is found; but for the
\* refreshes that are held back and the two races `spoiled` names. Nothing is said of how far
\* a range falls behind npm: it may, for ever (resolve_dep, fetch_and_store, write_package,
\* get_package).
THEOREM TagsFollow == ManSpec => []TagsFollowNpm
<1> DEFINE Inv == Typed /\ Bounded /\ manLru <= manNpm /\ Following
<1>1. ManInit => Inv
  BY InitTyped, InitFollows
<1>2. Inv /\ [ManNext]_manVars => Inv'
  BY StepTyped, StepBounded, StepFollows
<1>3. Inv => TagsFollowNpm
  BY FollowingFollows
<1>. QED BY <1>1, <1>2, <1>3, PTL DEF ManSpec
-----------------------------------------------------------------------------
(* PackageSupply: the inductive invariant of a first compile *)

SupModule ==
  [code : 0 .. SupTop, release : 0 .. SupTop, from : {"none", "zip", "cdn", "esm"}]
SupFetch ==
  [n : SupPackages, v : VersionSets, range : VersionSets,
   step : {"zip", "cdn", "entry", "build", "release"},
   externals : SUBSET SupPackages, build : 0 .. SupTop]
SupAt ==
  {"idle", "asked", "tree", "preload", "linked", "loaded", "reloading", "failed"}

SupTyped ==
  /\ supSidecar \in SupSidecars
  /\ supWorld \in [npm : [SupPackages -> 0 .. SupTop], mirror : [SupPackages -> 0 .. SupTop]]
  /\ supJson \in [SupDeclared -> SupRanges]
  /\ supLoad \in [at : SupAt, request : DepMap, awaits : SUBSET (SupPackages \X VersionSets)]
  /\ supRegistry \in [declared : DepMap, manifest : SUBSET Entry,
                      fallbacks : [SupPackages -> VersionSets],
                      modules : [SupPackages -> SupModule]]
  /\ supLoad.at # "idle" => supRegistry.declared \in [SupDeclared -> SupRanges]
  /\ supFetches \in SUBSET SupFetch
  /\ supPast \in [edited : SUBSET SupDeclared, overtaken : SUBSET SupPackages,
                  redeclared : BOOLEAN, trusted : BOOLEAN]

\* Before the first compile the registry is empty.
Fresh ==
  supLoad.at = "idle" =>
    /\ Registered = {} /\ supFetches = {} /\ supRegistry.manifest = {}
    /\ \A p \in SupPackages : supRegistry.fallbacks[p] = {}

\* A download is of files of a release, or of a fallback: then what it builds is in the
\* range, and it asks for the listing of a build that is self-contained only.
Sound(f) ==
  /\ f.step \in {"zip", "cdn"} <=> f.range = {}
  /\ f.step \in {"build", "release"} => f.build \in f.range
  /\ f.step = "release" => SelfContained(f) /\ SupShape[f.n] = "stub"

\* A fallback stays one: what comes from esm.sh is not pinned.
Fallbacks ==
  /\ \A f \in supFetches : Sound(f) /\ (f.range # {} => supRegistry.fallbacks[f.n] # {})
  /\ \A p \in SupPackages :
       /\ supRegistry.modules[p].release \in {NoRelease, supRegistry.modules[p].code}
       /\ supRegistry.modules[p].from = "esm" => supRegistry.fallbacks[p] # {}
       /\ supRegistry.modules[p].from = "none" => supRegistry.modules[p] = NotInstalled

\* There is one download of a package under a version; the compile waits for it, or it was
\* there when the downloads of this compile began.
Waited ==
  /\ \A f, g \in supFetches : f.n = g.n /\ f.v = g.v => f = g
  /\ supLoad.at \in {"preload", "linked", "loaded"} =>
       \A f \in supFetches : <<f.n, f.v>> \in supLoad.awaits \/ f.n \in supPast.overtaken
  /\ supLoad.at \in {"linked", "loaded"} =>
       /\ supLoad.awaits = {}
       /\ \A p \in SupPackages \ supPast.overtaken :
            supLinked[p] = supRegistry.modules[p].code

\* The manifest is installed or awaited, and its top is declared.
Covered ==
  /\ \A e \in supRegistry.manifest : e.d = 0 => e.n \in SupDeclared
  /\ supLoad.at = "preload" =>
       \A e \in supRegistry.manifest : e.n \in Registered \/ <<e.n, e.v>> \in supLoad.awaits
  /\ supLoad.at \in {"linked", "loaded"} => NamesOf(supRegistry.manifest) \subseteq Registered
  /\ supLoad.at = "asked" => supLoad.request = RequestDepMap(supRegistry.declared)

\* What there is of a package whose range was not edited is of its range, or what a lockset
\* that was taken resolved it to.
InRange(p) ==
  LET range == Permitted(p) IN
  /\ p \in Registered => supRegistry.modules[p].code \in range
  /\ supRegistry.fallbacks[p] \subseteq range
  /\ \A f \in supFetches : f.n = p => f.v \subseteq range /\ f.range \subseteq range
  /\ supLoad.at = "tree" => \A e \in supRegistry.manifest : e.n = p => e.v \subseteq range

Ranged == \A p \in SupDeclared \ supPast.edited : InRange(p)

\* The releases a tree may resolve p to, and the names it then has: they grow with the mirror.
RangeOf(p, known) == IF p \in DOMAIN known THEN known[p] ELSE Releases
Reach(p) == RangeOf(p, supRegistry.declared) \cap 1 .. supWorld.mirror[p]
Roots == SupImported \cap SupDeclared
TreeNames ==
  Roots \cup {q \in UNION {SupNeeds[p] : p \in {r \in Roots : Reach(r) # {}}} : Reach(q) # {}}
LocksetNames(lockset) == NamesOf(lockset.resolved) \cup DOMAIN lockset.requested

\* As long as package.json is the same, a compile that starts over has the names of the one
\* that failed in its manifest: those of the lockset, or those of the tree, since what is
\* pinned can be resolved again.
Repeats ==
  supLoad.at \in {"asked", "tree", "preload", "linked", "failed"} /\ ~supPast.redeclared =>
    IF Applies(supSidecar.lockset, supRegistry.declared)
    THEN supLoad.at # "asked" /\ NamesOf(supRegistry.manifest) = LocksetNames(supSidecar.lockset)
    ELSE /\ NamesOf(supRegistry.manifest) \subseteq TreeNames
         /\ \A p \in SupPackages :
              supRegistry.modules[p].from \in {"zip", "cdn"} => supRegistry.modules[p].code \in Reach(p)
         /\ \A f \in supFetches : f.range = {} => f.v \subseteq Reach(f.n)
         /\ supLoad.at = "tree" =>
              \A e \in supRegistry.manifest :
                supRegistry.fallbacks[e.n] = {} => e.v \subseteq Reach(e.n)

\* What a download was told is installed is in the manifest.
Told ==
  ~supPast.redeclared =>
    /\ \A f \in supFetches : f.externals \subseteq NamesOf(supRegistry.manifest)
    /\ \A p \in SupPackages : supRegistry.modules[p].from = "esm" =>
         SupNeeds[p] \subseteq NamesOf(supRegistry.manifest)

SupInv == SupTyped /\ Fresh /\ Fallbacks /\ Waited /\ Covered /\ Ranged /\ Repeats /\ Told
-----------------------------------------------------------------------------
(* Operators of PackageSupply *)

\* The newest release of a range up to one is of the range, and there is none only if the
\* range has none.
LEMMA NewestIs ==
  ASSUME NEW range \in SUBSET Nat, NEW top \in Nat
  PROVE  /\ Newest(range, top) # NoRelease => Newest(range, top) \in range \cap 1 .. top
         /\ Newest(range, top) = NoRelease <=> range \cap 1 .. top = {}
<1> DEFINE S == range \cap 1 .. top
           T == {top - x : x \in S}
<1>1. CASE S = {}
  BY <1>1 DEF Newest, NoRelease
<1>2. CASE S # {}
  <2>1. T \in SUBSET Nat /\ T # {}
    BY <1>2
  <2>2. PICK m \in T : \A n \in T : m <= n
    BY <2>1, MinIsLeast
  <2>3. PICK x \in S : m = top - x
    BY <2>2
  <2>4. \A y \in S : x >= y
    <3>1. TAKE y \in S
    <3>2. top - x <= top - y
      BY <2>2, <2>3
    <3>. QED BY <3>2
  <2>5. Max(S) \in S
    BY <2>3, <2>4 DEF Max
  <2>6. Newest(range, top) = Max(S)
    BY <1>2 DEF Newest
  <2>. QED BY <1>2, <2>5, <2>6 DEF NoRelease
<1>. QED BY <1>1, <1>2

LEMMA MapsAreMaps ==
  /\ \A map \in [SupDeclared -> SupRanges] : map \in DepMap /\ RequestDepMap(map) \in DepMap
  /\ NoRanges \in DepMap /\ RequestDepMap(NoRanges) \in DepMap
<1>1. \A names \in SUBSET SupPackages : [names -> VersionSets] \subseteq DepMap
  BY DEF DepMap
<1>2. ASSUME NEW names \in SUBSET SupPackages, NEW map \in [names -> VersionSets]
      PROVE  map \in DepMap /\ RequestDepMap(map) \in DepMap
  <2>1. RequestDepMap(map) \in [SupImported \cap names -> VersionSets]
    BY DEF RequestDepMap
  <2>2. SupImported \cap names \in SUBSET SupPackages
    OBVIOUS
  <2>. QED BY <1>1, <2>1, <2>2, Zenon
<1>3. [SupDeclared -> SupRanges] \subseteq [SupDeclared -> VersionSets]
  BY SupAssumption
<1>4. SupDeclared \in SUBSET SupPackages
  BY SupAssumption
<1>5. NoRanges \in [SupPackages -> VersionSets]
  BY DEF NoRanges, VersionSets
<1>. QED BY <1>2, <1>3, <1>4, <1>5

LEMMA TopIsNat == SupTop \in Nat /\ Releases \in SUBSET Nat /\ 0 .. SupTop \in SUBSET Nat
BY SupAssumption DEF Releases

LEMMA SupInitInv ==
  ASSUME SupInit
  PROVE  SupInv
<1> USE DEF SupInit
<1>1. supRegistry.declared = NoRanges /\ supRegistry.manifest = {}
      /\ supRegistry.fallbacks = NoRanges
      /\ supRegistry.modules = [p \in SupPackages |-> NotInstalled]
      /\ supRegistry \in [declared : DepMap, manifest : SUBSET Entry,
                          fallbacks : [SupPackages -> VersionSets],
                          modules : [SupPackages -> SupModule]]
  <2>1. NotInstalled \in SupModule
    BY TopIsNat DEF NotInstalled, SupModule, NoRelease
  <2>2. NoRanges \in [SupPackages -> VersionSets]
    BY DEF NoRanges, VersionSets
  <2>. QED BY <2>1, <2>2, MapsAreMaps
<1>2. Registered = {}
  BY <1>1 DEF Registered
<1>3. SupTyped
  <2>1. supWorld \in [npm : [SupPackages -> 0 .. SupTop], mirror : [SupPackages -> 0 .. SupTop]]
    BY SupAssumption DEF Releases
  <2>2. supLoad \in [at : SupAt, request : DepMap, awaits : SUBSET (SupPackages \X VersionSets)]
    BY MapsAreMaps DEF SupAt
  <2>. QED BY <1>1, <2>1, <2>2, SupAssumption DEF SupTyped
<1>4. Fresh /\ Fallbacks /\ Waited /\ Covered
  BY <1>1, <1>2 DEF Fresh, Fallbacks, Waited, Covered, NotInstalled, NoRelease, NoRanges
<1>5. Ranged
  BY <1>1, <1>2, SupAssumption DEF Ranged, InRange, NoRanges
<1>6. Repeats /\ Told
  BY <1>1 DEF Repeats, Told, NotInstalled
<1>. QED BY <1>3, <1>4, <1>5, <1>6 DEF SupInv
-----------------------------------------------------------------------------
(* The steps of PackageSupply *)

\* What a download brings: files of the release it is for; or of a build in its range, whose
\* imports it was told are installed.
Brings(f, module) ==
  /\ module \in SupModule /\ module.release \in {NoRelease, module.code}
  /\ \/ f.range = {} /\ module.from \in {"zip", "cdn"} /\ module.code \in f.v
     \/ /\ f.range # {} /\ module.from = "esm" /\ module.code \in f.range
        /\ SupNeeds[f.n] \subseteq f.externals

Stays(f, g) == g.n = f.n /\ g.v = f.v /\ g.range = f.range /\ g.externals = f.externals

\* A step of which the registry and its downloads know nothing.
SupQuiet ==
  /\ UNCHANGED <<supSidecar, supRegistry, supFetches, supLinked, supPast>>
  /\ supJson' \in [SupDeclared -> SupRanges]
  /\ supWorld' \in [npm : [SupPackages -> 0 .. SupTop], mirror : [SupPackages -> 0 .. SupTop]]
  /\ \A p \in SupPackages : supWorld.mirror[p] <= supWorld'.mirror[p]
  /\ \/ UNCHANGED supLoad
     \/ \E at \in SupAt :
          /\ <<supLoad.at, at>> \in {<<"asked", "failed">>, <<"linked", "loaded">>, <<"linked", "failed">>}
          /\ supLoad' = [supLoad EXCEPT !.at = at]

SupFetchStep(f) ==
  \/ FilesArrive(f) \/ FilesFail(f)
  \/ EntryArrives(f) \/ BuildArrives(f) \/ EsmFails(f) \/ ReleaseArrives(f)

\* A download brings the package, ends, or goes on.
SupFetchOutcome(f) ==
  \/ \E module \in SupModule : Registers(f, module) /\ Brings(f, module)
  \/ FetchEnds(f)
  \/ \E g \in SupFetch : Continues(f, g) /\ Stays(f, g) /\ Sound(g)

LEMMA FetchOutcomes ==
  ASSUME SupTyped, NEW f \in supFetches, Sound(f), SupFetchStep(f)
  PROVE  SupFetchOutcome(f)
<1>1. f \in SupFetch
  BY DEF SupTyped
<1>2. /\ f.n \in SupPackages /\ f.v \subseteq Releases /\ f.range \subseteq Releases
      /\ f.build \in 0 .. SupTop /\ f.externals \subseteq SupPackages
  BY <1>1 DEF SupFetch, VersionSets
<1>3. Releases \subseteq 0 .. SupTop /\ NoRelease \in 0 .. SupTop /\ NoRelease \notin Releases
  BY TopIsNat DEF Releases, NoRelease
<1>4. ASSUME NEW r \in Releases, NEW release \in {NoRelease, r}, NEW from \in {"zip", "cdn", "esm"}
      PROVE  /\ [code |-> r, release |-> release, from |-> from] \in SupModule
             /\ FromEsm(r, release) \in SupModule
             /\ FromEsm(r, release).release \in {NoRelease, FromEsm(r, release).code}
             /\ FromEsm(r, release).from = "esm" /\ FromEsm(r, release).code = r
  BY <1>3 DEF SupModule, FromEsm
<1>5. CASE FilesArrive(f)
  <2>1. f.step \in {"zip", "cdn"} /\ f.range = {}
    BY <1>5 DEF FilesArrive, Sound
  <2>2. PICK r \in f.v : Registers(f, [code |-> r, release |-> r, from |-> f.step])
    BY <1>5 DEF FilesArrive
  <2> DEFINE module == [code |-> r, release |-> r, from |-> f.step]
  <2>3. module \in SupModule
    BY <1>2, <1>4, <2>1
  <2>4. Brings(f, module)
    BY <2>1, <2>3 DEF Brings
  <2>. QED BY <2>2, <2>3, <2>4 DEF SupFetchOutcome
<1>6. CASE FilesFail(f) \/ EsmFails(f)
  BY <1>6 DEF FilesFail, EsmFails, SupFetchOutcome
<1>7. ASSUME NEW r \in f.range, NEW release \in {NoRelease, r},
             SelfContained(f), Registers(f, FromEsm(r, release))
      PROVE  SupFetchOutcome(f)
  <2>1. r \in Releases
    BY <1>2
  <2>2. Brings(f, FromEsm(r, release))
    BY <1>4, <1>7, <2>1 DEF Brings, SelfContained
  <2>. QED BY <1>4, <1>7, <2>1, <2>2 DEF SupFetchOutcome
<1>8. CASE EntryArrives(f)
  <2> DEFINE r == Newest(f.range, supWorld.npm[f.n])
  <2>1. f.step = "entry" /\ f.range # {}
    BY <1>8 DEF EntryArrives, Sound
  <2>2. supWorld.npm[f.n] \in Nat
    BY <1>2, TopIsNat DEF SupTyped
  <2>3. r # NoRelease => r \in f.range
    <3>1. f.range \in SUBSET Nat
      BY <1>2, TopIsNat
    <3>2. r # NoRelease => r \in f.range \cap 1 .. supWorld.npm[f.n]
      BY <2>2, <3>1, NewestIs
    <3>. QED BY <3>2
  <2>4. CASE r = NoRelease \/ (SupShape[f.n] \in {"module", "chunks"} /\ ~SelfContained(f))
    BY <1>8, <2>4 DEF EntryArrives, SupFetchOutcome
  <2>5. CASE r # NoRelease /\ SupShape[f.n] \in {"module", "chunks"} /\ SelfContained(f)
    <3>1. Registers(f, FromEsm(r, NoRelease))
      BY <1>8, <2>5 DEF EntryArrives
    <3>. HIDE DEF r
    <3>. QED BY <1>7, <2>3, <2>5, <3>1
  <2>6. CASE r # NoRelease /\ SupShape[f.n] \notin {"module", "chunks"}
    <3>1. Continues(f, [f EXCEPT !.step = "build", !.build = r])
      BY <1>8, <2>6 DEF EntryArrives
    <3>. HIDE DEF r
    <3> DEFINE g == [f EXCEPT !.step = "build", !.build = r]
    <3>2. r \in f.range /\ r \in 0 .. SupTop
      BY <1>2, <1>3, <2>3, <2>6
    <3>3. g \in SupFetch /\ Stays(f, g) /\ g.step = "build" /\ g.build = r
      BY <1>1, <3>2 DEF SupFetch, Stays
    <3>4. Sound(g)
      BY <2>1, <3>2, <3>3 DEF Sound, Stays
    <3>. QED BY <3>1, <3>3, <3>4 DEF SupFetchOutcome
  <2>. QED BY <2>4, <2>5, <2>6
<1>9. CASE BuildArrives(f)
  <2>1. f.step = "build" /\ f.range # {} /\ f.build \in f.range
    BY <1>9 DEF BuildArrives, Sound
  <2>2. CASE ~SelfContained(f)
    BY <1>9, <2>2 DEF BuildArrives, SupFetchOutcome
  <2>3. CASE SelfContained(f) /\ EsmBuildVersion(f) = NoRelease
    <3>1. Registers(f, FromEsm(f.build, NoRelease))
      BY <1>9, <2>3 DEF BuildArrives
    <3>. QED BY <1>7, <2>1, <2>3, <3>1
  <2>4. CASE SelfContained(f) /\ EsmBuildVersion(f) # NoRelease
    <3> DEFINE g == [f EXCEPT !.step = "release"]
    <3>1. Continues(f, g)
      BY <1>9, <2>4 DEF BuildArrives
    <3>2. g \in SupFetch /\ Stays(f, g) /\ g.step = "release" /\ g.build = f.build
      BY <1>1 DEF SupFetch, Stays
    <3>3. SupShape[f.n] = "stub"
      BY <2>4 DEF EsmBuildVersion
    <3>4. SelfContained(g)
      BY <2>4, <3>2 DEF SelfContained, Stays
    <3>. HIDE DEF g
    <3>5. Sound(g)
      BY <2>1, <3>2, <3>3, <3>4 DEF Sound, Stays
    <3>. QED BY <3>1, <3>2, <3>5 DEF SupFetchOutcome
  <2>. QED BY <2>2, <2>3, <2>4
<1>10. CASE ReleaseArrives(f)
  <2>1. f.step = "release" /\ f.range # {} /\ f.build \in f.range /\ SelfContained(f)
    BY <1>10 DEF ReleaseArrives, Sound
  <2>2. EsmBuildVersion(f) = f.build
    BY <2>1 DEF Sound, EsmBuildVersion
  <2>3. PICK release \in {NoRelease, f.build} : Registers(f, FromEsm(f.build, release))
    BY <1>10, <2>2 DEF ReleaseArrives
  <2>. QED BY <1>7, <2>1, <2>3
<1>. QED BY <1>5, <1>6, <1>8, <1>9, <1>10 DEF SupFetchStep

LEMMA SupSteps ==
  ASSUME SupTyped, Fallbacks, [SupNext]_supVars
  PROVE  \/ SupQuiet \/ LoadBegins \/ ManifestArrives \/ PreloadAll \/ Link \/ Adopt
         \/ \E f \in supFetches : SupFetchOutcome(f)
<1>1. \A p \in SupPackages : supWorld.mirror[p] \in Nat /\ supWorld.npm[p] \in 0 .. SupTop
  BY TopIsNat DEF SupTyped
<1> DEFINE WorldIs(world) ==
      /\ world \in [npm : [SupPackages -> 0 .. SupTop], mirror : [SupPackages -> 0 .. SupTop]]
      /\ \A p \in SupPackages : supWorld.mirror[p] <= world.mirror[p]
<1>2. WorldIs(supWorld)
  BY <1>1 DEF SupTyped
<1>3. CASE UNCHANGED supVars
  BY <1>2, <1>3 DEF SupQuiet, SupTyped, supVars
<1>4. CASE ManifestFails \/ AppRuns \/ AppFails
  <2>1. UNCHANGED <<supSidecar, supRegistry, supFetches, supLinked, supPast, supJson, supWorld>>
    BY <1>4 DEF ManifestFails, AppRuns, AppFails
  <2>2. \E at \in SupAt :
          /\ <<supLoad.at, at>> \in {<<"asked", "failed">>, <<"linked", "loaded">>, <<"linked", "failed">>}
          /\ supLoad' = [supLoad EXCEPT !.at = at]
    BY <1>4 DEF ManifestFails, AppRuns, AppFails, SupAt
  <2>. QED BY <1>2, <2>1, <2>2 DEF SupQuiet, SupTyped
<1>5. ASSUME NEW p \in SupPackages, Publish(p) \/ Mirrored(p)
      PROVE  SupQuiet
  <2>1. UNCHANGED <<supSidecar, supRegistry, supFetches, supLinked, supPast, supJson, supLoad>>
    BY <1>5 DEF Publish, Mirrored
  <2>2. WorldIs(supWorld')
    <3>1. CASE Publish(p)
      <4>1. supWorld.npm[p] + 1 \in 0 .. SupTop
        BY <1>1, <3>1, TopIsNat DEF Publish
      <4>2. supWorld' = [supWorld EXCEPT !.npm = [supWorld.npm EXCEPT ![p] = supWorld.npm[p] + 1]]
        BY <3>1 DEF Publish, SupTyped
      <4> DEFINE npm == [supWorld.npm EXCEPT ![p] = supWorld.npm[p] + 1]
      <4>3. npm \in [SupPackages -> 0 .. SupTop]
        BY <4>1 DEF SupTyped
      <4>. HIDE DEF npm
      <4>. QED BY <1>1, <4>2, <4>3 DEF SupTyped, npm
    <3>2. CASE Mirrored(p)
      <4> DEFINE mirror == [supWorld.mirror EXCEPT ![p] = supWorld.npm[p]]
      <4>1. supWorld' = [supWorld EXCEPT !.mirror = mirror] /\ supWorld.mirror[p] < supWorld.npm[p]
        BY <3>2 DEF Mirrored, SupTyped
      <4>2. mirror \in [SupPackages -> 0 .. SupTop]
        BY <1>1 DEF SupTyped
      <4>3. \A q \in SupPackages : supWorld.mirror[q] <= mirror[q]
        BY <1>1, <4>1, TopIsNat DEF SupTyped
      <4>. HIDE DEF mirror
      <4>4. supWorld'.npm = supWorld.npm /\ supWorld'.mirror = mirror
            /\ supWorld' \in [npm : [SupPackages -> 0 .. SupTop], mirror : [SupPackages -> 0 .. SupTop]]
        BY <4>1, <4>2 DEF SupTyped
      <4>. QED BY <4>3, <4>4
    <3>. QED BY <1>5, <3>1, <3>2
  <2>. QED BY <2>1, <2>2 DEF SupQuiet, SupTyped
<1>6. ASSUME NEW p \in SupDeclared, NEW range \in SupRanges, SupEdit(p, range)
      PROVE  SupQuiet
  <2>1. UNCHANGED <<supSidecar, supRegistry, supFetches, supLinked, supPast, supLoad, supWorld>>
    BY <1>6 DEF SupEdit
  <2>2. supJson' \in [SupDeclared -> SupRanges]
    BY <1>6 DEF SupEdit, SupTyped
  <2>. QED BY <1>2, <2>1, <2>2 DEF SupQuiet
<1>7. ASSUME NEW f \in supFetches, SupFetchStep(f)
      PROVE  SupFetchOutcome(f)
  BY <1>7, FetchOutcomes DEF Fallbacks
<1>. QED
  BY <1>3, <1>4, <1>5, <1>6, <1>7 DEF SupNext, SupFetchStep

\* What is permitted depends on the declared map and the lockset.
LEMMA PermittedStays ==
  ASSUME supSidecar' = supSidecar, supPast'.trusted = supPast.trusted,
         supRegistry'.declared = supRegistry.declared, NEW p
  PROVE  Permitted(p)' = Permitted(p) /\ Trusted(p)' = Trusted(p)
BY Zenon DEF Permitted, Trusted, Misresolved

LEMMA QuietKeepsSupInv ==
  ASSUME SupInv, SupQuiet
  PROVE  SupInv'
<1> USE DEF SupInv
<1>1. /\ supRegistry' = supRegistry /\ supFetches' = supFetches /\ supLinked' = supLinked
      /\ supPast' = supPast /\ supSidecar' = supSidecar /\ Registered' = Registered
  BY DEF SupQuiet, Registered
<1> DEFINE LoadIs(load) ==
      /\ load \in [at : SupAt, request : DepMap, awaits : SUBSET (SupPackages \X VersionSets)]
      /\ load.awaits = supLoad.awaits /\ load.request = supLoad.request
      /\ \/ load.at = supLoad.at
         \/ supLoad.at = "asked" /\ load.at = "failed"
         \/ supLoad.at = "linked" /\ load.at \in {"loaded", "failed"}
<1>2. LoadIs(supLoad')
  <2>1. CASE UNCHANGED supLoad
    BY <2>1 DEF SupTyped
  <2>2. ASSUME NEW at \in SupAt,
               <<supLoad.at, at>> \in {<<"asked", "failed">>, <<"linked", "loaded">>, <<"linked", "failed">>},
               supLoad' = [supLoad EXCEPT !.at = at]
        PROVE  LoadIs(supLoad')
    BY <2>2 DEF SupTyped
  <2>. QED BY <2>1, <2>2 DEF SupQuiet
<1>3. SupTyped'
  BY <1>1, <1>2 DEF SupTyped, SupQuiet
<1>4. Fresh' /\ Waited' /\ Covered'
  BY <1>1, <1>2 DEF Fresh, Waited, Covered
<1>5. Fallbacks'
  BY <1>1 DEF Fallbacks, Sound, SelfContained
<1>6. Ranged'
  BY <1>1, <1>2, PermittedStays DEF Ranged, InRange
<1>7. \A p \in SupPackages : Reach(p) \subseteq Reach(p)'
  <2>1. TAKE p \in SupPackages
  <2>2. supWorld.mirror[p] \in Nat /\ supWorld'.mirror[p] \in Nat /\ supWorld.mirror[p] <= supWorld'.mirror[p]
    BY TopIsNat DEF SupTyped, SupQuiet
  <2>. QED BY <1>1, <2>2 DEF Reach, RangeOf
<1>8. TreeNames \subseteq TreeNames'
  <2>1. \A p \in Roots : p \in SupPackages /\ SupNeeds[p] \subseteq SupPackages
    BY SupAssumption DEF Roots
  <2>. QED BY <1>7, <2>1 DEF TreeNames
<1>9. Repeats'
  <2>1. \A f \in supFetches : f.n \in SupPackages
    BY DEF SupTyped, SupFetch
  <2>2. \A e \in supRegistry.manifest : e.n \in SupPackages
    BY DEF SupTyped, Entry
  <2>. QED BY <1>1, <1>2, <1>7, <1>8, <2>1, <2>2 DEF Repeats
<1>10. Told'
  BY <1>1 DEF Told
<1>. QED BY <1>3, <1>4, <1>5, <1>6, <1>9, <1>10

LEMMA EndKeepsSupInv ==
  ASSUME SupInv, NEW f \in supFetches, FetchEnds(f)
  PROVE  SupInv'
<1> USE DEF SupInv
<1>1. /\ supRegistry' = supRegistry /\ supFetches' \subseteq supFetches /\ supLinked' = supLinked
      /\ supPast' = supPast /\ supSidecar' = supSidecar /\ supWorld' = supWorld
      /\ supJson' = supJson /\ Registered' = Registered
  BY DEF FetchEnds, Registered
<1>2. \/ supLoad' = supLoad /\ ~Awaited(f)
      \/ supLoad.at = "preload" /\ supLoad' = [supLoad EXCEPT !.at = "failed"]
  BY DEF FetchEnds, Awaited
<1>3. /\ supLoad' \in [at : SupAt, request : DepMap, awaits : SUBSET (SupPackages \X VersionSets)]
      /\ \/ supLoad' = supLoad
         \/ supLoad.at = "preload" /\ supLoad'.at = "failed"
  BY <1>2 DEF SupTyped, SupAt
<1>4. SupTyped' /\ Fresh'
  BY <1>1, <1>3 DEF SupTyped, Fresh
<1>5. Waited' /\ Covered'
  BY <1>1, <1>3 DEF Waited, Covered
<1>6. Fallbacks'
  BY <1>1 DEF Fallbacks, Sound, SelfContained
<1>7. Ranged'
  BY <1>1, <1>3, PermittedStays DEF Ranged, InRange
<1>8. TreeNames' = TreeNames /\ \A p \in SupPackages : Reach(p)' = Reach(p)
  BY <1>1 DEF TreeNames, Reach, RangeOf
<1>9. Repeats'
  <2>1. \A g \in supFetches : g.n \in SupPackages
    BY DEF SupTyped, SupFetch
  <2>2. \A e \in supRegistry.manifest : e.n \in SupPackages
    BY DEF SupTyped, Entry
  <2>. QED BY <1>1, <1>3, <1>8, <2>1, <2>2 DEF Repeats
<1>10. Told'
  BY <1>1 DEF Told
<1>. QED BY <1>4, <1>5, <1>6, <1>7, <1>9, <1>10

LEMMA ContinueKeepsSupInv ==
  ASSUME SupInv, NEW f \in supFetches, NEW g \in SupFetch, Continues(f, g), Stays(f, g), Sound(g)
  PROVE  SupInv'
<1> USE DEF SupInv
<1>1. /\ supRegistry' = supRegistry /\ supFetches' = (supFetches \ {f}) \cup {g}
      /\ supLinked' = supLinked /\ supLoad' = supLoad
      /\ supPast' = supPast /\ supSidecar' = supSidecar /\ supWorld' = supWorld
      /\ supJson' = supJson /\ Registered' = Registered
  BY DEF Continues, Registered
<1>2. g.n = f.n /\ g.v = f.v /\ g.range = f.range /\ g.externals = f.externals
  BY DEF Stays
<1>3. SupTyped' /\ Fresh'
  BY <1>1 DEF SupTyped, Fresh
<1>4. Waited' /\ Covered'
  BY <1>1, <1>2 DEF Waited, Covered
<1>5. Fallbacks'
  BY <1>1, <1>2 DEF Fallbacks, Sound, SelfContained
<1>6. Ranged'
  BY <1>1, <1>2, PermittedStays DEF Ranged, InRange
<1>7. TreeNames' = TreeNames /\ \A p \in SupPackages : Reach(p)' = Reach(p)
  BY <1>1 DEF TreeNames, Reach, RangeOf
<1>8. Repeats'
  <2>1. f.n \in SupPackages /\ \A h \in supFetches : h.n \in SupPackages
    BY DEF SupTyped, SupFetch
  <2>2. \A e \in supRegistry.manifest : e.n \in SupPackages
    BY DEF SupTyped, Entry
  <2>. QED BY <1>1, <1>2, <1>7, <2>1, <2>2 DEF Repeats
<1>9. Told'
  BY <1>1, <1>2 DEF Told
<1>. QED BY <1>3, <1>4, <1>5, <1>6, <1>8, <1>9

LEMMA DeliveryKeepsSupInv ==
  ASSUME SupInv, NEW f \in supFetches, NEW module \in SupModule,
         Registers(f, module), Brings(f, module)
  PROVE  SupInv'
<1> USE DEF SupInv
<1>1. /\ supFetches' = supFetches \ {f} /\ supLinked' = supLinked
      /\ supPast' = supPast /\ supSidecar' = supSidecar /\ supWorld' = supWorld
      /\ supJson' = supJson
  BY DEF Registers
<1>2. f.n \in SupPackages /\ f \in SupFetch /\ Sound(f)
  BY DEF SupTyped, SupFetch, Fallbacks
<1>3. /\ supRegistry' = [supRegistry EXCEPT !.modules = [supRegistry.modules EXCEPT ![f.n] = module]]
  BY DEF Registers, SupTyped
<1>4. /\ supRegistry'.manifest = supRegistry.manifest /\ supRegistry'.declared = supRegistry.declared
      /\ supRegistry'.fallbacks = supRegistry.fallbacks
      /\ supRegistry' \in [declared : DepMap, manifest : SUBSET Entry,
                           fallbacks : [SupPackages -> VersionSets],
                           modules : [SupPackages -> SupModule]]
      /\ \A p \in SupPackages : supRegistry'.modules[p] = IF p = f.n THEN module ELSE supRegistry.modules[p]
  <2> DEFINE new == [supRegistry.modules EXCEPT ![f.n] = module]
  <2>1. new \in [SupPackages -> SupModule]
        /\ \A p \in SupPackages : new[p] = IF p = f.n THEN module ELSE supRegistry.modules[p]
    BY <1>2 DEF SupTyped
  <2>. HIDE DEF new
  <2>2. supRegistry' = [supRegistry EXCEPT !.modules = new]
    BY <1>3 DEF new
  <2>. QED BY <2>1, <2>2 DEF SupTyped
<1>5. module.from \in {"zip", "cdn", "esm"} /\ module # NotInstalled
  BY DEF Brings, NotInstalled
<1>6. Registered' = Registered \cup {f.n}
  BY <1>2, <1>4, <1>5 DEF Registered
<1>7. /\ supLoad'.at = supLoad.at /\ supLoad'.request = supLoad.request
      /\ supLoad'.awaits = supLoad.awaits \ {<<f.n, f.v>>}
      /\ supLoad' \in [at : SupAt, request : DepMap, awaits : SUBSET (SupPackages \X VersionSets)]
  BY DEF Registers, SupTyped
<1>8. SupTyped'
  BY <1>1, <1>4, <1>7 DEF SupTyped
<1>9. supLoad.at # "idle"
  BY DEF Fresh
<1>10. Fresh'
  BY <1>7, <1>9 DEF Fresh
<1>11. Fallbacks'
  <2>1. module.from = "esm" => supRegistry.fallbacks[f.n] # {}
    BY DEF Brings, Fallbacks
  <2>2. module.release \in {NoRelease, module.code}
    BY DEF Brings
  <2>. QED BY <1>1, <1>4, <1>5, <2>1, <2>2 DEF Fallbacks, Sound, SelfContained
<1>12. Waited'
  <2>1. \A g \in supFetches' : g \in supFetches /\ <<g.n, g.v>> # <<f.n, f.v>>
    BY <1>1 DEF Waited
  <2>2. supLoad.at \in {"preload", "linked", "loaded"} =>
          \A g \in supFetches' : <<g.n, g.v>> \in supLoad'.awaits \/ g.n \in supPast'.overtaken
    BY <1>1, <1>7, <2>1 DEF Waited
  <2>3. supLoad.at \in {"linked", "loaded"} => f.n \in supPast.overtaken
    BY DEF Waited
  <2>4. supLoad.at \in {"linked", "loaded"} =>
          /\ supLoad'.awaits = {}
          /\ \A p \in SupPackages \ supPast'.overtaken : supLinked'[p] = supRegistry'.modules[p].code
    BY <1>1, <1>4, <1>7, <2>3 DEF Waited
  <2>. QED BY <1>7, <2>1, <2>2, <2>4 DEF Waited
<1>13. Covered'
  BY <1>4, <1>6, <1>7 DEF Covered
<1>14. Ranged'
  <2>1. SUFFICES ASSUME NEW p \in SupDeclared \ supPast.edited
                 PROVE  InRange(p)'
    BY <1>1 DEF Ranged
  <2>2. InRange(p) /\ p \in SupPackages
    BY SupAssumption DEF Ranged
  <2>3. p = f.n => module.code \in Permitted(p)
    BY <2>2 DEF InRange, Brings
  <2>4. Permitted(p)' = Permitted(p)
    BY <1>1, <1>4, PermittedStays
  <2>. QED BY <1>1, <1>4, <1>6, <1>7, <2>2, <2>3, <2>4 DEF InRange
<1>15. TreeNames' = TreeNames /\ \A p \in SupPackages : Reach(p)' = Reach(p)
  BY <1>1, <1>4 DEF TreeNames, Reach, RangeOf
<1>16. Repeats'
  <2>1. \A g \in supFetches : g.n \in SupPackages
    BY DEF SupTyped, SupFetch
  <2>2. \A e \in supRegistry.manifest : e.n \in SupPackages
    BY DEF SupTyped, Entry
  <2>3. SUFFICES ASSUME supLoad.at \in {"asked", "tree", "preload", "linked", "failed"}, ~supPast.redeclared,
                        ~Applies(supSidecar.lockset, supRegistry.declared)
                 PROVE  Repeats'
    BY <1>1, <1>4, <1>7 DEF Repeats
  <2>4. module.from \in {"zip", "cdn"} => module.code \in Reach(f.n)
    BY <2>3 DEF Repeats, Brings
  <2>. QED BY <1>1, <1>2, <1>4, <1>7, <1>15, <2>1, <2>2, <2>3, <2>4 DEF Repeats
<1>17. Told'
  <2>1. module.from = "esm" => SupNeeds[f.n] \subseteq f.externals
    BY DEF Brings
  <2>. QED BY <1>1, <1>4, <2>1 DEF Told
<1>. QED BY <1>8, <1>10, <1>11, <1>12, <1>13, <1>14, <1>16, <1>17

LEMMA LinkKeepsSupInv ==
  ASSUME SupInv, Link
  PROVE  SupInv'
<1> USE DEF SupInv
<1>1. /\ supFetches' = supFetches /\ supRegistry' = supRegistry
      /\ supPast' = supPast /\ supSidecar' = supSidecar /\ supWorld' = supWorld
      /\ supJson' = supJson /\ Registered' = Registered
  BY DEF Link, Registered
<1>2. /\ supLoad.at = "preload" /\ supLoad'.at = "linked" /\ supLoad.awaits = {} /\ supLoad'.awaits = {}
      /\ supLoad' \in [at : SupAt, request : DepMap, awaits : SUBSET (SupPackages \X VersionSets)]
      /\ \A p \in SupPackages : supLinked'[p] = supRegistry'.modules[p].code
  BY DEF Link, SupTyped, SupAt
<1>3. SupTyped' /\ Fresh' /\ Waited' /\ Told'
  BY <1>1, <1>2 DEF SupTyped, Fresh, Waited, Told
<1>4. Covered'
  BY <1>1, <1>2 DEF Covered, NamesOf
<1>5. Fallbacks'
  BY <1>1 DEF Fallbacks, Sound, SelfContained
<1>6. Ranged'
  BY <1>1, <1>2, PermittedStays DEF Ranged, InRange
<1>7. TreeNames' = TreeNames /\ \A p \in SupPackages : Reach(p)' = Reach(p)
  BY <1>1 DEF TreeNames, Reach, RangeOf
<1>8. Repeats'
  <2>1. \A f \in supFetches : f.n \in SupPackages
    BY DEF SupTyped, SupFetch
  <2>. QED BY <1>1, <1>2, <1>7, <2>1 DEF Repeats
<1>. QED BY <1>3, <1>4, <1>5, <1>6, <1>8

\* What there is of a package that an edit does not count as edited is permitted after it too.
LEMMA EditsAreCounted ==
  ASSUME Ranged, NEW map, NEW p \in SupDeclared \ (supPast.edited \cup Edited(map)),
         NEW permitted, permitted = map[p] \cup Trusted(p)
  PROVE  /\ p \in Registered => supRegistry.modules[p].code \in permitted
         /\ supRegistry.fallbacks[p] \subseteq permitted
         /\ \A f \in supFetches : f.n = p => f.v \subseteq permitted /\ f.range \subseteq permitted
<1>1. InRange(p)
  BY DEF Ranged
<1>2. Held(p) => supRegistry.declared[p] = map[p]
  BY DEF Edited
<1>3. Held(p) => Permitted(p) = permitted
  BY <1>2 DEF Permitted
<1>. QED BY <1>1, <1>3 DEF InRange, Held

LEMMA AdoptKeepsSupInv ==
  ASSUME SupInv, Adopt
  PROVE  SupInv'
<1> USE DEF SupInv
<1>1. /\ supFetches' = supFetches /\ supLinked' = supLinked
      /\ supSidecar' = supSidecar /\ supWorld' = supWorld
      /\ supJson' = supJson /\ supLoad.at = "loaded"
  BY DEF Adopt
<1>2. CASE NeedsReload(supJson)
  <2>1. supRegistry' = supRegistry /\ supPast' = supPast /\ Registered' = Registered
    BY <1>2 DEF Adopt, Registered
  <2>2. /\ supLoad'.at = "reloading"
        /\ supLoad' \in [at : SupAt, request : DepMap, awaits : SUBSET (SupPackages \X VersionSets)]
    BY <1>2 DEF Adopt, SupTyped, SupAt
  <2>3. SupTyped' /\ Fresh' /\ Waited' /\ Covered' /\ Told' /\ Repeats'
    BY <1>1, <2>1, <2>2 DEF SupTyped, Fresh, Waited, Covered, Told, Repeats
  <2>4. Fallbacks'
    BY <1>1, <2>1 DEF Fallbacks, Sound, SelfContained
  <2>5. Ranged'
    BY <1>1, <2>1, <2>2, PermittedStays DEF Ranged, InRange
  <2>. QED BY <2>3, <2>4, <2>5
<1>3. CASE ~NeedsReload(supJson)
  <2>1. /\ supRegistry' = [supRegistry EXCEPT !.declared = supJson] /\ supLoad' = supLoad
        /\ supPast' = [supPast EXCEPT !.edited = supPast.edited \cup Edited(supJson)]
    BY <1>3 DEF Adopt, SupTyped
  <2>2. /\ supRegistry'.declared = supJson /\ supRegistry'.manifest = supRegistry.manifest
        /\ supRegistry'.modules = supRegistry.modules /\ supRegistry'.fallbacks = supRegistry.fallbacks
        /\ supPast'.edited = supPast.edited \cup Edited(supJson)
        /\ supPast'.overtaken = supPast.overtaken /\ supPast'.redeclared = supPast.redeclared
        /\ supPast'.trusted = supPast.trusted /\ Registered' = Registered
    BY <2>1 DEF SupTyped, Registered
  <2>3. SupTyped'
    <3>1. Edited(supJson) \subseteq SupDeclared
      BY DEF Edited
    <3>2. supRegistry' \in [declared : DepMap, manifest : SUBSET Entry,
                            fallbacks : [SupPackages -> VersionSets], modules : [SupPackages -> SupModule]]
      BY <2>1, MapsAreMaps DEF SupTyped
    <3>. QED BY <1>1, <2>1, <2>2, <3>1, <3>2 DEF SupTyped
  <2>4. Fresh' /\ Waited' /\ Covered' /\ Told' /\ Repeats'
    BY <1>1, <2>1, <2>2 DEF Fresh, Waited, Covered, Told, Repeats
  <2>5. Fallbacks'
    BY <1>1, <2>2 DEF Fallbacks, Sound, SelfContained
  <2>6. Ranged'
    <3>1. SUFFICES ASSUME NEW p \in SupDeclared \ (supPast.edited \cup Edited(supJson))
                   PROVE  InRange(p)'
      BY <2>2 DEF Ranged
    <3>2. Permitted(p)' = supJson[p] \cup Trusted(p)
      BY <1>1, <2>2, Zenon DEF Permitted, Trusted, Misresolved
    <3>. QED BY <1>1, <2>1, <2>2, <3>2, EditsAreCounted DEF InRange
  <2>. QED BY <2>3, <2>4, <2>5, <2>6
<1>. QED BY <1>2, <1>3

LEMMA DownloadIs ==
  ASSUME SupTyped, NEW e \in supRegistry.manifest
  PROVE  LET f == Download(e, supRegistry) IN
         /\ f \in SupFetch /\ Sound(f) /\ f.n = e.n /\ f.v = e.v
         /\ f.range = supRegistry.fallbacks[e.n]
         /\ f.externals \subseteq NamesOf(supRegistry.manifest)
<1> DEFINE step == IF supRegistry.fallbacks[e.n] # {} THEN "entry"
                   ELSE IF \A r \in e.v : InZip(e.n, r) THEN "zip" ELSE "cdn"
           names == NamesOf(supRegistry.manifest) \ {e.n}
<1>1. e.n \in SupPackages /\ e.v \in VersionSets /\ supRegistry.fallbacks[e.n] \in VersionSets
      /\ names \in SUBSET SupPackages /\ NoRelease \in 0 .. SupTop
  BY TopIsNat DEF SupTyped, Entry, NamesOf, NoRelease
<1>2. /\ step \in {"zip", "cdn", "entry"}
      /\ step = "entry" <=> supRegistry.fallbacks[e.n] # {}
  OBVIOUS
<1>3. Download(e, supRegistry) =
        [n |-> e.n, v |-> e.v, range |-> supRegistry.fallbacks[e.n], step |-> step,
         externals |-> names, build |-> NoRelease]
  BY DEF Download
<1>4. names \subseteq NamesOf(supRegistry.manifest)
  OBVIOUS
<1>. HIDE DEF step, names
<1>. QED BY <1>1, <1>2, <1>3, <1>4 DEF SupFetch, Sound

LEMMA PreloadKeepsSupInv ==
  ASSUME SupInv, PreloadAll
  PROVE  SupInv'
<1> USE DEF SupInv
<1> DEFINE wanted == {e \in supRegistry.manifest : e.n \notin Registered}
           joined(e) == \E f \in supFetches : f.n = e.n /\ f.v = e.v
           new == {e \in wanted : ~joined(e)}
           over == {f.n : f \in {g \in supFetches : \A e \in wanted : e.n # g.n \/ e.v # g.v}}
<1>1. /\ supRegistry' = supRegistry /\ supLinked' = supLinked
      /\ supSidecar' = supSidecar /\ supWorld' = supWorld
      /\ supJson' = supJson /\ supLoad.at = "tree" /\ Registered' = Registered
  BY DEF PreloadAll, Registered
<1>2. \A e \in supRegistry.manifest : e.n \in SupPackages /\ e.v \in VersionSets
  BY DEF SupTyped, Entry
<1>3. /\ supLoad'.at = "preload" /\ supLoad'.awaits = {<<e.n, e.v>> : e \in wanted}
      /\ supLoad' \in [at : SupAt, request : DepMap, awaits : SUBSET (SupPackages \X VersionSets)]
  <2> DEFINE awaits == {<<e.n, e.v>> : e \in wanted}
  <2>1. awaits \subseteq SupPackages \X VersionSets
    BY <1>2
  <2>2. supLoad' = [supLoad EXCEPT !.at = "preload", !.awaits = awaits]
    BY DEF PreloadAll
  <2>. HIDE DEF awaits
  <2>3. /\ supLoad'.at = "preload" /\ supLoad'.awaits = awaits
        /\ supLoad' \in [at : SupAt, request : DepMap, awaits : SUBSET (SupPackages \X VersionSets)]
    BY <2>1, <2>2 DEF SupTyped, SupAt
  <2>. QED BY <2>3 DEF awaits
<1>4. /\ supFetches' = supFetches \cup {Download(e, supRegistry) : e \in new}
      /\ supPast' = [supPast EXCEPT !.overtaken = over]
  BY DEF PreloadAll
<1>5. \A f \in supFetches : f.n \in SupPackages
  BY DEF SupTyped, SupFetch
<1>6. /\ supPast'.overtaken = over /\ supPast'.edited = supPast.edited
      /\ supPast'.redeclared = supPast.redeclared /\ supPast'.trusted = supPast.trusted
      /\ supPast' \in [edited : SUBSET SupDeclared, overtaken : SUBSET SupPackages,
                       redeclared : BOOLEAN, trusted : BOOLEAN]
  BY <1>4, <1>5 DEF SupTyped
<1>7. ASSUME NEW f \in supFetches' \ supFetches
      PROVE  \E e \in new :
               /\ f \in SupFetch /\ Sound(f) /\ f.n = e.n /\ f.v = e.v
               /\ f.range = supRegistry.fallbacks[e.n]
               /\ f.externals \subseteq NamesOf(supRegistry.manifest)
               /\ f = Download(e, supRegistry)
  BY <1>4, DownloadIs
<1>8. SupTyped'
  BY <1>1, <1>3, <1>6, <1>7 DEF SupTyped
<1>9. Fresh' /\ Covered'
  BY <1>1, <1>3 DEF Fresh, Covered
<1>10. Fallbacks'
  BY <1>1, <1>7 DEF Fallbacks, Sound, SelfContained
<1>11. Waited'
  <2>1. ASSUME NEW f \in supFetches', NEW g \in supFetches', f.n = g.n, f.v = g.v
        PROVE  f = g
    <3>1. CASE f \in supFetches /\ g \in supFetches
      BY <2>1, <3>1 DEF Waited
    <3>2. CASE f \notin supFetches /\ g \notin supFetches
      <4>1. PICK e \in new : f.n = e.n /\ f.v = e.v /\ f = Download(e, supRegistry)
        BY <1>7, <3>2
      <4>2. PICK h \in new : g.n = h.n /\ g.v = h.v /\ g = Download(h, supRegistry)
        BY <1>7, <3>2
      <4>3. e.n = h.n /\ e.v = h.v
        BY <2>1, <4>1, <4>2
      <4>. QED BY <4>1, <4>2, <4>3 DEF Download
    <3>3. f \in supFetches <=> g \in supFetches
      BY <1>7, <2>1
    <3>. QED BY <3>1, <3>2, <3>3
  <2>2. \A f \in supFetches' : <<f.n, f.v>> \in supLoad'.awaits \/ f.n \in supPast'.overtaken
    <3>1. TAKE f \in supFetches'
    <3>2. CASE f \in supFetches
      BY <1>3, <1>6, <3>2
    <3>3. CASE f \notin supFetches
      BY <1>3, <1>7, <3>3
    <3>. QED BY <3>2, <3>3
  <2>. QED BY <1>3, <2>1, <2>2 DEF Waited
<1>12. Ranged'
  <2>1. SUFFICES ASSUME NEW p \in SupDeclared \ supPast.edited
                 PROVE  InRange(p)'
    BY <1>6 DEF Ranged
  <2>2. InRange(p)
    BY DEF Ranged
  <2>3. \A f \in supFetches' : f.n = p =>
          f.v \subseteq Permitted(p) /\ f.range \subseteq Permitted(p)
    BY <1>1, <1>7, <2>2 DEF InRange
  <2>4. Permitted(p)' = Permitted(p)
    BY <1>1, <1>6, PermittedStays
  <2>. QED BY <1>1, <1>3, <2>2, <2>3, <2>4 DEF InRange
<1>13. TreeNames' = TreeNames /\ \A p \in SupPackages : Reach(p)' = Reach(p)
  BY <1>1 DEF TreeNames, Reach, RangeOf
<1>14. Repeats'
  <2>1. SUFFICES ASSUME ~supPast.redeclared, ~Applies(supSidecar.lockset, supRegistry.declared)
                 PROVE  Repeats'
    BY <1>1, <1>3, <1>6 DEF Repeats
  <2>2. \A f \in supFetches' : f.range = {} => f.v \subseteq Reach(f.n)
    BY <1>1, <1>7, <2>1 DEF Repeats
  <2>3. \A f \in supFetches' : f.n \in SupPackages
    BY <1>8 DEF SupTyped, SupFetch
  <2>. QED BY <1>1, <1>3, <1>6, <1>13, <2>1, <2>2, <2>3 DEF Repeats
<1>15. Told'
  BY <1>1, <1>6, <1>7 DEF Told
<1>. QED BY <1>8, <1>9, <1>10, <1>11, <1>12, <1>14, <1>15

\* The manifest and the fallbacks registered with it.
LEMMA FallbacksAre ==
  ASSUME SupTyped, NEW requested \in DepMap, NEW tree \in SUBSET Entry,
         NEW to, to = WithFallbacks(requested, tree)
  PROVE  /\ to.declared = supRegistry.declared /\ to.modules = supRegistry.modules
         /\ to.manifest \in SUBSET Entry /\ to.fallbacks \in [SupPackages -> VersionSets]
         /\ to \in [declared : DepMap, manifest : SUBSET Entry,
                    fallbacks : [SupPackages -> VersionSets], modules : [SupPackages -> SupModule]]
         /\ \A e \in to.manifest :
              \/ e \in tree
              \/ e.n \in Dropped(requested, tree) /\ e.v = requested[e.n] /\ e.d = 0
         /\ NamesOf(to.manifest) = NamesOf(tree) \cup DOMAIN requested
         /\ \A p \in SupPackages :
              to.fallbacks[p] = IF p \in Dropped(requested, tree) THEN requested[p]
                                ELSE supRegistry.fallbacks[p]
<1> DEFINE dropped == Dropped(requested, tree)
           added == {[n |-> p, v |-> requested[p], d |-> 0] : p \in dropped}
           fallbacks == [p \in SupPackages |-> IF p \in dropped THEN requested[p]
                                               ELSE supRegistry.fallbacks[p]]
<1>1. DOMAIN requested \subseteq SupPackages /\ \A p \in DOMAIN requested : requested[p] \in VersionSets
  BY DEF DepMap
<1>2. dropped \subseteq DOMAIN requested /\ DOMAIN requested \subseteq NamesOf(tree) \cup dropped
  BY DEF Dropped
<1>3. added \in SUBSET Entry
  BY <1>1, <1>2 DEF Entry
<1>4. \A e \in added : e.n \in dropped /\ e.v = requested[e.n] /\ e.d = 0
  OBVIOUS
<1>5. ASSUME NEW p \in dropped
      PROVE  \E e \in added : e.n = p
  <2>1. [n |-> p, v |-> requested[p], d |-> 0] \in added
    OBVIOUS
  <2>2. [n |-> p, v |-> requested[p], d |-> 0].n = p
    OBVIOUS
  <2>. QED BY <2>1, <2>2, Zenon
<1>6. /\ fallbacks \in [SupPackages -> VersionSets]
      /\ \A p \in SupPackages :
           fallbacks[p] = IF p \in dropped THEN requested[p] ELSE supRegistry.fallbacks[p]
  BY <1>1, <1>2 DEF SupTyped
<1>7. to = [supRegistry EXCEPT !.manifest = tree \cup added, !.fallbacks = fallbacks]
  BY DEF WithFallbacks, SupTyped
<1>. HIDE DEF dropped, added, fallbacks
<1>8. /\ to.declared = supRegistry.declared /\ to.modules = supRegistry.modules
      /\ to.manifest = tree \cup added /\ to.fallbacks = fallbacks
      /\ to \in [declared : DepMap, manifest : SUBSET Entry,
                 fallbacks : [SupPackages -> VersionSets], modules : [SupPackages -> SupModule]]
  BY <1>3, <1>6, <1>7 DEF SupTyped
<1>9. NamesOf(to.manifest) = NamesOf(tree) \cup DOMAIN requested
  BY <1>2, <1>4, <1>5, <1>8 DEF NamesOf
<1>10. dropped = Dropped(requested, tree)
  BY DEF dropped
<1>. QED BY <1>3, <1>4, <1>6, <1>8, <1>9, <1>10

\* What /dep_tree resolves names to: one release each, of what the name is pinned to, as far
\* as the mirror has it.
Offered(p, known) == PinnedTo(p, known) \cap 1 .. supWorld.mirror[p]
ResolvesTo(entries, names, depth, known) ==
  /\ entries \in SUBSET Entry
  /\ \A e \in entries :
       /\ e.n \in names /\ e.d = depth
       /\ e.v \subseteq Offered(e.n, known) /\ Offered(e.n, known) # {}
  /\ \A p \in names : Offered(p, known) # {} => \E e \in entries : e.n = p

LEMMA ResolvedIs ==
  ASSUME SupTyped, NEW names \in SUBSET SupPackages, NEW depth \in {0, 1},
         NEW known \in DepMap
  PROVE  ResolvesTo(Resolved(names, depth, known), names, depth, known)
<1>1. ASSUME NEW p \in SupPackages
      PROVE  PinnedTo(p, known) \subseteq Releases
  <2>1. supRegistry.modules[p].release \in 0 .. SupTop
    BY DEF SupTyped, SupModule
  <2>2. PinOf(p) \subseteq Releases
    BY <2>1, TopIsNat DEF PinOf, Releases, NoRelease
  <2>3. p \in DOMAIN known => known[p] \subseteq Releases
    BY DEF DepMap, VersionSets
  <2>. QED BY <2>2, <2>3 DEF PinnedTo
<1> DEFINE R(p) == Newest(PinnedTo(p, known), supWorld.mirror[p])
           S(p) == Offered(p, known)
<1>2. ASSUME NEW p \in SupPackages
      PROVE  /\ R(p) # NoRelease => R(p) \in S(p) /\ R(p) \in Releases
             /\ R(p) # NoRelease <=> S(p) # {}
  <2>1. supWorld.mirror[p] \in Nat /\ PinnedTo(p, known) \in SUBSET Nat
    BY <1>1, TopIsNat DEF SupTyped
  <2>. QED BY <1>1, <2>1, NewestIs DEF Offered
<1>3. Resolved(names, depth, known) =
        {[n |-> p, v |-> {R(p)}, d |-> depth] : p \in {q \in names : R(q) # NoRelease}}
  BY DEF Resolved
<1>. HIDE DEF R
<1>4. ASSUME NEW e \in Resolved(names, depth, known)
      PROVE  /\ e \in Entry /\ e.n \in names /\ e.d = depth /\ e.v \subseteq S(e.n) /\ S(e.n) # {}
  <2>1. PICK p \in names : R(p) # NoRelease /\ e = [n |-> p, v |-> {R(p)}, d |-> depth]
    BY <1>3
  <2>2. R(p) \in S(p) /\ {R(p)} \in VersionSets
    BY <1>2, <2>1 DEF VersionSets
  <2>. HIDE DEF S
  <2>. QED BY <2>1, <2>2 DEF Entry
<1>5. ASSUME NEW p \in names, S(p) # {}
      PROVE  \E e \in Resolved(names, depth, known) : e.n = p
  <2>1. R(p) # NoRelease
    BY <1>2, <1>5
  <2>2. [n |-> p, v |-> {R(p)}, d |-> depth] \in Resolved(names, depth, known)
    BY <1>3, <2>1
  <2>3. [n |-> p, v |-> {R(p)}, d |-> depth].n = p
    OBVIOUS
  <2>. QED BY <2>2, <2>3, Zenon
<1>. QED BY <1>4, <1>5 DEF ResolvesTo

\* A pin is the release of what is installed.
LEMMA PinsAreInstalled ==
  ASSUME SupTyped, Fallbacks, NEW p \in SupPackages, PinOf(p) # {}
  PROVE  /\ PinOf(p) = {supRegistry.modules[p].code} /\ p \in Registered
         /\ supRegistry.modules[p].from \in {"zip", "cdn"}
<1>1. supRegistry.modules[p].release # NoRelease /\ supRegistry.fallbacks[p] = {}
      /\ PinOf(p) = {supRegistry.modules[p].release}
  BY DEF PinOf
<1>2. supRegistry.modules[p].release = supRegistry.modules[p].code
  BY <1>1 DEF Fallbacks
<1>3. supRegistry.modules[p] # NotInstalled
  BY <1>1 DEF NotInstalled
<1>4. supRegistry.modules[p] \in SupModule
  BY DEF SupTyped
<1>. QED BY <1>1, <1>2, <1>3, <1>4 DEF Fallbacks, Registered, SupModule

LEMMA ManifestKeepsSupInv ==
  ASSUME SupInv, ManifestArrives
  PROVE  SupInv'
<1> USE DEF SupInv
<1> DEFINE D == supRegistry.declared
           request == supLoad.request
           roots == Resolved(DOMAIN request, 0, D)
           needs == (UNION {SupNeeds[e.n] : e \in roots}) \ DOMAIN request
           leaves == Resolved(needs, 1, D)
           tree == roots \cup leaves
<1>1. /\ supFetches' = supFetches /\ supLinked' = supLinked /\ supPast' = supPast
      /\ supSidecar' = supSidecar /\ supWorld' = supWorld /\ supJson' = supJson
      /\ supLoad.at = "asked"
      /\ supRegistry' = WithFallbacks(request, tree)
  BY DEF ManifestArrives, DependencyTree
<1>2. /\ supLoad'.at = "tree"
      /\ supLoad' \in [at : SupAt, request : DepMap, awaits : SUBSET (SupPackages \X VersionSets)]
  BY DEF ManifestArrives, SupTyped, SupAt
<1>3. /\ D \in [SupDeclared -> SupRanges] /\ D \in DepMap /\ request \in DepMap
      /\ DOMAIN request = Roots
      /\ \A p \in Roots : request[p] = D[p]
      /\ \A p \in SupDeclared : D[p] \in SupRanges /\ D[p] # {}
  <2>1. request = RequestDepMap(D) /\ D \in [SupDeclared -> SupRanges]
    BY <1>1 DEF Covered, SupTyped
  <2>. QED BY <2>1, MapsAreMaps, SupAssumption DEF RequestDepMap, Roots, SupTyped
<1>4. Roots \subseteq SupPackages /\ SupDeclared \subseteq SupPackages
  BY SupAssumption DEF Roots
<1>5. ResolvesTo(roots, Roots, 0, D)
  BY <1>3, <1>4, ResolvedIs
<1>6. needs \in SUBSET SupPackages
  <2>1. roots \in SUBSET Entry
    BY <1>5 DEF ResolvesTo
  <2>. HIDE DEF roots
  <2>2. \A e \in roots : SupNeeds[e.n] \subseteq SupPackages
    BY <2>1, SupAssumption DEF Entry
  <2>. QED BY <2>2
<1>7. ResolvesTo(leaves, needs, 1, D)
  <2>. HIDE DEF needs
  <2>. QED BY <1>3, <1>6, ResolvedIs
<1>. HIDE DEF roots, leaves
<1>8. \A q \in needs : \E e \in roots : q \in SupNeeds[e.n]
  OBVIOUS
<1>9. \A e \in roots : SupNeeds[e.n] \subseteq needs \cup Roots
  <2>1. \A e \in roots : SupNeeds[e.n] \in {SupNeeds[r.n] : r \in roots}
    OBVIOUS
  <2>2. UNION {SupNeeds[r.n] : r \in roots} \subseteq needs \cup Roots
    <3> DEFINE all == UNION {SupNeeds[r.n] : r \in roots}
    <3>1. needs = all \ Roots
      <4>1. DOMAIN request = Roots
        BY <1>3
      <4>. QED BY <4>1, Zenon
    <3>. HIDE DEF all, needs
    <3>2. all \subseteq needs \cup Roots
      BY <3>1
    <3>. QED BY <3>2 DEF all
  <2>. QED BY <2>1, <2>2
<1>. HIDE DEF needs
<1>10. ASSUME NEW e \in tree
      PROVE  /\ e \in Entry /\ e.n \in SupPackages
             /\ e \in roots => e.n \in Roots
             /\ e \in leaves => e.n \in needs /\ e.d = 1
             /\ e.v \subseteq Offered(e.n, D) /\ Offered(e.n, D) # {}
  BY <1>4, <1>5, <1>6, <1>7 DEF ResolvesTo
<1>11. tree \in SUBSET Entry
  BY <1>10
<1>. HIDE DEF D, request
<1> DEFINE dropped == Dropped(request, tree)
<1>12. /\ supRegistry'.declared = D /\ supRegistry'.modules = supRegistry.modules
       /\ supRegistry'.manifest \in SUBSET Entry
       /\ supRegistry' \in [declared : DepMap, manifest : SUBSET Entry,
                            fallbacks : [SupPackages -> VersionSets], modules : [SupPackages -> SupModule]]
       /\ \A e \in supRegistry'.manifest :
            \/ e \in tree
            \/ e.n \in dropped /\ e.v = request[e.n] /\ e.d = 0
       /\ NamesOf(supRegistry'.manifest) = NamesOf(tree) \cup Roots
       /\ \A p \in SupPackages :
            supRegistry'.fallbacks[p] = IF p \in dropped THEN request[p] ELSE supRegistry.fallbacks[p]
       /\ Registered' = Registered
  <2>. HIDE DEF tree
  <2>1. supRegistry'.modules = supRegistry.modules
    BY <1>1, <1>3, <1>11, FallbacksAre
  <2>2. Registered' = Registered
    BY <2>1 DEF Registered
  <2>3. NamesOf(supRegistry'.manifest) = NamesOf(tree) \cup DOMAIN request
    BY <1>1, <1>3, <1>11, FallbacksAre
  <2>4. NamesOf(supRegistry'.manifest) = NamesOf(tree) \cup Roots
    BY <1>3, <2>3
  <2>. QED BY <1>1, <1>3, <1>11, <2>1, <2>2, <2>4, FallbacksAre DEF D
<1>13. \A p \in dropped : p \in Roots /\ p \in SupDeclared /\ request[p] = D[p] /\ request[p] # {}
  BY <1>3 DEF Dropped, Roots
<1>. HIDE DEF tree, dropped
<1>14. SupTyped'
  BY <1>1, <1>2, <1>3, <1>12 DEF SupTyped
<1>15. Fresh' /\ Waited'
  BY <1>1, <1>2 DEF Fresh, Waited
<1>16. Covered'
  <2>1. \A e \in tree : e.d = 0 => e.n \in SupDeclared
    BY <1>10 DEF tree, Roots
  <2>. QED BY <1>2, <1>12, <1>13, <2>1 DEF Covered
<1>17. Fallbacks'
  <2>1. \A p \in SupPackages : supRegistry.fallbacks[p] # {} => supRegistry'.fallbacks[p] # {}
    BY <1>12, <1>13
  <2>2. \A f \in supFetches : f.n \in SupPackages
    BY DEF SupTyped, SupFetch
  <2>. QED BY <1>1, <1>12, <2>1, <2>2 DEF Fallbacks, Sound, SelfContained
<1>18. Ranged'
  <2>1. SUFFICES ASSUME NEW p \in SupDeclared \ supPast.edited
                 PROVE  InRange(p)'
    BY <1>1 DEF Ranged
  <2>2. InRange(p) /\ p \in SupPackages
    BY <1>4 DEF Ranged
  <2>3. PinnedTo(p, D) \subseteq Permitted(p) /\ D[p] \subseteq Permitted(p)
    <3>1. PinOf(p) # {} => PinOf(p) \subseteq Permitted(p)
      BY <2>2, PinsAreInstalled DEF InRange
    <3>2. D[p] \subseteq Permitted(p)
      BY DEF Permitted, D
    <3>. QED BY <1>3, <3>1, <3>2 DEF PinnedTo
  <2>4. \A e \in supRegistry'.manifest : e.n = p => e.v \subseteq Permitted(p)
    BY <1>10, <1>12, <1>13, <2>3 DEF Offered
  <2>5. supRegistry'.fallbacks[p] \subseteq Permitted(p)
    BY <1>12, <1>13, <2>2, <2>3 DEF InRange
  <2>6. Permitted(p)' = Permitted(p)
    BY <1>1, <1>12, PermittedStays DEF D
  <2>. QED BY <1>1, <1>12, <2>2, <2>4, <2>5, <2>6 DEF InRange
<1>19. TreeNames' = TreeNames /\ \A p \in SupPackages : Reach(p)' = Reach(p)
  BY <1>1, <1>12 DEF TreeNames, Reach, RangeOf, D
<1>20. ASSUME ~supPast.redeclared
       PROVE  /\ ~Applies(supSidecar.lockset, D)
              /\ \A p \in SupPackages :
                   /\ Offered(p, D) \subseteq Reach(p)
                   /\ Reach(p) # {} => Offered(p, D) # {}
  <2>1. ~Applies(supSidecar.lockset, D)
    BY <1>1, <1>20 DEF Repeats, D
  <2>2. ASSUME NEW p \in SupPackages
        PROVE  /\ Offered(p, D) \subseteq Reach(p)
               /\ Reach(p) # {} => Offered(p, D) # {}
    <3>1. CASE PinOf(p) = {}
      BY <3>1 DEF PinnedTo, Offered, Reach, RangeOf, D
    <3>2. CASE PinOf(p) # {}
      <4>1. supRegistry.modules[p].code \in Reach(p)
        BY <1>1, <1>20, <2>1, <3>2, PinsAreInstalled DEF Repeats, D
      <4>2. PinnedTo(p, D) = {supRegistry.modules[p].code}
        BY <3>2, PinsAreInstalled DEF PinnedTo
      <4>. QED BY <4>1, <4>2 DEF Reach, Offered
    <3>. QED BY <3>1, <3>2
  <2>. QED BY <2>1, <2>2
<1>21. ASSUME ~supPast.redeclared
       PROVE  NamesOf(supRegistry'.manifest) = TreeNames
  <2>1. \A e \in tree : e.n \in TreeNames
    <3>1. ASSUME NEW e \in tree PROVE e.n \in TreeNames
      <4>1. CASE e \in roots
        BY <1>10, <4>1 DEF tree, TreeNames
      <4>2. CASE e \in leaves
        <5>1. e.n \in needs /\ Reach(e.n) # {}
          BY <1>10, <1>20, <1>21, <4>2 DEF tree
        <5>2. PICK r \in roots : e.n \in SupNeeds[r.n]
          BY <1>8, <5>1
        <5>3. r.n \in Roots /\ Reach(r.n) # {}
          BY <1>10, <1>20, <1>21 DEF tree
        <5>. QED BY <5>1, <5>2, <5>3 DEF TreeNames
      <4>. QED BY <4>1, <4>2 DEF tree
    <3>. QED BY <3>1
  <2>2. ASSUME NEW q \in TreeNames \ Roots
        PROVE  \E e \in tree : e.n = q
    <3>1. PICK p \in Roots : Reach(p) # {} /\ q \in SupNeeds[p] /\ Reach(q) # {}
      BY <2>2 DEF TreeNames
    <3>2. q \in SupPackages
      BY <1>4, <3>1, SupAssumption
    <3>3. PICK r \in roots : r.n = p
      BY <1>4, <1>5, <1>20, <1>21, <3>1 DEF ResolvesTo
    <3>4. q \in needs
      BY <1>9, <2>2, <3>1, <3>3
    <3>5. \E e \in leaves : e.n = q
      BY <1>7, <1>20, <1>21, <3>1, <3>2, <3>4 DEF ResolvesTo
    <3>. QED BY <3>5 DEF tree
  <2>3. Roots \subseteq TreeNames
    BY DEF TreeNames
  <2>. QED BY <1>12, <2>1, <2>2, <2>3 DEF NamesOf
<1>22. Repeats'
  <2>1. SUFFICES ASSUME ~supPast.redeclared
                 PROVE  Repeats'
    BY <1>1 DEF Repeats
  <2>2. \A e \in supRegistry'.manifest : supRegistry'.fallbacks[e.n] = {} => e.v \subseteq Reach(e.n)
    <3>1. \A e \in supRegistry'.manifest : e.n \in SupPackages
      BY <1>12 DEF Entry
    <3>. QED BY <1>10, <1>12, <1>13, <1>20, <2>1, <3>1
  <2>3. \A f \in supFetches : f.n \in SupPackages
    BY DEF SupTyped, SupFetch
  <2>4. \A e \in supRegistry'.manifest : e.n \in SupPackages
    BY <1>12 DEF Entry
  <2>5. ~Applies(supSidecar.lockset, D)
    BY <1>20, <2>1
  <2>. QED BY <1>1, <1>2, <1>12, <1>19, <1>21, <2>1, <2>2, <2>3, <2>4, <2>5 DEF Repeats, D
<1>23. Told'
  <2>1. ASSUME ~supPast.redeclared
        PROVE  NamesOf(supRegistry.manifest) \subseteq NamesOf(supRegistry'.manifest)
    BY <1>1, <1>20, <1>21, <2>1 DEF Repeats, D
  <2>. QED BY <1>1, <1>12, <2>1 DEF Told
<1>. QED BY <1>14, <1>15, <1>16, <1>17, <1>18, <1>22, <1>23

LEMMA LoadKeepsSupInv ==
  ASSUME SupInv, LoadBegins
  PROVE  SupInv'
<1> USE DEF SupInv
<1> DEFINE lockset == supSidecar.lockset
<1>1. /\ supFetches' = supFetches /\ supSidecar' = supSidecar /\ supWorld' = supWorld
      /\ supJson' = supJson /\ supLoad.at \in {"idle", "failed"}
      /\ \A p \in SupPackages : p \in DOMAIN supLinked' => supLinked'[p] = NoRelease
  BY DEF LoadBegins
<1>2. /\ supPast'.edited = supPast.edited \cup Edited(supJson)
      /\ supPast'.redeclared = (supPast.redeclared \/ Redeclared)
      /\ supPast'.overtaken = supPast.overtaken
      /\ supPast'.trusted = (supPast.trusted \/ Applies(lockset, supJson))
      /\ supPast' \in [edited : SUBSET SupDeclared, overtaken : SUBSET SupPackages,
                       redeclared : BOOLEAN, trusted : BOOLEAN]
  <2> DEFINE applies == Applies(lockset, supJson)
  <2>1. Edited(supJson) \subseteq SupDeclared /\ Redeclared \in BOOLEAN /\ applies \in BOOLEAN
    <3>1. supSidecar \in SupSidecars
      BY DEF SupTyped
    <3>2. lockset.sound \in BOOLEAN
      BY <3>1, SupAssumption DEF Lockset
    <3>. QED BY <3>2 DEF Edited, Redeclared, Applies, LocksetClosureValid
  <2>2. supPast' = [supPast EXCEPT !.edited = supPast.edited \cup Edited(supJson),
                                   !.redeclared = supPast.redeclared \/ Redeclared,
                                   !.trusted = supPast.trusted \/ applies]
    BY DEF LoadBegins, SupTyped
  <2>3. applies = Applies(lockset, supJson)
    OBVIOUS
  <2>. HIDE DEF applies
  <2>4. /\ supPast'.edited = supPast.edited \cup Edited(supJson)
        /\ supPast'.redeclared = (supPast.redeclared \/ Redeclared)
        /\ supPast'.overtaken = supPast.overtaken
        /\ supPast'.trusted = (supPast.trusted \/ applies)
    BY <2>1, <2>2 DEF SupTyped
  <2>5. supPast' \in [edited : SUBSET SupDeclared, overtaken : SUBSET SupPackages,
                     redeclared : BOOLEAN, trusted : BOOLEAN]
    BY <2>1, <2>2 DEF SupTyped
  <2>. QED BY <2>3, <2>4, <2>5
<1>3. /\ supJson \in [SupDeclared -> SupRanges] /\ supJson \in DepMap
      /\ SupDeclared \subseteq SupPackages
      /\ \A p \in SupDeclared : supJson[p] \in SupRanges /\ supJson[p] # {}
  BY MapsAreMaps, SupAssumption DEF SupTyped
<1>4. supLoad.at = "idle" =>
        /\ Registered = {} /\ supFetches = {} /\ supRegistry.manifest = {}
        /\ \A p \in SupPackages : supRegistry.fallbacks[p] = {} /\ supRegistry.modules[p] = NotInstalled
  BY DEF Fresh, Registered
<1>5. ~supPast'.redeclared =>
        ~supPast.redeclared /\ (supLoad.at = "idle" \/ supRegistry.declared = supJson)
  BY <1>1, <1>2 DEF Redeclared
<1>6. \A f \in supFetches : f.n \in SupPackages
  BY DEF SupTyped, SupFetch
<1>7. CASE Applies(lockset, supJson)
  <2> DEFINE requested == lockset.requested
             tree == lockset.resolved
             dropped == Dropped(requested, tree)
             to == WithFallbacks(requested, tree)
  <2>1. /\ supLoad' = [at |-> "tree", request |-> requested, awaits |-> {}]
        /\ supRegistry' = [to EXCEPT !.declared = supJson]
    BY <1>7 DEF LoadBegins
  <2>2. /\ lockset \in Lockset
        /\ \A e \in tree : e.n \in DOMAIN supJson /\ ~(e.v \subseteq supJson[e.n]) =>
             e.v \subseteq Misresolved(lockset, e.n)
    <3>1. lockset.dependencies = supJson
      BY <1>7 DEF Applies
    <3>2. supSidecar \in SupSidecars
      BY DEF SupTyped
    <3>. QED BY <3>1, <3>2, SupAssumption DEF Misresolved
  <2>3. requested \in DepMap /\ tree \in SUBSET Entry
    BY <2>2 DEF Lockset
  <2>4. /\ \A p \in DOMAIN requested : p \in SupDeclared /\ requested[p] = supJson[p]
        /\ \A e \in tree : e.d = 0 => e.n \in DOMAIN requested
    <3>1. lockset.dependencies = supJson /\ LocksetClosureValid(lockset)
      BY <1>7 DEF Applies
    <3>. QED BY <1>3, <3>1 DEF LocksetClosureValid, Unnamed
  <2>5. \A p \in dropped : p \in SupDeclared /\ requested[p] = supJson[p]
    BY <2>4 DEF Dropped
  <2>. HIDE DEF requested, tree, dropped, to, lockset
  <2>6. /\ to.modules = supRegistry.modules
        /\ to.manifest \in SUBSET Entry
        /\ to \in [declared : DepMap, manifest : SUBSET Entry,
                   fallbacks : [SupPackages -> VersionSets], modules : [SupPackages -> SupModule]]
        /\ \A e \in to.manifest :
             \/ e \in tree
             \/ e.n \in dropped /\ e.v = requested[e.n] /\ e.d = 0
        /\ NamesOf(to.manifest) = NamesOf(tree) \cup DOMAIN requested
        /\ \A p \in SupPackages :
             to.fallbacks[p] = IF p \in dropped THEN requested[p] ELSE supRegistry.fallbacks[p]
    BY <2>3, FallbacksAre DEF to, dropped
  <2>7. /\ supRegistry'.declared = supJson /\ supRegistry'.modules = supRegistry.modules
        /\ supRegistry'.manifest = to.manifest /\ supRegistry'.fallbacks = to.fallbacks
        /\ supRegistry' \in [declared : DepMap, manifest : SUBSET Entry,
                             fallbacks : [SupPackages -> VersionSets],
                             modules : [SupPackages -> SupModule]]
    BY <1>3, <2>1, <2>6
  <2>8. Registered' = Registered
    BY <2>7 DEF Registered
  <2>9. /\ supLoad'.at = "tree"
        /\ supLoad' \in [at : SupAt, request : DepMap, awaits : SUBSET (SupPackages \X VersionSets)]
    BY <2>1, <2>3 DEF SupAt
  <2>10. SupTyped'
    BY <1>1, <1>2, <1>3, <2>7, <2>9 DEF SupTyped
  <2>11. Fresh' /\ Waited'
    BY <1>1, <2>9 DEF Fresh, Waited
  <2>12. Covered'
    BY <2>4, <2>5, <2>6, <2>7, <2>9 DEF Covered
  <2>13. Fallbacks'
    <3>1. \A p \in SupPackages : supRegistry.fallbacks[p] # {} => supRegistry'.fallbacks[p] # {}
      BY <1>3, <2>5, <2>6, <2>7
    <3>. QED BY <1>1, <1>6, <2>7, <3>1 DEF Fallbacks, Sound, SelfContained
  <2>14. Ranged'
    <3>0. SUFFICES ASSUME NEW p \in SupDeclared \ (supPast.edited \cup Edited(supJson))
                   PROVE  InRange(p)'
      BY <1>2 DEF Ranged
    <3> DEFINE permitted == supJson[p] \cup Trusted(p)
               now == supJson[p] \cup Misresolved(lockset, p)
    <3>1. Permitted(p)' = now /\ permitted \subseteq now
      <4>1. supPast'.trusted
        BY <1>2, <1>7 DEF lockset
      <4>2. Permitted(p)' = now
        BY <1>1, <2>7, <4>1, Zenon DEF Permitted, Trusted, Misresolved, lockset
      <4>3. Trusted(p) \subseteq Misresolved(lockset, p)
        BY Zenon DEF Trusted, lockset
      <4>. QED BY <4>2, <4>3
    <3>2. /\ p \in Registered => supRegistry.modules[p].code \in permitted
          /\ supRegistry.fallbacks[p] \subseteq permitted
          /\ \A f \in supFetches : f.n = p => f.v \subseteq permitted /\ f.range \subseteq permitted
      BY EditsAreCounted
    <3>3. supJson[p] \subseteq now
      OBVIOUS
    <3>4. \A e \in tree : e.n = p => e.v \subseteq now
      BY <1>3, <2>2
    <3>. HIDE DEF permitted, now
    <3>5. supRegistry'.fallbacks[p] \subseteq now
      BY <1>3, <2>5, <2>6, <2>7, <3>1, <3>2, <3>3
    <3>6. \A e \in supRegistry'.manifest : e.n = p => e.v \subseteq now
      BY <2>5, <2>6, <2>7, <3>3, <3>4
    <3>. QED BY <1>1, <2>7, <2>8, <3>0, <3>1, <3>2, <3>5, <3>6 DEF InRange
  <2>15. Repeats'
    BY <1>1, <1>7, <2>6, <2>7, <2>9 DEF Repeats, LocksetNames, requested, tree, lockset
  <2>16. Told'
    <3>1. SUFFICES ASSUME ~supPast'.redeclared
                   PROVE  Told'
      BY DEF Told
    <3>2. CASE supLoad.at = "idle"
      BY <1>1, <1>4, <2>7, <3>2 DEF Told, NotInstalled
    <3>3. CASE supLoad.at = "failed" /\ supRegistry.declared = supJson
      <4>1. NamesOf(supRegistry.manifest) = NamesOf(supRegistry'.manifest)
        BY <1>5, <1>7, <2>6, <2>7, <3>1, <3>3 DEF Repeats, LocksetNames, requested, tree, lockset
      <4>. QED BY <1>1, <1>5, <2>7, <3>1, <4>1 DEF Told
    <3>. QED BY <1>1, <1>5, <3>1, <3>2, <3>3
  <2>. QED BY <2>10, <2>11, <2>12, <2>13, <2>14, <2>15, <2>16
<1>8. CASE ~Applies(lockset, supJson)
  <2>1. /\ supLoad' = [at |-> "asked", request |-> RequestDepMap(supJson), awaits |-> {}]
        /\ supRegistry' = [supRegistry EXCEPT !.declared = supJson]
    BY <1>8 DEF LoadBegins
  <2>2. /\ supRegistry'.declared = supJson /\ supRegistry'.modules = supRegistry.modules
        /\ supRegistry'.manifest = supRegistry.manifest
        /\ supRegistry'.fallbacks = supRegistry.fallbacks
        /\ supRegistry' \in [declared : DepMap, manifest : SUBSET Entry,
                             fallbacks : [SupPackages -> VersionSets],
                             modules : [SupPackages -> SupModule]]
    BY <1>3, <2>1 DEF SupTyped
  <2>3. Registered' = Registered
    BY <2>2 DEF Registered
  <2>4. /\ supLoad'.at = "asked" /\ supLoad'.request = RequestDepMap(supRegistry'.declared)
        /\ supLoad' \in [at : SupAt, request : DepMap, awaits : SUBSET (SupPackages \X VersionSets)]
    BY <1>3, <2>1, <2>2, MapsAreMaps DEF SupAt
  <2>5. SupTyped'
    BY <1>1, <1>2, <1>3, <2>2, <2>4 DEF SupTyped
  <2>6. Fresh' /\ Waited'
    BY <1>1, <2>4 DEF Fresh, Waited
  <2>7. Covered'
    <3>1. RequestDepMap(supRegistry.declared)' = RequestDepMap(supRegistry'.declared)
      BY DEF RequestDepMap
    <3>. QED BY <2>2, <2>4, <3>1 DEF Covered
  <2>8. Fallbacks'
    BY <1>1, <2>2 DEF Fallbacks, Sound, SelfContained
  <2>9. Ranged'
    <3>1. SUFFICES ASSUME NEW p \in SupDeclared \ (supPast.edited \cup Edited(supJson))
                   PROVE  InRange(p)'
      BY <1>2 DEF Ranged
    <3>2. Permitted(p)' = supJson[p] \cup Trusted(p)
      <4>1. supPast'.trusted = supPast.trusted
        BY <1>2, <1>8 DEF SupTyped
      <4>. QED BY <1>1, <2>2, <4>1, Zenon DEF Permitted, Trusted, Misresolved
    <3> DEFINE permitted == supJson[p] \cup Trusted(p)
    <3>3. /\ p \in Registered => supRegistry.modules[p].code \in permitted
          /\ supRegistry.fallbacks[p] \subseteq permitted
          /\ \A f \in supFetches : f.n = p => f.v \subseteq permitted /\ f.range \subseteq permitted
      BY EditsAreCounted
    <3>4. Permitted(p)' = permitted
      BY <3>2
    <3>. HIDE DEF permitted
    <3>. QED BY <1>1, <2>2, <2>3, <2>4, <3>3, <3>4 DEF InRange
  <2>10. Repeats'
    <3>1. SUFFICES ASSUME ~supPast'.redeclared
                   PROVE  Repeats'
      BY DEF Repeats
    <3>2. ~Applies(supSidecar.lockset, supRegistry.declared)'
      BY <1>1, <1>8, <2>2 DEF Applies
    <3>3. CASE supLoad.at = "idle"
      BY <1>1, <1>4, <2>2, <2>4, <3>2, <3>3 DEF Repeats, NamesOf, NotInstalled
    <3>4. CASE supLoad.at = "failed" /\ supRegistry.declared = supJson
      <4>1. TreeNames' = TreeNames /\ \A p \in SupPackages : Reach(p)' = Reach(p)
        BY <1>1, <2>2, <3>4 DEF TreeNames, Reach, RangeOf
      <4>. QED BY <1>1, <1>5, <1>6, <1>8, <2>2, <2>4, <3>1, <3>2, <3>4, <4>1 DEF Repeats
    <3>. QED BY <1>1, <1>5, <3>1, <3>3, <3>4
  <2>11. Told'
    BY <1>1, <1>2, <2>2 DEF Told
  <2>. QED BY <2>5, <2>6, <2>7, <2>8, <2>9, <2>10, <2>11
<1>. QED BY <1>7, <1>8

LEMMA SupNextInv ==
  ASSUME SupInv, [SupNext]_supVars
  PROVE  SupInv'
<1>1. ASSUME NEW f \in supFetches, SupFetchOutcome(f)
      PROVE  SupInv'
  BY <1>1, EndKeepsSupInv, ContinueKeepsSupInv, DeliveryKeepsSupInv DEF SupFetchOutcome
<1>. QED
  BY <1>1, SupSteps, QuietKeepsSupInv, LoadKeepsSupInv, ManifestKeepsSupInv, PreloadKeepsSupInv,
     LinkKeepsSupInv, AdoptKeepsSupInv DEF SupInv

\* The invariant holds of every first compile.
THEOREM SupInvariant == SupSpec => []SupInv
<1>1. SupInit => SupInv
  BY SupInitInv
<1>2. SupInv /\ [SupNext]_supVars => SupInv'
  BY SupNextInv
<1>. QED BY <1>1, <1>2, PTL DEF SupSpec

\* What a first compile is served with is what package.json declares, whatever failed, was
\* published and was edited meanwhile, and whatever the sidecar is: only what a lockset of the
\* declared map itself resolved out of its range is installed as that says.
THEOREM SupplyIsDeclared == SupSpec => []SupplyIsAsDeclared
<1>1. ASSUME SupInv
      PROVE  SupplyIsAsDeclared
  <2>1. SUFFICES ASSUME supLoad.at = "loaded"
                 PROVE  SupplyIsAsDeclared
    BY DEF SupplyIsAsDeclared
  <2>2. /\ NamesOf(supRegistry.manifest) \subseteq Registered
        /\ \A e \in supRegistry.manifest : e.d = 0 => e.n \in SupDeclared
    BY <1>1, <2>1 DEF SupInv, Covered
  <2>3. \A p \in Registered : p \in SupDeclared \ supPast.edited =>
          supRegistry.modules[p].code \in Permitted(p)
    BY <1>1 DEF SupInv, Ranged, InRange
  <2>4. \A p \in Registered : supRegistry.modules[p].from = "esm" /\ ~supPast.redeclared =>
          SupNeeds[p] \subseteq Registered
    BY <1>1, <2>2 DEF SupInv, Told, Registered
  <2>. QED BY <2>2, <2>3, <2>4 DEF SupplyIsAsDeclared
<1>. QED BY <1>1, SupInvariant, PTL

\* A package is of one release: what is linked, what is listed and what is read.
THEOREM ReleasesAgree == SupSpec => []OneReleaseOfEach
<1>1. ASSUME SupInv
      PROVE  OneReleaseOfEach
  BY <1>1 DEF SupInv, OneReleaseOfEach, Fallbacks, Waited, Registered
<1>. QED BY <1>1, SupInvariant, PTL
=============================================================================
