----------------------------- MODULE Manifests -----------------------------
(***************************************************************************)
(* The CDN's store of npm manifests (npm_replicator/database.rs) and the   *)
(* two lookups made in it: a request of /dep_tree resolves a tag or a      *)
(* range (resolve_dep), a package load asks for an exact version           *)
(* (download_package_content).                                             *)
(*                                                                         *)
(* Requests run on several threads.  The row of SQLite, the LRU and the    *)
(* table of refresh times have a lock each, and an action is what runs     *)
(* under one lock or between two awaits.  One package is modelled: rows    *)
(* and entries of different packages share no state but the LRU's size,    *)
(* whose evictions may come at any time (ManEvict).                        *)
(*                                                                         *)
(* A manifest is known by its revision at npm, and version v is published  *)
(* in revision v; a revision of ManEmpty lists no version at all.          *)
(***************************************************************************)
EXTENDS Naturals, FiniteSetsExt

CONSTANTS
  ManRequests,   \* requests, each asking once: together, or one after the other
  ManRevisions,  \* bound on what npm publishes
  ManEmpty,      \* revisions that list no version
  ManFaults      \* bound on failed downloads

ASSUME ManAssumption ==
  /\ ManRevisions \in Nat \ {0} /\ ManEmpty \subseteq 1 .. ManRevisions /\ ManFaults \in Nat

Revision == 1 .. ManRevisions
Unknown == 0

VARIABLES
  manNpm,       \* the revision at registry.npmjs.org
  manRow,       \* the row of the package: its revision (0: no row), and whether its age
                \* is over MANIFEST_MAX_AGE or unknown
  manLru,       \* the revision the LRU holds
  manRefreshed, \* `refreshed`, within MIN_REFRESH_INTERVAL
  manCalls,     \* the requests
  manHistory    \* observations

manStore == <<manRow, manLru, manRefreshed>>
manVars == <<manNpm, manStore, manCalls, manHistory>>

\* What a request asks for: the newest version (a tag), or one from `wants` on (a range). An
\* exact version takes the steps of a range: no later manifest drops the one there is.
Kinds == {"tag", "range"}
\* Where it is: has_package (LRU, then row), the age test, refresh_package, the download
\* ("fetch", or "refetch" when it refreshes an old row), write_package (row, then LRU),
\* get_package (LRU, row, then LRU), the choice of a version.
\* `rev` is the manifest in its hands, `again`: it has refreshed once and reads a second time.
NoCall == [at |-> "none", kind |-> "tag", wants |-> 1, rev |-> Unknown, again |-> FALSE,
           floor |-> Unknown, npm |-> Unknown, aged |-> FALSE, held |-> FALSE]

ManInit ==
  /\ manNpm = 1
  /\ \E rev \in {Unknown, 1} : manRow = [rev |-> rev, old |-> TRUE]
  /\ manLru = Unknown
  /\ manRefreshed = FALSE
  /\ manCalls = [r \in ManRequests |-> NoCall]
  /\ manHistory = [spoiled |-> FALSE, newest |-> manRow.rev, faults |-> 0]

Goes(r, at) == manCalls' = [manCalls EXCEPT ![r].at = at]
GoesWith(r, at, rev) == manCalls' = [manCalls EXCEPT ![r] = [@ EXCEPT !.at = at, !.rev = rev]]
Lists(rev, v) == rev \notin ManEmpty \cup {Unknown} /\ v <= rev
----------------------------------------------------------------------------
(* npm, time, and the LRU's size. *)

NpmPublishes ==
  /\ manNpm < ManRevisions
  /\ manNpm' = manNpm + 1
  /\ UNCHANGED <<manStore, manCalls, manHistory>>

\* MIN_REFRESH_INTERVAL goes by.
MinutePasses ==
  /\ manRefreshed /\ manRefreshed' = FALSE
  /\ UNCHANGED <<manNpm, manRow, manLru, manCalls, manHistory>>

\* MANIFEST_MAX_AGE goes by.
DayPasses ==
  /\ manRow.rev # Unknown /\ ~manRow.old
  /\ manRow' = [manRow EXCEPT !.old = TRUE] /\ manRefreshed' = FALSE
  /\ UNCHANGED <<manNpm, manLru, manCalls, manHistory>>

ManEvict ==
  /\ manLru # Unknown /\ manLru' = Unknown
  /\ UNCHANGED <<manNpm, manRow, manRefreshed, manCalls, manHistory>>
----------------------------------------------------------------------------
(* The entry points. *)

\* The oldest manifest a download may still store: npm's, or one that is on its way.
Oldest == Min({manNpm} \cup {manCalls[r].rev : r \in {q \in ManRequests : manCalls[q].at = "write"}})

\* The row, unless the writer that replaced it has still to tell the LRU.
Popping == \E r \in ManRequests : manCalls[r].at = "pop"
Written == IF Popping THEN Unknown ELSE manRow.rev

\* A version that is asked for was published.
Ask(r, kind, v) ==
  /\ manCalls[r].at = "none"
  /\ v <= manNpm /\ (kind = "tag" => v = 1)
  /\ manCalls' = [manCalls EXCEPT ![r] =
       [NoCall EXCEPT !.at = "hasLru", !.kind = kind, !.wants = v,
                      !.floor = Written, !.npm = Oldest, !.aged = manRow.old]]
  /\ UNCHANGED <<manNpm, manStore, manHistory>>

\* Of a tag, resolve_dep looks at the age of what there is; of a range it asks ensure_package,
\* as for an exact version, which does not.
IsThere(r) == IF manCalls[r].kind = "tag" THEN "age" ELSE "getLru"

\* has_package, the LRU.
HasInLru(r) ==
  /\ manCalls[r].at = "hasLru"
  /\ Goes(r, IF manLru = Unknown THEN "hasRow" ELSE IsThere(r))
  /\ UNCHANGED <<manNpm, manStore, manHistory>>

\* has_package, the row; ensure_package downloads what is missing.
HasInRow(r) ==
  /\ manCalls[r].at = "hasRow"
  /\ Goes(r, IF manRow.rev = Unknown THEN "fetch" ELSE IsThere(r))
  /\ UNCHANGED <<manNpm, manStore, manHistory>>

\* ensure_fresh_package: fetched_at against MANIFEST_MAX_AGE; a row that went meanwhile
\* is of unknown age.
TestAge(r) ==
  /\ manCalls[r].at = "age"
  /\ Goes(r, IF manRow.old \/ manRow.rev = Unknown THEN "refresh" ELSE "getLru")
  /\ UNCHANGED <<manNpm, manStore, manHistory>>

\* refresh_package marks the package before it downloads: within the interval nobody
\* downloads it again, whether or not this download succeeds.
RefreshPackage(r) ==
  /\ manCalls[r].at \in {"refresh", "missing"}
  /\ manRefreshed' = TRUE
  /\ manCalls' = [manCalls EXCEPT ![r] = [@ EXCEPT
       !.at = IF manCalls[r].at = "refresh"
                THEN IF manRefreshed THEN "getLru" ELSE "refetch"
                ELSE IF manRefreshed THEN "notFound" ELSE "fetch",
       !.again = manCalls[r].at = "missing",
       !.held = manCalls[r].held \/ manRefreshed]]
  /\ UNCHANGED <<manNpm, manRow, manLru, manHistory>>
----------------------------------------------------------------------------
(* fetch_and_store and write_package. *)

\* npm answers with the revision it has now.
Downloaded(r) ==
  /\ manCalls[r].at \in {"fetch", "refetch"}
  /\ GoesWith(r, "write", manNpm)
  /\ UNCHANGED <<manNpm, manStore, manHistory>>

\* A status, a broken body: the request fails, unless it was the refresh of an old row.
DownloadFails(r) ==
  /\ manCalls[r].at \in {"fetch", "refetch"}
  /\ manHistory.faults < ManFaults
  /\ manHistory' = [manHistory EXCEPT !.faults = @ + 1]
  /\ manCalls' = [manCalls EXCEPT ![r] = [@ EXCEPT
       !.at = IF manCalls[r].at = "refetch" THEN "getLru" ELSE "failed",
       !.held = TRUE]]
  /\ UNCHANGED <<manNpm, manStore>>

\* The newest download written so far, and whether an older one was written after it.
WithWrite(rev) ==
  [manHistory EXCEPT !.newest = rev, !.spoiled = @ \/ rev < manHistory.newest]

\* Seeded fault: the LRU keeps what it holds.
WriteRow_KeepsLru(r) ==
  /\ manCalls[r].at = "write" /\ manCalls[r].rev \notin ManEmpty
  /\ manRow' = [rev |-> manCalls[r].rev, old |-> FALSE]
  /\ manHistory' = WithWrite(manCalls[r].rev)
  /\ Goes(r, "getLru")
  /\ UNCHANGED <<manNpm, manLru, manRefreshed>>

\* write_package: the row is replaced under its lock, by whoever downloads last: not
\* always the newest download.
WriteRow(r) ==
  /\ manCalls[r].at = "write" /\ manCalls[r].rev \notin ManEmpty
  /\ manRow' = [rev |-> manCalls[r].rev, old |-> FALSE]
  /\ manHistory' = WithWrite(manCalls[r].rev)
  /\ Goes(r, "pop")
  /\ UNCHANGED <<manNpm, manLru, manRefreshed>>

\* ... and the LRU forgets the package under the other lock.
PopLru(r) ==
  /\ manCalls[r].at = "pop"
  /\ manLru' = Unknown
  /\ Goes(r, "getLru")
  /\ UNCHANGED <<manNpm, manRow, manRefreshed, manHistory>>

\* A manifest without versions: delete_package, which holds both locks.
DeletePackage(r) ==
  /\ manCalls[r].at = "write" /\ manCalls[r].rev \in ManEmpty
  /\ manRow' = [rev |-> Unknown, old |-> TRUE] /\ manLru' = Unknown
  /\ manHistory' = WithWrite(manCalls[r].rev)
  /\ Goes(r, "getLru")
  /\ UNCHANGED <<manNpm, manRefreshed>>
----------------------------------------------------------------------------
(* get_package, and the choice of a version. *)

GetFromLru(r) ==
  /\ manCalls[r].at = "getLru"
  /\ manCalls' = [manCalls EXCEPT ![r] = [@ EXCEPT
       !.at = IF manLru = Unknown THEN "getRow" ELSE "choose",
       !.rev = manLru, !.held = manCalls[r].held \/ Popping]]
  /\ UNCHANGED <<manNpm, manStore, manHistory>>

GetFromRow(r) ==
  /\ manCalls[r].at = "getRow"
  /\ GoesWith(r, IF manRow.rev = Unknown THEN "failed" ELSE "put", manRow.rev)
  /\ UNCHANGED <<manNpm, manStore, manHistory>>

\* What was read goes into the LRU; a write may have come between.
PutIntoLru(r) ==
  /\ manCalls[r].at = "put"
  /\ manLru' = manCalls[r].rev
  /\ manHistory' = [manHistory EXCEPT !.spoiled = @ \/ manCalls[r].rev # manRow.rev]
  /\ Goes(r, "choose")
  /\ UNCHANGED <<manNpm, manRow, manRefreshed>>

\* resolve_version, or the lookup of an exact one; a miss refreshes once.
Choose(r) ==
  /\ manCalls[r].at = "choose"
  /\ Goes(r, IF Lists(manCalls[r].rev, manCalls[r].wants) THEN "found"
             ELSE IF manCalls[r].again THEN "notFound" ELSE "missing")
  /\ UNCHANGED <<manNpm, manStore, manHistory>>

ManNext ==
  \/ NpmPublishes \/ MinutePasses \/ DayPasses \/ ManEvict
  \/ \E r \in ManRequests :
       \/ \E kind \in Kinds, v \in Revision : Ask(r, kind, v)
       \/ HasInLru(r) \/ HasInRow(r) \/ TestAge(r) \/ RefreshPackage(r)
       \/ Downloaded(r) \/ DownloadFails(r) \/ WriteRow(r) \/ PopLru(r) \/ DeletePackage(r)
       \/ GetFromLru(r) \/ GetFromRow(r) \/ PutIntoLru(r) \/ Choose(r)

ManSpec == ManInit /\ [][ManNext]_manVars
----------------------------------------------------------------------------
(* Properties. *)

\* What a request of these kinds got when its row was old: a version chosen in what npm had
\* as it came, or in a download then on its way, unless a refresh came in the last minute,
\* has yet to tell the LRU, or failed (`held`).
FollowNpm(kinds) ==
  \A r \in ManRequests :
    LET call == manCalls[r] IN
    call.at = "found" /\ call.kind \in kinds /\ call.aged => call.rev >= call.npm \/ call.held

\* A tag follows npm as closely as the store promises. Of any request: the manifest served
\* is never older than the row there was when it came, and a published version is only "not
\* found" (it is, in an empty manifest) if the refresh was held. The exceptions are two
\* races of concurrent requests (`spoiled`): a reader puts the row it read into the LRU after
\* a writer replaced it (database.rs:142), and of two downloads the older one is written
\* last (database.rs:178).
TagsFollowNpm ==
  ~manHistory.spoiled =>
    /\ FollowNpm({"tag"})
    /\ \A r \in ManRequests :
         LET call == manCalls[r] IN
         /\ call.at = "found" => call.rev >= call.floor
         /\ call.at = "notFound" => call.held \/ ManEmpty \cap (call.wants .. manNpm) # {}

\* What database.rs:31-32 and collect_dep_tree.rs:194 say: an old manifest is refreshed
\* before a range is resolved, too. A range is resolved in whatever is stored.
RangesFollowNpm == ~manHistory.spoiled => FollowNpm({"range"})
============================================================================
