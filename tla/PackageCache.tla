---------------------------- MODULE PackageCache ----------------------------
(***************************************************************************)
(* One package release in the CDN: the calls of CachedPackageProcessor::get *)
(* for it, the Cached objects that coalesce them, the tasks that load it,   *)
(* and its file in the transform cache, through restarts of the process.    *)
(*                                                                         *)
(* Calls and tasks run on several threads.  A release never changes, so a  *)
(* value is known only by its age, and the file by whether it is whole.    *)
(***************************************************************************)
EXTENDS Naturals, Sequences, FiniteSets

CONSTANTS
  Calls,      \* calls of get
  CacheMaxFaults,  \* bound on failed loads, failed writes and panics
  MaxLapses,  \* bound on expiries of a value and evictions from the cache
  MaxCrashes  \* bound on restarts of the process

ASSUME CacheBoundsAssumption ==
  CacheMaxFaults \in Nat /\ MaxLapses \in Nat /\ MaxCrashes \in Nat

VARIABLES
  held,     \* the Cached object the moka cache holds for the key, or 0
  cacheds,  \* the Cached objects made so far: last_fetched and inflight
  calls,
  loads,    \* the tasks spawned by get_cached
  file,     \* inode the cache file's name stands for, or 0
  tmp,      \* inode its temporary name stands for, or 0
  inodes,   \* what each inode holds
  overlap,  \* history: two loads of the release ran at the same time
  cacheFaults, lapses, crashes

memory == <<held, cacheds, calls, loads>>
disk   == <<file, tmp, inodes>>
cacheVars   == <<memory, disk, overlap, cacheFaults, lapses, crashes>>

\* inflight is a weak reference to a load; it dangles when the load panicked.
Cached    == [value : {"none", "fresh", "stale"}, inflight : 0..Len(loads)]
NewCached == [value |-> "none", inflight |-> 0]

Call == [phase : {"new", "inserting", "asking", "waiting", "ok", "error", "dropped"},
         cached : 0..Len(cacheds), load : 0..Len(loads)]
NoCall == [phase |-> "new", cached |-> 0, load |-> 0]

\* inode is the one a storing load has open.
Load == [cached : 1..Len(cacheds), inode : 0..Len(inodes),
         phase : {"reading", "removing", "processing", "creating", "writing", "renaming",
                  "answering", "failing", "ended"}]

Running(i) == loads[i].phase # "ended"

CacheTypeOK ==
  /\ held \in 0..Len(cacheds)
  /\ cacheds \in Seq(Cached) /\ calls \in [Calls -> Call] /\ loads \in Seq(Load)
  /\ inodes \in Seq({"partial", "whole"})
  /\ file \in 0..Len(inodes) /\ tmp \in 0..Len(inodes) /\ (file = tmp => tmp = 0)
  /\ overlap \in BOOLEAN
  /\ cacheFaults \in 0..CacheMaxFaults /\ lapses \in 0..MaxLapses /\ crashes \in 0..MaxCrashes

\* A file of an earlier process: none, whole, or of no use (another format).  Or
\* a process that answered and stored the release before.
CacheInit ==
  /\ \/ held = 0 /\ cacheds = <<>> /\ inodes \in {<<>>, <<"whole">>, <<"partial">>}
     \/ held = 1 /\ cacheds = <<[NewCached EXCEPT !.value = "fresh"]>> /\ inodes = <<"whole">>
  /\ calls = [c \in Calls |-> NoCall] /\ loads = <<>>
  /\ file = Len(inodes) /\ tmp = 0
  /\ overlap = FALSE /\ cacheFaults = 0 /\ lapses = 0 /\ crashes = 0

\* Call c goes on, with a Cached object and perhaps a load to wait for.
Moves(c, phase, cached, load) ==
  calls' = [calls EXCEPT ![c] = [phase |-> phase, cached |-> cached, load |-> load]]

\* Load i goes on, with an inode open when it is writing.
Goes(i, phase, inode) ==
  loads' = [loads EXCEPT ![i] = [cached |-> loads[i].cached, inode |-> inode, phase |-> phase]]

Fault == cacheFaults < CacheMaxFaults /\ cacheFaults' = cacheFaults + 1 /\ UNCHANGED <<lapses, crashes>>
NoFault == UNCHANGED <<cacheFaults, lapses, crashes>>

-----------------------------------------------------------------------------
(* CachedPackageProcessor::get *)

\* The key is looked up; a miss makes a Cached object, not inserted yet.
Get(c) ==
  /\ calls[c].phase = "new"
  /\ IF held # 0
     THEN /\ Moves(c, "asking", held, 0)
          /\ UNCHANGED cacheds
     ELSE /\ cacheds' = Append(cacheds, NewCached)
          /\ Moves(c, "inserting", Len(cacheds) + 1, 0)
  /\ UNCHANGED <<held, loads, disk, overlap>> /\ NoFault

\* It replaces whatever another call inserted meanwhile.
Insert(c) ==
  /\ calls[c].phase = "inserting"
  /\ held' = calls[c].cached
  /\ Moves(c, "asking", calls[c].cached, 0)
  /\ UNCHANGED <<cacheds, loads, disk, overlap>> /\ NoFault

-----------------------------------------------------------------------------
(* Cached::get_cached, under its lock *)

\* Seeded fault: inflight keeps the sender of a load that panicked alive.
Joinable_Strong(o) == cacheds[o].inflight # 0

\* The weak reference can be upgraded.
Joinable(o) == cacheds[o].inflight # 0 /\ Running(cacheds[o].inflight)

Spawn(o) ==
  /\ loads' = Append(loads, [cached |-> o, inode |-> 0, phase |-> "reading"])
  /\ cacheds' = [cacheds EXCEPT ![o] = [@ EXCEPT !.inflight = Len(loads) + 1]]
  /\ overlap' = (overlap \/ \E i \in DOMAIN loads : Running(i))

\* A stale value has one refresh at a time.
Refresh(o) == IF Joinable(o) THEN UNCHANGED <<loads, cacheds, overlap>> ELSE Spawn(o)

\* Seeded fault: a call that finds a stale value waits for the refresh.
Asks_AwaitsRefresh(c) ==
  LET o == calls[c].cached IN
  /\ IF cacheds[o].value = "fresh" THEN UNCHANGED <<loads, cacheds, overlap>> ELSE Refresh(o)
  /\ IF cacheds[o].value = "fresh" THEN Moves(c, "ok", o, 0)
                                   ELSE Moves(c, "waiting", o, cacheds'[o].inflight)

\* A value is answered at once, however old; without one the call waits for the
\* load in flight, or for the one it spawns.
Asks(c) ==
  LET o == calls[c].cached IN
  /\ IF cacheds[o].value = "fresh" THEN UNCHANGED <<loads, cacheds, overlap>> ELSE Refresh(o)
  /\ IF cacheds[o].value = "none" THEN Moves(c, "waiting", o, cacheds'[o].inflight)
                                  ELSE Moves(c, "ok", o, 0)

GetCached(c) ==
  /\ calls[c].phase = "asking" /\ Asks(c)
  /\ UNCHANGED <<held, disk>> /\ NoFault

-----------------------------------------------------------------------------
(* The task that loads: disk_cache::load, process_npm_package,             *)
(* disk_cache::store                                                       *)

\* The file is served when it is whole, and removed when it is not.
LoadReads(i) ==
  /\ loads[i].phase = "reading"
  /\ \/ file = 0 /\ Goes(i, "processing", 0)
     \/ file # 0 /\ inodes[file] = "whole" /\ Goes(i, "answering", 0)
     \/ file # 0 /\ inodes[file] = "partial" /\ Goes(i, "removing", 0)
  /\ UNCHANGED <<held, cacheds, calls, disk, overlap>> /\ NoFault

\* Whatever has the file's name by now.
LoadRemoves(i) ==
  /\ loads[i].phase = "removing"
  /\ file' = 0
  /\ Goes(i, "processing", 0)
  /\ UNCHANGED <<held, cacheds, calls, tmp, inodes, overlap>> /\ NoFault

\* Seeded fault: the answer does not wait for the file.
Processed_NotStored == "answering"

\* What follows when the package is transformed.
Processed == "creating"

LoadProcesses(i) ==
  /\ loads[i].phase = "processing"
  /\ \/ Goes(i, Processed, 0) /\ NoFault
     \/ Goes(i, "failing", 0) /\ Fault
  /\ UNCHANGED <<held, cacheds, calls, disk, overlap>>

\* Seeded fault: the file is written in place.
Create_InPlace(i) ==
  /\ inodes' = Append(inodes, "partial") /\ file' = Len(inodes) + 1 /\ UNCHANGED tmp
  /\ Goes(i, "writing", Len(inodes) + 1)

\* The temporary file is created, or the existing one is truncated.
Create(i) ==
  LET inode == IF tmp = 0 THEN Len(inodes) + 1 ELSE tmp IN
  /\ inodes' = IF tmp = 0 THEN Append(inodes, "partial") ELSE [inodes EXCEPT ![tmp] = "partial"]
  /\ tmp' = inode /\ UNCHANGED file
  /\ Goes(i, "writing", inode)

StoreCreates(i) ==
  /\ loads[i].phase = "creating" /\ Create(i)
  /\ UNCHANGED <<held, cacheds, calls, overlap>> /\ NoFault

StoreWrites(i) ==
  /\ loads[i].phase = "writing"
  /\ inodes' = [inodes EXCEPT ![loads[i].inode] = "whole"]
  /\ Goes(i, "renaming", 0)
  /\ UNCHANGED <<held, cacheds, calls, file, tmp, overlap>> /\ NoFault

\* Whatever has the temporary name gets the file's.
Renamed == file' = tmp /\ tmp' = 0

\* Without a temporary file the rename fails, which is only logged.
StoreRenames(i) ==
  /\ loads[i].phase = "renaming"
  /\ IF tmp = 0 THEN UNCHANGED <<file, tmp>> ELSE Renamed
  /\ Goes(i, "answering", 0)
  /\ UNCHANGED <<held, cacheds, calls, inodes, overlap>> /\ NoFault

\* A failed write is only logged, too.
StoreFails(i) ==
  /\ loads[i].phase \in {"creating", "writing"} /\ Fault
  /\ Goes(i, "answering", 0)
  /\ UNCHANGED <<held, cacheds, calls, disk, overlap>>

\* Seeded fault: only one receiver gets the answer.
Told_One(i, phase) ==
  LET c == CHOOSE x \in Calls : calls[x].phase = "waiting" /\ calls[x].load = i IN
  calls' = IF \E x \in Calls : calls[x].phase = "waiting" /\ calls[x].load = i
           THEN [calls EXCEPT ![c].phase = phase] ELSE calls

\* The broadcast reaches every call that waits for load i.
Told(i, phase) ==
  calls' = [c \in Calls |-> IF calls[c].phase = "waiting" /\ calls[c].load = i
                            THEN [calls[c] EXCEPT !.phase = phase] ELSE calls[c]]

\* Under the lock inflight is cleared, the value replaced, the answer sent.
LoadAnswers(i) ==
  LET o == loads[i].cached
      ok == loads[i].phase = "answering" IN
  /\ loads[i].phase \in {"answering", "failing"}
  /\ cacheds' = [cacheds EXCEPT ![o] = [value |-> IF ok THEN "fresh" ELSE @.value, inflight |-> 0]]
  /\ Told(i, IF ok THEN "ok" ELSE "error")
  /\ Goes(i, "ended", 0)
  /\ UNCHANGED <<held, disk, overlap>> /\ NoFault

\* The transform panics and the task unwinds: its sender is dropped, which every
\* receiver is told.
LoadPanics(i) ==
  /\ loads[i].phase = "processing" /\ Fault
  /\ Told(i, "error") /\ Goes(i, "ended", 0)
  /\ UNCHANGED <<held, cacheds, disk, overlap>>

-----------------------------------------------------------------------------
(* Time and the process *)

Lapse == lapses < MaxLapses /\ lapses' = lapses + 1 /\ UNCHANGED <<cacheFaults, crashes>>

\* refresh_interval has passed.
Expire(o) ==
  /\ cacheds[o].value = "fresh" /\ Lapse
  /\ cacheds' = [cacheds EXCEPT ![o] = [@ EXCEPT !.value = "stale"]]
  /\ UNCHANGED <<held, calls, loads, disk, overlap>>

\* The moka cache is full or the key idle; calls keep their objects.
Evict ==
  /\ held # 0 /\ Lapse
  /\ held' = 0
  /\ UNCHANGED <<cacheds, calls, loads, disk, overlap>>

\* The process ends anywhere and another one starts.
Restart ==
  /\ crashes < MaxCrashes /\ crashes' = crashes + 1
  /\ held' = 0 /\ cacheds' = <<>> /\ loads' = <<>>
  /\ calls' = [c \in Calls |-> IF calls[c].phase \in {"inserting", "asking", "waiting"}
                               THEN [NoCall EXCEPT !.phase = "dropped"]
                               ELSE [NoCall EXCEPT !.phase = calls[c].phase]]
  /\ UNCHANGED <<disk, overlap, cacheFaults, lapses>>

CallStep == \E c \in Calls : Get(c) \/ Insert(c) \/ GetCached(c)
LoadStep(i) ==
  \/ LoadReads(i) \/ LoadRemoves(i) \/ LoadProcesses(i)
  \/ StoreCreates(i) \/ StoreWrites(i) \/ StoreRenames(i) \/ StoreFails(i)
  \/ LoadAnswers(i) \/ LoadPanics(i)
CacheProgress == CallStep \/ \E i \in DOMAIN loads : LoadStep(i)

CacheNext == CacheProgress \/ (\E o \in DOMAIN cacheds : Expire(o)) \/ Evict \/ Restart

\* Threads run; downloads end one way or another.
CacheSpec == CacheInit /\ [][CacheNext]_cacheVars /\ WF_cacheVars(CacheProgress)

-----------------------------------------------------------------------------
(* Properties *)

\* A call never waits for a load that is over: inflight never outlives its task,
\* also when that panics, and the answer finds every receiver.
WaitersAreServed == \A c \in Calls : calls[c].phase = "waiting" => Running(calls[c].load)

\* Calls that share a Cached object share its load.
OneLoad ==
  \A i, j \in DOMAIN loads :
    i # j /\ Running(i) /\ Running(j) => loads[i].cached # loads[j].cached

\* Callers see an error only if there is no value to give: a failed refresh is
\* hidden behind the stale value, and an error is never remembered.
ErrorsOnlyWithoutValue ==
  [][\A c \in Calls : calls[c].phase # "error" /\ calls'[c].phase = "error" =>
       /\ cacheds[calls[c].cached].value = "none"
       /\ Running(calls[c].load)]_cacheVars

\* As long as no two loads of the release overlap, what was answered is on disk
\* for the next process, whatever happened in between.
AnsweredIsStored ==
  (\E c \in Calls : calls[c].phase = "ok") /\ ~overlap /\ cacheFaults = 0 =>
    file # 0 /\ inodes[file] = "whole"

\* Then a store never shows a file it has not written to the end, crashes and
\* failed writes included; only a file found at the start may be of no use.
WholeWithoutOverlap ==
  [][~overlap /\ file' # file /\ file' # 0 => inodes'[file'] = "whole"]_cacheVars

\* Write via temp + rename so readers never see a partial file (disk_cache.rs:117).
ReadersSeeWholeFiles ==
  [][file' # file /\ file' # 0 => inodes'[file'] = "whole"]_cacheVars

\* Every call is answered, unless the process ends first.
EveryCallIsAnswered ==
  \A c \in Calls : <>(calls[c].phase \in {"ok", "error", "dropped"})

=============================================================================
