------------------------- MODULE PackageCacheProofs -------------------------
(***************************************************************************)
(* Proofs about PackageCache for any number of calls, cacheFaults, lapses and   *)
(* restarts.                                                               *)
(***************************************************************************)
EXTENDS PackageCache, TLAPS

-----------------------------------------------------------------------------
(* Types *)

CallPhases == {"new", "inserting", "asking", "waiting", "ok", "error", "dropped"}
LoadPhases == {"reading", "removing", "processing", "creating", "writing", "renaming",
               "answering", "failing", "ended"}

\* Replacing one element of a sequence.
LEMMA Replaced ==
  ASSUME NEW S, NEW T, NEW s \in Seq(S), S \subseteq T, NEW i \in DOMAIN s, NEW e \in T,
         NEW t, t = [s EXCEPT ![i] = e]
  PROVE  /\ t \in Seq(T) /\ Len(t) = Len(s) /\ DOMAIN t = DOMAIN s /\ t[i] = e
         /\ \A j \in DOMAIN s : j # i => t[j] = s[j]
OBVIOUS

\* Appending an element to a sequence.
LEMMA Appended ==
  ASSUME NEW S, NEW T, NEW s \in Seq(S), S \subseteq T, NEW e \in T, NEW t, t = Append(s, e)
  PROVE  /\ t \in Seq(T) /\ Len(t) = Len(s) + 1 /\ DOMAIN t = DOMAIN s \cup {Len(s) + 1}
         /\ Len(s) + 1 \notin DOMAIN s
         /\ t[Len(s) + 1] = e /\ \A j \in DOMAIN s : t[j] = s[j]
OBVIOUS

\* The empty sequence has no elements, whatever it is a sequence of.
LEMMA EmptySequences == Len(<<>>) = 0 /\ DOMAIN <<>> = {} /\ \A S : <<>> \in Seq(S)
OBVIOUS

\* A sequence of one element.
LEMMA Singletons ==
  ASSUME NEW S, NEW e \in S PROVE <<e>> \in Seq(S) /\ Len(<<e>>) = 1
OBVIOUS

\* A sequence over a set is one over every larger set.
LEMMA Widened ==
  ASSUME NEW S, NEW T, S \subseteq T, NEW s \in Seq(S) PROVE s \in Seq(T)
OBVIOUS

\* The objects, calls and loads only become more; what was one stays one.
Grows ==
  /\ Len(cacheds) <= Len(cacheds)' /\ Len(loads) <= Len(loads)' /\ Len(inodes) <= Len(inodes)'
  /\ Len(cacheds)' \in Nat /\ Len(loads)' \in Nat /\ Len(inodes)' \in Nat

\* Objects, loads and inodes are numbered from 1 to their counts.
LEMMA LengthsAreNaturals ==
  ASSUME CacheTypeOK PROVE Len(cacheds) \in Nat /\ Len(loads) \in Nat /\ Len(inodes) \in Nat
BY DEF CacheTypeOK

\* A record that refers to what is there does so when there is more.
LEMMA SetsGrow ==
  ASSUME CacheTypeOK, Grows
  PROVE  Cached \subseteq Cached' /\ Call \subseteq Call' /\ Load \subseteq Load'
<1>1. Cached \subseteq Cached'
  BY LengthsAreNaturals DEF Grows, Cached
<1>2. Call \subseteq Call'
  BY LengthsAreNaturals DEF Grows, Call
<1>3. Load \subseteq Load'
  BY LengthsAreNaturals DEF Grows, Load
<1>. QED BY <1>1, <1>2, <1>3

\* A call that goes on is well typed, and no other call changes.
LEMMA Moved ==
  ASSUME CacheTypeOK, Grows, NEW c \in Calls, NEW p \in CallPhases, NEW o \in 0..Len(cacheds'),
         NEW i \in 0..Len(loads'), Moves(c, p, o, i)
  PROVE  /\ calls' \in [Calls -> Call']
         /\ calls'[c].phase = p /\ calls'[c].cached = o /\ calls'[c].load = i
         /\ \A d \in Calls : d # c => calls'[d] = calls[d]
<1>1. [phase |-> p, cached |-> o, load |-> i] \in Call'
  BY DEF Call, CallPhases
<1>2. calls \in [Calls -> Call']
  BY SetsGrow DEF CacheTypeOK
<1>. QED BY <1>1, <1>2 DEF Moves

\* A load that goes on is well typed, and no other load changes.
LEMMA Gone ==
  ASSUME CacheTypeOK, Grows, NEW i \in DOMAIN loads, NEW p \in LoadPhases, NEW n \in 0..Len(inodes'),
         Goes(i, p, n)
  PROVE  /\ loads' \in Seq(Load') /\ Len(loads') = Len(loads) /\ DOMAIN loads' = DOMAIN loads
         /\ loads'[i].phase = p /\ loads'[i].inode = n /\ loads'[i].cached = loads[i].cached
         /\ \A j \in DOMAIN loads : j # i => loads'[j] = loads[j]
<1> DEFINE e == [cached |-> loads[i].cached, inode |-> n, phase |-> p]
<1>1. loads \in Seq(Load) /\ Load \subseteq Load'
  BY SetsGrow DEF CacheTypeOK
<1>2. loads[i] \in Load'
  BY <1>1
<1>3. e \in Load'
  BY <1>2 DEF Load, LoadPhases
<1>4. loads' = [loads EXCEPT ![i] = e]
  BY DEF Goes
<1> HIDE DEF e
<1>5. /\ loads' \in Seq(Load') /\ Len(loads') = Len(loads) /\ DOMAIN loads' = DOMAIN loads /\ loads'[i] = e
      /\ \A j \in DOMAIN loads : j # i => loads'[j] = loads[j]
  BY <1>1, <1>3, <1>4, Replaced
<1>. QED BY <1>5 DEF e

\* A call in one of these phases has its Cached object.
Placed == \A c \in Calls : calls[c].phase \in {"inserting", "asking", "waiting"} => calls[c].cached # 0

\* A load that writes has a file open.
Opened == \A i \in DOMAIN loads : loads[i].phase = "writing" => loads[i].inode # 0

Typed == CacheTypeOK /\ Placed /\ Opened

\* What a step of Asks does to objects and loads.
LEMMA Spawned ==
  ASSUME CacheTypeOK, NEW o \in DOMAIN cacheds, Spawn(o), UNCHANGED inodes
  PROVE  /\ Grows /\ loads' \in Seq(Load') /\ cacheds' \in Seq(Cached')
         /\ Len(cacheds') = Len(cacheds) /\ Len(loads') = Len(loads) + 1
         /\ DOMAIN loads' = DOMAIN loads \cup {Len(loads) + 1} /\ Len(loads) + 1 \notin DOMAIN loads
         /\ \A j \in DOMAIN loads : loads'[j] = loads[j]
         /\ loads'[Len(loads) + 1] = [cached |-> o, inode |-> 0, phase |-> "reading"]
         /\ cacheds'[o].inflight = Len(loads) + 1 /\ cacheds'[o].value = cacheds[o].value
         /\ \A p \in DOMAIN cacheds : p # o => cacheds'[p] = cacheds[p]
<1> DEFINE l == [cached |-> o, inode |-> 0, phase |-> "reading"]
           e == [cacheds[o] EXCEPT !.inflight = Len(loads) + 1]
<1>1. loads' = Append(loads, l) /\ cacheds' = [cacheds EXCEPT ![o] = e]
  BY DEF Spawn
<1>2. Len(loads') = Len(loads) + 1 /\ Len(cacheds') = Len(cacheds)
  BY <1>1 DEF CacheTypeOK
<1>3. Grows
  BY <1>2, LengthsAreNaturals DEF Grows
<1>4. l \in Load'
  BY <1>2, LengthsAreNaturals DEF Load, CacheTypeOK
<1>5. cacheds[o] \in Cached
  BY DEF CacheTypeOK
<1>6. e \in Cached' /\ e.inflight = Len(loads) + 1 /\ e.value = cacheds[o].value
  BY <1>5, <1>2, LengthsAreNaturals DEF Cached
<1>7. loads \in Seq(Load) /\ cacheds \in Seq(Cached) /\ Load \subseteq Load' /\ Cached \subseteq Cached'
  BY <1>3, SetsGrow DEF CacheTypeOK
<1> HIDE DEF l, e
<1>8. /\ loads' \in Seq(Load') /\ DOMAIN loads' = DOMAIN loads \cup {Len(loads) + 1} /\ Len(loads) + 1 \notin DOMAIN loads
      /\ loads'[Len(loads) + 1] = l /\ \A j \in DOMAIN loads : loads'[j] = loads[j]
  BY <1>1, <1>4, <1>7, Appended
<1>9. /\ cacheds' \in Seq(Cached') /\ cacheds'[o] = e
      /\ \A p \in DOMAIN cacheds : p # o => cacheds'[p] = cacheds[p]
  BY <1>1, <1>6, <1>7, Replaced
<1>. QED BY <1>2, <1>3, <1>6, <1>8, <1>9 DEF l

-----------------------------------------------------------------------------
(* Type correctness *)

Bounds == cacheFaults \in 0..CacheMaxFaults /\ lapses \in 0..MaxLapses /\ crashes \in 0..MaxCrashes

\* The three bounds hold after every step that counts.
LEMMA BoundsKept ==
  ASSUME Bounds,
         \/ NoFault \/ Fault \/ Lapse
         \/ crashes < MaxCrashes /\ crashes' = crashes + 1 /\ UNCHANGED <<cacheFaults, lapses>>
  PROVE  Bounds'
BY CacheBoundsAssumption DEF Bounds, NoFault, Fault, Lapse

\* A step of get or get_cached keeps everything well typed.
LEMMA CallStepTypes ==
  ASSUME Typed, NEW c \in Calls, Get(c) \/ Insert(c) \/ GetCached(c)
  PROVE  Typed'
<1>0. Bounds' /\ UNCHANGED disk
  <2>1. NoFault
    BY DEF Get, Insert, GetCached
  <2>. QED BY <2>1, BoundsKept DEF Typed, CacheTypeOK, Bounds, Get, Insert, GetCached
<1>1. CASE Get(c)
  <2>1. CASE held # 0
    <3>1. UNCHANGED <<held, cacheds, loads, overlap>> /\ Moves(c, "asking", held, 0)
      BY <1>1, <2>1 DEF Get
    <3>2. Grows
      BY <3>1, <1>0, LengthsAreNaturals DEF Grows, disk, Typed
    <3>3. held \in 0..Len(cacheds') /\ 0 \in 0..Len(loads')
      BY <3>1, LengthsAreNaturals DEF Typed, CacheTypeOK
    <3>4. /\ calls' \in [Calls -> Call'] /\ calls'[c].cached = held
          /\ \A d \in Calls : d # c => calls'[d] = calls[d]
      BY <3>1, <3>2, <3>3, Moved DEF Typed, CallPhases
    <3>5. CacheTypeOK'
      BY <3>1, <3>4, <1>0 DEF Typed, CacheTypeOK, Bounds, disk, Cached, Load
    <3>6. Placed'
      BY <3>4, <2>1 DEF Typed, Placed
    <3>11. Opened'
      BY <3>1 DEF Typed, Opened
    <3>. QED BY <3>5, <3>6, <3>11 DEF Typed
  <2>2. CASE held = 0
    <3>1. /\ UNCHANGED <<held, loads, overlap>> /\ cacheds' = Append(cacheds, NewCached)
          /\ Moves(c, "inserting", Len(cacheds) + 1, 0)
      BY <1>1, <2>2 DEF Get
    <3>2. Len(cacheds') = Len(cacheds) + 1
      BY <3>1 DEF Typed, CacheTypeOK
    <3>3. Grows
      BY <3>1, <3>2, <1>0, LengthsAreNaturals DEF Grows, disk, Typed
    <3>4. NewCached \in Cached' /\ cacheds \in Seq(Cached) /\ loads \in Seq(Load)
      BY <3>1, LengthsAreNaturals DEF NewCached, Cached, Typed, CacheTypeOK
    <3>5. cacheds' \in Seq(Cached')
      BY <3>1, <3>3, <3>4, SetsGrow, Appended DEF Typed
    <3>6. loads' \in Seq(Load')
      BY <3>1, <3>3, <3>4, SetsGrow, Widened DEF Typed
    <3>7. Len(cacheds) + 1 \in 0..Len(cacheds') /\ 0 \in 0..Len(loads')
      BY <3>1, <3>2, LengthsAreNaturals DEF Typed
    <3>8. /\ calls' \in [Calls -> Call'] /\ calls'[c].cached = Len(cacheds) + 1
          /\ \A d \in Calls : d # c => calls'[d] = calls[d]
      BY <3>1, <3>3, <3>7, Moved DEF Typed, CallPhases
    <3>9. CacheTypeOK'
      BY <3>1, <3>2, <3>5, <3>6, <3>8, <1>0, LengthsAreNaturals DEF Typed, CacheTypeOK, Bounds, disk
    <3>10. Placed'
      BY <3>8, LengthsAreNaturals DEF Typed, Placed
    <3>11. Opened'
      BY <3>1 DEF Typed, Opened
    <3>. QED BY <3>9, <3>10, <3>11 DEF Typed
  <2>. QED BY <2>1, <2>2
<1>2. CASE Insert(c)
  <2>1. /\ UNCHANGED <<cacheds, loads, overlap>> /\ held' = calls[c].cached
        /\ Moves(c, "asking", calls[c].cached, 0) /\ calls[c].phase = "inserting"
    BY <1>2 DEF Insert
  <2>2. Grows
    BY <2>1, <1>0, LengthsAreNaturals DEF Grows, disk, Typed
  <2>3. calls[c].cached \in 0..Len(cacheds') /\ 0 \in 0..Len(loads') /\ calls[c].cached # 0
    BY <2>1, LengthsAreNaturals DEF Typed, CacheTypeOK, Call, Placed
  <2>4. /\ calls' \in [Calls -> Call'] /\ calls'[c].cached = calls[c].cached
        /\ \A d \in Calls : d # c => calls'[d] = calls[d]
    BY <2>1, <2>2, <2>3, Moved DEF Typed, CallPhases
  <2>5. CacheTypeOK'
    BY <2>1, <2>3, <2>4, <1>0 DEF Typed, CacheTypeOK, Bounds, disk, Cached, Load
  <2>6. Placed'
    BY <2>3, <2>4 DEF Typed, Placed
  <2>7. Opened'
    BY <2>1 DEF Typed, Opened
  <2>. QED BY <2>5, <2>6, <2>7 DEF Typed
<1>3. CASE GetCached(c)
  <2> DEFINE o == calls[c].cached
  <2>1. o \in DOMAIN cacheds /\ o # 0 /\ calls[c].phase = "asking"
    BY <1>3, LengthsAreNaturals DEF GetCached, Typed, CacheTypeOK, Placed, Call
  <2>2. UNCHANGED held /\ Asks(c)
    BY <1>3 DEF GetCached
  <2>3. /\ Grows /\ cacheds' \in Seq(Cached') /\ loads' \in Seq(Load') /\ overlap' \in BOOLEAN
        /\ Len(cacheds') = Len(cacheds) /\ cacheds'[o].inflight \in 0..Len(loads')
    <3>1. CASE UNCHANGED <<loads, cacheds, overlap>>
      <4>1. Grows
        BY <3>1, <1>0, LengthsAreNaturals DEF Grows, disk, Typed
      <4>2. cacheds[o] \in Cached
        BY <2>1 DEF Typed, CacheTypeOK
      <4>3. cacheds'[o].inflight \in 0..Len(loads')
        BY <3>1, <4>2 DEF Cached
      <4>4. cacheds' \in Seq(Cached') /\ loads' \in Seq(Load')
        BY <3>1, <1>0 DEF Typed, CacheTypeOK, Cached, Load, disk
      <4>. QED BY <3>1, <4>1, <4>3, <4>4 DEF Typed, CacheTypeOK
    <3>2. CASE Spawn(o)
      <4>1. UNCHANGED inodes
        BY <1>0 DEF disk
      <4>2. overlap' \in BOOLEAN
        BY <3>2 DEF Spawn, Typed, CacheTypeOK
      <4>3. /\ Grows /\ cacheds' \in Seq(Cached') /\ loads' \in Seq(Load') /\ Len(cacheds') = Len(cacheds)
            /\ Len(loads') = Len(loads) + 1 /\ cacheds'[o].inflight = Len(loads) + 1
        BY <2>1, <3>2, <4>1, Spawned DEF Typed
      <4>. QED BY <4>2, <4>3, LengthsAreNaturals DEF Typed
    <3>. QED BY <2>2, <3>1, <3>2 DEF Asks, Refresh
  <2>4. o \in 0..Len(cacheds') /\ 0 \in 0..Len(loads')
    BY <2>1, <2>3, LengthsAreNaturals DEF Grows, Typed
  <2>5. /\ calls' \in [Calls -> Call'] /\ calls'[c].cached = o
        /\ \A d \in Calls : d # c => calls'[d] = calls[d]
    <3>1. CASE Moves(c, "ok", o, 0)
      BY <3>1, <2>3, <2>4, Moved DEF Typed, CallPhases
    <3>2. CASE Moves(c, "waiting", o, cacheds'[o].inflight)
      BY <3>2, <2>3, <2>4, Moved DEF Typed, CallPhases
    <3>. QED BY <2>2, <3>1, <3>2 DEF Asks
  <2>6. CacheTypeOK'
    BY <2>2, <2>3, <2>5, <1>0 DEF Typed, CacheTypeOK, Bounds, disk
  <2>7. Placed'
    BY <2>1, <2>5 DEF Typed, Placed
  <2>8. Opened'
    <3>1. CASE UNCHANGED loads
      BY <3>1 DEF Typed, Opened
    <3>2. CASE Spawn(o)
      <4>1. /\ DOMAIN loads' = DOMAIN loads \cup {Len(loads) + 1}
            /\ \A j \in DOMAIN loads : loads'[j] = loads[j]
            /\ loads'[Len(loads) + 1] = [cached |-> o, inode |-> 0, phase |-> "reading"]
        BY <3>2, <2>1, <1>0, Spawned DEF Typed, disk
      <4>2. loads'[Len(loads) + 1].phase # "writing"
        BY <4>1
      <4>. QED BY <4>1, <4>2 DEF Typed, Opened
    <3>. QED BY <2>2, <3>1, <3>2 DEF Asks, Refresh
  <2>. QED BY <2>6, <2>7, <2>8 DEF Typed
<1>. QED BY <1>1, <1>2, <1>3

\* The directory is well typed, and no file is lost from the inodes.
DiskTyped ==
  /\ Len(inodes) <= Len(inodes') /\ inodes' \in Seq({"partial", "whole"})
  /\ file' \in 0..Len(inodes') /\ tmp' \in 0..Len(inodes') /\ (file' = tmp' => tmp' = 0)

\* A load that goes on without touching calls and objects.
LEMMA AdvanceTypes ==
  ASSUME Typed, NEW i \in DOMAIN loads, NEW p \in LoadPhases, NEW n \in 0..Len(inodes'),
         Goes(i, p, n), UNCHANGED <<held, cacheds, calls, overlap>>, DiskTyped, Bounds',
         p = "writing" => n # 0
  PROVE  Typed'
<1>1. Len(inodes') \in Nat
  BY DEF DiskTyped
<1>2. loads \in Seq(Load)
  BY DEF Typed, CacheTypeOK
<1>3. Len(loads') = Len(loads)
  BY <1>2 DEF Goes
<1>4. Grows
  BY <1>1, <1>3, LengthsAreNaturals DEF Grows, DiskTyped, Typed
<1>5. loads' \in Seq(Load')
  BY <1>4, Gone DEF Typed
<1>6. cacheds' \in Seq(Cached') /\ calls' \in [Calls -> Call']
  BY <1>3 DEF Typed, CacheTypeOK, Cached, Call
<1>7. CacheTypeOK'
  BY <1>3, <1>5, <1>6 DEF Typed, CacheTypeOK, DiskTyped, Bounds
<1>8. Placed'
  BY DEF Typed, Placed
<1>9. Opened'
  BY <1>4, Gone DEF Typed, Opened
<1>. QED BY <1>7, <1>8, <1>9 DEF Typed

\* The steps of a load before it answers.
Advance(i) ==
  \/ LoadReads(i) \/ LoadRemoves(i) \/ LoadProcesses(i)
  \/ StoreCreates(i) \/ StoreWrites(i) \/ StoreRenames(i) \/ StoreFails(i)

\* The inode a writing load has open.
LEMMA OpenInode ==
  ASSUME Typed, NEW i \in DOMAIN loads PROVE loads[i] \in Load /\ loads[i].inode \in 0..Len(inodes)
<1>1. loads[i] \in Load
  BY DEF Typed, CacheTypeOK
<1>. QED BY <1>1 DEF Load

\* What the truncation or creation of the temporary file leaves.
LEMMA Created ==
  ASSUME Typed, NEW i, Create(i)
  PROVE  /\ DiskTyped /\ tmp' # 0 /\ UNCHANGED file /\ Goes(i, "writing", tmp')
         /\ \A n \in DOMAIN inodes : n # tmp => inodes'[n] = inodes[n]
<1>1. CASE tmp = 0
  <2>1. /\ inodes' = Append(inodes, "partial") /\ tmp' = Len(inodes) + 1 /\ UNCHANGED file
        /\ Goes(i, "writing", tmp')
    BY <1>1 DEF Create
  <2>2. inodes \in Seq({"partial", "whole"})
    BY DEF Typed, CacheTypeOK
  <2>3. /\ inodes' \in Seq({"partial", "whole"}) /\ Len(inodes') = Len(inodes) + 1
        /\ \A n \in DOMAIN inodes : inodes'[n] = inodes[n]
    BY <2>1, <2>2, Appended
  <2>. QED BY <2>1, <2>3, LengthsAreNaturals DEF DiskTyped, Typed, CacheTypeOK
<1>2. CASE tmp # 0
  <2>1. /\ inodes' = [inodes EXCEPT ![tmp] = "partial"] /\ tmp' = tmp /\ UNCHANGED file
        /\ Goes(i, "writing", tmp')
    BY <1>2 DEF Create
  <2>2. inodes \in Seq({"partial", "whole"}) /\ tmp \in DOMAIN inodes
    BY <1>2 DEF Typed, CacheTypeOK
  <2>3. /\ inodes' \in Seq({"partial", "whole"}) /\ Len(inodes') = Len(inodes)
        /\ \A n \in DOMAIN inodes : n # tmp => inodes'[n] = inodes[n]
    BY <2>1, <2>2, Replaced
  <2>. QED BY <1>2, <2>1, <2>3, LengthsAreNaturals DEF DiskTyped, Typed, CacheTypeOK
<1>. QED BY <1>1, <1>2

\* What writing leaves, when the load has an inode open.
LEMMA Written ==
  ASSUME Typed, NEW i \in DOMAIN loads, loads[i].inode # 0, StoreWrites(i)
  PROVE  /\ DiskTyped /\ UNCHANGED <<file, tmp>> /\ Goes(i, "renaming", 0)
         /\ Len(inodes') = Len(inodes) /\ inodes'[loads[i].inode] = "whole"
         /\ \A n \in DOMAIN inodes : n # loads[i].inode => inodes'[n] = inodes[n]
<1>1. /\ inodes' = [inodes EXCEPT ![loads[i].inode] = "whole"] /\ UNCHANGED <<file, tmp>>
      /\ Goes(i, "renaming", 0)
  BY DEF StoreWrites
<1>2. inodes \in Seq({"partial", "whole"}) /\ loads[i].inode \in DOMAIN inodes
  BY OpenInode, LengthsAreNaturals DEF Typed, CacheTypeOK
<1>3. /\ inodes' \in Seq({"partial", "whole"}) /\ Len(inodes') = Len(inodes)
      /\ inodes'[loads[i].inode] = "whole"
      /\ \A n \in DOMAIN inodes : n # loads[i].inode => inodes'[n] = inodes[n]
  BY <1>1, <1>2, Replaced
<1>. QED BY <1>1, <1>3, LengthsAreNaturals DEF DiskTyped, Typed, CacheTypeOK

\* So does a step of a load on its way to an answer.
LEMMA AdvanceStepTypes ==
  ASSUME Typed, NEW i \in DOMAIN loads, Advance(i)
  PROVE  Typed'
<1>0. Bounds'
  <2>1. NoFault \/ Fault
    BY DEF Advance, LoadReads, LoadRemoves, LoadProcesses, StoreCreates, StoreWrites, StoreRenames,
           StoreFails
  <2>. QED BY <2>1, BoundsKept DEF Typed, CacheTypeOK, Bounds
<1>1. UNCHANGED <<held, cacheds, calls, overlap>>
  BY DEF Advance, LoadReads, LoadRemoves, LoadProcesses, StoreCreates, StoreWrites, StoreRenames,
         StoreFails
<1>2. ASSUME UNCHANGED inodes, file' \in {file, tmp, 0}, tmp' = tmp \/ tmp' = 0,
             file' = tmp' => tmp' = 0
      PROVE  DiskTyped /\ 0 \in 0..Len(inodes')
  BY <1>2, LengthsAreNaturals DEF DiskTyped, Typed, CacheTypeOK
<1>3. ASSUME UNCHANGED disk PROVE DiskTyped /\ 0 \in 0..Len(inodes')
  BY <1>3, <1>2 DEF disk, Typed, CacheTypeOK
<1>4. CASE LoadReads(i)
  <2>1. PICK p \in {"processing", "answering", "removing"} : Goes(i, p, 0)
    BY <1>4 DEF LoadReads
  <2>2. UNCHANGED disk
    BY <1>4 DEF LoadReads
  <2>3. p \in LoadPhases /\ p # "writing"
    BY DEF LoadPhases
  <2>. QED BY <2>1, <2>2, <2>3, <1>0, <1>1, <1>3, AdvanceTypes
<1>5. CASE LoadRemoves(i)
  <2>1. Goes(i, "processing", 0) /\ file' = 0 /\ UNCHANGED <<tmp, inodes>>
    BY <1>5 DEF LoadRemoves
  <2>2. "processing" \in LoadPhases
    BY DEF LoadPhases
  <2>. QED BY <2>1, <2>2, <1>0, <1>1, <1>2, AdvanceTypes
<1>6. CASE LoadProcesses(i)
  <2>1. PICK p \in {"creating", "failing"} : Goes(i, p, 0)
    BY <1>6 DEF LoadProcesses, Processed
  <2>2. UNCHANGED disk
    BY <1>6 DEF LoadProcesses
  <2>3. p \in LoadPhases /\ p # "writing"
    BY DEF LoadPhases
  <2>. QED BY <2>1, <2>2, <2>3, <1>0, <1>1, <1>3, AdvanceTypes
<1>7. CASE StoreCreates(i)
  <2>1. DiskTyped /\ tmp' # 0 /\ Goes(i, "writing", tmp')
    BY <1>7, Created DEF StoreCreates
  <2>2. tmp' \in 0..Len(inodes') /\ "writing" \in LoadPhases
    BY <2>1 DEF DiskTyped, LoadPhases
  <2>. QED BY <2>1, <2>2, <1>0, <1>1, AdvanceTypes
<1>8. CASE StoreWrites(i)
  <2>1. loads[i].inode # 0
    BY <1>8 DEF StoreWrites, Typed, Opened
  <2>2. DiskTyped /\ Goes(i, "renaming", 0)
    BY <1>8, <2>1, Written
  <2>3. 0 \in 0..Len(inodes') /\ "renaming" \in LoadPhases
    BY <2>2 DEF DiskTyped, LoadPhases
  <2>. QED BY <2>2, <2>3, <1>0, <1>1, AdvanceTypes
<1>9. CASE StoreRenames(i)
  <2>1. Goes(i, "answering", 0) /\ UNCHANGED inodes
    BY <1>9 DEF StoreRenames
  <2>2. DiskTyped /\ 0 \in 0..Len(inodes')
    BY <1>9, <2>1, <1>2 DEF StoreRenames, Renamed, Typed, CacheTypeOK
  <2>3. "answering" \in LoadPhases
    BY DEF LoadPhases
  <2>. QED BY <2>1, <2>2, <2>3, <1>0, <1>1, AdvanceTypes
<1>10. CASE StoreFails(i)
  <2>1. Goes(i, "answering", 0) /\ UNCHANGED disk
    BY <1>10 DEF StoreFails
  <2>2. "answering" \in LoadPhases
    BY DEF LoadPhases
  <2>. QED BY <2>1, <2>2, <1>0, <1>1, <1>3, AdvanceTypes
<1>. QED BY <1>4, <1>5, <1>6, <1>7, <1>8, <1>9, <1>10 DEF Advance

\* The broadcast moves the calls that wait for load i and no other.
LEMMA Broadcast ==
  ASSUME calls \in [Calls -> Call], NEW i, NEW p \in CallPhases, Told(i, p)
  PROVE  /\ calls' \in [Calls -> Call]
         /\ \A c \in Calls : IF calls[c].phase = "waiting" /\ calls[c].load = i
                             THEN calls'[c].phase = p /\ calls'[c].cached = calls[c].cached
                             ELSE calls'[c] = calls[c]
<1>1. \A c \in Calls : [calls[c] EXCEPT !.phase = p] \in Call
  BY DEF Call, CallPhases
<1>. QED BY <1>1 DEF Told, Call

\* Replacing an object.
LEMMA ObjectReplaced ==
  ASSUME Typed, NEW o \in DOMAIN cacheds, NEW e \in Cached, cacheds' = [cacheds EXCEPT ![o] = e]
  PROVE  /\ cacheds' \in Seq(Cached) /\ Len(cacheds') = Len(cacheds) /\ DOMAIN cacheds' = DOMAIN cacheds
         /\ cacheds'[o] = e /\ \A p \in DOMAIN cacheds : p # o => cacheds'[p] = cacheds[p]
<1>1. cacheds \in Seq(Cached)
  BY DEF Typed, CacheTypeOK
<1>. QED BY <1>1, Replaced

\* So does the end of a load, with or without an answer.
LEMMA LoadEndTypes ==
  ASSUME Typed, NEW i \in DOMAIN loads, LoadAnswers(i) \/ LoadPanics(i)
  PROVE  Typed'
<1> DEFINE o == loads[i].cached
<1>1. Bounds' /\ UNCHANGED <<held, disk, overlap>> /\ Goes(i, "ended", 0)
  <2>1. NoFault \/ Fault
    BY DEF LoadAnswers, LoadPanics
  <2>. QED BY <2>1, BoundsKept DEF Typed, CacheTypeOK, Bounds, LoadAnswers, LoadPanics
<1>2. PICK p \in {"ok", "error"} : Told(i, p)
  BY DEF LoadAnswers, LoadPanics
<1>3. cacheds' \in Seq(Cached) /\ Len(cacheds') = Len(cacheds)
  <2>1. CASE LoadAnswers(i)
    <3> DEFINE e == [value |-> IF loads[i].phase = "answering" THEN "fresh" ELSE cacheds[o].value,
                     inflight |-> 0]
    <3>1. cacheds' = [cacheds EXCEPT ![o] = e]
      BY <2>1 DEF LoadAnswers
    <3>2. o \in DOMAIN cacheds
      BY SMTT(30), OpenInode, LengthsAreNaturals DEF Load, Typed, CacheTypeOK
    <3>3. cacheds[o] \in Cached
      BY <3>2 DEF Typed, CacheTypeOK
    <3>4. e \in Cached
      BY <3>3, LengthsAreNaturals DEF Cached, Typed
    <3>. QED BY <3>1, <3>2, <3>4, ObjectReplaced
  <2>2. CASE LoadPanics(i)
    BY <2>2 DEF LoadPanics, Typed, CacheTypeOK
  <2>. QED BY <2>1, <2>2
<1>4. Len(loads') = Len(loads)
  BY <1>1 DEF Goes, Typed, CacheTypeOK
<1>5. Grows
  BY <1>1, <1>3, <1>4, LengthsAreNaturals DEF Grows, disk, Typed
<1>6. 0 \in 0..Len(inodes') /\ "ended" \in LoadPhases
  BY <1>1, LengthsAreNaturals DEF disk, LoadPhases, Typed
<1>7. loads' \in Seq(Load') /\ Opened'
  BY <1>1, <1>5, <1>6, Gone DEF Typed, Opened
<1>8. p \in CallPhases /\ calls \in [Calls -> Call]
  BY DEF CallPhases, Typed, CacheTypeOK
<1>9. Cached' = Cached /\ Call' = Call
  BY <1>3, <1>4 DEF Cached, Call
<1>10. CacheTypeOK'
  BY <1>1, <1>2, <1>3, <1>4, <1>7, <1>8, <1>9, Broadcast DEF Typed, CacheTypeOK, Bounds, disk
<1>11. Placed'
  <2>1. \A c \in Calls : IF calls[c].phase = "waiting" /\ calls[c].load = i
                         THEN calls'[c].phase = p /\ calls'[c].cached = calls[c].cached
                         ELSE calls'[c] = calls[c]
    BY <1>2, <1>8, Broadcast
  <2>. QED BY <2>1 DEF Typed, Placed
<1>. QED BY <1>7, <1>10, <1>11 DEF Typed

\* So do expiry and eviction.
LEMMA LapseTypes ==
  ASSUME Typed, Evict \/ (\E o \in DOMAIN cacheds : Expire(o))
  PROVE  Typed'
<1>1. Bounds' /\ UNCHANGED <<calls, loads, disk, overlap>>
  <2>1. Lapse
    BY DEF Evict, Expire
  <2>. QED BY <2>1, BoundsKept DEF Typed, CacheTypeOK, Bounds, Evict, Expire
<1>2. Placed' /\ Opened'
  BY <1>1 DEF Typed, Placed, Opened
<1>3. CASE Evict
  <2>1. CacheTypeOK'
    BY <1>1, <1>3, LengthsAreNaturals DEF Evict, Typed, CacheTypeOK, Bounds, disk, Cached, Call, Load
  <2>. QED BY <1>2, <2>1 DEF Typed
<1>4. ASSUME NEW o \in DOMAIN cacheds, Expire(o) PROVE Typed'
  <2> DEFINE e == [cacheds[o] EXCEPT !.value = "stale"]
  <2>1. cacheds' = [cacheds EXCEPT ![o] = e] /\ UNCHANGED held
    BY <1>4 DEF Expire
  <2>2. cacheds[o] \in Cached
    BY DEF Typed, CacheTypeOK
  <2>3. e \in Cached
    BY <2>2 DEF Cached
  <2>4. cacheds' \in Seq(Cached) /\ Len(cacheds') = Len(cacheds)
    BY <2>1, <2>3, ObjectReplaced
  <2>5. CacheTypeOK'
    BY <1>1, <2>1, <2>4 DEF Typed, CacheTypeOK, Bounds, disk, Cached, Call, Load
  <2>. QED BY <1>2, <2>5 DEF Typed
<1>. QED BY <1>3, <1>4

\* So does a restart, after which nothing refers to the old process.
LEMMA RestartTypes ==
  ASSUME Typed, Restart
  PROVE  Typed'
<1>1. /\ held' = 0 /\ cacheds' = <<>> /\ loads' = <<>> /\ UNCHANGED <<disk, overlap>>
      /\ crashes < MaxCrashes /\ crashes' = crashes + 1 /\ UNCHANGED <<cacheFaults, lapses>>
  BY DEF Restart
<1>2. Bounds'
  BY <1>1, BoundsKept DEF Typed, CacheTypeOK, Bounds
<1>3. \A c \in Calls :
        /\ calls'[c] = [phase |-> calls'[c].phase, cached |-> 0, load |-> 0]
        /\ calls'[c].phase \in CallPhases \ {"inserting", "asking", "waiting"}
  <2>1. \A c \in Calls : calls[c].phase \in CallPhases
    BY DEF Typed, CacheTypeOK, Call, CallPhases
  <2>. QED BY <2>1 DEF Restart, NoCall, CallPhases
<1>4. calls' = [c \in Calls |-> calls'[c]]
  BY DEF Restart
<1>5. \A c \in Calls : calls'[c] \in Call'
  <2>1. Len(cacheds') = 0 /\ Len(loads') = 0
    BY <1>1, EmptySequences
  <2>2. \A p \in CallPhases : [phase |-> p, cached |-> 0, load |-> 0] \in Call'
    BY <2>1 DEF Call, CallPhases
  <2>. QED BY <1>3, <2>2
<1>6. calls' \in [Calls -> Call']
  BY <1>4, <1>5
<1>7. CacheTypeOK'
  BY <1>1, <1>2, <1>6, EmptySequences DEF Typed, CacheTypeOK, Bounds, disk
<1>8. Placed' /\ Opened'
  BY <1>1, <1>3, EmptySequences DEF Placed, Opened
<1>. QED BY <1>7, <1>8 DEF Typed

\* Nothing changes when nothing happens.
LEMMA StutterTypes == Typed /\ UNCHANGED cacheVars => Typed'
BY DEF cacheVars, memory, disk, Typed, CacheTypeOK, Placed, Opened, Cached, Call, Load

\* A cold process and one that served the release are well typed.
LEMMA InitTyped == CacheInit => Typed
<1> SUFFICES ASSUME CacheInit PROVE Typed
  OBVIOUS
<1>1. /\ calls = [c \in Calls |-> NoCall] /\ loads = <<>> /\ tmp = 0 /\ file = Len(inodes)
      /\ inodes \in {<<>>, <<"whole">>, <<"partial">>}
      /\ \/ held = 0 /\ cacheds = <<>>
         \/ held = 1 /\ cacheds = <<[value |-> "fresh", inflight |-> 0]>>
  BY DEF CacheInit, NewCached
<1>2. inodes \in Seq({"partial", "whole"}) /\ Len(inodes) \in 0..1
  <2> DEFINE S == {"partial", "whole"}
  <2>1. "partial" \in S /\ "whole" \in S
    OBVIOUS
  <2> HIDE DEF S
  <2>2. <<"partial">> \in Seq(S) /\ Len(<<"partial">>) = 1
    BY <2>1, Singletons
  <2>3. <<"whole">> \in Seq(S) /\ Len(<<"whole">>) = 1
    BY <2>1, Singletons
  <2>4. <<>> \in Seq(S) /\ Len(<<>>) = 0
    BY EmptySequences
  <2>5. inodes \in Seq(S) /\ Len(inodes) \in {0, 1}
    BY <1>1, <2>2, <2>3, <2>4
  <2>. QED BY <2>5 DEF S
<1>3. cacheds \in Seq(Cached) /\ held \in 0..Len(cacheds) /\ Len(cacheds) \in Nat
  <2>1. [value |-> "fresh", inflight |-> 0] \in Cached
    BY <1>1, EmptySequences DEF Cached
  <2>2. CASE held = 0 /\ cacheds = <<>>
    BY <2>2, EmptySequences
  <2>3. CASE held = 1 /\ cacheds = <<[value |-> "fresh", inflight |-> 0]>>
    <3> DEFINE e == [value |-> "fresh", inflight |-> 0]
    <3>1. e \in Cached
      BY <2>1
    <3> HIDE DEF e
    <3>2. <<e>> \in Seq(Cached) /\ Len(<<e>>) = 1
      BY <3>1, Singletons
    <3>3. cacheds = <<e>>
      BY <2>3 DEF e
    <3>. QED BY <2>3, <3>2, <3>3
  <2>. QED BY <1>1, <2>2, <2>3
<1>4. calls \in [Calls -> Call]
  BY <1>1, <1>3, EmptySequences DEF Call, NoCall
<1>5. CacheTypeOK
  <2>1. loads \in Seq(Load)
    BY <1>1, EmptySequences
  <2>2. file \in 0..Len(inodes) /\ tmp \in 0..Len(inodes) /\ (file = tmp => tmp = 0)
    BY <1>1, <1>2
  <2>3. cacheFaults = 0 /\ lapses = 0 /\ crashes = 0
    BY DEF CacheInit
  <2>4. Bounds
    BY <2>3, CacheBoundsAssumption DEF Bounds
  <2>5. overlap \in BOOLEAN
    BY Zenon DEF CacheInit
  <2>. QED BY <1>2, <1>3, <1>4, <2>1, <2>2, <2>4, <2>5 DEF CacheTypeOK, Bounds
<1>6. Placed /\ Opened
  BY <1>1, EmptySequences DEF Placed, Opened, NoCall
<1>. QED BY <1>5, <1>6 DEF Typed

\* The steps, grouped as in the lemmas.
LEMMA StepCases ==
  ASSUME [CacheNext]_cacheVars
  PROVE  \/ \E c \in Calls : Get(c) \/ Insert(c) \/ GetCached(c)
         \/ \E i \in DOMAIN loads : Advance(i)
         \/ \E i \in DOMAIN loads : LoadAnswers(i) \/ LoadPanics(i)
         \/ Evict \/ (\E o \in DOMAIN cacheds : Expire(o))
         \/ Restart
         \/ UNCHANGED cacheVars
BY DEF CacheNext, CacheProgress, CallStep, LoadStep, Advance

\* Typed is inductive.
LEMMA StepTypes == Typed /\ [CacheNext]_cacheVars => Typed'
BY StepCases, CallStepTypes, AdvanceStepTypes, LoadEndTypes, LapseTypes, RestartTypes, StutterTypes

\* Calls, objects, loads and files refer to each other consistently, and never
\* to anything that is not there.
THEOREM TypeCorrect == CacheSpec => []CacheTypeOK
<1>1. Typed => CacheTypeOK
  BY DEF Typed
<1>. QED BY InitTyped, StepTypes, <1>1, PTL DEF CacheSpec

-----------------------------------------------------------------------------
(* What the steps do, without sequences *)

\* Load i goes on or ends; the other loads do not change.
LoadMoves(i, running) ==
  /\ DOMAIN loads' = DOMAIN loads /\ loads'[i].cached = loads[i].cached
  /\ Running(i) /\ (loads'[i].phase # "ended") = running
  /\ \A j \in DOMAIN loads : j # i => loads'[j] = loads[j]

\* A load on its way leaves calls, objects and other loads alone, and runs on.
LEMMA AdvanceDoes ==
  ASSUME Typed, Typed', NEW i \in DOMAIN loads, Advance(i)
  PROVE  LoadMoves(i, TRUE) /\ UNCHANGED <<held, cacheds, calls, overlap>>
<1>1. UNCHANGED <<held, cacheds, calls, overlap>> /\ Running(i)
  BY DEF Advance, LoadReads, LoadRemoves, LoadProcesses, StoreCreates, StoreWrites, StoreRenames,
         StoreFails, Running
<1>2. PICK p \in LoadPhases \ {"ended"} : \E n : Goes(i, p, n)
  BY Created DEF Advance, LoadReads, LoadRemoves, LoadProcesses, Processed, StoreCreates, StoreWrites,
         StoreRenames, StoreFails, LoadPhases
<1>3. loads \in Seq(Load)
  BY DEF Typed, CacheTypeOK
<1>4. /\ DOMAIN loads' = DOMAIN loads /\ loads'[i].phase = p /\ loads'[i].cached = loads[i].cached
      /\ \A j \in DOMAIN loads : j # i => loads'[j] = loads[j]
  BY <1>2, <1>3 DEF Goes
<1>. QED BY <1>1, <1>4 DEF LoadMoves

\* The end of a load changes no object but its own.
LEMMA LoadEndDoes ==
  ASSUME Typed, NEW i \in DOMAIN loads, LoadAnswers(i) \/ LoadPanics(i)
  PROVE  /\ LoadMoves(i, FALSE) /\ UNCHANGED <<held, disk, overlap>>
         /\ loads[i].cached \in DOMAIN cacheds /\ DOMAIN cacheds' = DOMAIN cacheds
         /\ \A o \in DOMAIN cacheds : o # loads[i].cached => cacheds'[o] = cacheds[o]
<1>1. Goes(i, "ended", 0) /\ UNCHANGED <<held, disk, overlap>> /\ Running(i)
  BY DEF LoadAnswers, LoadPanics, Running
<1>2. loads \in Seq(Load) /\ cacheds \in Seq(Cached)
  BY DEF Typed, CacheTypeOK
<1>3. LoadMoves(i, FALSE)
  BY <1>1, <1>2 DEF Goes, LoadMoves
<1>4. loads[i].cached \in DOMAIN cacheds
  BY OpenInode, LengthsAreNaturals DEF Load, Typed, CacheTypeOK
<1>5. CASE LoadAnswers(i)
  BY <1>1, <1>2, <1>3, <1>4, <1>5 DEF LoadAnswers
<1>6. CASE LoadPanics(i)
  BY <1>1, <1>3, <1>4, <1>6 DEF LoadPanics
<1>. QED BY <1>5, <1>6

\* The object of a load that answers.
LEMMA AnswerDoes ==
  ASSUME Typed, NEW i \in DOMAIN loads, LoadAnswers(i)
  PROVE  /\ loads[i].phase \in {"answering", "failing"}
         /\ loads[i].phase = "answering" => Told(i, "ok")
         /\ loads[i].phase = "failing"   => Told(i, "error")
         /\ cacheds'[loads[i].cached].value =
              IF loads[i].phase = "answering" THEN "fresh" ELSE cacheds[loads[i].cached].value
<1>1. cacheds \in Seq(Cached) /\ loads[i].cached \in DOMAIN cacheds
  BY OpenInode, LengthsAreNaturals DEF Load, Typed, CacheTypeOK
<1>. QED BY <1>1 DEF LoadAnswers

\* A call asks its object: it joins the load in flight, or spawns one if there
\* is none, unless the value is fresh.
LEMMA AskDoes ==
  ASSUME Typed, NEW c \in Calls, GetCached(c),
         NEW o, o = calls[c].cached
  PROVE  /\ UNCHANGED <<held, disk>> /\ o \in DOMAIN cacheds /\ DOMAIN cacheds' = DOMAIN cacheds
         /\ cacheds'[o].value = cacheds[o].value
         /\ \A p \in DOMAIN cacheds : p # o => cacheds'[p] = cacheds[p]
         /\ \/ UNCHANGED <<loads, cacheds, overlap>> /\ (cacheds[o].value = "fresh" \/ Joinable(o))
            \/ /\ ~Joinable(o)
               /\ DOMAIN loads' = DOMAIN loads \cup {cacheds'[o].inflight}
               /\ cacheds'[o].inflight \notin DOMAIN loads
               /\ \A j \in DOMAIN loads : loads'[j] = loads[j]
               /\ loads'[cacheds'[o].inflight] = [cached |-> o, inode |-> 0, phase |-> "reading"]
               /\ overlap' = (overlap \/ \E i \in DOMAIN loads : Running(i))
         /\ calls'[c].phase = IF cacheds[o].value = "none" THEN "waiting" ELSE "ok"
         /\ calls'[c].cached = o
         /\ cacheds[o].value = "none" => calls'[c].load = cacheds'[o].inflight
         /\ \A d \in Calls : d # c => calls'[d] = calls[d]
<1>1. o \in DOMAIN cacheds /\ UNCHANGED <<held, disk>> /\ Asks(c)
  BY LengthsAreNaturals DEF GetCached, Typed, CacheTypeOK, Placed, Call
<1>2. calls \in [Calls -> Call]
  BY DEF Typed, CacheTypeOK
<1>3. /\ calls'[c].phase = IF cacheds[o].value = "none" THEN "waiting" ELSE "ok"
      /\ calls'[c].cached = o
      /\ cacheds[o].value = "none" => calls'[c].load = cacheds'[o].inflight
      /\ \A d \in Calls : d # c => calls'[d] = calls[d]
  BY <1>1, <1>2 DEF Asks, Moves
<1>4. CASE UNCHANGED <<loads, cacheds, overlap>> /\ (cacheds[o].value = "fresh" \/ Joinable(o))
  BY <1>1, <1>3, <1>4
<1>5. CASE Spawn(o) /\ ~Joinable(o)
  <2>1. UNCHANGED inodes
    BY <1>1 DEF disk
  <2>2. overlap' = (overlap \/ \E i \in DOMAIN loads : Running(i))
    BY <1>5 DEF Spawn
  <2>3. /\ Len(cacheds') = Len(cacheds) /\ cacheds' \in Seq(Cached')
        /\ DOMAIN loads' = DOMAIN loads \cup {Len(loads) + 1} /\ Len(loads) + 1 \notin DOMAIN loads
        /\ \A j \in DOMAIN loads : loads'[j] = loads[j]
        /\ loads'[Len(loads) + 1] = [cached |-> o, inode |-> 0, phase |-> "reading"]
        /\ cacheds'[o].inflight = Len(loads) + 1 /\ cacheds'[o].value = cacheds[o].value
        /\ \A p \in DOMAIN cacheds : p # o => cacheds'[p] = cacheds[p]
    BY <1>1, <1>5, <2>1, Spawned DEF Typed
  <2>4. DOMAIN cacheds' = DOMAIN cacheds
    BY <2>3 DEF Typed, CacheTypeOK
  <2>. QED BY <1>1, <1>3, <1>5, <2>2, <2>3, <2>4
<1>. QED BY <1>1, <1>4, <1>5 DEF Asks, Refresh

-----------------------------------------------------------------------------
(* Loads are shared, and waited for only while they run *)

\* inflight names the running load of its object, which is therefore alone.
InflightIs ==
  /\ \A i \in DOMAIN loads : Running(i) => cacheds[loads[i].cached].inflight = i
  /\ \A o \in DOMAIN cacheds : cacheds[o].inflight # 0 =>
       cacheds[o].inflight \in DOMAIN loads /\ loads[cacheds[o].inflight].cached = o

\* A waiting call waits for a running load of its object, which has no value.
Served ==
  \A c \in Calls : calls[c].phase = "waiting" =>
    /\ calls[c].load \in DOMAIN loads /\ Running(calls[c].load)
    /\ loads[calls[c].load].cached = calls[c].cached
    /\ cacheds[calls[c].cached].value = "none"

Coalesced == Typed /\ InflightIs /\ Served

\* The object a load answers to, and the one a call waits with.
LEMMA Referred ==
  ASSUME Typed
  PROVE  /\ \A i \in DOMAIN loads : loads[i].cached \in DOMAIN cacheds
         /\ \A c \in Calls : calls[c].phase \in {"inserting", "asking", "waiting"} =>
              calls[c].cached \in DOMAIN cacheds
<1>1. DOMAIN cacheds = 1..Len(cacheds) /\ Len(cacheds) \in Nat
  BY LengthsAreNaturals DEF Typed, CacheTypeOK
<1>2. \A i \in DOMAIN loads : loads[i].cached \in 1..Len(cacheds)
  BY OpenInode DEF Load
<1>3. \A c \in Calls : calls[c].cached \in 0..Len(cacheds)
  BY DEF Call, Typed, CacheTypeOK
<1>. QED BY <1>1, <1>2, <1>3 DEF Typed, Placed

\* A call joins the load its object names, or spawns one when none runs.
LEMMA CallStepCoalesces ==
  ASSUME Coalesced, NEW c \in Calls, Get(c) \/ Insert(c) \/ GetCached(c)
  PROVE  InflightIs' /\ Served'
<1>0. Typed /\ calls \in [Calls -> Call] /\ cacheds \in Seq(Cached)
  BY DEF Coalesced, Typed, CacheTypeOK
<1>1. ASSUME UNCHANGED loads,
             DOMAIN cacheds \subseteq DOMAIN cacheds',
             \A o \in DOMAIN cacheds : cacheds'[o] = cacheds[o],
             \A o \in DOMAIN cacheds' : o \notin DOMAIN cacheds => cacheds'[o].inflight = 0,
             \A d \in Calls : d # c => calls'[d] = calls[d], calls'[c].phase # "waiting"
      PROVE  InflightIs' /\ Served'
  <2>1. InflightIs'
    BY <1>0, <1>1, Referred DEF Coalesced, InflightIs, Running
  <2>2. Served'
    BY <1>0, <1>1, Referred DEF Coalesced, Served, Running
  <2>. QED BY <2>1, <2>2
<1>2. CASE Get(c)
  <2>1. (\A d \in Calls : d # c => calls'[d] = calls[d]) /\ calls'[c].phase # "waiting"
    BY <1>0, <1>2 DEF Get, Moves
  <2>2. UNCHANGED loads /\ (UNCHANGED cacheds \/ cacheds' = Append(cacheds, NewCached))
    BY <1>2 DEF Get
  <2>3. CASE cacheds' = Append(cacheds, NewCached)
    <3>1. NewCached \in Cached /\ NewCached.inflight = 0
      BY <1>0, LengthsAreNaturals DEF NewCached, Cached, Typed
    <3>2. /\ DOMAIN cacheds' = DOMAIN cacheds \cup {Len(cacheds) + 1}
          /\ cacheds'[Len(cacheds) + 1] = NewCached
          /\ \A o \in DOMAIN cacheds : cacheds'[o] = cacheds[o]
      BY <1>0, <2>3, <3>1, Appended
    <3>. QED BY <1>1, <2>1, <2>2, <3>1, <3>2
  <2>. QED BY <1>1, <2>1, <2>2, <2>3
<1>3. CASE Insert(c)
  <2>1. /\ UNCHANGED <<loads, cacheds>> /\ calls'[c].phase = "asking"
        /\ \A d \in Calls : d # c => calls'[d] = calls[d]
    BY <1>0, <1>3 DEF Insert, Moves
  <2>. QED BY <1>1, <2>1
<1>4. CASE GetCached(c)
  <2> DEFINE o == calls[c].cached
             l == cacheds'[o].inflight
  <2>1. /\ o \in DOMAIN cacheds /\ DOMAIN cacheds' = DOMAIN cacheds /\ cacheds'[o].value = cacheds[o].value
        /\ \A p \in DOMAIN cacheds : p # o => cacheds'[p] = cacheds[p]
        /\ calls'[c].phase = IF cacheds[o].value = "none" THEN "waiting" ELSE "ok"
        /\ calls'[c].cached = o
        /\ cacheds[o].value = "none" => calls'[c].load = l
        /\ \A d \in Calls : d # c => calls'[d] = calls[d]
    BY ZenonT(60), <1>0, <1>4, AskDoes
  <2>2. ASSUME \A j \in DOMAIN loads : loads'[j] = loads[j], DOMAIN loads \subseteq DOMAIN loads',
               cacheds[o].value = "none" =>
                 l \in DOMAIN loads' /\ loads'[l].phase # "ended" /\ loads'[l].cached = o
        PROVE  Served'
    <3>1. \A p \in DOMAIN cacheds : cacheds'[p].value = cacheds[p].value
      BY <2>1
    <3>2. ASSUME NEW d \in Calls, calls'[d].phase = "waiting"
          PROVE  /\ calls'[d].load \in DOMAIN loads' /\ loads'[calls'[d].load].phase # "ended"
                 /\ loads'[calls'[d].load].cached = calls'[d].cached
                 /\ cacheds'[calls'[d].cached].value = "none"
      <4>1. CASE d = c
        BY <2>1, <2>2, <3>2, <4>1
      <4>2. CASE d # c
        BY <1>0, <2>1, <2>2, <3>1, <3>2, <4>2, Referred DEF Coalesced, Served, Running
      <4>. QED BY <4>1, <4>2
    <3>. QED BY <3>2 DEF Served, Running
  <2>3. CASE UNCHANGED <<loads, cacheds, overlap>> /\ (cacheds[o].value = "fresh" \/ Joinable(o))
    <3>1. InflightIs'
      BY <2>3 DEF Coalesced, InflightIs, Running
    <3>2. cacheds[o].value = "none" => l \in DOMAIN loads /\ Running(l) /\ loads[l].cached = o
      BY <2>1, <2>3 DEF Joinable, Coalesced, InflightIs
    <3>. QED BY <2>2, <2>3, <3>1, <3>2 DEF Running
  <2>4. CASE /\ ~Joinable(o)
             /\ DOMAIN loads' = DOMAIN loads \cup {l} /\ l \notin DOMAIN loads
             /\ \A j \in DOMAIN loads : loads'[j] = loads[j]
             /\ loads'[l] = [cached |-> o, inode |-> 0, phase |-> "reading"]
    <3>1. \A i \in DOMAIN loads : Running(i) => loads[i].cached # o
      <4>1. 0 \notin DOMAIN loads
        BY <1>0 DEF Typed, CacheTypeOK
      <4>. QED BY <2>4, <4>1 DEF Joinable, Coalesced, InflightIs
    <3>2. loads'[l].cached = o /\ loads'[l].phase = "reading"
      BY <2>4
    <3>3. \A i \in DOMAIN loads' : loads'[i].phase # "ended" => cacheds'[loads'[i].cached].inflight = i
      BY <1>0, <2>1, <2>4, <3>1, <3>2, Referred DEF Coalesced, InflightIs, Running
    <3>4. \A p \in DOMAIN cacheds' : cacheds'[p].inflight # 0 =>
            cacheds'[p].inflight \in DOMAIN loads' /\ loads'[cacheds'[p].inflight].cached = p
      BY <2>1, <2>4, <3>2 DEF Coalesced, InflightIs
    <3>5. InflightIs'
      BY <3>3, <3>4 DEF InflightIs, Running
    <3>. QED BY <2>2, <2>4, <3>2, <3>5
  <2>5. \/ UNCHANGED <<loads, cacheds, overlap>> /\ (cacheds[o].value = "fresh" \/ Joinable(o))
        \/ /\ ~Joinable(o)
           /\ DOMAIN loads' = DOMAIN loads \cup {l} /\ l \notin DOMAIN loads
           /\ \A j \in DOMAIN loads : loads'[j] = loads[j]
           /\ loads'[l] = [cached |-> o, inode |-> 0, phase |-> "reading"]
    BY ZenonT(60), <1>0, <1>4, AskDoes
  <2>. QED BY <2>3, <2>4, <2>5
<1>. QED BY <1>2, <1>3, <1>4

\* A load on its way stays the one its object names.
LEMMA AdvanceCoalesces ==
  ASSUME Coalesced, Typed', NEW i \in DOMAIN loads, Advance(i)
  PROVE  InflightIs' /\ Served'
<1>1. LoadMoves(i, TRUE) /\ UNCHANGED <<held, cacheds, calls, overlap>>
  BY AdvanceDoes DEF Coalesced
<1>2. \A j \in DOMAIN loads : loads'[j].cached = loads[j].cached /\ (loads'[j].phase # "ended") = Running(j)
  BY <1>1 DEF LoadMoves, Running
<1>3. InflightIs'
  BY <1>1, <1>2 DEF Coalesced, InflightIs, LoadMoves, Running
<1>4. Served'
  BY <1>1, <1>2 DEF Coalesced, Served, LoadMoves, Running
<1>. QED BY <1>3, <1>4

\* A load that ends leaves nobody behind: all who wait for it are told.
LEMMA LoadEndCoalesces ==
  ASSUME Coalesced, NEW i \in DOMAIN loads, LoadAnswers(i) \/ LoadPanics(i)
  PROVE  InflightIs' /\ Served'
<1> DEFINE o == loads[i].cached
<1>0. Typed /\ InflightIs /\ Served /\ calls \in [Calls -> Call]
  BY DEF Coalesced, Typed, CacheTypeOK
<1>1. /\ LoadMoves(i, FALSE) /\ o \in DOMAIN cacheds /\ DOMAIN cacheds' = DOMAIN cacheds
      /\ \A p \in DOMAIN cacheds : p # o => cacheds'[p] = cacheds[p]
  BY <1>0, LoadEndDoes
<1>2. cacheds'[o].inflight \in {0, i} /\ (cacheds'[o].inflight = 0 \/ UNCHANGED cacheds)
  <2>1. cacheds \in Seq(Cached) /\ cacheds[o].inflight = i
    BY <1>0, <1>1 DEF LoadMoves, InflightIs, Typed, CacheTypeOK
  <2>. QED BY <1>1, <2>1 DEF LoadAnswers, LoadPanics
<1>3. PICK p \in {"ok", "error"} : Told(i, p)
  BY DEF LoadAnswers, LoadPanics
<1>4. \A c \in Calls : IF calls[c].phase = "waiting" /\ calls[c].load = i
                       THEN calls'[c].phase = p /\ calls'[c].cached = calls[c].cached
                       ELSE calls'[c] = calls[c]
  BY <1>0, <1>3, Broadcast DEF CallPhases
<1>5. \A j \in DOMAIN loads : j # i /\ Running(j) => loads[j].cached # o
  BY <1>0, <1>1 DEF InflightIs, LoadMoves
<1>6. \A j \in DOMAIN loads : loads'[j].phase # "ended" => j # i /\ Running(j) /\ loads'[j] = loads[j]
  BY <1>1 DEF LoadMoves, Running
<1>7. InflightIs'
  <2>1. \A j \in DOMAIN loads' : loads'[j].phase # "ended" => cacheds'[loads'[j].cached].inflight = j
    BY <1>0, <1>1, <1>5, <1>6, Referred DEF InflightIs, LoadMoves
  <2>2. \A j \in DOMAIN loads : loads'[j].cached = loads[j].cached
    BY <1>1 DEF LoadMoves
  <2>3. \A q \in DOMAIN cacheds' : cacheds'[q].inflight # 0 =>
          cacheds'[q].inflight \in DOMAIN loads' /\ loads'[cacheds'[q].inflight].cached = q
    BY <1>0, <1>1, <1>2, <2>2 DEF InflightIs, LoadMoves
  <2>. QED BY <2>1, <2>3 DEF InflightIs, Running
<1>8. Served'
  <2> SUFFICES ASSUME NEW c \in Calls, calls'[c].phase = "waiting"
               PROVE  /\ calls'[c].load \in DOMAIN loads' /\ loads'[calls'[c].load].phase # "ended"
                      /\ loads'[calls'[c].load].cached = calls'[c].cached
                      /\ cacheds'[calls'[c].cached].value = "none"
    BY DEF Served, Running
  <2>1. calls'[c] = calls[c] /\ calls[c].load # i
    BY <1>4
  <2>2. /\ calls[c].load \in DOMAIN loads /\ Running(calls[c].load)
        /\ loads[calls[c].load].cached = calls[c].cached /\ cacheds[calls[c].cached].value = "none"
    BY <1>0, <2>1 DEF Served
  <2>3. calls[c].cached # o /\ calls[c].cached \in DOMAIN cacheds
    BY <1>0, <1>5, <2>1, <2>2, Referred
  <2>. QED BY <1>1, <2>1, <2>2, <2>3 DEF LoadMoves, Running
<1>. QED BY <1>7, <1>8

\* Expiry makes no value disappear; eviction loses no waiter; a restart drops all.
LEMMA OtherStepCoalesces ==
  ASSUME Coalesced,
         Evict \/ (\E o \in DOMAIN cacheds : Expire(o)) \/ Restart \/ UNCHANGED cacheVars
  PROVE  InflightIs' /\ Served'
<1>0. Typed /\ InflightIs /\ Served /\ cacheds \in Seq(Cached)
  BY DEF Coalesced, Typed, CacheTypeOK
<1>1. CASE Evict \/ UNCHANGED cacheVars
  <2>1. UNCHANGED <<cacheds, calls, loads>>
    BY <1>1 DEF Evict, cacheVars, memory
  <2>. QED BY <1>0, <2>1 DEF InflightIs, Served, Running
<1>2. ASSUME NEW o \in DOMAIN cacheds, Expire(o) PROVE InflightIs' /\ Served'
  <2>1. UNCHANGED <<calls, loads>> /\ cacheds[o].value = "fresh"
    BY <1>2 DEF Expire
  <2>2. /\ DOMAIN cacheds' = DOMAIN cacheds /\ cacheds'[o].inflight = cacheds[o].inflight
        /\ \A p \in DOMAIN cacheds : p # o => cacheds'[p] = cacheds[p]
    <3> DEFINE e == [cacheds[o] EXCEPT !.value = "stale"]
    <3>1. cacheds' = [cacheds EXCEPT ![o] = e]
      BY <1>2 DEF Expire
    <3>2. cacheds[o] \in Cached
      BY <1>0
    <3>3. e \in Cached /\ e.inflight = cacheds[o].inflight
      BY <3>2 DEF Cached
    <3>. QED BY <1>0, <3>1, <3>3, ObjectReplaced
  <2>3. InflightIs'
    BY <1>0, <2>1, <2>2, Referred DEF InflightIs, Running
  <2>4. Served'
    BY <1>0, <2>1, <2>2, Referred DEF Served, Running
  <2>. QED BY <2>3, <2>4
<1>3. CASE Restart
  <2>1. cacheds' = <<>> /\ loads' = <<>>
    BY <1>3 DEF Restart
  <2>2. \A c \in Calls : calls'[c].phase # "waiting"
    BY <1>3 DEF Restart, NoCall
  <2>. QED BY <2>1, <2>2, EmptySequences DEF InflightIs, Served
<1>. QED BY <1>1, <1>2, <1>3

\* At first nothing runs and nobody waits.
LEMMA InitCoalesced == CacheInit => Coalesced
<1> SUFFICES ASSUME CacheInit PROVE Coalesced
  OBVIOUS
<1>1. Typed
  BY InitTyped
<1>2. DOMAIN loads = {} /\ \A c \in Calls : calls[c].phase # "waiting"
  BY EmptySequences DEF CacheInit, NoCall
<1>3. \A o \in DOMAIN cacheds : cacheds[o].inflight = 0
  <2>1. CASE cacheds = <<>>
    BY <2>1, EmptySequences
  <2>2. CASE cacheds = <<[NewCached EXCEPT !.value = "fresh"]>>
    BY <2>2 DEF NewCached
  <2>. QED BY <2>1, <2>2 DEF CacheInit
<1>. QED BY <1>1, <1>2, <1>3 DEF Coalesced, InflightIs, Served

\* Coalesced is inductive.
LEMMA StepCoalesces == Coalesced /\ [CacheNext]_cacheVars => Coalesced'
<1> SUFFICES ASSUME Coalesced, [CacheNext]_cacheVars PROVE Coalesced'
  OBVIOUS
<1>1. Typed'
  BY StepTypes DEF Coalesced
<1>2. InflightIs' /\ Served'
  BY <1>1, StepCases, CallStepCoalesces, AdvanceCoalesces, LoadEndCoalesces, OtherStepCoalesces
<1>. QED BY <1>1, <1>2 DEF Coalesced

\* Coalesced holds in every state.
LEMMA AlwaysCoalesced == CacheSpec => []Coalesced
BY InitCoalesced, StepCoalesces, PTL DEF CacheSpec

\* No caller is left waiting for a load that ended, failed or panicked.
THEOREM NoOneIsForgotten == CacheSpec => []WaitersAreServed
<1>1. Coalesced => WaitersAreServed
  BY DEF Coalesced, Served, WaitersAreServed
<1>. QED BY <1>1, AlwaysCoalesced, PTL

\* Callers with the same Cached object never load twice at a time.
THEOREM LoadsAreShared == CacheSpec => []OneLoad
<1>1. Coalesced => OneLoad
  BY DEF Coalesced, InflightIs, OneLoad
<1>. QED BY <1>1, AlwaysCoalesced, PTL

\* A failed refresh never reaches a caller while there is a value to give.
THEOREM FailuresAreHidden == CacheSpec => ErrorsOnlyWithoutValue
<1>1. ASSUME Coalesced, [CacheNext]_cacheVars, NEW c \in Calls,
             calls[c].phase # "error", calls'[c].phase = "error"
      PROVE  cacheds[calls[c].cached].value = "none" /\ Running(calls[c].load)
  <2>0. Typed /\ Served /\ calls \in [Calls -> Call]
    BY <1>1 DEF Coalesced, Typed, CacheTypeOK
  <2>1. ASSUME calls[c].phase = "waiting"
        PROVE  cacheds[calls[c].cached].value = "none" /\ Running(calls[c].load)
    BY <2>0, <2>1 DEF Served
  <2>2. ASSUME NEW d \in Calls, Get(d) \/ Insert(d) \/ GetCached(d) PROVE FALSE
    <3>1. \A e \in Calls : e # d => calls'[e] = calls[e]
      <4>1. CASE GetCached(d)
        BY <2>0, <4>1, AskDoes
      <4>2. CASE Get(d) \/ Insert(d)
        BY <2>0, <4>2 DEF Get, Insert, Moves
      <4>. QED BY <2>2, <4>1, <4>2
    <3>2. calls'[d].phase # "error"
      <4>1. CASE GetCached(d)
        BY <2>0, <4>1, AskDoes
      <4>2. CASE Get(d) \/ Insert(d)
        BY <2>0, <4>2 DEF Get, Insert, Moves
      <4>. QED BY <2>2, <4>1, <4>2
    <3>. QED BY <1>1, <3>1, <3>2
  <2>3. ASSUME NEW i \in DOMAIN loads, Advance(i) PROVE FALSE
    <3>1. UNCHANGED calls
      BY <2>3 DEF Advance, LoadReads, LoadRemoves, LoadProcesses, StoreCreates, StoreWrites,
                  StoreRenames, StoreFails
    <3>. QED BY <1>1, <3>1
  <2>4. ASSUME NEW i \in DOMAIN loads, LoadAnswers(i) \/ LoadPanics(i)
        PROVE  calls[c].phase = "waiting"
    <3>1. PICK p \in {"ok", "error"} : Told(i, p)
      BY <2>4 DEF LoadAnswers, LoadPanics
    <3>. QED BY <1>1, <2>0, <3>1, Broadcast DEF CallPhases
  <2>5. ASSUME Evict \/ (\E o \in DOMAIN cacheds : Expire(o)) \/ UNCHANGED cacheVars PROVE FALSE
    BY <1>1, <2>5 DEF Evict, Expire, cacheVars, memory
  <2>6. ASSUME Restart PROVE FALSE
    BY <1>1, <2>6 DEF Restart, NoCall
  <2>. QED BY <1>1, <2>1, <2>2, <2>3, <2>4, <2>5, <2>6, StepCases
<1>2. Coalesced /\ [CacheNext]_cacheVars =>
        [\A c \in Calls : calls[c].phase # "error" /\ calls'[c].phase = "error" =>
           /\ cacheds[calls[c].cached].value = "none"
           /\ Running(calls[c].load)]_cacheVars
  BY <1>1
<1>. QED BY <1>2, AlwaysCoalesced, PTL DEF CacheSpec, ErrorsOnlyWithoutValue

-----------------------------------------------------------------------------
(* The file, as long as loads do not overlap *)

Alone == ~overlap => \A i, j \in DOMAIN loads : Running(i) /\ Running(j) => i = j

\* The temporary file is that of the load that stores.
OwnTmp ==
  ~overlap => \A i \in DOMAIN loads :
    /\ loads[i].phase = "writing"  => loads[i].inode = tmp
    /\ loads[i].phase = "renaming" => tmp # 0 /\ inodes[tmp] = "whole"

Stored == file # 0 /\ inodes[file] = "whole"

\* Who has a value has it on disk, and no stored file is about to be removed.
Kept ==
  ~overlap /\ cacheFaults = 0 =>
    /\ \A c \in Calls : calls[c].phase = "ok" => Stored
    /\ \A o \in DOMAIN cacheds : cacheds[o].value # "none" => Stored
    /\ \A i \in DOMAIN loads : loads[i].phase = "answering" => Stored
    /\ \A i \in DOMAIN loads : loads[i].phase = "removing" => ~Stored

Tidy == Typed /\ Alone /\ OwnTmp /\ Kept

\* Faults are counted.
LEMMA FaultsAreNaturals == Typed => cacheFaults \in Nat
BY CacheBoundsAssumption DEF Typed, CacheTypeOK

\* A load spawned without overlap is alone, and an answer at once is of a stored value.
LEMMA CallStepTidies ==
  ASSUME Tidy, NEW c \in Calls, Get(c) \/ Insert(c) \/ GetCached(c)
  PROVE  Alone' /\ OwnTmp' /\ Kept'
<1>0. Typed /\ calls \in [Calls -> Call] /\ cacheds \in Seq(Cached)
  BY DEF Tidy, Typed, CacheTypeOK
<1>1. UNCHANGED disk /\ UNCHANGED cacheFaults
  BY DEF Get, Insert, GetCached, NoFault
<1>2. Stored' = Stored
  BY <1>1 DEF Stored, disk
<1>3. CASE Get(c)
  <2>1. (\A d \in Calls : d # c => calls'[d] = calls[d]) /\ calls'[c].phase # "ok"
    BY <1>0, <1>3 DEF Get, Moves
  <2>2. UNCHANGED <<loads, overlap>> /\ (UNCHANGED cacheds \/ cacheds' = Append(cacheds, NewCached))
    BY <1>3 DEF Get
  <2>3. \A o \in DOMAIN cacheds' : cacheds'[o].value # "none" => o \in DOMAIN cacheds /\ cacheds'[o] = cacheds[o]
    <3>1. CASE cacheds' = Append(cacheds, NewCached)
      <4>1. NewCached \in Cached /\ NewCached.value = "none"
        BY <1>0, LengthsAreNaturals DEF NewCached, Cached, Typed
      <4>2. /\ DOMAIN cacheds' = DOMAIN cacheds \cup {Len(cacheds) + 1}
            /\ cacheds'[Len(cacheds) + 1] = NewCached
            /\ \A o \in DOMAIN cacheds : cacheds'[o] = cacheds[o]
        BY <1>0, <3>1, <4>1, Appended
      <4>. QED BY <4>1, <4>2
    <3>. QED BY <2>2, <3>1
  <2>4. Alone' /\ OwnTmp'
    BY <1>1, <2>2 DEF Tidy, Alone, OwnTmp, Running, disk
  <2>5. Kept'
    BY <1>1, <1>2, <2>1, <2>2, <2>3 DEF Tidy, Kept
  <2>. QED BY <2>4, <2>5
<1>4. CASE Insert(c)
  <2>1. /\ UNCHANGED <<loads, cacheds, overlap>> /\ calls'[c].phase = "asking"
        /\ \A d \in Calls : d # c => calls'[d] = calls[d]
    BY <1>0, <1>4 DEF Insert, Moves
  <2>2. Alone' /\ OwnTmp'
    BY <1>1, <2>1 DEF Tidy, Alone, OwnTmp, Running, disk
  <2>3. Kept'
    BY <1>1, <1>2, <2>1 DEF Tidy, Kept
  <2>. QED BY <2>2, <2>3
<1>5. CASE GetCached(c)
  <2> DEFINE o == calls[c].cached
             l == cacheds'[o].inflight
  <2>1. /\ o \in DOMAIN cacheds /\ DOMAIN cacheds' = DOMAIN cacheds /\ cacheds'[o].value = cacheds[o].value
        /\ \A p \in DOMAIN cacheds : p # o => cacheds'[p] = cacheds[p]
        /\ calls'[c].phase = IF cacheds[o].value = "none" THEN "waiting" ELSE "ok"
        /\ \A d \in Calls : d # c => calls'[d] = calls[d]
    BY <1>0, <1>5, AskDoes
  <2>2. \A p \in DOMAIN cacheds' : cacheds'[p].value = cacheds[p].value
    BY <2>1
  <2>3. CASE UNCHANGED <<loads, cacheds, overlap>>
    <3>1. Alone' /\ OwnTmp'
      BY <1>1, <2>3 DEF Tidy, Alone, OwnTmp, Running, disk
    <3>2. Kept'
      BY <1>1, <1>2, <2>1, <2>3 DEF Tidy, Kept
    <3>. QED BY <3>1, <3>2
  <2>4. CASE /\ DOMAIN loads' = DOMAIN loads \cup {l}
             /\ \A j \in DOMAIN loads : loads'[j] = loads[j]
             /\ loads'[l] = [cached |-> o, inode |-> 0, phase |-> "reading"]
             /\ overlap' = (overlap \/ \E i \in DOMAIN loads : Running(i))
    <3>1. loads'[l].phase = "reading"
      BY <2>4
    <3>2. ~overlap' => ~overlap /\ \A i \in DOMAIN loads : ~Running(i)
      BY <2>4
    <3>3. Alone'
      BY <2>4, <3>2 DEF Alone, Running
    <3>4. OwnTmp'
      BY <1>1, <2>4, <3>1, <3>2 DEF Tidy, OwnTmp, disk
    <3>5. Kept'
      BY <1>1, <1>2, <2>1, <2>2, <2>4, <3>1, <3>2 DEF Tidy, Kept
    <3>. QED BY <3>3, <3>4, <3>5
  <2>5. \/ UNCHANGED <<loads, cacheds, overlap>>
        \/ /\ DOMAIN loads' = DOMAIN loads \cup {l}
           /\ \A j \in DOMAIN loads : loads'[j] = loads[j]
           /\ loads'[l] = [cached |-> o, inode |-> 0, phase |-> "reading"]
           /\ overlap' = (overlap \/ \E i \in DOMAIN loads : Running(i))
    BY ZenonT(60), <1>0, <1>5, AskDoes
  <2>. QED BY <2>3, <2>4, <2>5
<1>. QED BY <1>3, <1>4, <1>5

\* The load that goes on is the only one that runs.
LEMMA OnlyRunning ==
  ASSUME Tidy, Typed', NEW i \in DOMAIN loads, Advance(i), ~overlap
  PROVE  \A j \in DOMAIN loads' : j # i => loads'[j].phase = "ended"
BY AdvanceDoes DEF Tidy, Alone, LoadMoves, Running

\* What the invariants need to know of a load that goes on to phase p.
LEMMA AdvanceKeeps ==
  ASSUME Tidy, Typed', NEW i \in DOMAIN loads, Advance(i), NEW p, loads'[i].phase = p,
         ~overlap =>
           /\ p = "writing"  => loads'[i].inode = tmp'
           /\ p = "renaming" => tmp' # 0 /\ inodes'[tmp'] = "whole",
         ~overlap /\ cacheFaults' = 0 =>
           /\ cacheFaults = 0 /\ (Stored => Stored')
           /\ p = "answering" => Stored'
           /\ p = "removing"  => ~Stored'
  PROVE  Alone' /\ OwnTmp' /\ Kept'
<1>1. UNCHANGED <<cacheds, calls, overlap>> /\ LoadMoves(i, TRUE)
  BY AdvanceDoes DEF Tidy
<1>2. ~overlap => \A j \in DOMAIN loads' : j # i => loads'[j].phase = "ended"
  BY OnlyRunning
<1>3. Alone'
  BY <1>1, <1>2 DEF Alone, Running
<1>4. OwnTmp'
  BY <1>1, <1>2 DEF OwnTmp
<1>5. Kept'
  BY <1>1, <1>2 DEF Tidy, Kept
<1>. QED BY <1>3, <1>4, <1>5

\* The only running load stores into a file of its own, and shows it when it is whole.
LEMMA AdvanceTidies ==
  ASSUME Tidy, Typed', NEW i \in DOMAIN loads, Advance(i)
  PROVE  /\ Alone' /\ OwnTmp' /\ Kept'
         /\ ~overlap /\ file' # file /\ file' # 0 => inodes'[file'] = "whole"
<1>0. Typed /\ loads \in Seq(Load) /\ cacheFaults \in Nat
  BY FaultsAreNaturals DEF Tidy, Typed, CacheTypeOK
<1>1. \A p, n : Goes(i, p, n) => loads'[i].phase = p /\ loads'[i].inode = n
  BY <1>0 DEF Goes
<1>2. UNCHANGED disk => Stored' = Stored
  BY DEF Stored, disk
<1>3. file # 0 => file \in DOMAIN inodes /\ file # tmp
  <2>1. /\ inodes \in Seq({"partial", "whole"}) /\ file \in 0..Len(inodes)
        /\ (file = tmp => tmp = 0)
    BY <1>0 DEF Typed, CacheTypeOK
  <2>2. DOMAIN inodes = 1..Len(inodes) /\ Len(inodes) \in Nat
    BY <2>1
  <2>. QED BY <2>1, <2>2
<1>4. CASE LoadReads(i)
  <2>1. UNCHANGED <<disk, cacheFaults>>
    BY <1>4 DEF LoadReads, NoFault
  <2>2. \/ loads'[i].phase = "processing"
        \/ loads'[i].phase = "answering" /\ Stored
        \/ loads'[i].phase = "removing" /\ ~Stored
    BY <1>1, <1>4 DEF LoadReads, Stored
  <2>. QED BY <1>2, <2>1, <2>2, AdvanceKeeps DEF disk
<1>5. CASE LoadRemoves(i)
  <2>1. loads'[i].phase = "processing" /\ UNCHANGED cacheFaults /\ file' = 0 /\ loads[i].phase = "removing"
    BY <1>1, <1>5 DEF LoadRemoves, NoFault
  <2>2. ~overlap /\ cacheFaults = 0 => ~Stored
    BY <2>1 DEF Tidy, Kept
  <2>. QED BY <2>1, <2>2, AdvanceKeeps
<1>6. CASE LoadProcesses(i)
  <2>1. UNCHANGED disk /\ (cacheFaults' = cacheFaults \/ cacheFaults' = cacheFaults + 1)
    BY <1>6 DEF LoadProcesses, NoFault, Fault
  <2>2. loads'[i].phase \in {"creating", "failing"}
    BY <1>1, <1>6 DEF LoadProcesses, Processed
  <2>. QED BY <1>0, <1>2, <2>1, <2>2, AdvanceKeeps DEF disk
<1>7. CASE StoreCreates(i)
  <2>1. /\ UNCHANGED <<file, cacheFaults>> /\ loads'[i].phase = "writing" /\ loads'[i].inode = tmp'
        /\ \A n \in DOMAIN inodes : n # tmp => inodes'[n] = inodes[n]
    BY <1>0, <1>1, <1>7, Created DEF StoreCreates, NoFault
  <2>2. Stored' = Stored
    BY <1>3, <2>1 DEF Stored
  <2>. QED BY <2>1, <2>2, AdvanceKeeps
<1>8. CASE StoreWrites(i)
  <2>1. loads[i].phase = "writing" /\ loads[i].inode # 0 /\ UNCHANGED cacheFaults
    BY <1>0, <1>8 DEF StoreWrites, NoFault, Typed, Opened
  <2>2. /\ UNCHANGED <<file, tmp>> /\ loads'[i].phase = "renaming"
        /\ inodes'[loads[i].inode] = "whole"
        /\ \A n \in DOMAIN inodes : n # loads[i].inode => inodes'[n] = inodes[n]
    BY <1>0, <1>1, <1>8, <2>1, Written
  <2>3. ~overlap => loads[i].inode = tmp
    BY <2>1 DEF Tidy, OwnTmp
  <2>4. ~overlap => Stored' = Stored
    BY <1>3, <2>2, <2>3 DEF Stored
  <2>. QED BY <2>1, <2>2, <2>3, <2>4, AdvanceKeeps
<1>9. CASE StoreRenames(i)
  <2>1. /\ loads[i].phase = "renaming" /\ UNCHANGED <<inodes, cacheFaults>> /\ loads'[i].phase = "answering"
        /\ IF tmp = 0 THEN UNCHANGED <<file, tmp>> ELSE file' = tmp /\ tmp' = 0
    BY <1>1, <1>9 DEF StoreRenames, Renamed, NoFault
  <2>2. ~overlap => tmp # 0 /\ inodes[tmp] = "whole"
    BY <2>1 DEF Tidy, OwnTmp
  <2>3. ~overlap => Stored' /\ inodes'[file'] = "whole"
    BY <2>1, <2>2 DEF Stored
  <2>. QED BY <2>1, <2>3, AdvanceKeeps
<1>10. CASE StoreFails(i)
  <2>1. loads'[i].phase = "answering" /\ UNCHANGED disk /\ cacheFaults' = cacheFaults + 1
    BY <1>1, <1>10 DEF StoreFails, Fault
  <2>. QED BY <1>0, <2>1, AdvanceKeeps DEF disk
<1>. QED BY <1>4, <1>5, <1>6, <1>7, <1>8, <1>9, <1>10 DEF Advance

\* A load answers what is stored.
LEMMA LoadEndTidies ==
  ASSUME Tidy, NEW i \in DOMAIN loads, LoadAnswers(i) \/ LoadPanics(i)
  PROVE  Alone' /\ OwnTmp' /\ Kept'
<1> DEFINE o == loads[i].cached
<1>0. Typed /\ cacheFaults \in Nat /\ calls \in [Calls -> Call]
  BY FaultsAreNaturals DEF Tidy, Typed, CacheTypeOK
<1>1. /\ LoadMoves(i, FALSE) /\ UNCHANGED <<disk, overlap>>
      /\ o \in DOMAIN cacheds /\ DOMAIN cacheds' = DOMAIN cacheds
      /\ \A p \in DOMAIN cacheds : p # o => cacheds'[p] = cacheds[p]
  BY <1>0, LoadEndDoes
<1>2. loads'[i].phase = "ended" /\ DOMAIN loads' = DOMAIN loads
      /\ \A j \in DOMAIN loads : j # i => loads'[j] = loads[j]
  BY <1>1 DEF LoadMoves
<1>3. Alone'
  BY <1>1, <1>2 DEF Tidy, Alone, Running
<1>4. OwnTmp'
  BY <1>1, <1>2 DEF Tidy, OwnTmp, disk
<1>5. Stored' = Stored
  BY <1>1 DEF Stored, disk
<1>6. CASE LoadAnswers(i)
  <2>1. UNCHANGED cacheFaults
    BY <1>6 DEF LoadAnswers, NoFault
  <2>2. \A c \in Calls : calls'[c].phase = "ok" => calls[c].phase = "ok" \/ loads[i].phase = "answering"
    <3>1. CASE Told(i, "ok") /\ loads[i].phase = "answering"
      BY <3>1
    <3>2. CASE Told(i, "error")
      BY <1>0, <3>2, Broadcast DEF CallPhases
    <3>. QED BY <1>0, <1>6, <3>1, <3>2, AnswerDoes
  <2>3. \A p \in DOMAIN cacheds : cacheds'[p].value # "none" =>
                                   cacheds[p].value # "none" \/ loads[i].phase = "answering"
    BY <1>0, <1>1, <1>6, AnswerDoes
  <2>4. Kept'
    BY <1>1, <1>2, <1>5, <2>1, <2>2, <2>3 DEF Tidy, Kept
  <2>. QED BY <1>3, <1>4, <2>4
<1>7. CASE LoadPanics(i)
  <2>1. cacheFaults' # 0
    BY <1>0, <1>7 DEF LoadPanics, Fault
  <2>. QED BY <1>3, <1>4, <2>1 DEF Kept
<1>. QED BY <1>6, <1>7

\* The file survives expiry, eviction and the process.
LEMMA OtherStepTidies ==
  ASSUME Tidy,
         Evict \/ (\E o \in DOMAIN cacheds : Expire(o)) \/ Restart \/ UNCHANGED cacheVars
  PROVE  Alone' /\ OwnTmp' /\ Kept'
<1>0. Typed /\ cacheds \in Seq(Cached)
  BY DEF Tidy, Typed, CacheTypeOK
<1>1. UNCHANGED <<disk, overlap, cacheFaults>>
  BY DEF Evict, Expire, Restart, Lapse, cacheVars
<1>2. Stored' = Stored
  BY <1>1 DEF Stored, disk
<1>3. CASE Restart
  <2>1. DOMAIN loads' = {} /\ DOMAIN cacheds' = {}
    BY <1>3, EmptySequences DEF Restart
  <2>2. \A c \in Calls : calls'[c].phase = "ok" => calls[c].phase = "ok"
    BY <1>3 DEF Restart, NoCall
  <2>. QED BY <1>1, <1>2, <2>1, <2>2 DEF Tidy, Alone, OwnTmp, Kept
<1>4. CASE ~Restart
  <2>1. UNCHANGED <<loads, calls>>
    BY <1>4 DEF Evict, Expire, cacheVars, memory
  <2>2. /\ DOMAIN cacheds' = DOMAIN cacheds
        /\ \A p \in DOMAIN cacheds : cacheds'[p].value # "none" => cacheds[p].value # "none"
    <3>1. ASSUME NEW o \in DOMAIN cacheds, Expire(o)
          PROVE  /\ DOMAIN cacheds' = DOMAIN cacheds /\ cacheds[o].value = "fresh"
                 /\ \A p \in DOMAIN cacheds : p # o => cacheds'[p] = cacheds[p]
      BY <1>0, <3>1 DEF Expire
    <3>2. UNCHANGED cacheds \/ \E o \in DOMAIN cacheds : Expire(o)
      BY <1>4 DEF Evict, cacheVars, memory
    <3>. QED BY <3>1, <3>2
  <2>3. Alone' /\ OwnTmp'
    BY <1>1, <2>1 DEF Tidy, Alone, OwnTmp, Running, disk
  <2>4. Kept'
    BY <1>1, <1>2, <2>1, <2>2 DEF Tidy, Kept
  <2>. QED BY <2>3, <2>4
<1>. QED BY <1>3, <1>4

\* A value held at first is stored.
LEMMA InitTidy == CacheInit => Tidy
<1> SUFFICES ASSUME CacheInit PROVE Tidy
  OBVIOUS
<1>1. Typed
  BY InitTyped
<1>2. DOMAIN loads = {} /\ \A c \in Calls : calls[c].phase # "ok"
  BY EmptySequences DEF CacheInit, NoCall
<1>3. \A o \in DOMAIN cacheds : Stored
  <2>1. CASE cacheds = <<>>
    BY <2>1, EmptySequences
  <2>2. CASE inodes = <<"whole">>
    BY <2>2 DEF CacheInit, Stored
  <2>. QED BY <2>1, <2>2 DEF CacheInit
<1>. QED BY <1>1, <1>2, <1>3 DEF Tidy, Alone, OwnTmp, Kept

\* Tidy is inductive.
LEMMA StepTidies == Tidy /\ [CacheNext]_cacheVars => Tidy'
<1> SUFFICES ASSUME Tidy, [CacheNext]_cacheVars PROVE Tidy'
  OBVIOUS
<1>1. Typed'
  BY StepTypes DEF Tidy
<1>2. Alone' /\ OwnTmp' /\ Kept'
  BY <1>1, StepCases, CallStepTidies, AdvanceTidies, LoadEndTidies, OtherStepTidies
<1>. QED BY <1>1, <1>2 DEF Tidy

\* Tidy holds in every state.
LEMMA AlwaysTidy == CacheSpec => []Tidy
BY InitTidy, StepTidies, PTL DEF CacheSpec

\* Without overlapping loads and cacheFaults the next process finds on disk whatever
\* was answered.
THEOREM AnswersSurvive == CacheSpec => []AnsweredIsStored
<1>1. Tidy => AnsweredIsStored
  BY DEF Tidy, Kept, Stored, AnsweredIsStored
<1>. QED BY <1>1, AlwaysTidy, PTL

\* Without overlapping loads no store shows a partial file, whatever fails and
\* wherever the process ends.
THEOREM StoresAreAtomic == CacheSpec => WholeWithoutOverlap
<1>1. Tidy /\ [CacheNext]_cacheVars =>
        [~overlap /\ file' # file /\ file' # 0 => inodes'[file'] = "whole"]_cacheVars
  <2> SUFFICES ASSUME Tidy, [CacheNext]_cacheVars, ~overlap, file' # file, file' # 0
               PROVE  inodes'[file'] = "whole"
    OBVIOUS
  <2>1. Typed'
    BY StepTypes DEF Tidy
  <2>2. ASSUME NEW i \in DOMAIN loads, Advance(i) PROVE inodes'[file'] = "whole"
    BY <2>1, <2>2, AdvanceTidies
  <2>3. CASE \E i \in DOMAIN loads : LoadAnswers(i) \/ LoadPanics(i)
    BY <2>3 DEF LoadAnswers, LoadPanics, disk
  <2>4. CASE \E c \in Calls : Get(c) \/ Insert(c) \/ GetCached(c)
    BY <2>4 DEF Get, Insert, GetCached, disk
  <2>5. CASE Evict \/ (\E o \in DOMAIN cacheds : Expire(o)) \/ Restart \/ UNCHANGED cacheVars
    BY <2>5 DEF Evict, Expire, Restart, cacheVars, disk
  <2>. QED BY <2>2, <2>3, <2>4, <2>5, StepCases
<1>. QED BY <1>1, AlwaysTidy, PTL DEF CacheSpec, WholeWithoutOverlap
=============================================================================
