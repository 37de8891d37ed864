----------------------------- MODULE MCPackages -----------------------------
(***************************************************************************)
(* How a document gets its packages, on small instances: PackageSupply at  *)
(* the first compile, InstallBatches for what is imported later.  What     *)
(* they share is the registry, which each of them models for its own       *)
(* questions, so in a behaviour one of them runs, and the other stays in   *)
(* one of its initial states.                                              *)
(***************************************************************************)
EXTENDS MCInstallBatches, PackageSupply, TLC

\* Two packages over a third, asked for by ranges of which npm or its mirror may have no
\* release, with and without a sidecar's lockset and zip: both whole, and the lockset of other
\* ranges, of a package the CDN dropped, with a package nothing requested at the top, or with a
\* release that is not of the range it is for.
MCSupNeeds == [p \in {"ui", "core", "dep"} |-> IF p = "dep" THEN {} ELSE {"dep"}]
MCSupNpm == ("ui" :> 2) @@ ("core" :> 1) @@ ("dep" :> 1)
MCSupMirror == ("ui" :> 1) @@ ("core" :> 1) @@ ("dep" :> 1)
MCSupShape == ("ui" :> "stub") @@ ("core" :> "module") @@ ("dep" :> "module")
EmptyZip == [pr \in SupPackages \X (1..SupTop) |-> "none"]
FullZip == [EmptyZip EXCEPT !["ui", 1] = "whole", !["core", 1] = "broken", !["dep", 1] = "whole"]
Asks(range) == ("ui" :> range) @@ ("core" :> {1})
Entries(names, depth) == {[n |-> p, v |-> {1}, d |-> depth] : p \in names}
Locked == [sound |-> TRUE, dependencies |-> Asks({1}), requested |-> Asks({1}),
           resolved |-> Entries({"ui", "core"}, 0) \cup Entries({"dep"}, 1)]
MCSupSidecars ==
  { [lockset |-> Locked, zip |-> FullZip],
    [lockset |-> [Locked EXCEPT !.sound = FALSE], zip |-> EmptyZip],
    [lockset |-> [Locked EXCEPT !.dependencies = Asks({2, 3}), !.requested = Asks({2, 3}),
                    !.resolved = Entries({"core"}, 0) \cup Entries({"dep"}, 1)], zip |-> FullZip],
    [lockset |-> [Locked EXCEPT !.resolved = @ \cup Entries({"dep"}, 0)], zip |-> EmptyZip],
    [lockset |-> [Locked EXCEPT !.resolved = {[n |-> "ui", v |-> {2}, d |-> 0]} \cup Entries({"core"}, 0)
                                               \cup Entries({"dep"}, 1)], zip |-> FullZip],
    [lockset |-> [Locked EXCEPT !.requested = Asks({3})], zip |-> EmptyZip] }
NoSidecar == [lockset |-> [Locked EXCEPT !.sound = FALSE], zip |-> EmptyZip]

VARIABLE active      \* which of them runs

packagesVars == <<active, vars, supVars>>

PackagesInit ==
  /\ active \in {"first compile", "batches"}
  /\ Init
  /\ SupInit /\ (active # "first compile" => supSidecar = NoSidecar /\ supJson = Asks({1}))

PackagesNext ==
  \/ active = "first compile" /\ SupNext
     /\ UNCHANGED <<active, vars>>
  \/ active = "batches" /\ Next
     /\ UNCHANGED <<active, supVars>>

PackagesSpec ==
  PackagesInit /\ [][PackagesNext]_packagesVars /\ WF_vars(active = "batches" /\ Progress)
=============================================================================
