-------------------------------- MODULE MCCdn --------------------------------
(***************************************************************************)
(* The two concurrent parts of the CDN's server, on small instances: the   *)
(* tasks of one /dep_tree request, and the calls for one package release.  *)
(* They share no state, so in a behaviour one of them runs, and the other  *)
(* stays in one of its initial states.                                     *)
(***************************************************************************)
EXTENDS MCDepTree, MCPackageCache

VARIABLE active      \* which of them runs

cdnVars == <<active, vars, cacheVars>>

CdnInit ==
  /\ active \in {"tree", "package"}
  /\ Init
  /\ CacheInit /\ (active = "tree" => held = 0 /\ inodes = <<>>)

CdnNext ==
  \/ active = "tree" /\ Next
     /\ UNCHANGED <<active, cacheVars>>
  \/ active = "package" /\ CacheNext
     /\ UNCHANGED <<active, vars>>

CdnSpec ==
  /\ CdnInit /\ [][CdnNext]_cdnVars
  /\ WF_vars(active = "tree" /\ Progress) /\ WF_cacheVars(active = "package" /\ CacheProgress)
-----------------------------------------------------------------------------
\* The request is answered: in the behaviours in which it is made.
TreeIsAnswered == active = "tree" => Answers

\* Every call is answered, unless the process ends first.
CallsAreAnswered == active = "package" => EveryCallIsAnswered
=============================================================================
