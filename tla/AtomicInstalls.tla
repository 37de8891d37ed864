--------------------------- MODULE AtomicInstalls ---------------------------
(***************************************************************************)
(* What the install queue promises the code that imports packages: the set *)
(* of packages it may rely on only grows, and each growth brings whole     *)
(* packages, dependencies included.  An esm.sh fallback is synthesized     *)
(* whole and brings none.                                                  *)
(***************************************************************************)
CONSTANTS Packages, Needs

VARIABLE usable   \* usable[p]: not there, from the CDN, or an esm.sh fallback

Source == {"none", "cdn", "esm"}

Whole(installed) ==
  \A p \in Packages : installed[p] = "cdn" => \A q \in Needs[p] : installed[q] # "none"

Init == usable \in [Packages -> Source] /\ Whole(usable)

Install ==
  \E more \in [Packages -> Source] :
    /\ \A p \in Packages : usable[p] # "none" => more[p] = usable[p]
    /\ Whole(more)
    /\ usable' = more

Spec == Init /\ [][Install]_usable
=============================================================================
